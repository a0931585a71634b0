---------------------------- MODULE MC_ProxyTraffic ----------------------------
(***************************************************************************)
(* With a configured MTU: both lanes with one DNS server, one lane with    *)
(* two and with none.  With MTU probing: one lane, and a tunnel without an *)
(* address.                                                                *)
(***************************************************************************)
EXTENDS ProxyTraffic

MCSenders == {"pinger", "handler", "v4", "v6"}
Manual(families, servers) == [families |-> families, servers |-> servers, manual |-> TRUE]
Probing(families, servers) == [families |-> families, servers |-> servers, manual |-> FALSE]
MCSetups ==
    {Manual({"v4", "v6"}, 1), Manual({"v4"}, 2), Manual({"v4"}, 0),
     Probing({"v4"}, 1), Probing({}, 1)}
================================================================================
