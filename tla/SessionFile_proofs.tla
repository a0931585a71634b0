-------------------------- MODULE SessionFile_proofs --------------------------
(***************************************************************************)
(* Proofs about SessionFile, for any number of clients: the session file   *)
(* implements SessionRegister, a session on disk is never lost, a failed   *)
(* save is undone and a synced one survives.                               *)
(*                                                                         *)
(* The argument: a file is written only before it is synced, and reaches   *)
(* the path only after it.  So the inductive invariant says that from the  *)
(* sync on a client's file is whole, in the cache and on disk, and that    *)
(* any file at the path is whole in both and no longer being written; and  *)
(* a path that exists on disk exists for processes too.  For the history   *)
(* of the renames: the path, for processes, is never older than a rename   *)
(* whose fsync is still to come, and from a successful fsync on it is no   *)
(* older on disk either.                                                   *)
(***************************************************************************)
EXTENDS SessionFile, TLAPS

(* The phases after tmp.Sync(), and those before the rename *)
AfterSync == {"close", "rename", "dirsync", "saved", "unsynced"}
BeforeRename == {"start", "write", "sync", "close", "rename", "cleanup", "failed",
                 "leftover"}

WholeAfterSync ==
    \A c \in Clients :
        /\ pc[c] = "sync" => cached[c] = Whole
        /\ pc[c] \in AfterSync => cached[c] = Whole /\ onDisk[c] = Whole

AtPath(f) == f # NoFile => cached[f] = Whole /\ onDisk[f] = Whole

NotYetAtPath ==
    \A c \in Clients : pc[c] \in BeforeRename => path # c /\ pathOnDisk # c

TempKept ==
    \A c \in temp : pc[c] \in {"write", "sync", "close", "rename", "cleanup", "leftover", "killed"}

(* File f is client c's rename, or a later one. *)
NoOlder(f, c) == f \in Clients /\ place[f] >= place[c]

RenamesInOrder ==
    /\ \A c \in Clients : pc[c] = "dirsync" => NoOlder(path, c)
    /\ \A c \in synced : /\ pc[c] \in {"saved", "killed"}
                         /\ NoOlder(path, c) /\ NoOlder(pathOnDisk, c)

(* The path is never removed. *)
PathStays == path = NoFile => pathOnDisk = NoFile

IInv ==
    /\ TypeOK
    /\ WholeAfterSync
    /\ AtPath(path)
    /\ AtPath(pathOnDisk)
    /\ NotYetAtPath
    /\ PathStays
    /\ TempKept
    /\ RenamesInOrder

--------------------------------------------------------------------------------
(* The invariant holds initially: the only file at the path is the old     *)
(* session, which is whole.                                                *)
LEMMA InitEstablishes == Init => IInv
  BY FilesAssumption
  DEF Init, IInv, TypeOK, WholeAfterSync, AtPath, NotYetAtPath, PathStays,
      TempKept, RenamesInOrder, Files, Extent, Whole, Ended, AfterSync, BeforeRename

(* One step of a client's saveSession keeps the invariant. *)
LEMMA SavePreserves ==
    ASSUME IInv, NEW c \in Clients, saveSession(c)
    PROVE  IInv'
  <1> USE FilesAssumption
  <1> USE DEF IInv, TypeOK, WholeAfterSync, AtPath, NotYetAtPath, PathStays, TempKept,
              RenamesInOrder, NoOlder, Files, Extent, Whole, Ended, AfterSync, BeforeRename,
              Step, diskVars, historyVars
  <1>1. CASE CreateTemp(c)  BY <1>1 DEF CreateTemp
  <1>2. CASE Write(c)       BY <1>2 DEF Write
  <1>3. CASE WriteFails(c)
    <2>1. PICK n \in Extent : cached' = [cached EXCEPT ![c] = n]
      BY <1>3 DEF WriteFails
    <2> QED  BY <1>3, <2>1 DEF WriteFails
  <1>4. CASE Sync(c)        BY <1>4 DEF Sync, Synced
  <1>5. CASE Close(c)       BY <1>5 DEF Close
  <1>6. CASE Rename(c)
    <2>1. /\ pc[c] = "rename" /\ c \notin synced /\ path # c /\ pathOnDisk # c
          /\ place' = [place EXCEPT ![c] = renames + 1]
      BY <1>6 DEF Rename
    <2>2. /\ place'[c] = renames + 1
          /\ \A d \in Clients : place'[d] <= renames + 1 /\ place'[d] \in Nat
          /\ \A d \in Clients \ {c} : place'[d] = place[d]
      BY <2>1
    <2>3. RenamesInOrder'
      BY <1>6, <2>1, <2>2 DEF Rename
    <2> HIDE DEF RenamesInOrder
    <2> QED  BY <1>6, <2>3 DEF Rename
  <1>7. CASE DirSync(c)     BY <1>7 DEF DirSync, DirSynced
  <1>8. CASE DirSyncFails(c) BY <1>8 DEF DirSyncFails
  <1>9. CASE FailsEarly(c)  BY <1>9 DEF FailsEarly
  <1>10. CASE Fails(c)      BY <1>10 DEF Fails
  <1>11. CASE Cleanup(c)    BY <1>11 DEF Cleanup, CleanupTemp
  <1>12. CASE CleanupFails(c) BY <1>12 DEF CleanupFails
  <1> QED
    BY <1>1, <1>2, <1>3, <1>4, <1>5, <1>6, <1>7, <1>8, <1>9, <1>10, <1>11, <1>12
    DEF saveSession

(* Every step keeps the invariant. *)
LEMMA NextPreserves == IInv /\ [Next]_vars => IInv'
  <1> SUFFICES ASSUME IInv, [Next]_vars PROVE IInv'
    OBVIOUS
  <1> USE FilesAssumption
  <1>1. CASE \E c \in Clients : saveSession(c)
    BY <1>1, SavePreserves
  <1> USE DEF IInv, TypeOK, WholeAfterSync, AtPath, NotYetAtPath, PathStays, TempKept,
              RenamesInOrder, NoOlder, Files, Extent, Whole, Ended, AfterSync, BeforeRename,
              diskVars, historyVars
  <1>2. CASE \E c \in Clients : Kill(c)
    BY <1>2 DEF Kill
  <1>3. CASE \E c \in Clients : WriteBack(c)
    <2>1. PICK c \in Clients, n \in Extent :
            /\ n <= cached[c] /\ onDisk[c] < n
            /\ onDisk' = [onDisk EXCEPT ![c] = n]
            /\ UNCHANGED <<pc, temp, cached, path, pathOnDisk, historyVars>>
      BY <1>3 DEF WriteBack
    <2> QED  BY <2>1
  <1>4. CASE DirWriteBack
    BY <1>4 DEF DirWriteBack
  <1>5. CASE PowerFailure
    BY <1>5 DEF PowerFailure
  <1>6. CASE UNCHANGED vars
    BY <1>6 DEF vars
  <1> QED
    BY <1>1, <1>2, <1>3, <1>4, <1>5, <1>6 DEF Next

(* The inductive invariant holds of every behaviour of the clients. *)
THEOREM Invariance == Spec => []IInv
  BY InitEstablishes, NextPreserves, PTL DEF Spec

(* A save that failed never puts its file at the path, and leaves its     *)
(* temporary file only when the Remove itself failed or the client died.   *)
THEOREM FailureIsUndone == Spec => []FailedSaveIsUndone
  <1>1. IInv => FailedSaveIsUndone
    BY DEF IInv, FailedSaveIsUndone, TempKept, NotYetAtPath, BeforeRename, Ended, TypeOK
  <1> QED
    BY <1>1, Invariance, PTL

(* Once the fsync of the directory has succeeded, no crash and no other    *)
(* client brings back an older session.                                    *)
THEOREM Durability == Spec => []SyncedSaveIsDurable
  <1>1. IInv => SyncedSaveIsDurable
    BY DEF IInv, SyncedSaveIsDurable, RenamesInOrder, NoOlder
  <1> QED
    BY <1>1, Invariance, PTL

--------------------------------------------------------------------------------
(* With the invariant, loadSession sees exactly the file at the path. *)
LEMMA LoadIsPath ==
    ASSUME IInv
    PROVE  /\ loadSession(path, cached) = path
           /\ loadSession(pathOnDisk, onDisk) = pathOnDisk
  BY DEF IInv, AtPath, loadSession

(* What a step may do to the path. *)
LEMMA PathSteps ==
    ASSUME IInv, [Next]_vars
    PROVE  \/ path' \in Files /\ pathOnDisk' = pathOnDisk
           \/ pathOnDisk' = path /\ path' = path
           \/ path' = pathOnDisk /\ pathOnDisk' = pathOnDisk
           \/ path' = path /\ pathOnDisk' = pathOnDisk
  <1>1. ASSUME NEW c \in Clients, saveSession(c)
        PROVE  \/ path' \in Files /\ pathOnDisk' = pathOnDisk
               \/ pathOnDisk' = path /\ path' = path
               \/ path' = path /\ pathOnDisk' = pathOnDisk
    BY <1>1 DEF saveSession, CreateTemp, Write, WriteFails, Sync, Close, Rename, DirSync,
                DirSyncFails, DirSynced, FailsEarly, Fails, Cleanup, CleanupFails, Files,
                diskVars
  <1> QED
    BY <1>1 DEF Next, Kill, WriteBack, DirWriteBack, PowerFailure, diskVars, vars

(* The session file behaves as an atomic register that crashes back to     *)
(* what was last persisted: saveSession's "atomically".                    *)
THEOREM Refinement == Spec => ImplementsRegister
  <1>1. Init => Register!Init
    BY FilesAssumption DEF Init, Register!Init, loadSession, Files, Whole
  <1>2. IInv /\ IInv' /\ [Next]_vars => [Register!Next]_Register!vars
    <2> SUFFICES ASSUME IInv, IInv', [Next]_vars
                 PROVE  [Register!Next]_Register!vars
      OBVIOUS
    <2>1. /\ loadSession(path, cached) = path
          /\ loadSession(pathOnDisk, onDisk) = pathOnDisk
      BY LoadIsPath
    <2>2. /\ loadSession(path, cached)' = path'
          /\ loadSession(pathOnDisk, onDisk)' = pathOnDisk'
      BY DEF IInv, AtPath, loadSession
    <2> QED
      BY <2>1, <2>2, PathSteps
      DEF Register!Next, Register!Replace, Register!Persist, Register!PowerFailure,
          Register!vars
  <1> QED
    BY <1>1, <1>2, Invariance, PTL DEF Spec, ImplementsRegister, Register!Spec

(* A session that is on disk stays loadable, across every step and crash.  *)
THEOREM Survival == Spec => SessionSurvives
  <1>1. IInv /\ IInv' /\ [Next]_vars
          => [loadSession(pathOnDisk, onDisk) \in Files
                => /\ loadSession(pathOnDisk', onDisk') \in Files
                   /\ loadSession(path', cached') \in Files]_vars
    <2> SUFFICES ASSUME IInv, IInv', Next, loadSession(pathOnDisk, onDisk) \in Files
                 PROVE  /\ loadSession(pathOnDisk', onDisk') \in Files
                        /\ loadSession(path', cached') \in Files
      OBVIOUS
    <2>1. pathOnDisk \in Files
      BY LoadIsPath
    <2>2. loadSession(pathOnDisk', onDisk') = pathOnDisk' /\ loadSession(path', cached') = path'
      BY DEF IInv, AtPath, loadSession
    <2>3. path \in Files
      BY <2>1, FilesAssumption DEF IInv, TypeOK, PathStays, Files
    <2> QED
      BY <2>1, <2>2, <2>3, PathSteps
  <1> QED
    BY <1>1, Invariance, PTL DEF Spec, SessionSurvives
================================================================================
