------------------------------ MODULE SessionFile ------------------------------
(***************************************************************************)
(* saveSession (session.go) on a file system that caches writes, run by    *)
(* several clients that share one session path, with failing system calls, *)
(* killed clients and power failures.                                      *)
(*                                                                         *)
(* Each client saves one session, through a temporary file of its own      *)
(* (os.CreateTemp picks an unused name), so the client names the file and  *)
(* the session.  The file system keeps, for the data of each file and for  *)
(* the directory entry of the path, what processes see and what is on      *)
(* disk; it may write back either at any time, a file also in part.        *)
(***************************************************************************)
EXTENDS Naturals

CONSTANTS
    Clients,   \* the processes that save a session
    Old,       \* the session file of an earlier run
    NoFile     \* the path does not exist

ASSUME FilesAssumption ==
    /\ Old \notin Clients
    /\ NoFile \notin Clients \cup {Old}

Files == Clients \cup {Old}

(* How much of a file there is: 0 nothing, 1 a part, 2 all of it. *)
Extent == 0..2
Whole == 2

VARIABLES
    pc,         \* where each client's saveSession is
    temp,       \* clients whose temporary name exists
    cached,     \* the extent of each file, as processes see it
    onDisk,     \* its extent on disk
    path,       \* the file at the session path, as processes see it
    pathOnDisk, \* the file at the session path, on disk
    renames,    \* history: how many files were renamed to the path
    place,      \* history: place[c], the number of c's rename among them, or 0
    synced      \* history: clients whose directory fsync has succeeded

diskVars == <<onDisk, pathOnDisk>>
historyVars == <<renames, place, synced>>
vars == <<pc, temp, cached, path, diskVars, historyVars>>

Step(c, from, to) == pc[c] = from /\ pc' = [pc EXCEPT ![c] = to]

--------------------------------------------------------------------------------
(* saveSession *)

(* MkdirAll, CreateTemp, and Chmod before anything is written *)
CreateTemp(c) ==
    /\ Step(c, "start", "write")
    /\ temp' = temp \cup {c}
    /\ UNCHANGED <<cached, path, diskVars, historyVars>>

Write(c) ==
    /\ Step(c, "write", "sync")
    /\ cached' = [cached EXCEPT ![c] = Whole]
    /\ UNCHANGED <<temp, path, diskVars, historyVars>>

(* A write may stop half way: it reports an error. *)
WriteFails(c) ==
    /\ Step(c, "write", "cleanup")
    /\ \E n \in Extent : cached' = [cached EXCEPT ![c] = n]
    /\ UNCHANGED <<temp, path, diskVars, historyVars>>

(* tmp.Sync() *)
NotSynced(c) == onDisk
Synced(c) == [onDisk EXCEPT ![c] = cached[c]]

Sync(c) ==
    /\ Step(c, "sync", "close")
    /\ onDisk' = Synced(c)
    /\ UNCHANGED <<temp, cached, path, pathOnDisk, historyVars>>

Close(c) ==
    /\ Step(c, "close", "rename")
    /\ UNCHANGED <<temp, cached, path, diskVars, historyVars>>

Rename(c) ==
    /\ Step(c, "rename", "dirsync")
    /\ temp' = temp \ {c}
    /\ path' = c
    /\ renames' = renames + 1
    /\ place' = [place EXCEPT ![c] = renames + 1]
    /\ UNCHANGED <<cached, diskVars, synced>>

(* fsync of the directory; its failure is only logged *)
DirNotSynced == pathOnDisk
DirSynced == path

DirSync(c) ==
    /\ Step(c, "dirsync", "saved")
    /\ pathOnDisk' = DirSynced
    /\ synced' = synced \cup {c}
    /\ UNCHANGED <<temp, cached, onDisk, path, renames, place>>

DirSyncFails(c) ==
    /\ Step(c, "dirsync", "unsynced")
    /\ UNCHANGED <<temp, cached, path, diskVars, historyVars>>

(* An error before there is a temporary file, or of a call up to the       *)
(* rename, which leaves the cleanup to the deferred function               *)
FailsEarly(c) ==
    /\ Step(c, "start", "failed")
    /\ UNCHANGED <<temp, cached, path, diskVars, historyVars>>

Fails(c) ==
    /\ pc[c] \in {"sync", "close", "rename"}
    /\ pc' = [pc EXCEPT ![c] = "cleanup"]
    /\ UNCHANGED <<temp, cached, path, diskVars, historyVars>>

(* The deferred Close and Remove, unless committed *)
CleanupSkipped(c) == temp
CleanupTemp(c) == temp \ {c}

Cleanup(c) ==
    /\ Step(c, "cleanup", "failed")
    /\ temp' = CleanupTemp(c)
    /\ UNCHANGED <<cached, path, diskVars, historyVars>>

(* The error of the Remove is ignored: the temporary file stays. *)
CleanupFails(c) ==
    /\ Step(c, "cleanup", "leftover")
    /\ UNCHANGED <<temp, cached, path, diskVars, historyVars>>

Ended == {"saved", "unsynced", "failed", "leftover", "killed"}

saveSession(c) ==
    \/ CreateTemp(c) \/ Write(c) \/ WriteFails(c) \/ Sync(c) \/ Close(c)
    \/ Rename(c) \/ DirSync(c) \/ DirSyncFails(c)
    \/ FailsEarly(c) \/ Fails(c) \/ Cleanup(c) \/ CleanupFails(c)

--------------------------------------------------------------------------------
(* The machine *)

Kill(c) ==
    /\ pc[c] \notin Ended
    /\ pc' = [pc EXCEPT ![c] = "killed"]
    /\ UNCHANGED <<temp, cached, path, diskVars, historyVars>>

(* Write-back of data, in part or all of it, and of the directory *)
WriteBack(c) ==
    /\ \E n \in Extent : n <= cached[c] /\ onDisk[c] < n /\ onDisk' = [onDisk EXCEPT ![c] = n]
    /\ UNCHANGED <<pc, temp, cached, path, pathOnDisk, historyVars>>

DirWriteBack ==
    /\ pathOnDisk # path
    /\ pathOnDisk' = path
    /\ UNCHANGED <<pc, temp, cached, onDisk, path, historyVars>>

(* Every client dies and processes see what was on disk.  Temporary names  *)
(* are gone or back, as the directory had them.                            *)
PowerFailure ==
    /\ pc' = [c \in Clients |-> "killed"]
    /\ temp' \in SUBSET (temp \cup {c \in Clients : pc[c] \notin {"start", "killed"}})
    /\ cached' = onDisk
    /\ path' = pathOnDisk
    /\ UNCHANGED <<diskVars, historyVars>>

--------------------------------------------------------------------------------
Init ==
    /\ pc = [c \in Clients |-> "start"]
    /\ temp = {}
    /\ cached = [f \in Files |-> IF f = Old THEN Whole ELSE 0]
    /\ onDisk = cached
    /\ path \in {Old, NoFile}
    /\ pathOnDisk = path
    /\ renames = 0
    /\ place = [c \in Clients |-> 0]
    /\ synced = {}

Next ==
    \/ \E c \in Clients : saveSession(c) \/ Kill(c) \/ WriteBack(c)
    \/ DirWriteBack
    \/ PowerFailure

Spec == Init /\ [][Next]_vars

--------------------------------------------------------------------------------
(* Properties *)

(* Types, for the proofs. *)
TypeOK ==
    /\ pc \in [Clients -> {"start", "write", "sync", "close", "rename", "dirsync",
                           "cleanup"} \cup Ended]
    /\ temp \subseteq Clients
    /\ cached \in [Files -> Extent]
    /\ onDisk \in [Files -> Extent]
    /\ path \in Files \cup {NoFile}
    /\ pathOnDisk \in Files \cup {NoFile}
    /\ renames \in Nat
    /\ place \in [Clients -> 0..renames]
    /\ synced \subseteq Clients

(* loadSession, on what processes see or what is on disk: a file that is   *)
(* not whole is no session the register knows.                             *)
Torn == <<>>
loadSession(file, extent) ==
    IF file = NoFile THEN NoFile
    ELSE IF extent[file] = Whole THEN file ELSE Torn

(* saveSession's comment: written "atomically", a crash "can therefore     *)
(* never leave a truncated session file".                                  *)
Register == INSTANCE SessionRegister WITH
              Sessions <- Files,
              NoSession <- NoFile,
              current <- loadSession(path, cached),
              persistent <- loadSession(pathOnDisk, onDisk)

ImplementsRegister == Register!Spec

(* A save that reported failure is undone: whatever other clients save     *)
(* meanwhile, its file never turns up at the path, and its temporary file  *)
(* is left behind only if the Remove itself failed or the client died.     *)
FailedSaveIsUndone ==
    \A c \in Clients :
        /\ pc[c] \in {"failed", "leftover"} => path # c /\ pathOnDisk # c
        /\ c \in temp /\ pc[c] \in Ended => pc[c] \in {"leftover", "killed"}

(* "fsync the directory so the rename itself survives power failure": once *)
(* that has succeeded, the path has this session or one that was saved     *)
(* later, on disk and for processes, for good.                             *)
SyncedSaveIsDurable ==
    \A c \in synced, f \in {path, pathOnDisk} : f \in Clients /\ place[f] >= place[c]

(* A session on disk is never lost again: at no point between two saves,   *)
(* and after no crash, is there no loadable session at the path.           *)
SessionSurvives ==
    [][loadSession(pathOnDisk, onDisk) \in Files
         => loadSession(pathOnDisk', onDisk') \in Files /\ loadSession(path', cached') \in Files]_vars
================================================================================
