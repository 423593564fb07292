----------------------------- MODULE StateFile -----------------------------
(***************************************************************************)
(* pkg/state: several processes (CLI invocations in one directory) load    *)
(* and persist .score-flyio/state.yaml.                                    *)
(*                                                                         *)
(* One action is one system call.  The disk is kept by inode, because that *)
(* is what makes the rename atomic for a process that has the old file     *)
(* open: a name points to an inode, an open file keeps its inode.  flock   *)
(* locks belong to a process and end with it.  The file system is external *)
(* to the repository.                                                      *)
(***************************************************************************)
EXTENDS Naturals, FiniteSets

CONSTANTS Processes,
          Inodes,
          Payloads,      \* everything a state holds but its schema version
          Newest,        \* StateSchemaVersion
          InitialFiles,  \* what state.yaml may hold at the start
          NoFile, Unread, NoInode, NoProcess,
          Empty, Partial, \* a file cut to length zero, or half written
          MaxPersists,   \* bound: calls of Persist
          MaxFaults,     \* bound: failing system calls
          MaxCrashes     \* bound: killed processes

VARIABLES disk,     \* inode -> content
          temp,     \* the inode state.yaml.temp names
          state,    \* the inode state.yaml names
          holder,   \* the process that has state.yaml.lock
          pc,
          fd,       \* the file each process has open (the lock file aside)
          want,     \* what Persist was called with
          seen,     \* what LoadStateDirectory read last
          answer,   \* how the last Persist returned
          budget

files == <<disk, temp, state>>
fileVars == <<files, holder, pc, fd, want, seen, answer, budget>>

\* A file of schema version 0 was written before versions were recorded; the
\* version after the newest stands for all later ones.
Document == [schema : 0 .. Newest + 1, payload : Payloads]

DocumentOf == [schema : {Newest}, payload : Payloads]

Content == Document \cup {Empty, Partial}

ASSUME StateAssumption ==
    /\ Newest \in Nat \ {0}
    /\ InitialFiles \subseteq Document
    /\ NoInode \notin Inodes
    /\ NoProcess \notin Processes
    /\ {Empty, Partial, NoFile, Unread} \cap Document = {}
    /\ {NoFile, Unread} \cap {Empty, Partial} = {}
    /\ Empty # Partial /\ NoFile # Unread
    /\ {MaxPersists, MaxFaults, MaxCrashes} \subseteq Nat

Spend(what) == budget' = [budget EXCEPT ![what] = @ + 1]
FaultsLeft == budget.faults < MaxFaults
Goto(p, phase) == pc' = [pc EXCEPT ![p] = phase]
Close(p) == fd' = [fd EXCEPT ![p] = NoInode]

FreeInodes == Inodes \ ({state, temp} \cup {fd[p] : p \in Processes})

-----------------------------------------------------------------------------
(***************************************************************************)
(* LoadStateDirectory.                                                     *)
(***************************************************************************)
OpenState(p) ==
    /\ pc[p] = "idle"
    /\ IF state = NoInode
       THEN seen' = [seen EXCEPT ![p] = NoFile] /\ UNCHANGED <<pc, fd>>
       ELSE /\ fd' = [fd EXCEPT ![p] = state]
            /\ Goto(p, "read")
            /\ UNCHANGED seen
    /\ UNCHANGED <<files, holder, want, answer, budget>>

Read(p) ==
    /\ pc[p] = "read"
    /\ seen' = [seen EXCEPT ![p] = disk[fd[p]]]
    /\ Close(p)
    /\ Goto(p, "idle")
    /\ UNCHANGED <<files, holder, want, answer, budget>>

\* What Load returns without an error: no file, or one that decodes and whose
\* schema is not newer than the program's.
AcceptsAnySchema(content) == content \in Document \cup {NoFile}
Accepts(content) ==
    content = NoFile \/ (content \in Document /\ content.schema <= Newest)

-----------------------------------------------------------------------------
(***************************************************************************)
(* Persist.  Every command loads first and stops if that fails.            *)
(***************************************************************************)
\* The directory and the lock file are created if they are not there yet.
Begin(p, payload) ==
    /\ pc[p] = "idle"
    /\ Accepts(seen[p])
    /\ budget.persists < MaxPersists
    /\ Spend("persists")
    /\ want' = [want EXCEPT ![p] = [schema |-> Newest, payload |-> payload]]
    /\ Goto(p, "lock")
    /\ UNCHANGED <<files, holder, fd, seen, answer>>

LockShared(p) ==
    /\ pc[p] = "lock"
    /\ holder' = p
    /\ Goto(p, "open")
    /\ UNCHANGED <<files, fd, want, seen, answer, budget>>

Lock(p) ==
    /\ pc[p] = "lock"
    /\ holder = NoProcess
    /\ holder' = p
    /\ Goto(p, "open")
    /\ UNCHANGED <<files, fd, want, seen, answer, budget>>

\* os.WriteFile cuts an existing file to length zero: the temp file a killed
\* process left is used again.
OpenTemp(p) ==
    /\ pc[p] = "open"
    /\ \E i \in (IF temp # NoInode THEN {temp} ELSE FreeInodes) :
        /\ temp' = i
        /\ disk' = [disk EXCEPT ![i] = Empty]
        /\ fd' = [fd EXCEPT ![p] = i]
    /\ Goto(p, "write")
    /\ UNCHANGED <<state, holder, want, seen, answer, budget>>

WriteSome(p) ==
    /\ pc[p] = "write"
    /\ disk[fd[p]] = Empty
    /\ disk' = [disk EXCEPT ![fd[p]] = Partial]
    /\ UNCHANGED <<temp, state, holder, pc, fd, want, seen, answer, budget>>

WriteAll(p) ==
    /\ pc[p] = "write"
    /\ disk' = [disk EXCEPT ![fd[p]] = want[p]]
    /\ Close(p)
    /\ Goto(p, "rename")
    /\ UNCHANGED <<temp, state, holder, want, seen, answer, budget>>

Rename(p) ==
    /\ pc[p] = "rename"
    /\ temp # NoInode
    /\ state' = temp
    /\ temp' = NoInode
    /\ Goto(p, "saved")
    /\ UNCHANGED <<disk, holder, fd, want, seen, answer, budget>>

\* An error of any call returns through the deferred unlock; a temp file that
\* is there stays there.
PersistFails(p) ==
    /\ pc[p] \in {"open", "write", "rename"}
    /\ FaultsLeft
    /\ Spend("faults")
    /\ Close(p)
    /\ Goto(p, "failed")
    /\ UNCHANGED <<files, holder, want, seen, answer>>

UnlockAnyway(p) ==
    /\ pc[p] \in {"saved", "failed"}
    /\ holder' = NoProcess
    /\ answer' = [answer EXCEPT ![p] = "ok"]
    /\ Goto(p, "idle")
    /\ UNCHANGED <<files, fd, want, seen, budget>>

\* The error of unlocking is dropped.
Unlock(p) ==
    /\ pc[p] \in {"saved", "failed"}
    /\ holder' = NoProcess
    /\ answer' = [answer EXCEPT ![p] = IF pc[p] = "saved" THEN "ok" ELSE "error"]
    /\ Goto(p, "idle")
    /\ UNCHANGED <<files, fd, want, seen, budget>>

\* Opening or locking the lock file failed.
LockFails(p) ==
    /\ pc[p] = "lock"
    /\ FaultsLeft
    /\ Spend("faults")
    /\ answer' = [answer EXCEPT ![p] = "error"]
    /\ Goto(p, "idle")
    /\ UNCHANGED <<files, holder, fd, want, seen>>

-----------------------------------------------------------------------------
\* The process is killed; the system closes its files and drops its lock.
CrashKeepsLock(p) ==
    /\ pc[p] # "idle"
    /\ budget.crashes < MaxCrashes
    /\ Spend("crashes")
    /\ Close(p)
    /\ seen' = [seen EXCEPT ![p] = Unread]
    /\ Goto(p, "idle")
    /\ UNCHANGED <<files, holder, want, answer>>

Crash(p) ==
    /\ pc[p] # "idle"
    /\ budget.crashes < MaxCrashes
    /\ Spend("crashes")
    /\ holder' = IF holder = p THEN NoProcess ELSE holder
    /\ Close(p)
    /\ seen' = [seen EXCEPT ![p] = Unread]
    /\ Goto(p, "idle")
    /\ UNCHANGED <<files, want, answer>>

Persisting(p) ==
    \/ Lock(p) \/ OpenTemp(p) \/ WriteAll(p) \/ Rename(p) \/ Unlock(p)

Step(p) ==
    \/ OpenState(p) \/ Read(p)
    \/ \E payload \in Payloads : Begin(p, payload)
    \/ Persisting(p) \/ WriteSome(p) \/ PersistFails(p) \/ LockFails(p) \/ Crash(p)

FileInit ==
    /\ \/ state = NoInode /\ disk = [i \in Inodes |-> Empty]
       \/ /\ state \in Inodes
          /\ \E file \in InitialFiles :
                disk = [i \in Inodes |-> IF i = state THEN file ELSE Empty]
    /\ temp = NoInode
    /\ holder = NoProcess
    /\ pc = [p \in Processes |-> "idle"]
    /\ fd = [p \in Processes |-> NoInode]
    /\ \E w \in DocumentOf : want = [p \in Processes |-> w]
    /\ seen = [p \in Processes |-> Unread]
    /\ answer = [p \in Processes |-> "none"]
    /\ budget = [persists |-> 0, faults |-> 0, crashes |-> 0]

FileNext == \E p \in Processes : Step(p)

FileSpec == FileInit /\ [][FileNext]_fileVars

\* System calls return, and flock hands the lock to a waiter when it is free.
FileFairness == \A p \in Processes : WF_fileVars(Persisting(p))

FairFile == FileSpec /\ FileFairness

-----------------------------------------------------------------------------
Phases == {"idle", "read", "lock", "open", "write", "rename", "saved", "failed"}

\* Inodes hold documents or what a writer left of one; names and open files are
\* inodes; what is written is of this version's schema.
FileTypeOK ==
    /\ disk \in [Inodes -> Content]
    /\ {temp, state} \subseteq Inodes \cup {NoInode}
    /\ holder \in Processes \cup {NoProcess}
    /\ pc \in [Processes -> Phases]
    /\ fd \in [Processes -> Inodes \cup {NoInode}]
    /\ want \in [Processes -> DocumentOf]
    /\ seen \in [Processes -> Content \cup {NoFile, Unread}]
    /\ answer \in [Processes -> {"none", "ok", "error"}]
    /\ budget \in [persists : Nat, faults : Nat, crashes : Nat]

\* "important that we overwrite this file atomically" (state.go:106): no load,
\* however it interleaves with persists and kills, reads a file cut to length
\* zero or half written.
NeverTorn == \A p \in Processes : seen[p] \notin {Empty, Partial}

\* A state file of a newer version of the tool is never overwritten by this one
\* (state.go:134-136 refuses it at load, Persist itself does not look).
NewerKept ==
    [][state # NoInode /\ disk[state] \in Document /\ disk[state].schema > Newest =>
        UNCHANGED state /\ disk'[state] = disk[state]]_fileVars

\* A persist that is not killed returns, although other processes are killed
\* while they hold the lock.
PersistEnds == \A p \in Processes : pc[p] = "lock" ~> pc[p] = "idle"

(***************************************************************************)
(* state.yaml is an atomic register.  The moment of a read is its open, the *)
(* moment of a write its rename.                                           *)
(***************************************************************************)
Register == INSTANCE StateRegister WITH
    Clients <- Processes,
    Values <- Document,
    register <- IF state = NoInode THEN NoFile ELSE disk[state],
    view <- [p \in Processes |-> IF pc[p] = "read" THEN disk[fd[p]] ELSE seen[p]],
    intent <- want,
    phase <- [p \in Processes |->
                IF pc[p] \in {"idle", "read"} THEN "idle"
                ELSE IF pc[p] = "saved" THEN "written" ELSE "writing"],
    answer <- answer

\* Load and Persist implement atomic reads and writes.
ImplementsRegister == Register!Spec
=============================================================================
