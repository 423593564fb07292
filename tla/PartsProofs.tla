---------------------------- MODULE PartsProofs ----------------------------
(***************************************************************************)
(* Theorems about two of the parts of Apply that MCParts checks, which     *)
(* share nothing: the state file, for any number of processes, loads,      *)
(* persists, failing calls and kills; and the waits for a machine, for any *)
(* timeouts, intervals, retry policy and latency.                          *)
(***************************************************************************)
EXTENDS StateFile, Waits, FiniteSetTheorems, WellFoundedInduction, TLAPS

-----------------------------------------------------------------------------
(***************************************************************************)
(* The state file: no load reads a torn file, and state.yaml is an atomic  *)
(* register.                                                               *)
(***************************************************************************)
\* Between flock and unlock a process is the holder, hence alone.
Critical == {"open", "write", "rename", "saved", "failed"}

Exclusion == \A p \in Processes : pc[p] \in Critical => holder = p

\* The file names and open files: what state.yaml names, or a reader has open,
\* is complete, and is not the file a writer works on.
FilesInv ==
    /\ state # NoInode => disk[state] \in Document /\ temp # state
    /\ \A p \in Processes :
        /\ pc[p] = "read" =>
            fd[p] \in Inodes /\ disk[fd[p]] \in Document /\ fd[p] # temp
        /\ pc[p] = "write" => temp \in Inodes /\ fd[p] = temp
        /\ pc[p] = "rename" => temp \in Inodes /\ disk[temp] = want[p]
        /\ seen[p] \in Document \cup {NoFile, Unread}

IInv == FileTypeOK /\ Exclusion /\ FilesInv

LEMMA WrittenDocument == DocumentOf \subseteq Document /\ Document \subseteq Content
  BY StateAssumption DEF DocumentOf, Document, Content

LEMMA InitInv == FileInit => IInv
<1>. SUFFICES ASSUME FileInit PROVE IInv
  OBVIOUS
<1>1. disk \in [Inodes -> Content]
  BY StateAssumption, WrittenDocument DEF FileInit, Content
<1>2. FileTypeOK
  BY <1>1 DEF FileInit, FileTypeOK, Phases
<1>3. Exclusion
  BY DEF FileInit, Exclusion, Critical
<1>4. FilesInv
  BY StateAssumption DEF FileInit, FilesInv
<1>. QED
  BY <1>2, <1>3, <1>4 DEF IInv

LEMMA TypeStep ==
    ASSUME IInv, [FileNext]_fileVars
    PROVE  FileTypeOK'
<1>. USE DEF IInv, FileTypeOK, Goto, Close, Phases
<1>1. CASE UNCHANGED fileVars
  BY <1>1 DEF fileVars, files
<1>. SUFFICES ASSUME NEW p \in Processes, Step(p) PROVE FileTypeOK'
  BY <1>1 DEF FileNext
<1>2. ASSUME Spend("persists") \/ Spend("faults") \/ Spend("crashes")
      PROVE  budget' \in [persists : Nat, faults : Nat, crashes : Nat]
  BY <1>2 DEF Spend
<1>3. CASE OpenState(p)
  BY <1>3 DEF OpenState, files
<1>4. CASE Read(p)
  <2>1. disk[fd[p]] \in Content
    BY <1>4, WrittenDocument DEF Read, FilesInv
  <2>. QED
    BY <1>4, <2>1 DEF Read, files
<1>5. ASSUME NEW payload \in Payloads, Begin(p, payload) PROVE FileTypeOK'
  BY <1>2, <1>5 DEF Begin, files, DocumentOf
<1>6. CASE Lock(p)
  BY <1>6 DEF Lock, files
<1>7. CASE OpenTemp(p)
  BY <1>7 DEF OpenTemp, FreeInodes, Content
<1>8. CASE WriteSome(p)
  BY <1>8 DEF WriteSome, Content
<1>9. CASE WriteAll(p)
  BY <1>9, WrittenDocument DEF WriteAll
<1>10. CASE Rename(p)
  BY <1>10 DEF Rename
<1>11. CASE PersistFails(p)
  BY <1>2, <1>11 DEF PersistFails, files
<1>12. CASE Unlock(p)
  BY <1>12 DEF Unlock, files
<1>13. CASE LockFails(p)
  BY <1>2, <1>13 DEF LockFails, files
<1>14. CASE Crash(p)
  BY <1>2, <1>14 DEF Crash, files
<1>. QED
  BY <1>3, <1>4, <1>5, <1>6, <1>7, <1>8, <1>9, <1>10, <1>11, <1>12, <1>13, <1>14
  DEF Step, Persisting

LEMMA ExclusionStep ==
    ASSUME IInv, [FileNext]_fileVars
    PROVE  Exclusion'
<1>. USE DEF IInv, FileTypeOK, Exclusion, Critical, Goto, Close
<1>1. CASE UNCHANGED fileVars
  BY <1>1 DEF fileVars
<1>. SUFFICES ASSUME NEW p \in Processes, Step(p) PROVE Exclusion'
  BY <1>1 DEF FileNext
<1>2. CASE OpenState(p) \/ Read(p) \/ LockFails(p) \/ \E payload \in Payloads : Begin(p, payload)
  BY <1>2 DEF OpenState, Read, LockFails, Begin
<1>3. CASE Lock(p) \/ Unlock(p)
  BY <1>3, StateAssumption DEF Lock, Unlock
<1>4. CASE OpenTemp(p) \/ WriteSome(p) \/ WriteAll(p) \/ Rename(p) \/ PersistFails(p)
  BY <1>4 DEF OpenTemp, WriteSome, WriteAll, Rename, PersistFails
<1>5. CASE Crash(p)
  BY <1>5 DEF Crash
<1>. QED
  BY <1>2, <1>3, <1>4, <1>5 DEF Step, Persisting

LEMMA FilesStep ==
    ASSUME IInv, [FileNext]_fileVars
    PROVE  FilesInv'
<1>. USE DEF IInv, FileTypeOK, FilesInv, Goto, Close
<1>1. CASE UNCHANGED fileVars
  BY <1>1 DEF fileVars, files
<1>. SUFFICES ASSUME NEW p \in Processes, Step(p) PROVE FilesInv'
  BY <1>1 DEF FileNext
<1>2. CASE OpenState(p)
  BY <1>2, StateAssumption DEF OpenState, files
<1>3. CASE Read(p)
  BY <1>3 DEF Read, files
<1>4. CASE \E payload \in Payloads : Begin(p, payload)
  BY <1>4 DEF Begin, files
<1>5. CASE Lock(p) \/ LockFails(p) \/ Unlock(p) \/ PersistFails(p)
  BY <1>5 DEF Lock, LockFails, Unlock, PersistFails, files
<1>6. CASE Crash(p)
  BY <1>6 DEF Crash, files
\* Nobody else writes, and neither state.yaml nor a file open for reading is
\* the temp file.
<1>7. CASE OpenTemp(p)
  <2>1. PICK i \in Inodes :
            /\ temp' = i /\ disk' = [disk EXCEPT ![i] = Empty]
            /\ fd' = [fd EXCEPT ![p] = i]
            /\ i # state
            /\ \A q \in Processes : pc[q] = "read" => fd[q] # i
    <3>1. PICK i \in (IF temp # NoInode THEN {temp} ELSE FreeInodes) :
            /\ temp' = i /\ disk' = [disk EXCEPT ![i] = Empty]
            /\ fd' = [fd EXCEPT ![p] = i]
      BY <1>7 DEF OpenTemp
    <3>2. CASE temp # NoInode
      <4>1. i = temp /\ i \in Inodes
        BY <3>1, <3>2
      <4>2. temp # state
        BY <3>2
      <4>. QED
        BY <3>1, <4>1, <4>2
    <3>3. CASE temp = NoInode
      <4>1. i \in FreeInodes
        BY <3>1, <3>3
      <4>2. i \in Inodes /\ i # state /\ i \notin {fd[q] : q \in Processes}
        BY <4>1 DEF FreeInodes
      <4>3. \A q \in Processes : fd[q] # i
        BY <4>2
      <4>. QED
        BY <3>1, <4>2, <4>3
    <3>. QED
      BY <3>2, <3>3
  <2>2. \A q \in Processes \ {p} : pc[q] \notin {"write", "rename"}
    BY <1>7 DEF OpenTemp, Exclusion, Critical
  <2>3. pc' = [pc EXCEPT ![p] = "write"] /\ UNCHANGED <<state, seen, want>>
    BY <1>7 DEF OpenTemp
  <2>4. ASSUME NEW q \in Processes, pc'[q] = "read"
        PROVE  fd'[q] = fd[q] /\ disk'[fd[q]] = disk[fd[q]] /\ pc[q] = "read"
    BY <2>1, <2>3, <2>4
  <2>5. state # NoInode => disk'[state] = disk[state] /\ temp' # state
    BY <2>1
  <2>. QED
    BY <2>1, <2>2, <2>3, <2>4, <2>5
<1>8. CASE WriteSome(p) \/ WriteAll(p)
  <2>1. /\ pc[p] = "write" /\ fd[p] = temp /\ temp \in Inodes
        /\ \E content : disk' = [disk EXCEPT ![temp] = content]
        /\ UNCHANGED <<temp, state, seen, want>>
    BY <1>8 DEF WriteSome, WriteAll
  <2>2. \A q \in Processes \ {p} : pc[q] \notin {"write", "rename"}
    BY <2>1 DEF Exclusion, Critical
  <2>3. \A q \in Processes : pc[q] = "read" => disk'[fd[q]] = disk[fd[q]]
    BY <2>1
  <2>4. state # NoInode => disk'[state] = disk[state]
    BY <2>1
  <2>5. CASE WriteSome(p)
    BY <2>1, <2>2, <2>3, <2>4, <2>5 DEF WriteSome
  <2>6. CASE WriteAll(p)
    BY <2>1, <2>2, <2>3, <2>4, <2>6 DEF WriteAll
  <2>. QED
    BY <1>8, <2>5, <2>6
<1>9. CASE Rename(p)
  <2>1. disk[temp] \in Document
    BY <1>9, WrittenDocument DEF Rename
  <2>2. \A q \in Processes \ {p} : pc[q] \notin {"write", "rename"}
    BY <1>9 DEF Rename, Exclusion, Critical
  <2>. QED
    BY <1>9, <2>1, <2>2, StateAssumption DEF Rename
<1>. QED
  BY <1>2, <1>3, <1>4, <1>5, <1>6, <1>7, <1>8, <1>9 DEF Step, Persisting

LEMMA Inductive == FileSpec => []IInv
<1>1. IInv /\ [FileNext]_fileVars => IInv'
  BY TypeStep, ExclusionStep, FilesStep DEF IInv
<1>. QED
  BY <1>1, InitInv, PTL DEF FileSpec

(***************************************************************************)
(* The variables keep their types.                                         *)
(***************************************************************************)
THEOREM StateTypes == FileSpec => []FileTypeOK
<1>1. IInv => FileTypeOK
  BY DEF IInv
<1>. QED
  BY <1>1, Inductive, PTL

(***************************************************************************)
(* No load reads a file that is cut to length zero or half written.        *)
(***************************************************************************)
THEOREM LoadsAreWhole == FileSpec => []NeverTorn
<1>1. IInv => NeverTorn
  BY StateAssumption DEF IInv, FilesInv, NeverTorn
<1>. QED
  BY <1>1, Inductive, PTL

-----------------------------------------------------------------------------
(***************************************************************************)
(* Every step is a step of the register or changes nothing of it: an open  *)
(* is the read, a rename the write; opening, writing and cutting the temp  *)
(* file cannot be seen.                                                    *)
(***************************************************************************)
RegisterVars == Register!vars

LEMMA ReadersUndisturbed ==
    ASSUME IInv, NEW p \in Processes, Step(p)
    PROVE  /\ \A q \in Processes : pc[q] = "read" => disk'[fd[q]] = disk[fd[q]]
           /\ state # NoInode => disk'[state] = disk[state]
<1>. USE DEF IInv, FileTypeOK, FilesInv
<1>1. CASE UNCHANGED disk
  BY <1>1
<1>2. CASE OpenTemp(p)
  <2>1. PICK i \in (IF temp # NoInode THEN {temp} ELSE FreeInodes) :
            disk' = [disk EXCEPT ![i] = Empty]
    BY <1>2 DEF OpenTemp
  <2>2. CASE temp # NoInode
    <3>1. i = temp
      BY <2>1, <2>2
    <3>. QED
      BY <2>1, <2>2, <3>1
  <2>3. CASE temp = NoInode
    <3>1. i \in FreeInodes
      BY <2>1, <2>3
    <3>2. i # state /\ i \notin {fd[q] : q \in Processes}
      BY <3>1 DEF FreeInodes
    <3>3. \A q \in Processes : fd[q] # i
      BY <3>2
    <3>. QED
      BY <2>1, <3>2, <3>3
  <2>. QED
    BY <2>2, <2>3
<1>3. CASE WriteSome(p) \/ WriteAll(p)
  <2>1. temp \in Inodes /\ \E content : disk' = [disk EXCEPT ![temp] = content]
    BY <1>3 DEF WriteSome, WriteAll
  <2>. QED
    BY <2>1
<1>. QED
  BY <1>1, <1>2, <1>3
  DEF Step, Persisting, OpenState, Read, Begin, Lock, Rename, PersistFails, Unlock, LockFails, Crash, files

LEMMA RegisterStep ==
    ASSUME IInv, IInv', [FileNext]_fileVars
    PROVE  [Register!Next]_RegisterVars
<1>. USE DEF IInv, FileTypeOK, Goto, Close
<1>1. CASE UNCHANGED fileVars
  BY <1>1 DEF fileVars, files, RegisterVars, Register!vars
<1>. SUFFICES ASSUME NEW p \in Processes, Step(p)
              PROVE  Register!Next \/ UNCHANGED RegisterVars
  BY <1>1 DEF FileNext
<1>2. /\ \A q \in Processes : pc[q] = "read" => disk'[fd[q]] = disk[fd[q]]
      /\ state # NoInode => disk'[state] = disk[state]
  BY ReadersUndisturbed
<1>3. CASE OpenState(p)
  <2>1. Register!Read(p)
    BY <1>3, StateAssumption DEF OpenState, files, Register!Read
  <2>. QED
    BY <2>1 DEF Register!Next
<1>4. CASE Read(p)
  <2>1. UNCHANGED RegisterVars
    BY <1>4 DEF Read, files, RegisterVars, Register!vars
  <2>. QED
    BY <2>1
<1>5. ASSUME NEW payload \in Payloads, Begin(p, payload)
      PROVE  Register!Next
  <2>1. [schema |-> Newest, payload |-> payload] \in Document
    BY WrittenDocument DEF DocumentOf
  <2>2. Register!Begin(p, [schema |-> Newest, payload |-> payload])
    BY <1>5 DEF Begin, files, Register!Begin
  <2>. QED
    BY <2>1, <2>2 DEF Register!Next
<1>6. CASE Lock(p)
  <2>1. UNCHANGED RegisterVars
    BY <1>6 DEF Lock, files, RegisterVars, Register!vars
  <2>. QED
    BY <2>1
<1>7. CASE OpenTemp(p)
  <2>1. UNCHANGED RegisterVars
    BY <1>2, <1>7 DEF OpenTemp, RegisterVars, Register!vars
  <2>. QED
    BY <2>1
<1>8. CASE WriteSome(p)
  <2>1. UNCHANGED RegisterVars
    BY <1>2, <1>8 DEF WriteSome, RegisterVars, Register!vars
  <2>. QED
    BY <2>1
<1>9. CASE WriteAll(p)
  <2>1. UNCHANGED RegisterVars
    BY <1>2, <1>9 DEF WriteAll, RegisterVars, Register!vars
  <2>. QED
    BY <2>1
<1>10. CASE Rename(p)
  <2>1. Register!Commit(p)
    BY <1>10, StateAssumption DEF Rename, FilesInv, Register!Commit
  <2>. QED
    BY <2>1 DEF Register!Next
<1>11. CASE PersistFails(p)
  <2>1. UNCHANGED RegisterVars
    BY <1>11 DEF PersistFails, files, RegisterVars, Register!vars
  <2>. QED
    BY <2>1
<1>12. CASE Unlock(p)
  <2>1. Register!End(p)
    BY <1>12 DEF Unlock, files, Register!End
  <2>. QED
    BY <2>1 DEF Register!Next
<1>12a. CASE LockFails(p)
  <2>1. Register!End(p)
    BY <1>12a DEF LockFails, files, Register!End
  <2>. QED
    BY <2>1 DEF Register!Next
<1>13. CASE Crash(p)
  <2>1. Register!Crash(p)
    BY <1>13 DEF Crash, files, Register!Crash
  <2>. QED
    BY <2>1 DEF Register!Next
<1>. QED
  BY <1>3, <1>4, <1>5, <1>6, <1>7, <1>8, <1>9, <1>10, <1>11, <1>12, <1>12a, <1>13
  DEF Step, Persisting

(***************************************************************************)
(* Loads and persists are atomic reads and writes.                         *)
(***************************************************************************)
THEOREM RegisterRefined == FileSpec => ImplementsRegister
<1>1. FileInit => Register!Init
  BY StateAssumption, WrittenDocument DEF FileInit, Register!Init
<1>2. IInv /\ IInv' /\ [FileNext]_fileVars => [Register!Next]_(Register!vars)
  BY RegisterStep DEF RegisterVars
<1>. QED
  BY <1>1, <1>2, Inductive, PTL DEF FileSpec, ImplementsRegister, Register!Spec

-----------------------------------------------------------------------------
(***************************************************************************)
(* A newer state file can only have been there from the start, since a     *)
(* rename puts a document of this version in its place.  Hence nobody who  *)
(* runs has seen anything but that file, which no load accepts: no process *)
(* gets as far as the lock.                                                *)
(***************************************************************************)
Newer == state # NoInode /\ disk[state].schema > Newest

NewerInv ==
    Newer => \A p \in Processes :
        /\ pc[p] \in {"idle", "read"}
        /\ pc[p] = "read" => fd[p] = state
        /\ seen[p] \in {Unread, disk[state]}

LEMMA NewerInit == FileInit => NewerInv
  BY StateAssumption DEF FileInit, NewerInv

\* Only a rename changes what the name state.yaml leads to, and not to a newer
\* document.
LEMMA NewerWasThere ==
    ASSUME IInv, NEW p \in Processes, Step(p)
    PROVE  /\ Rename(p) => ~Newer'
           /\ ~Rename(p) => UNCHANGED state
           /\ Newer' => Newer /\ UNCHANGED state /\ disk'[state] = disk[state]
<1>1. ASSUME Rename(p) PROVE ~Newer'
  <2>1. disk[temp] = want[p] /\ temp \in Inodes /\ want[p] \in DocumentOf
    BY <1>1 DEF Rename, IInv, FilesInv, FileTypeOK
  <2>2. disk'[state'] = want[p]
    BY <1>1, <2>1 DEF Rename
  <2>3. want[p].schema = Newest
    BY <2>1 DEF DocumentOf
  <2>. QED
    BY <2>2, <2>3, StateAssumption DEF Newer
<1>2. ~Rename(p) => UNCHANGED state
  BY DEF Step, Persisting, OpenState, Read, Begin, Lock, OpenTemp, WriteSome,
         WriteAll, PersistFails, Unlock, LockFails, Crash, files
<1>3. state # NoInode => disk'[state] = disk[state]
  BY ReadersUndisturbed
<1>. QED
  BY <1>1, <1>2, <1>3 DEF Newer

LEMMA NewerStep ==
    ASSUME IInv, NewerInv, [FileNext]_fileVars
    PROVE  NewerInv'
<1>1. CASE UNCHANGED fileVars
  BY <1>1 DEF fileVars, files, NewerInv, Newer
<1>. SUFFICES ASSUME NEW p \in Processes, Step(p), Newer' PROVE NewerInv'
  BY <1>1 DEF FileNext, NewerInv
<1>2. Newer /\ UNCHANGED state /\ disk'[state] = disk[state] /\ ~Rename(p)
  BY NewerWasThere
<1>3. ~Accepts(seen[p])
  <2>1. seen[p] \in {Unread, disk[state]}
    BY <1>2 DEF NewerInv
  <2>2. disk[state] \in Document /\ disk[state].schema \in Nat /\ disk[state].schema > Newest
    BY <1>2, StateAssumption DEF Newer, IInv, FilesInv, Document
  <2>3. disk[state] # NoFile /\ Unread \notin Document /\ Unread # NoFile
    BY <2>2, StateAssumption
  <2>. QED
    BY <2>1, <2>2, <2>3, StateAssumption DEF Accepts
<1>4. pc[p] \in {"idle", "read"}
  BY <1>2 DEF NewerInv
<1>5. CASE OpenState(p)
  BY <1>2, <1>5 DEF OpenState, files, Newer, NewerInv, Goto, IInv, FileTypeOK
<1>6. CASE Read(p)
  BY <1>2, <1>6 DEF Read, files, NewerInv, Goto, Close, IInv, FileTypeOK
<1>7. CASE Crash(p)
  BY <1>2, <1>7 DEF Crash, files, NewerInv, Goto, Close, IInv, FileTypeOK
<1>8. OpenState(p) \/ Read(p) \/ Crash(p)
  BY <1>3, <1>4 DEF Step, Persisting, Begin, Lock, LockFails, OpenTemp, WriteSome,
                    WriteAll, Rename, PersistFails, Unlock
<1>. QED
  BY <1>5, <1>6, <1>7, <1>8

(***************************************************************************)
(* A state file of a newer version of the tool is never overwritten by     *)
(* this one, although Persist does not look at what it replaces            *)
(* (state.go:134-136 refuses it at load).                                  *)
(***************************************************************************)
THEOREM NewerFilesAreKept == FileSpec => NewerKept
<1>1. ASSUME IInv, NewerInv, [FileNext]_fileVars
      PROVE  [state # NoInode /\ disk[state] \in Document /\ disk[state].schema > Newest =>
                UNCHANGED state /\ disk'[state] = disk[state]]_fileVars
  <2>1. CASE UNCHANGED fileVars
    BY <2>1
  <2>. SUFFICES ASSUME NEW p \in Processes, Step(p), Newer
                PROVE  UNCHANGED state /\ disk'[state] = disk[state]
    BY <1>1, <2>1 DEF FileNext, Newer
  <2>2. pc[p] # "rename"
    BY <1>1 DEF NewerInv
  <2>3. ~Rename(p)
    BY <2>2 DEF Rename
  <2>. QED
    BY <1>1, <2>3, NewerWasThere, ReadersUndisturbed DEF Newer
<1>. QED
  BY <1>1, Inductive, NewerInit, NewerStep, PTL DEF FileSpec, NewerKept

-----------------------------------------------------------------------------
(***************************************************************************)
(* What PersistEnds rests on.  The lock is held exactly while a process is *)
(* between flock and unlock: nobody else is then, and a killed process     *)
(* leaves no lock behind.                                                  *)
(***************************************************************************)
OneWriter == \A p \in Processes : holder = p <=> pc[p] \in Critical

\* Only a reader and a writer have a file open.
OpenInv == \A p \in Processes : pc[p] \notin {"read", "write"} => fd[p] = NoInode

LEMMA OneWriterStep ==
    ASSUME IInv, OneWriter, FileNext
    PROVE  OneWriter'
<1>. USE StateAssumption DEF IInv, FileTypeOK, OneWriter, Critical, Goto
<1>. PICK p \in Processes : Step(p)
  BY DEF FileNext
<1>1. CASE OpenState(p) \/ Read(p) \/ (\E payload \in Payloads : Begin(p, payload)) \/ LockFails(p)
  BY <1>1 DEF OpenState, Read, Begin, LockFails
<1>2. CASE Lock(p)
  BY <1>2 DEF Lock
<1>3. CASE OpenTemp(p) \/ WriteAll(p) \/ Rename(p) \/ WriteSome(p) \/ PersistFails(p)
  BY <1>3 DEF OpenTemp, WriteAll, Rename, WriteSome, PersistFails
<1>4. CASE Unlock(p) \/ Crash(p)
  BY <1>4 DEF Unlock, Crash
<1>. QED
  BY <1>1, <1>2, <1>3, <1>4 DEF Step, Persisting

LEMMA OpenStep ==
    ASSUME IInv, OpenInv, FileNext
    PROVE  OpenInv'
<1>. USE DEF IInv, FileTypeOK, OpenInv, Goto, Close
<1>. PICK p \in Processes : Step(p)
  BY DEF FileNext
<1>1. CASE OpenState(p) \/ Read(p) \/ (\E payload \in Payloads : Begin(p, payload)) \/ LockFails(p)
  BY <1>1 DEF OpenState, Read, Begin, LockFails
<1>2. CASE Lock(p) \/ Unlock(p) \/ Crash(p)
  BY <1>2 DEF Lock, Unlock, Crash
<1>3. CASE OpenTemp(p) \/ WriteAll(p) \/ Rename(p) \/ WriteSome(p) \/ PersistFails(p)
  BY <1>3 DEF OpenTemp, WriteAll, Rename, WriteSome, PersistFails
<1>. QED
  BY <1>1, <1>2, <1>3 DEF Step, Persisting

WriterInv == IInv /\ OneWriter /\ OpenInv

LEMMA WriterInvariant == FileSpec => []WriterInv
<1>1. FileInit => OneWriter /\ OpenInv
  BY StateAssumption DEF FileInit, OneWriter, OpenInv, Critical
<1>2. OneWriter /\ UNCHANGED fileVars => OneWriter'
  BY DEF OneWriter, fileVars
<1>3. OpenInv /\ UNCHANGED fileVars => OpenInv'
  BY DEF OpenInv, fileVars
<1>4. IInv /\ OneWriter /\ OpenInv /\ [FileNext]_fileVars => OneWriter' /\ OpenInv'
  BY <1>2, <1>3, OneWriterStep, OpenStep
<1>. QED
  BY <1>1, <1>4, Inductive, PTL DEF FileSpec, WriterInv

\* However processes interleave, fail and are killed, the lock is held by exactly
\* the process that works between flock and unlock.
THEOREM LockIsNeverOrphaned == FileSpec => []OneWriter
  BY WriterInvariant, PTL DEF WriterInv

\* The disk has room for a file more than there are processes to open one.
RoomOnDisk ==
    /\ IsFiniteSet(Processes)
    /\ \A F \in SUBSET Inodes :
        IsFiniteSet(F) /\ Cardinality(F) <= Cardinality(Processes) => F # Inodes

\* The next call of a persist can be made, unless it is the wait for a lock which
\* somebody else works under.
HasNextCall(p) ==
    /\ pc[p] = "lock" =>
        holder = NoProcess \/ \E q \in Processes \ {p} : holder = q /\ pc[q] \in Critical
    /\ pc[p] = "open" => temp # NoInode \/ FreeInodes # {}
    /\ pc[p] = "write" => fd[p] \in Inodes
    /\ pc[p] = "rename" => temp # NoInode

LEMMA RoomForTemp ==
    ASSUME RoomOnDisk, WriterInv, NEW p \in Processes, pc[p] = "open", temp = NoInode
    PROVE  FreeInodes # {}
<1>. DEFINE f == [q \in Processes |-> IF q = p THEN state ELSE fd[q]]
            T == {f[q] : q \in Processes}
            F == T \cap Inodes
<1>1. IsFiniteSet(T) /\ Cardinality(T) <= Cardinality(Processes)
  <2>1. f \in Surjection(Processes, T)
    BY DEF Surjection
  <2>. HIDE DEF T, f
  <2>. QED
    BY <2>1, FS_Surjection DEF RoomOnDisk
<1>2. IsFiniteSet(F) /\ Cardinality(F) <= Cardinality(Processes)
  <2>. HIDE DEF T
  <2>1. F \in SUBSET T
    OBVIOUS
  <2>2. /\ IsFiniteSet(F) /\ Cardinality(F) <= Cardinality(T)
        /\ Cardinality(F) \in Nat /\ Cardinality(T) \in Nat /\ Cardinality(Processes) \in Nat
    BY <1>1, <2>1, FS_Subset, FS_CardinalityType DEF RoomOnDisk
  <2>. QED
    BY <1>1, <2>2
<1>3. F # Inodes /\ F \in SUBSET Inodes
  BY <1>2 DEF RoomOnDisk
<1>4. PICK i \in Inodes : i \notin T
  BY <1>3
<1>5. fd[p] = NoInode /\ NoInode \notin Inodes
  BY StateAssumption DEF WriterInv, OpenInv
<1>6. i # state
  BY <1>4
<1>7. \A q \in Processes : i # fd[q]
  BY <1>4, <1>5
<1>. QED
  BY <1>5, <1>6, <1>7 DEF FreeInodes

\* A persist can always make its next call, or waits for a process that works
\* under the lock and can make its own.
THEOREM PersistIsNeverStuck ==
    ASSUME RoomOnDisk
    PROVE  FileSpec => [](\A p \in Processes : HasNextCall(p))
<1>1. ASSUME WriterInv, NEW p \in Processes PROVE HasNextCall(p)
  <2>1. pc[p] = "open" => temp # NoInode \/ FreeInodes # {}
    BY <1>1, RoomForTemp
  <2>2. pc[p] = "write" => fd[p] \in Inodes
    BY <1>1 DEF WriterInv, IInv, FilesInv
  <2>3. pc[p] = "rename" => temp # NoInode
    BY <1>1, StateAssumption DEF WriterInv, IInv, FilesInv
  <2>4. pc[p] = "lock" => holder = NoProcess \/ \E q \in Processes \ {p} : holder = q /\ pc[q] \in Critical
    BY <1>1 DEF WriterInv, OneWriter, IInv, FileTypeOK, Critical
  <2>. QED
    BY <2>1, <2>2, <2>3, <2>4 DEF HasNextCall
<1>2. WriterInv => \A p \in Processes : HasNextCall(p)
  BY <1>1
<1>. QED
  BY <1>2, WriterInvariant, PTL

\* The calls a process has still to make.
CallsLeft(p) ==
    CASE pc[p] = "lock" -> 5
      [] pc[p] = "open" -> 4
      [] pc[p] = "write" -> 3
      [] pc[p] = "rename" -> 2
      [] pc[p] \in {"saved", "failed", "read"} -> 1
      [] OTHER -> 0

\* Every call of a persist leaves it strictly fewer to make; nothing that fails and
\* no other process ever gives it more.
THEOREM PersistCountsDown ==
    FileSpec => [][\A p \in Processes :
        /\ Persisting(p) => CallsLeft(p)' < CallsLeft(p)
        /\ pc[p] # "idle" => CallsLeft(p)' <= CallsLeft(p)]_fileVars
<1>. DEFINE Good == \A p \in Processes :
        /\ Persisting(p) => CallsLeft(p)' < CallsLeft(p)
        /\ pc[p] # "idle" => CallsLeft(p)' <= CallsLeft(p)
<1>1. IInv /\ FileNext => Good
  <2>. SUFFICES ASSUME IInv, FileNext, NEW p \in Processes
                PROVE  /\ Persisting(p) => CallsLeft(p)' < CallsLeft(p)
                       /\ pc[p] # "idle" => CallsLeft(p)' <= CallsLeft(p)
    OBVIOUS
  <2>. USE DEF IInv, FileTypeOK, Goto
  <2>1. Persisting(p) => CallsLeft(p)' < CallsLeft(p)
    BY DEF CallsLeft, Persisting, Lock, OpenTemp, WriteAll, Rename, Unlock
  <2>2. PICK q \in Processes : Step(q)
    BY DEF FileNext
  <2>3. pc'[p] = pc[p] => CallsLeft(p)' <= CallsLeft(p)
    <3>1. CallsLeft(p) \in Int
      BY DEF CallsLeft
    <3>2. pc'[p] = pc[p] => CallsLeft(p)' = CallsLeft(p)
      BY DEF CallsLeft
    <3>. QED
      BY <3>1, <3>2
  <2>4. CASE q # p
    <3>1. pc'[p] = pc[p]
      BY <2>2, <2>4 DEF Step, OpenState, Read, Begin, Persisting, Lock, OpenTemp, WriteAll, Rename,
         Unlock, WriteSome, PersistFails, LockFails, Crash
    <3>. QED
      BY <2>1, <2>3, <3>1
  <2>5. CASE q = p /\ pc[p] # "idle" /\ ~Persisting(p)
    <3>1. Read(p) \/ PersistFails(p) \/ LockFails(p) \/ Crash(p) \/ WriteSome(p)
      BY <2>2, <2>5 DEF Step, OpenState, Begin
    <3>2. \/ pc'[p] = pc[p] \/ pc'[p] = "idle"
          \/ pc'[p] = "failed" /\ pc[p] \in {"open", "write", "rename"}
      BY <2>5, <3>1 DEF Read, PersistFails, LockFails, Crash, WriteSome
    <3>3. pc'[p] # pc[p] => CallsLeft(p)' <= CallsLeft(p)
      BY <3>2 DEF CallsLeft
    <3>. QED
      BY <2>1, <2>3, <3>3
  <2>. QED
    <3>1. CallsLeft(p) \in Int /\ CallsLeft(p)' \in Int
      BY DEF CallsLeft
    <3>. QED
      BY <2>1, <2>4, <2>5, <3>1
<1>2. [][IInv /\ FileNext]_fileVars => [][Good]_fileVars
  BY <1>1, PTL
<1>. QED
  BY <1>2, Inductive, PTL DEF FileSpec

-----------------------------------------------------------------------------
(***************************************************************************)
(* The waits, for any timeouts, intervals, retry policy and latency.       *)
(***************************************************************************)
\* A wait that is over stays over; until then, the calls are those of its goal.
PhaseInv ==
    /\ at = "idle" => now = 0 /\ goal = "ready" /\ ~logged
    /\ outcome # None <=> at = "done"
    /\ at = "loop" => goal = "ready"
    /\ at \in {"call", "backoff", "pause"} => (goal = "exit" <=> op \in {"getExit", "events"})
    /\ at = "backoff" => attempt < MaxAttempts
    /\ at = "pause" => op \notin {"wait", "events"}
    /\ reply # None => at = "call" /\ op # "wait"
    /\ at = "loop" => now = due
    /\ at \in {"call", "backoff", "pause"} => now <= due
    /\ at = "call" /\ op # "wait" => due <= now + Latency

\* Whoever tells an exit code has it from the command.
CodeInv ==
    /\ logged => code # None
    /\ reply # None /\ reply.exit # None => reply.exit = code
    /\ outcome \in Codes => outcome = code

Shows(report) ==
    IF goal = "exit" THEN report.machine = "stopped" /\ report.exit # None ELSE report.machine = "healthy"

\* How long ago what the first loop has seen may be when the loop begins again.
Lag == StatePoll + Latency

\* What a call has seen was so no longer than the call lasts; and before the
\* pause of the first loop the machine was seen not to have started.
SightInv ==
    /\ goodAt <= now /\ badAt <= now
    /\ IF Awaited(machine, logged) THEN goodAt = now ELSE badAt = now
    /\ at = "idle" => goodAt = now /\ badAt = now
    /\ reply # None => IF Shows(reply) THEN due <= goodAt + Latency ELSE due <= badAt + Latency
    /\ at = "pause" /\ op = "getState" => due <= badAt + Lag
    /\ at = "loop" => due <= badAt + Lag
    /\ outcome = "ready" => now <= goodAt + Latency
    /\ outcome = "error" /\ ~faulty => now <= badAt + Lag

Look == MaxAttempts * Latency + TotalBackoff

Requests == (MaxAttempts - 1) * Least(StateTimeout, WaitCap) + TotalBackoff

\* What the calls before this one may have taken beyond the deadline, ...
Overrun(o) == IF o = "getState" THEN Requests ELSE IF o = "events" THEN Look ELSE 0

\* ... what its own first n attempts and so many pauses may, ...
Own(o, s, n, pauses) ==
    IF o = "wait" THEN (n - 1) * Least(s, WaitCap) + Backoffs[pauses]
    ELSE n * Latency + Backoffs[pauses]

\* ... and all of them together.
Late == IF goal = "exit" THEN 2 * Look ELSE Requests + Look

\* The time n wait requests take that all expire.
Tries(s, n) == n * Least(s, WaitCap)

DeadlineInv ==
    /\ at = "loop" => deadline = StateTimeout /\ due <= deadline
    /\ at \in {"call", "backoff", "pause"} /\ op \in {"wait", "getState"} => deadline = StateTimeout
    /\ at \in {"call", "backoff"} /\ op = "wait" => span \in 1 .. StateTimeout
    /\ at = "call" => due <= deadline + Overrun(op) + Own(op, span, attempt, attempt - 1)
    /\ at = "backoff" => due <= deadline + Overrun(op) + Own(op, span, attempt, attempt)
    /\ at = "pause" => due <= deadline
    /\ at = "done" => now <= deadline + Late
    \* The wait request's attempts follow each other without a gap.
    /\ at \in {"call", "backoff"} /\ op = "wait" /\ ~faulty =>
            due + span >= deadline + Tries(span, attempt)
    /\ outcome = "error" /\ ~faulty /\ op # "events" => now >= deadline

LEMMA LeastOf ==
    ASSUME NEW N \in SUBSET Nat, N # {}
    PROVE  \E n \in N : \A k \in N : n <= k
<1>1. PICK n \in N : \A k \in N : ~(<<k, n>> \in OpToRel(<, Nat))
  BY NatLessThanWellFounded, WFMin
<1>2. \A k \in N : <<k, n>> \in OpToRel(<, Nat) <=> k < n
  BY DEF OpToRel
<1>3. \A k \in N : ~(k < n)
  BY <1>1, <1>2
<1>4. \A k \in N : n <= k
  BY <1>3
<1>. QED
  BY <1>4

\* The sums exist: the least length for which they did not would be one more
\* than one for which they do.
LEMMA BackoffsExist ==
    \E sum : sum = [n \in 0 .. MaxAttempts - 1 |-> IF n = 0 THEN 0 ELSE sum[n - 1] + Backoff[n]]
<1>. DEFINE Sums(f, k) == f = [n \in 0 .. k |-> IF n = 0 THEN 0 ELSE f[n - 1] + Backoff[n]]
            Lacking == {k \in 0 .. MaxAttempts - 1 : ~\E f : Sums(f, k)}
<1>. MaxAttempts \in Nat \ {0}
  BY WaitsAssumption
<1>1. ASSUME Lacking # {} PROVE FALSE
  <2>1. Lacking \in SUBSET Nat
    OBVIOUS
  <2>2. PICK k \in Lacking : \A j \in Lacking : k <= j
    BY <1>1, <2>1, LeastOf
  <2>3. k \in 0 .. MaxAttempts - 1 /\ ~\E f : Sums(f, k)
    OBVIOUS
  <2>4. CASE k = 0
    <3>. DEFINE f == [n \in 0 .. 0 |-> 0]
    <3>1. f = [n \in 0 .. 0 |-> IF n = 0 THEN 0 ELSE f[n - 1] + Backoff[n]]
      OBVIOUS
    <3>. HIDE DEF f
    <3>. QED
      BY <2>3, <2>4, <3>1
  <2>5. CASE k # 0
    <3>1. k - 1 \in 0 .. MaxAttempts - 1 /\ k - 1 \notin Lacking
      <4>1. k - 1 \in 0 .. MaxAttempts - 1 /\ ~(k <= k - 1)
        BY <2>3, <2>5
      <4>. QED
        BY <2>2, <4>1
    <3>2. PICK f : Sums(f, k - 1)
      BY <3>1
    <3>. DEFINE e == [n \in 0 .. k |-> IF n = k THEN f[k - 1] + Backoff[k] ELSE f[n]]
    <3>3. \A n \in 0 .. k - 1 : f[n] = IF n = 0 THEN 0 ELSE f[n - 1] + Backoff[n]
      BY <3>2
    <3>4. ASSUME NEW n \in 0 .. k
          PROVE  e[n] = IF n = 0 THEN 0 ELSE e[n - 1] + Backoff[n]
      <4>1. CASE n = k
        <5>1. k - 1 \in 0 .. k /\ k - 1 # k
          BY <2>3, <2>5
        <5>2. e[k] = f[k - 1] + Backoff[k] /\ e[k - 1] = f[k - 1]
          BY <2>3, <5>1
        <5>. QED
          BY <2>5, <4>1, <5>2
      <4>2. CASE n # k
        <5>1. n \in 0 .. k - 1
          BY <2>3, <4>2
        <5>2. n # 0 => n - 1 \in 0 .. k /\ n - 1 # k
          BY <2>3, <5>1
        <5>. QED
          BY <3>3, <4>2, <5>1, <5>2
      <4>. QED
        BY <4>1, <4>2
    <3>5. e = [n \in 0 .. k |-> IF n = 0 THEN 0 ELSE e[n - 1] + Backoff[n]]
      <4>. DEFINE h == [n \in 0 .. k |-> IF n = 0 THEN 0 ELSE e[n - 1] + Backoff[n]]
      <4>1. e = [n \in 0 .. k |-> e[n]]
        OBVIOUS
      <4>. HIDE DEF e
      <4>. QED
        BY <3>4, <4>1
    <3>. HIDE DEF e
    <3>. QED
      BY <2>3, <3>5
  <2>. QED
    BY <2>4, <2>5
<1>2. MaxAttempts - 1 \in 0 .. MaxAttempts - 1 /\ MaxAttempts - 1 \notin Lacking
  BY <1>1
<1>. QED
  BY <1>2

LEMMA BackoffsStep ==
    /\ Backoffs[0] = 0
    /\ \A n \in 1 .. MaxAttempts - 1 : Backoffs[n] = Backoffs[n - 1] + Backoff[n]
<1>. DEFINE f == Backoffs
<1>1. f = [n \in 0 .. MaxAttempts - 1 |-> IF n = 0 THEN 0 ELSE f[n - 1] + Backoff[n]]
  BY BackoffsExist DEF Backoffs
<1>. HIDE DEF f
<1>2. \A n \in 0 .. MaxAttempts - 1 : f[n] = IF n = 0 THEN 0 ELSE f[n - 1] + Backoff[n]
  BY <1>1
<1>3. /\ f[0] = 0
      /\ \A n \in 1 .. MaxAttempts - 1 : f[n] = f[n - 1] + Backoff[n]
  BY <1>2, WaitsAssumption
<1>. QED
  BY <1>3 DEF f

\* They are numbers and grow with the number of attempts.
LEMMA BackoffsGrow ==
    \A n \in 0 .. MaxAttempts - 1 : Backoffs[n] \in Nat /\ Backoffs[n] <= TotalBackoff
<1>. MaxAttempts \in Nat \ {0} /\ Backoff \in [1 .. MaxAttempts - 1 -> Nat]
  BY WaitsAssumption
<1>1. \A n \in 0 .. MaxAttempts - 1 : Backoffs[n] \in Nat
  <2>. DEFINE Odd == {n \in 0 .. MaxAttempts - 1 : Backoffs[n] \notin Nat}
  <2>1. ASSUME Odd # {} PROVE FALSE
    <3>1. Odd \in SUBSET Nat
      OBVIOUS
    <3>2. PICK n \in Odd : \A k \in Odd : n <= k
      BY <2>1, <3>1, LeastOf
    <3>3. n \in 1 .. MaxAttempts - 1
      BY BackoffsStep
    <3>4. n - 1 \in 0 .. MaxAttempts - 1 /\ ~(n <= n - 1)
      BY <3>3
    <3>5. Backoffs[n - 1] \in Nat
      BY <3>2, <3>4
    <3>. QED
      BY <3>3, <3>5, BackoffsStep
  <2>. QED
    BY <2>1
<1>2. \A n \in 0 .. MaxAttempts - 1 : Backoffs[n] <= Backoffs[MaxAttempts - 1]
  \* From the end: the least number of missing attempts for which it fails.
  <2>. DEFINE Over == {j \in 0 .. MaxAttempts - 1 :
                        ~(Backoffs[MaxAttempts - 1 - j] <= Backoffs[MaxAttempts - 1])}
  <2>1. ASSUME Over # {} PROVE FALSE
    <3>1. Over \in SUBSET Nat
      OBVIOUS
    <3>2. PICK j \in Over : \A k \in Over : j <= k
      BY <2>1, <3>1, LeastOf
    <3>3. j \in 0 .. MaxAttempts - 1 /\ ~(Backoffs[MaxAttempts - 1 - j] <= Backoffs[MaxAttempts - 1])
      OBVIOUS
    <3>4. j # 0
      <4>1. MaxAttempts - 1 \in 0 .. MaxAttempts - 1 /\ MaxAttempts - 1 - 0 = MaxAttempts - 1
        OBVIOUS
      <4>2. Backoffs[MaxAttempts - 1] \in Nat
        BY <1>1, <4>1
      <4>. QED
        BY <3>3, <4>1, <4>2
    <3>5. j - 1 \in 0 .. MaxAttempts - 1 /\ ~(j <= j - 1)
      BY <3>3, <3>4
    <3>6. Backoffs[MaxAttempts - 1 - (j - 1)] <= Backoffs[MaxAttempts - 1]
      BY <3>2, <3>5
    <3>. DEFINE n == MaxAttempts - 1 - (j - 1)
    <3>7. n \in 1 .. MaxAttempts - 1 /\ n - 1 = MaxAttempts - 1 - j
      BY <3>3, <3>4
    <3>. HIDE DEF n
    <3>8. /\ Backoffs[n] = Backoffs[n - 1] + Backoff[n] /\ Backoff[n] \in Nat
          /\ Backoffs[n - 1] \in Nat /\ Backoffs[n] \in Nat
      BY <1>1, <3>7, BackoffsStep
    <3>9. Backoffs[n - 1] <= Backoffs[n] /\ Backoffs[n] <= Backoffs[MaxAttempts - 1]
      BY <3>6, <3>8 DEF n
    <3>10. Backoffs[MaxAttempts - 1] \in Nat
      BY <1>1
    <3>. QED
      BY <3>3, <3>7, <3>8, <3>9, <3>10
  <2>2. ASSUME NEW n \in 0 .. MaxAttempts - 1 PROVE Backoffs[n] <= Backoffs[MaxAttempts - 1]
    <3>1. MaxAttempts - 1 - n \in 0 .. MaxAttempts - 1 /\ MaxAttempts - 1 - (MaxAttempts - 1 - n) = n
      OBVIOUS
    <3>. QED
      BY <2>1, <3>1
  <2>. QED
    BY <2>2
<1>. QED
  BY <1>1, <1>2 DEF TotalBackoff

LEMMA WaitsTypeInit == WaitInit => WaitsTypeOK
<1>. SUFFICES ASSUME WaitInit PROVE WaitsTypeOK
  OBVIOUS
<1>1. MaxAttempts \in Nat \ {0}
  BY WaitsAssumption
<1>2. 1 \in 1 .. MaxAttempts
  BY <1>1
<1>3. machine \in Machine
  BY DEF WaitInit, Machine
<1>4. {now, due, span, deadline, badAt, goodAt} \subseteq Nat
  BY DEF WaitInit
<1>5. attempt \in 1 .. MaxAttempts
  BY <1>2 DEF WaitInit
<1>. QED
  BY <1>3, <1>4, <1>5 DEF WaitInit, WaitsTypeOK, Ops

LEMMA AllowanceType ==
    ASSUME NEW o, span' \in Nat
    PROVE  Allowance(o) \in Nat
  BY WaitsAssumption DEF Allowance, Least

LEMMA WaitsTypeStep ==
    ASSUME WaitsTypeOK, PhaseInv, [WaitNext]_waitVars
    PROVE  WaitsTypeOK'
<1>. USE WaitsAssumption DEF WaitsTypeOK, Reply, Ops, fly, sight, Waiting
<1>1. CASE UNCHANGED waitVars
  BY <1>1 DEF waitVars
<1>2. ASSUME NEW o \in Ops, NEW n \in 1 .. MaxAttempts, Call(o, n), span' \in Nat
      PROVE  /\ at' \in {"call"} /\ op' \in Ops /\ attempt' \in 1 .. MaxAttempts
             /\ reply' = None /\ due' \in Nat
  BY <1>2, AllowanceType DEF Call
<1>3. ASSUME NEW a \in {"ready", "error", None} \cup Codes, Return(a)
      PROVE  /\ at' = "done" /\ outcome' \in {"ready", "error", None} \cup Codes
             /\ reply' = None /\ UNCHANGED <<op, attempt, due, span, deadline>>
  BY <1>3 DEF Return
<1>4. ASSUME Observe, now' \in Nat PROVE badAt' \in Nat /\ goodAt' \in Nat
  BY <1>4 DEF Observe
<1>5. ASSUME Retry
      PROVE  /\ at' \in {"backoff", "done"} /\ due' \in Nat /\ reply' = None
             /\ outcome' \in {"ready", "error", None} \cup Codes
             /\ UNCHANGED <<op, attempt, span, deadline>>
  BY <1>3, <1>5 DEF Retry
<1>6. ASSUME NEW interval \in Nat, Pause(interval)
      PROVE  /\ at' \in {"pause", "done"} /\ due' \in Nat /\ reply' = None
             /\ outcome' \in {"ready", "error", None} \cup Codes
             /\ UNCHANGED <<op, attempt, span, deadline>>
  <2>1. CASE now >= deadline
    BY <1>3, <1>6, <2>1 DEF Pause
  <2>2. CASE ~(now >= deadline)
    <3>1. deadline - now \in Nat
      BY <2>2
    <3>2. Least(interval, deadline - now) \in Nat
      BY <3>1 DEF Least
    <3>. QED
      BY <1>6, <2>2, <3>2 DEF Pause
  <2>. QED
    BY <2>1, <2>2
<1>7. ASSUME NEW g \in {"ready", "exit"}, BeginWait(g) PROVE WaitsTypeOK'
  BY <1>2, <1>7 DEF BeginWait
<1>8. CASE Serve
  BY <1>8 DEF Serve
<1>9. CASE Expire
  BY <1>5, <1>9 DEF Expire
<1>10. CASE CallFails
  BY <1>3, <1>5, <1>10 DEF CallFails, Return
<1>11. CASE Waited
  BY <1>2, <1>11 DEF Waited
<1>12. CASE Again
  <2>1. attempt + 1 \in 1 .. MaxAttempts
    BY <1>12 DEF Again, PhaseInv
  <2>. QED
    BY <1>2, <1>12, <2>1 DEF Again
<1>13. CASE Loop
  <2>1. CASE now >= deadline
    BY <1>3, <1>13, <2>1 DEF Loop
  <2>2. CASE ~(now >= deadline)
    <3>1. span' \in Nat
      BY <1>13, <2>2 DEF Loop
    <3>. QED
      BY <1>2, <1>13, <2>2, <3>1 DEF Loop
  <2>. QED
    BY <2>1, <2>2
<1>14. CASE GotState
  BY <1>2, <1>6, <1>14 DEF GotState
<1>15. CASE GotHealth
  BY <1>3, <1>6, <1>15 DEF GotHealth
<1>16. CASE GotExit
  BY <1>2, <1>6, <1>16 DEF GotExit
<1>17. CASE GotEvents
  BY <1>3, <1>17 DEF GotEvents
<1>18. CASE Wake
  BY <1>2, <1>18 DEF Wake
<1>19. ASSUME NEW m \in Machine, Change(m) PROVE WaitsTypeOK'
  BY <1>4, <1>19 DEF Change
<1>20. CASE Log
  BY <1>4, <1>20 DEF Log
<1>21. CASE Tick
  BY <1>4, <1>21 DEF Tick
<1>. QED
  BY <1>1, <1>7, <1>8, <1>9, <1>10, <1>11, <1>12, <1>13, <1>14, <1>15, <1>16, <1>17, <1>18, <1>19,
     <1>20, <1>21 DEF WaitNext

LEMMA PhaseInit == WaitInit => PhaseInv
  BY DEF WaitInit, PhaseInv

LEMMA PhaseStep ==
    ASSUME WaitsTypeOK, PhaseInv, [WaitNext]_waitVars
    PROVE  PhaseInv'
<1>. USE WaitsAssumption DEF WaitsTypeOK, Reply, PhaseInv, Ops, fly, sight, Waiting
<1>1. CASE UNCHANGED waitVars
  BY <1>1 DEF waitVars
\* A call begins.
<1>2. ASSUME NEW o \in Ops, NEW n, Call(o, n), span' \in Nat, UNCHANGED <<now, outcome, goal>>,
             outcome = None, goal = "exit" <=> o \in {"getExit", "events"}
      PROVE  PhaseInv'
  <2>1. Allowance(o) \in Nat
    BY <1>2, AllowanceType
  <2>2. /\ at' = "call" /\ op' = o /\ reply' = None /\ due' = now + Allowance(o)
        /\ o # "wait" => Allowance(o) = Latency
    BY <1>2 DEF Call, Allowance
  <2>. QED
    BY <1>2, <2>1, <2>2
\* The wait is over.
<1>3. ASSUME NEW a \in {"ready", "error"} \cup Codes, Return(a), UNCHANGED goal PROVE PhaseInv'
  BY <1>3 DEF Return
\* It is interrupted.
<1>4. ASSUME at' \in {"backoff", "pause"}, reply' = None, due' >= now, UNCHANGED <<now, goal, op, attempt, outcome>>,
             at = "call", at' = "backoff" => attempt < MaxAttempts, at' = "pause" => op \notin {"wait", "events"}
      PROVE  PhaseInv'
  BY <1>4
<1>5. ASSUME at = "call", Retry, UNCHANGED <<now, goal>> PROVE PhaseInv'
  <2>1. CASE attempt < MaxAttempts
    <3>1. Backoff[attempt] \in Nat
      BY <2>1
    <3>. QED
      BY <1>4, <1>5, <2>1, <3>1 DEF Retry
  <2>2. CASE ~(attempt < MaxAttempts)
    BY <1>3, <1>5, <2>2 DEF Retry
  <2>. QED
    BY <2>1, <2>2
<1>6. ASSUME NEW interval \in Nat, at = "call", op \notin {"wait", "events"}, Pause(interval), UNCHANGED <<now, goal>>
      PROVE  PhaseInv'
  <2>1. CASE now >= deadline
    BY <1>3, <1>6, <2>1 DEF Pause
  <2>2. CASE ~(now >= deadline)
    <3>1. Least(interval, deadline - now) \in Nat
      BY <2>2 DEF Least
    <3>. QED
      BY <1>4, <1>6, <2>2, <3>1 DEF Pause
  <2>. QED
    BY <2>1, <2>2
<1>7. ASSUME NEW g \in {"ready", "exit"}, BeginWait(g) PROVE PhaseInv'
  <2>1. CASE g = "exit"
    <3>1. /\ Call("getExit", 1) /\ goal' = "exit" /\ at = "idle" /\ UNCHANGED <<now, outcome, span>>
      BY <1>7, <2>1 DEF BeginWait
    <3>2. Allowance("getExit") = Latency /\ outcome = None
      BY <3>1 DEF Allowance
    <3>. QED
      BY <3>1, <3>2 DEF Call
  <2>2. CASE g = "ready"
    BY <1>7, <2>2 DEF BeginWait
  <2>. QED
    BY <2>1, <2>2
<1>8. CASE Serve
  BY <1>8 DEF Serve
<1>9. CASE Expire
  BY <1>5, <1>9 DEF Expire
<1>10. CASE CallFails
  BY <1>3, <1>5, <1>10 DEF CallFails
<1>11. CASE Waited
  BY <1>2, <1>11 DEF Waited
<1>12. CASE Again
  BY <1>2, <1>12 DEF Again
<1>13. CASE Loop
  <2>1. CASE now >= deadline
    BY <1>3, <1>13, <2>1 DEF Loop
  <2>2. CASE ~(now >= deadline)
    <3>1. span' \in Nat
      BY <1>13, <2>2 DEF Loop
    <3>. QED
      BY <1>2, <1>13, <2>2, <3>1 DEF Loop
  <2>. QED
    BY <2>1, <2>2
<1>14. CASE GotState
  BY <1>2, <1>6, <1>14 DEF GotState
<1>15. CASE GotHealth
  BY <1>3, <1>6, <1>15 DEF GotHealth
<1>16. CASE GotExit
  BY <1>2, <1>6, <1>16 DEF GotExit
<1>17. CASE GotEvents
  BY <1>3, <1>17 DEF GotEvents
<1>18. CASE Wake
  <2>1. CASE op = "getState"
    BY <1>18, <2>1 DEF Wake
  <2>2. CASE op # "getState"
    BY <1>2, <1>18, <2>2 DEF Wake
  <2>. QED
    BY <2>1, <2>2
<1>19. ASSUME NEW m \in Machine, Change(m) PROVE PhaseInv'
  BY <1>19 DEF Change
<1>20. CASE Log
  BY <1>20 DEF Log
<1>21. CASE Tick
  BY <1>21 DEF Tick
<1>. QED
  BY <1>1, <1>7, <1>8, <1>9, <1>10, <1>11, <1>12, <1>13, <1>14, <1>15, <1>16, <1>17, <1>18, <1>19,
     <1>20, <1>21 DEF WaitNext

(***************************************************************************)
(* The exit code.                                                          *)
(***************************************************************************)
LEMMA CodeInit == WaitInit => CodeInv
  BY WaitsAssumption DEF WaitInit, CodeInv

LEMMA CodeStep ==
    ASSUME WaitsTypeOK, PhaseInv, CodeInv, [WaitNext]_waitVars
    PROVE  CodeInv'
<1>. USE WaitsAssumption DEF WaitsTypeOK, Reply, CodeInv, PhaseInv, fly, Waiting
\* Nothing new is known.
<1>1. ASSUME UNCHANGED <<code, logged>>, reply' \in {reply, None},
             outcome' \in {outcome, "ready", "error"}
      PROVE  CodeInv'
  BY <1>1
<1>2. CASE UNCHANGED waitVars
  BY <1>1, <1>2 DEF waitVars
<1>3. CASE Serve
  BY <1>3 DEF Serve
<1>4. CASE GotEvents
  BY <1>4 DEF GotEvents, Return
<1>5. ASSUME NEW m \in Machine, Change(m) PROVE CodeInv'
  <2>1. code' = code \/ (code = None /\ code' \in Codes)
    BY <1>5 DEF Change
  <2>2. UNCHANGED <<logged, reply, outcome>> /\ outcome = None
    BY <1>5 DEF Change
  <2>3. reply # None /\ reply.exit # None => code # None
    OBVIOUS
  <2>. QED
    BY <2>1, <2>2, <2>3
<1>6. CASE Log
  BY <1>6 DEF Log
<1>7. CASE Tick
  BY <1>1, <1>7 DEF Tick
<1>8. CASE \/ Expire \/ CallFails \/ Waited \/ Again \/ Loop \/ GotState \/ GotHealth \/ GotExit
           \/ Wake \/ \E g \in {"ready", "exit"} : BeginWait(g)
  BY <1>1, <1>8 DEF Expire, CallFails, Waited, Again, Loop, GotState, GotHealth, GotExit, Wake,
     BeginWait, Retry, Return, Pause, Call
<1>. QED
  BY <1>2, <1>3, <1>4, <1>5, <1>6, <1>7, <1>8 DEF WaitNext

(***************************************************************************)
(* What was seen, and when it was so.                                      *)
(***************************************************************************)
LEMMA LaterSight ==
    ASSUME NEW a \in Nat, NEW b \in Nat, NEW c \in Nat, NEW d \in Nat, b <= c, a <= b + d
    PROVE  a <= c + d
  OBVIOUS

LEMMA LeastType ==
    ASSUME NEW a \in Int, NEW b \in Int
    PROVE  Least(a, b) \in {a, b} /\ Least(a, b) <= a /\ Least(a, b) <= b
  BY DEF Least

LEMMA SightInit == WaitInit => SightInv
  BY WaitsAssumption DEF WaitInit, SightInv, Awaited, Machine

LEMMA SightStep ==
    ASSUME WaitsTypeOK, PhaseInv, CodeInv, SightInv, [WaitNext]_waitVars
    PROVE  SightInv'
<1>. /\ {StateTimeout, HealthTimeout, StatePoll, HealthPoll, Latency} \subseteq Nat
     /\ None \notin Codes \cup {"ready", "error"} /\ Codes \cap {"ready", "error"} = {}
  BY WaitsAssumption
<1>. USE DEF WaitsTypeOK, Reply, PhaseInv, SightInv, fly, sight, Waiting, Ops
<1>. /\ now \in Nat /\ due \in Nat /\ deadline \in Nat /\ badAt \in Nat /\ goodAt \in Nat
     /\ StatePoll \in Nat /\ HealthPoll \in Nat /\ Latency \in Nat
  OBVIOUS
<1>. Lag \in Nat /\ Latency <= Lag /\ \A t \in Nat : t + StatePoll <= badAt + Lag <=> t <= badAt + Latency
  BY DEF Lag
<1>. DEFINE still == UNCHANGED <<machine, code, logged, now, goal, badAt, goodAt>>
<1>1. ASSUME still PROVE IF Awaited(machine, logged)' THEN goodAt' = now' ELSE badAt' = now'
  BY <1>1 DEF Awaited
\* A call begins, or another attempt is to be made.
<1>2. ASSUME still, reply' = None, outcome' = None, at' \in {"call", "backoff"} PROVE SightInv'
  BY <1>1, <1>2
\* The machine changes, or time passes.
<1>3. ASSUME Waiting, Observe, now' \in {now, now + 1}, UNCHANGED <<at, goal, op, reply, due, outcome>>,
             at = "loop" => now' = now
      PROVE  SightInv'
  <2>1. /\ IF Awaited(machine, logged)' THEN goodAt' = now' ELSE badAt' = now'
        /\ goodAt' \in {goodAt, now'} /\ badAt' \in {badAt, now'}
    BY <1>3 DEF Observe, Awaited
  <2>2. /\ goodAt <= goodAt' /\ goodAt' <= now' /\ badAt <= badAt' /\ badAt' <= now'
        /\ goodAt' \in Nat /\ badAt' \in Nat
    BY <1>3, <2>1
  <2>3. outcome' = None /\ at' # "idle"
    BY <1>3
  <2>4. reply' # None => IF Shows(reply)' THEN due' <= goodAt' + Latency ELSE due' <= badAt' + Latency
    <3>1. Shows(reply)' <=> Shows(reply)
      BY <1>3 DEF Shows
    <3>2. reply # None /\ Shows(reply) => due <= goodAt + Latency
      OBVIOUS
    <3>3. reply # None /\ ~Shows(reply) => due <= badAt + Latency
      OBVIOUS
    <3>4. /\ due <= goodAt + Latency => due <= goodAt' + Latency
          /\ due <= badAt + Latency => due <= badAt' + Latency
      BY <2>2, LaterSight
    <3>5. due' = due /\ reply' = reply
      BY <1>3
    <3>. QED
      BY <3>1, <3>2, <3>3, <3>4, <3>5
  <2>5. /\ at' = "pause" /\ op' = "getState" => due' <= badAt' + Lag
        /\ at' = "loop" => due' <= badAt' + Lag
    <3>1. due <= badAt + Lag => due <= badAt' + Lag
      BY <2>2, LaterSight
    <3>2. due' = due /\ at' = at /\ op' = op
      BY <1>3
    <3>. QED
      BY <2>2, <3>1, <3>2
  <2>. QED
    BY <2>1, <2>2, <2>3, <2>4, <2>5
\* The wait is over.
<1>4. ASSUME still, NEW a, Return(a), UNCHANGED faulty,
             a = "ready" => now <= goodAt + Latency,
             a = "error" /\ ~faulty => now <= badAt + Lag
      PROVE  SightInv'
  BY <1>1, <1>4 DEF Return
<1>5. ASSUME at = "call", reply # None, ~Shows(reply) PROVE now <= badAt + Latency /\ due <= badAt + Latency
  BY <1>5
<1>6. ASSUME still, NEW interval \in Nat, at = "call", reply # None, ~Shows(reply), Pause(interval),
             UNCHANGED faulty, op = "getState" => interval = StatePoll
      PROVE  SightInv'
  <2>1. now <= badAt + Latency
    BY <1>5, <1>6
  <2>2. CASE now >= deadline
    BY <1>4, <1>6, <2>1, <2>2 DEF Pause
  <2>3. CASE ~(now >= deadline)
    <3>1. /\ at' = "pause" /\ due' = now + Least(interval, deadline - now)
          /\ reply' = None /\ outcome' = None /\ op' = op
      BY <1>6, <2>3 DEF Pause
    <3>2. deadline - now \in Int
      OBVIOUS
    <3>3. Least(interval, deadline - now) \in Int /\ Least(interval, deadline - now) <= interval
      BY <3>2, LeastType
    <3>4. op = "getState" => due' <= badAt + Lag
      BY <1>6, <2>1, <3>1, <3>3
    <3>. QED
      BY <1>1, <1>6, <3>1, <3>4
  <2>. QED
    BY <2>2, <2>3
<1>7. CASE UNCHANGED waitVars
  BY <1>7 DEF waitVars, Awaited, Shows
<1>8. ASSUME NEW g \in {"ready", "exit"}, BeginWait(g) PROVE SightInv'
  <2>1. /\ UNCHANGED <<fly, now, outcome, faulty, sight>> /\ goal' = g /\ at = "idle"
        /\ at' \in {"call", "loop"} /\ reply' = None /\ (at' = "loop" => due' = now)
    BY <1>8 DEF BeginWait, Call
  <2>. QED
    BY <2>1
<1>9. CASE Serve
  <2>1. /\ reply' = [machine |-> machine, exit |-> IF logged THEN code ELSE None]
        /\ still /\ UNCHANGED <<at, op, due, outcome, faulty>> /\ at = "call" /\ op # "wait"
    BY <1>9 DEF Serve
  <2>2. Shows(reply') <=> Awaited(machine, logged)
    BY <2>1 DEF Shows, Awaited, CodeInv
  <2>3. due <= now + Latency
    BY <2>1
  <2>. QED
    BY <1>1, <2>1, <2>2, <2>3 DEF Shows
<1>10. CASE Expire
  <2>1. ~Awaited(machine, logged) /\ still /\ at = "call" /\ Retry /\ UNCHANGED faulty
    BY <1>10 DEF Expire, Awaited, Started
  <2>2. CASE attempt < MaxAttempts
    BY <1>2, <2>1, <2>2 DEF Retry
  <2>3. CASE ~(attempt < MaxAttempts)
    BY <1>4, <2>1, <2>3 DEF Retry
  <2>. QED
    BY <2>2, <2>3
<1>11. CASE CallFails
  <2>1. still /\ at = "call" /\ faulty' /\ at' \in {"backoff", "done"} /\ reply' = None
        /\ outcome' \in {None, "error"}
    BY <1>11 DEF CallFails, Retry, Return
  <2>. QED
    BY <1>1, <2>1
<1>12. CASE Waited \/ Again
  BY <1>2, <1>12 DEF Waited, Again, Call
<1>13. CASE Loop
  <2>1. CASE now >= deadline
    BY <1>4, <1>13, <2>1 DEF Loop
  <2>2. CASE ~(now >= deadline)
    BY <1>2, <1>13, <2>2 DEF Loop, Call
  <2>. QED
    BY <2>1, <2>2
<1>14. CASE GotState
  <2>1. still /\ at = "call" /\ op = "getState" /\ reply # None /\ goal = "ready" /\ UNCHANGED faulty
    BY <1>14 DEF GotState
  <2>2. CASE Started(reply.machine)
    BY <1>2, <1>14, <2>1, <2>2 DEF GotState, Call
  <2>3. CASE ~Started(reply.machine)
    BY <1>6, <1>14, <2>1, <2>3 DEF GotState, Shows, Started
  <2>. QED
    BY <2>2, <2>3
<1>15. CASE GotHealth
  <2>1. still /\ at = "call" /\ op = "getHealth" /\ reply # None /\ goal = "ready" /\ UNCHANGED faulty
    BY <1>15 DEF GotHealth
  <2>2. CASE reply.machine = "healthy"
    <3>1. now <= goodAt + Latency
      BY <2>1, <2>2 DEF Shows
    <3>. QED
      BY <1>4, <1>15, <2>1, <2>2, <3>1 DEF GotHealth
  <2>3. CASE reply.machine # "healthy"
    BY <1>6, <1>15, <2>1, <2>3 DEF GotHealth, Shows
  <2>. QED
    BY <2>2, <2>3
<1>16. CASE GotExit
  <2>1. still /\ at = "call" /\ op = "getExit" /\ reply # None /\ goal = "exit" /\ UNCHANGED faulty
    BY <1>16 DEF GotExit
  <2>2. CASE reply.machine = "stopped"
    BY <1>2, <1>16, <2>1, <2>2 DEF GotExit, Call
  <2>3. CASE reply.machine # "stopped"
    BY <1>6, <1>16, <2>1, <2>3 DEF GotExit, Shows
  <2>. QED
    BY <2>2, <2>3
<1>17. CASE GotEvents
  <2>1. still /\ at = "call" /\ op = "events" /\ reply # None /\ goal = "exit" /\ UNCHANGED faulty
    BY <1>17 DEF GotEvents
  <2>2. reply.exit \in Codes \cup {None}
    BY <2>1
  <2>3. reply.exit = None => now <= badAt + Latency
    BY <1>5, <2>1 DEF Shows
  <2>. QED
    BY <1>4, <1>17, <2>1, <2>2, <2>3 DEF GotEvents
<1>18. CASE Wake
  <2>1. still /\ at = "pause" /\ now = due /\ reply = None /\ outcome = None /\ UNCHANGED <<outcome, faulty>>
    BY <1>18 DEF Wake
  <2>2. CASE op = "getState"
    BY <1>1, <1>18, <2>1, <2>2 DEF Wake
  <2>3. CASE op # "getState"
    BY <1>2, <1>18, <2>1, <2>3 DEF Wake, Call
  <2>. QED
    BY <2>2, <2>3
<1>19. ASSUME NEW m \in Machine, Change(m) PROVE SightInv'
  BY <1>3, <1>19 DEF Change
<1>20. CASE Log
  BY <1>3, <1>20 DEF Log
<1>21. CASE Tick
  BY <1>3, <1>21 DEF Tick
<1>. QED
  BY <1>7, <1>8, <1>9, <1>10, <1>11, <1>12, <1>13, <1>14, <1>15, <1>16, <1>17, <1>18, <1>19,
     <1>20, <1>21 DEF WaitNext

(***************************************************************************)
(* How long the attempts of a call take.                                   *)
(***************************************************************************)
LEMMA Products ==
    ASSUME NEW a \in Nat, NEW b \in Nat, NEW n \in Nat, NEW m \in Nat
    PROVE  /\ n * a \in Nat
           /\ (n + 1) * a = n * a + a
           /\ 0 * a = 0 /\ 1 * a = a
           /\ n <= m => n * a <= m * a
           /\ a <= b => n * a <= n * b
<1>1. n * a \in Nat /\ (n + 1) * a = n * a + a /\ 0 * a = 0 /\ 1 * a = a
  OBVIOUS
<1>2. ASSUME n <= m PROVE n * a <= m * a
  <2>1. PICK d \in Nat : m = n + d
    <3>1. m - n \in Nat /\ m = n + (m - n)
      BY <1>2
    <3>. QED
      BY <3>1
  <2>2. m * a = n * a + d * a /\ d * a \in Nat
    BY <2>1
  <2>. QED
    BY <1>1, <2>2
<1>3. ASSUME a <= b PROVE n * a <= n * b
  <2>1. PICK d \in Nat : b = a + d
    <3>1. b - a \in Nat /\ b = a + (b - a)
      BY <1>3
    <3>. QED
      BY <3>1
  <2>2. n * b = n * a + n * d /\ n * d \in Nat
    BY <2>1
  <2>. QED
    BY <1>1, <2>2
<1>. QED
  BY <1>1, <1>2, <1>3

LEMMA LeastNat ==
    ASSUME NEW a \in Nat, NEW b \in Nat
    PROVE  Least(a, b) \in Nat /\ Least(a, b) <= a /\ Least(a, b) <= b
  BY DEF Least

LEMMA Totals ==
    /\ Look \in Nat /\ Requests \in Nat
    /\ \A o : Overrun(o) \in Nat
<1>. /\ MaxAttempts \in Nat /\ MaxAttempts - 1 \in Nat /\ Latency \in Nat
     /\ StateTimeout \in Nat /\ WaitCap \in Nat
  BY WaitsAssumption
<1>1. TotalBackoff \in Nat
  BY BackoffsGrow, WaitsAssumption DEF TotalBackoff
<1>2. MaxAttempts * Latency \in Nat
  BY Products
<1>3. Least(StateTimeout, WaitCap) \in Nat
  BY LeastNat
<1>4. (MaxAttempts - 1) * Least(StateTimeout, WaitCap) \in Nat
  BY <1>3, Products
<1>5. Look \in Nat /\ Requests \in Nat
  BY <1>1, <1>2, <1>4 DEF Look, Requests
<1>. QED
  BY <1>5 DEF Overrun

\* One attempt more, one pause more.
LEMMA OwnGrows ==
    ASSUME NEW o, NEW s \in Nat, NEW n \in 1 .. MaxAttempts
    PROVE  /\ Own(o, s, n, n - 1) \in Nat
           /\ n < MaxAttempts =>
                /\ Backoff[n] \in Nat /\ Own(o, s, n, n) \in Nat
                /\ Own(o, s, n, n) = Own(o, s, n, n - 1) + Backoff[n]
                /\ Own(o, s, n + 1, n) =
                        Own(o, s, n, n) + IF o = "wait" THEN Least(s, WaitCap) ELSE Latency
           /\ Own(o, s, 1, 0) = IF o = "wait" THEN 0 ELSE Latency
<1>. /\ MaxAttempts \in Nat \ {0} /\ Latency \in Nat /\ WaitCap \in Nat
     /\ Backoff \in [1 .. MaxAttempts - 1 -> Nat]
  BY WaitsAssumption
<1>. DEFINE A == Least(s, WaitCap)
<1>1. A \in Nat
  BY LeastNat
<1>. HIDE DEF A
<1>2. /\ n \in Nat /\ n - 1 \in Nat /\ n - 1 \in 0 .. MaxAttempts - 1
      /\ (n - 1) + 1 = n /\ (n + 1) - 1 = n
      /\ n < MaxAttempts => n \in 1 .. MaxAttempts - 1
  OBVIOUS
<1>. DEFINE tries == n * A
            triesBefore == (n - 1) * A
            looks == n * Latency
            looksAfter == (n + 1) * Latency
<1>3. /\ tries \in Nat /\ triesBefore \in Nat /\ tries = triesBefore + A
      /\ looks \in Nat /\ looksAfter = looks + Latency
      /\ 0 * A = 0 /\ 1 * Latency = Latency
  BY <1>1, <1>2, Products
<1>4. Backoffs[n - 1] \in Nat /\ Backoffs[0] = 0
  BY <1>2, BackoffsGrow, BackoffsStep
<1>5. n < MaxAttempts => Backoff[n] \in Nat /\ Backoffs[n] = Backoffs[n - 1] + Backoff[n]
  BY <1>2, BackoffsStep
<1>6. CASE o = "wait"
  <2>1. /\ Own(o, s, n, n - 1) = triesBefore + Backoffs[n - 1]
        /\ Own(o, s, n, n) = triesBefore + Backoffs[n]
        /\ Own(o, s, n + 1, n) = tries + Backoffs[n]
        /\ Own(o, s, 1, 0) = 0 * A + Backoffs[0]
    BY <1>2, <1>6 DEF Own, A
  <2>. HIDE DEF tries, triesBefore, looks, looksAfter
  <2>2. Own(o, s, 1, 0) = 0
    BY <1>3, <1>4, <2>1
  <2>3. Own(o, s, n, n - 1) \in Nat
    BY <1>3, <1>4, <2>1
  <2>4. ASSUME n < MaxAttempts
        PROVE  /\ Own(o, s, n, n) \in Nat /\ Own(o, s, n, n) = Own(o, s, n, n - 1) + Backoff[n]
               /\ Own(o, s, n + 1, n) = Own(o, s, n, n) + A
    BY <1>1, <1>3, <1>4, <1>5, <2>1, <2>4
  <2>. QED
    BY <1>5, <1>6, <2>2, <2>3, <2>4 DEF A
<1>7. CASE o # "wait"
  <2>1. /\ Own(o, s, n, n - 1) = looks + Backoffs[n - 1]
        /\ Own(o, s, n, n) = looks + Backoffs[n]
        /\ Own(o, s, n + 1, n) = looksAfter + Backoffs[n]
        /\ Own(o, s, 1, 0) = 1 * Latency + Backoffs[0]
    BY <1>7 DEF Own
  <2>. HIDE DEF tries, triesBefore, looks, looksAfter
  <2>2. Own(o, s, 1, 0) = Latency
    BY <1>3, <1>4, <2>1
  <2>3. Own(o, s, n, n - 1) \in Nat
    BY <1>3, <1>4, <2>1
  <2>4. ASSUME n < MaxAttempts
        PROVE  /\ Own(o, s, n, n) \in Nat /\ Own(o, s, n, n) = Own(o, s, n, n - 1) + Backoff[n]
               /\ Own(o, s, n + 1, n) = Own(o, s, n, n) + Latency
    <3>1. Own(o, s, n, n) = Own(o, s, n, n - 1) + Backoff[n]
      BY <1>3, <1>4, <1>5, <2>1, <2>4
    <3>2. Own(o, s, n, n) \in Nat
      BY <1>5, <2>3, <2>4, <3>1
    <3>3. Own(o, s, n + 1, n) = Own(o, s, n, n) + Latency
      BY <1>3, <1>4, <1>5, <2>1, <2>4
    <3>. QED
      BY <3>1, <3>2, <3>3
  <2>. QED
    BY <1>5, <1>7, <2>2, <2>3, <2>4
<1>. QED
  BY <1>6, <1>7

LEMMA OwnBounded ==
    ASSUME NEW o, NEW s \in Nat, NEW n \in 1 .. MaxAttempts
    PROVE  /\ o # "wait" => Own(o, s, n, n - 1) <= Look
           /\ o = "wait" /\ s <= StateTimeout => Own(o, s, n, n - 1) <= Requests
<1>. /\ MaxAttempts \in Nat \ {0} /\ Latency \in Nat /\ WaitCap \in Nat /\ StateTimeout \in Nat
     /\ n \in Nat /\ n - 1 \in Nat /\ MaxAttempts - 1 \in Nat
     /\ n <= MaxAttempts /\ n - 1 <= MaxAttempts - 1
     /\ n - 1 \in 0 .. MaxAttempts - 1 /\ MaxAttempts - 1 \in 0 .. MaxAttempts - 1
  BY WaitsAssumption
<1>1. Backoffs[n - 1] \in Nat /\ TotalBackoff \in Nat /\ Backoffs[n - 1] <= TotalBackoff
  BY BackoffsGrow DEF TotalBackoff
<1>2. CASE o # "wait"
  <2>1. /\ n * Latency \in Nat /\ MaxAttempts * Latency \in Nat
        /\ n * Latency <= MaxAttempts * Latency
    BY Products
  <2>. QED
    BY <1>1, <1>2, <2>1 DEF Own, Look
<1>3. CASE o = "wait" /\ s <= StateTimeout
  <2>. DEFINE A == Least(s, WaitCap)
              B == Least(StateTimeout, WaitCap)
  <2>1. A \in Nat /\ B \in Nat /\ A <= B
    BY <1>3 DEF Least
  <2>. HIDE DEF A, B
  <2>2. /\ (n - 1) * A \in Nat /\ (n - 1) * B \in Nat /\ (MaxAttempts - 1) * B \in Nat
        /\ (n - 1) * A <= (n - 1) * B /\ (n - 1) * B <= (MaxAttempts - 1) * B
    BY <2>1, Products
  <2>3. Own(o, s, n, n - 1) = (n - 1) * A + Backoffs[n - 1]
    BY <1>3 DEF Own, A
  <2>4. Requests = (MaxAttempts - 1) * B + TotalBackoff
    BY DEF Requests, B
  <2>. QED
    BY <1>1, <1>3, <2>2, <2>3, <2>4
<1>. QED
  BY <1>2, <1>3

\* As many requests as the policy allows last until the deadline.
LEMMA TriesCover ==
    ASSUME NEW s \in 1 .. StateTimeout
    PROVE  /\ Tries(s, MaxAttempts) >= s /\ Tries(s, MaxAttempts) \in Nat
           /\ \A n \in Nat : /\ Tries(s, n) \in Nat
                             /\ Tries(s, n + 1) = Tries(s, n) + Least(s, WaitCap)
           /\ Tries(s, 1) = Least(s, WaitCap)
<1>. /\ MaxAttempts \in Nat \ {0} /\ WaitCap \in Nat /\ StateTimeout \in Nat /\ s \in Nat
     /\ StateTimeout <= MaxAttempts * WaitCap
  BY WaitsAssumption
<1>. DEFINE A == Least(s, WaitCap)
<1>1. A \in Nat /\ (A = s \/ A = WaitCap)
  BY DEF Least
<1>. HIDE DEF A
<1>2. \A n \in Nat : n * A \in Nat /\ (n + 1) * A = n * A + A
  BY <1>1, Products
<1>3. 1 * A = A /\ MaxAttempts * A \in Nat
  BY <1>1, Products
<1>4. CASE A = s
  <2>1. 1 * s <= MaxAttempts * s /\ 1 * s = s
    BY Products
  <2>. QED
    BY <1>2, <1>3, <1>4, <2>1 DEF Tries, A
<1>5. CASE A = WaitCap
  <2>1. s <= MaxAttempts * A
    <3>1. MaxAttempts * WaitCap \in Nat /\ s <= StateTimeout
      OBVIOUS
    <3>2. s <= MaxAttempts * WaitCap
      BY <3>1
    <3>. QED
      BY <1>5, <3>2
  <2>. QED
    BY <1>2, <1>3, <2>1 DEF Tries, A
<1>. QED
  BY <1>1, <1>4, <1>5

LEMMA DeadlineInit == WaitInit => DeadlineInv
  BY WaitsAssumption DEF WaitInit, DeadlineInv

LEMMA EndsInTime ==
    ASSUME WaitsTypeOK, PhaseInv, DeadlineInv, at # "idle"
    PROVE  now <= deadline + Late /\ Late \in Nat
<1>. /\ now \in Nat /\ due \in Nat /\ deadline \in Nat /\ span \in Nat
     /\ attempt \in 1 .. MaxAttempts /\ op \in Ops /\ goal \in {"ready", "exit"}
     /\ at \in {"loop", "call", "backoff", "pause", "done"}
     /\ StateTimeout \in Nat /\ MaxAttempts \in Nat /\ Latency \in Nat /\ WaitCap \in Nat
  BY WaitsAssumption DEF WaitsTypeOK
<1>0. Look \in Nat /\ Requests \in Nat /\ Late \in Nat
  BY Totals DEF Late
<1>1. CASE at \in {"loop", "pause", "done"}
  <2>1. now <= deadline \/ now <= deadline + Late
    BY <1>1 DEF PhaseInv, DeadlineInv
  <2>. QED
    BY <1>0, <2>1
<1>2. ASSUME NEW own \in Nat, now <= deadline + Overrun(op) + own,
             goal = "exit" <=> op \in {"getExit", "events"},
             op # "wait" => own <= Look,
             op = "wait" => own <= Requests
      PROVE  now <= deadline + Late
  <2>1. Overrun(op) \in Nat
    BY Totals
  <2>2. CASE goal = "exit"
    <3>1. Overrun(op) <= Look
      BY <1>0, <1>2, <2>2 DEF Overrun
    <3>. QED
      BY <1>0, <1>2, <2>1, <2>2, <3>1 DEF Late
  <2>3. CASE goal = "ready" /\ op = "wait"
    BY <1>0, <1>2, <2>3 DEF Overrun, Late
  <2>4. CASE goal = "ready" /\ op # "wait"
    <3>1. Overrun(op) <= Requests
      BY <1>0, <1>2, <2>4 DEF Overrun
    <3>. QED
      BY <1>0, <1>2, <2>1, <2>4, <3>1 DEF Late
  <2>. QED
    BY <2>2, <2>3, <2>4
<1>3. CASE at = "call"
  <2>. DEFINE own == Own(op, span, attempt, attempt - 1)
  <2>1. /\ now <= due /\ due <= deadline + Overrun(op) + own
        /\ goal = "exit" <=> op \in {"getExit", "events"}
        /\ op = "wait" => span <= StateTimeout
    BY <1>3 DEF PhaseInv, DeadlineInv
  <2>2. own \in Nat /\ (op # "wait" => own <= Look) /\ (op = "wait" => own <= Requests)
    BY <2>1, OwnGrows, OwnBounded
  <2>3. Overrun(op) \in Nat
    BY Totals
  <2>. HIDE DEF own
  <2>4. now <= deadline + Overrun(op) + own
    BY <2>1, <2>2, <2>3
  <2>. QED
    BY <1>0, <1>2, <2>1, <2>2, <2>4
<1>4. CASE at = "backoff"
  <2>. DEFINE mine == Own(op, span, attempt, attempt)
              own == Own(op, span, attempt + 1, attempt)
  <2>1. /\ now <= due /\ due <= deadline + Overrun(op) + mine
        /\ goal = "exit" <=> op \in {"getExit", "events"}
        /\ op = "wait" => span <= StateTimeout
        /\ attempt < MaxAttempts
    BY <1>4 DEF PhaseInv, DeadlineInv
  <2>2. attempt + 1 \in 1 .. MaxAttempts /\ (attempt + 1) - 1 = attempt
    BY <2>1
  <2>3. /\ mine \in Nat
        /\ own = mine + IF op = "wait" THEN Least(span, WaitCap) ELSE Latency
    BY <2>1, OwnGrows
  <2>4. Least(span, WaitCap) \in Nat
    BY LeastNat
  <2>5. Own(op, span, attempt + 1, (attempt + 1) - 1) = own
    BY <2>2
  <2>6. (op # "wait" => own <= Look) /\ (op = "wait" => own <= Requests)
    BY <2>1, <2>2, <2>5, OwnBounded
  <2>7. Overrun(op) \in Nat
    BY Totals
  <2>. HIDE DEF mine, own
  <2>8. own \in Nat /\ mine <= own
    BY <2>3, <2>4
  <2>9. now <= deadline + Overrun(op) + own
    BY <2>1, <2>3, <2>7, <2>8
  <2>. QED
    BY <1>0, <1>2, <2>1, <2>6, <2>8, <2>9
<1>. QED
  BY <1>0, <1>1, <1>3, <1>4

LEMMA FirstTry ==
    ASSUME NEW n \in Nat, NEW d \in Nat, NEW s \in Nat, NEW a \in Nat, n + s = d, a <= s
    PROVE  n + a <= d + 0 + 0 /\ n + a + s >= d + a
  OBVIOUS

LEMMA DeadlineStep ==
    ASSUME WaitsTypeOK, PhaseInv, DeadlineInv, [WaitNext]_waitVars
    PROVE  DeadlineInv'
<1>. /\ now \in Nat /\ due \in Nat /\ deadline \in Nat /\ span \in Nat
     /\ attempt \in 1 .. MaxAttempts /\ op \in Ops
     /\ StateTimeout \in Nat \ {0} /\ HealthTimeout \in Nat \ {0}
     /\ StatePoll \in Nat /\ HealthPoll \in Nat /\ Latency \in Nat /\ WaitCap \in Nat \ {0}
     /\ MaxAttempts \in Nat \ {0}
     /\ None \notin Codes \cup {"ready", "error"} /\ Codes \cap {"ready", "error"} = {}
  BY WaitsAssumption DEF WaitsTypeOK
<1>. USE DEF PhaseInv, DeadlineInv, fly, sight, Waiting, Ops
<1>. DEFINE own == Own(op, span, attempt, attempt - 1)
<1>0. own \in Nat /\ Look \in Nat /\ Requests \in Nat /\ \A o : Overrun(o) \in Nat
  BY OwnGrows, Totals
<1>1. CASE UNCHANGED waitVars
  BY <1>1 DEF waitVars, Late
\* Nothing of the wait changes, but perhaps the time.
<1>2. ASSUME at # "done", outcome = None,
             UNCHANGED <<at, goal, op, attempt, due, span, deadline, outcome, faulty>>
      PROVE  DeadlineInv'
  BY <1>2
\* A call begins.
<1>3. ASSUME NEW o \in Ops, Call(o, 1), outcome' = None, UNCHANGED now, span' \in Nat, deadline' \in Nat,
             o # "wait", o = "getState" => deadline' = StateTimeout,
             now <= deadline' + Overrun(o)
      PROVE  DeadlineInv'
  <2>1. /\ at' = "call" /\ op' = o /\ attempt' = 1 /\ due' = now + Latency
    BY <1>3 DEF Call, Allowance
  <2>2. Own(o, span', 1, 0) = Latency
    <3>1. 1 \in 1 .. MaxAttempts
      OBVIOUS
    <3>. QED
      BY <1>3, <3>1, OwnGrows
  <2>3. due' <= deadline' + Overrun(o) + Own(o, span', 1, 0)
    BY <1>0, <1>3, <2>1, <2>2
  <2>4. Own(op', span', attempt', attempt' - 1) = Own(o, span', 1, 0)
    BY <2>1
  <2>. QED
    BY <1>3, <2>1, <2>3, <2>4
\* The wait is over.
<1>4. ASSUME NEW a, Return(a), UNCHANGED <<now, goal, faulty>>,
             a = "error" /\ ~faulty => op = "events" \/ now >= deadline,
             now <= deadline + Late
      PROVE  DeadlineInv'
  BY <1>4 DEF Return, Late
<1>5. ASSUME Return("error"), UNCHANGED <<now, goal>>, faulty', now <= deadline + Late
      PROVE  DeadlineInv'
  BY <1>5 DEF Return, Late
\* Another attempt is to be made.
<1>6. ASSUME at = "call", attempt < MaxAttempts, Retry, UNCHANGED <<now, goal>>,
             op = "wait" /\ ~faulty' => ~faulty /\ now = due
      PROVE  DeadlineInv'
  <2>1. /\ at' = "backoff" /\ due' = now + Backoff[attempt]
        /\ UNCHANGED <<op, attempt, span, deadline, outcome>> /\ outcome = None
    BY <1>6 DEF Retry
  <2>2. /\ Backoff[attempt] \in Nat
        /\ Own(op, span, attempt, attempt) = own + Backoff[attempt]
    BY <1>6, OwnGrows
  <2>3. now <= due /\ due <= deadline + Overrun(op) + own
    BY <1>6
  <2>. HIDE DEF own
  <2>4. due' <= deadline + Overrun(op) + Own(op, span, attempt, attempt)
    BY <1>0, <2>1, <2>2, <2>3
  <2>5. op = "wait" /\ ~faulty' => due' + span >= deadline + Tries(span, attempt)
    <3>. SUFFICES ASSUME op = "wait", ~faulty' PROVE due' + span >= deadline + Tries(span, attempt)
      OBVIOUS
    <3>1. due + span >= deadline + Tries(span, attempt) /\ now = due /\ span \in 1 .. StateTimeout
      BY <1>6
    <3>2. Tries(span, attempt) \in Nat
      BY <3>1, TriesCover
    <3>. QED
      BY <2>1, <2>2, <3>1, <3>2
  <2>. QED
    BY <1>6, <2>1, <2>4, <2>5
\* A pause until the next look, or none if the deadline has passed.
<1>7. ASSUME NEW interval \in Nat, at = "call", op \notin {"wait", "events"}, Pause(interval),
             UNCHANGED <<now, goal, faulty>>
      PROVE  DeadlineInv'
  <2>1. CASE now >= deadline
    BY <1>4, <1>7, <2>1, EndsInTime DEF Pause
  <2>2. CASE ~(now >= deadline)
    <3>1. deadline - now \in Nat /\ now + (deadline - now) = deadline
      BY <2>2
    <3>2. Least(interval, deadline - now) \in Nat /\ Least(interval, deadline - now) <= deadline - now
      BY <3>1, LeastNat
    <3>3. due' = now + Least(interval, deadline - now) /\ at' = "pause"
          /\ UNCHANGED <<op, attempt, span, deadline, outcome>> /\ outcome = None
      BY <1>7, <2>2 DEF Pause
    <3>4. due' <= deadline
      BY <3>1, <3>2, <3>3
    <3>. QED
      BY <1>7, <3>3, <3>4
  <2>. QED
    BY <2>1, <2>2
<1>8. ASSUME NEW g \in {"ready", "exit"}, BeginWait(g) PROVE DeadlineInv'
  <2>1. CASE g = "exit"
    <3>1. /\ Call("getExit", 1) /\ deadline' = now + HealthTimeout /\ UNCHANGED <<now, span, outcome>>
          /\ outcome = None
      BY <1>8, <2>1 DEF BeginWait
    <3>2. now <= deadline' + Overrun("getExit") /\ deadline' \in Nat
      BY <1>0, <3>1
    <3>. QED
      BY <1>3, <3>1, <3>2
  <2>2. CASE g = "ready"
    BY <1>8, <2>2 DEF BeginWait
  <2>. QED
    BY <2>1, <2>2
<1>9. CASE Serve
  BY <1>2, <1>9 DEF Serve
<1>10. CASE Expire
  <2>1. at = "call" /\ op = "wait" /\ now = due /\ Retry /\ UNCHANGED <<now, goal, faulty>>
    BY <1>10 DEF Expire
  <2>2. CASE attempt < MaxAttempts
    BY <1>6, <2>1, <2>2
  <2>3. CASE ~(attempt < MaxAttempts)
    <3>1. Return("error") /\ attempt = MaxAttempts
      BY <2>1, <2>3 DEF Retry
    <3>2. ~faulty => now >= deadline
      <4>. SUFFICES ASSUME ~faulty PROVE now >= deadline
        OBVIOUS
      <4>1. span \in 1 .. StateTimeout /\ now + span >= deadline + Tries(span, MaxAttempts)
        BY <2>1, <3>1
      <4>2. Tries(span, MaxAttempts) >= span /\ Tries(span, MaxAttempts) \in Nat
        BY <4>1, TriesCover
      <4>. QED
        BY <4>1, <4>2
    <3>. QED
      BY <1>4, <2>1, <3>1, <3>2, EndsInTime
  <2>. QED
    BY <2>2, <2>3
<1>11. CASE CallFails
  <2>1. at = "call" /\ faulty' /\ (Retry \/ Return("error")) /\ UNCHANGED <<now, goal>>
    BY <1>11 DEF CallFails
  <2>2. CASE Return("error")
    BY <1>5, <2>1, <2>2, EndsInTime
  <2>3. CASE Retry /\ attempt < MaxAttempts
    BY <1>6, <2>1, <2>3
  <2>. QED
    BY <2>1, <2>2, <2>3 DEF Retry
<1>12. CASE Waited
  <2>1. /\ at = "call" /\ op = "wait" /\ Call("getState", 1)
        /\ UNCHANGED <<now, span, deadline, outcome>> /\ outcome = None
    BY <1>12 DEF Waited
  <2>2. own <= Requests /\ now <= deadline + Overrun("wait") + own /\ Overrun("wait") = 0 /\ Overrun("getState") = Requests
    <3>1. own <= Requests
      BY <2>1, OwnBounded
    <3>2. now <= due /\ due <= deadline + Overrun(op) + own /\ Overrun(op) \in Nat
      BY <1>0, <2>1
    <3>. HIDE DEF own
    <3>. QED
      BY <1>0, <2>1, <3>1, <3>2 DEF Overrun
  <2>. HIDE DEF own
  <2>3. now <= deadline + Overrun("getState")
    BY <1>0, <2>2
  <2>4. deadline = StateTimeout
    BY <2>1
  <2>. QED
    BY <1>3, <2>1, <2>3, <2>4
<1>13. CASE Again
  <2>1. /\ at = "backoff" /\ now = due /\ Call(op, attempt + 1) /\ attempt < MaxAttempts
        /\ UNCHANGED <<now, goal, span, deadline, outcome, faulty>> /\ outcome = None
    BY <1>13 DEF Again
  <2>. DEFINE per == IF op = "wait" THEN Least(span, WaitCap) ELSE Latency
              mine == Own(op, span, attempt, attempt)
              next == Own(op, span, attempt + 1, attempt)
  <2>2. per \in Nat /\ mine \in Nat /\ next = mine + per
    BY <2>1, OwnGrows, LeastNat
  <2>3. /\ at' = "call" /\ op' = op /\ attempt' = attempt + 1 /\ due' = now + per
        /\ (attempt + 1) - 1 = attempt
    BY <2>1 DEF Call, Allowance
  <2>4. due <= deadline + Overrun(op) + mine
    BY <2>1
  <2>5. op = "wait" /\ ~faulty => due + span >= deadline + Tries(span, attempt) /\ span \in 1 .. StateTimeout
    BY <2>1
  <2>6. op = "wait" /\ ~faulty =>
            /\ Tries(span, attempt) \in Nat
            /\ Tries(span, attempt + 1) = Tries(span, attempt) + per
    BY <2>5, TriesCover
  <2>7. Own(op', span', attempt', attempt' - 1) = next
    BY <2>1, <2>3
  <2>. HIDE DEF per, mine, next
  <2>8. due' <= deadline + Overrun(op) + next
    BY <1>0, <2>1, <2>2, <2>3, <2>4
  <2>9. op = "wait" /\ ~faulty => due' + span >= deadline + Tries(span, attempt + 1)
    BY <2>1, <2>2, <2>3, <2>5, <2>6
  <2>. QED
    BY <2>1, <2>3, <2>7, <2>8, <2>9
<1>14. CASE Loop
  <2>1. /\ at = "loop" /\ deadline = StateTimeout /\ now <= deadline /\ goal = "ready"
        /\ UNCHANGED <<now, goal, faulty>> /\ outcome = None
    BY <1>14 DEF Loop
  <2>2. CASE now >= deadline
    <3>1. Return("error")
      BY <1>14, <2>2 DEF Loop
    <3>2. now <= deadline + Late
      BY <1>0, <2>1 DEF Late
    <3>. QED
      BY <1>4, <2>1, <2>2, <3>1, <3>2
  <2>3. CASE ~(now >= deadline)
    <3>1. /\ span' = deadline - now /\ Call("wait", 1) /\ UNCHANGED <<deadline, outcome>>
      BY <1>14, <2>3 DEF Loop
    <3>2. span' \in 1 .. StateTimeout /\ span' \in Nat /\ now + span' = deadline
      BY <2>1, <2>3, <3>1
    <3>. DEFINE A == Least(span', WaitCap)
    <3>3. A \in Nat /\ A <= span'
      BY <3>2, LeastNat
    <3>4. /\ at' = "call" /\ op' = "wait" /\ attempt' = 1 /\ due' = now + A
      BY <3>1 DEF Call, Allowance
    <3>5. Own("wait", span', 1, 0) = 0 /\ Overrun("wait") = 0
      <4>1. 1 \in 1 .. MaxAttempts
        OBVIOUS
      <4>. QED
        BY <3>2, <4>1, OwnGrows DEF Overrun
    <3>6. Tries(span', 1) = A
      BY <3>2, TriesCover
    <3>7. Own(op', span', attempt', attempt' - 1) = 0 /\ Overrun(op') = 0 /\ Tries(span', attempt') = A
      BY <3>4, <3>5, <3>6
    <3>. HIDE DEF A
    <3>8. now + A <= deadline + 0 + 0 /\ now + A + span' >= deadline + A
      BY <3>2, <3>3, FirstTry
    <3>9. due' <= deadline + 0 + 0 /\ due' + span' >= deadline + A
      BY <3>4, <3>8
    <3>. QED
      BY <2>1, <3>1, <3>2, <3>4, <3>7, <3>8, <3>9
  <2>. QED
    BY <2>2, <2>3
<1>15. CASE GotState
  <2>1. at = "call" /\ op = "getState" /\ UNCHANGED <<now, goal, faulty>> /\ outcome = None
    BY <1>15 DEF GotState
  <2>2. CASE Started(reply.machine)
    <3>1. /\ deadline' = now + HealthTimeout /\ Call("getHealth", 1) /\ UNCHANGED <<span, outcome>>
      BY <1>15, <2>2 DEF GotState
    <3>2. now <= deadline' + Overrun("getHealth") /\ deadline' \in Nat
      BY <1>0, <3>1
    <3>. QED
      BY <1>3, <2>1, <3>1, <3>2
  <2>3. CASE ~Started(reply.machine)
    BY <1>7, <1>15, <2>1, <2>3 DEF GotState
  <2>. QED
    BY <2>2, <2>3
<1>16. CASE GotHealth
  <2>1. at = "call" /\ op = "getHealth" /\ UNCHANGED <<now, goal, faulty>>
    BY <1>16 DEF GotHealth
  <2>. QED
    BY <1>4, <1>7, <1>16, <2>1, EndsInTime DEF GotHealth
<1>17. CASE GotExit
  <2>1. at = "call" /\ op = "getExit" /\ UNCHANGED <<now, goal, faulty>> /\ outcome = None
    BY <1>17 DEF GotExit
  <2>2. CASE reply.machine = "stopped"
    <3>1. Call("events", 1) /\ UNCHANGED <<span, deadline, outcome>>
      BY <1>17, <2>2 DEF GotExit
    <3>2. own <= Look /\ now <= due /\ due <= deadline + Overrun(op) + own /\ Overrun(op) = 0 /\ Overrun("events") = Look
      BY <2>1, OwnBounded DEF Overrun
    <3>. HIDE DEF own
    <3>3. now <= deadline + Overrun("events")
      BY <1>0, <3>2
    <3>. QED
      BY <1>3, <2>1, <3>1, <3>3
  <2>3. CASE reply.machine # "stopped"
    BY <1>7, <1>17, <2>1, <2>3 DEF GotExit
  <2>. QED
    BY <2>2, <2>3
<1>18. CASE GotEvents
  <2>1. at = "call" /\ op = "events" /\ UNCHANGED <<now, goal, faulty>>
    BY <1>18 DEF GotEvents
  <2>. QED
    BY <1>4, <1>18, <2>1, EndsInTime DEF GotEvents
<1>19. CASE Wake
  <2>1. /\ at = "pause" /\ now = due /\ due <= deadline /\ UNCHANGED <<now, goal, span, deadline, outcome, faulty>>
        /\ outcome = None /\ op \notin {"wait", "events"}
    BY <1>19 DEF Wake
  <2>2. CASE op = "getState"
    BY <1>19, <2>1, <2>2 DEF Wake
  <2>3. CASE op # "getState"
    <3>1. Call(op, 1)
      BY <1>19, <2>3 DEF Wake
    <3>2. now <= deadline + Overrun(op)
      BY <1>0, <2>1
    <3>. QED
      BY <1>3, <2>1, <2>3, <3>1, <3>2
  <2>. QED
    BY <2>2, <2>3
<1>20. CASE Log \/ Tick \/ \E m \in Machine : Change(m)
  BY <1>2, <1>20 DEF Log, Tick, Change
<1>. QED
  BY <1>1, <1>8, <1>9, <1>10, <1>11, <1>12, <1>13, <1>14, <1>15, <1>16, <1>17, <1>18, <1>19, <1>20
  DEF WaitNext

-----------------------------------------------------------------------------
WaitInv == WaitsTypeOK /\ PhaseInv /\ CodeInv /\ SightInv /\ DeadlineInv

LEMMA WaitInvariant == WaitSpec => []WaitInv
<1>1. WaitInit => WaitInv
  BY WaitsTypeInit, PhaseInit, CodeInit, SightInit, DeadlineInit DEF WaitInv
<1>2. WaitInv /\ [WaitNext]_waitVars => WaitInv'
  BY WaitsTypeStep, PhaseStep, CodeStep, SightStep, DeadlineStep DEF WaitInv
<1>. QED
  BY <1>1, <1>2, PTL DEF WaitSpec

\* The exit code a wait returns is that of the machine's command, for any codes
\* and however calls fail, machines go and events are late.
THEOREM ExitCodesAreReal == WaitSpec => []ExitIsReal
<1>1. WaitInv => ExitIsReal
  BY DEF WaitInv, CodeInv, ExitIsReal
<1>. QED
  BY <1>1, WaitInvariant, PTL

\* A machine reported ready was so no longer than the time of an answer ago.
THEOREM ReadyMachinesAreReal == WaitSpec => []ReadyIsReal
<1>1. WaitInv => ReadyIsReal
  BY DEF WaitInv, SightInv, ReadyIsReal
<1>. QED
  BY <1>1, WaitInvariant, PTL

\* A wait none of whose calls fails does not miss what it waits for.
THEOREM AnswersAreNotMissed == WaitSpec => []NoMissedAnswer
<1>1. WaitInv => NoMissedAnswer
  BY WaitsAssumption DEF WaitInv, WaitsTypeOK, SightInv, NoMissedAnswer, Lag
<1>. QED
  BY <1>1, WaitInvariant, PTL

\* Nor does it give up before its deadline.
THEOREM WaitsArePatient == WaitSpec => []PatientWait
<1>1. WaitInv => PatientWait
  BY DEF WaitInv, DeadlineInv, PatientWait
<1>. QED
  BY <1>1, WaitInvariant, PTL

\* A wait outlives its deadline by the retries of the calls begun before it, and
\* no more, for every retry policy: whatever fails, it is over by then.
THEOREM WaitsOvershootBounded == WaitSpec => []OvershootBounded
<1>1. WaitInv => OvershootBounded
  <2>. SUFFICES ASSUME WaitInv, at # "idle" PROVE now <= deadline + Late
    BY DEF OvershootBounded, Late, Look, Requests
  <2>. QED
    BY EndsInTime DEF WaitInv
<1>. QED
  BY <1>1, WaitInvariant, PTL

\* The waits' variables are well-formed.
THEOREM WaitTypes == WaitSpec => []WaitsTypeOK
  BY WaitInvariant, PTL DEF WaitInv
-----------------------------------------------------------------------------
(***************************************************************************)
(* What WaitEnds rests on.  How much of a wait is left: the deadlines it   *)
(* still has to meet, the time to the end of the retries of this one, the  *)
(* calls of this instant, the attempts of this call, and its answer.       *)
(***************************************************************************)
Legs ==
    IF at = "done" THEN 0
    ELSE IF goal = "ready" /\ (at = "loop" \/ op \in {"wait", "getState"}) THEN 2 ELSE 1

TimeLeft == deadline + Late - now

CallsNow ==
    IF at = "done" \/ (at = "pause" /\ now < due) THEN 0
    ELSE IF at = "pause" THEN 4
    ELSE IF at = "loop" THEN 3
    ELSE IF op \in {"wait", "getExit"} THEN 2 ELSE 1

AttemptsLeft == 2 * (MaxAttempts - attempt) + (IF at = "call" THEN 1 ELSE 0)

AnswersLeft == IF reply = None THEN 1 ELSE 0

Nearer ==
    \/ Legs' < Legs
    \/ /\ Legs' = Legs
       /\ \/ TimeLeft' < TimeLeft
          \/ /\ TimeLeft' = TimeLeft
             /\ \/ CallsNow' < CallsNow
                \/ /\ CallsNow' = CallsNow
                   /\ \/ AttemptsLeft' < AttemptsLeft
                      \/ AttemptsLeft' = AttemptsLeft /\ AnswersLeft' < AnswersLeft

\* Of what is left to wait for something is due, or time passes until it is.
SomethingIsDue ==
    Waiting =>
        \/ now < due
        \/ at = "loop"
        \/ at \in {"backoff", "pause"} /\ now = due
        \/ at = "call" /\ (op = "wait" => now = due)

LEMMA WhatIsLeft ==
    ASSUME WaitInv, at # "idle"
    PROVE  /\ Legs \in 0 .. 2 /\ (at # "done" => Legs # 0)
           /\ TimeLeft \in Nat /\ CallsNow \in Nat /\ AttemptsLeft \in Nat /\ AnswersLeft \in Nat
<1>1. now \in Nat /\ deadline \in Nat /\ attempt \in 1 .. MaxAttempts /\ MaxAttempts \in Nat
  BY WaitsAssumption DEF WaitInv, WaitsTypeOK
<1>2. now <= deadline + Late /\ Late \in Nat
  BY EndsInTime DEF WaitInv
<1>3. TimeLeft \in Nat
  BY <1>1, <1>2 DEF TimeLeft
<1>4. AttemptsLeft \in Nat
  BY <1>1 DEF AttemptsLeft
<1>. QED
  BY <1>3, <1>4 DEF Legs, CallsNow, AnswersLeft

LEMMA SameTime ==
    ASSUME UNCHANGED <<now, goal, deadline>>
    PROVE  TimeLeft' = TimeLeft
  BY DEF TimeLeft, Late

LEMMA ReturnNears ==
    ASSUME WaitInv, at \notin {"idle", "done"}, at' = "done"
    PROVE  Nearer
<1>1. Legs' = 0
  BY DEF Legs
<1>2. Legs \in 1 .. 2
  BY DEF Legs
<1>. QED
  BY <1>1, <1>2 DEF Nearer

\* The call under way has come back without a result.
LEMMA RetryNears ==
    ASSUME WaitInv, at = "call", Retry \/ Return("error"), UNCHANGED <<now, goal>>
    PROVE  Nearer
<1>1. CASE at' = "done"
  BY <1>1, ReturnNears
<1>2. CASE at' # "done"
  <2>1. /\ at' = "backoff"
        /\ UNCHANGED <<op, attempt, deadline>>
    BY <1>2 DEF Retry, Return
  <2>2. Legs' = Legs /\ CallsNow' = CallsNow /\ TimeLeft' = TimeLeft
    BY <2>1, SameTime DEF Legs, CallsNow
  <2>3. attempt \in Nat /\ MaxAttempts \in Nat
    BY WaitsAssumption DEF WaitInv, WaitsTypeOK
  <2>4. AttemptsLeft' < AttemptsLeft
    BY <2>1, <2>3 DEF AttemptsLeft
  <2>. QED
    BY <2>2, <2>4 DEF Nearer
<1>. QED
  BY <1>1, <1>2

LEMMA PauseNears ==
    ASSUME WaitInv, at = "call", op # "wait", NEW interval \in Nat \ {0}, Pause(interval),
           UNCHANGED <<now, goal>>
    PROVE  Nearer
<1>1. CASE at' = "done"
  BY <1>1, ReturnNears
<1>2. CASE at' # "done"
  <2>1. now \in Nat /\ deadline \in Nat
    BY DEF WaitInv, WaitsTypeOK
  <2>2. /\ now < deadline /\ at' = "pause"
        /\ due' = now + Least(interval, deadline - now)
        /\ UNCHANGED <<op, deadline>>
    BY <1>2, <2>1 DEF Pause, Return
  <2>3. now' < due'
    BY <2>1, <2>2 DEF Least
  <2>4. Legs' = Legs /\ CallsNow' = 0 /\ CallsNow \in 1 .. 2 /\ TimeLeft' = TimeLeft
    BY <2>2, <2>3, SameTime DEF Legs, CallsNow
  <2>. QED
    BY <2>4 DEF Nearer
<1>. QED
  BY <1>1, <1>2

\* Every step of the program brings the end of the wait nearer.
LEMMA ProgramNears ==
    ASSUME WaitInv,
           \/ Serve \/ Expire \/ Waited \/ Again \/ CallFails
           \/ Loop \/ GotState \/ GotHealth \/ GotExit \/ GotEvents \/ Wake
    PROVE  Nearer
<1>0. /\ now \in Nat /\ due \in Nat /\ deadline \in Nat
      /\ attempt \in 1 .. MaxAttempts /\ MaxAttempts \in Nat
      /\ StatePoll \in Nat \ {0} /\ HealthPoll \in Nat \ {0}
  BY WaitsAssumption DEF WaitInv, WaitsTypeOK
<1>. USE DEF Call
<1>1. CASE Serve
  <2>1. UNCHANGED <<now, goal, deadline, at, op, attempt, due>> /\ reply = None /\ reply' # None
    <3>1. [machine |-> machine, exit |-> IF logged THEN code ELSE None] \in Reply
      BY DEF WaitInv, WaitsTypeOK, Reply
    <3>. QED
      BY <1>1, <3>1, ReplyAssumption DEF Serve
  <2>2. Legs' = Legs /\ CallsNow' = CallsNow /\ TimeLeft' = TimeLeft /\ AttemptsLeft' = AttemptsLeft
    BY <2>1, SameTime DEF Legs, CallsNow, AttemptsLeft
  <2>. QED
    BY <2>1, <2>2 DEF Nearer, AnswersLeft
<1>2. CASE Expire
  BY <1>2, RetryNears DEF Expire
<1>3. CASE CallFails
  BY <1>3, RetryNears DEF CallFails
<1>4. CASE Waited
  <2>1. /\ at = "call" /\ op = "wait" /\ at' = "call" /\ op' = "getState"
        /\ UNCHANGED <<now, goal, deadline>>
    BY <1>4 DEF Waited
  <2>2. Legs' = Legs /\ CallsNow' = 1 /\ CallsNow = 2 /\ TimeLeft' = TimeLeft
    BY <2>1, SameTime DEF Legs, CallsNow
  <2>. QED
    BY <2>2 DEF Nearer
<1>5. CASE Again
  <2>1. /\ at = "backoff" /\ at' = "call" /\ op' = op /\ attempt' = attempt + 1
        /\ UNCHANGED <<now, goal, deadline>>
    BY <1>5 DEF Again
  <2>2. Legs' = Legs /\ CallsNow' = CallsNow /\ TimeLeft' = TimeLeft
    BY <2>1, SameTime DEF Legs, CallsNow
  <2>3. AttemptsLeft' < AttemptsLeft
    BY <1>0, <2>1 DEF AttemptsLeft
  <2>. QED
    BY <2>2, <2>3 DEF Nearer
<1>6. CASE Loop
  <2>1. CASE at' = "done"
    BY <1>6, <2>1, ReturnNears DEF Loop
  <2>2. CASE at' # "done"
    <3>1. /\ at = "loop" /\ goal = "ready" /\ at' = "call" /\ op' = "wait"
          /\ UNCHANGED <<now, goal, deadline>>
      BY <1>6, <2>2 DEF Loop, Return, WaitInv, PhaseInv
    <3>2. Legs' = Legs /\ CallsNow' = 2 /\ CallsNow = 3 /\ TimeLeft' = TimeLeft
      BY <3>1, SameTime DEF Legs, CallsNow
    <3>. QED
      BY <3>2 DEF Nearer
  <2>. QED
    BY <2>1, <2>2
<1>7. CASE GotState
  <2>1. CASE Started(reply.machine)
    <3>1. /\ at = "call" /\ op = "getState" /\ goal = "ready"
          /\ at' = "call" /\ op' = "getHealth" /\ goal' = goal
      BY <1>7, <2>1 DEF GotState, WaitInv, PhaseInv, WaitsTypeOK
    <3>2. Legs' = 1 /\ Legs = 2
      BY <3>1 DEF Legs
    <3>. QED
      BY <3>2 DEF Nearer
  <2>2. CASE ~Started(reply.machine)
    BY <1>0, <1>7, <2>2, PauseNears DEF GotState
  <2>. QED
    BY <2>1, <2>2
<1>8. CASE GotHealth
  <2>1. CASE at' = "done"
    BY <1>8, <2>1, ReturnNears DEF GotHealth
  <2>2. CASE at' # "done"
    BY <1>0, <1>8, <2>2, PauseNears DEF GotHealth, Return
  <2>. QED
    BY <2>1, <2>2
<1>9. CASE GotExit
  <2>1. CASE reply.machine = "stopped"
    <3>1. /\ at = "call" /\ op = "getExit" /\ at' = "call" /\ op' = "events"
          /\ UNCHANGED <<now, goal, deadline>>
      BY <1>9, <2>1 DEF GotExit
    <3>2. Legs' = Legs /\ CallsNow' = 1 /\ CallsNow = 2 /\ TimeLeft' = TimeLeft
      BY <3>1, SameTime DEF Legs, CallsNow
    <3>. QED
      BY <3>2 DEF Nearer
  <2>2. CASE reply.machine # "stopped"
    BY <1>0, <1>9, <2>2, PauseNears DEF GotExit
  <2>. QED
    BY <2>1, <2>2
<1>10. CASE GotEvents
  BY <1>10, ReturnNears DEF GotEvents, Return
<1>11. CASE Wake
  <2>1. /\ at = "pause" /\ now = due /\ op \notin {"wait", "events"}
        /\ \/ op = "getState" /\ at' = "loop" /\ op' = op
           \/ op # "getState" /\ at' = "call" /\ op' = op
        /\ goal = "ready" \/ op # "getState"
        /\ UNCHANGED <<now, goal, deadline>>
    BY <1>11 DEF Wake, WaitInv, PhaseInv, WaitsTypeOK
  <2>2. Legs' = Legs /\ TimeLeft' = TimeLeft
    BY <2>1, SameTime DEF Legs
  <2>3. CallsNow = 4 /\ CallsNow' \in 1 .. 3
    BY <1>0, <2>1 DEF CallsNow
  <2>. QED
    BY <2>2, <2>3 DEF Nearer
<1>. QED
  BY <1>1, <1>2, <1>3, <1>4, <1>5, <1>6, <1>7, <1>8, <1>9, <1>10, <1>11

LEMMA TimeNears ==
    ASSUME WaitInv, Tick
    PROVE  Nearer
<1>1. now \in Nat /\ deadline \in Nat /\ now' = now + 1 /\ UNCHANGED <<at, goal, op, deadline>>
  BY DEF Tick, WaitInv, WaitsTypeOK
<1>2. Late \in Nat /\ Late' = Late
  <2>1. Late \in Nat
    BY Totals DEF Late
  <2>2. Late' = Late
    BY <1>1 DEF Late
  <2>. QED
    BY <2>1, <2>2
<1>3. Legs' = Legs
  BY <1>1 DEF Legs
<1>4. TimeLeft' < TimeLeft
  BY <1>1, <1>2 DEF TimeLeft
<1>. QED
  BY <1>3, <1>4 DEF Nearer

(***************************************************************************)
(* A wait is never stuck: something is due or time passes until it is.     *)
(***************************************************************************)
THEOREM WaitsAreNeverStuck == WaitSpec => []SomethingIsDue
<1>1. WaitInv => SomethingIsDue
  BY DEF WaitInv, WaitsTypeOK, PhaseInv, Waiting, SomethingIsDue
<1>. QED
  BY <1>1, WaitInvariant, PTL

(***************************************************************************)
(* Every step of the program and of the clock brings a wait nearer to its  *)
(* end, whatever fails and is retried; the machine's own steps take        *)
(* nothing back.  So a wait during which time passes and calls are         *)
(* answered ends.                                                          *)
(***************************************************************************)
THEOREM WaitsCountDown ==
    WaitSpec => [][at # "idle" =>
        \/ Nearer
        \/ /\ UNCHANGED <<Legs, TimeLeft, CallsNow, AttemptsLeft, AnswersLeft>>
           /\ Log \/ \E m \in Machine : Change(m)]_waitVars
<1>. DEFINE Good == at # "idle" =>
        \/ Nearer
        \/ /\ UNCHANGED <<Legs, TimeLeft, CallsNow, AttemptsLeft, AnswersLeft>>
           /\ Log \/ \E m \in Machine : Change(m)
<1>1. WaitInv /\ WaitNext => Good
  <2>. SUFFICES ASSUME WaitInv, WaitNext, at # "idle" PROVE Good
    OBVIOUS
  <2>1. CASE Log \/ \E m \in Machine : Change(m)
    <3>1. UNCHANGED <<now, at, goal, op, attempt, reply, due, deadline>>
      BY <2>1 DEF Log, Change
    <3>2. UNCHANGED <<Legs, CallsNow, AttemptsLeft, AnswersLeft>>
      BY <3>1 DEF Legs, CallsNow, AttemptsLeft, AnswersLeft
    <3>3. UNCHANGED TimeLeft
      BY <3>1, SameTime
    <3>. QED
      BY <2>1, <3>2, <3>3
  <2>2. CASE \E g \in {"ready", "exit"} : BeginWait(g)
    BY <2>2 DEF BeginWait
  <2>. QED
    BY <2>1, <2>2, ProgramNears, TimeNears DEF WaitNext
<1>2. [][WaitInv /\ WaitNext]_waitVars => [][Good]_waitVars
  BY <1>1, PTL
<1>. QED
  BY <1>2, WaitInvariant, PTL DEF WaitSpec
=============================================================================
