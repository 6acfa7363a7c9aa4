---------------------------- MODULE StoreProofs ----------------------------
(***************************************************************************)
(* Proofs about Store for any set of processes and updates, when no        *)
(* request handler outlives Close.                                         *)
(*                                                                         *)
(* AckedSurvives, AckedVisible and OneWriter are not inductive: a step of  *)
(* writeAtomic keeps them only because its process owns the flock, because *)
(* the clone it writes was built from memory that had every acknowledged   *)
(* update, and because nobody else renames between the rename and the      *)
(* directory sync.  Inv says so.                                           *)
(***************************************************************************)
EXTENDS Store, TLAPS

\* The flock belongs to the one process that is opening or has opened.
LockOwner == \A p \in Procs : pc[p] \in {"opening", "open"} <=> lock = p

\* Only the owner of the flock is inside writeAtomic.
WriterOwns == \A p \in Procs : stage[p] # "none" => lock = p

\* What is being written has every acknowledged update.
CloneKeepsAcked ==
  \A p \in Procs : stage[p] # "none" => acked \subseteq clone[p].applied

\* The temporary file is flushed before it is renamed.
FlushedFirst == \A p \in Procs : stage[p] = "rename" => flushed[p]

\* Between rename and directory sync the path names the writer's clone.
RenamedIsClone == \A p \in Procs : stage[p] = "dirsync" => file = clone[p]

FileSurvives == file \in survivors

Safe ==
  /\ LockOwner /\ WriterOwns
  /\ CloneKeepsAcked /\ FlushedFirst /\ RenamedIsClone /\ FileSurvives
  /\ AckedSurvives /\ AckedVisible

Inv == TypeOK /\ Safe

\* The initial documents, stages and memories are within their types.
LEMMA TypeInit == Init => TypeOK
  BY StoreAssumptions DEF Init, TypeOK, Document, Blank, currentVersion, Stages

\* Every step of Store keeps the types.
LEMMA TypeNext == TypeOK /\ [Next]_vars => TypeOK'
<1> SUFFICES ASSUME TypeOK, [Next]_vars PROVE TypeOK'
  OBVIOUS
<1> USE StoreAssumptions DEF TypeOK, Stages
<1>1. ASSUME NEW p \in Procs, AcquireLock(p) PROVE TypeOK'
  BY <1>1 DEF AcquireLock
<1>2. ASSUME NEW p \in Procs, Load(p) PROVE TypeOK'
  <2> DEFINE loaded == [file EXCEPT !.version = currentVersion]
  <2>1. loaded \in Document
    BY DEF Document, currentVersion
  <2>2. CASE file.version \in 1..currentVersion - 1
    BY <1>2, <2>1, <2>2 DEF Load, BeginWrite
  <2>3. CASE file.version \notin 1..currentVersion - 1
    BY <1>2, <2>1, <2>3 DEF Load
  <2> QED BY <2>2, <2>3
<1>3. Blank \in Document
  BY DEF Blank, Document, currentVersion
<1>4. ASSUME NEW p \in Procs, Leave(p), UNCHANGED <<file, survivors, acked>>
      PROVE TypeOK'
  BY <1>3, <1>4 DEF Leave
<1>5. ASSUME NEW p \in Procs, NEW u \in Updates, Update(p, u) PROVE TypeOK'
  <2>1. [mem[p] EXCEPT !.applied = @ \cup {u}] \in Document
    BY DEF Document
  <2> QED BY <1>5, <2>1 DEF Update, BeginWrite
<1>6. ASSUME NEW p \in Procs, WriteTemp(p) \/ SyncTemp(p) PROVE TypeOK'
  BY <1>6 DEF WriteTemp, SyncTemp
<1>7. ASSUME NEW p \in Procs, Rename(p) PROVE TypeOK'
  BY <1>3, <1>7 DEF Rename
<1>8. ASSUME NEW p \in Procs, SyncDir(p) PROVE TypeOK'
  <2>1. clone[p].applied \in SUBSET Updates
    BY DEF Document
  <2> QED BY <1>8, <2>1 DEF SyncDir
<1>9. ASSUME NEW p \in Procs, WriteFails(p) PROVE TypeOK'
  <2>1. CASE pc[p] = "opening"
    BY <1>4, <1>9, <2>1 DEF WriteFails
  <2>2. CASE pc[p] # "opening"
    BY <1>9, <2>2 DEF WriteFails
  <2> QED BY <2>1, <2>2
<1>10. ASSUME NEW p \in Procs, Close(p) PROVE TypeOK'
  BY <1>10 DEF Close
<1>11. ASSUME PowerLoss PROVE TypeOK'
  BY <1>3, <1>11 DEF PowerLoss
<1>12. CASE UNCHANGED vars
  BY <1>12 DEF vars
<1> QED
  BY <1>1, <1>2, <1>4, <1>5, <1>6, <1>7, <1>8, <1>9, <1>10, <1>11, <1>12
     DEF Next, LoadRefused, Exit

\* Every behaviour of Store is well typed.
THEOREM TypeCorrect == Spec => []TypeOK
  BY TypeInit, TypeNext, PTL DEF Spec
-----------------------------------------------------------------------------
\* The flock is free, nobody writes, and acked is what the file has.
LEMMA SafeInit == Init => Safe
  BY StoreAssumptions DEF Init, Safe, LockOwner, WriterOwns, CloneKeepsAcked, FlushedFirst,
         RenamedIsClone, FileSurvives, AckedSurvives, AckedVisible

\* A process that leaves gives up its lock, its stage and its memory.
LEMMA LeaveSafe ==
  ASSUME Inv, NEW p \in Procs, Leave(p), UNCHANGED <<file, survivors, acked>>
  PROVE  Safe'
  BY StoreAssumptions
     DEF Inv, TypeOK, Safe, Leave, LockOwner, WriterOwns, CloneKeepsAcked,
         FlushedFirst, RenamedIsClone, FileSurvives, AckedSurvives, AckedVisible

\* Open reads a file that has every acknowledged update.
LEMMA LoadSafe ==
  ASSUME Inv, NEW p \in Procs, Load(p)
  PROVE  Safe'
<1> USE StoreAssumptions
<1>1. acked \subseteq file.applied /\ lock = p
  BY DEF Inv, Safe, AckedSurvives, FileSurvives, LockOwner, Load
<1> DEFINE loaded == [file EXCEPT !.version = currentVersion]
<1>2. loaded.applied = file.applied
  BY DEF Inv, TypeOK, Document
<1> HIDE DEF loaded
<1>3. CASE file.version \in 1..currentVersion - 1
  <2>1. BeginWrite(p, loaded) /\ UNCHANGED <<pc, mem, file, survivors, lock, acked>>
    BY <1>3 DEF Load, loaded
  <2> QED
    BY <1>1, <1>2, <2>1
       DEF Inv, TypeOK, Safe, BeginWrite, LockOwner, WriterOwns, CloneKeepsAcked,
           FlushedFirst, RenamedIsClone, FileSurvives, AckedSurvives, AckedVisible
<1>4. CASE file.version \notin 1..currentVersion - 1
  <2>1. /\ pc' = [pc EXCEPT ![p] = "open"]
        /\ mem' = [mem EXCEPT ![p] = loaded]
        /\ UNCHANGED <<stage, clone, flushed, file, survivors, lock, acked>>
    BY <1>4 DEF Load, loaded
  <2> QED
    BY <1>1, <1>2, <2>1
       DEF Inv, TypeOK, Safe, LockOwner, WriterOwns, CloneKeepsAcked,
           FlushedFirst, RenamedIsClone, FileSurvives, AckedSurvives, AckedVisible
<1> QED BY <1>3, <1>4

\* Update clones memory that has every acknowledged update.
LEMMA UpdateSafe ==
  ASSUME Inv, ~LingeringHandlers, NEW p \in Procs, NEW u \in Updates, Update(p, u)
  PROVE  Safe'
<1> USE StoreAssumptions
<1> DEFINE new == [mem[p] EXCEPT !.applied = @ \cup {u}]
<1>1. acked \subseteq mem[p].applied /\ lock = p
  BY DEF Inv, Safe, AckedVisible, LockOwner, Update
<1>2. new.applied = mem[p].applied \cup {u}
  BY DEF Inv, TypeOK, Document
<1>3. BeginWrite(p, new) /\ UNCHANGED <<pc, mem, file, survivors, lock, acked>>
  BY DEF Update
<1> HIDE DEF new
<1> QED
  BY <1>1, <1>2, <1>3
     DEF Inv, TypeOK, Safe, BeginWrite, LockOwner, WriterOwns, CloneKeepsAcked,
         FlushedFirst, RenamedIsClone, FileSurvives, AckedSurvives, AckedVisible

\* The rename keeps acknowledged updates because the clone has them and is
\* flushed; nobody else is between rename and directory sync.
LEMMA RenameSafe ==
  ASSUME Inv, NEW p \in Procs, Rename(p)
  PROVE  Safe'
<1>1. flushed[p] /\ acked \subseteq clone[p].applied
  BY DEF Inv, Safe, FlushedFirst, CloneKeepsAcked, Rename
<1>2. survivors' = survivors \cup {clone[p]} /\ file' = clone[p]
  BY <1>1 DEF Rename
<1>3. \A q \in Procs : stage[q] # "none" => q = p
  BY DEF Inv, Safe, WriterOwns, Rename
<1> QED
  BY <1>1, <1>2, <1>3
     DEF Inv, TypeOK, Safe, Rename, LockOwner, WriterOwns, CloneKeepsAcked,
         FlushedFirst, RenamedIsClone, FileSurvives, AckedSurvives, AckedVisible

\* Acknowledging adds what the synced file already has.
LEMMA SyncDirSafe ==
  ASSUME Inv, NEW p \in Procs, SyncDir(p)
  PROVE  Safe'
<1>1. /\ file = clone[p] /\ lock = p
      /\ acked' = clone[p].applied
  BY DEF Inv, Safe, RenamedIsClone, WriterOwns, CloneKeepsAcked, SyncDir
<1>2. \A q \in Procs : stage[q] # "none" \/ pc[q] = "open" => q = p
  BY <1>1 DEF Inv, Safe, WriterOwns, LockOwner
<1> QED
  BY <1>1, <1>2
     DEF Inv, TypeOK, Safe, SyncDir, LockOwner, WriterOwns, CloneKeepsAcked,
         FlushedFirst, RenamedIsClone, FileSurvives, AckedSurvives, AckedVisible

\* Every step keeps Safe.
LEMMA SafeNext ==
  ASSUME Inv, ~LingeringHandlers, [Next]_vars
  PROVE  Safe'
<1> USE StoreAssumptions
<1>1. ASSUME NEW p \in Procs, AcquireLock(p) PROVE Safe'
  BY <1>1 DEF Inv, TypeOK, Safe, AcquireLock, LockOwner, WriterOwns,
              CloneKeepsAcked, FlushedFirst, RenamedIsClone, FileSurvives,
              AckedSurvives, AckedVisible
<1>2. ASSUME NEW p \in Procs, WriteTemp(p) \/ SyncTemp(p) PROVE Safe'
  BY <1>2 DEF Inv, TypeOK, Safe, WriteTemp, SyncTemp, LockOwner, WriterOwns,
              CloneKeepsAcked, FlushedFirst, RenamedIsClone, FileSurvives,
              AckedSurvives, AckedVisible
<1>3. ASSUME NEW p \in Procs, WriteFails(p) PROVE Safe'
  <2>1. CASE pc[p] = "opening"
    BY <1>3, <2>1, LeaveSafe DEF WriteFails
  <2>2. CASE pc[p] # "opening"
    BY <1>3, <2>2 DEF Inv, TypeOK, Safe, WriteFails, LockOwner, WriterOwns,
              CloneKeepsAcked, FlushedFirst, RenamedIsClone, FileSurvives,
              AckedSurvives, AckedVisible
  <2> QED BY <2>1, <2>2
<1>4. ASSUME NEW p \in Procs, Close(p) PROVE Safe'
  BY <1>4 DEF Inv, TypeOK, Safe, Close, LockOwner, WriterOwns,
              CloneKeepsAcked, FlushedFirst, RenamedIsClone, FileSurvives,
              AckedSurvives, AckedVisible
<1>5. ASSUME PowerLoss PROVE Safe'
  BY <1>5 DEF Inv, TypeOK, Safe, PowerLoss, LockOwner, WriterOwns,
              CloneKeepsAcked, FlushedFirst, RenamedIsClone, FileSurvives,
              AckedSurvives, AckedVisible
<1>6. CASE UNCHANGED vars
  BY <1>6 DEF vars, Inv, Safe, LockOwner, WriterOwns,
              CloneKeepsAcked, FlushedFirst, RenamedIsClone, FileSurvives,
              AckedSurvives, AckedVisible
<1> QED
  BY <1>1, <1>2, <1>3, <1>4, <1>5, <1>6, LeaveSafe, LoadSafe, UpdateSafe,
     RenameSafe, SyncDirSafe
     DEF Next, LoadRefused, Exit

\* The inductive invariant holds in every behaviour.
LEMMA InvHolds ==
  ASSUME ~LingeringHandlers
  PROVE  Spec => []Inv
<1>1. Init => Inv
  BY TypeInit, SafeInit DEF Inv
<1>2. Inv /\ [Next]_vars => Inv'
  BY TypeNext, SafeNext DEF Inv
<1> QED BY <1>1, <1>2, PTL DEF Spec

\* No acknowledged update is lost by any crash or loss of power, for any number
\* of controllers and updates: the write, sync, rename, sync order of
\* writeAtomic is enough.
THEOREM AckedUpdatesAreSafe ==
  ASSUME ~LingeringHandlers
  PROVE  Spec => []AckedSurvives
<1>1. Inv => AckedSurvives
  BY DEF Inv, Safe
<1> QED BY <1>1, InvHolds, PTL

\* A controller that has opened the store never works on memory that lacks an
\* update another one acknowledged.
THEOREM AckedUpdatesAreVisible ==
  ASSUME ~LingeringHandlers
  PROVE  Spec => []AckedVisible
<1>1. Inv => AckedVisible
  BY DEF Inv, Safe
<1> QED BY <1>1, InvHolds, PTL

\* At most one process is inside writeAtomic: the flock is enough as long as no
\* request handler outlives Close.
THEOREM OnlyOneWriter ==
  ASSUME ~LingeringHandlers
  PROVE  Spec => []OneWriter
<1>1. Inv => OneWriter
  BY DEF Inv, Safe, WriterOwns, OneWriter
<1> QED BY <1>1, InvHolds, PTL
-----------------------------------------------------------------------------
(* Store implements DurableState.  The mapping needs one more invariant:   *)
(* what a writer's clone adds to its memory, and that a migration only     *)
(* rewrites a document that was there.                                     *)

CloneIsUpdate ==
  \A p \in Procs : stage[p] # "none" /\ pc[p] = "open" =>
    \E u \in Updates : clone[p].applied = mem[p].applied \cup {u}

CloneIsMigration ==
  \A p \in Procs : stage[p] # "none" /\ pc[p] = "opening" =>
    \E d \in survivors : clone[p].applied = d.applied

Provenance == CloneIsUpdate /\ CloneIsMigration

Value == UNION {mem[p].applied : p \in Opened}
Stable == {d.applied : d \in survivors}

\* Clones come from memory or, in a migration, from a surviving document.
LEMMA ProvenanceNext ==
  ASSUME Inv, Provenance, ~LingeringHandlers, [Next]_vars
  PROVE  Provenance'
<1> USE StoreAssumptions DEF Provenance, CloneIsUpdate, CloneIsMigration
<1> USE DEF Inv, TypeOK
<1>1. ASSUME NEW p \in Procs, AcquireLock(p) \/ Close(p) PROVE Provenance'
  BY <1>1 DEF AcquireLock, Close, Safe, WriterOwns
<1>2. ASSUME NEW p \in Procs, WriteTemp(p) \/ SyncTemp(p) PROVE Provenance'
  BY <1>2 DEF WriteTemp, SyncTemp
<1>3. ASSUME NEW p \in Procs, Leave(p), UNCHANGED <<file, survivors, acked>>
      PROVE  Provenance'
  BY <1>3 DEF Leave
<1>4. ASSUME NEW p \in Procs, Load(p) PROVE Provenance'
  <2> DEFINE loaded == [file EXCEPT !.version = currentVersion]
  <2>1. loaded.applied = file.applied /\ file \in survivors
    BY DEF Document, Safe, FileSurvives
  <2>2. \A q \in Procs : stage[q] = "none" \/ q = p
    BY <1>4 DEF Load, Safe, WriterOwns, LockOwner
  <2>3. CASE file.version \in 1..currentVersion - 1
    <3>1. BeginWrite(p, loaded) /\ UNCHANGED <<pc, mem, survivors>>
      BY <1>4, <2>3 DEF Load
    <3>2. pc[p] = "opening"
      BY <1>4 DEF Load
    <3> HIDE DEF loaded
    <3> QED BY <2>1, <2>2, <3>1, <3>2 DEF BeginWrite
  <2>4. CASE file.version \notin 1..currentVersion - 1
    <3>1. UNCHANGED stage /\ stage[p] = "none"
      BY <1>4, <2>4 DEF Load
    <3> QED BY <2>2, <3>1
  <2> QED BY <2>3, <2>4
<1>5. ASSUME NEW p \in Procs, NEW u \in Updates, Update(p, u) PROVE Provenance'
  <2> DEFINE new == [mem[p] EXCEPT !.applied = @ \cup {u}]
  <2>1. new.applied = mem[p].applied \cup {u}
    BY DEF Document
  <2>2. BeginWrite(p, new) /\ UNCHANGED <<pc, mem, survivors>> /\ pc[p] = "open"
    BY <1>5 DEF Update
  <2> HIDE DEF new
  <2> QED BY <2>1, <2>2 DEF BeginWrite
<1>6. ASSUME NEW p \in Procs, Rename(p) PROVE Provenance'
  <2>1. survivors \subseteq survivors'
    BY <1>6 DEF Rename
  <2> QED BY <1>6, <2>1 DEF Rename
<1>7. ASSUME NEW p \in Procs, SyncDir(p) PROVE Provenance'
  <2>1. \A q \in Procs : stage[q] = "none" \/ q = p
    BY <1>7 DEF SyncDir, Safe, WriterOwns
  <2>2. \A q \in Procs : stage'[q] = "none"
    BY <1>7, <2>1 DEF SyncDir
  <2> QED BY <2>2
<1>8. ASSUME NEW p \in Procs, WriteFails(p) PROVE Provenance'
  <2>1. CASE pc[p] = "opening"
    BY <1>3, <1>8, <2>1 DEF WriteFails
  <2>2. CASE pc[p] # "opening"
    BY <1>8, <2>2 DEF WriteFails
  <2> QED BY <2>1, <2>2
<1>9. ASSUME PowerLoss PROVE Provenance'
  BY <1>9 DEF PowerLoss
<1>10. CASE UNCHANGED vars
  BY <1>10 DEF vars
<1> QED
  BY <1>1, <1>2, <1>3, <1>4, <1>5, <1>6, <1>7, <1>8, <1>9, <1>10
     DEF Next, LoadRefused, Exit

\* A process that has opened the store is the only one, and its memory is
\* the value callers see.
LEMMA OneOpened ==
  ASSUME Inv, NEW p \in Procs, pc[p] = "open"
  PROVE  Opened = {p} /\ Value = mem[p].applied
<1>1. Opened = {p}
  BY DEF Inv, Safe, LockOwner, Opened
<1> QED BY <1>1 DEF Value

\* While a process opens or writes in a migration nobody has opened.
LEMMA NoneOpened ==
  ASSUME Inv, NEW p \in Procs, pc[p] = "opening" \/ lock = NoProc
  PROVE  Opened = {} /\ Value = {}
<1>1. Opened = {}
  BY StoreAssumptions DEF Inv, Safe, LockOwner, Opened
<1> QED BY <1>1 DEF Value

\* A step that keeps processes, memories and survivors is a stutter.
LEMMA Stutter ==
  ASSUME UNCHANGED <<pc, mem, survivors>>
  PROVE  UNCHANGED Promise!vars
  BY DEF Promise!vars, Opened

\* Leaving is a Stop when the process had opened, a stutter when not.
LEMMA LeaveRefines ==
  ASSUME Inv, NEW p \in Procs, Leave(p), UNCHANGED survivors
  PROVE  [Promise!Next]_(Promise!vars)
<1> USE DEF Inv, TypeOK
<1>1. CASE pc[p] = "open"
  <2>1. Opened = {p} /\ Opened' = {}
    BY <1>1, OneOpened DEF Leave, Opened
  <2>2. Promise!Stop
    BY <2>1 DEF Promise!Stop
  <2> QED BY <2>2 DEF Promise!Next
<1>2. CASE pc[p] # "open"
  <2>1. Opened' = Opened /\ \A q \in Opened : mem'[q] = mem[q]
    BY <1>2 DEF Leave, Opened
  <2>2. {mem'[q].applied : q \in Opened'} = {mem[q].applied : q \in Opened}
    BY <2>1
  <2> QED BY <2>1, <2>2 DEF Promise!vars
<1> QED BY <1>1, <1>2

\* Every step of Store is a step of DurableState or a stutter.
LEMMA StepRefines ==
  ASSUME Inv, Inv', Provenance, ~LingeringHandlers, [Next]_vars
  PROVE  [Promise!Next]_(Promise!vars)
<1> USE StoreAssumptions
<1> DEFINE Step == [Promise!Next]_(Promise!vars)
<1>1. ASSUME NEW p \in Procs, AcquireLock(p) PROVE Step
  <2>1. Opened' = Opened
    BY <1>1 DEF AcquireLock, Opened, Inv, TypeOK
  <2> QED BY <1>1, <2>1 DEF AcquireLock, Promise!vars
<1>2. ASSUME NEW p \in Procs, Load(p) PROVE Step
  <2>1. CASE file.version \in 1..currentVersion - 1
    BY <1>2, <2>1, Stutter DEF Load
  <2>2. CASE file.version \notin 1..currentVersion - 1
    <3>1. pc[p] = "opening" /\ pc'[p] = "open" /\ UNCHANGED survivors
      BY <1>2, <2>2 DEF Load, Inv, TypeOK
    <3>2. mem'[p].applied = file.applied
      BY <1>2, <2>2 DEF Load, Inv, TypeOK, Document
    <3>3. Opened = {}
      BY <3>1, NoneOpened
    <3>4. Opened' = {p}
      BY <3>1 DEF Inv, Safe, LockOwner, Opened
    <3>5. UNION {mem'[q].applied : q \in Opened'} = file.applied
      BY <3>2, <3>4
    <3>6. file.applied \in {d.applied : d \in survivors}
      BY DEF Inv, Safe, FileSurvives
    <3>7. Promise!Start
      BY <3>1, <3>3, <3>4, <3>5, <3>6 DEF Promise!Start
    <3> QED BY <3>7 DEF Promise!Next
  <2> QED BY <2>1, <2>2
<1>3. ASSUME NEW p \in Procs, NEW u \in Updates, Update(p, u) PROVE Step
  BY <1>3, Stutter DEF Update
<1>4. ASSUME NEW p \in Procs, WriteTemp(p) \/ SyncTemp(p) PROVE Step
  BY <1>4, Stutter DEF WriteTemp, SyncTemp
<1>5. ASSUME NEW p \in Procs, Rename(p) PROVE Step
  <2>1. survivors' = survivors \cup {clone[p]} /\ UNCHANGED <<pc, mem>>
    BY <1>5 DEF Rename, Inv, Safe, FlushedFirst
  <2>2. Opened' = Opened
    BY <2>1 DEF Opened
  <2>3. CASE pc[p] = "open"
    <3>1. PICK u \in Updates : clone[p].applied = mem[p].applied \cup {u}
      BY <1>5, <2>3 DEF Rename, Provenance, CloneIsUpdate
    <3>2. Opened = {p} /\ UNION {mem[q].applied : q \in Opened} = mem[p].applied
      BY <2>3, OneOpened DEF Value
    <3>3. {d.applied : d \in survivors'}
            = {d.applied : d \in survivors} \cup {mem[p].applied \cup {u}}
      <4>1. {d.applied : d \in survivors \cup {clone[p]}}
              = {d.applied : d \in survivors} \cup {clone[p].applied}
        OBVIOUS
      <4> QED BY <2>1, <3>1, <4>1
    <3>4. Promise!InDoubt(u)
      BY <2>1, <2>2, <3>2, <3>3 DEF Promise!InDoubt
    <3> QED BY <3>4 DEF Promise!Next
  <2>4. CASE pc[p] = "opening"
    <3>1. PICK d \in survivors : clone[p].applied = d.applied
      BY <1>5, <2>4 DEF Rename, Provenance, CloneIsMigration
    <3>2. {x.applied : x \in survivors'} = {x.applied : x \in survivors}
      BY <2>1, <3>1
    <3> QED BY <2>1, <2>2, <3>2 DEF Promise!vars
  <2> QED BY <1>5, <2>3, <2>4 DEF Rename, Inv, Safe, WriterOwns, LockOwner
<1>6. ASSUME NEW p \in Procs, SyncDir(p) PROVE Step
  <2>1. survivors' = {clone[p]} /\ mem' = [mem EXCEPT ![p] = clone[p]]
    BY <1>6 DEF SyncDir, Inv, Safe, RenamedIsClone
  <2>2. pc'[p] = "open"
    BY <1>6 DEF SyncDir, Inv, TypeOK, Safe, WriterOwns, LockOwner
  <2>3. Opened' = {p}
    BY <2>2 DEF Inv, Safe, LockOwner, Opened
  <2>4. UNION {mem'[q].applied : q \in Opened'} = clone[p].applied
    BY <2>1, <2>3 DEF Inv, TypeOK
  <2>5. {d.applied : d \in survivors'} = {clone[p].applied}
    BY <2>1
  <2>6. CASE pc[p] = "open"
    <3>1. PICK u \in Updates : clone[p].applied = mem[p].applied \cup {u}
      BY <1>6, <2>6 DEF SyncDir, Provenance, CloneIsUpdate
    <3>2. Opened = {p} /\ UNION {mem[q].applied : q \in Opened} = mem[p].applied
      BY <2>6, OneOpened DEF Value
    <3>3. Promise!Commit(u)
      BY <2>3, <2>4, <2>5, <3>1, <3>2 DEF Promise!Commit
    <3> QED BY <3>3 DEF Promise!Next
  <2>7. CASE pc[p] = "opening"
    <3>1. Opened = {}
      BY <2>7, NoneOpened
    <3>2. clone[p].applied \in {d.applied : d \in survivors}
      BY <1>6 DEF SyncDir, Inv, Safe, FileSurvives, RenamedIsClone
    <3>3. Promise!Start
      BY <2>3, <2>4, <2>5, <3>1, <3>2 DEF Promise!Start
    <3> QED BY <3>3 DEF Promise!Next
  <2> QED BY <1>6, <2>6, <2>7 DEF SyncDir, Inv, Safe, WriterOwns, LockOwner
<1>7. ASSUME NEW p \in Procs, WriteFails(p) PROVE Step
  <2>1. CASE pc[p] = "opening"
    BY <1>7, <2>1, LeaveRefines DEF WriteFails
  <2>2. CASE pc[p] # "opening"
    BY <1>7, <2>2, Stutter DEF WriteFails
  <2> QED BY <2>1, <2>2
<1>8. ASSUME NEW p \in Procs, Close(p) PROVE Step
  <2>1. Opened = {p} /\ Opened' = {} /\ UNCHANGED survivors
    BY <1>8, OneOpened DEF Close, Opened, Inv, TypeOK
  <2>2. Promise!Stop
    BY <2>1 DEF Promise!Stop
  <2> QED BY <2>2 DEF Promise!Next
<1>9. ASSUME PowerLoss PROVE Step
  <2>1. PICK d \in survivors : survivors' = {d}
    BY <1>9 DEF PowerLoss
  <2>2. Opened' = {}
    BY <1>9 DEF PowerLoss, Opened
  <2>3. {x.applied : x \in survivors'} = {d.applied}
    BY <2>1
  <2>4. Promise!Settle
    BY <2>1, <2>2, <2>3 DEF Promise!Settle
  <2> QED BY <2>4 DEF Promise!Next
<1>10. CASE UNCHANGED vars
  BY <1>10, Stutter DEF vars
<1> QED
  BY <1>1, <1>2, <1>3, <1>4, <1>5, <1>6, <1>7, <1>8, <1>9, <1>10, LeaveRefines
     DEF Next, LoadRefused, Exit

\* The store implements the durable set of updates: the promise the rest of
\* the controller relies on holds for any number of processes and updates.
THEOREM StoreImplementsPromise ==
  ASSUME ~LingeringHandlers
  PROVE  Spec => PromiseSpec
<1>1. Init => Promise!Init /\ Provenance
  <2> SUFFICES ASSUME Init PROVE Promise!Init /\ Provenance
    OBVIOUS
  <2>1. Opened = {}
    BY DEF Init, Opened
  <2>2. survivors = {file} /\ file.applied \in SUBSET Updates
    BY TypeInit DEF Init, TypeOK, Document
  <2>3. {d.applied : d \in survivors} = {file.applied}
    BY <2>2
  <2>4. Promise!Init
    BY <2>1, <2>2, <2>3 DEF Promise!Init
  <2>5. Provenance
    BY DEF Init, Provenance, CloneIsUpdate, CloneIsMigration
  <2> QED BY <2>4, <2>5
<1>2. Inv /\ Provenance /\ [Next]_vars => Provenance'
  BY ProvenanceNext
<1>3. Inv /\ Inv' /\ Provenance /\ [Next]_vars => [Promise!Next]_(Promise!vars)
  BY StepRefines
<1> QED BY <1>1, <1>2, <1>3, InvHolds, PTL DEF Spec, PromiseSpec, Promise!Spec
=============================================================================
