------------------------------- MODULE Store -------------------------------
(***************************************************************************)
(* internal/state/store.go: the JSON state document, its flock, and the    *)
(* write-temp / fsync / rename / fsync-directory protocol of writeAtomic,  *)
(* for any number of controller processes that are started on one file.    *)
(*                                                                         *)
(* A document is its schema version and the set of updates applied to it.  *)
(* A missing and an empty file are both Blank: Open starts afresh on each. *)
(* The file system is modelled by what a loss of power may leave behind:   *)
(* `survivors' holds every document the state path may name afterwards.    *)
(***************************************************************************)
EXTENDS Naturals

CONSTANTS
  Procs,              \* controller processes
  NoProc,             \* nobody holds the lock
  Updates,            \* the mutations passed to Update
  LingeringHandlers   \* may a request handler outlive Close ?

ASSUME StoreAssumptions ==
  /\ NoProc \notin Procs
  /\ LingeringHandlers \in BOOLEAN

VARIABLES
  file,       \* the document the state path names now
  survivors,  \* the documents it may name after a loss of power
  lock,       \* the holder of the flock on path.lock
  pc,         \* "down", "opening", "open" or "closed", per process
  stage,      \* the next step of writeAtomic, "none" outside it
  mem,        \* Store.data
  clone,      \* the document being written
  flushed,    \* has the temporary file been fsynced ?
  acked       \* history: the updates whose Update call has returned nil

vars == <<file, survivors, lock, pc, stage, mem, clone, flushed, acked>>

currentVersion == 3

Blank == [version |-> 0, applied |-> {}]
Document == [version : 0..currentVersion + 1, applied : SUBSET Updates]

Stages == {"none", "write", "sync", "rename", "dirsync"}

TypeOK ==
  /\ file \in Document
  /\ survivors \in SUBSET Document
  /\ lock \in Procs \cup {NoProc}
  /\ pc \in [Procs -> {"down", "opening", "open", "closed"}]
  /\ stage \in [Procs -> Stages]
  /\ mem \in [Procs -> Document]
  /\ clone \in [Procs -> Document]
  /\ flushed \in [Procs -> BOOLEAN]
  /\ acked \in SUBSET Updates

\* Some earlier release, or this one, or a later one, wrote the file.
Init ==
  /\ file \in {Blank} \cup
       [version : 1..currentVersion + 1, applied : SUBSET Updates]
  /\ survivors = {file}
  /\ lock = NoProc
  /\ pc = [p \in Procs |-> "down"]
  /\ stage = [p \in Procs |-> "none"]
  /\ mem = [p \in Procs |-> Blank]
  /\ clone = [p \in Procs |-> Blank]
  /\ flushed = [p \in Procs |-> FALSE]
  /\ acked = file.applied
-----------------------------------------------------------------------------
\* The process leaves the Store, and with it the memory and the lock.
Leave(p) ==
  /\ pc' = [pc EXCEPT ![p] = "down"]
  /\ stage' = [stage EXCEPT ![p] = "none"]
  /\ mem' = [mem EXCEPT ![p] = Blank]
  /\ clone' = [clone EXCEPT ![p] = Blank]
  /\ flushed' = [flushed EXCEPT ![p] = FALSE]
  /\ lock' = IF lock = p THEN NoProc ELSE lock

\* writeAtomic is called with document d.
BeginWrite(p, d) ==
  /\ stage' = [stage EXCEPT ![p] = "write"]
  /\ clone' = [clone EXCEPT ![p] = d]
  /\ flushed' = [flushed EXCEPT ![p] = FALSE]

\* Mutation: the flock is taken without asking whether it is free.
AcquireLockAlways(p) ==
  /\ pc[p] = "down"
  /\ lock' = p
  /\ pc' = [pc EXCEPT ![p] = "opening"]
  /\ UNCHANGED <<file, survivors, stage, mem, clone, flushed, acked>>

\* Open: a second controller is refused by LOCK_NB and never gets here.
AcquireLock(p) ==
  /\ pc[p] = "down"
  /\ lock = NoProc
  /\ lock' = p
  /\ pc' = [pc EXCEPT ![p] = "opening"]
  /\ UNCHANGED <<file, survivors, stage, mem, clone, flushed, acked>>

\* Mutation: every document is taken for one of the version before.
LoadNextVersion(p) ==
  /\ pc[p] = "opening"
  /\ stage[p] = "none"
  /\ BeginWrite(p, [file EXCEPT !.version = @ + 1])
  /\ UNCHANGED <<pc, mem, file, survivors, lock, acked>>

\* Open: read and decode.  No file or an empty one is a fresh document, one
\* of this version is taken as it is, an older one is migrated on disk first.
Load(p) ==
  /\ pc[p] = "opening"
  /\ stage[p] = "none"
  /\ file.version <= currentVersion
  /\ LET loaded == [file EXCEPT !.version = currentVersion]
     IN IF file.version \in 1..currentVersion - 1
        THEN BeginWrite(p, loaded) /\ UNCHANGED <<pc, mem>>
        ELSE /\ pc' = [pc EXCEPT ![p] = "open"]
             /\ mem' = [mem EXCEPT ![p] = loaded]
             /\ UNCHANGED <<stage, clone, flushed>>
  /\ UNCHANGED <<file, survivors, lock, acked>>

\* Open: a version this release does not know; the lock is released.
LoadRefused(p) ==
  /\ pc[p] = "opening"
  /\ stage[p] = "none"
  /\ file.version > currentVersion
  /\ Leave(p)
  /\ UNCHANGED <<file, survivors, acked>>

\* Update: clone the state under Store.mu and apply fn.  Nothing in Update
\* asks whether the lock is still held: a handler that outlives Close writes.
Update(p, u) ==
  /\ \/ pc[p] = "open"
     \/ LingeringHandlers /\ pc[p] = "closed"
  /\ stage[p] = "none"
  /\ u \notin mem[p].applied
  /\ BeginWrite(p, [mem[p] EXCEPT !.applied = @ \cup {u}])
  /\ UNCHANGED <<file, survivors, lock, pc, mem, acked>>

\* writeAtomic: the temporary file has its content, not yet on disk.
WriteTemp(p) ==
  /\ stage[p] = "write"
  /\ stage' = [stage EXCEPT ![p] = "sync"]
  /\ UNCHANGED <<file, survivors, lock, pc, mem, clone, flushed, acked>>

\* Mutation: tmp.Sync is left out.
SyncTempSkipped(p) ==
  /\ stage[p] = "sync"
  /\ stage' = [stage EXCEPT ![p] = "rename"]
  /\ UNCHANGED <<file, survivors, lock, pc, mem, clone, flushed, acked>>

\* writeAtomic: tmp.Sync.
SyncTemp(p) ==
  /\ stage[p] = "sync"
  /\ stage' = [stage EXCEPT ![p] = "rename"]
  /\ flushed' = [flushed EXCEPT ![p] = TRUE]
  /\ UNCHANGED <<file, survivors, lock, pc, mem, clone, acked>>

\* writeAtomic: os.Rename.  A loss of power may undo it; had the content not
\* been flushed, it could also leave an empty file under the new name.
Rename(p) ==
  /\ stage[p] = "rename"
  /\ stage' = [stage EXCEPT ![p] = "dirsync"]
  /\ file' = clone[p]
  /\ survivors' = survivors \cup {clone[p]}
                            \cup (IF flushed[p] THEN {} ELSE {Blank})
  /\ UNCHANGED <<lock, pc, mem, clone, flushed, acked>>

\* writeAtomic: d.Sync; Update publishes the clone and returns nil, Open
\* returns the migrated store.
SyncDir(p) ==
  /\ stage[p] = "dirsync"
  /\ survivors' = {file}
  /\ mem' = [mem EXCEPT ![p] = clone[p]]
  /\ acked' = acked \cup clone[p].applied
  /\ stage' = [stage EXCEPT ![p] = "none"]
  /\ pc' = [pc EXCEPT ![p] = IF @ = "opening" THEN "open" ELSE @]
  /\ UNCHANGED <<file, lock, clone, flushed>>

\* Mutation: Update publishes the clone although the write failed.
WriteFailsPublishing(p) ==
  /\ stage[p] # "none"
  /\ stage' = [stage EXCEPT ![p] = "none"]
  /\ mem' = [mem EXCEPT ![p] = clone[p]]
  /\ UNCHANGED <<file, survivors, lock, pc, clone, flushed, acked>>

\* Any step of writeAtomic may fail, the directory sync after the rename
\* included: Update reports the error and keeps the old memory, a failed
\* migration closes the store.  The temporary file is never read again.
WriteFails(p) ==
  /\ stage[p] # "none"
  /\ IF pc[p] = "opening"
     THEN Leave(p)
     ELSE /\ stage' = [stage EXCEPT ![p] = "none"]
          /\ UNCHANGED <<lock, pc, mem, clone, flushed>>
  /\ UNCHANGED <<file, survivors, acked>>

\* Mutation: Close releases the lock without waiting for Store.mu.
CloseDuringUpdate(p) ==
  /\ pc[p] = "open"
  /\ pc' = [pc EXCEPT ![p] = "closed"]
  /\ lock' = NoProc
  /\ UNCHANGED <<file, survivors, stage, mem, clone, flushed, acked>>

\* Close waits for Store.mu, so it never interrupts an Update.
Close(p) ==
  /\ pc[p] = "open"
  /\ stage[p] = "none"
  /\ pc' = [pc EXCEPT ![p] = "closed"]
  /\ lock' = NoProc
  /\ UNCHANGED <<file, survivors, stage, mem, clone, flushed, acked>>

\* The process exits or is killed; the kernel drops its flock.
Exit(p) ==
  /\ pc[p] # "down"
  /\ Leave(p)
  /\ UNCHANGED <<file, survivors, acked>>

PowerLoss ==
  /\ \E d \in survivors : file' = d /\ survivors' = {d}
  /\ lock' = NoProc
  /\ pc' = [p \in Procs |-> "down"]
  /\ stage' = [p \in Procs |-> "none"]
  /\ mem' = [p \in Procs |-> Blank]
  /\ clone' = [p \in Procs |-> Blank]
  /\ flushed' = [p \in Procs |-> FALSE]
  /\ UNCHANGED acked

Next ==
  \/ \E p \in Procs :
       \/ AcquireLock(p) \/ Load(p) \/ LoadRefused(p)
       \/ \E u \in Updates : Update(p, u)
       \/ WriteTemp(p) \/ SyncTemp(p) \/ Rename(p) \/ SyncDir(p)
       \/ WriteFails(p) \/ Close(p) \/ Exit(p)
  \/ PowerLoss

Spec == Init /\ [][Next]_vars
-----------------------------------------------------------------------------
\* Every update that Update acknowledged is in whatever document the next
\* Open can find, after any crash or loss of power at any step of writeAtomic
\* and with a second controller started at any time.
AckedSurvives == \A d \in survivors : acked \subseteq d.applied

\* A running controller works on memory that has every acknowledged update:
\* the flock excludes the writer whose clone would drop another's update.
AckedVisible == \A p \in Procs : pc[p] = "open" => acked \subseteq mem[p].applied

\* docs/spec.md: "One process-wide lock prevents concurrent writers."  Two
\* processes are never inside writeAtomic at once.
OneWriter ==
  \A p, q \in Procs : stage[p] # "none" /\ stage[q] # "none" => p = q

\* The process whose memory callers of Snapshot see.
Opened == {p \in Procs : pc[p] = "open"}

\* The store implements the durable set of updates of module DurableState.
Promise == INSTANCE DurableState WITH
  running <- Opened # {},
  value <- UNION {mem[p].applied : p \in Opened},
  stable <- {d.applied : d \in survivors}

PromiseSpec == Promise!Spec
=============================================================================
