---------------------------- MODULE DurableState ----------------------------
(***************************************************************************)
(* What internal/state promises its callers: one durable set of applied    *)
(* updates.  A caller sees the value only while a controller is running.   *)
(* An acknowledged update is in every value a restart may come back with;  *)
(* an update that was interrupted, or that reported an error, may or may   *)
(* not be.  Nothing else ever enters or leaves the value.                  *)
(***************************************************************************)
CONSTANT Updates   \* the mutations callers ask for

VARIABLES
  running,   \* a controller has the state open
  value,     \* the updates a caller of Snapshot sees; {} when not running
  stable     \* every value the next Open may come back with

vars == <<running, value, stable>>

TypeOK ==
  /\ running \in BOOLEAN
  /\ value \in SUBSET Updates
  /\ stable \in SUBSET (SUBSET Updates)

Init ==
  /\ running = FALSE
  /\ value = {}
  /\ \E v \in SUBSET Updates : stable = {v}

\* Open returns one of the possible values; a migration also pins it.
Start ==
  /\ ~running
  /\ running' = TRUE
  /\ value' \in stable
  /\ stable' \in {stable, {value'}}

\* From here on a restart may show u although nobody was told it succeeded.
InDoubt(u) ==
  /\ running
  /\ stable' = stable \cup {value \cup {u}}
  /\ UNCHANGED <<running, value>>

\* Update returned nil.
Commit(u) ==
  /\ running
  /\ value' = value \cup {u}
  /\ stable' = {value'}
  /\ UNCHANGED running

\* Close, or the end of the process.
Stop ==
  /\ running
  /\ running' = FALSE
  /\ value' = {}
  /\ UNCHANGED stable

\* Loss of power settles what was in doubt.
Settle ==
  /\ running' = FALSE
  /\ value' = {}
  /\ \E v \in stable : stable' = {v}

Next ==
  \/ Start \/ Stop \/ Settle
  \/ \E u \in Updates : InDoubt(u) \/ Commit(u)

Spec == Init /\ [][Next]_vars
=============================================================================
