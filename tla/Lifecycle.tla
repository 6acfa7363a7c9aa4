----------------------------- MODULE Lifecycle -----------------------------
(***************************************************************************)
(* internal/app and the listener of internal/control: how a controller     *)
(* starts, serves its control socket and stops, beside others that use the *)
(* same state file and the same socket path.  The lock of the state file   *)
(* (Store) is the only thing they agree on; the socket path belongs to     *)
(* whoever looks, removes and binds next.                                  *)
(*                                                                         *)
(* `server' is where the server's goroutine is, `ticking' whether the      *)
(* controller's is alive.  A stale socket is one whose process is gone.    *)
(***************************************************************************)
EXTENDS Naturals, FiniteSets

CONSTANTS
  Processes,
  MaxStarts   \* bound: processes started altogether

ASSUME LifecycleAssumptions ==
  /\ MaxStarts \in Nat
  /\ "nobody" \notin Processes /\ "nothing" \notin Processes

VARIABLES
  lock,     \* who holds the flock of the state file, or "nobody"
  path,     \* who bound the socket that is at the path, or "nothing"
  server,   \* per process: its progress
  ticking,  \* processes whose controller runs
  asked,    \* processes that were told to stop
  starts    \* what the bound counts

vars == <<lock, path, server, ticking, asked, starts>>

Stages == {"off", "locked", "found", "clear", "bound", "serving", "closed",
           "removed", "failed"}

TypeOK ==
  /\ lock \in Processes \cup {"nobody"}
  /\ path \in Processes \cup {"nothing"}
  /\ server \in [Processes -> Stages]
  /\ ticking \subseteq Processes
  /\ asked \subseteq Processes
  /\ starts \in 0..MaxStarts

Init ==
  /\ lock = "nobody"
  /\ path \in Processes \cup {"nothing"}
  /\ server = [p \in Processes |-> "off"]
  /\ ticking = {} /\ asked = {}
  /\ starts = 0

Moves(p, from, to) == server[p] = from /\ server' = [server EXCEPT ![p] = to]
-----------------------------------------------------------------------------
\* Run: newState takes the lock before any hook starts.
Open(p) ==
  /\ starts < MaxStarts
  /\ starts' = starts + 1
  /\ lock = "nobody"
  /\ Moves(p, "off", "locked")
  /\ lock' = p
  /\ UNCHANGED <<path, ticking, asked>>

\* Prepare: Lstat ...
Look(p) ==
  /\ Moves(p, "locked", IF path = "nothing" THEN "clear" ELSE "found")
  /\ UNCHANGED <<lock, path, ticking, asked, starts>>

\* Mutation: the socket of a process that died stays.
RemoveStaleSkipped(p) ==
  /\ Moves(p, "found", "clear")
  /\ UNCHANGED <<lock, path, ticking, asked, starts>>

\* ... Remove, which fails when there is nothing any more ...
RemoveStale(p) ==
  /\ Moves(p, "found", IF path = "nothing" THEN "failed" ELSE "clear")
  /\ path' = "nothing"
  /\ UNCHANGED <<lock, ticking, asked, starts>>

\* ... and Listen, which fails when there is something again.
Listen(p) ==
  /\ Moves(p, "clear", IF path = "nothing" THEN "bound" ELSE "failed")
  /\ path' = IF path = "nothing" THEN p ELSE path
  /\ UNCHANGED <<lock, ticking, asked, starts>>

\* Prepare is done (Chmod): both goroutines run.
StartHook(p) ==
  /\ Moves(p, "bound", "serving")
  /\ ticking' = ticking \cup {p}
  /\ UNCHANGED <<lock, path, asked, starts>>

\* SIGTERM; the controller's goroutine sees it after its Tick.
AskedToStop(p) ==
  /\ server[p] = "serving"
  /\ asked' = asked \cup {p}
  /\ UNCHANGED <<lock, path, server, ticking, starts>>

ControllerReturns(p) ==
  /\ p \in ticking /\ p \in asked
  /\ ticking' = ticking \ {p}
  /\ UNCHANGED <<lock, path, server, asked, starts>>

\* Serve: Shutdown closes the listener, which unlinks the path, then waits for
\* handlers, ten seconds at most ...
Shutdown(p) ==
  /\ p \in asked
  /\ Moves(p, "serving", "closed")
  /\ path' = "nothing"
  /\ UNCHANGED <<lock, ticking, asked, starts>>

\* ... and whatever is at the path by then is removed.
RemovePath(p) ==
  /\ Moves(p, "closed", "removed")
  /\ path' = "nothing"
  /\ UNCHANGED <<lock, ticking, asked, starts>>

\* Mutation: the controller goes on without its server.
ServeFailsQuietly(p) ==
  /\ Moves(p, "serving", "removed")
  /\ path' = "nothing"
  /\ UNCHANGED <<lock, ticking, asked, starts>>

\* Serve fails: the listener is closed, Run stops everything.
ServeFails(p) ==
  /\ Moves(p, "serving", "removed")
  /\ path' = "nothing"
  /\ asked' = asked \cup {p}
  /\ UNCHANGED <<lock, ticking, starts>>

Gone(p) ==
  /\ lock' = IF lock = p THEN "nobody" ELSE lock
  /\ ticking' = ticking \ {p}
  /\ asked' = asked \ {p}

\* Mutation: the store is closed while the server still shuts down.
StopHooksEarly(p) ==
  /\ server[p] \in {"closed", "removed", "failed"}
  /\ p \notin ticking
  /\ server' = [server EXCEPT ![p] = IF @ = "closed" THEN "closed" ELSE "off"]
  /\ Gone(p)
  /\ UNCHANGED <<path, starts>>

\* Mutation: the store is closed while the last Tick still runs.
StopHooksDuringTick(p) ==
  /\ server[p] \in {"removed", "failed"}
  /\ server' = [server EXCEPT ![p] = "off"]
  /\ lock' = "nobody"
  /\ UNCHANGED <<path, ticking, asked, starts>>

\* Run: the stop hooks in reverse order, the server's and the controller's
\* goroutine first, then the store's Close; a start that failed is undone.
StopHooks(p) ==
  /\ server[p] \in {"removed", "failed"}
  /\ p \notin ticking
  /\ server' = [server EXCEPT ![p] = "off"]
  /\ Gone(p)
  /\ UNCHANGED <<path, starts>>

\* Run gives up on its hooks after fifteen seconds, or the process dies: the
\* kernel takes the lock back, the socket stays.
Dies(p) ==
  /\ server[p] # "off"
  /\ server' = [server EXCEPT ![p] = "off"]
  /\ Gone(p)
  /\ UNCHANGED <<path, starts>>
-----------------------------------------------------------------------------
Step(p) ==
  \/ Look(p) \/ RemoveStale(p) \/ Listen(p) \/ StartHook(p)
  \/ ControllerReturns(p) \/ Shutdown(p) \/ RemovePath(p) \/ StopHooks(p)

Next ==
  \E p \in Processes :
    Open(p) \/ Step(p) \/ AskedToStop(p) \/ ServeFails(p) \/ Dies(p)

Spec == Init /\ [][Next]_vars

\* Goroutines run, and a Tick whose context is cancelled ends.
FairSpec == Spec /\ \A p \in Processes : WF_vars(Step(p))
-----------------------------------------------------------------------------
(* Properties                                                              *)

\* A controller that serves is reachable and alone: the socket at the path is
\* its own, no process that stops late or starts early takes it away, and it
\* holds the lock, so a command reaches the one process that owns the state.
ServingIsReachable ==
  \A p \in Processes : server[p] = "serving" => path = p /\ lock = p

\* Only one process reconciles at a time, up to the end of its last Tick.
OneController == \A p \in ticking : lock = p

\* Whoever gets the lock gets the socket: looking, removing and binding are
\* three steps, and no other process interferes with them.
StartNeverFails == \A p \in Processes : server[p] # "failed"

\* A controller that was told to stop, or lost its server, goes away and leaves
\* the lock to the next one: the two goroutines and the hooks that wait for
\* them do not wait for each other.
StopEnds ==
  \A p \in Processes :
    (p \in asked \/ server[p] \in {"closed", "removed"}) ~> (server[p] = "off" /\ lock # p)
============================================================================
