-------------------------- MODULE LifecycleProofs --------------------------
(***************************************************************************)
(* For any number of processes: a controller that serves has the socket    *)
(* and the lock, no two reconcile, and no start fails on the socket.       *)
(***************************************************************************)
EXTENDS Lifecycle, TLAPS

\* Whoever is up holds the lock, so what it learned about the path stays true.
PathKnown(p) ==
  /\ server[p] = "found" => path # "nothing"
  /\ server[p] = "clear" => path = "nothing"
  /\ server[p] \in {"bound", "serving"} => path = p

Inv ==
  /\ TypeOK
  /\ \A p \in Processes : server[p] # "off" => lock = p
  /\ \A p \in ticking : server[p] # "off"
  /\ \A p \in Processes : server[p] # "failed" /\ PathKnown(p)

LEMMA InitInv == Init => Inv
BY LifecycleAssumptions DEF Init, Inv, TypeOK, Stages, PathKnown

\* Every step is of one process, and every process that is up holds the lock:
\* the others are off, and for them nothing is claimed of the path.
LEMMA StepInv == Inv /\ [Next]_vars => Inv'
<1> SUFFICES ASSUME Inv, [Next]_vars PROVE Inv'
  OBVIOUS
<1> USE LifecycleAssumptions DEF Inv, TypeOK, Stages, PathKnown, Moves, Gone
<1>1. ASSUME NEW p \in Processes, Open(p) PROVE Inv'
  BY <1>1 DEF Open
<1>2. ASSUME NEW p \in Processes, Look(p) PROVE Inv'
  BY <1>2 DEF Look
<1>3. ASSUME NEW p \in Processes, RemoveStale(p) PROVE Inv'
  BY <1>3 DEF RemoveStale
<1>4. ASSUME NEW p \in Processes, Listen(p) PROVE Inv'
  BY <1>4 DEF Listen
<1>5. ASSUME NEW p \in Processes, StartHook(p) PROVE Inv'
  BY <1>5 DEF StartHook
<1>6. ASSUME NEW p \in Processes, ControllerReturns(p) PROVE Inv'
  BY <1>6 DEF ControllerReturns
<1>7. ASSUME NEW p \in Processes, Shutdown(p) PROVE Inv'
  BY <1>7 DEF Shutdown
<1>8. ASSUME NEW p \in Processes, RemovePath(p) PROVE Inv'
  BY <1>8 DEF RemovePath
<1>9. ASSUME NEW p \in Processes, StopHooks(p) PROVE Inv'
  BY <1>9 DEF StopHooks
<1>10. ASSUME NEW p \in Processes, AskedToStop(p) PROVE Inv'
  BY <1>10 DEF AskedToStop
<1>11. ASSUME NEW p \in Processes, ServeFails(p) PROVE Inv'
  BY <1>11 DEF ServeFails
<1>12. ASSUME NEW p \in Processes, Dies(p) PROVE Inv'
  BY <1>12 DEF Dies
<1>13. CASE UNCHANGED vars
  BY <1>13 DEF vars
<1> QED
  BY <1>1, <1>2, <1>3, <1>4, <1>5, <1>6, <1>7, <1>8, <1>9, <1>10, <1>11,
     <1>12, <1>13 DEF Next, Step

LEMMA InvAlways == Spec => []Inv
BY InitInv, StepInv, PTL DEF Spec

\* The lifecycle's state stays well typed.
THEOREM LifecycleTypeCorrect == Spec => []TypeOK
<1>1. Inv => TypeOK
  BY DEF Inv
<1> QED
  BY <1>1, InvAlways, PTL

\* A controller that serves is the one behind the socket path and holds the
\* lock, whoever starts, stops or dies beside it.
THEOREM ServedByTheHolder == Spec => []ServingIsReachable
<1>1. Inv => ServingIsReachable
  BY DEF Inv, PathKnown, ServingIsReachable
<1> QED
  BY <1>1, InvAlways, PTL

\* Ticks of two controllers never overlap.
THEOREM OnlyTheHolderReconciles == Spec => []OneController
<1>1. Inv => OneController
  BY DEF Inv, TypeOK, OneController
<1> QED
  BY <1>1, InvAlways, PTL

\* Prepare never meets another process between its three steps.
THEOREM PrepareNeverFails == Spec => []StartNeverFails
<1>1. Inv => StartNeverFails
  BY DEF Inv, StartNeverFails
<1> QED
  BY <1>1, InvAlways, PTL
============================================================================
