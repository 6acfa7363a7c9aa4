--------------------------- MODULE RotationProofs ---------------------------
(***************************************************************************)
(* Proofs about Rotation for every TTL, wait, lag and bound.               *)
(*                                                                         *)
(* AtMostOnce is not inductive: a request is counted when it leaves the    *)
(* controller, and what forbids a second one is the attempt persisted      *)
(* before it.  Once adds that a request sent has its attempt on record,    *)
(* and that a request about to be sent has its attempt on record and was   *)
(* not sent yet.  Every handler has one of five shapes, and that is all    *)
(* the two invariants need to know of it.                                  *)
(*                                                                         *)
(* SlotsAreSound is not inductive either: it needs to know whom every      *)
(* deletion under way may hit, and that a foreign key is never taken for   *)
(* the old key of a workflow.  SlotInv says so.                            *)
(*                                                                         *)
(* DSAnnouncedWhenUsable needs the way of a DS from parentReplace to the   *)
(* registrar, and how long caches may hold a DNSKEY set without its key    *)
(* while waitPublish waits.  DSInv adds both to SlotInv.                   *)
(*                                                                         *)
(* ChainOfTrust needs the same for the signatures of the zone: ZoneInv     *)
(* adds which keys have signed what is served and cached, and that one of  *)
(* them stays in use.  Both go through the steps of the handlers by        *)
(* HandlerStep, which says what a handler may do to the workflow.          *)
(*                                                                         *)
(* SettledZone needs to know which keys there are: SettleInv adds that     *)
(* they are those of the rotation and a companion once waitPublish has     *)
(* looked twice, and that nothing creates one after that.                  *)
(***************************************************************************)
EXTENDS Rotation, WorldProofs, FiniteSetTheorems

Attempts(w) == <<w.keyTried, w.zskTried, w.tried>>

Tried(w, op) ==
  CASE op = "create_key" -> w.keyTried
    [] op = "create_zsk" -> w.zskTried
    [] OTHER -> w.tried

\* The handler persists a workflow with the same attempts ...
Quiet == \E w \in Workflow : Attempts(w) = Attempts(wf) /\ Persist(w)

\* ... or adopts a key ...
Adopts == \E w \in Workflow : Attempts(w) = Attempts(wf) /\ \E id \in Nat : Adopt(w, id)

\* ... or issues a request that may be repeated ...
Repeatable ==
  \E op \in {"activate", "deactivate", "delete"} : Issue(wf, op, wf.old, "sent")
                                                   \/ Issue(wf, op, NewSigner, "sent")

\* ... or records its first attempt at one that may not ...
FirstAttempt ==
  \E op \in OnceOps, key \in {0, wf.new}, w \in Workflow :
    /\ ~Tried(wf, op) /\ Tried(w, op)
    /\ \A other \in OnceOps \ {op} : Tried(w, other) = Tried(wf, other)
    /\ Issue(w, op, key, "ready")

\* ... or completes the workflow.
Completes ==
  /\ call = NoCall
  /\ complete
  /\ UNCHANGED <<worldVars, call, inflight, lastID, stray, rotations, faults,
                 strays>>

Handled == Quiet \/ Adopts \/ Repeatable \/ FirstAttempt \/ Completes

Once ==
  \A op \in OnceOps :
    /\ sent[op] <= 1
    /\ sent[op] = 1 => Tried(wf, op)
    /\ call.stage = "ready" /\ call.op = op => Tried(wf, op) /\ sent[op] = 0

ReadyIsOnce == call.stage = "ready" => call.op \in OnceOps

\* A transition keeps the attempts when the workflow it starts from does.
LEMMA TransitionQuiet ==
  ASSUME NEW w \in Workflow, NEW phase \in Phases, NEW wait \in Nat,
         Attempts(w) = Attempts(wf), transition(w, phase, wait)
  PROVE  Quiet
<1> DEFINE x == [w EXCEPT !.phase = phase, !.next = wait]
<1>1. x \in Workflow /\ Attempts(x) = Attempts(w)
  BY DEF Workflow, Attempts
<1>2. Persist(x)
  BY DEF transition
<1> HIDE DEF x
<1> QED BY <1>1, <1>2 DEF Quiet

\* Blocking keeps the attempts.
LEMMA BlockQuiet ==
  ASSUME TypeOK, block
  PROVE  Quiet
<1> DEFINE x == [wf EXCEPT !.phase = "blocked", !.next = 0]
<1>1. x \in Workflow /\ Attempts(x) = Attempts(wf)
  BY DEF TypeOK, Workflow, Attempts, Phases
<1>2. Persist(x)
  BY DEF block
<1> HIDE DEF x
<1> QED BY <1>1, <1>2 DEF Quiet

\* The waits the handlers schedule are natural numbers.
LEMMA WaitsAreNat ==
  ASSUME TypeOK
  PROVE  /\ maxTTL \in Nat /\ PublishWait \in Nat /\ ParentWait \in Nat
         /\ ZoneWait(maxTTL) \in Nat /\ ZoneWait(wf.zoneTTL) \in Nat
<1>1. wf.zoneTTL \in Nat /\ zoneTTL \in Nat
  BY WorldAssumptions DEF TypeOK, WorldTypeOK, Workflow
<1>2. DNSKEYTTL \in Nat /\ DSTTL \in Nat
  BY WorldAssumptions
<1> QED
  BY <1>1, <1>2, RotationAssumptions, WaitAssumptions
     DEF maxTTL, PublishWait, ParentWait, ZoneWait, maxDuration

\* A listed key has a natural number for its identifier.
LEMMA ListedIDs ==
  ASSUME TypeOK, NEW k \in Inventory
  PROVE  k.id \in Nat
  BY DEF TypeOK, WorldTypeOK, PowerDNSKey, Inventory, Listed

\* The edits the handlers make before a transition.
LEMMA Edits ==
  ASSUME TypeOK
  PROVE  /\ wf \in Workflow
         /\ \A id \in Nat : LET w == [wf EXCEPT !.old = id]
                            IN w \in Workflow /\ Attempts(w) = Attempts(wf)
         /\ \A m \in {"existing", "initial"} :
              LET w == [wf EXCEPT !.mode = m]
              IN w \in Workflow /\ Attempts(w) = Attempts(wf)
         /\ \A e \in BOOLEAN : LET w == [wf EXCEPT !.evidence = e]
                               IN w \in Workflow /\ Attempts(w) = Attempts(wf)
         /\ LET w == [wf EXCEPT !.ctid = TRUE]
            IN w \in Workflow /\ Attempts(w) = Attempts(wf)
         /\ LET w == [wf EXCEPT !.job = "done"]
            IN w \in Workflow /\ Attempts(w) = Attempts(wf)
         /\ LET w == [wf EXCEPT !.zoneTTL = maxTTL]
            IN w \in Workflow /\ Attempts(w) = Attempts(wf)
         /\ LET w == [wf EXCEPT !.zoneTTL = maxTTL, !.evidence = TRUE]
            IN w \in Workflow /\ Attempts(w) = Attempts(wf)
  BY WaitsAreNat DEF TypeOK, Workflow, Attempts

\* adoptOrCreate adopts, or records the attempt that was not there.
LEMMA AdoptOrCreateHandled ==
  ASSUME TypeOK, NEW typ, NEW active, NEW otherSlot,
         NEW op \in {"create_key", "create_zsk"},
         adoptOrCreate(typ, active, otherSlot, op)
  PROVE  Handled
<1> DEFINE candidates == Candidates(Inventory, wf, typ, active, wf.kind = "split")
<1>1. ASSUME NEW k \in candidates, Adopt(With(op, k.id), k.id) PROVE Handled
  <2>1. k.id \in Nat
    BY ListedIDs DEF Candidates, Eligible
  <2>2. With(op, k.id) \in Workflow /\ Attempts(With(op, k.id)) = Attempts(wf)
    BY <2>1 DEF With, WithNewKey, WithNewZSK, TypeOK, Workflow, Phases, Attempts
  <2> QED BY <1>1, <2>1, <2>2 DEF Adopts, Handled
<1>2. ASSUME ~CreateTried(op), Issue(WithAttempt(op), op, 0, "ready")
      PROVE  Handled
  <2>1. /\ WithAttempt(op) \in Workflow
        /\ ~Tried(wf, op) /\ Tried(WithAttempt(op), op)
        /\ \A other \in OnceOps \ {op} : Tried(WithAttempt(op), other) = Tried(wf, other)
    BY <1>2 DEF WithAttempt, CreateTried, Tried, OnceOps, TypeOK, Workflow
  <2> QED BY <1>2, <2>1 DEF FirstAttempt, Handled, OnceOps
<1> QED BY <1>1, <1>2 DEF adoptOrCreate

\* Every outcome of prepublish has one of the shapes of Handled.
LEMMA PrepublishHandled ==
  ASSUME TypeOK, prepublish
  PROVE  Handled
<1> USE DEF Handled
<1>1. ASSUME NEW typ, RecordOld(typ) PROVE Handled
  <2>1. ASSUME NEW k \in ActiveOf(Inventory, typ),
               transition([wf EXCEPT !.old = k.id], "prepublish", 0)
        PROVE Quiet
    <3>1. k.id \in Nat
      BY ListedIDs DEF ActiveOf
    <3> QED BY <2>1, <3>1, Edits, TransitionQuiet DEF Phases
  <2> QED BY <1>1, <2>1, BlockQuiet DEF RecordOld
<1>2. ASSUME ClassifyParent PROVE Handled
  BY <1>2, Edits, TransitionQuiet, BlockQuiet DEF ClassifyParent, Phases
<1>3. ASSUME transition([wf EXCEPT !.evidence = FALSE], "wait_publish", 0)
      PROVE Handled
  BY <1>3, Edits, TransitionQuiet DEF Phases
<1> QED
  BY <1>1, <1>2, <1>3, AdoptOrCreateHandled, BlockQuiet DEF prepublish

\* Every outcome of waitPublish has one of the shapes of Handled.
LEMMA WaitPublishHandled ==
  ASSUME TypeOK, waitPublish
  PROVE  Handled
  BY Edits, TransitionQuiet, BlockQuiet, WaitsAreNat DEF waitPublish, Handled, Phases

\* Every outcome of RecordCTID has one of the shapes of Handled.
LEMMA RecordCTIDHandled ==
  ASSUME TypeOK, RecordCTID
  PROVE  Handled
  BY Edits, TransitionQuiet DEF RecordCTID, Handled, Phases

\* Every outcome of parentReplace has one of the shapes of Handled.
LEMMA ParentReplaceHandled ==
  ASSUME TypeOK, parentReplace
  PROVE  Handled
<1> USE DEF Handled
<1>1. CASE block
  BY <1>1, BlockQuiet
<1>2. CASE transition([wf EXCEPT !.evidence = FALSE], "wait_parent_remove", 0)
  BY <1>2, Edits, TransitionQuiet DEF Phases
<1>3. CASE ~wf.tried /\ Issue(WithRegistrarAttempt, "update_dnssec", wf.new, "ready")
  <2>1. /\ WithRegistrarAttempt \in Workflow
        /\ ~Tried(wf, "update_dnssec") /\ Tried(WithRegistrarAttempt, "update_dnssec")
        /\ \A other \in OnceOps \ {"update_dnssec"} :
             Tried(WithRegistrarAttempt, other) = Tried(wf, other)
    <3>1. 0 \in 0..AmbiguityLimit
      BY RotationAssumptions, WaitAssumptions
    <3>2. WithRegistrarAttempt \in Workflow
      BY <3>1 DEF WithRegistrarAttempt, TypeOK, Workflow
    <3>3. /\ WithRegistrarAttempt.tried
          /\ WithRegistrarAttempt.keyTried = wf.keyTried
          /\ WithRegistrarAttempt.zskTried = wf.zskTried
      BY DEF WithRegistrarAttempt, TypeOK, Workflow
    <3> QED BY <1>3, <3>2, <3>3 DEF Tried, OnceOps
  <2> QED BY <1>3, <2>1 DEF FirstAttempt, OnceOps
<1> QED BY <1>1, <1>2, <1>3 DEF parentReplace

\* Every outcome of waitParentReplace has one of the shapes of Handled.
LEMMA WaitParentHandled ==
  ASSUME TypeOK, waitParentReplace
  PROVE  Handled
<1> USE DEF Handled
<1>1. CASE FollowJob
  BY <1>1, Edits, TransitionQuiet, BlockQuiet DEF FollowJob, Phases
<1>2. CASE AwaitDS
  BY <1>2, Edits, TransitionQuiet, BlockQuiet, WaitsAreNat DEF AwaitDS, Phases
<1> QED BY <1>1, <1>2, BlockQuiet DEF waitParentReplace

\* Every outcome of activateNew has one of the shapes of Handled.
LEMMA ActivateHandled ==
  ASSUME TypeOK, activateNew
  PROVE  Handled
  BY Edits, TransitionQuiet, BlockQuiet DEF activateNew, Handled, Repeatable, Phases

\* Every outcome of waitNewSignature has one of the shapes of Handled.
LEMMA WaitSignatureHandled ==
  ASSUME TypeOK, waitNewSignature
  PROVE  Handled
<1> USE DEF Handled
<1>1. ASSUME AttestAgain PROVE Handled
  BY <1>1, Edits, TransitionQuiet, WaitsAreNat DEF AttestAgain, Phases
<1>2. ASSUME SignatureSeen PROVE Handled
  BY <1>1, <1>2, Edits, TransitionQuiet, BlockQuiet, WaitsAreNat
     DEF SignatureSeen, Phases
<1> QED BY <1>2, BlockQuiet DEF waitNewSignature

\* Every outcome of deactivateOld has one of the shapes of Handled.
LEMMA DeactivateHandled ==
  ASSUME TypeOK, deactivateOld
  PROVE  Handled
<1> USE DEF Handled
<1>1. ASSUME AttestAgain PROVE Handled
  BY <1>1, Edits, TransitionQuiet, WaitsAreNat DEF AttestAgain, Phases
<1>2. ASSUME SwitchOff PROVE Handled
  BY <1>2, Edits, TransitionQuiet, WaitsAreNat DEF SwitchOff, Repeatable, Phases
<1> QED BY <1>1, <1>2, BlockQuiet DEF deactivateOld

\* Every outcome of waitRetire has one of the shapes of Handled.
LEMMA RetireHandled ==
  ASSUME TypeOK, waitRetire
  PROVE  Handled
  BY Edits, TransitionQuiet, BlockQuiet DEF waitRetire, Handled, Phases

\* Every outcome of deleteOld has one of the shapes of Handled.
LEMMA DeleteHandled ==
  ASSUME TypeOK, deleteOld
  PROVE  Handled
<1> USE DEF Handled
<1>1. ASSUME RemoveOld PROVE Handled
  <2>1. call = NoCall
    BY DEF deleteOld, Due
  <2> QED BY <1>1, <2>1, BlockQuiet DEF RemoveOld, Repeatable, Completes
<1> QED BY <1>1, BlockQuiet DEF deleteOld
-----------------------------------------------------------------------------
(* Types                                                                   *)

LocalType ==
  /\ wf \in Workflow
  /\ call \in Call
  /\ inflight \in SUBSET Request
  /\ lastID \in Nat
  /\ stray \in Nat
  /\ sent \in [OnceOps -> Nat]
  /\ rotations \in 0..MaxRotations
  /\ faults \in 0..MaxFaults
  /\ strays \in 0..MaxStrays

\* TypeOK in the parts the lemmas are about.
LEMMA TypeParts ==
  /\ TypeOK <=> ServedType /\ ParentType /\ RegistrarType /\ LocalType
  /\ TypeOK' <=> ServedType' /\ ParentType' /\ RegistrarType' /\ LocalType'
  BY DEF TypeOK, WorldTypeOK, ServedType, ParentType, RegistrarType, LocalType

\* What secondaries, the registrar, the parent and the operator do by
\* themselves keeps the types.
LEMMA WorldStepType ==
  ASSUME TypeOK, WorldStep
  PROVE  TypeOK'
<1>1. LocalType'
  BY TypeParts DEF WorldStep, LocalType, bookVars
<1>2. WorldTypeOK'
  BY WorldActionType DEF TypeOK, WorldStep, World
<1> QED BY <1>1, <1>2, TypeParts, WorldParts

\* Time keeps the types: requests are dropped before their time left becomes
\* negative.
LEMMA ElapseType ==
  ASSUME TypeOK, Elapse
  PROVE  TypeOK'
<1> USE TypeParts
<1>1. WorldTypeOK'
  BY WorldElapsesType DEF TypeOK, Elapse
<1>2. wf' \in Workflow
  <2>1. (IF wf.next > 0 THEN wf.next - 1 ELSE 0) \in Nat
    BY DEF LocalType, Workflow
  <2>2. (IF wf.tried /\ wf.age < AmbiguityLimit THEN wf.age + 1 ELSE wf.age)
          \in 0..AmbiguityLimit
    BY RotationAssumptions, WaitAssumptions DEF LocalType, Workflow
  <2> QED BY <2>1, <2>2 DEF Elapse, LocalType, Workflow
<1>3. inflight' \in SUBSET Request
  <2> SUFFICES ASSUME NEW r \in inflight
               PROVE  [r EXCEPT !.left = @ - 1] \in Request
    BY DEF Elapse
  <2>1. r \in Request /\ r.left > 0
    BY DEF Elapse, LocalType
  <2> QED BY <2>1 DEF Request
<1>4. LocalType'
  BY <1>2, <1>3 DEF Elapse, LocalType
<1> QED BY <1>1, <1>4, WorldParts

\* A handler leaves the world alone and keeps the types.
LEMMA HandledType ==
  ASSUME TypeOK, Handled
  PROVE  TypeOK'
<1> USE TypeParts
<1>1. ServedType' /\ ParentType' /\ RegistrarType'
  BY DEF Handled, Quiet, Adopts, Repeatable, FirstAttempt, Completes, Persist,
         Adopt, Issue, worldVars, ServedType, ParentType, RegistrarType
<1> SUFFICES LocalType'
  BY <1>1
<1>2. ASSUME NEW w \in Workflow, NEW op \in Ops, NEW key \in Nat,
             NEW stg \in {"ready", "sent"}, Issue(w, op, key, stg)
      PROVE  LocalType'
  <2>1. Req(op, key) \in Request
    BY RotationAssumptions, WaitAssumptions DEF Req, MadeFor, Request
  <2>2. [op |-> op, key |-> key, stage |-> stg, reply |-> 0] \in Call
    BY DEF Call
  <2> QED BY <1>2, <2>1, <2>2 DEF Issue, LocalType
<1>3. wf.old \in Nat /\ wf.new \in Nat /\ NewSigner \in Nat /\ wf \in Workflow
  BY DEF LocalType, Workflow, NewSigner
<1>4. CASE Quiet
  BY <1>4 DEF Quiet, Persist, LocalType, bookVars
<1>5. CASE Adopts
  BY <1>5 DEF Adopts, Adopt, LocalType
<1>6. CASE Repeatable
  BY <1>2, <1>3, <1>6 DEF Repeatable, Ops
<1>7. CASE FirstAttempt
  <2>1. PICK op \in OnceOps, key \in {0, wf.new}, w \in Workflow :
               Issue(w, op, key, "ready")
    BY <1>7 DEF FirstAttempt
  <2>2. op \in Ops /\ key \in Nat
    BY <1>3 DEF Ops
  <2> QED BY <1>2, <2>1, <2>2
<1>8. CASE Completes
  <2>1. IdleWorkflow \in Workflow
    BY RotationAssumptions, WaitAssumptions DEF IdleWorkflow, Workflow, Phases
  <2> QED BY <1>8, <2>1 DEF Completes, complete, LocalType
<1> QED BY <1>4, <1>5, <1>6, <1>7, <1>8 DEF Handled

MadeCall == [op : Ops, key : Nat, stage : {"ready", "sent", "answered"},
             reply : Nat]

\* A call that has a stage is for a request.
LEMMA CallMade ==
  ASSUME TypeOK, call.stage \in {"ready", "sent", "answered"}
  PROVE  call \in MadeCall
<1>1. call # NoCall
  BY DEF NoCall
<1> QED BY <1>1 DEF TypeOK, Call, MadeCall

\* Answering a call keeps its type.
LEMMA AnsweredType ==
  ASSUME TypeOK, NEW r \in inflight, NEW reply \in Nat
  PROVE  Answered(r, reply) \in Call
<1>1. CASE call.stage = "sent"
  <2>1. call \in MadeCall
    BY <1>1, CallMade
  <2>2. [call EXCEPT !.stage = "answered", !.reply = reply] \in MadeCall
    BY <2>1 DEF MadeCall
  <2> QED BY <2>1, <2>2 DEF Answered, Call, MadeCall
<1>2. CASE call.stage # "sent"
  BY <1>2 DEF Answered, TypeOK
<1> QED BY <1>1, <1>2

\* What PowerDNS does with a request yields well-typed keys.
LEMMA KeysAfterType ==
  ASSUME TypeOK, NEW r \in inflight
  PROVE  KeysAfter(r) \in SUBSET PowerDNSKey
<1>1. keys \in SUBSET PowerDNSKey /\ lastID \in Nat
  BY DEF TypeOK, WorldTypeOK
<1>2. NewKey(lastID + 1, r.made, r.made = "ksk") \in PowerDNSKey
  BY <1>1 DEF NewKey, PowerDNSKey, flagsOf, KeyTypes, TypeOK, Request
<1>3. \A k \in PowerDNSKey : [k EXCEPT !.active = (r.op = "activate")] \in PowerDNSKey
  BY DEF PowerDNSKey
<1> QED BY <1>1, <1>2, <1>3 DEF KeysAfter

\* What a handler persists with the answer is a workflow with the same
\* attempts.
LEMMA AfterAnswerType ==
  ASSUME TypeOK, call.reply \in Nat
  PROVE  AfterAnswer \in Workflow /\ Attempts(AfterAnswer) = Attempts(wf)
<1> DEFINE ttl == ZoneWait(wf.zoneTTL)
           job == IF call.reply = 1 THEN "open" ELSE "none"
           w1 == [wf EXCEPT !.phase = "wait_parent_remove", !.next = 0,
                            !.evidence = FALSE, !.job = job]
           w2 == [wf EXCEPT !.phase = "wait_new_signature", !.next = 0,
                            !.evidence = FALSE]
           w3 == [wf EXCEPT !.phase = "delete_old", !.next = 0]
           w4 == [wf EXCEPT !.phase = "wait_retire", !.next = ttl]
           Good(w) == w \in Workflow /\ Attempts(w) = Attempts(wf)
<1>1. wf \in Workflow
  BY DEF TypeOK
<1>2. \A id \in Nat : Good(WithNewKey(id)) /\ Good(WithNewZSK(id))
  <2> SUFFICES ASSUME NEW id \in Nat PROVE Good(WithNewKey(id)) /\ Good(WithNewZSK(id))
    OBVIOUS
  <2>1. WithNewKey(id) \in Workflow
    BY <1>1 DEF WithNewKey, Workflow, Phases
  <2>2. WithNewZSK(id) \in Workflow
    BY <1>1 DEF WithNewZSK, Workflow, Phases
  <2>3. Attempts(WithNewKey(id)) = Attempts(wf) /\ Attempts(WithNewZSK(id)) = Attempts(wf)
    BY <1>1 DEF WithNewKey, WithNewZSK, Attempts, Workflow
  <2> QED BY <2>1, <2>2, <2>3
<1>3. \A op : Good(With(op, call.reply))
  BY <1>2 DEF With
<1>4. job \in {"none", "open", "done"}
  OBVIOUS
<1> HIDE DEF job
<1>5. Good(w1)
  BY <1>1, <1>4 DEF Workflow, Phases, Attempts
<1>6. Good(w2) /\ Good(w3)
  BY <1>1 DEF Workflow, Phases, Attempts
<1>7. ttl \in Nat
  BY WaitsAreNat
<1> HIDE DEF ttl
<1>8. Good(w4)
  BY <1>1, <1>7 DEF Workflow, Phases, Attempts
<1>9. AfterAnswer \in {With(call.op, call.reply), w1, w2, w3, w4}
  BY DEF AfterAnswer, ttl, job
<1> HIDE DEF w1, w2, w3, w4
<1> QED BY <1>3, <1>5, <1>6, <1>8, <1>9

\* Sending, delivering, losing and abandoning requests keeps the types.
LEMMA CallsType ==
  ASSUME TypeOK,
         \/ Send \/ Abandon \/ PersistAnswer
         \/ \E r \in inflight : Deliver(r) \/ LoseRequest(r)
  PROVE  TypeOK'
<1> USE TypeParts
<1>1. ASSUME UNCHANGED worldVars PROVE ServedType' /\ ParentType' /\ RegistrarType'
  BY <1>1 DEF worldVars, ServedType, ParentType, RegistrarType
<1>2. CASE Send
  <2>1. call \in MadeCall
    BY <1>2, CallMade DEF Send
  <2>2. Req(call.op, call.key) \in Request
    BY <2>1, RotationAssumptions, WaitAssumptions DEF Req, MadeFor, Request, MadeCall
  <2>3. [call EXCEPT !.stage = "sent"] \in MadeCall
    BY <2>1 DEF MadeCall
  <2> [call EXCEPT !.stage = "sent"] \in Call
    BY <2>3 DEF Call, MadeCall
  <2>4. [sent EXCEPT ![call.op] = @ + 1] \in [OnceOps -> Nat]
    <3>1. sent \in [OnceOps -> Nat]
      BY DEF LocalType
    <3>2. call.op \in OnceOps => sent[call.op] + 1 \in Nat
      BY <3>1
    <3> QED BY <3>1, <3>2
  <2>5. LocalType'
    BY <1>2, <2>2, <2>4 DEF Send, LocalType
  <2> QED BY <1>1, <1>2, <2>5 DEF Send
<1>3. CASE Abandon
  <2>1. NoCall \in Call
    BY DEF Call
  <2>2. faults' \in 0..MaxFaults
    BY <1>3, RotationAssumptions, WaitAssumptions DEF Abandon, LocalType
  <2>3. LocalType'
    BY <1>3, <2>1, <2>2 DEF Abandon, LocalType
  <2> QED BY <1>1, <1>3, <2>3 DEF Abandon
<1>4. CASE PersistAnswer
  <2>1. NoCall \in Call
    BY DEF Call
  <2>3. IdleWorkflow \in Workflow
    BY RotationAssumptions, WaitAssumptions DEF IdleWorkflow, Workflow, Phases
  <2>2. call.reply \in Nat
    BY <1>4, CallMade DEF PersistAnswer, MadeCall
  <2>4. AfterAnswer \in Workflow
    BY <2>2, AfterAnswerType
  <2>5. LocalType'
    BY <1>4, <2>1, <2>3, <2>4 DEF PersistAnswer, complete, LocalType
  <2> QED BY <1>1, <1>4, <2>5 DEF PersistAnswer
<1>5. ASSUME NEW r \in inflight, LoseRequest(r) PROVE TypeOK'
  <2>1. faults' \in 0..MaxFaults
    BY <1>5, RotationAssumptions, WaitAssumptions DEF LoseRequest, LocalType
  <2>2. LocalType'
    BY <1>5, <2>1 DEF LoseRequest, LocalType
  <2> QED BY <1>1, <1>5, <2>2 DEF LoseRequest
<1>6. ASSUME NEW r \in inflight, PowerDNSApplies(r) PROVE TypeOK'
  <2>1. ServedType'
    BY <1>6, KeysAfterType, ServeType DEF PowerDNSApplies, ServedType
  <2>2. ParentType' /\ RegistrarType'
    BY <1>6 DEF PowerDNSApplies, ParentType, RegistrarType
  <2>3. lastID' \in Nat /\ call' \in Call
    BY <1>6, AnsweredType DEF PowerDNSApplies, LocalType
  <2>4. LocalType'
    BY <1>6, <2>3 DEF PowerDNSApplies, LocalType
  <2> QED BY <2>1, <2>2, <2>4
<1>7. ASSUME NEW r \in inflight, RegistrarAccepts(r) PROVE TypeOK'
  <2>1. ServedType' /\ ParentType'
    BY <1>7 DEF RegistrarAccepts, ServedType, ParentType
  <2>2. {r.key} \in KeyIDs
    BY DEF LocalType, Request, KeyIDs
  <2>3. RegistrarType'
    BY <1>7, <2>2 DEF RegistrarAccepts, RegistrarType
  <2>4. call' \in Call
    BY <1>7, AnsweredType DEF RegistrarAccepts
  <2>5. LocalType'
    BY <1>7, <2>4 DEF RegistrarAccepts, LocalType
  <2> QED BY <2>1, <2>3, <2>5
<1> QED BY <1>2, <1>3, <1>4, <1>5, <1>6, <1>7 DEF Deliver

\* Starting, blocking, resuming and attesting, and foreign keys, keep the types.
LEMMA OperatorType ==
  ASSUME TypeOK,
         \/ \E kind \in Kinds : Trigger(kind)
         \/ BlockUnknownScheme \/ NoDSProbeFails
         \/ StrayKeyAppears \/ StrayKeyRemoved
         \/ Resume \/ ReconcileSplitSignerTransition
  PROVE  TypeOK'
<1> USE TypeParts
<1>1. ASSUME UNCHANGED worldVars PROVE ServedType' /\ ParentType' /\ RegistrarType'
  BY <1>1 DEF worldVars, ServedType, ParentType, RegistrarType
<1>2. ASSUME NEW w \in Workflow, Persist(w) PROVE TypeOK'
  BY <1>1, <1>2 DEF Persist, LocalType, bookVars
<1>3. ASSUME NEW kind \in Kinds, Trigger(kind) PROVE TypeOK'
  <2>1. [wf EXCEPT !.kind = kind, !.phase = "prepublish", !.next = 0] \in Workflow
    <3>1. kind \in {"none", "zsk", "ksk", "split"}
      BY RotationAssumptions, WaitAssumptions
    <3> QED BY <3>1 DEF LocalType, Workflow, Phases
  <2>2. rotations' \in 0..MaxRotations
    <3>1. rotations \in 0..MaxRotations /\ MaxRotations \in Nat
      BY RotationAssumptions, WaitAssumptions DEF LocalType
    <3>2. rotations < MaxRotations /\ rotations' = rotations + 1
      BY <1>3 DEF Trigger
    <3> QED BY <3>1, <3>2
  <2>3. LocalType'
    BY <1>3, <2>1, <2>2 DEF Trigger, start, LocalType
  <2> QED BY <1>1, <1>3, <2>3 DEF Trigger
<1>4. CASE BlockUnknownScheme
  <2>1. [wf EXCEPT !.kind = "zsk", !.phase = "blocked"] \in Workflow
    BY DEF LocalType, Workflow, Phases
  <2> QED BY <1>2, <1>4, <2>1 DEF BlockUnknownScheme
<1>5. CASE NoDSProbeFails
  <2>1. [wf EXCEPT !.phase = "blocked", !.next = 0] \in Workflow
    BY DEF LocalType, Workflow, Phases
  <2>2. faults' \in 0..MaxFaults
    BY <1>5, RotationAssumptions, WaitAssumptions DEF NoDSProbeFails, LocalType
  <2>3. LocalType'
    BY <1>5, <2>1, <2>2 DEF NoDSProbeFails, LocalType
  <2> QED BY <1>1, <1>5, <2>3 DEF NoDSProbeFails
<1>6. CASE StrayKeyAppears
  <2>1. PICK made \in {"zsk", "ksk"} :
          Serve(keys \cup {NewKey(lastID + 1, made, made = "ksk")}, zoneTTL, secondary)
    BY <1>6 DEF StrayKeyAppears
  <2>2. NewKey(lastID + 1, made, made = "ksk") \in PowerDNSKey
    BY DEF NewKey, PowerDNSKey, flagsOf, KeyTypes, LocalType
  <2>3. keys \cup {NewKey(lastID + 1, made, made = "ksk")} \in SUBSET PowerDNSKey
    BY <2>2 DEF ServedType
  <2>4. ServedType'
    BY <2>1, <2>3, ServeType DEF ServedType
  <2>5. strays' \in 0..MaxStrays
    BY <1>6, RotationAssumptions, WaitAssumptions DEF StrayKeyAppears, LocalType
  <2>6. LocalType'
    BY <1>6, <2>5 DEF StrayKeyAppears, LocalType
  <2> QED BY <1>6, <2>4, <2>6 DEF StrayKeyAppears, ParentType, RegistrarType
<1>7. CASE StrayKeyRemoved
  <2>1. {k \in keys : k.id # stray} \in SUBSET PowerDNSKey
    BY DEF ServedType
  <2>2. ServedType'
    BY <1>7, <2>1, ServeType DEF StrayKeyRemoved, ServedType
  <2>3. LocalType'
    BY <1>7 DEF StrayKeyRemoved, LocalType
  <2> QED BY <1>7, <2>2, <2>3 DEF StrayKeyRemoved, ParentType, RegistrarType
<1>8. CASE Resume
  <2>1. Quiet
    BY <1>8, Edits, TransitionQuiet DEF Resume, Phases
  <2> QED BY <1>2, <2>1 DEF Quiet
<1>9. CASE ReconcileSplitSignerTransition
  <2> DEFINE ttl == maxDuration(maxTTL, wf.zoneTTL)
             w == [wf EXCEPT !.attested = TRUE, !.evidence = TRUE, !.zoneTTL = ttl]
  <2>1. ttl \in Nat
    BY WaitsAreNat DEF maxDuration, LocalType, Workflow
  <2>2. ZoneWait(ttl) \in Nat
    BY <2>1, RotationAssumptions, WaitAssumptions DEF ZoneWait
  <2> HIDE DEF ttl
  <2>3. w \in Workflow /\ Attempts(w) = Attempts(wf)
    BY <2>1 DEF LocalType, Workflow, Attempts
  <2>4. transition(w, "wait_new_signature", ZoneWait(ttl))
    BY <1>9 DEF ReconcileSplitSignerTransition, ttl
  <2> HIDE DEF w
  <2>5. Quiet
    BY <2>2, <2>3, <2>4, TransitionQuiet DEF Phases
  <2> QED BY <1>2, <2>5 DEF Quiet
<1> QED BY <1>3, <1>4, <1>5, <1>6, <1>7, <1>8, <1>9

\* The initial state is well typed.
LEMMA TypeInit == Init => TypeOK
<1> SUFFICES ASSUME Init PROVE TypeOK
  OBVIOUS
<1> PICK z \in InitialZones : /\ WorldInit(InitialKeys(z), InitialDS(z))
                              /\ lastID = IF z = "split" THEN 2 ELSE 1
  BY DEF Init
<1> InitialDS(z) \in KeyIDs
  <2>1. InitialDS(z) = {} \/ InitialDS(z) = {1}
    BY DEF InitialDS
  <2>2. {1} \in KeyIDs /\ {} \in KeyIDs
    BY DEF KeyIDs
  <2> QED BY <2>1, <2>2
<1>1. keys \in SUBSET PowerDNSKey
  <2>1. NewKey(1, "csk", TRUE) \in PowerDNSKey
    BY DEF NewKey, PowerDNSKey, flagsOf, KeyTypes
  <2>2. /\ NewKey(1, "ksk", TRUE) \in PowerDNSKey
        /\ NewKey(2, "zsk", TRUE) \in PowerDNSKey
    BY DEF NewKey, PowerDNSKey, flagsOf, KeyTypes
  <2> QED BY <2>1, <2>2 DEF InitialKeys, WorldInit
<1>2. secondary = Image(keys, zoneTTL) /\ zoneTTL \in ZoneTTLs
  BY DEF WorldInit
<1>3. secondary \in ZoneImage
  BY <1>1, <1>2, ImageType
<1>4. lag \in 0..ServerLag /\ 0 \in 0..ParentLag
  BY WorldAssumptions DEF WorldInit
<1>5. cache \in [dnskey : Cached([keys : KeyIDs, sig : KeyIDs]),
                 zone : Cached([sig : KeyIDs, ttl : ZoneTTLs]),
                 ds : Cached(KeyIDs)]
  BY DEF WorldInit, Cached
<1>6. ParentType /\ RegistrarType
  <2>1. parent \in [fast : {InitialDS(z)}, slow : {InitialDS(z)}, lag : {0},
                    delegated : Delegations]
    BY DEF WorldInit
  <2>2. ParentType
    BY <1>4, <2>1, WorldAssumptions DEF ParentType
  <2>3. RegistrarType
    BY DEF WorldInit, RegistrarType, KeyIDs
  <2> QED BY <2>2, <2>3
<1>7. IdleWorkflow \in Workflow
  BY RotationAssumptions, WaitAssumptions DEF IdleWorkflow, Workflow, Phases
<1>8. /\ 0 \in 0..MaxRotations /\ 0 \in 0..MaxFaults /\ 0 \in 0..MaxStrays
  BY RotationAssumptions, WaitAssumptions
<1>9. LocalType
  BY <1>7, <1>8 DEF Init, LocalType, Call
<1> QED BY <1>1, <1>2, <1>3, <1>4, <1>5, <1>6, <1>9, TypeParts DEF ServedType

\* Every step of a handler has one of the shapes of Handled.
LEMMA ControllerHandled ==
  ASSUME TypeOK, Controller
  PROVE  Handled \/ Send \/ PersistAnswer
  BY PrepublishHandled, WaitPublishHandled, RecordCTIDHandled,
     ParentReplaceHandled, WaitParentHandled, ActivateHandled,
     WaitSignatureHandled, DeactivateHandled, RetireHandled, DeleteHandled
     DEF Controller

\* Every step keeps the types.
LEMMA TypeNext ==
  ASSUME TypeOK, [Next]_vars
  PROVE  TypeOK'
<1>1. CASE Controller
  BY <1>1, ControllerHandled, HandledType, CallsType
<1>2. CASE UNCHANGED vars
  BY <1>2 DEF vars, worldVars, TypeOK, WorldTypeOK
<1> QED BY <1>1, <1>2, CallsType, OperatorType, WorldStepType, ElapseType DEF Next

\* The persisted workflow, the calls and the world stay within their types:
\* whatever a handler persists is a phase that advance knows, and the time
\* left of a wait, a request or a cache entry is never negative.
THEOREM RotationTypeCorrect == Spec => []TypeOK
<1>1. TypeOK /\ [Next]_vars => TypeOK'
  BY TypeNext
<1> QED BY <1>1, TypeInit, PTL DEF Spec
-----------------------------------------------------------------------------
(* At most once                                                            *)

OnceInv == TypeOK /\ Once /\ ReadyIsOnce

\* Once depends on the attempts of the workflow only.
LEMMA TriedByAttempts ==
  ASSUME NEW v, NEW w, Attempts(v) = Attempts(w), NEW op
  PROVE  Tried(v, op) = Tried(w, op)
  BY DEF Attempts, Tried

\* A handler sends nothing itself; it records its attempt and leaves the
\* request to Send only when there was no attempt, hence no request, before.
LEMMA HandledOnce ==
  ASSUME OnceInv, Handled
  PROVE  Once' /\ ReadyIsOnce'
<1> USE DEF OnceInv
<1>1. CASE Quiet
  <2>1. PICK w \in Workflow : Attempts(w) = Attempts(wf) /\ Persist(w)
    BY <1>1 DEF Quiet
  <2>2. wf' = w /\ call' = call /\ sent' = sent
    BY <2>1 DEF Persist, bookVars
  <2> QED BY <2>1, <2>2, TriedByAttempts DEF Once, ReadyIsOnce
<1>2. CASE Adopts
  <2>1. PICK w \in Workflow : Attempts(w) = Attempts(wf) /\ \E id \in Nat : Adopt(w, id)
    BY <1>2 DEF Adopts
  <2>2. wf' = w /\ call' = call /\ sent' = sent
    BY <2>1 DEF Adopt
  <2> QED BY <2>1, <2>2, TriedByAttempts DEF Once, ReadyIsOnce
<1>3. CASE Repeatable
  <2>1. wf' = wf /\ sent' = sent /\ call'.stage = "sent"
    BY <1>3 DEF Repeatable, Issue
  <2> QED BY <2>1 DEF Once, ReadyIsOnce
<1>4. CASE FirstAttempt
  <2>1. PICK op \in OnceOps, key \in {0, wf.new}, w \in Workflow :
          /\ ~Tried(wf, op) /\ Tried(w, op)
          /\ \A other \in OnceOps \ {op} : Tried(w, other) = Tried(wf, other)
          /\ Issue(w, op, key, "ready")
    BY <1>4 DEF FirstAttempt
  <2>2. wf' = w /\ sent' = sent /\ call'.op = op
    BY <2>1 DEF Issue
  <2>3. sent[op] \in Nat
    BY DEF TypeOK
  <2>4. sent[op] = 0
    BY <2>1, <2>3 DEF Once
  <2> QED BY <2>1, <2>2, <2>4 DEF Once, ReadyIsOnce
<1>5. CASE Completes
  <2>1. call'.stage # "ready" /\ sent' = [op \in OnceOps |-> 0]
    BY <1>5 DEF Completes, complete, NoCall
  <2> QED BY <2>1 DEF Once, ReadyIsOnce
<1> QED BY <1>1, <1>2, <1>3, <1>4, <1>5 DEF Handled

\* Sending a recorded request counts it once; no other step of the calls
\* counts one, and the answer of a completed workflow resets the count
\* together with the record.
LEMMA CallsOnce ==
  ASSUME OnceInv,
         \/ Send \/ Abandon \/ PersistAnswer
         \/ \E r \in inflight : Deliver(r) \/ LoseRequest(r)
  PROVE  Once' /\ ReadyIsOnce'
<1> USE DEF OnceInv
<1>1. ASSUME wf' = wf, sent' = sent, call'.stage = "ready" => call' = call
      PROVE  Once' /\ ReadyIsOnce'
  BY <1>1 DEF Once, ReadyIsOnce
<1>2. CASE Send
  <2>1. call \in MadeCall
    BY <1>2, CallMade DEF Send
  <2>2. /\ call'.stage = "sent" /\ wf' = wf
        /\ sent' = [sent EXCEPT ![call.op] = @ + 1]
    BY <1>2, <2>1 DEF Send, MadeCall
  <2>3. /\ sent \in [OnceOps -> Nat] /\ call.op \in OnceOps
        /\ sent[call.op] = 0 /\ Tried(wf, call.op)
    BY <1>2 DEF Send, Once, ReadyIsOnce, TypeOK
  <2>4. \A op \in OnceOps : sent'[op] = IF op = call.op THEN 1 ELSE sent[op]
    BY <2>2, <2>3
  <2> QED BY <2>2, <2>3, <2>4 DEF Once, ReadyIsOnce
<1>3. CASE Abandon
  BY <1>1, <1>3 DEF Abandon, NoCall
<1>4. CASE PersistAnswer
  <2>1. call'.stage # "ready"
    BY <1>4 DEF PersistAnswer, NoCall
  <2>2. CASE sent' = [op \in OnceOps |-> 0]
    BY <2>1, <2>2 DEF Once, ReadyIsOnce
  <2>3. CASE wf' = AfterAnswer /\ sent' = sent
    <3>1. call.reply \in Nat
      BY <1>4, CallMade DEF PersistAnswer, MadeCall
    <3>2. Attempts(AfterAnswer) = Attempts(wf)
      BY <3>1, AfterAnswerType
    <3> QED BY <2>1, <2>3, <3>2, TriedByAttempts DEF Once, ReadyIsOnce
  <2> QED BY <1>4, <2>2, <2>3 DEF PersistAnswer, complete
<1>5. ASSUME NEW r \in inflight, Deliver(r) \/ LoseRequest(r)
      PROVE  Once' /\ ReadyIsOnce'
  <2>1. wf' = wf /\ sent' = sent
    BY <1>5 DEF Deliver, PowerDNSApplies, RegistrarAccepts, LoseRequest
  <2>2. call' = call \/ \E reply : call' = Answered(r, reply)
    BY <1>5 DEF Deliver, PowerDNSApplies, RegistrarAccepts, LoseRequest
  <2>3. ASSUME NEW reply PROVE Answered(r, reply).stage = "ready" => Answered(r, reply) = call
    <3>1. CASE call.stage = "sent"
      <4>1. call \in MadeCall
        BY <3>1, CallMade
      <4> QED BY <3>1, <4>1 DEF Answered, MadeCall
    <3> QED BY <3>1 DEF Answered
  <2> QED BY <1>1, <2>1, <2>2, <2>3
<1> QED BY <1>2, <1>3, <1>4, <1>5

\* Starting, blocking, resuming and attesting, foreign keys, the world and
\* time leave the attempts and the counts alone.
LEMMA OthersOnce ==
  ASSUME OnceInv,
         \/ \E kind \in Kinds : Trigger(kind)
         \/ BlockUnknownScheme \/ NoDSProbeFails
         \/ StrayKeyAppears \/ StrayKeyRemoved
         \/ Resume \/ ReconcileSplitSignerTransition
         \/ WorldStep \/ Elapse
  PROVE  Once' /\ ReadyIsOnce'
<1> USE DEF OnceInv
<1>1. sent' = sent /\ call' = call
  BY DEF Trigger, start, BlockUnknownScheme, NoDSProbeFails, StrayKeyAppears,
         StrayKeyRemoved, Resume, ReconcileSplitSignerTransition, transition,
         Persist, bookVars, WorldStep, Elapse
<1>2. wf \in Workflow
  BY DEF TypeOK
<1>3. Attempts(wf') = Attempts(wf)
  <2>1. CASE wf' = wf
    BY <2>1
  <2>2. ASSUME NEW kind \in Kinds, Trigger(kind) PROVE Attempts(wf') = Attempts(wf)
    BY <1>2, <2>2 DEF Trigger, start, Attempts, Workflow
  <2>3. CASE BlockUnknownScheme \/ NoDSProbeFails
    BY <1>2, <2>3 DEF BlockUnknownScheme, NoDSProbeFails, Persist, Attempts, Workflow
  <2>4. CASE Resume \/ ReconcileSplitSignerTransition
    BY <1>2, <2>4 DEF Resume, ReconcileSplitSignerTransition, transition, Persist,
                      Attempts, Workflow
  <2>5. CASE Elapse
    BY <1>2, <2>5 DEF Elapse, Attempts, Workflow
  <2>6. CASE StrayKeyAppears \/ StrayKeyRemoved \/ WorldStep
    BY <2>1, <2>6 DEF StrayKeyAppears, StrayKeyRemoved, WorldStep
  <2> QED BY <2>2, <2>3, <2>4, <2>5, <2>6
<1> QED BY <1>1, <1>3, TriedByAttempts DEF Once, ReadyIsOnce

\* The inductive step of AtMostOnceAlways.
LEMMA OnceNext ==
  ASSUME OnceInv, [Next]_vars
  PROVE  OnceInv'
<1>1. TypeOK'
  BY TypeNext DEF OnceInv
<1>2. Once' /\ ReadyIsOnce'
  <2>1. CASE Controller
    BY <2>1, ControllerHandled, HandledOnce, CallsOnce DEF OnceInv
  <2>2. CASE UNCHANGED vars
    BY <2>2 DEF vars, OnceInv, Once, ReadyIsOnce
  <2> QED BY <2>1, <2>2, CallsOnce, OthersOnce DEF Next
<1> QED BY <1>1, <1>2 DEF OnceInv

\* For every TTL, wait, lag and number of faults: a workflow sends each key
\* creation (adoptOrCreate) and the registrar write (parentReplace) at most
\* once, however often the controller crashes, times out or fails to persist
\* an answer.
THEOREM AtMostOnceAlways == Spec => []AtMostOnce
<1>1. Init => OnceInv
  <2> SUFFICES ASSUME Init PROVE OnceInv
    OBVIOUS
  <2>1. call.stage # "ready" /\ sent = [op \in OnceOps |-> 0]
    BY DEF Init, NoCall
  <2> QED BY <2>1, TypeInit DEF OnceInv, Once, ReadyIsOnce
<1>2. OnceInv /\ [Next]_vars => OnceInv'
  BY OnceNext
<1>3. OnceInv => AtMostOnce
  BY DEF OnceInv, Once, AtMostOnce
<1> QED BY <1>1, <1>2, <1>3, PTL DEF Spec
-----------------------------------------------------------------------------
(* The key slots                                                           *)

\* Deletions end a key, and two kinds of them travel: requests of this workflow
\* or of an earlier one that were given up, and the operator's removal of the
\* foreign key.  SlotsAreSound holds because no deletion that still finds its
\* key names anything but the old key of a workflow that retires it, and no
\* slot names the foreign key.
Creates == {"create_key", "create_zsk"}
Retiring == {"delete_old", "blocked"}
AfterParent == {"wait_parent_remove", "activate_new", "wait_new_signature",
                "deactivate_old", "wait_retire", "delete_old"}

\* PowerDNS numbers its keys and never gives a number out twice.
KeyBook ==
  /\ IsFiniteSet(keys)
  /\ \A k \in keys : k.id \in 1..lastID /\ k.flags = flagsOf(k.made)
  /\ \A k, l \in keys : k.id = l.id => k = l

\* SlotsAreSound, and that the old key is recorded first.
SlotBook ==
  /\ wf.old <= lastID /\ wf.new <= lastID /\ wf.zsk <= lastID
  /\ wf.old = 0 => wf.new = 0 /\ wf.zsk = 0
  /\ wf.new # 0 => wf.new # wf.old /\ wf.new # wf.zsk /\ HasKey(keys, wf.new)
  /\ wf.zsk # 0 => wf.zsk # wf.old /\ HasKey(keys, wf.zsk)
  /\ wf.old # 0 /\ wf.phase \notin Retiring => HasKey(keys, wf.old)

\* A foreign key that was not adopted is in no slot and in no request, and a
\* foreign ZSK never became active.
StrayApart ==
  /\ stray <= lastID
  /\ stray # 0 =>
       /\ stray # wf.old /\ stray # wf.new /\ stray # wf.zsk
       /\ \A r \in inflight : r.key # stray
       /\ \A k \in keys : k.id = stray => k.made # "csk" /\ (k.flags = 256 => ~k.active)

\* The handler that waits for an answer is the one of the persisted phase; an
\* answered creation names a key of its own, an answered deletion is done.
CallFits ==
  /\ call # NoCall => call.key \in {0, wf.old, wf.new, wf.zsk}
  /\ call.op \in Creates => wf.phase = "prepublish" /\ wf.old # 0
  /\ call.op = "update_dnssec" => wf.phase = "parent_remove" /\ wf.ctid
  /\ call.op = "activate" => wf.phase = "activate_new"
  /\ call.op = "deactivate" => wf.phase = "deactivate_old"
  /\ call.op = "delete" => wf.phase = "delete_old" /\ call.key = wf.old
  /\ call.stage = "answered" /\ call.op \in Creates =>
       /\ call.reply \in 1..lastID
       /\ call.reply \notin {wf.old, wf.new, wf.zsk, stray}
       /\ HasKey(keys, call.reply)
  /\ call.stage = "answered" /\ call.op = "delete" => ~HasKey(keys, wf.old)

\* A late request finds its key gone, or belongs to the workflow: a deletion to
\* one that retires its old key and cannot be resumed.
RequestsFit ==
  \A r \in inflight :
    /\ r.key <= lastID
    /\ HasKey(keys, r.key) =>
         /\ r.op = "delete" =>
              r.key = wf.old /\ wf.phase \in Retiring /\ (wf.kind = "split" => wf.ctid)
         /\ r.op = "deactivate" => r.key = wf.old
         /\ r.op = "activate" => \A k \in keys : k.id = r.key => k.flags = 256

\* What the checks of the phases before have established.
PhaseFits(w) ==
  /\ w.phase = "idle" => w.old = 0
  /\ w.phase # "idle" => w.kind # "none"
  /\ w.phase = "activate_new" => w.kind # "ksk"
  /\ w.kind = "split" /\ w.phase \in AfterParent => w.ctid
  /\ w.phase \in AfterParent \cup {"parent_remove"} =>
       \A k \in keys :
         /\ k.id = w.new => k.flags = flagsOf(w.kind)
         /\ k.id = w.zsk /\ w.kind = "split" => k.flags = 256
  /\ w.kind = "zsk" /\ w.old # 0 => \A k \in keys : k.id = w.old => k.flags = 256
  /\ ~DynamicRoles /\ w.kind = "ksk" /\ w.phase = "prepublish" /\ w.old = 0 =>
       \A k \in keys : k.active => k.made # "csk"

\* A key of the zone's own signs the DNSKEY set and no request is under way to
\* stop it: a foreign KSK is never the only one, so it is never taken for the
\* old key.
Signs(k) ==
  /\ k.active /\ k.flags = 257 /\ k.id # stray
  /\ \A r \in inflight : r.op \in {"deactivate", "delete"} => r.key # k.id
SomeSigner == \E k \in keys : Signs(k)

SlotParts ==
  /\ KeyBook /\ SlotBook /\ StrayApart /\ CallFits /\ RequestsFit
  /\ PhaseFits(wf) /\ SomeSigner

SlotInv == OnceInv /\ SlotParts

\* The slots and what else the invariant reads of a workflow.
SameSlots(w) ==
  /\ w.old = wf.old /\ w.new = wf.new /\ w.zsk = wf.zsk /\ w.kind = wf.kind
  /\ wf.ctid => w.ctid

\* The numbers the invariant compares.
LEMMA SlotNumbers ==
  ASSUME TypeOK
  PROVE  /\ wf \in Workflow /\ wf.old \in Nat /\ wf.new \in Nat /\ wf.zsk \in Nat
         /\ lastID \in Nat /\ stray \in Nat
         /\ keys \in SUBSET PowerDNSKey /\ inflight \in SUBSET Request
         /\ \A k \in keys : k.id \in Nat
         /\ \A r \in inflight : r.key \in Nat /\ r.op \in Ops
BY DEF TypeOK, WorldTypeOK, Workflow, Request, PowerDNSKey

\* A step that leaves the keys and what the invariant reads of the workflow
\* alone, and sends nothing new.
LEMMA SlotsAlike ==
  ASSUME SlotInv, UNCHANGED <<keys, lastID, stray>>,
         SameSlots(wf'), wf'.phase = wf.phase,
         \A r \in inflight' : \E s \in inflight : s.op = r.op /\ s.key = r.key
  PROVE  /\ KeyBook' /\ SlotBook' /\ StrayApart' /\ RequestsFit'
         /\ PhaseFits(wf)' /\ SomeSigner'
<1>1. KeyBook' /\ SlotBook'
  BY DEF SlotInv, SlotParts, KeyBook, SlotBook, SameSlots
<1>2. StrayApart'
  BY DEF SlotInv, SlotParts, StrayApart, SameSlots
<1>3. RequestsFit'
  <2> SUFFICES ASSUME NEW r \in inflight'
               PROVE  /\ r.key <= lastID
                      /\ HasKey(keys, r.key) =>
                           /\ r.op = "delete" =>
                                /\ r.key = wf.old /\ wf.phase \in Retiring
                                /\ wf.kind = "split" => wf.ctid
                           /\ r.op = "deactivate" => r.key = wf.old
                           /\ r.op = "activate" =>
                                \A k \in keys : k.id = r.key => k.flags = 256
    BY DEF RequestsFit, SameSlots
  <2>1. PICK s \in inflight : s.op = r.op /\ s.key = r.key
    OBVIOUS
  <2> QED
    BY <2>1 DEF SlotInv, SlotParts, RequestsFit
<1>4. PhaseFits(wf)'
  BY DEF SlotInv, SlotParts, PhaseFits, SameSlots
<1>5. SomeSigner'
  BY DEF SlotInv, SlotParts, SomeSigner, Signs
<1> QED
  BY <1>1, <1>2, <1>3, <1>4, <1>5

\* Without a call nothing is said of it.
LEMMA NoCallFits ==
  ASSUME call' = NoCall
  PROVE  CallFits'
BY DEF CallFits, NoCall, Creates
-----------------------------------------------------------------------------
\* The workflow w may enter this phase: blocked from any, and otherwise along
\* the order of the phases, never back from the retirement.
May(phase, w) ==
  \/ phase = "blocked"
  \/ phase = wf.phase
  \/ phase = "wait_publish" /\ wf.phase \notin Retiring
  \/ /\ wf.phase \in (AfterParent \ {"delete_old"}) \cup {"parent_remove"}
     /\ phase \in AfterParent
     /\ phase = "activate_new" => wf.kind # "ksk"
     /\ wf.kind = "split" => w.ctid

\* The shape of most handlers.
Moves ==
  /\ wf.phase # "idle"
  /\ \E w \in Workflow : SameSlots(w) /\ May(w.phase, w) /\ Persist(w)

\* A transition to a phase that May allows moves on, and so does block.
LEMMA TransitionMoves ==
  ASSUME NEW w \in Workflow, NEW phase \in Phases, NEW wait \in Nat, wf.phase # "idle",
         SameSlots(w), May(phase, w), transition(w, phase, wait)
  PROVE  Moves
<1> DEFINE x == [w EXCEPT !.phase = phase, !.next = wait]
<1>1. x \in Workflow
  BY DEF Workflow
<1>2. SameSlots(x) /\ x.phase = phase /\ x.ctid = w.ctid
  BY DEF Workflow, SameSlots
<1>3. May(x.phase, x)
  BY <1>2 DEF May
<1>4. Persist(x)
  BY DEF transition
<1> HIDE DEF x
<1> QED
  BY <1>1, <1>2, <1>3, <1>4 DEF Moves

\* A workflow may be blocked from every phase but idle.
LEMMA BlockMoves ==
  ASSUME TypeOK, block, wf.phase # "idle"
  PROVE  Moves
<1>1. wf \in Workflow /\ SameSlots(wf) /\ "blocked" \in Phases /\ 0 \in Nat
  BY DEF TypeOK, SameSlots, Phases
<1>2. transition(wf, "blocked", 0)
  BY DEF block, transition
<1>3. May("blocked", wf)
  BY DEF May
<1> QED
  BY <1>1, <1>2, <1>3, TransitionMoves

\* Entering a phase that May allows, with the same slots.
LEMMA MovesFit ==
  ASSUME SlotInv, NEW w \in Workflow, SameSlots(w), May(w.phase, w), wf.phase # "idle"
  PROVE  PhaseFits(w)
<1>1. PhaseFits(wf)
  BY DEF SlotInv, SlotParts
<1>2. w.phase # "idle" /\ w.kind # "none"
  BY <1>1 DEF PhaseFits, May, SameSlots, AfterParent
<1>3. w.phase = "activate_new" => w.kind # "ksk"
  BY <1>1 DEF PhaseFits, May, SameSlots
<1>4. w.kind = "split" /\ w.phase \in AfterParent => w.ctid
  BY <1>1 DEF PhaseFits, May, SameSlots, AfterParent
<1>5. w.phase \in AfterParent \cup {"parent_remove"} =>
        wf.phase \in AfterParent \cup {"parent_remove"}
  BY DEF May, AfterParent
<1>6. w.phase = "prepublish" => wf.phase = "prepublish"
  BY DEF May, AfterParent
<1> QED
  BY <1>1, <1>2, <1>3, <1>4, <1>5, <1>6 DEF PhaseFits, SameSlots

\* The workflow moves on, its slots as they were; a kind is chosen only while
\* there are none.
LEMMA MovedOn ==
  ASSUME SlotInv, call' = NoCall, NEW w \in Workflow,
         w.old = wf.old /\ w.new = wf.new /\ w.zsk = wf.zsk,
         wf.old = 0 \/ (w.kind = wf.kind /\ (wf.ctid => w.ctid)),
         wf.old = 0 \/ (wf.phase \in Retiring => w.phase \in Retiring), PhaseFits(w),
         wf' = w, UNCHANGED <<keys, inflight, lastID, stray>>
  PROVE  SlotParts'
<1>0. TypeOK
  BY DEF SlotInv, OnceInv
<1>1. KeyBook' /\ SlotBook'
  BY DEF SlotInv, SlotParts, KeyBook, SlotBook
<1>2. StrayApart'
  BY DEF SlotInv, SlotParts, StrayApart
<1>3. CallFits'
  BY NoCallFits
<1>4. RequestsFit'
  <2> SUFFICES ASSUME NEW r \in inflight
               PROVE  /\ r.key <= lastID
                      /\ HasKey(keys, r.key) =>
                           /\ r.op = "delete" =>
                                /\ r.key = w.old /\ w.phase \in Retiring
                                /\ w.kind = "split" => w.ctid
                           /\ r.op = "deactivate" => r.key = w.old
                           /\ r.op = "activate" =>
                                \A k \in keys : k.id = r.key => k.flags = 256
    BY DEF RequestsFit
  <2>1. ASSUME wf.old = 0, HasKey(keys, r.key) PROVE r.op \notin {"delete", "deactivate"}
    <3>1. ~HasKey(keys, 0)
      BY DEF SlotInv, SlotParts, KeyBook, HasKey
    <3> QED
      BY <2>1, <3>1 DEF SlotInv, SlotParts, RequestsFit
  <2> QED
    BY <2>1 DEF SlotInv, SlotParts, RequestsFit
<1>5. PhaseFits(wf)'
  BY DEF PhaseFits
<1>6. SomeSigner'
  BY DEF SlotInv, SlotParts, SomeSigner, Signs
<1> QED
  BY <1>1, <1>2, <1>3, <1>4, <1>5, <1>6 DEF SlotParts

\* A handler that moves on keeps the slots sound.
LEMMA MovesKeep ==
  ASSUME SlotInv, call = NoCall, Moves
  PROVE  SlotParts'
<1>1. PICK w \in Workflow : SameSlots(w) /\ May(w.phase, w) /\ Persist(w)
  BY DEF Moves
<1>2. wf.phase \in Retiring => w.phase \in Retiring
  BY <1>1 DEF May, Retiring, AfterParent
<1>3. PhaseFits(w)
  BY <1>1, MovesFit DEF Moves
<1>4. wf' = w /\ UNCHANGED <<keys, call, inflight, lastID, stray>>
  BY <1>1 DEF Persist, worldVars, bookVars
<1> QED
  BY <1>1, <1>2, <1>3, <1>4, MovedOn DEF SameSlots

\* The edits the handlers make before a transition leave the slots alone.
LEMMA SlotEdits ==
  ASSUME TypeOK
  PROVE  /\ SameSlots(wf)
         /\ \A m \in {"existing", "initial"} : SameSlots([wf EXCEPT !.mode = m])
         /\ \A e \in BOOLEAN : SameSlots([wf EXCEPT !.evidence = e])
         /\ SameSlots([wf EXCEPT !.ctid = TRUE])
         /\ SameSlots([wf EXCEPT !.job = "done"])
         /\ SameSlots([wf EXCEPT !.zoneTTL = maxTTL])
         /\ SameSlots([wf EXCEPT !.zoneTTL = maxTTL, !.evidence = TRUE])
         /\ \A e \in BOOLEAN : [wf EXCEPT !.evidence = e].ctid = wf.ctid
         /\ [wf EXCEPT !.zoneTTL = maxTTL].ctid = wf.ctid
         /\ [wf EXCEPT !.zoneTTL = maxTTL, !.evidence = TRUE].ctid = wf.ctid
BY DEF TypeOK, Workflow, SameSlots

\* A handler leaves a phase after the parent's for another.
LEMMA Onward ==
  ASSUME SlotInv, NEW w \in Workflow, SameSlots(w), NEW phase \in AfterParent, NEW wait \in Nat,
         wf.phase \in AfterParent \ {"delete_old"}, phase = "activate_new" => wf.kind # "ksk",
         transition(w, phase, wait)
  PROVE  Moves
<1>1. wf.kind = "split" => w.ctid
  BY DEF SlotInv, SlotParts, PhaseFits, SameSlots
<1>2. May(phase, w)
  BY <1>1 DEF May
<1>3. phase \in Phases /\ wf.phase # "idle"
  BY DEF Phases, AfterParent
<1> QED
  BY <1>2, <1>3, TransitionMoves

\* recordCTID, waitParentReplace, waitNewSignature and waitRetire only move on.
LEMMA RecordCTIDMoves ==
  ASSUME TypeOK, RecordCTID
  PROVE  Moves
<1>1. May("parent_remove", [wf EXCEPT !.ctid = TRUE]) /\ wf.phase # "idle"
  BY DEF RecordCTID, Due, May
<1> QED
  BY <1>1, Edits, SlotEdits, TransitionMoves DEF RecordCTID, Phases

\* waitParentReplace moves on to a phase after the parent.
LEMMA WaitParentMoves ==
  ASSUME SlotInv, waitParentReplace
  PROVE  Moves
<1>0. TypeOK /\ wf.phase = "wait_parent_remove" /\ wf.phase \in AfterParent \ {"delete_old"}
      /\ wf.phase # "idle"
  BY DEF SlotInv, OnceInv, waitParentReplace, Due, AfterParent
<1>1. CASE block
  BY <1>0, <1>1, BlockMoves
<1>2. ASSUME NEW w \in Workflow, SameSlots(w), NEW wait \in Nat,
             transition(w, "wait_parent_remove", wait)
      PROVE  Moves
  BY <1>0, <1>2, Onward DEF AfterParent
<1>3. CASE FollowJob
  BY <1>0, <1>1, <1>2, <1>3, Edits, SlotEdits DEF FollowJob
<1>4. CASE AwaitDS
  <2>1. CASE ~wf.evidence
    BY <1>0, <1>2, <1>4, <2>1, Edits, SlotEdits, WaitsAreNat DEF AwaitDS
  <2>2. ASSUME transition([wf EXCEPT !.evidence = FALSE],
                          IF wf.kind = "split" THEN "activate_new" ELSE "deactivate_old", 0)
        PROVE  Moves
    <3>1. CASE wf.kind = "split"
      BY <1>0, <2>2, <3>1, Edits, SlotEdits, Onward DEF AfterParent
    <3>2. CASE wf.kind # "split"
      BY <1>0, <2>2, <3>2, Edits, SlotEdits, Onward DEF AfterParent
    <3> QED
      BY <3>1, <3>2
  <2> QED
    BY <1>1, <1>4, <2>1, <2>2 DEF AwaitDS
<1> QED
  BY <1>1, <1>3, <1>4 DEF waitParentReplace

\* waitNewSignature stays, or moves on to deactivate_old.
LEMMA WaitSignatureMoves ==
  ASSUME SlotInv, waitNewSignature
  PROVE  Moves
<1>0. TypeOK /\ wf.phase \in AfterParent \ {"delete_old"} /\ wf.phase # "idle"
  BY DEF SlotInv, OnceInv, waitNewSignature, Due, AfterParent
<1>1. CASE block
  BY <1>0, <1>1, BlockMoves
<1>2. ASSUME NEW w \in Workflow, SameSlots(w), NEW wait \in Nat,
             NEW phase \in {"wait_new_signature", "deactivate_old"}, transition(w, phase, wait)
      PROVE  Moves
  BY <1>0, <1>2, Onward DEF AfterParent
<1>3. CASE AttestAgain
  BY <1>0, <1>2, <1>3, Edits, SlotEdits, WaitsAreNat DEF AttestAgain
<1>4. CASE SignatureSeen
  BY <1>0, <1>1, <1>2, <1>3, <1>4, Edits, SlotEdits, WaitsAreNat DEF SignatureSeen
<1> QED
  BY <1>1, <1>4 DEF waitNewSignature

\* waitRetire moves on to delete_old.
LEMMA RetireMoves ==
  ASSUME SlotInv, waitRetire
  PROVE  Moves
<1>0. TypeOK /\ wf.phase \in AfterParent \ {"delete_old"} /\ wf.phase # "idle"
  BY DEF SlotInv, OnceInv, waitRetire, Due, AfterParent
<1>1. "delete_old" \in AfterParent
  BY DEF AfterParent
<1> QED
  BY <1>0, <1>1, BlockMoves, Edits, SlotEdits, Onward DEF waitRetire

ListedAs(x) ==
  [id |-> x.id, keytype |-> Role(keys, x), flags |-> x.flags, active |-> x.active,
   published |-> x.published, algorithm |-> x.algorithm]

\* ListKeys reports the keys with their numbers, flags and states.
LEMMA ListedKey ==
  /\ \A k \in Inventory : \E x \in keys :
       /\ x.id = k.id /\ x.flags = k.flags /\ x.active = k.active
       /\ k.keytype = Role(keys, x)
  /\ \A x \in keys : \E k \in Inventory :
       /\ x.id = k.id /\ x.flags = k.flags /\ x.active = k.active
       /\ k.keytype = Role(keys, x)
<1>1. Inventory = {ListedAs(x) : x \in keys}
  BY DEF Inventory, Listed, ListedAs
<1>2. \A x : /\ ListedAs(x).id = x.id /\ ListedAs(x).flags = x.flags
             /\ ListedAs(x).active = x.active /\ ListedAs(x).keytype = Role(keys, x)
  BY DEF ListedAs
<1> QED
  BY <1>1, <1>2

\* The inventory check of waitPublish proves the roles of the new keys.
LEMMA ValidatedFlags ==
  ASSUME KeyBook, validatePrepublishInventory(Inventory, wf)
  PROVE  \A k \in keys : /\ k.id = wf.new => k.flags = flagsOf(wf.kind)
                         /\ k.id = wf.zsk /\ wf.kind = "split" => k.flags = 256
<1>1. \E new \in Inventory : new.id = wf.new /\ new.flags = flagsOf(wf.kind)
  <2>1. PICK new \in Inventory :
          /\ new.id = wf.new
          /\ validatedKeyRole(new, IF wf.kind = "split" THEN "ksk" ELSE wf.kind,
                              wf.kind = "split")
    BY DEF validatePrepublishInventory
  <2>2. new.flags = flagsOf(IF wf.kind = "split" THEN "ksk" ELSE wf.kind)
    BY <2>1 DEF validatedKeyRole
  <2> QED
    BY <2>1, <2>2 DEF flagsOf
<1>2. wf.kind = "split" => \E z \in Inventory : z.id = wf.zsk /\ z.flags = 256
  <2> SUFFICES ASSUME wf.kind = "split"
               PROVE  \E z \in Inventory : z.id = wf.zsk /\ z.flags = 256
    OBVIOUS
  <2>1. PICK z \in Inventory : z.id = wf.zsk /\ validatedKeyRole(z, "zsk", TRUE)
    BY DEF validatePrepublishInventory
  <2> QED
    BY <2>1 DEF validatedKeyRole, flagsOf
<1> QED
  BY <1>1, <1>2, ListedKey DEF KeyBook

\* waitPublish leaves its phase only with that check.
LEMMA WaitPublishKeeps ==
  ASSUME SlotInv, waitPublish
  PROVE  SlotParts'
<1>0. TypeOK /\ wf.phase = "wait_publish" /\ wf.phase # "idle" /\ call = NoCall
  BY DEF SlotInv, OnceInv, waitPublish, Due
<1>1. CASE block
  BY <1>0, <1>1, BlockMoves, MovesKeep
<1>2. CASE transition([wf EXCEPT !.evidence = TRUE], "wait_publish", PublishWait)
  <2>1. May("wait_publish", [wf EXCEPT !.evidence = TRUE]) /\ "wait_publish" \in Phases
    BY <1>0 DEF May, Phases
  <2>2. Moves
    BY <1>0, <1>2, <2>1, Edits, SlotEdits, WaitsAreNat, TransitionMoves
  <2> QED
    BY <1>0, <2>2, MovesKeep
<1>3. ASSUME validatePrepublishInventory(Inventory, wf),
             NEW phase \in {"activate_new", "parent_remove"},
             phase = "activate_new" => wf.kind = "zsk",
             transition([wf EXCEPT !.evidence = FALSE], phase, 0)
      PROVE  SlotParts'
  <2> DEFINE w == [wf EXCEPT !.evidence = FALSE, !.phase = phase, !.next = 0]
  <2>1. /\ w \in Workflow /\ SameSlots(w) /\ w.phase = phase
        /\ w.old = wf.old /\ w.new = wf.new /\ w.zsk = wf.zsk /\ w.kind = wf.kind
        /\ wf.ctid => w.ctid
    BY <1>0 DEF TypeOK, Workflow, Phases, SameSlots
  <2>2. wf' = w /\ UNCHANGED <<keys, call, inflight, lastID, stray>>
    BY <1>3, <1>0 DEF transition, Persist, worldVars, bookVars, TypeOK, Workflow
  <2> HIDE DEF w
  <2>3. PhaseFits(w)
    <3>1. PhaseFits(wf) /\ KeyBook
      BY DEF SlotInv, SlotParts
    <3>2. \A k \in keys : /\ k.id = wf.new => k.flags = flagsOf(wf.kind)
                          /\ k.id = wf.zsk /\ wf.kind = "split" => k.flags = 256
      BY <1>3, <3>1, ValidatedFlags
    <3> QED
      BY <1>0, <1>3, <2>1, <3>1, <3>2 DEF PhaseFits, AfterParent
  <2> QED
    BY <1>0, <2>1, <2>2, <2>3, MovedOn DEF Retiring
<1> QED
  BY <1>1, <1>2, <1>3 DEF waitPublish

\* Resume goes back only with a split that never came to the parent, so with no
\* deletion under way; the attestation stays in its phase.
LEMMA OperatorKeeps ==
  ASSUME SlotInv, Resume \/ ReconcileSplitSignerTransition \/ NoDSProbeFails
  PROVE  SlotParts'
<1>0. TypeOK /\ wf.phase # "idle" /\ call = NoCall /\ wf \in Workflow
  BY DEF SlotInv, OnceInv, TypeOK, Resume, ReconcileSplitSignerTransition, NoDSProbeFails,
         ReadyForParent, Due
<1>1. CASE Resume
  <2> DEFINE w == [wf EXCEPT !.evidence = FALSE, !.phase = "wait_publish", !.next = 0]
  <2>1. /\ w \in Workflow /\ w.phase = "wait_publish"
        /\ w.old = wf.old /\ w.new = wf.new /\ w.zsk = wf.zsk /\ w.kind = wf.kind
    BY <1>0 DEF Workflow, Phases
  <2>2. wf' = w /\ UNCHANGED <<keys, call, inflight, lastID, stray>>
    BY <1>0, <1>1 DEF Resume, transition, Persist, worldVars, bookVars, Workflow
  <2> HIDE DEF w
  <2>3. wf.kind = "split" /\ ~wf.ctid /\ wf.phase = "blocked"
    BY <1>1 DEF Resume
  <2>4. PhaseFits(w)
    BY <2>1, <2>3 DEF PhaseFits, AfterParent
  <2>5. HasKey(keys, wf.old)
    <3>1. PICK old \in Inventory : old.id = wf.old
      BY <1>1 DEF Resume, validatePrepublishInventory
    <3> QED
      BY <3>1, ListedKey DEF HasKey
  <2>6. KeyBook' /\ SlotBook' /\ StrayApart'
    BY <2>1, <2>2, <2>5 DEF SlotInv, SlotParts, KeyBook, SlotBook, StrayApart
  <2>7. RequestsFit'
    BY <2>1, <2>2, <2>3 DEF SlotInv, SlotParts, RequestsFit
  <2>8. PhaseFits(wf)' /\ SomeSigner'
    BY <2>2, <2>4 DEF SlotInv, SlotParts, PhaseFits, SomeSigner, Signs
  <2> QED
    BY <1>0, <2>2, <2>6, <2>7, <2>8, NoCallFits DEF SlotParts
<1>2. CASE ReconcileSplitSignerTransition
  <2>1. /\ UNCHANGED <<keys, lastID, stray, inflight, call>>
        /\ SameSlots(wf') /\ wf'.phase = wf.phase
    BY <1>0, <1>2 DEF ReconcileSplitSignerTransition, transition, Persist, worldVars, bookVars,
                      SameSlots, Workflow
  <2> QED
    BY <1>0, <2>1, SlotsAlike, NoCallFits DEF SlotParts
<1>3. CASE NoDSProbeFails
  <2> DEFINE w == [wf EXCEPT !.phase = "blocked", !.next = 0]
  <2>1. w \in Workflow /\ SameSlots(w) /\ w.phase = "blocked"
    BY <1>0 DEF Workflow, Phases, SameSlots
  <2>2. wf' = w /\ UNCHANGED <<keys, call, inflight, lastID, stray>>
    BY <1>3 DEF NoDSProbeFails, worldVars
  <2> HIDE DEF w
  <2>3. PhaseFits(w)
    BY <1>0, <2>1, MovesFit DEF May
  <2> QED
    BY <1>0, <2>1, <2>2, <2>3, MovedOn DEF SameSlots, Retiring
<1> QED
  BY <1>1, <1>2, <1>3

\* The key list is finite, so one active key of a role is the only one.
LEMMA OnlyActive ==
  ASSUME KeyBook, NEW typ, exactlyOneActive(Inventory, typ),
         NEW k \in ActiveOf(Inventory, typ), NEW l \in ActiveOf(Inventory, typ)
  PROVE  k = l
<1> DEFINE f == [x \in keys |-> ListedAs(x)]
<1>1. Inventory = {ListedAs(x) : x \in keys}
  BY DEF Inventory, Listed, ListedAs
<1>2. f \in Surjection(keys, Inventory)
  BY <1>1 DEF Surjection
<1> HIDE DEF f
<1>3. IsFiniteSet(Inventory)
  BY <1>2, FS_Surjection DEF KeyBook
<1>4. IsFiniteSet(ActiveOf(Inventory, typ))
  BY <1>3, FS_Subset DEF ActiveOf
<1>5. PICK x : ActiveOf(Inventory, typ) = {x}
  BY <1>4, FS_Singleton DEF exactlyOneActive
<1> QED
  BY <1>5

\* prepublish takes a key of the zone's own for the old one, and for a zsk
\* workflow a ZSK.
LEMMA OldIsOwn ==
  ASSUME SlotInv, wf.phase = "prepublish", wf.old = 0,
         NEW typ, typ = (IF wf.kind = "split" THEN "csk" ELSE wf.kind),
         exactlyOneActive(Inventory, typ), NEW k \in ActiveOf(Inventory, typ)
  PROVE  /\ k.id \in 1..lastID /\ HasKey(keys, k.id) /\ k.id # stray
         /\ wf.kind = "zsk" => \A x \in keys : x.id = k.id => x.flags = 256
<1>0. TypeOK /\ KeyBook /\ StrayApart /\ PhaseFits(wf)
  BY DEF SlotInv, SlotParts, OnceInv
<1>1. k \in Inventory /\ k.active /\ k.keytype = typ
  BY DEF ActiveOf
<1>2. PICK y \in keys : y.id = k.id /\ y.flags = k.flags /\ y.active = k.active
                        /\ k.keytype = Role(keys, y)
  BY <1>1, ListedKey
<1>3. PICK x \in keys : Signs(x)
  BY DEF SlotInv, SlotParts, SomeSigner
<1>4. ASSUME Role(keys, x) = typ PROVE k.id = x.id
  <2>1. PICK l \in Inventory : x.id = l.id /\ x.active = l.active /\ l.keytype = Role(keys, x)
    BY ListedKey
  <2>2. l \in ActiveOf(Inventory, typ)
    BY <1>3, <1>4, <2>1 DEF ActiveOf, Signs
  <2> QED
    BY <1>0, <2>1, <2>2, OnlyActive
<1>5. /\ y \in PowerDNSKey /\ x \in PowerDNSKey
      /\ y.flags = flagsOf(y.made) /\ x.flags = flagsOf(x.made)
      /\ x.flags = 257 /\ x.active /\ x.id # stray
  BY <1>0, <1>3, SlotNumbers DEF KeyBook, Signs
<1>6. wf.kind \in {"zsk", "ksk", "split"}
  BY <1>0 DEF PhaseFits, TypeOK, Workflow
<1>7. y.id # stray /\ (wf.kind = "zsk" => y.flags = 256)
  <2>1. CASE wf.kind = "zsk"
    <3>1. y.flags = 256
      BY <1>1, <1>2, <1>5, <2>1 DEF Role, flagsOf, PowerDNSKey
    <3>2. y.active /\ y.id \in 1..lastID
      BY <1>0, <1>1, <1>2 DEF KeyBook
    <3> QED
      BY <1>0, <3>1, <3>2 DEF StrayApart
  <2>2. CASE wf.kind = "split"
    <3>1. CASE DynamicRoles
      <4>1. ~RolesSplit(keys)
        BY <1>1, <1>2, <2>2, <3>1 DEF Role
      <4>2. Role(keys, x) = "csk"
        BY <3>1, <4>1 DEF Role
      <4> QED
        BY <1>2, <1>4, <1>5, <2>2, <4>2
    <3>2. CASE ~DynamicRoles
      <4>1. y.made = "csk" /\ y.id \in 1..lastID
        BY <1>0, <1>1, <1>2, <2>2, <3>2 DEF Role, KeyBook
      <4> QED
        BY <1>0, <2>2, <4>1 DEF StrayApart
    <3> QED
      BY <3>1, <3>2
  <2>3. CASE wf.kind = "ksk"
    <3>1. CASE DynamicRoles
      <4>1. RolesSplit(keys)
        BY <1>1, <1>2, <2>3, <3>1 DEF Role
      <4>2. Role(keys, x) = "ksk"
        BY <1>5, <3>1, <4>1 DEF Role
      <4> QED
        BY <1>2, <1>4, <1>5, <2>3, <4>2
    <3>2. CASE ~DynamicRoles
      <4>1. x.made # "csk"
        BY <1>0, <1>5, <2>3, <3>2 DEF PhaseFits
      <4>2. x.made = "ksk"
        BY <1>5, <4>1 DEF flagsOf, PowerDNSKey, KeyTypes
      <4>3. Role(keys, x) = "ksk"
        BY <3>2, <4>2 DEF Role
      <4> QED
        BY <1>2, <1>4, <1>5, <2>3, <4>3
    <3> QED
      BY <3>1, <3>2
  <2> QED
    BY <1>6, <2>1, <2>2, <2>3
<1> QED
  BY <1>0, <1>2, <1>7 DEF KeyBook, HasKey

\* prepublish records the old key, a key of the zone's own.
LEMMA RecordOldKeeps ==
  ASSUME SlotInv, call = NoCall, wf.phase = "prepublish", wf.old = 0,
         RecordOld(IF wf.kind = "split" THEN "csk" ELSE wf.kind)
  PROVE  SlotParts'
<1> DEFINE typ == IF wf.kind = "split" THEN "csk" ELSE wf.kind
<1>0. TypeOK /\ wf.phase # "idle"
  BY DEF SlotInv, OnceInv
<1>1. CASE block
  BY <1>0, <1>1, BlockMoves, MovesKeep
<1>2. ASSUME exactlyOneActive(Inventory, typ), NEW k \in ActiveOf(Inventory, typ),
             transition([wf EXCEPT !.old = k.id], "prepublish", 0)
      PROVE  SlotParts'
  <2>1. /\ k.id \in 1..lastID /\ HasKey(keys, k.id) /\ k.id # stray
        /\ wf.kind = "zsk" => \A x \in keys : x.id = k.id => x.flags = 256
    BY <1>2, OldIsOwn
  <2>2. /\ wf'.old = k.id /\ wf'.new = wf.new /\ wf'.zsk = wf.zsk /\ wf'.kind = wf.kind
        /\ wf'.phase = wf.phase /\ wf'.ctid = wf.ctid
        /\ UNCHANGED <<keys, call, inflight, lastID, stray>>
    BY <1>0, <1>2 DEF transition, Persist, worldVars, bookVars, TypeOK, Workflow
  <2>3. wf.new = 0 /\ wf.zsk = 0
    BY DEF SlotInv, SlotParts, SlotBook
  <2> HIDE DEF typ
  <2>4. KeyBook' /\ SlotBook'
    BY <1>0, <2>1, <2>2, <2>3, SlotNumbers DEF SlotInv, SlotParts, KeyBook, SlotBook
  <2>5. StrayApart'
    BY <2>1, <2>2 DEF SlotInv, SlotParts, StrayApart
  <2>6. RequestsFit'
    <3>1. ~HasKey(keys, 0)
      BY DEF SlotInv, SlotParts, KeyBook, HasKey
    <3>2. \A r \in inflight : HasKey(keys, r.key) => r.op \notin {"delete", "deactivate"}
      BY <3>1 DEF SlotInv, SlotParts, RequestsFit
    <3> QED
      BY <2>2, <3>2 DEF SlotInv, SlotParts, RequestsFit
  <2>7. PhaseFits(wf)'
    BY <2>1, <2>2 DEF SlotInv, SlotParts, PhaseFits, AfterParent
  <2>8. SomeSigner'
    BY <2>2 DEF SlotInv, SlotParts, SomeSigner, Signs
  <2> QED
    BY <2>2, <2>4, <2>5, <2>6, <2>7, <2>8, NoCallFits DEF SlotParts
<1> QED
  BY <1>1, <1>2 DEF RecordOld

\* A slot is filled with a key that PowerDNS has and no other slot names; a
\* foreign key that fills it is foreign no longer.
LEMMA FilledKeeps ==
  ASSUME SlotInv, wf.phase = "prepublish", wf.old # 0,
         NEW op \in Creates, NEW id \in 1..lastID, HasKey(keys, id),
         id # wf.old, op = "create_key" => id # wf.zsk, op = "create_zsk" => id # wf.new,
         wf' = With(op, id), call' = NoCall, id # stray' \/ stray' = 0,
         stray' \in {stray, 0}, UNCHANGED <<keys, inflight, lastID>>
  PROVE  SlotParts'
<1>0. TypeOK
  BY DEF SlotInv, OnceInv
<1>1. /\ wf'.old = wf.old /\ wf'.kind = wf.kind /\ wf'.ctid = wf.ctid
      /\ wf'.phase \in {"prepublish", "wait_publish"}
      /\ wf'.new = (IF op = "create_key" THEN id ELSE wf.new)
      /\ wf'.zsk = (IF op = "create_zsk" THEN id ELSE wf.zsk)
  BY <1>0 DEF With, WithNewKey, WithNewZSK, TypeOK, Workflow, Creates
<1>2. KeyBook' /\ SlotBook'
  BY <1>0, <1>1, SlotNumbers DEF SlotInv, SlotParts, KeyBook, SlotBook, Retiring, Creates
<1>3. StrayApart'
  BY <1>0, <1>1, SlotNumbers DEF SlotInv, SlotParts, StrayApart
<1>4. RequestsFit'
  <2>1. \A r \in inflight : HasKey(keys, r.key) => r.op # "delete"
    BY DEF SlotInv, SlotParts, RequestsFit, Retiring
  <2> QED
    BY <1>1, <2>1 DEF SlotInv, SlotParts, RequestsFit
<1>5. PhaseFits(wf)'
  BY <1>1 DEF SlotInv, SlotParts, PhaseFits, AfterParent
<1>6. SomeSigner'
  <2>1. \A k \in keys : Signs(k) => k.id # stray'
    BY DEF SlotInv, SlotParts, KeyBook, Signs
  <2> QED
    BY <2>1 DEF SlotInv, SlotParts, SomeSigner, Signs
<1> QED
  BY <1>2, <1>3, <1>4, <1>5, <1>6, NoCallFits DEF SlotParts

\* An intent is persisted and its request has not left yet.
LEMMA ReadyKeeps ==
  ASSUME SlotInv, NEW w \in Workflow, SameSlots(w), w.phase = wf.phase,
         NEW op \in OnceOps, NEW key \in {0, wf.new}, Issue(w, op, key, "ready"),
         op \in Creates => wf.phase = "prepublish" /\ wf.old # 0,
         op = "update_dnssec" => wf.phase = "parent_remove" /\ wf.ctid
  PROVE  SlotParts'
<1>1. /\ wf' = w /\ inflight' = inflight /\ UNCHANGED <<keys, lastID, stray>>
      /\ call' = [op |-> op, key |-> key, stage |-> "ready", reply |-> 0]
  BY DEF Issue, worldVars
<1>2. CallFits'
  BY <1>1 DEF CallFits, SameSlots, OnceOps, Creates
<1> QED
  BY <1>1, <1>2, SlotsAlike DEF SlotParts

\* A request of the handler leaves at once.
LEMMA SentKeeps ==
  ASSUME SlotInv, NEW op \in {"activate", "deactivate", "delete"},
         NEW key \in {wf.old, wf.new, wf.zsk}, Issue(wf, op, key, "sent"),
         op = "activate" =>
           wf.phase = "activate_new" /\ \A k \in keys : k.id = key => k.flags = 256,
         op = "deactivate" => wf.phase = "deactivate_old" /\ key = wf.old,
         op = "delete" => wf.phase = "delete_old" /\ key = wf.old,
         op # "activate" => \E k \in keys : Signs(k) /\ k.id # key
  PROVE  SlotParts'
<1>0. TypeOK
  BY DEF SlotInv, OnceInv
<1> DEFINE q == Req(op, key)
<1>1. /\ wf' = wf /\ inflight' = inflight \cup {q} /\ UNCHANGED <<keys, lastID, stray>>
      /\ call' = [op |-> op, key |-> key, stage |-> "sent", reply |-> 0]
      /\ q.op = op /\ q.key = key
  BY DEF Issue, worldVars, Req
<1> HIDE DEF q
<1>2. CallFits'
  BY <1>1 DEF CallFits, Creates
<1>3. KeyBook' /\ SlotBook' /\ PhaseFits(wf)'
  BY <1>1 DEF SlotInv, SlotParts, KeyBook, SlotBook, PhaseFits
<1>4. StrayApart'
  BY <1>1 DEF SlotInv, SlotParts, StrayApart
<1>5. RequestsFit'
  <2>1. op = "delete" => wf.phase \in Retiring /\ (wf.kind = "split" => wf.ctid)
    BY DEF SlotInv, SlotParts, PhaseFits, AfterParent, Retiring
  <2>2. key <= lastID
    BY DEF SlotInv, SlotParts, SlotBook
  <2> QED
    BY <1>1, <2>1, <2>2 DEF SlotInv, SlotParts, RequestsFit
<1>6. SomeSigner'
  <2>1. CASE op = "activate"
    BY <1>1, <2>1 DEF SlotInv, SlotParts, SomeSigner, Signs
  <2>2. CASE op # "activate"
    BY <1>1, <2>2 DEF SomeSigner, Signs
  <2> QED
    BY <2>1, <2>2
<1> QED
  BY <1>2, <1>3, <1>4, <1>5, <1>6 DEF SlotParts

\* The workflow completes once PowerDNS has its old key no more.
LEMMA CompleteKeeps ==
  ASSUME SlotInv, wf' = IdleWorkflow, call' = NoCall, ~HasKey(keys, wf.old),
         UNCHANGED <<keys, inflight, lastID, stray>>
  PROVE  SlotParts'
<1>0. TypeOK
  BY DEF SlotInv, OnceInv
<1>1. /\ wf'.old = 0 /\ wf'.new = 0 /\ wf'.zsk = 0 /\ wf'.phase = "idle" /\ wf'.kind = "none"
  BY DEF IdleWorkflow
<1>2. KeyBook' /\ SlotBook' /\ StrayApart'
  BY <1>0, <1>1, SlotNumbers DEF SlotInv, SlotParts, KeyBook, SlotBook, StrayApart
<1>3. RequestsFit'
  <2>1. \A r \in inflight : HasKey(keys, r.key) => r.op \notin {"delete", "deactivate"}
    BY DEF SlotInv, SlotParts, RequestsFit
  <2> QED
    BY <1>1, <2>1 DEF SlotInv, SlotParts, RequestsFit
<1>4. PhaseFits(wf)' /\ SomeSigner'
  BY <1>1 DEF SlotInv, SlotParts, PhaseFits, AfterParent, SomeSigner, Signs
<1> QED
  BY <1>2, <1>3, <1>4, NoCallFits DEF SlotParts

\* prepublish: the old key is recorded, a key adopted, or an attempt recorded.
LEMMA AdoptOrCreateKeeps ==
  ASSUME SlotInv, call = NoCall, wf.phase = "prepublish", wf.old # 0, NEW typ, NEW active,
         NEW op \in Creates, NEW otherSlot,
         otherSlot = (IF op = "create_zsk" THEN wf.new ELSE wf.zsk),
         adoptOrCreate(typ, active, otherSlot, op)
  PROVE  SlotParts'
<1>0. TypeOK /\ KeyBook
  BY DEF SlotInv, SlotParts, OnceInv
<1> DEFINE split == wf.kind = "split"
           candidates == Candidates(Inventory, wf, typ, active, split)
<1>1. ASSUME NEW k \in candidates, Adopt(With(op, k.id), k.id) PROVE SlotParts'
  <2>1. /\ k \in Eligible(Inventory, wf, active) /\ k \in Inventory /\ k.id # wf.old
        /\ ~(otherSlot # 0 /\ k.id = otherSlot)
    BY DEF adoptOrCreate, AdoptRefused, Candidates, Eligible
  <2>2. k.id \in 1..lastID /\ HasKey(keys, k.id)
    BY <1>0, <2>1, ListedKey DEF KeyBook, HasKey
  <2>3. k.id # otherSlot
    BY <1>0, <2>1, <2>2, SlotNumbers
  <2>4. /\ wf' = With(op, k.id) /\ stray' = (IF k.id = stray THEN 0 ELSE stray)
        /\ call' = NoCall /\ UNCHANGED <<keys, inflight, lastID>>
    BY <1>1 DEF Adopt, worldVars
  <2>5. stray' \in {stray, 0} /\ (k.id # stray' \/ stray' = 0)
    BY <2>4
  <2> HIDE DEF candidates
  <2> QED
    BY <2>1, <2>2, <2>3, <2>4, <2>5, FilledKeeps DEF Creates
<1>2. ASSUME Issue(WithAttempt(op), op, 0, "ready") PROVE SlotParts'
  <2>1. /\ WithAttempt(op) \in Workflow /\ SameSlots(WithAttempt(op))
        /\ WithAttempt(op).phase = wf.phase
    BY <1>0 DEF WithAttempt, TypeOK, Workflow, SameSlots
  <2>2. op \in OnceOps /\ op # "update_dnssec"
    BY DEF OnceOps, Creates
  <2> QED
    BY <1>2, <2>1, <2>2, ReadyKeeps
<1> QED
  BY <1>1, <1>2 DEF adoptOrCreate

\* prepublish as a whole.
LEMMA PrepublishKeeps ==
  ASSUME SlotInv, prepublish
  PROVE  SlotParts'
<1>0. TypeOK /\ wf.phase = "prepublish" /\ wf.phase # "idle" /\ call = NoCall
  BY DEF SlotInv, OnceInv, prepublish, Due
<1>1. CASE block
  BY <1>0, <1>1, BlockMoves, MovesKeep
<1>2. CASE wf.old = 0
  BY <1>0, <1>2, RecordOldKeeps DEF prepublish
<1>3. ASSUME NEW w \in Workflow, SameSlots(w), NEW phase \in {"prepublish", "wait_publish"},
             transition(w, phase, 0)
      PROVE  SlotParts'
  <2>1. phase \in Phases /\ May(phase, w)
    BY <1>0 DEF Phases, May, Retiring
  <2> QED
    BY <1>0, <1>3, <2>1, TransitionMoves, MovesKeep
<1>4. CASE ClassifyParent
  BY <1>0, <1>1, <1>3, <1>4, Edits, SlotEdits DEF ClassifyParent
<1>5. CASE transition([wf EXCEPT !.evidence = FALSE], "wait_publish", 0)
  BY <1>0, <1>3, <1>5, Edits, SlotEdits
<1>6. ASSUME NEW typ, NEW active, wf.old # 0,
             \/ adoptOrCreate(typ, active, wf.zsk, "create_key")
             \/ adoptOrCreate(typ, active, wf.new, "create_zsk")
      PROVE  SlotParts'
  BY <1>0, <1>6, AdoptOrCreateKeeps DEF Creates
<1> QED
  BY <1>1, <1>2, <1>4, <1>5, <1>6 DEF prepublish

\* parentReplace
LEMMA ParentReplaceKeeps ==
  ASSUME SlotInv, parentReplace
  PROVE  SlotParts'
<1>0. TypeOK /\ wf.phase = "parent_remove" /\ wf.phase # "idle" /\ call = NoCall /\ wf.ctid
  BY DEF SlotInv, OnceInv, parentReplace, ReadyForParent, Due
<1>1. CASE block
  BY <1>0, <1>1, BlockMoves, MovesKeep
<1>2. CASE transition([wf EXCEPT !.evidence = FALSE], "wait_parent_remove", 0)
  <2>1. /\ May("wait_parent_remove", [wf EXCEPT !.evidence = FALSE])
        /\ "wait_parent_remove" \in Phases
    BY <1>0, SlotEdits DEF May, AfterParent, Phases
  <2> QED
    BY <1>0, <1>2, <2>1, Edits, SlotEdits, TransitionMoves, MovesKeep
<1>3. CASE Issue(WithRegistrarAttempt, "update_dnssec", wf.new, "ready")
  <2>1. 0 \in 0..AmbiguityLimit
    BY WaitAssumptions
  <2>2. /\ WithRegistrarAttempt \in Workflow /\ SameSlots(WithRegistrarAttempt)
        /\ WithRegistrarAttempt.phase = wf.phase
    BY <1>0, <2>1 DEF WithRegistrarAttempt, TypeOK, Workflow, SameSlots
  <2> QED
    BY <1>0, <1>3, <2>2, ReadyKeeps DEF OnceOps, Creates
<1> QED
  BY <1>1, <1>2, <1>3 DEF parentReplace

\* activateNew turns on a ZSK.
LEMMA ActivateKeeps ==
  ASSUME SlotInv, activateNew
  PROVE  SlotParts'
<1>0. TypeOK /\ wf.phase = "activate_new" /\ wf.phase # "idle" /\ call = NoCall
  BY DEF SlotInv, OnceInv, activateNew, Due
<1>1. CASE block
  BY <1>0, <1>1, BlockMoves, MovesKeep
<1>2. CASE transition([wf EXCEPT !.evidence = FALSE], "wait_new_signature", 0)
  <2>1. wf.phase \in AfterParent \ {"delete_old"} /\ "wait_new_signature" \in AfterParent
    BY <1>0 DEF AfterParent
  <2> QED
    BY <1>0, <1>2, <2>1, Edits, SlotEdits, Onward, MovesKeep
<1>3. CASE Issue(wf, "activate", NewSigner, "sent")
  <2>1. NewSigner \in {wf.old, wf.new, wf.zsk}
    BY DEF NewSigner
  <2>2. wf.kind \in {"zsk", "split"}
    BY <1>0 DEF SlotInv, SlotParts, PhaseFits, TypeOK, Workflow
  <2>3. \A k \in keys : k.id = NewSigner => k.flags = 256
    BY <1>0, <2>2 DEF SlotInv, SlotParts, PhaseFits, AfterParent, NewSigner, flagsOf
  <2> QED
    BY <1>0, <1>3, <2>1, <2>3, SentKeeps
<1> QED
  BY <1>1, <1>2, <1>3 DEF activateNew

\* deactivateOld turns off a ZSK, or a key whose replacement signs in its place.
LEMMA DeactivateKeeps ==
  ASSUME SlotInv, deactivateOld
  PROVE  SlotParts'
<1>0. TypeOK /\ wf.phase = "deactivate_old" /\ wf.phase # "idle" /\ call = NoCall
      /\ wf.phase \in AfterParent \ {"delete_old"}
  BY DEF SlotInv, OnceInv, deactivateOld, Due, AfterParent
<1>1. CASE block
  BY <1>0, <1>1, BlockMoves, MovesKeep
<1>2. ASSUME NEW w \in Workflow, SameSlots(w), NEW wait \in Nat,
             NEW phase \in {"wait_new_signature", "deactivate_old", "delete_old", "wait_retire"},
             transition(w, phase, wait)
      PROVE  SlotParts'
  <2>1. phase \in AfterParent
    BY DEF AfterParent
  <2> QED
    BY <1>0, <1>2, <2>1, Onward, MovesKeep
<1>3. CASE AttestAgain
  BY <1>0, <1>2, <1>3, Edits, SlotEdits, WaitsAreNat DEF AttestAgain
<1>4. ASSUME InService(wf.new), Issue(wf, "deactivate", wf.old, "sent")
      PROVE  SlotParts'
  <2>1. \E k \in keys : Signs(k) /\ k.id # wf.old
    <3>1. CASE wf.kind = "zsk"
      <4>1. PICK k \in keys : Signs(k)
        BY DEF SlotInv, SlotParts, SomeSigner
      <4>2. wf.old # 0 => \A x \in keys : x.id = wf.old => x.flags = 256
        BY <3>1 DEF SlotInv, SlotParts, PhaseFits
      <4>3. k.id # 0 /\ k.flags = 257
        BY <4>1 DEF SlotInv, SlotParts, KeyBook, Signs
      <4> QED
        BY <4>1, <4>2, <4>3
    <3>2. CASE wf.kind # "zsk"
      <4>1. PICK k \in keys : k.id = wf.new /\ k.active
        BY <1>4 DEF InService
      <4>2. k.flags = 257 /\ k.id # 0
        BY <1>0, <3>2, <4>1 DEF SlotInv, SlotParts, PhaseFits, KeyBook, flagsOf
      <4>3. wf.new # wf.old /\ wf.new # stray
        BY <1>0, <4>1, <4>2, SlotNumbers DEF SlotInv, SlotParts, SlotBook, StrayApart
      <4>4. \A r \in inflight : r.op \in {"deactivate", "delete"} => r.key # k.id
        BY <4>1, <4>3 DEF SlotInv, SlotParts, RequestsFit, HasKey
      <4> QED
        BY <4>1, <4>2, <4>3, <4>4 DEF Signs
    <3> QED
      BY <3>1, <3>2
  <2> QED
    BY <1>0, <1>4, <2>1, SentKeeps
<1>5. ASSUME InService(wf.new), SwitchOff PROVE SlotParts'
  BY <1>0, <1>2, <1>4, <1>5, Edits, SlotEdits, WaitsAreNat DEF SwitchOff
<1> QED
  BY <1>1, <1>3, <1>5 DEF deactivateOld

\* deleteOld deletes a key that signs nothing any more, or finds it gone.
LEMMA DeleteKeeps ==
  ASSUME SlotInv, deleteOld
  PROVE  SlotParts'
<1>0. TypeOK /\ wf.phase = "delete_old" /\ wf.phase # "idle" /\ call = NoCall
  BY DEF SlotInv, OnceInv, deleteOld, Due
<1>1. CASE block
  BY <1>0, <1>1, BlockMoves, MovesKeep
<1>2. ASSUME ~IsActive(wf.old), Issue(wf, "delete", wf.old, "sent")
      PROVE  SlotParts'
  <2>1. \E k \in keys : Signs(k) /\ k.id # wf.old
    BY <1>2 DEF SlotInv, SlotParts, SomeSigner, Signs, IsActive
  <2> QED
    BY <1>0, <1>2, <2>1, SentKeeps
<1>3. ASSUME ~HasKey(keys, wf.old), complete,
             UNCHANGED <<worldVars, call, inflight, lastID, stray, rotations, faults, strays>>
      PROVE  SlotParts'
  BY <1>0, <1>3, CompleteKeeps DEF complete, worldVars
<1>4. CASE RemoveOld
  <2>1. IsActive(wf.old) => HasKey(keys, wf.old)
    BY DEF IsActive, HasKey
  <2> QED
    BY <1>1, <1>2, <1>3, <1>4, <2>1 DEF RemoveOld
<1> QED
  BY <1>1, <1>4 DEF deleteOld

\* PowerDNS gets a key with a new number, by a request or by the operator.
LEMMA KeyAdded ==
  ASSUME SlotInv, NEW made \in {"ksk", "zsk"},
         keys' = keys \cup {NewKey(lastID + 1, made, made = "ksk")}, lastID' = lastID + 1,
         wf' = wf, inflight' \subseteq inflight, stray' \in {stray, lastID + 1}
  PROVE  /\ KeyBook' /\ SlotBook' /\ StrayApart' /\ RequestsFit'
         /\ PhaseFits(wf)' /\ SomeSigner'
         /\ HasKey(keys', lastID + 1)
         /\ \A id \in 0..lastID : HasKey(keys', id) <=> HasKey(keys, id)
<1>0. TypeOK /\ KeyBook /\ lastID \in Nat
  BY SlotNumbers DEF SlotInv, SlotParts, OnceInv
<1> DEFINE n == NewKey(lastID + 1, made, made = "ksk")
<1>1. /\ n.id = lastID + 1 /\ n.flags = flagsOf(n.made) /\ n.made # "csk"
      /\ n.flags = 256 => ~n.active
  <2>1. n.id = lastID + 1 /\ n.flags = flagsOf(n.made) /\ n.made = made
    BY DEF NewKey
  <2>2. CASE made = "ksk"
    BY <2>1, <2>2 DEF flagsOf
  <2>3. CASE made = "zsk"
    <3>1. n = NewKey(lastID + 1, made, FALSE)
      BY <2>3
    <3>2. ~n.active
      BY <3>1 DEF NewKey
    <3> QED
      BY <2>1, <2>3, <3>2
  <2> QED
    BY <2>1, <2>2, <2>3
<1>2. keys' = keys \cup {n}
  OBVIOUS
<1> HIDE DEF n
<1>3. \A id \in 0..lastID : HasKey(keys', id) <=> HasKey(keys, id)
  BY <1>0, <1>1, <1>2 DEF HasKey
<1>4. HasKey(keys', lastID + 1)
  BY <1>1, <1>2 DEF HasKey
<1>5. KeyBook'
  <2>1. IsFiniteSet(keys')
    BY <1>0, <1>2, FS_AddElement DEF KeyBook
  <2> QED
    BY <1>0, <1>1, <1>2, <2>1 DEF KeyBook
<1>6. wf.old \in 0..lastID /\ wf.new \in 0..lastID /\ wf.zsk \in 0..lastID
  BY <1>0, SlotNumbers DEF SlotInv, SlotParts, SlotBook
<1>7. SlotBook'
  <2>1. /\ HasKey(keys', wf.old) <=> HasKey(keys, wf.old)
        /\ HasKey(keys', wf.new) <=> HasKey(keys, wf.new)
        /\ HasKey(keys', wf.zsk) <=> HasKey(keys, wf.zsk)
    BY <1>3, <1>6
  <2>2. wf.old <= lastID + 1 /\ wf.new <= lastID + 1 /\ wf.zsk <= lastID + 1
    BY <1>0, <1>6
  <2> QED
    BY <2>1, <2>2 DEF SlotInv, SlotParts, SlotBook
<1>8. \A r \in inflight : r.key \in 0..lastID
  BY <1>0, SlotNumbers DEF SlotInv, SlotParts, RequestsFit
<1>9. StrayApart'
  <2>1. CASE stray' = stray
    <3>1. stray \in 0..lastID
      BY <1>0, SlotNumbers DEF SlotInv, SlotParts, StrayApart
    <3> QED
      BY <1>0, <1>1, <1>2, <2>1, <3>1 DEF SlotInv, SlotParts, StrayApart
  <2>2. CASE stray' = lastID + 1
    BY <1>0, <1>1, <1>2, <1>6, <1>8, <2>2 DEF KeyBook, StrayApart
  <2> QED
    BY <2>1, <2>2
<1>10. RequestsFit'
  <2> SUFFICES ASSUME NEW r \in inflight
               PROVE  /\ r.key <= lastID + 1
                      /\ HasKey(keys', r.key) =>
                           /\ r.op = "delete" =>
                                /\ r.key = wf.old /\ wf.phase \in Retiring
                                /\ wf.kind = "split" => wf.ctid
                           /\ r.op = "deactivate" => r.key = wf.old
                           /\ r.op = "activate" =>
                                \A k \in keys' : k.id = r.key => k.flags = 256
    <3>1. inflight' \subseteq inflight /\ lastID' = lastID + 1 /\ wf' = wf
      OBVIOUS
    <3> QED
      BY <3>1 DEF RequestsFit
  <2>1. r.key \in 0..lastID /\ r.key <= lastID + 1
    BY <1>0, <1>8
  <2>2. HasKey(keys', r.key) <=> HasKey(keys, r.key)
    BY <1>3, <2>1
  <2>3. \A k \in keys' : k.id = r.key => k \in keys
    BY <1>0, <1>1, <1>2, <2>1
  <2> QED
    BY <2>1, <2>2, <2>3 DEF SlotInv, SlotParts, RequestsFit
<1>11. PhaseFits(wf)'
  <2>1. \A k \in keys' : k.id \in {wf.old, wf.new, wf.zsk} => k \in keys
    BY <1>0, <1>1, <1>2, <1>6
  <2>2. \A k \in keys' : k \in keys \/ k.made # "csk"
    BY <1>1, <1>2
  <2> QED
    BY <2>1, <2>2 DEF SlotInv, SlotParts, PhaseFits
<1>12. SomeSigner'
  <2>1. PICK k \in keys : Signs(k)
    BY DEF SlotInv, SlotParts, SomeSigner
  <2>2. k.id # stray'
    BY <1>0, <2>1 DEF KeyBook, Signs
  <2> QED
    BY <1>2, <2>1, <2>2 DEF SomeSigner, Signs
<1> QED
  BY <1>3, <1>4, <1>5, <1>7, <1>9, <1>10, <1>11, <1>12

\* PowerDNS loses the old key of a workflow that retires it, or the foreign
\* key.
LEMMA KeyDropped ==
  ASSUME SlotInv, NEW id, keys' = {k \in keys : k.id # id}, lastID' = lastID,
         wf' = wf, inflight' \subseteq inflight, stray' \in {stray, 0},
         HasKey(keys, id) => \/ id = wf.old /\ wf.phase \in Retiring
                             \/ id = stray /\ stray # 0,
         \A k \in keys : Signs(k) => k.id # id
  PROVE  /\ KeyBook' /\ SlotBook' /\ StrayApart' /\ RequestsFit'
         /\ PhaseFits(wf)' /\ SomeSigner'
         /\ \A i : HasKey(keys', i) <=> HasKey(keys, i) /\ i # id
<1>0. TypeOK /\ KeyBook
  BY DEF SlotInv, SlotParts, OnceInv
<1>1. \A i : HasKey(keys', i) <=> HasKey(keys, i) /\ i # id
  BY DEF HasKey
<1>2. KeyBook'
  <2>1. IsFiniteSet(keys')
    BY <1>0, FS_Subset DEF KeyBook
  <2> QED
    BY <1>0, <2>1 DEF KeyBook
<1>3. SlotBook'
  BY <1>0, <1>1 DEF SlotInv, SlotParts, SlotBook, StrayApart
<1>4. StrayApart'
  BY <1>0, SlotNumbers DEF SlotInv, SlotParts, StrayApart
<1>5. RequestsFit'
  BY <1>1 DEF SlotInv, SlotParts, RequestsFit
<1>6. PhaseFits(wf)'
  BY DEF SlotInv, SlotParts, PhaseFits
<1>7. SomeSigner'
  BY <1>0 DEF SlotInv, SlotParts, SomeSigner, Signs, KeyBook
<1> QED
  BY <1>1, <1>2, <1>3, <1>4, <1>5, <1>6, <1>7

Switched(id, b) == {IF k.id = id THEN [k EXCEPT !.active = b] ELSE k : k \in keys}

\* PowerDNS turns a ZSK on, or a key off that another signs in place of.
LEMMA KeySwitched ==
  ASSUME SlotInv, NEW id, NEW b \in BOOLEAN, keys' = Switched(id, b), lastID' = lastID,
         wf' = wf, inflight' \subseteq inflight, stray' = stray, stray # 0 => id # stray,
         b => \A k \in keys : k.id = id => k.flags = 256,
         ~b => \A k \in keys : Signs(k) => k.id # id
  PROVE  /\ KeyBook' /\ SlotBook' /\ StrayApart' /\ RequestsFit'
         /\ PhaseFits(wf)' /\ SomeSigner'
         /\ \A i : HasKey(keys', i) <=> HasKey(keys, i)
<1>0. TypeOK /\ KeyBook /\ keys \in SUBSET PowerDNSKey
  BY SlotNumbers DEF SlotInv, SlotParts, OnceInv
<1> DEFINE f(k) == IF k.id = id THEN [k EXCEPT !.active = b] ELSE k
<1>1. \A k \in keys : /\ f(k).id = k.id /\ f(k).made = k.made /\ f(k).flags = k.flags
                      /\ f(k).active = (IF k.id = id THEN b ELSE k.active)
                      /\ k.id # id => f(k) = k
  BY <1>0 DEF PowerDNSKey
<1>2. keys' = {f(k) : k \in keys}
  BY DEF Switched
<1>f. IsFiniteSet(keys')
  <2> DEFINE g == [k \in keys |-> f(k)]
  <2>1. g \in Surjection(keys, keys')
    BY <1>2 DEF Surjection
  <2> HIDE DEF g
  <2> QED
    BY <1>0, <2>1, FS_Surjection DEF KeyBook
<1> HIDE DEF f
<1>3. \A i : HasKey(keys', i) <=> HasKey(keys, i)
  BY <1>1, <1>2 DEF HasKey
<1>4. KeyBook'
  <2>1. \A k \in keys' : k.id \in 1..lastID /\ k.flags = flagsOf(k.made)
    BY <1>0, <1>1, <1>2 DEF KeyBook
  <2>2. \A k, l \in keys' : k.id = l.id => k = l
    BY <1>0, <1>1, <1>2 DEF KeyBook
  <2> QED
    BY <1>f, <2>1, <2>2 DEF KeyBook
<1>5. SlotBook'
  BY <1>3 DEF SlotInv, SlotParts, SlotBook
<1>6. StrayApart'
  <2>1. stray # 0 => \A k \in keys' : k.id = stray => k \in keys
    BY <1>1, <1>2
  <2> QED
    BY <2>1 DEF SlotInv, SlotParts, StrayApart
<1>7. \A k \in keys' : \E x \in keys : x.id = k.id /\ x.flags = k.flags /\ x.made = k.made
  BY <1>1, <1>2
<1>8. RequestsFit'
  <2>1. \A i : (\A k \in keys : k.id = i => k.flags = 256)
                 => (\A k \in keys' : k.id = i => k.flags = 256)
    BY <1>7
  <2> QED
    BY <1>3, <2>1 DEF SlotInv, SlotParts, RequestsFit
<1>9. PhaseFits(wf)'
  <2>1. \A k \in keys' : k.active => k.made # "csk" \/ \E x \in keys : x.active /\ x.made = "csk"
    <3> SUFFICES ASSUME NEW k \in keys, f(k).active
                 PROVE  f(k).made # "csk" \/ \E x \in keys : x.active /\ x.made = "csk"
      BY <1>2
    <3>1. CASE k.id # id
      BY <1>1, <3>1
    <3>2. CASE k.id = id
      <4>1. k.flags = 256
        BY <1>1, <3>2
      <4>2. k.made # "csk"
        BY <1>0, <4>1 DEF KeyBook, flagsOf
      <4> QED
        BY <1>1, <4>2
    <3> QED
      BY <3>1, <3>2
  <2> QED
    BY <1>7, <2>1 DEF SlotInv, SlotParts, PhaseFits
<1>10. SomeSigner'
  <2>1. PICK k \in keys : Signs(k)
    BY DEF SlotInv, SlotParts, SomeSigner
  <2>2. f(k) \in keys' /\ f(k).id = k.id /\ f(k).flags = k.flags /\ f(k).active
    BY <1>1, <1>2, <2>1 DEF Signs
  <2> QED
    BY <2>1, <2>2 DEF SomeSigner, Signs
<1> QED
  BY <1>3, <1>4, <1>5, <1>6, <1>8, <1>9, <1>10
-----------------------------------------------------------------------------
\* A call is told of its own request only: an answered creation names a key
\* that no slot has, and what happens to other keys does not touch it.
LEMMA AnsweredFits ==
  ASSUME SlotInv, NEW r, NEW reply, call' \in {call, Answered(r, reply)},
         SameSlots(wf'), wf'.phase = wf.phase,
         lastID' \in {lastID, lastID + 1}, stray' \in {stray, 0, lastID + 1},
         \A id \in (1..lastID) \ {wf.old, stray} : HasKey(keys, id) => HasKey(keys', id),
         ~HasKey(keys, wf.old) => ~HasKey(keys', wf.old),
         call' # call /\ r.op \in Creates =>
           /\ reply = lastID + 1 /\ lastID' = lastID + 1 /\ stray' = stray
           /\ HasKey(keys', lastID + 1),
         call' # call /\ r.op = "delete" => ~HasKey(keys', r.key)
  PROVE  CallFits'
<1>0. TypeOK /\ lastID \in Nat /\ CallFits
  BY SlotNumbers DEF SlotInv, SlotParts, OnceInv
<1>1. wf'.old = wf.old /\ wf'.new = wf.new /\ wf'.zsk = wf.zsk /\ (wf.ctid => wf'.ctid)
  BY DEF SameSlots
<1>2. CASE call' = call
  <2>1. call.stage = "answered" /\ call.op \in Creates =>
          /\ call.reply \in 1..lastID' /\ call.reply # stray'
          /\ HasKey(keys', call.reply)
    BY <1>0 DEF CallFits
  <2> QED
    BY <1>0, <1>1, <1>2, <2>1 DEF CallFits
<1>3. CASE call' # call
  <2>1. call' = [call EXCEPT !.stage = "answered", !.reply = reply]
        /\ call.stage = "sent" /\ call.op = r.op /\ call.key = r.key
    BY <1>3 DEF Answered
  <2>2. call \in MadeCall
    BY <1>0, <2>1, CallMade
  <2>3. call'.op = call.op /\ call'.key = call.key /\ call'.reply = reply
        /\ call'.stage = "answered" /\ call # NoCall
    BY <2>1, <2>2 DEF MadeCall, NoCall
  <2>4. wf.old <= lastID /\ wf.new <= lastID /\ wf.zsk <= lastID /\ stray <= lastID
    BY DEF SlotInv, SlotParts, SlotBook, StrayApart
  <2>5. lastID + 1 \notin {wf.old, wf.new, wf.zsk, stray}
    BY <1>0, <2>4, SlotNumbers
  <2>6. call.op \in Creates =>
          /\ reply \in 1..lastID' /\ reply \notin {wf.old, wf.new, wf.zsk, stray'}
          /\ HasKey(keys', reply)
    BY <1>0, <1>3, <2>1, <2>5
  <2>7. call.op = "delete" => ~HasKey(keys', wf.old)
    BY <1>0, <1>3, <2>1 DEF CallFits
  <2> QED
    BY <1>0, <1>1, <2>3, <2>6, <2>7 DEF CallFits
<1> QED
  BY <1>2, <1>3

\* A step that changes neither the keys nor the call nor the phase.
LEMMA AlikeKeeps ==
  ASSUME SlotInv, UNCHANGED <<keys, call, lastID, stray>>,
         SameSlots(wf'), wf'.phase = wf.phase,
         \A r \in inflight' : \E s \in inflight : s.op = r.op /\ s.key = r.key
  PROVE  SlotParts'
<1>1. CallFits'
  BY AnsweredFits
<1> QED
  BY <1>1, SlotsAlike DEF SlotParts

\* PowerDNS applies a request: a creation adds a key, a deletion finds the old
\* key of a workflow that retires it or nothing, a switch leaves a signer.
LEMMA PowerDNSKeeps ==
  ASSUME SlotInv, NEW r \in inflight, PowerDNSApplies(r)
  PROVE  SlotParts'
<1> DEFINE reply == IF r.op \in Creates THEN lastID + 1 ELSE 0
<1>0. TypeOK /\ lastID \in Nat /\ r \in Request
  BY SlotNumbers DEF SlotInv, OnceInv
<1>1. /\ keys' = KeysAfter(r) /\ wf' = wf /\ stray' = stray
      /\ inflight' \subseteq inflight
      /\ call' = Answered(r, reply) /\ SameSlots(wf')
      /\ lastID' = (IF r.op \in Creates THEN lastID + 1 ELSE lastID)
      /\ r.op # "update_dnssec"
  BY DEF PowerDNSApplies, Serve, Creates, SameSlots
<1>2. r.op \in Creates \cup {"activate", "deactivate", "delete"} /\ r.made \in {"ksk", "zsk"}
  BY <1>0, <1>1 DEF Request, Ops, OnceOps, Creates
<1>3. wf.old \in 0..lastID
  BY <1>0, SlotNumbers DEF SlotInv, SlotParts, SlotBook
<1>4. /\ HasKey(keys, r.key) /\ r.op = "delete" => r.key = wf.old /\ wf.phase \in Retiring
      /\ r.op = "activate" => \A k \in keys : k.id = r.key => k.flags = 256
      /\ stray # 0 => r.key # stray
      /\ r.op \in {"deactivate", "delete"} => \A k \in keys : Signs(k) => k.id # r.key
  BY DEF SlotInv, SlotParts, RequestsFit, StrayApart, HasKey, Signs
<1> HIDE DEF reply
<1>5. CASE r.op \in Creates
  <2>1. keys' = keys \cup {NewKey(lastID + 1, r.made, r.made = "ksk")}
    BY <1>1, <1>5 DEF KeysAfter, Creates
  <2>2. /\ KeyBook' /\ SlotBook' /\ StrayApart' /\ RequestsFit'
        /\ PhaseFits(wf)' /\ SomeSigner'
        /\ HasKey(keys', lastID + 1)
        /\ \A id \in 0..lastID : HasKey(keys', id) <=> HasKey(keys, id)
    BY <1>1, <1>2, <1>5, <2>1, KeyAdded
  <2>3. CallFits'
    BY <1>0, <1>1, <1>3, <1>5, <2>2, AnsweredFits DEF reply, Creates
  <2> QED
    BY <2>2, <2>3 DEF SlotParts
<1>6. CASE r.op = "delete"
  <2>1. keys' = {k \in keys : k.id # r.key} /\ lastID' = lastID
    BY <1>1, <1>6 DEF KeysAfter, Creates
  <2>2. /\ KeyBook' /\ SlotBook' /\ StrayApart' /\ RequestsFit'
        /\ PhaseFits(wf)' /\ SomeSigner'
        /\ \A i : HasKey(keys', i) <=> HasKey(keys, i) /\ i # r.key
    BY <1>1, <1>4, <1>6, <2>1, KeyDropped
  <2>3. CallFits'
    BY <1>1, <1>4, <1>6, <2>1, <2>2, AnsweredFits DEF Creates
  <2> QED
    BY <2>2, <2>3 DEF SlotParts
<1>7. CASE r.op \in {"activate", "deactivate"}
  <2> DEFINE b == r.op = "activate"
  <2>1. keys' = Switched(r.key, b) /\ lastID' = lastID /\ b \in BOOLEAN
    BY <1>1, <1>7 DEF KeysAfter, Creates, Switched
  <2>2. /\ b => \A k \in keys : k.id = r.key => k.flags = 256
        /\ ~b => \A k \in keys : Signs(k) => k.id # r.key
    BY <1>4, <1>7
  <2> HIDE DEF b
  <2>3. /\ KeyBook' /\ SlotBook' /\ StrayApart' /\ RequestsFit'
        /\ PhaseFits(wf)' /\ SomeSigner'
        /\ \A i : HasKey(keys', i) <=> HasKey(keys, i)
    BY <1>1, <1>4, <2>1, <2>2, KeySwitched
  <2>4. CallFits'
    BY <1>1, <1>7, <2>1, <2>3, AnsweredFits DEF Creates
  <2> QED
    BY <2>3, <2>4 DEF SlotParts
<1> QED
  BY <1>2, <1>5, <1>6, <1>7

\* The foreign key comes and goes.
LEMMA StraysKeep ==
  ASSUME SlotInv, StrayKeyAppears \/ StrayKeyRemoved
  PROVE  SlotParts'
<1>0. TypeOK /\ lastID \in Nat
  BY SlotNumbers DEF SlotInv, OnceInv
<1>1. wf' = wf /\ call' = call /\ inflight' = inflight /\ SameSlots(wf')
  BY DEF StrayKeyAppears, StrayKeyRemoved, SameSlots
<1>2. wf.old \in 0..lastID
  BY <1>0, SlotNumbers DEF SlotInv, SlotParts, SlotBook
<1>3. CASE StrayKeyAppears
  <2>1. PICK made \in {"zsk", "ksk"} :
          keys' = keys \cup {NewKey(lastID + 1, made, made = "ksk")}
    BY <1>3 DEF StrayKeyAppears, Serve
  <2>2. lastID' = lastID + 1 /\ stray' = lastID + 1
    BY <1>3 DEF StrayKeyAppears
  <2>3. /\ KeyBook' /\ SlotBook' /\ StrayApart' /\ RequestsFit'
        /\ PhaseFits(wf)' /\ SomeSigner'
        /\ \A id \in 0..lastID : HasKey(keys', id) <=> HasKey(keys, id)
    BY <1>1, <2>1, <2>2, KeyAdded
  <2>4. CallFits'
    BY <1>0, <1>1, <1>2, <2>2, <2>3, AnsweredFits
  <2> QED
    BY <2>3, <2>4 DEF SlotParts
<1>4. CASE StrayKeyRemoved
  <2>1. keys' = {k \in keys : k.id # stray} /\ stray # 0 /\ stray' = 0 /\ lastID' = lastID
    BY <1>4 DEF StrayKeyRemoved, Serve
  <2>2. \A k \in keys : Signs(k) => k.id # stray
    BY DEF Signs
  <2>3. /\ KeyBook' /\ SlotBook' /\ StrayApart' /\ RequestsFit'
        /\ PhaseFits(wf)' /\ SomeSigner'
        /\ \A i : HasKey(keys', i) <=> HasKey(keys, i) /\ i # stray
    BY <1>1, <2>1, <2>2, KeyDropped
  <2>4. CallFits'
    BY <1>1, <2>1, <2>3, AnsweredFits
  <2> QED
    BY <2>3, <2>4 DEF SlotParts
<1> QED
  BY <1>3, <1>4

\* A workflow starts, or is blocked, from an idle record, whose slots are empty.
LEMMA StartKeeps ==
  ASSUME SlotInv, BlockUnknownScheme \/ \E kind \in Kinds : Trigger(kind)
  PROVE  SlotParts'
<1>0. TypeOK /\ wf \in Workflow /\ call' = NoCall /\ wf.phase = "idle" /\ wf.old = 0
  BY DEF SlotInv, SlotParts, PhaseFits, OnceInv, TypeOK, BlockUnknownScheme, Trigger, start,
         Persist
<1>1. ASSUME NEW kind \in {"zsk", "ksk", "split"}, NEW phase \in {"prepublish", "blocked"},
             NEW next \in Nat, wf' = [wf EXCEPT !.kind = kind, !.phase = phase, !.next = next],
             phase = "prepublish" /\ kind = "ksk" => keyScheme(Inventory) = "split",
             UNCHANGED <<keys, inflight, lastID, stray>>
      PROVE  SlotParts'
  <2> DEFINE w == [wf EXCEPT !.kind = kind, !.phase = phase, !.next = next]
  <2>1. /\ w \in Workflow /\ w.old = wf.old /\ w.new = wf.new /\ w.zsk = wf.zsk
        /\ w.phase = phase /\ w.kind = kind
    BY <1>0 DEF Workflow, Phases
  <2>2. wf' = w
    BY <1>1
  <2> HIDE DEF w
  <2>3. ASSUME ~DynamicRoles, kind = "ksk", phase = "prepublish"
        PROVE  \A k \in keys : k.active => k.made # "csk"
    <3>1. ActiveOf(Inventory, "csk") = {}
      BY <1>1, <2>3 DEF keyScheme
    <3>2. \A k \in keys : Role(keys, k) = k.made
      BY <2>3 DEF Role
    <3> QED
      BY <3>1, <3>2, ListedKey DEF ActiveOf
  <2>4. PhaseFits(w)
    BY <1>0, <2>1, <2>3 DEF PhaseFits, AfterParent
  <2> QED
    BY <1>0, <1>1, <2>1, <2>2, <2>4, MovedOn
<1>2. CASE BlockUnknownScheme
  <2>1. [wf EXCEPT !.kind = "zsk", !.phase = "blocked"]
          = [wf EXCEPT !.kind = "zsk", !.phase = "blocked", !.next = wf.next]
    BY <1>0 DEF Workflow
  <2>2. wf.next \in Nat
    BY <1>0 DEF Workflow
  <2> QED
    BY <1>1, <1>2, <2>1, <2>2 DEF BlockUnknownScheme, Persist, worldVars, bookVars
<1>3. ASSUME NEW kind \in Kinds, Trigger(kind) PROVE SlotParts'
  <2>1. kind \in {"zsk", "ksk", "split"}
    BY RotationAssumptions
  <2> QED
    BY <1>1, <1>3, <2>1 DEF Trigger, start, worldVars
<1> QED
  BY <1>2, <1>3

\* The request of a recorded attempt leaves; it takes no key away.
LEMMA SendKeeps ==
  ASSUME SlotInv, Send
  PROVE  SlotParts'
<1>0. TypeOK /\ call.stage = "ready" /\ call.op \in OnceOps /\ call \in MadeCall
  BY CallMade DEF SlotInv, OnceInv, ReadyIsOnce, Send
<1> DEFINE q == Req(call.op, call.key)
<1>1. /\ wf' = wf /\ inflight' = inflight \cup {q} /\ UNCHANGED <<keys, lastID, stray>>
      /\ q.op = call.op /\ q.key = call.key
  BY DEF Send, worldVars, Req
<1>2. call'.op = call.op /\ call'.key = call.key /\ call'.stage = "sent"
  BY <1>0 DEF Send, MadeCall
<1> HIDE DEF q
<1>3. call # NoCall
  BY <1>0 DEF NoCall
<1>4. call.key \in {0, wf.old, wf.new, wf.zsk}
  BY <1>3 DEF SlotInv, SlotParts, CallFits
<1>5. CallFits'
  BY <1>1, <1>2, <1>3 DEF SlotInv, SlotParts, CallFits
<1>6. KeyBook' /\ SlotBook' /\ PhaseFits(wf)'
  BY <1>1 DEF SlotInv, SlotParts, KeyBook, SlotBook, PhaseFits
<1>7. StrayApart'
  BY <1>1, <1>4 DEF SlotInv, SlotParts, StrayApart
<1>8. RequestsFit'
  <2>1. q.op \notin {"delete", "deactivate", "activate"}
    BY <1>0, <1>1 DEF OnceOps
  <2>2. q.key <= lastID
    BY <1>0, <1>1, <1>4, SlotNumbers DEF SlotInv, SlotParts, SlotBook
  <2> QED
    BY <1>1, <2>1, <2>2 DEF SlotInv, SlotParts, RequestsFit
<1>9. SomeSigner'
  <2>1. q.op \notin {"deactivate", "delete"}
    BY <1>0, <1>1 DEF OnceOps
  <2> QED
    BY <1>1, <2>1 DEF SlotInv, SlotParts, SomeSigner, Signs
<1> QED
  BY <1>5, <1>6, <1>7, <1>8, <1>9 DEF SlotParts

\* A handler persists its last transition with the answer: a created key gets
\* its slot, a deleted one ends the workflow.
LEMMA AnswerKeeps ==
  ASSUME SlotInv, PersistAnswer
  PROVE  SlotParts'
<1>0. TypeOK /\ call.stage = "answered" /\ call \in MadeCall /\ call' = NoCall
  BY CallMade DEF SlotInv, OnceInv, PersistAnswer
<1>1. UNCHANGED <<keys, inflight, lastID, stray>>
  BY DEF PersistAnswer, worldVars
<1>2. CallFits /\ wf \in Workflow
  BY <1>0 DEF SlotInv, SlotParts, TypeOK
<1>3. CASE call.op = "delete"
  BY <1>0, <1>1, <1>2, <1>3, CompleteKeeps DEF PersistAnswer, complete, CallFits
<1>4. CASE call.op \in Creates
  <2>1. wf' = With(call.op, call.reply)
    BY <1>4 DEF PersistAnswer, AfterAnswer, Creates
  <2>2. /\ wf.phase = "prepublish" /\ wf.old # 0 /\ call.reply \in 1..lastID
        /\ call.reply \notin {wf.old, wf.new, wf.zsk, stray} /\ HasKey(keys, call.reply)
    BY <1>0, <1>2, <1>4 DEF CallFits
  <2> QED
    BY <1>0, <1>1, <1>4, <2>1, <2>2, FilledKeeps
<1>5. CASE call.op \in {"update_dnssec", "activate", "deactivate"}
  <2> DEFINE w == AfterAnswer
  <2>1. w \in Workflow /\ wf' = w
    BY <1>0, <1>5, AfterAnswerType DEF MadeCall, PersistAnswer
  <2>2. SameSlots(w) /\ w.ctid = wf.ctid
    BY <1>2, <1>5 DEF AfterAnswer, SameSlots, Workflow
  <2>3. /\ w.phase \in AfterParent /\ w.phase # "activate_new"
        /\ wf.phase \in (AfterParent \ {"delete_old"}) \cup {"parent_remove"}
    <3>1. /\ call.op = "update_dnssec" => w.phase = "wait_parent_remove"
          /\ call.op = "activate" => w.phase = "wait_new_signature"
          /\ call.op = "deactivate" => w.phase \in {"delete_old", "wait_retire"}
      BY <1>2 DEF AfterAnswer, Workflow
    <3> HIDE DEF w
    <3> QED
      BY <1>2, <1>5, <3>1 DEF CallFits, AfterParent
  <2> HIDE DEF w
  <2>4. wf.kind = "split" => w.ctid
    BY <1>2, <1>5, <2>2 DEF SlotInv, SlotParts, PhaseFits, CallFits, AfterParent
  <2>5. May(w.phase, w) /\ wf.phase # "idle" /\ wf.phase \notin Retiring
    BY <2>3, <2>4 DEF May, AfterParent, Retiring
  <2>6. PhaseFits(w)
    BY <2>1, <2>2, <2>5, MovesFit
  <2> QED
    BY <1>0, <1>1, <2>1, <2>2, <2>5, <2>6, MovedOn DEF SameSlots
<1> QED
  BY <1>0, <1>3, <1>4, <1>5 DEF MadeCall, Ops, OnceOps, Creates

\* The rest touches neither the keys nor the slots: lost and given up calls, the
\* registrar, the servers and time.
LEMMA RestKeeps ==
  ASSUME SlotInv,
         \/ \E r \in inflight : RegistrarAccepts(r) \/ LoseRequest(r)
         \/ Abandon \/ WorldStep \/ Elapse \/ UNCHANGED vars
  PROVE  SlotParts'
<1>0. TypeOK /\ wf \in Workflow /\ SameSlots(wf)
  BY DEF SlotInv, OnceInv, TypeOK, SameSlots
<1>1. ASSUME UNCHANGED <<keys, call, lastID, stray, wf>>, inflight' \subseteq inflight
      PROVE  SlotParts'
  BY <1>0, <1>1, AlikeKeeps
<1>2. ASSUME NEW r \in inflight, RegistrarAccepts(r) PROVE SlotParts'
  <2>1. /\ UNCHANGED <<keys, lastID, stray, wf>> /\ inflight' \subseteq inflight
        /\ r.op = "update_dnssec" /\ \E reply : call' = Answered(r, reply)
    BY <1>2 DEF RegistrarAccepts
  <2>2. CallFits'
    BY <1>0, <2>1, AnsweredFits DEF Creates
  <2> QED
    BY <1>0, <2>1, <2>2, SlotsAlike DEF SlotParts
<1>3. ASSUME NEW r \in inflight, LoseRequest(r) PROVE SlotParts'
  BY <1>1, <1>3 DEF LoseRequest, worldVars
<1>4. CASE Abandon
  <2>1. UNCHANGED <<keys, lastID, stray, wf, inflight>> /\ call' = NoCall
    BY <1>4 DEF Abandon, worldVars
  <2> QED
    BY <1>0, <2>1, SlotsAlike, NoCallFits DEF SlotParts
<1>5. CASE WorldStep
  <2>1. keys' = keys
    BY <1>5 DEF WorldStep, World, SecondarySync, RegistrarApplies, RegistrarFails,
                RegistrarForgetsJob, ParentPublishes, ParentSync, ZoneEdited, Redelegated,
                Serve
  <2> QED
    BY <1>1, <1>5, <2>1 DEF WorldStep, bookVars
<1>6. CASE Elapse
  <2>1. UNCHANGED <<keys, call, lastID, stray>>
    BY <1>6 DEF Elapse, WorldElapses
  <2>2. SameSlots(wf') /\ wf'.phase = wf.phase
    BY <1>0, <1>6 DEF Elapse, SameSlots, Workflow
  <2>3. \A r \in inflight' : \E s \in inflight : s.op = r.op /\ s.key = r.key
    <3>1. \A s \in inflight : LET r == [s EXCEPT !.left = @ - 1]
                              IN s.op = r.op /\ s.key = r.key
      BY <1>0, SlotNumbers DEF Request
    <3> QED
      BY <1>6, <3>1 DEF Elapse
  <2> QED
    BY <2>1, <2>2, <2>3, AlikeKeeps
<1>7. CASE UNCHANGED vars
  BY <1>1, <1>7 DEF vars, worldVars
<1> QED
  BY <1>2, <1>3, <1>4, <1>5, <1>6, <1>7

\* The zones a rotation may find.
LEMMA SlotsInit ==
  ASSUME Init
  PROVE  SlotParts
<1>1. /\ wf.old = 0 /\ wf.new = 0 /\ wf.zsk = 0 /\ wf.phase = "idle" /\ wf.kind = "none"
      /\ call = NoCall /\ inflight = {} /\ stray = 0
  BY DEF Init, IdleWorkflow
<1>2. PICK z \in InitialZones :
        keys = InitialKeys(z) /\ lastID = (IF z = "split" THEN 2 ELSE 1)
  BY DEF Init, WorldInit
<1>3. KeyBook /\ lastID \in Nat
  <2> DEFINE k == NewKey(1, "ksk", TRUE)  l == NewKey(2, "zsk", TRUE)
             c == NewKey(1, "csk", TRUE)
  <2>1. /\ k.id = 1 /\ l.id = 2 /\ c.id = 1
        /\ k.flags = flagsOf(k.made) /\ l.flags = flagsOf(l.made) /\ c.flags = flagsOf(c.made)
    BY DEF NewKey
  <2>2. \/ keys = {k, l} /\ lastID = 2
        \/ keys = {c} /\ lastID = 1
    BY <1>2 DEF InitialKeys
  <2> HIDE DEF k, l, c
  <2>3. CASE keys = {k, l} /\ lastID = 2
    <3>1. keys = {k} \cup {l} /\ IsFiniteSet({k})
      BY <2>3, FS_Singleton
    <3>2. IsFiniteSet(keys)
      BY <3>1, FS_AddElement
    <3> QED
      BY <2>1, <2>3, <3>2 DEF KeyBook
  <2>4. CASE keys = {c} /\ lastID = 1
    <3>1. IsFiniteSet(keys)
      BY <2>4, FS_Singleton
    <3> QED
      BY <2>1, <2>4, <3>1 DEF KeyBook
  <2> QED
    BY <2>2, <2>3, <2>4
<1>4. SlotBook /\ StrayApart /\ RequestsFit
  BY <1>1, <1>3 DEF SlotBook, StrayApart, RequestsFit
<1>5. CallFits /\ PhaseFits(wf)
  BY <1>1 DEF CallFits, PhaseFits, NoCall, Creates, AfterParent
<1>6. SomeSigner
  <2>1. PICK made \in {"ksk", "csk"} : NewKey(1, made, TRUE) \in keys
    BY <1>2 DEF InitialKeys
  <2> DEFINE k == NewKey(1, made, TRUE)
  <2>2. k \in keys /\ k.id = 1 /\ k.active /\ k.flags = 257
    BY <2>1 DEF NewKey, flagsOf
  <2> HIDE DEF k
  <2> QED
    BY <1>1, <2>2 DEF SomeSigner, Signs
<1> QED
  BY <1>3, <1>4, <1>5, <1>6 DEF SlotParts

\* The inductive step of SlotsStaySound.
LEMMA SlotNext ==
  ASSUME SlotInv, [Next]_vars
  PROVE  SlotInv'
<1>1. OnceInv'
  BY OnceNext DEF SlotInv
<1>2. CASE Controller
  <2>1. TypeOK
    BY DEF SlotInv, OnceInv
  <2>2. ASSUME Moves, call = NoCall PROVE SlotParts'
    BY <2>2, MovesKeep
  <2>3. ASSUME RecordCTID PROVE SlotParts'
    BY <2>1, <2>2, <2>3, RecordCTIDMoves DEF RecordCTID, Due
  <2>4. ASSUME waitParentReplace PROVE SlotParts'
    BY <2>2, <2>4, WaitParentMoves DEF waitParentReplace, Due
  <2>5. ASSUME waitNewSignature PROVE SlotParts'
    BY <2>2, <2>5, WaitSignatureMoves DEF waitNewSignature, Due
  <2>6. ASSUME waitRetire PROVE SlotParts'
    BY <2>2, <2>6, RetireMoves DEF waitRetire, Due
  <2>7. ASSUME prepublish \/ waitPublish \/ parentReplace PROVE SlotParts'
    BY <2>7, PrepublishKeeps, WaitPublishKeeps, ParentReplaceKeeps
  <2>8. ASSUME activateNew \/ deactivateOld \/ deleteOld PROVE SlotParts'
    BY <2>8, ActivateKeeps, DeactivateKeeps, DeleteKeeps
  <2>9. ASSUME Send \/ PersistAnswer PROVE SlotParts'
    BY <2>9, SendKeeps, AnswerKeeps
  <2>10. SlotParts'
    BY <1>2, <2>3, <2>4, <2>5, <2>6, <2>7, <2>8, <2>9 DEF Controller
  <2> QED
    BY <1>1, <2>10 DEF SlotInv
<1>3. CASE ~Controller
  <2>1. SlotParts'
    BY <1>3, StartKeeps, OperatorKeeps, PowerDNSKeeps, StraysKeep, RestKeeps
       DEF Next, Deliver
  <2> QED
    BY <1>1, <2>1 DEF SlotInv
<1> QED
  BY <1>2, <1>3

\* For every TTL, wait, lag and number of faults and foreign keys: no two slots
\* of a workflow name one key, and a filled slot names a key that PowerDNS has
\* until deleteOld removes the old one, whether the key was created or adopted
\* (adoptOrCreate) and whatever requests of this workflow or an earlier one
\* arrive late.
THEOREM SlotsStaySound == Spec => []SlotsAreSound
<1>1. Init => SlotInv
  <2> SUFFICES ASSUME Init PROVE SlotInv
    OBVIOUS
  <2>1. call.stage # "ready" /\ sent = [op \in OnceOps |-> 0]
    BY DEF Init, NoCall
  <2>2. OnceInv
    BY <2>1, TypeInit DEF OnceInv, Once, ReadyIsOnce
  <2> QED
    BY <2>2, SlotsInit DEF SlotInv
<1>2. SlotInv /\ [Next]_vars => SlotInv'
  BY SlotNext
<1>3. SlotInv => SlotsAreSound
  <2> SUFFICES ASSUME SlotInv PROVE SlotsAreSound
    OBVIOUS
  <2>1. SlotBook
    BY DEF SlotInv, SlotParts
  <2>2. \A a, b \in {"old", "new", "zsk"} : a # b /\ wf[a] # 0 => wf[a] # wf[b]
    BY <2>1 DEF SlotBook
  <2>3. \A a \in {"new", "zsk"} : wf[a] # 0 => HasKey(keys, wf[a])
    BY <2>1 DEF SlotBook
  <2> QED
    BY <2>1, <2>2, <2>3 DEF SlotBook, SlotsAreSound, Retiring
<1> QED
  BY <1>1, <1>2, <1>3, PTL DEF Spec
-----------------------------------------------------------------------------
(* The announced keys                                                      *)

\* A DS is announced by one PUT, which is in the controller's hands, under way,
\* in the registrar's queue, or done.  DSAnnouncedWhenUsable holds because the
\* key of that PUT was in every DNSKEY set in use before it was made, and
\* because no key is switched off while a DS for it is anywhere on that way.
Put == "update_dnssec"
Puts == {r \in inflight : r.op = Put}
Rolls == {"ksk", "split"}

Anchors ==
  registrar.data
    \cup (IF registrar.job = "pending" THEN registrar.jobData ELSE {})
    \cup {r.key : r \in Puts}
    \cup (IF call.op = Put /\ call.stage = "ready" THEN {call.key} ELSE {})
    \cup UNION DSVersions

Stands(id) == \E k \in keys : k.id = id /\ Signs(k)

Holds(v, id) == id \in v.keys /\ id \in v.sig

\* In n units of time every DNSKEY set in use has the key and its signature.
Covers(id, n) ==
  /\ \A i \in Served : Holds(DnskeyRRset(i), id)
  /\ \A e \in cache.dnskey : Holds(e.version, id) \/ e.left <= n

AllPublished == \A k \in keys : k.published

AnchorsHold == \A id \in Anchors : Stands(id) /\ Covers(id, 0)

\* waitPublish has seen the new key everywhere and waits for caches, and
\* parentReplace has waited for them.
NewHolds(w) ==
  w.kind \in Rolls =>
    /\ w.phase = "wait_publish" /\ w.evidence => Stands(w.new) /\ Covers(w.new, w.next)
    /\ w.phase = "parent_remove" => Stands(w.new) /\ Covers(w.new, 0)

\* One PUT of the new key; while it is not done the parent has what the
\* registrar has, which is the old key if anything.
PutBook ==
  /\ wf.kind \notin Rolls \/ wf.phase = "prepublish" => sent[Put] = 0
  /\ sent[Put] = 0 => Puts = {} /\ registrar.job # "pending" /\ parent.fast = registrar.data
  /\ \A r, s \in Puts : r = s
  /\ \A r \in Puts :
       r.key = wf.new /\ registrar.job # "pending" /\ wf.new \notin registrar.data
  /\ registrar.job = "pending" =>
       registrar.jobData = {wf.new} /\ Puts = {} /\ wf.new \notin registrar.data
  /\ call.op = Put => call.key = wf.new
  /\ wf.kind \in Rolls /\ wf.old # 0 =>
       registrar.data \subseteq {wf.old} \/ registrar.data = {wf.new}
  /\ wf.kind \in Rolls /\ sent[Put] = 0 => wf.new \notin registrar.data
  /\ wf.kind \in Rolls /\ wf.new \notin registrar.data => parent.fast = registrar.data

\* What the workflow has seen of the parent.
Announcing(w) ==
  /\ w.phase = "idle" => w.kind = "none"
  /\ w.phase \in {"parent_remove", "wait_parent_remove"} => w.kind \in Rolls
  /\ w.kind \in Rolls /\ w.phase \in AfterParent \ {"wait_parent_remove"} =>
       parent.fast = {w.new}
  /\ ~DynamicRoles /\ w.kind = "split" /\ w.phase = "prepublish" /\ w.old = 0 =>
       \A k \in keys : k.id \in Anchors => k.made = "csk"

DSParts ==
  /\ CacheBounded /\ AllPublished /\ AnchorsHold /\ NewHolds(wf)
  /\ PutBook /\ Announcing(wf)

\* waitParentReplace has seen the new DS alone at the servers that answer, and in
\* n units of time the old DS is gone from the last server and every cache.
OldGone(w, n) ==
  /\ w.old \notin parent.fast
  /\ w.old \in parent.slow => DSTTL + (ParentLag - parent.lag) <= n
  /\ \A e \in cache.ds : w.old \in e.version => e.left <= n

Superseded(w) ==
  w.kind \in Rolls =>
    /\ w.phase = "wait_parent_remove" /\ w.evidence =>
         parent.fast = {w.new} /\ OldGone(w, w.next)
    /\ w.phase \in AfterParent \ {"wait_parent_remove"} => OldGone(w, 0)

DSInv == SlotInv /\ DSParts /\ Superseded(wf)

\* What is known of the types in the steps below.
LEMMA DSTypes ==
  ASSUME DSInv
  PROVE  /\ TypeOK /\ ServedType /\ KeyBook /\ wf \in Workflow
         /\ keys \in SUBSET PowerDNSKey /\ zoneTTL \in ZoneTTLs /\ secondary \in ZoneImage
         /\ wf.next \in Nat /\ lastID \in Nat
         /\ \A e \in cache.dnskey : e.left \in Nat \ {0}
BY WorldParts DEF DSInv, SlotInv, SlotParts, OnceInv, TypeOK, Workflow, ServedType, Cached

\* When the wait is over no DS set in use names the old key.
LEMMA OldIsGone ==
  ASSUME DSInv, OldGone(wf, 0)
  PROVE  \A v \in DSVersions : wf.old \notin v
<1>1. ParentType /\ \A e \in cache.ds : e.left \in Nat \ {0}
  BY DSTypes, WorldParts DEF TypeOK, ServedType, Cached
<1>2. wf.old \notin parent.slow
  <2>1. parent.lag \in 0..ParentLag
    BY <1>1 DEF ParentType
  <2>2. ~(DSTTL + (ParentLag - parent.lag) <= 0)
    BY <2>1, WorldAssumptions
  <2> QED
    BY <2>2 DEF OldGone
<1>3. \A e \in cache.ds : wf.old \notin e.version
  BY <1>1 DEF OldGone
<1> QED
  BY <1>2, <1>3 DEF OldGone, DSVersions

\* PowerDNS signs the DNSKEY set with every active key that has the SEP flag,
\* whatever role it reports.
LEMMA SignerServed ==
  ASSUME NEW ks \in SUBSET PowerDNSKey, NEW k \in ks, k.active, k.published, k.flags = 257,
         k.flags = flagsOf(k.made), NEW ttl
  PROVE  Holds(DnskeyRRset(Image(ks, ttl)), k.id)
<1>1. k.made \in {"ksk", "csk"}
  BY DEF PowerDNSKey, KeyTypes, flagsOf
<1>2. Role(ks, k) \in {"ksk", "csk"}
  BY <1>1 DEF Role
<1>3. k.id \in publishedKeys(ks)
  BY DEF publishedKeys
<1>4. k.id \in Signers(ks, {"ksk", "csk"})
  BY <1>2 DEF Signers
<1> QED
  BY <1>3, <1>4 DEF Holds, DnskeyRRset, Image

\* A key in every image that is served stays in every version.
LEMMA ServeCovers ==
  ASSUME ServedType, NEW ks, NEW ttl, NEW sec \in {secondary, Image(ks, ttl)},
         Serve(ks, ttl, sec), NEW id, NEW n, Covers(id, n),
         Holds(DnskeyRRset(Image(ks, ttl)), id)
  PROVE  Covers(id, n)'
<1>1. Served' \subseteq Served \cup {Image(ks, ttl)}
  BY DEF Serve, Served
<1>2. \A e \in cache'.dnskey :
        \/ e \in cache.dnskey
        \/ \E i \in Served : e.version = DnskeyRRset(i)
  BY ServeLeaves
<1> QED
  BY <1>1, <1>2 DEF Covers

\* Time brings the moment nearer at which the key is in every version.
LEMMA ElapseCovers ==
  ASSUME ServedType, WorldElapses, NEW id, NEW n \in Nat, Covers(id, n)
  PROVE  Covers(id, IF n > 0 THEN n - 1 ELSE 0)'
<1>1. Served' = Served
  BY DEF WorldElapses, Served
<1>2. \A e \in cache'.dnskey :
        Holds(e.version, id) \/ e.left <= (IF n > 0 THEN n - 1 ELSE 0)
  <2> SUFFICES ASSUME NEW e \in cache'.dnskey
               PROVE  Holds(e.version, id) \/ e.left <= (IF n > 0 THEN n - 1 ELSE 0)
    OBVIOUS
  <2>1. PICK x \in cache.dnskey :
          x.left \in Nat /\ e.version = x.version /\ e.left = x.left - 1
    BY ElapsedEntries
  <2>2. Holds(x.version, id) \/ x.left <= n
    BY DEF Covers
  <2> QED
    BY <2>1, <2>2
<1> QED
  BY <1>1, <1>2 DEF Covers

\* The keys that stand and are everywhere go on to do so.
Steady == \A id, n : Stands(id) /\ Covers(id, n) => Stands(id)' /\ Covers(id, n)'

\* A step that touches neither the keys nor what is served or cached of them,
\* and sends nothing that stops a key.
LEMMA SteadyAlike ==
  ASSUME UNCHANGED <<keys, zoneTTL, secondary, stray>>, cache'.dnskey = cache.dnskey,
         \A r \in inflight' : r.op \in {"deactivate", "delete"} =>
           \E s \in inflight : s.op = r.op /\ s.key = r.key
  PROVE  Steady
<1>1. \A k \in keys : Signs(k) => Signs(k)'
  BY DEF Signs
<1>2. \A id : Stands(id) => Stands(id)'
  BY <1>1 DEF Stands
<1>3. \A id, n : Covers(id, n) => Covers(id, n)'
  BY DEF Covers, Served
<1> QED
  BY <1>2, <1>3 DEF Steady

\* The parts of the invariant about announced keys, for a step that announces
\* nothing new.
LEMMA AnchorsStay ==
  ASSUME DSInv, Steady, Anchors' \subseteq Anchors
  PROVE  AnchorsHold'
BY DEF DSInv, DSParts, AnchorsHold, Steady

\* Announced keys are keys of PowerDNS.
LEMMA AnchorNumbers ==
  ASSUME DSInv
  PROVE  \A id \in Anchors : id \in 1..lastID /\ HasKey(keys, id) /\ id # stray
BY DSTypes DEF DSInv, DSParts, AnchorsHold, Stands, Signs, KeyBook, HasKey

\* A step that only persists a workflow with the same slots.
LEMMA PersistKept ==
  ASSUME DSInv, UNCHANGED <<worldVars, inflight, stray, sent>>, call' \in {call, NoCall},
         NEW w \in Workflow, wf' = w, SameSlots(w), w.phase # "idle",
         w.phase = "prepublish" => wf.phase = "prepublish", NewHolds(w), Announcing(w)
  PROVE  DSParts'
<1>1. UNCHANGED <<keys, zoneTTL, secondary, cache, registrar, parent, inflight, stray, sent>>
  BY DEF worldVars
<1>2. Steady
  BY <1>1, SteadyAlike
<1>3. Anchors' \subseteq Anchors /\ Puts' = Puts
  BY <1>1 DEF Anchors, DSVersions, Puts, NoCall, Put
<1>4. AnchorsHold'
  BY <1>2, <1>3, AnchorsStay
<1>5. CacheBounded' /\ AllPublished'
  BY <1>1 DEF DSInv, DSParts, CacheBounded, AllPublished
<1>6. NewHolds(wf)'
  BY <1>2 DEF NewHolds, Steady
<1>7. PutBook'
  <2>1. call'.op = Put => call'.key = wf.new
    BY DEF DSInv, DSParts, PutBook, NoCall, Put
  <2> QED
    BY <1>1, <1>3, <2>1 DEF DSInv, DSParts, PutBook, SameSlots
<1>8. Announcing(wf)'
  BY <1>1, <1>3 DEF Announcing
<1> QED
  BY <1>4, <1>5, <1>6, <1>7, <1>8 DEF DSParts

\* A blocked workflow announces nothing.
LEMMA BlockKept ==
  ASSUME DSInv, block
  PROVE  DSParts'
<1> DEFINE w == [wf EXCEPT !.phase = "blocked", !.next = 0]
<1>1. w \in Workflow /\ SameSlots(w) /\ w.phase = "blocked"
  BY DSTypes DEF Workflow, Phases, SameSlots
<1>2. wf' = w /\ UNCHANGED <<worldVars, call, inflight, stray, sent>>
  BY DEF block, Persist, bookVars
<1> HIDE DEF w
<1>3. NewHolds(w) /\ Announcing(w)
  BY <1>1 DEF NewHolds, Announcing, AfterParent
<1> QED
  BY <1>1, <1>2, <1>3, PersistKept

\* A transition between phases of which the invariant says nothing new.
LEMMA TransitionKept ==
  ASSUME DSInv, NEW w \in Workflow, SameSlots(w), NEW phase \in Phases, NEW wait \in Nat,
         transition(w, phase, wait), phase # "idle",
         phase = "prepublish" => wf.phase = "prepublish" /\ wf.old # 0,
         phase = "wait_publish" => ~w.evidence,
         phase = "parent_remove" => wf.phase = "parent_remove",
         phase = "wait_parent_remove" => wf.kind \in Rolls,
         wf.kind \in Rolls /\ phase \in AfterParent \ {"wait_parent_remove"} =>
           parent.fast = {wf.new}
  PROVE  DSParts'
<1> DEFINE x == [w EXCEPT !.phase = phase, !.next = wait]
<1>1. /\ x \in Workflow /\ SameSlots(x) /\ x.phase = phase /\ x.evidence = w.evidence
      /\ x.kind = wf.kind /\ x.new = wf.new /\ x.old = wf.old
  BY DEF Workflow, SameSlots
<1>2. wf' = x /\ UNCHANGED <<worldVars, call, inflight, stray, sent>>
  BY DEF transition, Persist, bookVars
<1> HIDE DEF x
<1>3. NewHolds(x)
  BY <1>1 DEF DSInv, DSParts, NewHolds
<1>4. Announcing(x)
  BY <1>1 DEF DSInv, DSParts, Announcing
<1> QED
  BY <1>1, <1>2, <1>3, <1>4, PersistKept

\* The phases after the parent's say nothing more.
LEMMA OnwardKept ==
  ASSUME DSInv, NEW w \in Workflow, SameSlots(w), NEW phase \in AfterParent, NEW wait \in Nat,
         transition(w, phase, wait), wf.phase \in AfterParent,
         phase = "wait_parent_remove" => wf.phase = "wait_parent_remove",
         wf.phase = "wait_parent_remove" /\ phase # "wait_parent_remove" =>
           parent.fast = {wf.new}
  PROVE  DSParts'
<1>1. /\ phase \in Phases /\ phase \notin {"idle", "prepublish", "wait_publish", "parent_remove"}
  BY DEF Phases, AfterParent
<1>2. wf.phase = "wait_parent_remove" => wf.kind \in Rolls
  BY DEF DSInv, DSParts, Announcing
<1>3. wf.kind \in Rolls /\ phase \in AfterParent \ {"wait_parent_remove"} =>
        parent.fast = {wf.new}
  BY DEF DSInv, DSParts, Announcing
<1> QED
  BY <1>1, <1>2, <1>3, TransitionKept

\* A request leaves at once; it does not stop an announced key or a new one.
LEMMA SentKept ==
  ASSUME DSInv, NEW op \in {"activate", "deactivate", "delete"}, NEW key,
         Issue(wf, op, key, "sent"), wf.phase \in AfterParent, call = NoCall,
         op \in {"deactivate", "delete"} => key \notin Anchors
  PROVE  DSParts'
<1> DEFINE q == Req(op, key)
<1>1. /\ wf' = wf /\ inflight' = inflight \cup {q}
      /\ UNCHANGED <<keys, zoneTTL, secondary, cache, registrar, parent, stray, sent>>
      /\ call' = [op |-> op, key |-> key, stage |-> "sent", reply |-> 0]
      /\ q.op = op /\ q.key = key
  BY DEF Issue, worldVars, Req
<1> HIDE DEF q
<1>2. Anchors' \subseteq Anchors /\ Puts' = Puts
  BY <1>1 DEF Anchors, DSVersions, Puts, Put
<1>3. AnchorsHold'
  <2> SUFFICES ASSUME NEW id \in Anchors PROVE Stands(id)' /\ Covers(id, 0)'
    BY <1>2 DEF AnchorsHold
  <2>1. Stands(id) /\ Covers(id, 0)
    BY DEF DSInv, DSParts, AnchorsHold
  <2>2. Stands(id)'
    BY <1>1, <2>1 DEF Stands, Signs
  <2> QED
    BY <1>1, <2>1, <2>2 DEF Covers, Served
<1>4. CacheBounded' /\ AllPublished'
  BY <1>1 DEF DSInv, DSParts, CacheBounded, AllPublished
<1>5. NewHolds(wf)'
  BY <1>1 DEF NewHolds, AfterParent
<1>6. PutBook'
  BY <1>1, <1>2 DEF DSInv, DSParts, PutBook, Put
<1>7. Announcing(wf)'
  BY <1>1, <1>2 DEF DSInv, DSParts, Announcing
<1> QED
  BY <1>3, <1>4, <1>5, <1>6, <1>7 DEF DSParts

\* An intent is persisted; the PUT of parentReplace makes the new key, which is
\* everywhere, an announced one.
LEMMA ReadyKept ==
  ASSUME DSInv, NEW w \in Workflow, SameSlots(w), w.phase = wf.phase, call = NoCall,
         NEW op \in OnceOps, NEW key, Issue(w, op, key, "ready"),
         op = Put => key = wf.new /\ wf.phase = "parent_remove",
         op # Put => wf.phase = "prepublish" /\ wf.old # 0
  PROVE  DSParts'
<1>1. /\ wf' = w /\ inflight' = inflight
      /\ UNCHANGED <<keys, zoneTTL, secondary, cache, registrar, parent, stray, sent>>
      /\ call' = [op |-> op, key |-> key, stage |-> "ready", reply |-> 0]
  BY DEF Issue, worldVars
<1>2. Steady
  BY <1>1, SteadyAlike
<1>3. Puts' = Puts /\ Anchors' \subseteq Anchors \cup (IF op = Put THEN {wf.new} ELSE {})
  BY <1>1 DEF Anchors, DSVersions, Puts
<1>4. AnchorsHold'
  <2>1. \A id \in Anchors : Stands(id) /\ Covers(id, 0)
    BY DEF DSInv, DSParts, AnchorsHold
  <2>2. op = Put => Stands(wf.new) /\ Covers(wf.new, 0)
    BY DEF DSInv, DSParts, NewHolds, Announcing
  <2> QED
    BY <1>2, <1>3, <2>1, <2>2 DEF AnchorsHold, Steady
<1>5. CacheBounded' /\ AllPublished'
  BY <1>1 DEF DSInv, DSParts, CacheBounded, AllPublished
<1>6. NewHolds(wf)'
  <2>1. w.kind = wf.kind /\ w.new = wf.new /\ w.phase \in {"prepublish", "parent_remove"}
    BY DEF SameSlots
  <2> QED
    BY <1>1, <1>2, <2>1 DEF DSInv, DSParts, NewHolds, Steady
<1>7. PutBook'
  BY <1>1, <1>3 DEF DSInv, DSParts, PutBook, SameSlots
<1>8. Announcing(wf)'
  <2>1. w.phase \in {"prepublish", "parent_remove"} /\ (w.phase = "prepublish" => w.old # 0)
    BY DEF SameSlots
  <2> QED
    BY <1>1, <2>1 DEF DSInv, DSParts, Announcing, SameSlots, AfterParent
<1> QED
  BY <1>4, <1>5, <1>6, <1>7, <1>8 DEF DSParts

\* Once the parent has the new key's DS alone, the PUT is done.
LEMMA PutIsDone ==
  ASSUME DSInv, wf.kind \in Rolls, parent.fast = {wf.new}
  PROVE  registrar.data = {wf.new} /\ Puts = {} /\ registrar.job # "pending"
<1>1. wf.new \in registrar.data
  BY DEF DSInv, DSParts, PutBook
<1>2. wf.new # 0
  BY <1>1, DSTypes, AnchorNumbers DEF Anchors
<1>3. wf.old # 0 /\ wf.old # wf.new
  BY <1>2 DEF DSInv, SlotInv, SlotParts, SlotBook
<1>4. registrar.data = {wf.new}
  BY <1>1, <1>3 DEF DSInv, DSParts, PutBook
<1> QED
  BY <1>1, <1>4 DEF DSInv, DSParts, PutBook

\* The workflow completes: its PUT is done and the parent has followed.
LEMMA CompleteKept ==
  ASSUME DSInv, complete, wf.phase = "delete_old", call' = NoCall,
         UNCHANGED <<worldVars, inflight, stray>>
  PROVE  DSParts'
<1>1. /\ UNCHANGED <<keys, zoneTTL, secondary, cache, registrar, parent, inflight, stray>>
      /\ wf' = IdleWorkflow /\ sent'[Put] = 0
      /\ wf'.kind = "none" /\ wf'.phase = "idle"
  BY DEF worldVars, complete, IdleWorkflow, OnceOps, Put
<1>2. Steady
  BY <1>1, SteadyAlike
<1>3. Anchors' \subseteq Anchors /\ Puts' = Puts
  BY <1>1 DEF Anchors, DSVersions, Puts, NoCall, Put
<1>4. Puts = {} /\ registrar.job # "pending" /\ parent.fast = registrar.data
  <2>1. CASE wf.kind \in Rolls
    <3>1. parent.fast = {wf.new}
      BY <2>1 DEF DSInv, DSParts, Announcing, AfterParent
    <3> QED
      BY <2>1, <3>1, PutIsDone
  <2>2. CASE wf.kind \notin Rolls
    BY <2>2 DEF DSInv, DSParts, PutBook
  <2> QED
    BY <2>1, <2>2
<1>5. AnchorsHold'
  BY <1>2, <1>3, AnchorsStay
<1>6. CacheBounded' /\ AllPublished'
  BY <1>1 DEF DSInv, DSParts, CacheBounded, AllPublished
<1>7. NewHolds(wf)' /\ Announcing(wf)'
  BY <1>1 DEF NewHolds, Announcing, Rolls, AfterParent
<1>8. PutBook'
  <2>1. wf'.kind \notin Rolls /\ call'.op # Put
    BY <1>1 DEF Rolls, NoCall, Put
  <2> QED
    BY <1>1, <1>3, <1>4, <2>1 DEF PutBook
<1> QED
  BY <1>5, <1>6, <1>7, <1>8 DEF DSParts

\* prepublish: every announced key has the role of which it takes the one active
\* key for the old one.
LEMMA OldIsAnchor ==
  ASSUME DSInv, wf.phase = "prepublish", wf.old = 0, wf.kind \in Rolls,
         NEW typ, typ = (IF wf.kind = "split" THEN "csk" ELSE wf.kind),
         exactlyOneActive(Inventory, typ), NEW k \in ActiveOf(Inventory, typ),
         NEW id \in Anchors
  PROVE  id = k.id
<1>0. KeyBook /\ PhaseFits(wf) /\ keys \in SUBSET PowerDNSKey /\ Announcing(wf)
  BY DSTypes DEF DSInv, DSParts, SlotInv, SlotParts
<1>1. PICK x \in keys : x.id = id /\ Signs(x)
  BY DEF DSInv, DSParts, AnchorsHold, Stands
<1>2. x.active /\ x.flags = 257 /\ x.flags = flagsOf(x.made) /\ x.made \in KeyTypes
  BY <1>0, <1>1 DEF Signs, KeyBook, PowerDNSKey
<1>3. PICK y \in keys : k.keytype = Role(keys, y)
  BY ListedKey DEF ActiveOf
<1>4. Role(keys, y) = typ
  BY <1>3 DEF ActiveOf
<1>5. Role(keys, x) = typ
  <2>1. CASE wf.kind = "split"
    BY <1>0, <1>1, <1>4, <2>1 DEF Role, Announcing
  <2>2. CASE wf.kind = "ksk"
    <3>1. CASE DynamicRoles
      BY <1>2, <1>4, <2>2, <3>1 DEF Role
    <3>2. CASE ~DynamicRoles
      <4>1. x.made = "ksk"
        BY <1>0, <1>2, <2>2, <3>2 DEF PhaseFits, KeyTypes, flagsOf
      <4> QED
        BY <2>2, <3>2, <4>1 DEF Role
    <3> QED
      BY <3>1, <3>2
  <2> QED
    BY <2>1, <2>2 DEF Rolls
<1>6. PICK l \in Inventory : x.id = l.id /\ x.active = l.active /\ l.keytype = Role(keys, x)
  BY ListedKey
<1>7. l \in ActiveOf(Inventory, typ)
  BY <1>2, <1>5, <1>6 DEF ActiveOf
<1> QED
  BY <1>0, <1>1, <1>6, <1>7, OnlyActive

\* So the registrar announces the old key and no other when it is recorded.
LEMMA RecordOldKept ==
  ASSUME DSInv, wf.phase = "prepublish", wf.old = 0,
         RecordOld(IF wf.kind = "split" THEN "csk" ELSE wf.kind)
  PROVE  DSParts'
<1> DEFINE typ == IF wf.kind = "split" THEN "csk" ELSE wf.kind
<1>1. CASE block
  BY <1>1, BlockKept
<1>2. ASSUME exactlyOneActive(Inventory, typ), NEW k \in ActiveOf(Inventory, typ),
             transition([wf EXCEPT !.old = k.id], "prepublish", 0)
      PROVE  DSParts'
  <2>1. /\ wf'.old = k.id /\ wf'.new = wf.new /\ wf'.kind = wf.kind /\ wf'.phase = wf.phase
        /\ UNCHANGED <<keys, zoneTTL, secondary, cache, registrar, parent, call, inflight,
                       stray, sent>>
    BY <1>2, DSTypes DEF transition, Persist, worldVars, bookVars, Workflow
  <2>2. k.id # 0
    BY <1>2, OldIsOwn DEF DSInv
  <2>3. wf.kind \in Rolls => registrar.data \subseteq {k.id}
    BY <1>2, OldIsAnchor DEF Anchors
  <2> HIDE DEF typ
  <2>4. Steady
    BY <2>1, SteadyAlike
  <2>5. Anchors' = Anchors /\ Puts' = Puts
    BY <2>1 DEF Anchors, DSVersions, Puts
  <2>6. AnchorsHold'
    BY <2>4, <2>5, AnchorsStay
  <2>7. CacheBounded' /\ AllPublished'
    BY <2>1 DEF DSInv, DSParts, CacheBounded, AllPublished
  <2>8. NewHolds(wf)' /\ Announcing(wf)'
    BY <2>1, <2>2 DEF NewHolds, Announcing, AfterParent
  <2>9. PutBook'
    BY <2>1, <2>3, <2>5 DEF DSInv, DSParts, PutBook
  <2> QED
    BY <2>6, <2>7, <2>8, <2>9 DEF DSParts
<1> QED
  BY <1>1, <1>2 DEF RecordOld

\* A slot is filled while the registrar has the old key or none.
LEMMA FilledKept ==
  ASSUME DSInv, wf.phase = "prepublish", wf.old # 0, NEW op \in Creates, NEW id \in Nat,
         id # wf.old, wf' = With(op, id), call' = NoCall, stray' \in {stray, 0},
         UNCHANGED <<worldVars, inflight, sent>>
  PROVE  DSParts'
<1>1. /\ wf'.old = wf.old /\ wf'.kind = wf.kind /\ wf'.new \in {wf.new, id}
      /\ wf'.phase = "prepublish" \/ (wf'.phase = "wait_publish" /\ ~wf'.evidence)
  BY DSTypes DEF With, WithNewKey, WithNewZSK, Workflow, Creates
<1>2. UNCHANGED <<keys, zoneTTL, secondary, cache, registrar, parent, inflight, sent>>
  BY DEF worldVars
<1>3. Steady
  <2>1. \A k \in keys : Signs(k) => Signs(k)'
    BY <1>2, DSTypes DEF Signs, KeyBook
  <2>2. \A x : Stands(x) => Stands(x)'
    BY <1>2, <2>1 DEF Stands
  <2>3. \A x, n : Covers(x, n) => Covers(x, n)'
    BY <1>2 DEF Covers, Served
  <2> QED
    BY <2>2, <2>3 DEF Steady
<1>4. Anchors' \subseteq Anchors /\ Puts' = Puts
  BY <1>2 DEF Anchors, DSVersions, Puts, NoCall, Put
<1>5. AnchorsHold'
  BY <1>3, <1>4, AnchorsStay
<1>6. CacheBounded' /\ AllPublished'
  BY <1>2 DEF DSInv, DSParts, CacheBounded, AllPublished
<1>7. NewHolds(wf)' /\ Announcing(wf)'
  BY <1>1 DEF NewHolds, Announcing, AfterParent
<1>8. PutBook'
  <2>1. sent[Put] = 0 /\ Puts = {} /\ registrar.job # "pending" /\ parent.fast = registrar.data
    BY DEF DSInv, DSParts, PutBook
  <2>2. wf.kind \in Rolls => registrar.data \subseteq {wf.old} /\ wf'.new \notin registrar.data
    BY <1>1, <2>1 DEF DSInv, DSParts, PutBook
  <2>3. call'.op # Put
    BY DEF NoCall, Put
  <2> QED
    BY <1>1, <1>2, <1>4, <2>1, <2>2, <2>3 DEF PutBook
<1> QED
  BY <1>5, <1>6, <1>7, <1>8 DEF DSParts

\* prepublish announces nothing.
LEMMA AdoptOrCreateKept ==
  ASSUME DSInv, call = NoCall, wf.phase = "prepublish", wf.old # 0, NEW typ, NEW active,
         NEW op \in Creates, NEW otherSlot, adoptOrCreate(typ, active, otherSlot, op)
  PROVE  DSParts'
<1> DEFINE candidates == Candidates(Inventory, wf, typ, active, wf.kind = "split")
<1>1. ASSUME NEW k \in candidates, Adopt(With(op, k.id), k.id) PROVE DSParts'
  <2>1. k \in Inventory /\ k.id # wf.old
    BY DEF Candidates, Eligible
  <2>2. k.id \in Nat
    BY <2>1, DSTypes, ListedKey DEF PowerDNSKey
  <2>3. /\ wf' = With(op, k.id) /\ stray' \in {stray, 0} /\ call' = NoCall
        /\ UNCHANGED <<worldVars, inflight, sent>>
    BY <1>1 DEF Adopt
  <2> QED
    BY <2>1, <2>2, <2>3, FilledKept
<1>2. ASSUME Issue(WithAttempt(op), op, 0, "ready") PROVE DSParts'
  <2>1. /\ WithAttempt(op) \in Workflow /\ SameSlots(WithAttempt(op))
        /\ WithAttempt(op).phase = wf.phase
    BY DSTypes DEF WithAttempt, Workflow, SameSlots
  <2>2. op \in OnceOps /\ op # Put
    BY DEF OnceOps, Creates, Put
  <2> QED
    BY <1>2, <2>1, <2>2, ReadyKept
<1> QED
  BY <1>1, <1>2 DEF adoptOrCreate

\* prepublish announces nothing, and what it adopts was listed.
LEMMA PrepublishKept ==
  ASSUME DSInv, prepublish
  PROVE  DSParts'
<1>0. TypeOK /\ wf.phase = "prepublish" /\ call = NoCall
  BY DSTypes DEF prepublish, Due
<1>1. CASE block
  BY <1>1, BlockKept
<1>2. CASE wf.old = 0
  BY <1>0, <1>2, RecordOldKept DEF prepublish
<1>3. ASSUME wf.old # 0, ClassifyParent PROVE DSParts'
  <2>1. ASSUME NEW m \in {"existing", "initial"},
               transition([wf EXCEPT !.mode = m], "prepublish", 0)
        PROVE  DSParts'
    BY <1>0, <1>3, <2>1, Edits, SlotEdits, TransitionKept DEF Phases, AfterParent
  <2> QED
    BY <1>1, <1>3, <2>1 DEF ClassifyParent
<1>4. CASE transition([wf EXCEPT !.evidence = FALSE], "wait_publish", 0)
  <2>1. ~[wf EXCEPT !.evidence = FALSE].evidence
    BY DSTypes DEF Workflow
  <2> QED
    BY <1>0, <1>4, <2>1, Edits, SlotEdits, TransitionKept DEF Phases, AfterParent
<1>5. ASSUME NEW typ, NEW active, wf.old # 0, NEW op \in Creates, NEW other,
             adoptOrCreate(typ, active, other, op)
      PROVE  DSParts'
  BY <1>0, <1>5, AdoptOrCreateKept
<1> QED
  BY <1>1, <1>2, <1>3, <1>4, <1>5 DEF prepublish, Creates

\* The inventory check proves that the new KSK signs and is not to be stopped.
LEMMA ValidatedStands ==
  ASSUME DSInv, wf.kind \in Rolls, validatePrepublishInventory(Inventory, wf)
  PROVE  Stands(wf.new)
<1>0. KeyBook /\ StrayApart /\ RequestsFit
  BY DEF DSInv, SlotInv, SlotParts
<1>1. wf.new # 0 /\ wf.old # wf.new
  BY DEF validatePrepublishInventory, Distinct
<1>2. PICK new \in Inventory : new.id = wf.new /\ new.active = (wf.kind # "zsk")
  BY DEF validatePrepublishInventory
<1>3. PICK x \in keys : x.id = wf.new /\ x.active
  BY <1>2, ListedKey DEF Rolls
<1>4. x.flags = 257
  BY <1>0, <1>3, ValidatedFlags DEF Rolls, flagsOf
<1>5. x.id # stray
  BY <1>0, <1>1, <1>3 DEF StrayApart
<1>6. \A r \in inflight : r.op \in {"deactivate", "delete"} => r.key # x.id
  BY <1>0, <1>1, <1>3 DEF RequestsFit, HasKey
<1> QED
  BY <1>3, <1>4, <1>5, <1>6 DEF Stands, Signs

\* waitPublish sees the new key everywhere and waits for as long as any cache may
\* have an older set.
LEMMA WaitPublishKept ==
  ASSUME DSInv, waitPublish
  PROVE  DSParts'
<1>0. TypeOK /\ wf.phase = "wait_publish" /\ wf.next = 0 /\ wf \in Workflow
      /\ wf.kind \in Rolls \cup {"zsk"}
  BY DSTypes DEF waitPublish, Due, DSInv, SlotInv, SlotParts, PhaseFits, Workflow, Rolls
<1>1. CASE block
  BY <1>1, BlockKept
<1>2. ASSUME validatePrepublishInventory(Inventory, wf), wf.kind # "zsk" => SignsDNSKEYs(wf.new),
             transition([wf EXCEPT !.evidence = TRUE], "wait_publish", PublishWait)
      PROVE  DSParts'
  <2> DEFINE w == [wf EXCEPT !.evidence = TRUE, !.phase = "wait_publish", !.next = PublishWait]
  <2>1. w \in Workflow /\ SameSlots(w) /\ w.phase = "wait_publish" /\ w.next = PublishWait
    BY <1>0, WaitsAreNat DEF Workflow, Phases, SameSlots
  <2>2. wf' = w /\ UNCHANGED <<worldVars, call, inflight, stray, sent>>
    BY <1>0, <1>2 DEF transition, Persist, bookVars, Workflow
  <2> HIDE DEF w
  <2>3. ASSUME wf.kind \in Rolls PROVE Stands(wf.new) /\ Covers(wf.new, PublishWait)
    <3>1. AuthoritativeDNSKEYRRSIGBy(wf.new)
      BY <1>2, <2>3 DEF Rolls, SignsDNSKEYs, DNSKEYRRSIGBy
    <3>2. \A i \in Served : Holds(DnskeyRRset(i), wf.new)
      BY <3>1 DEF AuthoritativeDNSKEYRRSIGBy, Holds, DnskeyRRset
    <3>3. DNSKEYTTL <= PublishWait
      BY WorldAssumptions, WaitAssumptions DEF PublishWait, maxDuration
    <3>4. \A e \in cache.dnskey : e.left <= PublishWait
      BY <1>0, <3>3, DSTypes, WaitsAreNat, WorldAssumptions DEF DSInv, DSParts, CacheBounded
    <3> QED
      BY <1>2, <2>3, <3>2, <3>4, ValidatedStands DEF Covers
  <2>4. NewHolds(w) /\ Announcing(w)
    BY <2>1, <2>3 DEF NewHolds, Announcing, AfterParent, SameSlots
  <2> QED
    BY <2>1, <2>2, <2>4, PersistKept
<1>3. ASSUME wf.evidence, NEW phase \in {"activate_new", "parent_remove"},
             phase = (IF wf.kind = "zsk" THEN "activate_new" ELSE "parent_remove"),
             transition([wf EXCEPT !.evidence = FALSE], phase, 0)
      PROVE  DSParts'
  <2> DEFINE w == [wf EXCEPT !.evidence = FALSE, !.phase = phase, !.next = 0]
  <2>1. w \in Workflow /\ SameSlots(w) /\ w.phase = phase
    BY <1>0 DEF Workflow, Phases, SameSlots
  <2>2. wf' = w /\ UNCHANGED <<worldVars, call, inflight, stray, sent>>
    BY <1>0, <1>3 DEF transition, Persist, bookVars, Workflow
  <2> HIDE DEF w
  <2>3. NewHolds(w)
    BY <1>0, <1>3, <2>1 DEF DSInv, DSParts, NewHolds, SameSlots
  <2>4. Announcing(w)
    BY <1>0, <1>3, <2>1 DEF Announcing, SameSlots, Rolls, AfterParent
  <2> QED
    BY <1>3, <2>1, <2>2, <2>3, <2>4, PersistKept
<1> QED
  BY <1>1, <1>2, <1>3 DEF waitPublish

\* parentReplace: its one PUT is for the new key.
LEMMA ParentReplaceKept ==
  ASSUME DSInv, RecordCTID \/ parentReplace
  PROVE  DSParts'
<1>0. TypeOK /\ wf.phase = "parent_remove" /\ call = NoCall /\ wf \in Workflow
      /\ wf.kind \in Rolls
  BY DSTypes DEF RecordCTID, parentReplace, ReadyForParent, Due, DSInv, DSParts, Announcing
<1>1. CASE block
  BY <1>1, BlockKept
<1>2. CASE transition([wf EXCEPT !.ctid = TRUE], "parent_remove", 0)
  BY <1>0, <1>2, Edits, SlotEdits, TransitionKept DEF Phases, AfterParent
<1>3. CASE transition([wf EXCEPT !.evidence = FALSE], "wait_parent_remove", 0)
  BY <1>0, <1>3, Edits, SlotEdits, TransitionKept DEF Phases, AfterParent
<1>4. CASE Issue(WithRegistrarAttempt, "update_dnssec", wf.new, "ready")
  <2>1. 0 \in 0..AmbiguityLimit
    BY WaitAssumptions
  <2>2. /\ WithRegistrarAttempt \in Workflow /\ SameSlots(WithRegistrarAttempt)
        /\ WithRegistrarAttempt.phase = wf.phase
    BY <1>0, <2>1 DEF WithRegistrarAttempt, Workflow, SameSlots
  <2> QED
    BY <1>0, <1>4, <2>2, ReadyKept DEF OnceOps, Put
<1> QED
  BY <1>1, <1>2, <1>3, <1>4 DEF RecordCTID, parentReplace

\* waitParentReplace goes on when the parent has the new DS.
LEMMA WaitParentKept ==
  ASSUME DSInv, waitParentReplace
  PROVE  DSParts'
<1>0. TypeOK /\ wf.phase = "wait_parent_remove" /\ wf.phase \in AfterParent
  BY DSTypes DEF waitParentReplace, Due, AfterParent
<1>1. CASE block
  BY <1>1, BlockKept
<1>2. ASSUME NEW w \in Workflow, SameSlots(w), NEW wait \in Nat,
             transition(w, "wait_parent_remove", wait)
      PROVE  DSParts'
  BY <1>0, <1>2, OnwardKept
<1>3. CASE FollowJob
  BY <1>0, <1>1, <1>2, <1>3, Edits, SlotEdits DEF FollowJob
<1>4. CASE AwaitDS
  <2>1. CASE ~wf.evidence
    BY <1>0, <1>2, <1>4, <2>1, Edits, SlotEdits, WaitsAreNat DEF AwaitDS
  <2>2. ASSUME NEW phase \in {"activate_new", "deactivate_old"},
               transition([wf EXCEPT !.evidence = FALSE], phase, 0)
        PROVE  DSParts'
    <3>1. parent.fast = {wf.new} /\ phase \in AfterParent
      BY <1>4 DEF AwaitDS, AuthoritativeDSEvidence, AfterParent
    <3> QED
      BY <1>0, <2>2, <3>1, Edits, SlotEdits, OnwardKept
  <2> QED
    BY <1>1, <1>4, <2>1, <2>2 DEF AwaitDS
<1> QED
  BY <1>1, <1>3, <1>4 DEF waitParentReplace

\* The signer's phases: what is turned on is no KSK, and waits announce nothing.
LEMMA SignerKept ==
  ASSUME DSInv, activateNew \/ waitNewSignature \/ waitRetire
  PROVE  DSParts'
<1>0. TypeOK /\ wf.phase \in AfterParent /\ wf.phase # "wait_parent_remove" /\ call = NoCall
  BY DSTypes DEF activateNew, waitNewSignature, waitRetire, Due, AfterParent
<1>1. CASE block
  BY <1>1, BlockKept
<1>2. ASSUME NEW w \in Workflow, SameSlots(w), NEW wait \in Nat,
             NEW phase \in {"wait_new_signature", "deactivate_old", "delete_old"},
             transition(w, phase, wait)
      PROVE  DSParts'
  <2>1. phase \in AfterParent
    BY DEF AfterParent
  <2> QED
    BY <1>0, <1>2, <2>1, OnwardKept
<1>3. CASE AttestAgain
  BY <1>0, <1>2, <1>3, Edits, SlotEdits, WaitsAreNat DEF AttestAgain
<1>4. CASE SignatureSeen
  BY <1>0, <1>1, <1>2, <1>3, <1>4, Edits, SlotEdits, WaitsAreNat DEF SignatureSeen
<1>5. CASE Issue(wf, "activate", NewSigner, "sent")
  BY <1>0, <1>5, SentKept
<1> QED
  BY <1>0, <1>1, <1>2, <1>4, <1>5, Edits, SlotEdits
     DEF activateNew, waitNewSignature, waitRetire

\* deactivateOld switches off a key without a DS: a ZSK, or a KSK when the
\* registrar has the new one alone.
LEMMA DeactivateKept ==
  ASSUME DSInv, deactivateOld
  PROVE  DSParts'
<1>0. TypeOK /\ wf.phase = "deactivate_old" /\ wf.phase \in AfterParent /\ call = NoCall
  BY DSTypes DEF deactivateOld, Due, AfterParent
<1>1. CASE block
  BY <1>1, BlockKept
<1>2. ASSUME NEW w \in Workflow, SameSlots(w), NEW wait \in Nat,
             NEW phase \in {"wait_new_signature", "deactivate_old", "delete_old", "wait_retire"},
             transition(w, phase, wait)
      PROVE  DSParts'
  <2>1. phase \in AfterParent
    BY DEF AfterParent
  <2> QED
    BY <1>0, <1>2, <2>1, OnwardKept
<1>3. CASE AttestAgain
  BY <1>0, <1>2, <1>3, Edits, SlotEdits, WaitsAreNat DEF AttestAgain
<1>4. CASE Issue(wf, "deactivate", wf.old, "sent")
  <2>1. CASE wf.kind \in Rolls
    <3>1. parent.fast = {wf.new}
      BY <1>0, <2>1 DEF DSInv, DSParts, Announcing
    <3>2. /\ registrar.data = {wf.new} /\ Puts = {} /\ registrar.job # "pending"
          /\ call.op # Put
      BY <1>0, <2>1, <3>1, PutIsDone DEF NoCall, Put
    <3>3. wf.new \in Anchors
      BY <3>2 DEF Anchors
    <3>4. wf.old # wf.new
      BY <3>3, AnchorNumbers, DSTypes DEF DSInv, SlotInv, SlotParts, SlotBook
    <3>5. \A v \in DSVersions : wf.old \notin v
      BY <1>0, <2>1, OldIsGone DEF DSInv, Superseded
    <3>6. wf.old \notin Anchors
      BY <3>2, <3>4, <3>5 DEF Anchors
    <3> QED
      BY <1>0, <1>4, <3>6, SentKept
  <2>2. CASE wf.kind \notin Rolls
    <3>1. wf.kind = "zsk"
      BY <1>0, <2>2 DEF Rolls, DSInv, SlotInv, SlotParts, PhaseFits, TypeOK, Workflow
    <3>2. ASSUME wf.old \in Anchors PROVE FALSE
      <4>1. PICK k \in keys : k.id = wf.old /\ Signs(k)
        BY <3>2 DEF DSInv, DSParts, AnchorsHold, Stands
      <4>2. k.flags = 257 /\ wf.old # 0
        BY <4>1, DSTypes DEF Signs, KeyBook
      <4> QED
        BY <3>1, <4>1, <4>2 DEF DSInv, SlotInv, SlotParts, PhaseFits
    <3> QED
      BY <1>0, <1>4, <3>2, SentKept
  <2> QED
    BY <2>1, <2>2
<1>5. CASE SwitchOff
  BY <1>0, <1>2, <1>4, <1>5, Edits, SlotEdits, WaitsAreNat DEF SwitchOff
<1> QED
  BY <1>1, <1>3, <1>5 DEF deactivateOld

\* deleteOld deletes a key that is not active, so not an announced one.
LEMMA DeleteKept ==
  ASSUME DSInv, deleteOld
  PROVE  DSParts'
<1>0. TypeOK /\ wf.phase = "delete_old" /\ wf.phase \in AfterParent /\ call = NoCall
  BY DSTypes DEF deleteOld, Due, AfterParent
<1>1. CASE block
  BY <1>1, BlockKept
<1>2. ASSUME ~IsActive(wf.old), Issue(wf, "delete", wf.old, "sent") PROVE DSParts'
  <2>1. wf.old \notin Anchors
    BY <1>2 DEF DSInv, DSParts, AnchorsHold, Stands, Signs, IsActive
  <2> QED
    BY <1>0, <1>2, <2>1, SentKept
<1>3. ASSUME complete,
             UNCHANGED <<worldVars, call, inflight, lastID, stray, rotations, faults, strays>>
      PROVE  DSParts'
  BY <1>0, <1>3, CompleteKept
<1>4. CASE RemoveOld
  BY <1>1, <1>2, <1>3, <1>4 DEF RemoveOld
<1> QED
  BY <1>1, <1>4 DEF deleteOld

\* Resume starts the proof of publication over; the attestation stays in its
\* phase; a failed query blocks.
LEMMA OperatorKept ==
  ASSUME DSInv, Resume \/ ReconcileSplitSignerTransition \/ NoDSProbeFails
  PROVE  DSParts'
<1>0. TypeOK /\ wf \in Workflow
  BY DSTypes
<1>1. CASE Resume
  <2>1. ~[wf EXCEPT !.evidence = FALSE].evidence
    BY <1>0 DEF Workflow
  <2> QED
    BY <1>0, <1>1, <2>1, Edits, SlotEdits, TransitionKept DEF Resume, Phases, AfterParent
<1>2. CASE ReconcileSplitSignerTransition
  <2> DEFINE ttl == maxDuration(maxTTL, wf.zoneTTL)
             w == [wf EXCEPT !.attested = TRUE, !.evidence = TRUE, !.zoneTTL = ttl]
  <2>1. ttl \in Nat /\ ZoneWait(ttl) \in Nat
    <3>1. maxTTL \in Nat /\ wf.zoneTTL \in Nat
      BY <1>0, WaitsAreNat DEF Workflow
    <3> QED
      BY <3>1, WaitAssumptions DEF maxDuration, ZoneWait
  <2>2. transition(w, "wait_new_signature", ZoneWait(ttl)) /\ wf.phase = "wait_new_signature"
    BY <1>2 DEF ReconcileSplitSignerTransition
  <2> HIDE DEF ttl
  <2>3. w \in Workflow /\ SameSlots(w)
    BY <1>0, <2>1 DEF Workflow, SameSlots
  <2> HIDE DEF w
  <2> QED
    BY <2>1, <2>2, <2>3, OnwardKept DEF AfterParent
<1>3. CASE NoDSProbeFails
  <2> DEFINE w == [wf EXCEPT !.phase = "blocked", !.next = 0]
  <2>1. w \in Workflow /\ SameSlots(w) /\ w.phase = "blocked"
    BY <1>0 DEF Workflow, Phases, SameSlots
  <2>2. wf' = w /\ UNCHANGED <<worldVars, call, inflight, stray, sent>>
    BY <1>3 DEF NoDSProbeFails
  <2> HIDE DEF w
  <2>3. NewHolds(w) /\ Announcing(w)
    BY <2>1 DEF NewHolds, Announcing, AfterParent
  <2> QED
    BY <2>1, <2>2, <2>3, PersistKept
<1> QED
  BY <1>1, <1>2, <1>3

\* A workflow starts with no PUT under way; a split finds CSKs announced.
LEMMA StartKept ==
  ASSUME DSInv, BlockUnknownScheme \/ \E kind \in Kinds : Trigger(kind)
  PROVE  DSParts'
<1>0. wf \in Workflow /\ call = NoCall /\ call' = NoCall /\ wf.phase = "idle"
      /\ wf.kind = "none" /\ wf.old = 0 /\ wf.new = 0
  BY DSTypes DEF DSInv, DSParts, Announcing, SlotInv, SlotParts, PhaseFits, SlotBook,
                 BlockUnknownScheme, Trigger, start, Persist
<1>1. UNCHANGED <<keys, zoneTTL, secondary, cache, registrar, parent, inflight, stray, sent>>
  BY DEF BlockUnknownScheme, Trigger, Persist, worldVars, bookVars
<1>2. /\ wf'.phase \in {"prepublish", "blocked"} /\ wf'.new = 0 /\ wf'.old = 0
      /\ wf'.phase = "prepublish" /\ wf'.kind = "split" => keyScheme(Inventory) = "csk"
  BY <1>0 DEF BlockUnknownScheme, Trigger, start, Persist, Workflow
<1>3. Steady
  BY <1>1, SteadyAlike
<1>4. Anchors' = Anchors /\ Puts' = Puts
  BY <1>0, <1>1 DEF Anchors, DSVersions, Puts
<1>5. AnchorsHold'
  BY <1>3, <1>4, AnchorsStay
<1>6. CacheBounded' /\ AllPublished'
  BY <1>1 DEF DSInv, DSParts, CacheBounded, AllPublished
<1>7. NewHolds(wf)'
  BY <1>2 DEF NewHolds
<1>8. PutBook'
  <2>1. sent[Put] = 0
    BY <1>0 DEF DSInv, DSParts, PutBook, Rolls
  <2>2. Puts = {} /\ registrar.job # "pending" /\ parent.fast = registrar.data
    BY <2>1 DEF DSInv, DSParts, PutBook
  <2>3. 0 \notin registrar.data
    BY AnchorNumbers, DSTypes DEF Anchors
  <2>4. call'.op # Put
    BY <1>0 DEF NoCall, Put
  <2> QED
    BY <1>1, <1>2, <1>4, <2>1, <2>2, <2>3, <2>4 DEF PutBook
<1>9. Announcing(wf)'
  <2>1. ASSUME ~DynamicRoles, keyScheme(Inventory) = "csk", NEW k \in keys, k.id \in Anchors
        PROVE  k.made = "csk"
    <3>1. PICK x \in keys : x.id = k.id /\ Signs(x)
      BY <2>1 DEF DSInv, DSParts, AnchorsHold, Stands
    <3>2. k = x /\ k.made \in KeyTypes /\ k.active
      BY <3>1, DSTypes DEF KeyBook, PowerDNSKey, Signs
    <3>3. PICK l \in Inventory : l.active = k.active /\ l.keytype = Role(keys, k)
      BY ListedKey
    <3>4. l.keytype = k.made
      BY <2>1, <3>3 DEF Role
    <3>5. l \notin ActiveOf(Inventory, "ksk") \cup ActiveOf(Inventory, "zsk")
      BY <2>1 DEF keyScheme
    <3> QED
      BY <3>2, <3>3, <3>4, <3>5 DEF ActiveOf, KeyTypes
  <2> QED
    BY <1>1, <1>2, <1>4, <2>1 DEF Announcing, AfterParent
<1> QED
  BY <1>5, <1>6, <1>7, <1>8, <1>9 DEF DSParts

\* The PUT leaves; no other is under way.
LEMMA SendKept ==
  ASSUME DSInv, Send
  PROVE  DSParts'
<1>0. TypeOK /\ call.stage = "ready" /\ call.op \in OnceOps /\ call \in MadeCall
  BY DSTypes, CallMade DEF DSInv, SlotInv, OnceInv, ReadyIsOnce, Send
<1> DEFINE q == Req(call.op, call.key)
<1>1. /\ wf' = wf /\ inflight' = inflight \cup {q}
      /\ UNCHANGED <<keys, zoneTTL, secondary, cache, registrar, parent, stray>>
      /\ q.op = call.op /\ q.key = call.key
  BY DEF Send, worldVars, Req
<1>2. call'.op = call.op /\ call'.key = call.key /\ call'.stage = "sent"
  BY <1>0 DEF Send, MadeCall
<1>3. sent'[Put] = (IF call.op = Put THEN sent[Put] + 1 ELSE sent[Put]) /\ sent[Put] \in Nat
  BY <1>0 DEF Send, TypeOK, Put, OnceOps
<1> HIDE DEF q
<1>4. Puts' = IF call.op = Put THEN Puts \cup {q} ELSE Puts
  BY <1>1 DEF Puts
<1>5. Anchors' \subseteq Anchors
  BY <1>0, <1>1, <1>2, <1>4 DEF Anchors, DSVersions
<1>6. Steady
  <2>1. q.op \notin {"deactivate", "delete"}
    BY <1>0, <1>1 DEF OnceOps
  <2> QED
    BY <1>1, <2>1, SteadyAlike
<1>7. AnchorsHold'
  BY <1>5, <1>6, AnchorsStay
<1>8. CacheBounded' /\ AllPublished'
  BY <1>1 DEF DSInv, DSParts, CacheBounded, AllPublished
<1>9. NewHolds(wf)' /\ Announcing(wf)'
  BY <1>1, <1>5, <1>6 DEF DSInv, DSParts, NewHolds, Announcing, Steady
<1>10. PutBook'
  <2>1. CASE call.op # Put
    BY <1>1, <1>2, <1>3, <1>4, <2>1 DEF DSInv, DSParts, PutBook
  <2>2. CASE call.op = Put
    <3>1. wf.kind \in Rolls /\ wf.phase = "parent_remove"
      BY <2>2 DEF DSInv, DSParts, Announcing, SlotInv, SlotParts, CallFits, Put
    <3>2. sent[Put] = 0
      BY <1>0, <2>2 DEF DSInv, SlotInv, OnceInv, Once
    <3>3. Puts = {} /\ registrar.job # "pending" /\ wf.new \notin registrar.data
      BY <3>1, <3>2 DEF DSInv, DSParts, PutBook
    <3>4. sent'[Put] # 0 /\ Puts' = {q} /\ q.key = wf.new
      BY <1>1, <1>3, <1>4, <2>2, <3>2, <3>3 DEF DSInv, DSParts, PutBook
    <3> QED
      BY <1>1, <1>2, <2>2, <3>1, <3>3, <3>4 DEF DSInv, DSParts, PutBook
  <2> QED
    BY <2>1, <2>2
<1> QED
  BY <1>7, <1>8, <1>9, <1>10 DEF DSParts

\* An answered PUT leaves the workflow waiting for the parent.
LEMMA AnswerKept ==
  ASSUME DSInv, PersistAnswer
  PROVE  DSParts'
<1>0. TypeOK /\ call.stage = "answered" /\ call \in MadeCall /\ call' = NoCall
  BY DSTypes, CallMade DEF PersistAnswer
<1>1. UNCHANGED <<worldVars, inflight, stray>>
  BY DEF PersistAnswer
<1>2. CallFits /\ wf \in Workflow
  BY DSTypes DEF DSInv, SlotInv, SlotParts
<1>3. CASE call.op = "delete"
  BY <1>0, <1>1, <1>2, <1>3, CompleteKept DEF PersistAnswer, CallFits
<1>4. CASE call.op \in Creates
  <2>1. wf' = With(call.op, call.reply) /\ sent' = sent
    BY <1>4 DEF PersistAnswer, AfterAnswer, Creates
  <2>2. /\ wf.phase = "prepublish" /\ wf.old # 0 /\ call.reply \in Nat
        /\ call.reply # wf.old
    BY <1>0, <1>2, <1>4 DEF CallFits, MadeCall
  <2> QED
    BY <1>0, <1>1, <1>4, <2>1, <2>2, FilledKept
<1>5. CASE call.op \in {"update_dnssec", "activate", "deactivate"}
  <2> DEFINE w == AfterAnswer
  <2>1. w \in Workflow /\ wf' = w /\ sent' = sent
    BY <1>0, <1>5, AfterAnswerType DEF MadeCall, PersistAnswer
  <2>2. SameSlots(w)
    BY <1>2, <1>5 DEF AfterAnswer, SameSlots, Workflow
  <2>3. /\ call.op = "update_dnssec" => w.phase = "wait_parent_remove"
        /\ call.op = "activate" => w.phase = "wait_new_signature"
        /\ call.op = "deactivate" => w.phase \in {"delete_old", "wait_retire"}
    BY <1>2 DEF AfterAnswer, Workflow
  <2> HIDE DEF w
  <2>4. NewHolds(w)
    BY <1>5, <2>3 DEF NewHolds
  <2>5. Announcing(w)
    <3>1. call.op = "update_dnssec" => wf.kind \in Rolls
      BY <1>2 DEF DSInv, DSParts, Announcing, CallFits
    <3>2. call.op # "update_dnssec" /\ wf.kind \in Rolls => parent.fast = {wf.new}
      BY <1>2, <1>5 DEF DSInv, DSParts, Announcing, CallFits, AfterParent
    <3> QED
      BY <1>5, <2>2, <2>3, <3>1, <3>2 DEF Announcing, SameSlots
  <2> QED
    BY <1>0, <1>1, <1>5, <2>1, <2>2, <2>3, <2>4, <2>5, PersistKept
<1> QED
  BY <1>0, <1>3, <1>4, <1>5 DEF MadeCall, Ops, OnceOps, Creates
-----------------------------------------------------------------------------
\* A step of the services: the workflow and its attempts are as they were.
LEMMA ServicesKept ==
  ASSUME DSInv, wf' = wf, Steady, CacheBounded', AllPublished', Anchors' \subseteq Anchors,
         PutBook', Announcing(wf)'
  PROVE  DSParts'
<1>1. NewHolds(wf)'
  BY DEF DSInv, DSParts, NewHolds, Steady
<1> QED
  BY <1>1, AnchorsStay DEF DSParts

\* PowerDNS serves another image in which the keys that stood stand.
LEMMA ServeSteady ==
  ASSUME DSInv, NEW ks \in SUBSET PowerDNSKey, NEW ttl, NEW sec \in {secondary, Image(ks, ttl)},
         Serve(ks, ttl, sec), \A k \in ks : k.published /\ k.flags = flagsOf(k.made),
         \A id : Stands(id) => Stands(id)'
  PROVE  Steady
<1> SUFFICES ASSUME NEW id, NEW n, Stands(id), Covers(id, n) PROVE Covers(id, n)'
  BY DEF Steady
<1>1. keys' = ks
  BY DEF Serve
<1>2. PICK k \in ks : k.id = id /\ k.active /\ k.flags = 257
  BY <1>1 DEF Stands, Signs
<1>3. Holds(DnskeyRRset(Image(ks, ttl)), id)
  BY <1>2, SignerServed
<1> QED
  BY <1>3, DSTypes, ServeCovers

\* The list of keys changes, but no key that signs leaves it.
LEMMA KeysKept ==
  ASSUME DSInv, NEW ks \in SUBSET PowerDNSKey, Serve(ks, zoneTTL, secondary), KeyBook',
         \A k \in ks : k.published,
         \A k \in ks : k.id \in 1..lastID => \E x \in keys : x.id = k.id /\ x.made = k.made,
         \A k \in keys : Signs(k) => k \in ks /\ Signs(k)',
         UNCHANGED <<registrar, parent, wf, sent>>, Puts' = Puts,
         call'.op = call.op /\ call'.key = call.key,
         call'.stage = "ready" => call.stage = "ready"
  PROVE  DSParts'
<1>1. keys' = ks /\ CacheBounded' /\ AllPublished'
  BY DSTypes, ServeBounded DEF Serve, DSInv, DSParts, AllPublished
<1>2. Steady
  <2>1. \A id : Stands(id) => Stands(id)'
    BY <1>1 DEF Stands
  <2>2. \A k \in ks : k.flags = flagsOf(k.made)
    BY <1>1 DEF KeyBook
  <2> QED
    BY <2>1, <2>2, ServeSteady
<1>3. Anchors' \subseteq Anchors
  <2>1. cache'.ds = cache.ds
    BY DSTypes, ServeLeaves
  <2> QED
    BY <2>1 DEF Anchors, DSVersions
<1>4. PutBook'
  BY DEF DSInv, DSParts, PutBook
<1>5. Announcing(wf)'
  <2>1. ASSUME \A k \in keys : k.id \in Anchors => k.made = "csk",
               NEW k \in ks, k.id \in Anchors
        PROVE  k.made = "csk"
    <3>1. k.id \in 1..lastID
      BY <2>1, AnchorNumbers
    <3>2. PICK x \in keys : x.id = k.id /\ x.made = k.made
      BY <3>1
    <3> QED
      BY <2>1, <3>2
  <2> QED
    BY <1>1, <1>3, <2>1 DEF DSInv, DSParts, Announcing
<1> QED
  BY <1>1, <1>2, <1>3, <1>4, <1>5, ServicesKept

\* Telling a call of its answer changes neither its request nor its key.
LEMMA AnsweredAlike ==
  ASSUME TypeOK, NEW r, NEW reply
  PROVE  /\ Answered(r, reply).op = call.op /\ Answered(r, reply).key = call.key
         /\ Answered(r, reply).stage = "ready" => call.stage = "ready"
<1>1. CASE call.stage = "sent"
  <2>1. call \in MadeCall
    BY <1>1, CallMade
  <2> QED
    BY <1>1, <2>1 DEF Answered, MadeCall
<1>2. CASE call.stage # "sent"
  BY <1>2 DEF Answered
<1> QED
  BY <1>1, <1>2

\* No request that PowerDNS applies takes a standing key away.
LEMMA PowerDNSKept ==
  ASSUME DSInv, NEW r \in inflight, PowerDNSApplies(r)
  PROVE  DSParts'
<1>0. TypeOK /\ KeyBook' /\ r \in Request /\ keys \in SUBSET PowerDNSKey /\ lastID \in Nat
      /\ AllPublished
  BY DSTypes, PowerDNSKeeps, SlotNumbers DEF DSInv, DSParts, SlotParts
<1>1. /\ Serve(KeysAfter(r), zoneTTL, secondary) /\ stray' = stray
      /\ UNCHANGED <<registrar, parent, wf, sent>>
      /\ inflight' = inflight \ {r} /\ r.op # Put
  BY DEF PowerDNSApplies, Put
<1>2. Puts' = Puts
  BY <1>1 DEF Puts
<1>3. /\ call'.op = call.op /\ call'.key = call.key
      /\ call'.stage = "ready" => call.stage = "ready"
  BY <1>0, AnsweredAlike DEF PowerDNSApplies
<1>4. \A k \in keys : Signs(k) => Signs(k)'
  BY <1>1 DEF Signs
<1>5. /\ r.op = "activate" => \A k \in keys : k.id = r.key => k.flags = 256
      /\ r.op \in {"deactivate", "delete"} => \A k \in keys : Signs(k) => k.id # r.key
  BY DEF DSInv, SlotInv, SlotParts, RequestsFit, HasKey, Signs
<1>6. /\ \A k \in KeysAfter(r) : k.published
      /\ \A k \in KeysAfter(r) :
           k.id \in 1..lastID => \E x \in keys : x.id = k.id /\ x.made = k.made
      /\ \A k \in keys : Signs(k) => k \in KeysAfter(r)
  <2>1. CASE r.op \in Creates
    <3>1. KeysAfter(r) = keys \cup {NewKey(lastID + 1, r.made, r.made = "ksk")}
      BY <2>1 DEF KeysAfter, Creates
    <3>2. LET n == NewKey(lastID + 1, r.made, r.made = "ksk")
          IN n.published /\ n.id = lastID + 1
      BY DEF NewKey
    <3> QED
      BY <1>0, <3>1, <3>2 DEF AllPublished
  <2>2. CASE r.op = "delete"
    <3>1. KeysAfter(r) = {k \in keys : k.id # r.key}
      BY <2>2 DEF KeysAfter
    <3> QED
      BY <1>0, <1>5, <2>2, <3>1 DEF AllPublished
  <2>3. CASE r.op \in {"activate", "deactivate"}
    <3> DEFINE f(k) == IF k.id = r.key THEN [k EXCEPT !.active = (r.op = "activate")] ELSE k
    <3>1. KeysAfter(r) = {f(k) : k \in keys}
      BY <2>3 DEF KeysAfter
    <3>2. \A k \in keys : f(k).id = k.id /\ f(k).made = k.made /\ f(k).published = k.published
      BY <1>0 DEF PowerDNSKey
    <3>3. \A k \in keys : Signs(k) => f(k) = k
      BY <1>5, <2>3 DEF Signs
    <3> HIDE DEF f
    <3> QED
      BY <1>0, <3>1, <3>2, <3>3 DEF AllPublished
  <2> QED
    BY <1>0, <1>1, <2>1, <2>2, <2>3 DEF Request, Ops, OnceOps, Creates, Put
<1>7. KeysAfter(r) \in SUBSET PowerDNSKey
  BY <1>0, KeysAfterType
<1> QED
  BY <1>0, <1>1, <1>2, <1>3, <1>4, <1>6, <1>7, KeysKept

\* A foreign key is announced nowhere.
LEMMA StraysKept ==
  ASSUME DSInv, StrayKeyAppears \/ StrayKeyRemoved
  PROVE  DSParts'
<1>0. KeyBook /\ KeyBook' /\ keys \in SUBSET PowerDNSKey /\ lastID \in Nat /\ AllPublished
  BY DSTypes, StraysKeep DEF DSInv, DSParts, SlotParts
<1>1. UNCHANGED <<registrar, parent, wf, call, inflight, sent>>
  BY DEF StrayKeyAppears, StrayKeyRemoved
<1>2. Puts' = Puts
  BY <1>1 DEF Puts
<1>3. CASE StrayKeyAppears
  <2>1. PICK made \in {"zsk", "ksk"} :
          Serve(keys \cup {NewKey(lastID + 1, made, made = "ksk")}, zoneTTL, secondary)
    BY <1>3 DEF StrayKeyAppears
  <2> DEFINE n == NewKey(lastID + 1, made, made = "ksk")
  <2>2. n \in PowerDNSKey /\ n.published /\ n.id = lastID + 1
    BY <1>0 DEF NewKey, PowerDNSKey, flagsOf, KeyTypes
  <2>3. stray' = lastID + 1
    BY <1>3 DEF StrayKeyAppears
  <2> HIDE DEF n
  <2>4. \A k \in keys : Signs(k) => Signs(k)'
    BY <1>0, <1>1, <2>3 DEF Signs, KeyBook
  <2>5. \A k \in keys \cup {n} :
          k.published /\ (k.id \in 1..lastID => \E x \in keys : x.id = k.id /\ x.made = k.made)
    BY <1>0, <2>2 DEF AllPublished
  <2>6. Serve(keys \cup {n}, zoneTTL, secondary) /\ keys \cup {n} \in SUBSET PowerDNSKey
    BY <1>0, <2>1, <2>2 DEF n
  <2> QED
    BY <1>0, <1>1, <1>2, <2>4, <2>5, <2>6, KeysKept
<1>4. CASE StrayKeyRemoved
  <2> DEFINE ks == {k \in keys : k.id # stray}
  <2>1. Serve(ks, zoneTTL, secondary) /\ stray' = 0
    BY <1>4 DEF StrayKeyRemoved
  <2>2. \A k \in keys : Signs(k) => k \in ks /\ Signs(k)'
    BY <1>0, <1>1, <2>1 DEF Signs, KeyBook
  <2>3. \A k \in ks : k.published /\ \E x \in keys : x.id = k.id /\ x.made = k.made
    BY <1>0 DEF AllPublished
  <2>4. ks \in SUBSET PowerDNSKey
    BY <1>0
  <2> HIDE DEF ks
  <2> QED
    BY <1>0, <1>1, <1>2, <2>1, <2>2, <2>3, <2>4, KeysKept
<1> QED
  BY <1>3, <1>4

\* The registrar takes the only PUT there is.
LEMMA RegistrarKept ==
  ASSUME DSInv, NEW r \in inflight, RegistrarAccepts(r)
  PROVE  DSParts'
<1>0. TypeOK /\ RegistrarType
  BY DSTypes, WorldParts DEF TypeOK
<1>1. /\ UNCHANGED <<keys, zoneTTL, secondary, cache, parent, wf, stray, sent>>
      /\ inflight' = inflight \ {r} /\ r \in Puts
  BY DEF RegistrarAccepts, Puts, Put
<1>2. /\ r.key = wf.new /\ registrar.job # "pending" /\ wf.new \notin registrar.data
      /\ sent[Put] # 0 /\ Puts = {r}
  BY <1>1 DEF DSInv, DSParts, PutBook
<1>3. Puts' = {}
  BY <1>1, <1>2 DEF Puts
<1>4. /\ call'.op = call.op /\ call'.key = call.key
      /\ call'.stage = "ready" => call.stage = "ready"
  BY <1>0, AnsweredAlike DEF RegistrarAccepts
<1>5. \/ /\ registrar'.data = registrar.data /\ registrar'.job = "pending"
         /\ registrar'.jobData = {wf.new}
      \/ registrar'.data = {wf.new} /\ registrar'.job = registrar.job
  BY <1>0, <1>2 DEF RegistrarAccepts, RegistrarType
<1>6. Steady
  BY <1>1, SteadyAlike
<1>7. Anchors' \subseteq Anchors
  BY <1>1, <1>2, <1>3, <1>4, <1>5 DEF Anchors, DSVersions
<1>8. CacheBounded' /\ AllPublished'
  BY <1>1 DEF DSInv, DSParts, CacheBounded, AllPublished
<1>9. PutBook'
  BY <1>1, <1>2, <1>3, <1>4, <1>5 DEF DSInv, DSParts, PutBook
<1>10. Announcing(wf)'
  BY <1>1, <1>7 DEF DSInv, DSParts, Announcing
<1> QED
  BY <1>1, <1>6, <1>7, <1>8, <1>9, <1>10, ServicesKept

\* Lost requests and lost calls announce nothing.
LEMMA LossKept ==
  ASSUME DSInv, Abandon \/ UNCHANGED vars \/ \E r \in inflight : LoseRequest(r)
  PROVE  DSParts'
<1>1. /\ UNCHANGED <<keys, zoneTTL, secondary, cache, registrar, parent, wf, stray, sent>>
      /\ call' \in {call, NoCall} /\ inflight' \subseteq inflight
  BY DEF Abandon, LoseRequest, vars, worldVars
<1>2. Puts' \subseteq Puts
  BY <1>1 DEF Puts
<1>3. Anchors' \subseteq Anchors
  BY <1>1, <1>2 DEF Anchors, DSVersions, NoCall, Put
<1>4. Steady
  BY <1>1, SteadyAlike
<1>5. CacheBounded' /\ AllPublished'
  BY <1>1 DEF DSInv, DSParts, CacheBounded, AllPublished
<1>6. PutBook'
  <2>1. call'.op = Put => call'.key = wf.new
    BY <1>1 DEF DSInv, DSParts, PutBook, NoCall, Put
  <2> QED
    BY <1>1, <1>2, <2>1 DEF DSInv, DSParts, PutBook
<1>7. Announcing(wf)'
  BY <1>1, <1>3 DEF DSInv, DSParts, Announcing
<1> QED
  BY <1>1, <1>3, <1>4, <1>5, <1>6, <1>7, ServicesKept

\* The registrar finishes its job, the parent follows it, and servers serve what
\* PowerDNS has.
LEMMA WorldKept ==
  ASSUME DSInv, WorldStep
  PROVE  DSParts'
<1>0. /\ ServedType /\ ParentType /\ RegistrarType /\ CacheBounded /\ AllPublished
      /\ PutBook /\ Announcing(wf) /\ KeyBook
  BY DSTypes, WorldParts DEF TypeOK, DSInv, DSParts
<1>1. UNCHANGED <<wf, call, inflight, lastID, stray, sent>>
  BY DEF WorldStep, bookVars
<1>2. Puts' = Puts
  BY <1>1 DEF Puts
<1>3. ASSUME UNCHANGED <<keys, registrar, parent>>,
             NEW ttl \in ZoneTTLs, NEW sec \in {secondary, Image(keys, ttl)},
             Serve(keys, ttl, sec)
      PROVE  DSParts'
  <2>1. \A id : Stands(id) => Stands(id)'
    BY <1>1, <1>3 DEF Stands, Signs
  <2>2. Steady
    BY <1>0, <1>3, <2>1, DSTypes, ServeSteady DEF AllPublished, KeyBook
  <2>3. CacheBounded' /\ AllPublished'
    BY <1>0, <1>3, DSTypes, ServeBounded DEF AllPublished
  <2>4. Anchors' = Anchors
    <3>1. cache'.ds = cache.ds
      BY <1>0, <1>3, ServeLeaves
    <3> QED
      BY <1>1, <1>2, <1>3, <3>1 DEF Anchors, DSVersions
  <2>5. PutBook' /\ Announcing(wf)'
    BY <1>0, <1>1, <1>2, <1>3, <2>4 DEF PutBook, Announcing
  <2> QED
    BY <1>1, <2>2, <2>3, <2>4, <2>5, ServicesKept
<1>4. CASE SecondarySync
  BY <1>0, <1>3, <1>4, DSTypes DEF SecondarySync, Serve
<1>5. CASE ZoneEdited(MinimumZoneTTL)
  BY <1>3, <1>5 DEF ZoneEdited, Serve
<1>6. CASE RegistrarApplies \/ RegistrarFails \/ RegistrarForgetsJob
  <2>1. UNCHANGED <<keys, zoneTTL, secondary, cache, parent>>
    BY <1>6 DEF RegistrarApplies, RegistrarFails, RegistrarForgetsJob
  <2>2. /\ registrar'.job # "pending"
        /\ \/ registrar'.data = registrar.data
           \/ registrar.job = "pending" /\ registrar'.data = registrar.jobData
    BY <1>0, <1>6 DEF RegistrarApplies, RegistrarFails, RegistrarForgetsJob, RegistrarType
  <2>3. Steady
    BY <1>1, <2>1, SteadyAlike
  <2>4. Anchors' \subseteq Anchors
    BY <1>1, <1>2, <2>1, <2>2 DEF Anchors, DSVersions
  <2>5. CacheBounded' /\ AllPublished'
    BY <1>0, <2>1 DEF CacheBounded, AllPublished
  <2>6. PutBook'
    BY <1>0, <1>1, <1>2, <2>1, <2>2 DEF PutBook
  <2>7. Announcing(wf)'
    BY <1>0, <1>1, <2>1, <2>4 DEF Announcing
  <2> QED
    BY <1>1, <2>3, <2>4, <2>5, <2>6, <2>7, ServicesKept
<1>7. CASE ParentPublishes \/ ParentSync
  <2>0. PICK fast \in {registrar.data, parent.fast}, slow \in {parent.slow, parent.fast} :
          ServeDS(fast, slow)
    BY <1>7 DEF ParentPublishes, ParentSync
  <2>1. /\ UNCHANGED <<keys, zoneTTL, secondary, registrar>>
        /\ parent'.fast \in {registrar.data, parent.fast}
        /\ parent'.slow \in {parent.slow, parent.fast}
    BY <1>7, <2>0 DEF ParentPublishes, ParentSync, ServeDS
  <2>2. cache'.dnskey = cache.dnskey /\ CacheBounded'
    BY <1>0, <2>0, ServeDSLeaves, ServeDSBounded
  <2>3. Steady
    BY <1>1, <2>1, <2>2, SteadyAlike
  <2>4. Anchors' \subseteq Anchors
    <3>1. DSVersions' \subseteq DSVersions \cup {registrar.data}
      BY <1>0, <2>0, <2>1, ServeDSLeaves DEF DSVersions
    <3> QED
      BY <1>1, <1>2, <2>1, <3>1 DEF Anchors
  <2>5. AllPublished'
    BY <1>0, <2>1 DEF AllPublished
  <2>6. PutBook'
    BY <1>0, <1>1, <1>2, <2>1 DEF PutBook
  <2>7. Announcing(wf)'
    <3>1. wf.kind \in Rolls /\ parent.fast = {wf.new} => parent'.fast = {wf.new}
      BY <2>1, PutIsDone
    <3> QED
      BY <1>0, <1>1, <2>1, <2>4, <3>1 DEF Announcing
  <2> QED
    BY <1>1, <2>2, <2>3, <2>4, <2>5, <2>6, <2>7, ServicesKept
<1>8. CASE Redelegated
  <2>1. /\ UNCHANGED <<keys, zoneTTL, secondary, cache, registrar>>
        /\ parent'.fast = parent.fast /\ parent'.slow = parent.slow
    BY <1>0, <1>8, RedelegatedLeaves
  <2>2. Steady
    BY <1>1, <2>1, SteadyAlike
  <2>3. Anchors' = Anchors
    BY <1>1, <1>2, <2>1 DEF Anchors, DSVersions
  <2>4. CacheBounded' /\ AllPublished'
    BY <1>0, <2>1 DEF CacheBounded, AllPublished
  <2>5. PutBook' /\ Announcing(wf)'
    BY <1>0, <1>1, <1>2, <2>1, <2>3 DEF PutBook, Announcing
  <2> QED
    BY <1>1, <2>2, <2>3, <2>4, <2>5, ServicesKept
<1> QED
  BY <1>4, <1>5, <1>6, <1>7, <1>8 DEF WorldStep, World

\* Time: the wait of waitPublish and what caches have left grow shorter together.
LEMMA ElapseKept ==
  ASSUME DSInv, Elapse
  PROVE  DSParts'
<1>0. /\ ServedType /\ CacheBounded /\ AllPublished /\ wf \in Workflow /\ wf.next \in Nat
      /\ PutBook /\ Announcing(wf) /\ NewHolds(wf) /\ AnchorsHold /\ inflight \in SUBSET Request
      /\ ParentType
  BY DSTypes, SlotNumbers, WorldParts DEF TypeOK, DSInv, DSParts
<1>1. /\ UNCHANGED <<keys, zoneTTL, secondary, registrar, call, stray, sent>> /\ WorldElapses
      /\ parent'.fast = parent.fast /\ parent'.slow = parent.slow
  BY <1>0 DEF Elapse, WorldElapses, ParentType
<1>2. /\ wf'.kind = wf.kind /\ wf'.phase = wf.phase /\ wf'.new = wf.new /\ wf'.old = wf.old
      /\ wf'.evidence = wf.evidence
      /\ wf'.next = (IF wf.next > 0 THEN wf.next - 1 ELSE 0)
  BY <1>0 DEF Elapse, Workflow
<1> DEFINE f(r) == [r EXCEPT !.left = @ - 1]
<1>3. inflight' = {f(r) : r \in inflight} /\ \A r \in inflight : f(r).op = r.op /\ f(r).key = r.key
  BY <1>0 DEF Elapse, Request
<1> HIDE DEF f
<1>4. Puts' = {f(r) : r \in Puts} /\ \A r \in Puts : f(r).key = r.key
  BY <1>3 DEF Puts
<1>5. Anchors' \subseteq Anchors
  <2>1. \A e \in cache'.ds : \E x \in cache.ds : e.version = x.version
    BY <1>0, <1>1, ElapsedEntries
  <2>2. DSVersions' \subseteq DSVersions
    BY <1>1, <2>1 DEF DSVersions
  <2> QED
    BY <1>1, <1>4, <2>2 DEF Anchors
<1>6. \A id : Stands(id) => Stands(id)'
  <2>1. \A k \in keys : Signs(k) => Signs(k)'
    BY <1>1, <1>3 DEF Signs
  <2> QED
    BY <1>1, <2>1 DEF Stands
<1>7. AnchorsHold'
  <2>1. \A id : Covers(id, 0) => Covers(id, 0)'
    BY <1>0, <1>1, ElapseCovers
  <2> QED
    BY <1>0, <1>5, <1>6, <2>1 DEF AnchorsHold
<1>8. NewHolds(wf)'
  <2>1. \A id : \A n \in Nat : Covers(id, n) => Covers(id, IF n > 0 THEN n - 1 ELSE 0)'
    BY <1>0, <1>1, ElapseCovers
  <2>2. \A id : Covers(id, 0) => Covers(id, 0)'
    BY <2>1
  <2>3. Covers(wf.new, wf.next) => Covers(wf.new, wf.next)'
    BY <1>0, <1>2, <2>1 DEF Covers
  <2> QED
    BY <1>0, <1>2, <1>6, <2>2, <2>3 DEF NewHolds
<1>9. CacheBounded' /\ AllPublished'
  BY <1>0, <1>1, ElapseBounded DEF AllPublished
<1>10. PutBook'
  BY <1>0, <1>1, <1>2, <1>4 DEF PutBook
<1>11. Announcing(wf)'
  BY <1>0, <1>1, <1>2, <1>5 DEF Announcing
<1> QED
  BY <1>7, <1>8, <1>9, <1>10, <1>11 DEF DSParts

\* Every zone a rotation may find announces its key 1 or nothing.
LEMMA DSInit ==
  ASSUME Init
  PROVE  DSParts
<1>1. /\ wf.phase = "idle" /\ wf.kind = "none" /\ wf.old = 0 /\ wf.new = 0
      /\ call = NoCall /\ inflight = {} /\ stray = 0 /\ sent[Put] = 0
  BY DEF Init, IdleWorkflow, OnceOps, Put
<1>2. PICK z \in InitialZones : WorldInit(InitialKeys(z), InitialDS(z))
  BY DEF Init
<1>3. /\ keys = InitialKeys(z) /\ secondary = Image(keys, zoneTTL)
      /\ registrar.data \subseteq {1} /\ registrar.job = "none"
      /\ parent.fast = registrar.data /\ parent.slow = registrar.data
      /\ cache.dnskey = {} /\ cache.zone = {} /\ cache.ds = {}
  BY <1>2 DEF WorldInit, InitialDS
<1>4. CacheBounded
  BY <1>3 DEF CacheBounded
<1>5. AllPublished
  BY <1>3 DEF AllPublished, InitialKeys, NewKey
<1>6. Puts = {} /\ Anchors \subseteq {1}
  BY <1>1, <1>3 DEF Anchors, DSVersions, Puts, NoCall, Put
<1>7. AnchorsHold
  <2>1. PICK made \in {"ksk", "csk"} : NewKey(1, made, TRUE) \in keys
    BY <1>3 DEF InitialKeys
  <2> DEFINE k == NewKey(1, made, TRUE)
  <2>2. /\ k \in keys /\ k.id = 1 /\ k.active /\ k.published /\ k.flags = 257
        /\ k.flags = flagsOf(k.made)
    BY <2>1 DEF NewKey, flagsOf
  <2> HIDE DEF k
  <2>3. Stands(1)
    BY <1>1, <2>2 DEF Stands, Signs
  <2>4. keys \in SUBSET PowerDNSKey
    BY TypeInit DEF TypeOK, WorldTypeOK
  <2>5. Holds(DnskeyRRset(Image(keys, zoneTTL)), 1)
    BY <2>2, <2>4, SignerServed
  <2>6. Covers(1, 0)
    BY <1>3, <2>5 DEF Covers, Served
  <2> QED
    BY <1>6, <2>3, <2>6 DEF AnchorsHold
<1>8. NewHolds(wf) /\ Announcing(wf)
  BY <1>1 DEF NewHolds, Announcing, Rolls, AfterParent
<1>9. PutBook
  BY <1>1, <1>3, <1>6 DEF PutBook, Rolls, NoCall, Put
<1> QED
  BY <1>4, <1>5, <1>7, <1>8, <1>9 DEF DSParts

-----------------------------------------------------------------------------
(* What a step of the handlers does to the workflow                        *)

\* The key that signs the zone after the rotation of w.
SignerOf(w) == IF w.kind = "split" THEN w.zsk ELSE w.new

ZSK(k) == k.active /\ k.flags = 256
SomeZSK == \E k \in keys : ZSK(k)

Same(w) ==
  /\ w.kind = wf.kind /\ w.old = wf.old /\ w.new = wf.new /\ w.zsk = wf.zsk
  /\ w.zoneTTL = wf.zoneTTL

\* The rotation starts, from the keys its kind needs ...
Starts(w) ==
  /\ wf.phase = "idle" /\ wf.kind = "none" /\ w.old = wf.old /\ w.zoneTTL = wf.zoneTTL
  /\ w.kind \in {"zsk", "ksk", "split"}
  /\ w.phase = "blocked" \/ (w.phase = "prepublish" /\ (w.kind # "split" => SomeZSK))

\* ... fills its slots ...
Fills(w) ==
  /\ wf.phase = "prepublish" /\ w.kind = wf.kind /\ w.zoneTTL = wf.zoneTTL
  /\ w.old # wf.old => wf.old = 0
  /\ w.phase = "prepublish" \/ (w.phase = "wait_publish" /\ ~w.evidence)

\* ... sees its keys published and waits for caches ...
SeesKeys(w) ==
  /\ Same(w) /\ wf.phase = "wait_publish" /\ w.phase = "wait_publish"
  /\ validatePrepublishInventory(Inventory, wf)
  /\ AuthoritativeDNSKEYEvidence(publishedKeys(Inventory))
  /\ w.evidence /\ w.next = PublishWait

SeesKeysAgain(w) ==
  /\ Same(w) /\ wf.phase = "wait_publish" /\ wf.evidence /\ wf.next = 0
  /\ validatePrepublishInventory(Inventory, wf)
  /\ w.phase = IF wf.kind = "zsk" THEN "activate_new" ELSE "parent_remove"

\* ... tells the registrar, sees the new DS and waits for caches ...
AsksParent(w) ==
  Same(w) /\ wf.phase = "parent_remove" /\ w.phase = "wait_parent_remove" /\ ~w.evidence

SeesDS(w) ==
  /\ Same(w) /\ wf.phase = "wait_parent_remove" /\ w.phase = "wait_parent_remove"
  /\ parent.fast = {wf.new} /\ w.evidence /\ w.next = ParentWait

SeesDSAgain(w) ==
  /\ Same(w) /\ wf.phase = "wait_parent_remove" /\ wf.evidence /\ wf.next = 0
  /\ w.phase = IF wf.kind = "split" THEN "activate_new" ELSE "deactivate_old"

\* ... switches the new signer on, sees its signatures and records the TTL they
\* have to outlive ...
Activates(w) == Same(w) /\ wf.phase = "activate_new" /\ w.phase = "wait_new_signature"

Signing == {"wait_new_signature", "deactivate_old"}
SeesSignature(w) ==
  /\ w.kind = wf.kind /\ w.old = wf.old /\ w.new = wf.new /\ w.zsk = wf.zsk
  /\ wf.phase \in Signing /\ w.phase \in Signing
  /\ \/ w.zoneTTL = wf.zoneTTL
     \/ /\ wf.kind # "ksk" => AuthoritativeRRSIGBy(SignerOf(wf))
        /\ w.zoneTTL >= maxTTL /\ w.zoneTTL >= wf.zoneTTL
  /\ w.phase = "deactivate_old" /\ wf.phase # "deactivate_old" => wf.zoneTTL # 0

\* ... switches the old key off, waits for caches and ends.
Retires(w) ==
  /\ Same(w) /\ wf.phase = "deactivate_old"
  /\ w.phase = IF wf.kind = "ksk" THEN "delete_old" ELSE "wait_retire"
  /\ wf.kind # "ksk" => w.next = ZoneWait(wf.zoneTTL)

Deletes(w) == Same(w) /\ wf.phase = "wait_retire" /\ wf.next = 0 /\ w.phase = "delete_old"

Ends(w) == wf.phase = "delete_old" /\ ~HasKey(keys, wf.old) /\ w = IdleWorkflow

\* It may stop, be resumed, or stay where it is.
Stops(w) == Same(w) /\ w.phase = "blocked"

Resumes(w) ==
  /\ Same(w) /\ wf.kind = "split"
  /\ wf.phase = "blocked" /\ w.phase = "wait_publish" /\ ~w.evidence

Stays(w) ==
  Same(w) /\ w.phase = wf.phase /\ w.evidence = wf.evidence /\ w.next = wf.next

Walks(w) ==
  \/ Starts(w) \/ Fills(w) \/ SeesKeys(w) \/ SeesKeysAgain(w)
  \/ AsksParent(w) \/ SeesDS(w) \/ SeesDSAgain(w)
  \/ Activates(w) \/ SeesSignature(w) \/ Retires(w) \/ Deletes(w) \/ Ends(w)
  \/ Stops(w) \/ Resumes(w) \/ Stays(w)

\* What a handler may send: the activation of the new signer, the deactivation of
\* the old key when the new one signs, the deletion of one that is not active.
MaySend(r) ==
  \/ r.op \in OnceOps
  \/ r.op = "activate" /\ wf.phase = "activate_new" /\ r.key = SignerOf(wf) /\ HasKey(keys, r.key)
  \/ /\ r.op = "deactivate" /\ wf.phase = "deactivate_old" /\ r.key = wf.old
     /\ wf.kind # "ksk" => AuthoritativeRRSIGBy(SignerOf(wf))
  \/ /\ r.op = "delete" /\ wf.phase = "delete_old" /\ r.key = wf.old /\ ~IsActive(wf.old)
     /\ wf.kind = "ksk" => \A k \in keys : k.id = wf.old => k.flags = 257

HandlerStep ==
  /\ UNCHANGED worldVars
  /\ stray' \in {stray, 0}
  /\ Walks(wf')
  /\ \A r \in inflight' : r \in inflight \/ (MaySend(r) /\ Stays(wf'))
                          \/ r.op \in OnceOps

\* Only a listed zsk is a key with the flags of one, however roles are reported.
LEMMA ListedZSK ==
  ASSUME TypeOK, KeyBook, NEW l \in ActiveOf(Inventory, "zsk")
  PROVE  \E k \in keys : k.id = l.id /\ ZSK(k)
<1>1. l \in Inventory /\ l.active /\ l.keytype = "zsk"
  BY DEF ActiveOf
<1>2. PICK k \in keys : k.id = l.id /\ k.active = l.active /\ l.keytype = Role(keys, k)
  BY <1>1, ListedKey
<1>3. k.flags = flagsOf(k.made) /\ k.flags \in {256, 257} /\ Role(keys, k) = "zsk"
  BY <1>1, <1>2, SlotNumbers DEF KeyBook, PowerDNSKey
<1>4. k.flags = 256
  BY <1>3 DEF Role, flagsOf
<1> QED
  BY <1>1, <1>2, <1>4 DEF ZSK

\* One active key of a role is some active key.
LEMMA OneIsSome ==
  ASSUME KeyBook, NEW typ, exactlyOneActive(Inventory, typ)
  PROVE  ActiveOf(Inventory, typ) # {}
<1>1. Cardinality({}) = 0
  BY FS_EmptySet
<1> QED
  BY <1>1 DEF exactlyOneActive

\* The fields of the workflow that a transition persists.
LEMMA TransitionFields ==
  ASSUME NEW w \in Workflow, NEW phase \in Phases, NEW wait \in Nat, transition(w, phase, wait)
  PROVE  /\ wf'.kind = w.kind /\ wf'.old = w.old /\ wf'.new = w.new /\ wf'.zsk = w.zsk
         /\ wf'.zoneTTL = w.zoneTTL /\ wf'.evidence = w.evidence
         /\ wf'.phase = phase /\ wf'.next = wait
         /\ UNCHANGED <<worldVars, call, inflight, stray>>
BY DEF transition, Persist, bookVars, Workflow

\* The fields that the edits before a transition leave alone.
LEMMA EditedFields ==
  ASSUME wf \in Workflow
  PROVE  /\ \A e \in BOOLEAN : LET w == [wf EXCEPT !.evidence = e]
                               IN Same(w) /\ w.evidence = e
         /\ LET w == [wf EXCEPT !.ctid = TRUE] IN Same(w) /\ w.evidence = wf.evidence
         /\ LET w == [wf EXCEPT !.job = "done"] IN Same(w) /\ w.evidence = wf.evidence
         /\ Same(wf)
BY DEF Workflow, Same

\* A step that sends nothing.
LEMMA NothingSent ==
  ASSUME UNCHANGED <<worldVars, stray>>, inflight' \subseteq inflight, Walks(wf')
  PROVE  HandlerStep
BY DEF HandlerStep

\* block is a stop.
LEMMA BlockStep ==
  ASSUME TypeOK, block
  PROVE  HandlerStep
<1>1. Same(wf') /\ wf'.phase = "blocked" /\ UNCHANGED <<worldVars, stray, inflight>>
  BY DEF block, Persist, bookVars, TypeOK, Workflow, Same
<1>2. Walks(wf')
  BY <1>1 DEF Walks, Stops
<1> QED
  BY <1>1, <1>2, NothingSent

\* A request that is issued at once, the workflow as it was.
LEMMA SentStep ==
  ASSUME TypeOK, NEW op \in {"activate", "deactivate", "delete"}, NEW key,
         Issue(wf, op, key, "sent"), MaySend([op |-> op, key |-> key])
  PROVE  HandlerStep
<1>1. /\ wf' = wf /\ UNCHANGED <<worldVars, stray>>
      /\ inflight' = inflight \cup {Req(op, key)}
  BY DEF Issue
<1>2. Req(op, key).op = op /\ Req(op, key).key = key
  BY DEF Req
<1>3. MaySend(Req(op, key))
  BY <1>2 DEF MaySend
<1>4. Stays(wf')
  BY <1>1 DEF Stays, Same
<1>5. Walks(wf')
  BY <1>4 DEF Walks
<1> QED
  BY <1>1, <1>3, <1>4, <1>5 DEF HandlerStep

\* An intent that is persisted leaves the phase as it was.
LEMMA ReadyStep ==
  ASSUME NEW w, NEW op, NEW key, Issue(w, op, key, "ready"), Walks(w)
  PROVE  HandlerStep
BY NothingSent DEF Issue

\* Trigger finds the keys of its kind, or reconcileZone stops a zone that has none.
LEMMA StartStep ==
  ASSUME DSInv, BlockUnknownScheme \/ \E kind \in Kinds : Trigger(kind)
  PROVE  HandlerStep
<1>0. wf \in Workflow /\ wf.phase = "idle" /\ wf.kind = "none" /\ TypeOK /\ KeyBook
  BY DSTypes DEF DSInv, DSParts, Announcing, BlockUnknownScheme, Trigger, start
<1>1. UNCHANGED <<worldVars, inflight, stray>>
  BY DEF BlockUnknownScheme, Trigger, Persist, bookVars
<1>2. CASE BlockUnknownScheme
  <2>1. Starts(wf')
    BY <1>0, <1>2 DEF BlockUnknownScheme, Persist, Starts, Workflow
  <2> QED
    BY <1>1, <2>1, NothingSent DEF Walks
<1>3. ASSUME NEW kind \in Kinds, Trigger(kind) PROVE HandlerStep
  <2>1. kind \in {"zsk", "ksk", "split"}
    BY RotationAssumptions
  <2>2. kind # "split" => exactlyOneActive(Inventory, "zsk")
    BY <1>3 DEF Trigger, keyScheme
  <2>3. kind # "split" => SomeZSK
    BY <1>0, <2>2, OneIsSome, ListedZSK DEF SomeZSK
  <2>4. Starts(wf')
    BY <1>0, <1>3, <2>1, <2>3 DEF Trigger, start, Starts, Workflow
  <2> QED
    BY <1>1, <2>4, NothingSent DEF Walks
<1> QED
  BY <1>2, <1>3

\* Slots are filled in prepublish.
LEMMA FillsWith ==
  ASSUME wf \in Workflow, wf.phase = "prepublish", NEW op, NEW id
  PROVE  Fills(With(op, id))
BY DEF With, WithNewKey, WithNewZSK, Fills, Workflow

\* prepublish fills slots.
LEMMA PrepublishStep ==
  ASSUME DSInv, prepublish
  PROVE  HandlerStep
<1>0. TypeOK /\ wf.phase = "prepublish" /\ wf \in Workflow
  BY DSTypes DEF prepublish, Due
<1>1. CASE block
  BY <1>0, <1>1, BlockStep
<1>2. ASSUME NEW w \in Workflow, w.kind = wf.kind, w.zoneTTL = wf.zoneTTL,
             w.old # wf.old => wf.old = 0,
             NEW phase \in {"prepublish", "wait_publish"},
             phase = "wait_publish" => ~w.evidence, transition(w, phase, 0)
      PROVE  HandlerStep
  <2>1. phase \in Phases /\ 0 \in Nat
    BY DEF Phases
  <2>2. /\ wf'.kind = wf.kind /\ wf'.zoneTTL = wf.zoneTTL /\ wf'.old = w.old
        /\ wf'.evidence = w.evidence /\ wf'.phase = phase
        /\ UNCHANGED <<worldVars, inflight, stray>>
    BY <1>2, <2>1, TransitionFields
  <2>3. Fills(wf')
    BY <1>0, <1>2, <2>2 DEF Fills
  <2> QED
    BY <2>2, <2>3, NothingSent DEF Walks
<1>3. ASSUME wf.old = 0, NEW typ, RecordOld(typ) PROVE HandlerStep
  <2>1. ASSUME NEW k \in ActiveOf(Inventory, typ),
               transition([wf EXCEPT !.old = k.id], "prepublish", 0)
        PROVE  HandlerStep
    <3>1. k.id \in Nat
      BY <1>0, ListedIDs DEF ActiveOf
    <3>2. LET w == [wf EXCEPT !.old = k.id]
          IN w \in Workflow /\ w.kind = wf.kind /\ w.zoneTTL = wf.zoneTTL
      BY <1>0, <3>1 DEF Workflow
    <3> QED
      BY <1>2, <1>3, <2>1, <3>2
  <2> QED
    BY <1>1, <1>3, <2>1 DEF RecordOld
<1>4. CASE ClassifyParent
  <2>1. ASSUME NEW m \in {"existing", "initial"},
               transition([wf EXCEPT !.mode = m], "prepublish", 0)
        PROVE  HandlerStep
    <3>1. LET w == [wf EXCEPT !.mode = m]
          IN w \in Workflow /\ w.kind = wf.kind /\ w.zoneTTL = wf.zoneTTL /\ w.old = wf.old
      BY <1>0 DEF Workflow
    <3> QED
      BY <1>2, <2>1, <3>1
  <2> QED
    BY <1>1, <1>4, <2>1 DEF ClassifyParent
<1>5. CASE transition([wf EXCEPT !.evidence = FALSE], "wait_publish", 0)
  <2>1. LET w == [wf EXCEPT !.evidence = FALSE]
        IN w \in Workflow /\ w.kind = wf.kind /\ w.zoneTTL = wf.zoneTTL /\ w.old = wf.old
           /\ ~w.evidence
    BY <1>0 DEF Workflow
  <2> QED
    BY <1>2, <1>5, <2>1
<1>6. ASSUME NEW typ, NEW active, NEW op, NEW other, adoptOrCreate(typ, active, other, op)
      PROVE  HandlerStep
  <2>1. ASSUME NEW id, Adopt(With(op, id), id) PROVE HandlerStep
    <3>1. UNCHANGED <<worldVars, inflight>> /\ stray' \in {stray, 0} /\ Fills(wf')
      BY <1>0, <2>1, FillsWith DEF Adopt
    <3> QED
      BY <3>1 DEF HandlerStep, Walks
  <2>2. ASSUME Issue(WithAttempt(op), op, 0, "ready") PROVE HandlerStep
    <3>1. Stays(WithAttempt(op))
      BY <1>0 DEF WithAttempt, Stays, Same, Workflow
    <3> QED
      BY <2>2, <3>1, ReadyStep DEF Walks
  <2> QED
    BY <1>6, <2>1, <2>2 DEF adoptOrCreate
<1> QED
  BY <1>1, <1>3, <1>4, <1>5, <1>6 DEF prepublish

\* waitPublish sees the keys, and sees them again.
LEMMA WaitPublishStep ==
  ASSUME DSInv, waitPublish
  PROVE  HandlerStep
<1>0. TypeOK /\ wf.phase = "wait_publish" /\ wf.next = 0 /\ wf \in Workflow /\ 0 \in Nat
  BY DSTypes DEF waitPublish, Due
<1>1. CASE block
  BY <1>0, <1>1, BlockStep
<1>2. AuthoritativeDNSKEYEvidence(publishedKeys(Inventory)) \/ ~DNSKEYsVisible
  BY DEF DNSKEYsVisible, DNSKEYEvidence
<1>3. ASSUME validatePrepublishInventory(Inventory, wf), DNSKEYsVisible,
             transition([wf EXCEPT !.evidence = TRUE], "wait_publish", PublishWait)
      PROVE  HandlerStep
  <2>1. /\ Same(wf') /\ wf'.phase = "wait_publish" /\ wf'.evidence /\ wf'.next = PublishWait
        /\ UNCHANGED <<worldVars, inflight, stray>>
    BY <1>0, <1>3, Edits, EditedFields, WaitsAreNat, TransitionFields DEF Phases, Same
  <2>2. SeesKeys(wf')
    BY <1>0, <1>2, <1>3, <2>1 DEF SeesKeys
  <2> QED
    BY <2>1, <2>2, NothingSent DEF Walks
<1>4. ASSUME validatePrepublishInventory(Inventory, wf), wf.evidence,
             transition([wf EXCEPT !.evidence = FALSE],
                        IF wf.kind = "zsk" THEN "activate_new" ELSE "parent_remove", 0)
      PROVE  HandlerStep
  <2> DEFINE phase == IF wf.kind = "zsk" THEN "activate_new" ELSE "parent_remove"
  <2>1. phase \in Phases
    BY DEF Phases
  <2>2. Same(wf') /\ wf'.phase = phase /\ UNCHANGED <<worldVars, inflight, stray>>
    BY <1>0, <1>4, <2>1, Edits, EditedFields, TransitionFields DEF Same
  <2>3. SeesKeysAgain(wf')
    BY <1>0, <1>4, <2>2 DEF SeesKeysAgain
  <2> QED
    BY <2>2, <2>3, NothingSent DEF Walks
<1> QED
  BY <1>1, <1>3, <1>4 DEF waitPublish

\* parentReplace asks the parent, at most.
LEMMA ParentReplaceStep ==
  ASSUME DSInv, RecordCTID \/ parentReplace
  PROVE  HandlerStep
<1>0. TypeOK /\ wf.phase = "parent_remove" /\ wf \in Workflow /\ wf.next = 0 /\ 0 \in Nat
  BY DSTypes DEF RecordCTID, parentReplace, ReadyForParent, Due
<1>1. CASE block
  BY <1>0, <1>1, BlockStep
<1>2. CASE transition([wf EXCEPT !.ctid = TRUE], "parent_remove", 0)
  <2>1. /\ Same(wf') /\ wf'.phase = wf.phase /\ wf'.evidence = wf.evidence
        /\ wf'.next = wf.next /\ UNCHANGED <<worldVars, inflight, stray>>
    BY <1>0, <1>2 DEF transition, Persist, bookVars, Workflow, Same
  <2> QED
    BY <2>1, NothingSent DEF Walks, Stays
<1>3. CASE transition([wf EXCEPT !.evidence = FALSE], "wait_parent_remove", 0)
  <2>1. /\ Same(wf') /\ wf'.phase = "wait_parent_remove" /\ ~wf'.evidence
        /\ UNCHANGED <<worldVars, inflight, stray>>
    BY <1>0, <1>3 DEF transition, Persist, bookVars, Workflow, Same
  <2> QED
    BY <1>0, <2>1, NothingSent DEF Walks, AsksParent
<1>4. CASE Issue(WithRegistrarAttempt, "update_dnssec", wf.new, "ready")
  <2>1. Stays(WithRegistrarAttempt)
    BY <1>0 DEF WithRegistrarAttempt, Stays, Same, Workflow
  <2> QED
    BY <1>4, <2>1, ReadyStep DEF Walks
<1> QED
  BY <1>1, <1>2, <1>3, <1>4 DEF RecordCTID, parentReplace

\* waitParentReplace sees the DS, and sees it again.
LEMMA WaitParentStep ==
  ASSUME DSInv, waitParentReplace
  PROVE  HandlerStep
<1>0. TypeOK /\ wf.phase = "wait_parent_remove" /\ wf \in Workflow /\ wf.next = 0 /\ 0 \in Nat
  BY DSTypes DEF waitParentReplace, Due
<1>1. CASE block
  BY <1>0, <1>1, BlockStep
<1>2. CASE FollowJob
  <2>1. CASE transition([wf EXCEPT !.job = "done"], "wait_parent_remove", 0)
    <3>1. /\ Same(wf') /\ wf'.phase = wf.phase /\ wf'.evidence = wf.evidence
          /\ wf'.next = wf.next /\ UNCHANGED <<worldVars, inflight, stray>>
      BY <1>0, <2>1 DEF transition, Persist, bookVars, Workflow, Same
    <3> QED
      BY <3>1, NothingSent DEF Walks, Stays
  <2> QED
    BY <1>1, <1>2, <2>1 DEF FollowJob
<1>3. CASE AwaitDS
  <2>0. parent.fast = {wf.new}
    BY <1>3 DEF AwaitDS, AuthoritativeDSEvidence
  <2>1. CASE transition([wf EXCEPT !.evidence = TRUE], "wait_parent_remove", ParentWait)
    <3>1. /\ Same(wf') /\ wf'.phase = "wait_parent_remove" /\ wf'.evidence
          /\ wf'.next = ParentWait /\ UNCHANGED <<worldVars, inflight, stray>>
      BY <1>0, <2>1, Edits, EditedFields, WaitsAreNat, TransitionFields DEF Same, Phases
    <3> QED
      BY <1>0, <2>0, <3>1, NothingSent DEF Walks, SeesDS
  <2>2. ASSUME wf.evidence,
               transition([wf EXCEPT !.evidence = FALSE],
                          IF wf.kind = "split" THEN "activate_new" ELSE "deactivate_old", 0)
        PROVE  HandlerStep
    <3> DEFINE phase == IF wf.kind = "split" THEN "activate_new" ELSE "deactivate_old"
    <3>1. phase \in Phases
      BY DEF Phases
    <3>2. Same(wf') /\ wf'.phase = phase /\ UNCHANGED <<worldVars, inflight, stray>>
      BY <1>0, <2>2, <3>1, Edits, EditedFields, TransitionFields DEF Same
    <3>3. SeesDSAgain(wf')
      BY <1>0, <2>2, <3>2 DEF SeesDSAgain
    <3> QED
      BY <3>2, <3>3, NothingSent DEF Walks
  <2> QED
    BY <1>1, <1>3, <2>1, <2>2 DEF AwaitDS
<1> QED
  BY <1>1, <1>2, <1>3 DEF waitParentReplace

\* activateNew sends the activation, or finds it done.
LEMMA ActivateStep ==
  ASSUME DSInv, activateNew
  PROVE  HandlerStep
<1>0. TypeOK /\ wf.phase = "activate_new" /\ wf \in Workflow /\ NewSigner = SignerOf(wf)
      /\ 0 \in Nat
  BY DSTypes DEF activateNew, Due, NewSigner, SignerOf
<1>1. CASE block
  BY <1>0, <1>1, BlockStep
<1>2. CASE transition([wf EXCEPT !.evidence = FALSE], "wait_new_signature", 0)
  <2>1. /\ Same(wf') /\ wf'.phase = "wait_new_signature"
        /\ UNCHANGED <<worldVars, inflight, stray>>
    BY <1>0, <1>2, Edits, EditedFields, TransitionFields DEF Same, Phases
  <2> QED
    BY <1>0, <2>1, NothingSent DEF Walks, Activates
<1>3. ASSUME HasKey(keys, NewSigner), Issue(wf, "activate", NewSigner, "sent")
      PROVE  HandlerStep
  <2>1. MaySend([op |-> "activate", key |-> NewSigner])
    BY <1>0, <1>3 DEF MaySend
  <2> QED
    BY <1>0, <1>3, <2>1, SentStep
<1> QED
  BY <1>1, <1>2, <1>3 DEF activateNew

\* The signatures were seen when the TTL is recorded.
LEMMA SignerTransition ==
  ASSUME DSInv, wf.phase \in Signing, NEW w \in Workflow, NEW phase \in Signing, NEW wait \in Nat,
         transition(w, phase, wait), SameSlots(w),
         \/ w.zoneTTL = wf.zoneTTL
         \/ /\ wf.kind # "ksk" => RRSIGBy(NewSigner)
            /\ w.zoneTTL >= maxTTL /\ w.zoneTTL >= wf.zoneTTL,
         phase = "deactivate_old" /\ wf.phase # "deactivate_old" => wf.zoneTTL # 0
  PROVE  HandlerStep
<1>1. phase \in Phases
  BY DEF Signing, Phases
<1>2. /\ wf'.kind = wf.kind /\ wf'.old = wf.old /\ wf'.new = wf.new /\ wf'.zsk = wf.zsk
      /\ wf'.zoneTTL = w.zoneTTL /\ wf'.phase = phase
      /\ UNCHANGED <<worldVars, inflight, stray>>
  BY <1>1, TransitionFields DEF SameSlots
<1>3. RRSIGBy(NewSigner) => AuthoritativeRRSIGBy(SignerOf(wf))
  BY DEF RRSIGBy, NewSigner, SignerOf
<1>4. SeesSignature(wf')
  BY <1>2, <1>3 DEF SeesSignature
<1> QED
  BY <1>2, <1>4, NothingSent DEF Walks

\* The edits of the signer's phases.
LEMMA SignerEdits ==
  ASSUME TypeOK
  PROVE  /\ \A e \in BOOLEAN : [wf EXCEPT !.evidence = e].zoneTTL = wf.zoneTTL
         /\ [wf EXCEPT !.zoneTTL = maxTTL].zoneTTL = maxTTL
         /\ [wf EXCEPT !.zoneTTL = maxTTL, !.evidence = TRUE].zoneTTL = maxTTL
         /\ maxTTL \in Nat /\ maxTTL >= maxTTL /\ wf.zoneTTL \in Nat
BY WaitsAreNat DEF TypeOK, Workflow

\* waitNewSignature sees the new signatures and records the TTL.
LEMMA WaitSignatureStep ==
  ASSUME DSInv, waitNewSignature
  PROVE  HandlerStep
<1>0. /\ TypeOK /\ wf.phase = "wait_new_signature" /\ wf.phase \in Signing
      /\ {"wait_new_signature", "deactivate_old"} = Signing /\ wf.zoneTTL \in Nat
      /\ maxTTL \in Nat /\ 0 \in Nat
  BY DSTypes, WaitsAreNat DEF waitNewSignature, Due, Signing, Workflow
<1>1. CASE block
  BY <1>0, <1>1, BlockStep
<1>2. ASSUME RRSIGBy(NewSigner), SignatureSeen PROVE HandlerStep
  <2>1. CASE transition([wf EXCEPT !.zoneTTL = maxTTL], "wait_new_signature", 0)
             /\ wf.zoneTTL = 0
    <3>1. LET w == [wf EXCEPT !.zoneTTL = maxTTL]
          IN w \in Workflow /\ SameSlots(w) /\ w.zoneTTL >= maxTTL /\ w.zoneTTL >= wf.zoneTTL
      BY <1>0, <2>1, Edits, SlotEdits, SignerEdits
    <3> QED
      BY <1>0, <1>2, <2>1, <3>1, SignerTransition
  <2>2. CASE transition([wf EXCEPT !.evidence = TRUE], "wait_new_signature",
                        ZoneWait(wf.zoneTTL))
    BY <1>0, <2>2, Edits, SlotEdits, SignerEdits, WaitsAreNat, SignerTransition
  <2>3. CASE AttestAgain /\ maxTTL > wf.zoneTTL
    <3>1. LET w == [wf EXCEPT !.zoneTTL = maxTTL, !.evidence = TRUE]
          IN w \in Workflow /\ SameSlots(w) /\ w.zoneTTL >= maxTTL /\ w.zoneTTL >= wf.zoneTTL
      BY <1>0, <2>3, Edits, SlotEdits, SignerEdits
    <3> QED
      BY <1>0, <1>2, <2>3, <3>1, WaitsAreNat, SignerTransition DEF AttestAgain
  <2>4. CASE transition([wf EXCEPT !.evidence = FALSE], "deactivate_old", 0)
             /\ wf.zoneTTL # 0
    BY <1>0, <2>4, Edits, SlotEdits, SignerEdits, SignerTransition
  <2> QED
    BY <1>1, <1>2, <2>1, <2>2, <2>3, <2>4 DEF SignatureSeen
<1> QED
  BY <1>1, <1>2 DEF waitNewSignature

\* deactivateOld switches the old key off only where the new signer signs.
LEMMA DeactivateStep ==
  ASSUME DSInv, deactivateOld
  PROVE  HandlerStep
<1>0. /\ TypeOK /\ wf.phase = "deactivate_old" /\ wf.phase \in Signing /\ wf \in Workflow
      /\ {"wait_new_signature", "deactivate_old"} = Signing /\ wf.zoneTTL \in Nat
      /\ maxTTL \in Nat /\ 0 \in Nat
      /\ wf.kind \in {"zsk", "ksk", "split"}
  BY DSTypes, WaitsAreNat DEF deactivateOld, Due, Signing, Workflow, DSInv, SlotInv, SlotParts,
                              PhaseFits
<1>1. CASE block
  BY <1>0, <1>1, BlockStep
<1>2. ASSUME wf.attested, validateActiveSplitInventory(Inventory, wf), SignerTransitionEvidence,
             maxTTL > wf.zoneTTL, AttestAgain
      PROVE  HandlerStep
  <2>1. RRSIGBy(NewSigner)
    BY <1>2 DEF SignerTransitionEvidence, validateActiveSplitInventory,
                validateSplitMutationInventory, NewSigner
  <2>2. LET w == [wf EXCEPT !.zoneTTL = maxTTL, !.evidence = TRUE]
        IN w \in Workflow /\ SameSlots(w) /\ w.zoneTTL >= maxTTL /\ w.zoneTTL >= wf.zoneTTL
    BY <1>0, <1>2, Edits, SlotEdits, SignerEdits
  <2> QED
    BY <1>0, <1>2, <2>1, <2>2, WaitsAreNat, SignerTransition DEF AttestAgain
<1>3. CASE SwitchOff
  <2>1. wf.kind # "ksk" => RRSIGBy(NewSigner)
    BY <1>0, <1>3 DEF SwitchOff, DeactivationEvidence, NewSigner
  <2>2. CASE /\ maxTTL > wf.zoneTTL
             /\ transition([wf EXCEPT !.zoneTTL = maxTTL, !.evidence = TRUE],
                           "deactivate_old", ZoneWait(maxTTL))
    <3>1. LET w == [wf EXCEPT !.zoneTTL = maxTTL, !.evidence = TRUE]
          IN w \in Workflow /\ SameSlots(w) /\ w.zoneTTL >= maxTTL /\ w.zoneTTL >= wf.zoneTTL
      BY <1>0, <2>2, Edits, SlotEdits, SignerEdits
    <3> QED
      BY <1>0, <2>1, <2>2, <3>1, WaitsAreNat, SignerTransition
  <2>3. CASE Issue(wf, "deactivate", wf.old, "sent")
    <3>1. MaySend([op |-> "deactivate", key |-> wf.old])
      BY <1>0, <2>1 DEF MaySend, RRSIGBy, NewSigner, SignerOf
    <3> QED
      BY <1>0, <2>3, <3>1, SentStep
  <2>4. ASSUME NEW phase, NEW wait \in Nat, transition(wf, phase, wait),
               phase = (IF wf.kind = "ksk" THEN "delete_old" ELSE "wait_retire"),
               wf.kind # "ksk" => wait = ZoneWait(wf.zoneTTL)
        PROVE  HandlerStep
    <3>1. phase \in Phases
      BY <2>4 DEF Phases
    <3>2. Same(wf') /\ wf'.phase = phase /\ wf'.next = wait
          /\ UNCHANGED <<worldVars, inflight, stray>>
      BY <1>0, <2>4, <3>1, EditedFields, TransitionFields DEF Same
    <3>3. Retires(wf')
      BY <1>0, <2>4, <3>2 DEF Retires
    <3> QED
      BY <3>2, <3>3, NothingSent DEF Walks
  <2> QED
    BY <1>0, <1>3, <2>2, <2>3, <2>4, WaitsAreNat DEF SwitchOff
<1> QED
  BY <1>1, <1>2, <1>3 DEF deactivateOld

\* waitRetire goes on when its wait is over.
LEMMA RetireStep ==
  ASSUME DSInv, waitRetire
  PROVE  HandlerStep
<1>0. TypeOK /\ wf.phase = "wait_retire" /\ wf \in Workflow /\ wf.next = 0
  BY DSTypes DEF waitRetire, Due
<1>1. CASE block
  BY <1>0, <1>1, BlockStep
<1>2. CASE transition(wf, "delete_old", 0)
  <2>1. Same(wf') /\ wf'.phase = "delete_old" /\ UNCHANGED <<worldVars, inflight, stray>>
    BY <1>0, <1>2 DEF transition, Persist, bookVars, Workflow, Same
  <2> QED
    BY <1>0, <2>1, NothingSent DEF Walks, Deletes
<1> QED
  BY <1>1, <1>2 DEF waitRetire

\* deleteOld deletes a key that is not active, or ends.
LEMMA DeleteStep ==
  ASSUME DSInv, deleteOld
  PROVE  HandlerStep
<1>0. TypeOK /\ wf.phase = "delete_old" /\ wf \in Workflow
  BY DSTypes DEF deleteOld, Due
<1>1. CASE block
  BY <1>0, <1>1, BlockStep
<1>2. ASSUME ReplacementInService, ~IsActive(wf.old), Issue(wf, "delete", wf.old, "sent")
      PROVE  HandlerStep
  <2>1. ASSUME wf.kind = "ksk", NEW k \in keys, k.id = wf.old PROVE k.flags = 257
    <3>1. PICK l \in Inventory : k.id = l.id /\ k.flags = l.flags
      BY ListedKey
    <3>2. validatedKeyRole(l, "ksk", FALSE)
      BY <1>2, <2>1, <3>1 DEF ReplacementInService, retirementInventory
    <3> QED
      BY <3>1, <3>2 DEF validatedKeyRole, flagsOf
  <2>2. MaySend([op |-> "delete", key |-> wf.old])
    BY <1>0, <1>2, <2>1 DEF MaySend
  <2> QED
    BY <1>0, <1>2, <2>2, SentStep
<1>3. ASSUME ~HasKey(keys, wf.old), complete, UNCHANGED <<worldVars, inflight, stray>>
      PROVE  HandlerStep
  BY <1>0, <1>3, NothingSent DEF complete, Walks, Ends
<1>4. ASSUME ReplacementInService, RemoveOld PROVE HandlerStep
  BY <1>1, <1>2, <1>3, <1>4 DEF RemoveOld
<1> QED
  BY <1>1, <1>4 DEF deleteOld

\* An intent that is sent is one of the writes made once.
LEMMA SendStep ==
  ASSUME DSInv, Send
  PROVE  HandlerStep
<1>1. call.op \in OnceOps
  BY DEF DSInv, SlotInv, OnceInv, ReadyIsOnce, Send
<1>2. /\ wf' = wf /\ UNCHANGED <<worldVars, stray>>
      /\ inflight' = inflight \cup {Req(call.op, call.key)}
      /\ Req(call.op, call.key).op \in OnceOps
  BY <1>1 DEF Send, Req
<1>3. Walks(wf')
  BY <1>2 DEF Walks, Stays, Same
<1> QED
  BY <1>2, <1>3 DEF HandlerStep

\* An answer brings the workflow one phase on.
LEMMA AnswerStep ==
  ASSUME DSInv, PersistAnswer
  PROVE  HandlerStep
<1>0. TypeOK /\ call \in MadeCall /\ CallFits /\ wf \in Workflow
  BY DSTypes, CallMade DEF PersistAnswer, DSInv, SlotInv, SlotParts
<1>1. UNCHANGED <<worldVars, inflight, stray>>
  BY DEF PersistAnswer
<1>2. CASE call.op = "delete"
  <2>1. Ends(wf')
    BY <1>0, <1>2 DEF PersistAnswer, complete, CallFits, Ends
  <2> QED
    BY <1>1, <2>1, NothingSent DEF Walks
<1>3. CASE call.op \in Creates
  <2>1. wf' = With(call.op, call.reply) /\ wf.phase = "prepublish"
    BY <1>0, <1>3 DEF PersistAnswer, AfterAnswer, Creates, CallFits
  <2>2. Fills(wf')
    BY <1>0, <2>1, FillsWith
  <2> QED
    BY <1>1, <2>2, NothingSent DEF Walks
<1>4. CASE call.op = "update_dnssec"
  <2>1. AsksParent(wf')
    BY <1>0, <1>4 DEF PersistAnswer, AfterAnswer, CallFits, AsksParent, Same, Workflow
  <2> QED
    BY <1>1, <2>1, NothingSent DEF Walks
<1>5. CASE call.op = "activate"
  <2>1. Activates(wf')
    BY <1>0, <1>5 DEF PersistAnswer, AfterAnswer, CallFits, Activates, Same, Workflow
  <2> QED
    BY <1>1, <2>1, NothingSent DEF Walks
<1>6. CASE call.op = "deactivate"
  <2>1. Retires(wf')
    BY <1>0, <1>6 DEF PersistAnswer, AfterAnswer, CallFits, Retires, Same, Workflow
  <2> QED
    BY <1>1, <2>1, NothingSent DEF Walks
<1> QED
  BY <1>0, <1>2, <1>3, <1>4, <1>5, <1>6 DEF MadeCall, Ops, OnceOps, Creates

\* The operator resumes, attests, or a probe fails.
LEMMA OperatorStep ==
  ASSUME DSInv, Resume \/ ReconcileSplitSignerTransition \/ NoDSProbeFails
  PROVE  HandlerStep
<1>0. TypeOK /\ wf \in Workflow
  BY DSTypes
<1>1. CASE Resume
  <2>1. /\ Same(wf') /\ wf.kind = "split"
        /\ wf.phase = "blocked" /\ wf'.phase = "wait_publish" /\ ~wf'.evidence
        /\ UNCHANGED <<worldVars, inflight, stray>>
    BY <1>0, <1>1 DEF Resume, transition, Persist, bookVars, Workflow, Same
  <2> QED
    BY <2>1, NothingSent DEF Walks, Resumes
<1>2. CASE ReconcileSplitSignerTransition
  <2> DEFINE ttl == maxDuration(maxTTL, wf.zoneTTL)
             w == [wf EXCEPT !.attested = TRUE, !.evidence = TRUE, !.zoneTTL = ttl]
  <2>1. ttl \in Nat /\ ZoneWait(ttl) \in Nat /\ ttl >= maxTTL /\ ttl >= wf.zoneTTL
    <3>1. maxTTL \in Nat /\ wf.zoneTTL \in Nat
      BY <1>0, WaitsAreNat DEF Workflow
    <3> QED
      BY <3>1, WaitAssumptions DEF maxDuration, ZoneWait
  <2>2. /\ transition(w, "wait_new_signature", ZoneWait(ttl))
        /\ wf.phase = "wait_new_signature" /\ wf.kind = "split" /\ RRSIGBy(NewSigner)
    BY <1>2 DEF ReconcileSplitSignerTransition, InitialSplit, SignerTransitionEvidence, NewSigner
  <2> HIDE DEF ttl
  <2>3. w \in Workflow /\ SameSlots(w) /\ w.zoneTTL = ttl
    BY <1>0, <2>1 DEF Workflow, SameSlots
  <2> HIDE DEF w
  <2> QED
    BY <2>1, <2>2, <2>3, SignerTransition DEF Signing
<1>3. CASE NoDSProbeFails
  <2>1. /\ Same(wf') /\ wf'.phase = "blocked" /\ UNCHANGED <<worldVars, inflight, stray>>
    BY <1>0, <1>3 DEF NoDSProbeFails, Workflow, Same
  <2> QED
    BY <2>1, NothingSent DEF Walks, Stops
<1> QED
  BY <1>1, <1>2, <1>3

\* A loss changes nothing that is kept.
LEMMA LossStep ==
  ASSUME Abandon \/ UNCHANGED vars \/ \E r \in inflight : LoseRequest(r)
  PROVE  HandlerStep
<1>1. UNCHANGED <<worldVars, stray, wf>> /\ inflight' \subseteq inflight
  BY DEF Abandon, LoseRequest, vars
<1> QED
  BY <1>1, NothingSent DEF Walks, Stays, Same

\* What is not a step of the world, of PowerDNS, of the registrar or of time.
Handling ==
  \/ \E kind \in Kinds : Trigger(kind)
  \/ BlockUnknownScheme \/ Controller \/ NoDSProbeFails
  \/ \E r \in inflight : LoseRequest(r)
  \/ Abandon \/ Resume \/ ReconcileSplitSignerTransition \/ UNCHANGED vars

\* All of them are steps as above.
LEMMA HandlingSteps ==
  ASSUME DSInv, Handling
  PROVE  HandlerStep
BY StartStep, PrepublishStep, WaitPublishStep, ParentReplaceStep, WaitParentStep, ActivateStep,
   WaitSignatureStep, DeactivateStep, RetireStep, DeleteStep, SendStep, AnswerStep, OperatorStep,
   LossStep DEF Handling, Controller

\* Every other step leaves the workflow as it is, but for the time left.
LEMMA NextSteps ==
  ASSUME [Next]_vars
  PROVE  \/ Handling
         \/ \E r \in inflight : PowerDNSApplies(r) \/ RegistrarAccepts(r)
         \/ StrayKeyAppears \/ StrayKeyRemoved \/ WorldStep \/ Elapse
BY DEF Next, Handling, Deliver

\* waitParentReplace sees the new DS and waits for as long as the last server, or
\* any cache, may have the old one.
LEMMA OldGoes ==
  ASSUME DSInv, wf.kind \in Rolls, parent.fast = {wf.new}
  PROVE  OldGone(wf, ParentWait)
<1>1. ParentType /\ \A e \in cache.ds : e.left \in Nat \ {0}
  BY DSTypes, WorldParts DEF TypeOK, ServedType, Cached
<1>2. wf.old # wf.new
  <2>1. wf.new \in Anchors
    BY DEF Anchors, DSVersions
  <2> QED
    BY <2>1, AnchorNumbers, DSTypes DEF DSInv, SlotInv, SlotParts, SlotBook
<1>3. DSTTL \in Nat /\ ParentWait >= DSTTL + ParentLag /\ ParentWait \in Nat /\ ParentLag \in Nat
  BY WorldAssumptions, WaitAssumptions, MarginCoversLag DEF ParentWait, maxDuration
<1>4. DSTTL + (ParentLag - parent.lag) <= ParentWait
  <2>1. parent.lag \in 0..ParentLag
    BY <1>1 DEF ParentType
  <2> QED
    BY <1>3, <2>1
<1>5. \A e \in cache.ds : e.left <= ParentWait
  <2>1. \A e \in cache.ds : e.left <= DSTTL
    BY DEF DSInv, DSParts, CacheBounded
  <2> QED
    BY <1>1, <1>3, <2>1
<1> QED
  BY <1>2, <1>4, <1>5 DEF OldGone

\* No handler goes past waitParentReplace before the old DS is gone.
LEMMA SupersededHandled ==
  ASSUME DSInv, HandlerStep
  PROVE  Superseded(wf)'
<1>0. UNCHANGED <<parent, cache>> /\ Superseded(wf) /\ Announcing(wf) /\ PhaseFits(wf)
  BY DEF HandlerStep, worldVars, DSInv, DSParts, SlotInv, SlotParts
<1> SUFFICES ASSUME wf'.kind \in Rolls, wf'.phase \in AfterParent
             PROVE  /\ wf'.phase = "wait_parent_remove" /\ wf'.evidence =>
                         parent.fast = {wf'.new} /\ OldGone(wf', wf'.next)
                    /\ wf'.phase # "wait_parent_remove" => OldGone(wf', 0)
  BY <1>0 DEF Superseded, OldGone, AfterParent
<1>2. CASE Stays(wf')
  BY <1>0, <1>2 DEF Stays, Same, Superseded, OldGone
<1>3. CASE Starts(wf') \/ Fills(wf') \/ SeesKeys(wf') \/ SeesKeysAgain(wf') \/ AsksParent(wf')
           \/ Stops(wf') \/ Resumes(wf') \/ Ends(wf')
  BY <1>3 DEF Starts, Fills, SeesKeys, SeesKeysAgain, AsksParent, Stops, Resumes, Ends, Same,
              AfterParent, Rolls, IdleWorkflow
<1>4. CASE SeesDS(wf')
  <2>1. OldGone(wf, ParentWait)
    BY <1>4, OldGoes DEF SeesDS, Same
  <2> QED
    BY <1>4, <2>1 DEF SeesDS, Same, OldGone
<1>5. CASE SeesDSAgain(wf')
  BY <1>0, <1>5 DEF SeesDSAgain, Same, Superseded, OldGone
<1>6. CASE Activates(wf') \/ SeesSignature(wf') \/ Retires(wf') \/ Deletes(wf')
  <2>1. /\ wf'.kind = wf.kind /\ wf'.old = wf.old
        /\ wf.phase \in AfterParent \ {"wait_parent_remove"}
        /\ wf'.phase # "wait_parent_remove"
    BY <1>6 DEF Activates, SeesSignature, Retires, Deletes, Same, AfterParent, Signing
  <2> QED
    BY <1>0, <2>1 DEF Superseded, OldGone
<1> QED
  BY <1>2, <1>3, <1>4, <1>5, <1>6 DEF HandlerStep, Walks

\* The parent moves only towards the new DS, and what it withdraws is cached for
\* one TTL.
LEMMA SupersededParent ==
  ASSUME DSInv, ParentPublishes \/ ParentSync, wf' = wf
  PROVE  Superseded(wf)'
<1>0. ServedType /\ ParentType /\ Superseded(wf) /\ Announcing(wf)
  BY DSTypes, WorldParts DEF TypeOK, DSInv, DSParts
<1>1. ASSUME NEW n \in Nat, wf.kind \in Rolls, parent.fast = {wf.new}, OldGone(wf, n)
      PROVE  parent'.fast = {wf.new} /\ OldGone(wf, n)'
  <2>1. registrar.data = {wf.new}
    BY <1>1, PutIsDone
  <2>2. ParentSync /\ ServeDS(parent.fast, parent.fast)
    BY <1>1, <2>1 DEF ParentPublishes, ParentSync
  <2>3. parent'.fast = parent.fast /\ parent'.slow = parent.fast
    BY <2>2 DEF ServeDS
  <2>4. ASSUME NEW e \in cache'.ds, wf.old \in e.version PROVE e.left <= n
    <3>1. CASE e \in cache.ds
      BY <1>1, <2>4, <3>1 DEF OldGone
    <3>2. ASSUME NEW v \in {parent.fast, parent.slow}, e = [version |-> v, left |-> DSTTL]
          PROVE  e.left <= n
      <4>1. wf.old \in parent.slow
        BY <1>1, <2>4, <3>2 DEF OldGone
      <4>2. DSTTL + (ParentLag - parent.lag) <= n /\ parent.lag \in 0..ParentLag
        BY <1>0, <1>1, <4>1 DEF OldGone, ParentType
      <4>3. DSTTL <= n
        BY <4>2, WorldAssumptions
      <4> QED
        BY <3>2, <4>3
    <3> QED
      BY <1>0, <2>2, <3>1, <3>2, ServeDSLeaves
  <2> QED
    BY <1>1, <2>3, <2>4 DEF OldGone
<1>2. wf.next \in Nat /\ 0 \in Nat
  BY DSTypes
<1>3. wf.kind \in Rolls /\ wf.phase \in AfterParent \ {"wait_parent_remove"} =>
        parent.fast = {wf.new}
  BY <1>0 DEF Announcing
<1> QED
  BY <1>0, <1>1, <1>2, <1>3 DEF Superseded

\* Time takes one unit from the wait and from what the last server and the caches
\* have left.
LEMMA SupersededElapses ==
  ASSUME DSInv, Elapse
  PROVE  Superseded(wf)'
<1>0. ServedType /\ ParentType /\ Superseded(wf) /\ wf.next \in Nat /\ wf \in Workflow
  BY DSTypes, WorldParts DEF TypeOK, DSInv, DSParts
<1>1. /\ WorldElapses /\ wf'.kind = wf.kind /\ wf'.phase = wf.phase /\ wf'.old = wf.old
      /\ wf'.new = wf.new /\ wf'.evidence = wf.evidence
      /\ wf'.next = (IF wf.next > 0 THEN wf.next - 1 ELSE 0)
  BY <1>0 DEF Elapse, Workflow
<1>2. parent'.fast = parent.fast /\ parent'.slow = parent.slow
  BY <1>0, <1>1 DEF WorldElapses, ParentType
<1>3. ASSUME NEW n \in Nat, OldGone(wf, n)
      PROVE  OldGone(wf, IF n > 0 THEN n - 1 ELSE 0)'
  <2>1. wf.old \in parent.slow =>
          DSTTL + (ParentLag - parent'.lag) <= (IF n > 0 THEN n - 1 ELSE 0)
    <3> SUFFICES ASSUME wf.old \in parent.slow
                 PROVE  DSTTL + (ParentLag - parent'.lag) <= (IF n > 0 THEN n - 1 ELSE 0)
      OBVIOUS
    <3>1. parent.slow # parent.fast
      BY <1>3 DEF OldGone
    <3>2. parent.lag \in 0..ParentLag /\ parent.lag < ParentLag /\ parent'.lag = parent.lag + 1
      BY <1>0, <1>1, <3>1 DEF WorldElapses, ParentType
    <3>3. DSTTL + (ParentLag - parent.lag) <= n
      BY <1>3 DEF OldGone
    <3> QED
      BY <3>2, <3>3, WorldAssumptions
  <2>2. ASSUME NEW e \in cache'.ds, wf.old \in e.version
        PROVE  e.left <= (IF n > 0 THEN n - 1 ELSE 0)
    <3>1. PICK x \in cache.ds : x.left \in Nat /\ e.version = x.version /\ e.left = x.left - 1
      BY <1>0, <1>1, ElapsedEntries
    <3>2. x.left <= n
      BY <1>3, <2>2, <3>1 DEF OldGone
    <3> QED
      BY <3>1, <3>2
  <2> QED
    BY <1>1, <1>2, <1>3, <2>1, <2>2 DEF OldGone
<1>4. wf.kind \in Rolls /\ wf.phase = "wait_parent_remove" /\ wf.evidence =>
        parent'.fast = {wf'.new} /\ OldGone(wf, wf.next)'
  <2> SUFFICES ASSUME wf.kind \in Rolls, wf.phase = "wait_parent_remove", wf.evidence
               PROVE  parent'.fast = {wf'.new} /\ OldGone(wf, wf.next)'
    OBVIOUS
  <2>1. parent.fast = {wf.new} /\ OldGone(wf, wf.next)
    BY <1>0 DEF Superseded
  <2>3. PICK n \in Nat : n = wf.next
    BY <1>0
  <2>4. OldGone(wf, IF n > 0 THEN n - 1 ELSE 0)'
    BY <1>3, <2>1, <2>3
  <2> QED
    BY <1>1, <1>2, <2>1, <2>3, <2>4 DEF OldGone
<1>5. OldGone(wf, 0) => OldGone(wf, 0)'
  <2> SUFFICES ASSUME OldGone(wf, 0) PROVE OldGone(wf, 0)'
    OBVIOUS
  <2>1. 0 \in Nat
    OBVIOUS
  <2>2. OldGone(wf, IF 0 > 0 THEN 0 - 1 ELSE 0)'
    BY <1>3, <2>1
  <2> QED
    BY <2>2 DEF OldGone
<1> QED
  BY <1>0, <1>1, <1>4, <1>5 DEF Superseded

\* Superseded is kept by every step.
LEMMA SupersededNext ==
  ASSUME DSInv, [Next]_vars
  PROVE  Superseded(wf)'
<1>0. ServedType /\ ParentType /\ Superseded(wf)
  BY DSTypes, WorldParts DEF TypeOK, DSInv
<1>1. ASSUME Handling PROVE Superseded(wf)'
  BY <1>1, HandlingSteps, SupersededHandled
<1>2. ASSUME wf' = wf, parent' = parent, cache'.ds = cache.ds PROVE Superseded(wf)'
  BY <1>0, <1>2 DEF Superseded, OldGone
<1>3. ASSUME NEW ks, NEW ttl, NEW sec, Serve(ks, ttl, sec) PROVE cache'.ds = cache.ds
  BY <1>0, <1>3, ServeLeaves
<1>4. ASSUME NEW r \in inflight, PowerDNSApplies(r) \/ RegistrarAccepts(r) PROVE Superseded(wf)'
  <2>1. wf' = wf /\ parent' = parent
    BY <1>4 DEF PowerDNSApplies, RegistrarAccepts
  <2> QED
    BY <1>2, <1>3, <1>4, <2>1 DEF PowerDNSApplies, RegistrarAccepts
<1>5. ASSUME StrayKeyAppears \/ StrayKeyRemoved PROVE Superseded(wf)'
  BY <1>2, <1>3, <1>5 DEF StrayKeyAppears, StrayKeyRemoved
<1>6. ASSUME WorldStep PROVE Superseded(wf)'
  <2>1. wf' = wf
    BY <1>6 DEF WorldStep
  <2>2. CASE ParentPublishes \/ ParentSync
    BY <2>1, <2>2, SupersededParent
  <2>3. CASE SecondarySync \/ ZoneEdited(MinimumZoneTTL)
    BY <1>2, <1>3, <2>1, <2>3 DEF SecondarySync, ZoneEdited
  <2>4. CASE RegistrarApplies \/ RegistrarFails \/ RegistrarForgetsJob
    BY <1>2, <2>1, <2>4 DEF RegistrarApplies, RegistrarFails, RegistrarForgetsJob
  <2>5. CASE Redelegated
    <3>1. /\ UNCHANGED cache /\ parent'.lag = parent.lag
          /\ parent'.fast = parent.fast /\ parent'.slow = parent.slow
      BY <1>0, <2>5, RedelegatedLeaves
    <3> QED
      BY <1>0, <2>1, <3>1 DEF Superseded, OldGone
  <2> QED
    BY <1>6, <2>2, <2>3, <2>4, <2>5 DEF WorldStep, World
<1> QED
  BY <1>1, <1>4, <1>5, <1>6, SupersededElapses, NextSteps

\* The inductive step of AnnouncedKeysAreUsable.
LEMMA DSNext ==
  ASSUME DSInv, [Next]_vars
  PROVE  DSInv'
<1>1. SlotInv'
  BY SlotNext DEF DSInv
<1>2. ASSUME Controller PROVE DSParts'
  BY <1>2, PrepublishKept, WaitPublishKept, ParentReplaceKept, WaitParentKept, SignerKept,
     DeactivateKept, DeleteKept, SendKept, AnswerKept DEF Controller
<1>3. ASSUME NEW r \in inflight, Deliver(r) PROVE DSParts'
  BY <1>3, PowerDNSKept, RegistrarKept DEF Deliver
<1>4. ASSUME BlockUnknownScheme \/ \E kind \in Kinds : Trigger(kind) PROVE DSParts'
  BY <1>4, StartKept
<1>5. ASSUME StrayKeyAppears \/ StrayKeyRemoved PROVE DSParts'
  BY <1>5, StraysKept
<1>6. ASSUME Resume \/ ReconcileSplitSignerTransition \/ NoDSProbeFails PROVE DSParts'
  BY <1>6, OperatorKept
<1>7. ASSUME Abandon \/ UNCHANGED vars \/ \E r \in inflight : LoseRequest(r) PROVE DSParts'
  BY <1>7, LossKept
<1>8. ASSUME WorldStep \/ Elapse PROVE DSParts'
  BY <1>8, WorldKept, ElapseKept
<1>9. DSParts'
  BY <1>2, <1>3, <1>4, <1>5, <1>6, <1>7, <1>8 DEF Next
<1> QED
  BY <1>1, <1>9, SupersededNext DEF DSInv

\* DSInv is an invariant of the specification.
LEMMA DSAlways == Spec => []DSInv
<1>1. Init => DSInv
  <2> SUFFICES ASSUME Init PROVE DSInv
    OBVIOUS
  <2>1. call.stage # "ready" /\ sent = [op \in OnceOps |-> 0]
    BY DEF Init, NoCall
  <2>2. OnceInv
    BY <2>1, TypeInit DEF OnceInv, Once, ReadyIsOnce
  <2>3. Superseded(wf)
    BY DEF Init, IdleWorkflow, Superseded, Rolls
  <2> QED
    BY <2>2, <2>3, SlotsInit, DSInit DEF DSInv, SlotInv
<1>2. DSInv /\ [Next]_vars => DSInv'
  BY DSNext
<1> QED
  BY <1>1, <1>2, PTL DEF Spec

\* For every TTL, wait, lag and request life and every number of faults and
\* foreign keys: whatever the registrar holds or processes a DS for is in, and
\* signs, every DNSKEY set that a server serves or a cache still has.  The PUT
\* of parentReplace comes only after waitPublish has seen the new key on every
\* server and waited for the caches, deactivateOld switches a KSK off only when
\* the registrar names its replacement alone, and no late request does either.
THEOREM AnnouncedKeysAreUsable == Spec => []DSAnnouncedWhenUsable
<1>1. DSInv => DSAnnouncedWhenUsable
  <2> SUFFICES ASSUME DSInv,
                      NEW id \in registrar.data \cup
                            (IF registrar.job = "pending" THEN registrar.jobData ELSE {}),
                      NEW v \in DnskeyVersions
               PROVE  id \in v.keys \cap v.sig
    BY DEF DSAnnouncedWhenUsable
  <2>1. Covers(id, 0)
    BY DEF DSInv, DSParts, AnchorsHold, Anchors
  <2>2. \A e \in cache.dnskey : Holds(e.version, id)
    BY <2>1, DSTypes DEF Covers
  <2> QED
    BY <2>1, <2>2 DEF DnskeyVersions, Covers, Holds
<1> QED
  BY <1>1, DSAlways, PTL
-----------------------------------------------------------------------------
(* The zone's own signatures: ChainOfTrust.  A key is usable for them when *)
(* every DNSKEY set served or cached has it and nothing under way takes it *)
(* out; every version of the zone, served or cached, must have a signature *)
(* of such a key (ZoneGood).                                               *)

Stopping == {"deactivate", "delete"}
Handover == AfterParent \cup {"parent_remove"}
Signed == {"zsk", "split"}

\* PowerDNS has key id, every server publishes it, and so does every DNSKEY set
\* that caches keep for longer than n.
Pub(id, n) ==
  /\ HasKey(keys, id)
  /\ \A i \in Served : id \in i.keys
  /\ \A e \in cache.dnskey : id \in e.version.keys \/ e.left <= n

Usable(id) ==
  /\ id # stray
  /\ \A r \in inflight : r.op = "delete" => r.key # id
  /\ Pub(id, 0)

IsZSK(id) == \E k \in keys : k.id = id /\ ZSK(k)

\* An active ZSK that has signed everything served, and everything that caches
\* keep for longer than n.
SignsZone(id, n) ==
  /\ IsZSK(id)
  /\ \A i \in Served : id \in i.zoneSig
  /\ \A e \in cache.zone : id \in e.version.sig \/ e.left <= n

\* No version of the zone has a larger TTL than GetZone tells.
TTLBound == \A z \in ZoneVersions : z.ttl <= maxTTL

\* A ZSK is active, or on its way to be, only when everybody has it ...
PubActive ==
  \A k \in keys :
    k.flags = 256 /\ (k.active \/ \E r \in inflight : r.op = "activate" /\ r.key = k.id) =>
      Pub(k.id, 0)

\* ... because waitPublish waited for that.
NewPub(w) ==
  w.kind \in Signed =>
    /\ w.phase = "wait_publish" /\ w.evidence => Pub(SignerOf(w), w.next)
    /\ w.phase \in Handover => Pub(SignerOf(w), 0)

\* A key is taken out only when another ZSK is active.
Backed(w) ==
  \/ \E r \in inflight : r.op \in Stopping /\ HasKey(keys, r.key)
  \/ w.kind = "ksk" /\ w.phase \in Handover
  => \E k \in keys : ZSK(k) /\ k.id # w.old

\* Only a split takes a zone without an active ZSK to one with.
HasZSK(w) ==
  \/ w.kind \in {"zsk", "ksk"} /\ w.phase # "blocked"
  \/ w.kind # "split" /\ \E r \in inflight : r.op = "activate" /\ HasKey(keys, r.key)
  => SomeZSK

ZoneGood == \A z \in ZoneVersions : \E id \in z.sig : Usable(id)

\* Outside a split, an active ZSK means that ZSKs have signed everything.
ZoneByZSK(w) ==
  w.kind # "split" /\ SomeZSK =>
    \A z \in ZoneVersions :
      \E id \in z.sig : Usable(id) /\ \E k \in keys : k.id = id /\ k.flags = 256

\* The zone TTL is recorded when the new signer's signature is seen everywhere,
\* and has passed when the old key is deleted.
Times(w) ==
  /\ w.phase \in {"idle", "prepublish"} => w.zoneTTL = 0
  /\ w.kind \in Signed =>
       /\ w.zoneTTL # 0 => SignsZone(SignerOf(w), w.zoneTTL)
       /\ w.phase \in {"deactivate_old", "wait_retire"} => w.zoneTTL # 0
       /\ w.phase = "wait_retire" => SignsZone(SignerOf(w), w.next)
       /\ w.phase = "delete_old" => SignsZone(SignerOf(w), 0)

ZoneParts ==
  /\ TTLBound /\ PubActive /\ NewPub(wf) /\ Backed(wf) /\ HasZSK(wf)
  /\ ZoneGood /\ ZoneByZSK(wf) /\ Times(wf)

ZoneInv == DSInv /\ ZoneParts

\* What the lemmas below keep needing of the types and of the key list.
LEMMA ZoneTypes ==
  ASSUME DSInv
  PROVE  /\ ServedType /\ wf \in Workflow /\ KeyBook
         /\ keys \in SUBSET PowerDNSKey /\ zoneTTL \in Nat /\ maxTTL \in Nat
         /\ lastID \in Nat /\ stray \in Nat
         /\ wf.next \in Nat /\ wf.zoneTTL \in Nat /\ wf.old \in Nat
         /\ \A id : HasKey(keys, id) => id \in 1..lastID
         /\ \A e \in cache.dnskey : e.left \in Nat \ {0}
         /\ \A e \in cache.zone : e.left \in Nat \ {0} /\ e.version.ttl \in Nat
         /\ \A i \in Served : i.ttl \in Nat
         /\ \A z \in ZoneVersions : z.ttl \in Nat
         /\ AllPublished
<1>1. TypeOK /\ ServedType /\ KeyBook /\ wf \in Workflow /\ AllPublished
  BY DSTypes DEF DSInv, DSParts
<1>2. zoneTTL \in Nat /\ secondary.ttl \in Nat /\ ZoneTTLs \subseteq Nat
  BY <1>1, WorldAssumptions DEF ServedType, ZoneImage
<1>3. \A e \in cache.zone : e.left \in Nat \ {0} /\ e.version.ttl \in Nat
  BY <1>1, <1>2 DEF ServedType, Cached
<1>4. \A i \in Served : i.ttl \in Nat
  BY <1>2 DEF Served, Image
<1>5. \A z \in ZoneVersions : z.ttl \in Nat
  BY <1>3, <1>4 DEF ZoneVersions, ZoneRRset
<1>6. wf.next \in Nat /\ wf.zoneTTL \in Nat /\ wf.old \in Nat
  BY <1>1 DEF Workflow
<1>7. \A id : HasKey(keys, id) => id \in 1..lastID
  BY <1>1 DEF KeyBook, HasKey
<1> QED
  BY <1>1, <1>2, <1>3, <1>4, <1>5, <1>6, <1>7, DSTypes, SlotNumbers, WaitsAreNat

\* An active key with the flags of a ZSK signs the zone, whatever role PowerDNS
\* gives it.
LEMMA ZSKSigns ==
  ASSUME NEW ks \in SUBSET PowerDNSKey, NEW k \in ks, ZSK(k), k.flags = flagsOf(k.made), NEW ttl
  PROVE  k.id \in Image(ks, ttl).zoneSig
<1>1. k.made = "zsk"
  BY DEF ZSK, flagsOf
<1>2. Role(ks, k) \in {"zsk", "csk"}
  BY <1>1 DEF Role, ZSK
<1>3. k.id \in Signers(ks, {"zsk", "csk"})
  BY <1>2 DEF Signers, ZSK
<1> QED
  BY <1>3 DEF Image

\* The signer that the rotation brings in is not the old key, nor a foreign one.
LEMMA SignerIsNew ==
  ASSUME DSInv, HasKey(keys, SignerOf(wf))
  PROVE  /\ SignerOf(wf) # wf.old /\ SignerOf(wf) # stray
         /\ \A r \in inflight : r.op = "delete" => r.key # SignerOf(wf)
<1>1. SignerOf(wf) \in 1..lastID /\ lastID \in Nat
  BY ZoneTypes
<1>2. SlotBook /\ StrayApart /\ RequestsFit
  BY DEF DSInv, SlotInv, SlotParts
<1>3. SignerOf(wf) # wf.old
  BY <1>1, <1>2 DEF SlotBook, SignerOf
<1>4. SignerOf(wf) # stray
  BY <1>1, <1>2 DEF StrayApart, SignerOf
<1> QED
  BY <1>2, <1>3, <1>4 DEF RequestsFit

\* Where a version of the zone comes from after a change of what is served.
LEMMA ServeVersions ==
  ASSUME ServedType, NEW ks, NEW ttl, NEW sec \in {secondary, Image(ks, ttl)}, Serve(ks, ttl, sec)
  PROVE  \A z \in ZoneVersions' : z \in ZoneVersions \/ z = ZoneRRset(Image(ks, ttl))
<1> SUFFICES ASSUME NEW z \in ZoneVersions'
             PROVE  z \in ZoneVersions \/ z = ZoneRRset(Image(ks, ttl))
  OBVIOUS
<1>1. Served' = {Image(ks, ttl), sec}
  BY DEF Served, Serve
<1>2. CASE \E i \in Served' : z = ZoneRRset(i)
  BY <1>1, <1>2 DEF ZoneVersions, Served
<1>3. ASSUME NEW e \in cache'.zone, z = e.version PROVE z \in ZoneVersions
  <2>1. CASE e \in cache.zone
    BY <1>3, <2>1 DEF ZoneVersions
  <2>2. ASSUME NEW i \in Served, e = [version |-> ZoneRRset(i), left |-> i.ttl]
        PROVE  z \in ZoneVersions
    BY <1>3, <2>2 DEF ZoneVersions
  <2> QED
    BY <2>1, <2>2, ServeLeaves
<1> QED
  BY <1>2, <1>3 DEF ZoneVersions

\* What everybody publishes, and PowerDNS still has, everybody publishes.
LEMMA ServePub ==
  ASSUME ServedType, NEW ks, NEW ttl, NEW sec \in {secondary, Image(ks, ttl)}, Serve(ks, ttl, sec),
         \A k \in ks : k.published, NEW id, NEW n, Pub(id, n), HasKey(ks, id)
  PROVE  Pub(id, n)'
<1>1. Served' = {Image(ks, ttl), sec} /\ keys' = ks
  BY DEF Served, Serve
<1>2. id \in Image(ks, ttl).keys
  BY DEF Image, publishedKeys, HasKey
<1>3. \A i \in Served' : id \in i.keys
  BY <1>1, <1>2 DEF Pub, Served
<1>4. ASSUME NEW e \in cache'.dnskey PROVE id \in e.version.keys \/ e.left <= n
  <2>1. CASE e \in cache.dnskey
    BY <2>1 DEF Pub
  <2>2. ASSUME NEW i \in Served, e = [version |-> DnskeyRRset(i), left |-> DNSKEYTTL]
        PROVE  id \in e.version.keys
    BY <2>2 DEF Pub, DnskeyRRset
  <2> QED
    BY <2>1, <2>2, ServeLeaves
<1> QED
  BY <1>1, <1>3, <1>4 DEF Pub

\* What an active ZSK has signed everywhere stays signed by it.
LEMMA ServeSigned ==
  ASSUME ServedType, NEW ks \in SUBSET PowerDNSKey, NEW ttl,
         NEW sec \in {secondary, Image(ks, ttl)}, Serve(ks, ttl, sec),
         \A k \in ks : k.flags = flagsOf(k.made), NEW id, NEW n, SignsZone(id, n),
         NEW x \in ks, x.id = id, ZSK(x)
  PROVE  SignsZone(id, n)'
<1>1. Served' = {Image(ks, ttl), sec} /\ keys' = ks
  BY DEF Served, Serve
<1>2. id \in Image(ks, ttl).zoneSig
  BY ZSKSigns
<1>3. \A i \in Served' : id \in i.zoneSig
  BY <1>1, <1>2 DEF SignsZone, Served
<1>4. ASSUME NEW e \in cache'.zone PROVE id \in e.version.sig \/ e.left <= n
  <2>1. CASE e \in cache.zone
    BY <2>1 DEF SignsZone
  <2>2. ASSUME NEW i \in Served, e = [version |-> ZoneRRset(i), left |-> i.ttl]
        PROVE  id \in e.version.sig
    BY <2>2 DEF SignsZone, ZoneRRset
  <2> QED
    BY <2>1, <2>2, ServeLeaves
<1>5. IsZSK(id)'
  BY <1>1 DEF IsZSK, ZSK
<1> QED
  BY <1>3, <1>4, <1>5 DEF SignsZone

\* Once the new signer's signatures have outlived all others, it is what every
\* version of the zone can be checked with.
LEMMA SignerGood ==
  ASSUME ZoneInv, SignsZone(SignerOf(wf), 0)
  PROVE  /\ \A z \in ZoneVersions : SignerOf(wf) \in z.sig
         /\ Usable(SignerOf(wf)) /\ SignerOf(wf) # wf.old
<1>1. PICK k \in keys : k.id = SignerOf(wf) /\ k.active /\ k.flags = 256
  BY DEF SignsZone, IsZSK, ZSK
<1>2. HasKey(keys, SignerOf(wf)) /\ Pub(SignerOf(wf), 0)
  BY <1>1 DEF HasKey, ZoneInv, ZoneParts, PubActive
<1>3. Usable(SignerOf(wf)) /\ SignerOf(wf) # wf.old
  BY <1>2, SignerIsNew DEF Usable, ZoneInv
<1>4. \A e \in cache.zone : SignerOf(wf) \in e.version.sig
  BY ZoneTypes DEF SignsZone, ZoneInv
<1>5. \A i \in Served : SignerOf(wf) \in ZoneRRset(i).sig
  BY DEF SignsZone, ZoneRRset
<1> QED
  BY <1>3, <1>4, <1>5 DEF ZoneVersions

\* The kind of a workflow that is under way.
LEMMA KindUnderWay ==
  ASSUME DSInv, wf.phase # "idle"
  PROVE  wf.kind \in {"zsk", "ksk", "split"}
BY ZoneTypes DEF DSInv, SlotInv, SlotParts, PhaseFits, Workflow

\* What a handler leaves of the facts about keys.
LEMMA HandlerWorld ==
  ASSUME HandlerStep
  PROVE  /\ UNCHANGED <<keys, zoneTTL, secondary, cache>>
         /\ Served' = Served /\ ZoneVersions' = ZoneVersions /\ maxTTL' = maxTTL
         /\ SomeZSK' = SomeZSK
         /\ \A id, n : (Pub(id, n)' <=> Pub(id, n)) /\ (SignsZone(id, n)' <=> SignsZone(id, n))
<1>1. UNCHANGED <<keys, zoneTTL, secondary, cache>>
  BY DEF HandlerStep, worldVars
<1>2. Served' = Served
  BY <1>1 DEF Served
<1> QED
  BY <1>1, <1>2 DEF ZoneVersions, maxTTL, SomeZSK, Pub, SignsZone, IsZSK, ZSK

\* waitPublish waits for as long as any cache may lack the new signer.
LEMMA SignerPublished ==
  ASSUME DSInv, wf.kind \in Signed, validatePrepublishInventory(Inventory, wf),
         AuthoritativeDNSKEYEvidence(publishedKeys(Inventory))
  PROVE  Pub(SignerOf(wf), PublishWait)
<1>1. HasKey(keys, SignerOf(wf))
  BY DEF validatePrepublishInventory, Distinct, SignerOf, Signed, DSInv, SlotInv, SlotParts,
         SlotBook
<1>2. PICK k \in keys : k.id = SignerOf(wf) /\ k.published
  BY <1>1, ZoneTypes DEF HasKey, AllPublished
<1>3. SignerOf(wf) \in publishedKeys(Inventory)
  <2>1. ListedAs(k) \in Inventory /\ ListedAs(k).id = k.id /\ ListedAs(k).published
    BY <1>2 DEF Inventory, Listed, ListedAs
  <2> QED
    BY <1>2, <2>1 DEF publishedKeys
<1>4. \A e \in cache.dnskey : e.left <= PublishWait
  <2>1. \A e \in cache.dnskey : e.left <= DNSKEYTTL /\ e.left \in Nat
    BY ZoneTypes DEF DSInv, DSParts, CacheBounded
  <2>2. DNSKEYTTL \in Nat /\ PublishWait \in Nat /\ DNSKEYTTL <= PublishWait
    BY WorldAssumptions, WaitAssumptions DEF PublishWait, maxDuration
  <2> QED
    BY <2>1, <2>2
<1> QED
  BY <1>1, <1>3, <1>4 DEF Pub, AuthoritativeDNSKEYEvidence

\* A handler goes on with the new signer only as far as it is published.
LEMMA HandlerNewPub ==
  ASSUME ZoneInv, HandlerStep
  PROVE  NewPub(wf)'
<1>0. NewPub(wf) /\ HandlerStep /\ DSInv
  BY DEF ZoneInv, ZoneParts
<1> SUFFICES ASSUME wf'.kind \in Signed
             PROVE  /\ wf'.phase = "wait_publish" /\ wf'.evidence => Pub(SignerOf(wf'), wf'.next)
                    /\ wf'.phase \in Handover => Pub(SignerOf(wf'), 0)
  <2>1. SignerOf(wf)' = SignerOf(wf')
    BY DEF SignerOf
  <2> QED
    BY <2>1, HandlerWorld DEF NewPub
<1>1. CASE SeesKeys(wf')
  <2>1. SignerOf(wf') = SignerOf(wf) /\ wf.kind \in Signed
    BY <1>1 DEF SeesKeys, Same, SignerOf
  <2>2. Pub(SignerOf(wf), PublishWait)
    BY <1>0, <1>1, <2>1, SignerPublished DEF SeesKeys
  <2> QED
    BY <1>1, <2>1, <2>2 DEF SeesKeys, Handover, AfterParent
<1>2. CASE Starts(wf') \/ Fills(wf') \/ Resumes(wf') \/ Stops(wf') \/ Ends(wf')
  BY <1>2 DEF Starts, Fills, Resumes, Stops, Ends, IdleWorkflow, Handover, AfterParent
<1>3. CASE SeesKeysAgain(wf')
  <2>1. SignerOf(wf') = SignerOf(wf) /\ wf.kind \in Signed /\ wf'.phase # "wait_publish"
    BY <1>3 DEF SeesKeysAgain, Same, SignerOf
  <2> QED
    BY <1>0, <1>3, <2>1 DEF NewPub, SeesKeysAgain
<1>4. CASE Stays(wf')
  <2>1. SignerOf(wf') = SignerOf(wf) /\ wf.kind \in Signed
    BY <1>4 DEF Stays, Same, SignerOf
  <2> QED
    BY <1>0, <1>4, <2>1 DEF NewPub, Stays
<1>5. CASE \/ AsksParent(wf') \/ SeesDS(wf') \/ SeesDSAgain(wf') \/ Activates(wf')
           \/ SeesSignature(wf') \/ Retires(wf') \/ Deletes(wf')
  <2>1. SignerOf(wf') = SignerOf(wf) /\ wf.kind \in Signed /\ wf'.phase # "wait_publish"
    BY <1>5 DEF AsksParent, SeesDS, SeesDSAgain, Activates, SeesSignature, Retires, Deletes,
                Same, SignerOf, Signing
  <2>2. wf.phase \in Handover
    BY <1>5 DEF AsksParent, SeesDS, SeesDSAgain, Activates, SeesSignature, Retires, Deletes,
                Signing, Handover, AfterParent
  <2> QED
    BY <1>0, <2>1, <2>2 DEF NewPub
<1> QED
  BY <1>1, <1>2, <1>3, <1>4, <1>5 DEF HandlerStep, Walks

\* Only a published signer is switched on.
LEMMA HandlerPubActive ==
  ASSUME ZoneInv, HandlerStep
  PROVE  PubActive'
<1>0. NewPub(wf) /\ PubActive /\ DSInv
  BY DEF ZoneInv, ZoneParts
<1>1. ASSUME NEW r \in inflight', r.op = "activate", r \notin inflight PROVE Pub(r.key, 0)
  <2>1. wf.phase = "activate_new" /\ r.key = SignerOf(wf)
    BY <1>1 DEF HandlerStep, MaySend, OnceOps
  <2>2. wf.kind \in Signed
    BY <1>0, <2>1, KindUnderWay DEF DSInv, SlotInv, SlotParts, PhaseFits, Signed
  <2> QED
    BY <1>0, <2>1, <2>2 DEF NewPub, Handover, AfterParent
<1>2. keys' = keys
  BY HandlerWorld
<1>3. \A k \in keys :
        k.flags = 256 /\ (k.active \/ \E r \in inflight' : r.op = "activate" /\ r.key = k.id) =>
          Pub(k.id, 0)
  BY <1>0, <1>1 DEF PubActive
<1> QED
  BY <1>2, <1>3, HandlerWorld DEF PubActive

\* The companion of a KSK rotation is an active ZSK.
LEMMA CompanionSigns ==
  ASSUME DSInv, wf.kind = "ksk", validatePrepublishInventory(Inventory, wf)
  PROVE  \E k \in keys : ZSK(k) /\ k.id # wf.old
<1>1. TypeOK /\ KeyBook
  BY DSTypes
<1>2. /\ exactlyOneActive(Inventory, "zsk")
      /\ \E old \in Inventory : old.id = wf.old /\ old.flags = 257
  BY DEF validatePrepublishInventory, Companion, validatedKeyRole, flagsOf
<1>3. PICK c : c \in ActiveOf(Inventory, "zsk")
  BY <1>1, <1>2, OneIsSome
<1>4. PICK k \in keys : k.id = c.id /\ ZSK(k)
  BY <1>1, <1>3, ListedZSK
<1>5. PICK x \in keys : x.id = wf.old /\ x.flags = 257
  BY <1>2, ListedKey
<1>6. k.id # x.id
  BY <1>1, <1>4, <1>5 DEF KeyBook, ZSK
<1> QED
  BY <1>4, <1>5, <1>6

\* In the phases in which the old key is switched off and deleted another ZSK is
\* active.
LEMMA OtherSigns ==
  ASSUME ZoneInv, wf.phase \in {"deactivate_old", "delete_old"}
  PROVE  \E k \in keys : ZSK(k) /\ k.id # wf.old
<1>0. DSInv /\ Times(wf) /\ Backed(wf)
  BY DEF ZoneInv, ZoneParts
<1>1. CASE wf.kind = "ksk"
  BY <1>0, <1>1 DEF Backed, Handover, AfterParent
<1>2. CASE wf.kind \in Signed
  <2>1. PICK n : SignsZone(SignerOf(wf), n)
    BY <1>0, <1>2 DEF Times
  <2>2. PICK k \in keys : k.id = SignerOf(wf) /\ ZSK(k)
    BY <2>1 DEF SignsZone, IsZSK
  <2>3. HasKey(keys, SignerOf(wf))
    BY <2>2 DEF HasKey
  <2> QED
    BY <1>0, <2>2, <2>3, SignerIsNew
<1> QED
  BY <1>0, <1>1, <1>2, KindUnderWay DEF Signed

\* The old key is switched off and deleted only beside another ZSK.
LEMMA HandlerBacked ==
  ASSUME ZoneInv, HandlerStep
  PROVE  Backed(wf)'
<1>0. DSInv /\ Backed(wf) /\ RequestsFit
  BY DEF ZoneInv, ZoneParts, DSInv, SlotInv, SlotParts
<1>1. keys' = keys
  BY HandlerWorld
<1> SUFFICES ASSUME \/ \E r \in inflight' : r.op \in Stopping /\ HasKey(keys, r.key)
                    \/ wf'.kind = "ksk" /\ wf'.phase \in Handover
             PROVE  \E k \in keys : ZSK(k) /\ k.id # wf'.old
  BY <1>1 DEF Backed, ZSK
<1>2. ASSUME NEW r \in inflight', r.op \in Stopping, HasKey(keys, r.key)
      PROVE  \E k \in keys : ZSK(k) /\ k.id # wf'.old
  <2>1. CASE r \in inflight
    <3>1. PICK k \in keys : ZSK(k) /\ k.id # wf.old
      BY <1>0, <1>2, <2>1 DEF Backed
    <3>2. r.key = wf.old /\ wf.old # 0 /\ k.id # 0
      <4>1. r.key = wf.old
        BY <1>0, <1>2, <2>1 DEF RequestsFit, Stopping
      <4>2. r.key \in 1..lastID /\ k.id \in 1..lastID
        BY <1>0, <1>2, ZoneTypes DEF HasKey
      <4> QED
        BY <4>1, <4>2
    <3>3. wf'.old \in {wf.old, 0}
      BY <3>2 DEF HandlerStep, Walks, Starts, Fills, SeesKeys, SeesKeysAgain, AsksParent, SeesDS,
                  SeesDSAgain, Activates, SeesSignature, Retires, Deletes, Ends, Stops, Resumes,
                  Stays, Same, IdleWorkflow
    <3> QED
      BY <3>1, <3>2, <3>3
  <2>2. CASE r \notin inflight
    <3>1. MaySend(r) /\ Stays(wf') /\ r.op \notin OnceOps
      BY <1>2, <2>2 DEF HandlerStep, Stopping, OnceOps
    <3>2. wf.phase \in {"deactivate_old", "delete_old"} /\ wf'.old = wf.old
      BY <1>2, <3>1 DEF MaySend, Stopping, Stays, Same
    <3> QED
      BY <3>2, OtherSigns
  <2> QED
    BY <2>1, <2>2
<1>3. ASSUME wf'.kind = "ksk", wf'.phase \in Handover
      PROVE  \E k \in keys : ZSK(k) /\ k.id # wf'.old
  <2>1. CASE SeesKeysAgain(wf')
    <3>1. wf.kind = "ksk" /\ wf'.old = wf.old /\ validatePrepublishInventory(Inventory, wf)
      BY <1>3, <2>1 DEF SeesKeysAgain, Same
    <3> QED
      BY <1>0, <3>1, CompanionSigns
  <2>2. CASE ~SeesKeysAgain(wf')
    <3>1. wf.kind = "ksk" /\ wf'.old = wf.old /\ wf.phase \in Handover
      BY <1>3, <2>2 DEF HandlerStep, Walks, Starts, Fills, SeesKeys, AsksParent, SeesDS,
                  SeesDSAgain, Activates, SeesSignature, Retires, Deletes, Ends, Stops, Resumes,
                  Stays, Same, IdleWorkflow, Handover, AfterParent, Signing
    <3> QED
      BY <1>0, <3>1 DEF Backed
  <2> QED
    BY <2>1, <2>2
<1> QED
  BY <1>2, <1>3

\* A rotation that is not a split starts beside an active ZSK.
LEMMA HandlerHasZSK ==
  ASSUME ZoneInv, HandlerStep
  PROVE  HasZSK(wf)'
<1>0. DSInv /\ HasZSK(wf) /\ Times(wf) /\ PhaseFits(wf)
  BY DEF ZoneInv, ZoneParts, DSInv, SlotInv, SlotParts
<1>1. keys' = keys /\ SomeZSK' = SomeZSK
  BY HandlerWorld
<1> SUFFICES ASSUME \/ wf'.kind \in {"zsk", "ksk"} /\ wf'.phase # "blocked"
                    \/ /\ wf'.kind # "split"
                       /\ \E r \in inflight' : r.op = "activate" /\ HasKey(keys, r.key)
             PROVE  SomeZSK
  BY <1>1 DEF HasZSK
<1>2. ASSUME wf'.kind \in {"zsk", "ksk"}, wf'.phase # "blocked" PROVE SomeZSK
  <2>1. CASE Starts(wf')
    BY <1>2, <2>1 DEF Starts
  <2>2. CASE ~Starts(wf')
    <3>1. wf.kind \in {"zsk", "ksk"} /\ wf.phase # "blocked"
      BY <1>2, <2>2 DEF HandlerStep, Walks, Fills, SeesKeys, SeesKeysAgain, AsksParent, SeesDS,
                  SeesDSAgain, Activates, SeesSignature, Retires, Deletes, Ends, Stops, Resumes,
                  Stays, Same, IdleWorkflow, Signing
    <3> QED
      BY <1>0, <3>1 DEF HasZSK
  <2> QED
    BY <2>1, <2>2
<1>3. ASSUME wf'.kind # "split", NEW r \in inflight', r.op = "activate", HasKey(keys, r.key)
      PROVE  SomeZSK
  <2>1. CASE r \in inflight /\ wf.kind # "split"
    BY <1>0, <1>3, <2>1 DEF HasZSK
  <2>2. CASE wf.kind = "split"
    <3>1. Ends(wf')
      BY <1>3, <2>2 DEF HandlerStep, Walks, Starts, Fills, SeesKeys, SeesKeysAgain, AsksParent,
                  SeesDS, SeesDSAgain, Activates, SeesSignature, Retires, Deletes, Stops, Resumes,
                  Stays, Same
    <3>2. SignsZone(SignerOf(wf), 0)
      BY <1>0, <2>2, <3>1 DEF Ends, Times, Signed
    <3> QED
      BY <3>2 DEF SignsZone, IsZSK, SomeZSK
  <2>3. CASE r \notin inflight /\ wf.kind # "split"
    <3>1. wf.phase = "activate_new"
      BY <1>3, <2>3 DEF HandlerStep, MaySend, OnceOps
    <3>2. wf.kind = "zsk"
      BY <1>0, <2>3, <3>1, KindUnderWay DEF PhaseFits
    <3> QED
      BY <1>0, <3>1, <3>2 DEF HasZSK
  <2> QED
    BY <2>1, <2>2, <2>3
<1> QED
  BY <1>2, <1>3

\* A handler makes no key unusable but the old one, when it deletes it.
LEMMA HandlerGood ==
  ASSUME ZoneInv, HandlerStep, NEW id, Usable(id),
         \/ id # wf.old
         \/ \A r \in inflight' : r.op = "delete" => r \in inflight
  PROVE  Usable(id)'
<1>1. id # stray'
  <2>1. id \in 1..lastID /\ lastID \in Nat
    BY ZoneTypes DEF Usable, Pub, ZoneInv
  <2> QED
    BY <2>1 DEF HandlerStep, Usable
<1>2. ASSUME NEW r \in inflight', r.op = "delete" PROVE r.key # id
  <2>1. CASE r \in inflight
    BY <1>2, <2>1 DEF Usable
  <2>2. CASE r \notin inflight
    BY <1>2, <2>2 DEF HandlerStep, MaySend, OnceOps
  <2> QED
    BY <2>1, <2>2
<1>3. Pub(id, 0)'
  BY HandlerWorld DEF Usable
<1> QED
  BY <1>1, <1>2, <1>3 DEF Usable

\* When the old key goes, what is left signs every version of the zone.
LEMMA DeleteLeaves ==
  ASSUME ZoneInv, HandlerStep, wf.phase = "delete_old",
         \/ wf' = IdleWorkflow /\ wf.kind = "split"
         \/ \E r \in inflight' : r.op = "delete" /\ r \notin inflight
  PROVE  \A z \in ZoneVersions :
           \E id \in z.sig : Usable(id)' /\ \E k \in keys : k.id = id /\ k.flags = 256
<1>0. DSInv /\ HasZSK(wf) /\ Times(wf) /\ ZoneByZSK(wf) /\ KeyBook
  BY ZoneTypes DEF ZoneInv, ZoneParts
<1>1. CASE wf.kind \in Signed
  <2>1. SignsZone(SignerOf(wf), 0)
    BY <1>0, <1>1 DEF Times
  <2>2. PICK id : id = SignerOf(wf)
    OBVIOUS
  <2>3. \E k \in keys : k.id = id /\ k.flags = 256
    BY <2>1, <2>2 DEF SignsZone, IsZSK, ZSK
  <2>4. Usable(id) /\ id # wf.old /\ \A z \in ZoneVersions : id \in z.sig
    BY <2>1, <2>2, SignerGood
  <2>5. Usable(id)'
    BY <2>4, HandlerGood
  <2> QED
    BY <2>3, <2>4, <2>5
<1>2. CASE wf.kind = "ksk"
  <2>1. \A k \in keys : k.id = wf.old => k.flags = 257
    BY <1>2 DEF HandlerStep, MaySend, OnceOps
  <2>2. SomeZSK
    BY <1>0, <1>2 DEF HasZSK
  <2>3. ASSUME NEW z \in ZoneVersions
        PROVE  \E id \in z.sig : Usable(id)' /\ \E k \in keys : k.id = id /\ k.flags = 256
    <3>1. PICK id \in z.sig : Usable(id) /\ \E k \in keys : k.id = id /\ k.flags = 256
      BY <1>0, <1>2, <2>2 DEF ZoneByZSK
    <3>2. id # wf.old
      BY <2>1, <3>1
    <3> QED
      BY <3>1, <3>2, HandlerGood
  <2> QED
    BY <2>3
<1> QED
  BY <1>0, <1>1, <1>2, KindUnderWay DEF Signed

\* Every version of the zone keeps a usable signature.
LEMMA HandlerZone ==
  ASSUME ZoneInv, HandlerStep
  PROVE  ZoneGood' /\ ZoneByZSK(wf)'
<1>0. DSInv /\ ZoneGood /\ ZoneByZSK(wf)
  BY DEF ZoneInv, ZoneParts
<1>1. keys' = keys /\ SomeZSK' = SomeZSK /\ ZoneVersions' = ZoneVersions
  BY HandlerWorld
<1>2. CASE \E r \in inflight' : r.op = "delete" /\ r \notin inflight
  <2>1. wf.phase = "delete_old"
    BY <1>2 DEF HandlerStep, MaySend, OnceOps
  <2> QED
    BY <1>1, <1>2, <2>1, DeleteLeaves DEF ZoneGood, ZoneByZSK
<1>3. CASE \A r \in inflight' : r.op = "delete" => r \in inflight
  <2>1. \A id : Usable(id) => Usable(id)'
    BY <1>3, HandlerGood
  <2>2. ZoneGood'
    BY <1>0, <1>1, <2>1 DEF ZoneGood
  <2>3. CASE wf.kind # "split"
    BY <1>0, <1>1, <2>1, <2>2, <2>3 DEF ZoneByZSK
  <2>4. CASE wf.kind = "split"
    <3>1. wf'.kind = "split" \/ Ends(wf')
      BY <2>4 DEF HandlerStep, Walks, Starts, Fills, SeesKeys, SeesKeysAgain, AsksParent,
                  SeesDS, SeesDSAgain, Activates, SeesSignature, Retires, Deletes, Stops, Resumes,
                  Stays, Same
    <3>2. CASE Ends(wf')
      BY <1>1, <2>2, <2>4, <3>2, DeleteLeaves DEF Ends, ZoneByZSK
    <3> QED
      BY <2>2, <3>1, <3>2 DEF ZoneByZSK
  <2> QED
    BY <2>2, <2>3, <2>4
<1> QED
  BY <1>2, <1>3

\* A longer wait asks for less.
LEMMA SignsLonger ==
  ASSUME DSInv, NEW id, NEW m \in Nat, NEW n \in Nat, m <= n, SignsZone(id, m)
  PROVE  SignsZone(id, n)
<1>1. ASSUME NEW e \in cache.zone, e.left <= m PROVE e.left <= n
  BY <1>1, ZoneTypes
<1> QED
  BY <1>1 DEF SignsZone

\* The signatures were seen on every server, and no cache keeps one that the new
\* signer has not made for longer than the largest TTL.
LEMMA SignatureRecorded ==
  ASSUME ZoneInv, wf.kind \in Signed, wf.phase \in Signing,
         AuthoritativeRRSIGBy(SignerOf(wf)), NEW n \in Nat, n >= maxTTL
  PROVE  SignsZone(SignerOf(wf), n)
<1>0. DSInv /\ TTLBound /\ PhaseFits(wf)
  BY DEF ZoneInv, ZoneParts, DSInv, SlotInv, SlotParts
<1>1. SignerOf(wf) \in Signers(keys, {"zsk", "csk"})
  BY DEF AuthoritativeRRSIGBy, Served, Image
<1>2. PICK k \in keys : k.id = SignerOf(wf) /\ k.active
  BY <1>1 DEF Signers
<1>3. k.flags = 256
  BY <1>0, <1>2 DEF PhaseFits, Signing, AfterParent, Signed, SignerOf, flagsOf
<1>4. ASSUME NEW e \in cache.zone PROVE e.left <= n
  <2>1. e.left <= e.version.ttl
    BY <1>0 DEF DSInv, DSParts, CacheBounded
  <2>2. e.version.ttl <= maxTTL
    BY <1>0 DEF TTLBound, ZoneVersions
  <2>3. e.left \in Nat /\ e.version.ttl \in Nat /\ maxTTL \in Nat
    BY <1>0, ZoneTypes
  <2> QED
    BY <2>1, <2>2, <2>3
<1> QED
  BY <1>2, <1>3, <1>4 DEF SignsZone, IsZSK, ZSK, AuthoritativeRRSIGBy

\* The recorded TTL is one that caches do not exceed.
LEMMA HandlerTimes ==
  ASSUME ZoneInv, HandlerStep, wf' \in Workflow
  PROVE  Times(wf)'
<1>0. DSInv /\ Times(wf) /\ Announcing(wf)
  BY DEF ZoneInv, ZoneParts, DSInv, DSParts
<1>1. /\ wf.zoneTTL \in Nat /\ wf.next \in Nat /\ maxTTL \in Nat
      /\ wf'.zoneTTL \in Nat /\ wf'.next \in Nat
  BY <1>0, ZoneTypes DEF Workflow
<1> SUFFICES /\ wf'.phase \in {"idle", "prepublish"} => wf'.zoneTTL = 0
             /\ wf'.kind \in Signed =>
                  /\ wf'.zoneTTL # 0 => SignsZone(SignerOf(wf'), wf'.zoneTTL)
                  /\ wf'.phase \in {"deactivate_old", "wait_retire"} => wf'.zoneTTL # 0
                  /\ wf'.phase = "wait_retire" => SignsZone(SignerOf(wf'), wf'.next)
                  /\ wf'.phase = "delete_old" => SignsZone(SignerOf(wf'), 0)
  <2>1. SignerOf(wf)' = SignerOf(wf')
    BY DEF SignerOf
  <2> QED
    BY <2>1, HandlerWorld DEF Times
<1>2. CASE Starts(wf') \/ Fills(wf') \/ Ends(wf')
  <2>1. wf'.zoneTTL = 0 /\ wf'.phase \notin {"deactivate_old", "wait_retire", "delete_old"}
    BY <1>0, <1>2 DEF Starts, Fills, Ends, IdleWorkflow, Times
  <2> QED
    BY <2>1
<1>3. ASSUME Same(wf'),
             wf'.phase \notin {"idle", "prepublish", "deactivate_old", "wait_retire", "delete_old"}
      PROVE  /\ wf'.phase \in {"idle", "prepublish"} => wf'.zoneTTL = 0
             /\ wf'.kind \in Signed =>
                  /\ wf'.zoneTTL # 0 => SignsZone(SignerOf(wf'), wf'.zoneTTL)
                  /\ wf'.phase \in {"deactivate_old", "wait_retire"} => wf'.zoneTTL # 0
                  /\ wf'.phase = "wait_retire" => SignsZone(SignerOf(wf'), wf'.next)
                  /\ wf'.phase = "delete_old" => SignsZone(SignerOf(wf'), 0)
  <2>1. SignerOf(wf') = SignerOf(wf)
    BY <1>3 DEF Same, SignerOf
  <2> QED
    BY <1>0, <1>3, <2>1 DEF Same, Times
<1>4. CASE \/ SeesKeys(wf') \/ SeesKeysAgain(wf') \/ AsksParent(wf') \/ SeesDS(wf')
           \/ Activates(wf') \/ Stops(wf') \/ Resumes(wf')
  <2>1. /\ Same(wf')
        /\ wf'.phase \notin {"idle", "prepublish", "deactivate_old", "wait_retire", "delete_old"}
    BY <1>4 DEF SeesKeys, SeesKeysAgain, AsksParent, SeesDS, Activates, Stops, Resumes
  <2> QED
    BY <1>3, <2>1
<1>5. CASE SeesDSAgain(wf')
  <2>1. CASE wf.kind = "split"
    BY <1>3, <1>5, <2>1 DEF SeesDSAgain
  <2>2. CASE wf.kind # "split"
    <3>1. wf'.kind \notin Signed /\ wf'.phase \notin {"idle", "prepublish"}
      BY <1>0, <1>5, <2>2 DEF SeesDSAgain, Same, Announcing, Signed, Rolls
    <3> QED
      BY <3>1
  <2> QED
    BY <2>1, <2>2
<1>6. CASE SeesSignature(wf')
  <2>0. SignerOf(wf') = SignerOf(wf) /\ wf'.kind = wf.kind
    BY <1>6 DEF SeesSignature, SignerOf
  <2>1. wf'.phase \in Signing /\ wf.phase \in Signing
    BY <1>6 DEF SeesSignature
  <2>2. ASSUME wf.kind \in Signed, wf'.zoneTTL # 0 PROVE SignsZone(SignerOf(wf), wf'.zoneTTL)
    <3>1. CASE wf'.zoneTTL = wf.zoneTTL
      BY <1>0, <2>2, <3>1 DEF Times
    <3>2. CASE wf'.zoneTTL # wf.zoneTTL
      <4>1. AuthoritativeRRSIGBy(SignerOf(wf)) /\ wf'.zoneTTL >= maxTTL
        BY <1>6, <2>2, <3>2 DEF SeesSignature, Signed
      <4> QED
        BY <1>1, <2>1, <2>2, <4>1, SignatureRecorded
    <3> QED
      BY <3>1, <3>2
  <2>3. ASSUME wf.kind \in Signed, wf'.phase = "deactivate_old" PROVE wf'.zoneTTL # 0
    <3>1. wf.zoneTTL # 0
      BY <1>0, <1>6, <2>1, <2>3 DEF Times, SeesSignature, Signing
    <3>2. wf'.zoneTTL = wf.zoneTTL \/ wf'.zoneTTL >= wf.zoneTTL
      BY <1>6 DEF SeesSignature
    <3> QED
      BY <1>1, <3>1, <3>2
  <2> QED
    BY <2>0, <2>1, <2>2, <2>3 DEF Signing
<1>7. CASE Retires(wf')
  <2>0. SignerOf(wf') = SignerOf(wf) /\ Same(wf') /\ wf.phase = "deactivate_old"
    BY <1>7 DEF Retires, Same, SignerOf
  <2>1. CASE wf.kind \notin Signed
    BY <1>7, <2>0, <2>1 DEF Retires, Same
  <2>2. CASE wf.kind \in Signed
    <3>1. wf'.phase = "wait_retire" /\ wf'.next = ZoneWait(wf.zoneTTL)
      BY <1>7, <2>2 DEF Retires, Signed
    <3>2. wf.zoneTTL # 0 /\ SignsZone(SignerOf(wf), wf.zoneTTL)
      BY <1>0, <2>0, <2>2 DEF Times
    <3>3. wf.zoneTTL <= wf'.next
      BY <1>1, <3>1, WaitAssumptions DEF ZoneWait
    <3>4. SignsZone(SignerOf(wf), wf'.next)
      BY <1>0, <1>1, <3>2, <3>3, SignsLonger
    <3> QED
      BY <2>0, <3>1, <3>2, <3>4 DEF Same
  <2> QED
    BY <2>1, <2>2
<1>8. CASE Deletes(wf')
  <2>0. SignerOf(wf') = SignerOf(wf) /\ Same(wf')
    BY <1>8 DEF Deletes, Same, SignerOf
  <2> QED
    BY <1>0, <1>8, <2>0 DEF Deletes, Same, Times
<1>9. CASE Stays(wf')
  <2>0. SignerOf(wf') = SignerOf(wf) /\ Same(wf')
    BY <1>9 DEF Stays, Same, SignerOf
  <2> QED
    BY <1>0, <1>9, <2>0 DEF Stays, Same, Times
<1> QED
  BY <1>2, <1>4, <1>5, <1>6, <1>7, <1>8, <1>9 DEF HandlerStep, Walks

\* A step of a handler keeps what the zone rests on.
LEMMA HandlerZoneParts ==
  ASSUME ZoneInv, HandlerStep, DSInv'
  PROVE  ZoneParts'
<1>1. TTLBound'
  BY HandlerWorld DEF ZoneInv, ZoneParts, TTLBound
<1>2. wf' \in Workflow
  BY DEF DSInv, SlotInv, OnceInv, TypeOK
<1> QED
  BY <1>1, <1>2, HandlerPubActive, HandlerNewPub, HandlerBacked, HandlerHasZSK, HandlerZone,
     HandlerTimes DEF ZoneParts

\* An active ZSK is usable, or another one is.
LEMMA SomeGoodZSK ==
  ASSUME DSInv', PubActive', Backed(wf)', SomeZSK'
  PROVE  \E k \in keys' : ZSK(k) /\ Usable(k.id)'
<1>0. StrayApart' /\ RequestsFit' /\ KeyBook'
  BY DEF DSInv, SlotInv, SlotParts
<1>1. ASSUME NEW k \in keys', ZSK(k), \A r \in inflight' : r.op = "delete" => r.key # k.id
      PROVE  Usable(k.id)'
  <2>1. Pub(k.id, 0)'
    BY <1>1 DEF PubActive, ZSK
  <2>2. k.id # stray'
    BY <1>0, <1>1 DEF StrayApart, KeyBook, ZSK
  <2> QED
    BY <1>1, <2>1, <2>2 DEF Usable
<1>2. CASE \E k \in keys' : ZSK(k) /\ k.id # wf'.old
  <2>1. PICK k \in keys' : ZSK(k) /\ k.id # wf'.old
    BY <1>2
  <2>2. \A r \in inflight' : r.op = "delete" => r.key # k.id
    BY <1>0, <2>1 DEF RequestsFit, HasKey
  <2> QED
    BY <1>1, <2>1, <2>2
<1>3. CASE ~\E k \in keys' : ZSK(k) /\ k.id # wf'.old
  <2>1. \A r \in inflight' : r.op = "delete" => ~HasKey(keys', r.key)
    BY <1>3 DEF Backed, Stopping, ZSK
  <2>2. PICK k \in keys' : ZSK(k)
    BY DEF SomeZSK, ZSK
  <2> QED
    BY <1>1, <2>1, <2>2 DEF HasKey
<1> QED
  BY <1>2, <1>3

\* PowerDNS serves other keys or another TTL, and everything usable stays so.
LEMMA ServeZoneParts ==
  ASSUME ZoneInv, DSInv', NEW ks \in SUBSET PowerDNSKey, NEW ttl \in ZoneTTLs,
         NEW sec \in {secondary, Image(ks, ttl)}, Serve(ks, ttl, sec), maxTTL <= maxTTL',
         wf' = wf, inflight' \subseteq inflight, stray' \in {stray, 0, lastID + 1},
         \A k \in keys : Usable(k.id) => \E x \in ks : x.id = k.id /\ x.flags = k.flags,
         (\E x \in ks : ZSK(x)) \/ \A k \in keys : Usable(k.id) => k \in ks,
         \A k \in keys : ZSK(k) /\ k.id # wf.old => \E x \in ks : x.id = k.id /\ ZSK(x),
         SomeZSK => \E x \in ks : ZSK(x),
         wf.kind # "split" /\ (\E x \in ks : ZSK(x)) => SomeZSK,
         \A x \in ks :
           x.flags = 256 /\ (x.active \/ \E r \in inflight' : r.op = "activate" /\ r.key = x.id) =>
             Pub(x.id, 0),
         \A r \in inflight : HasKey(ks, r.key) => HasKey(keys, r.key)
  PROVE  ZoneParts'
<1>0. /\ DSInv /\ TTLBound /\ PubActive /\ NewPub(wf) /\ Backed(wf) /\ HasZSK(wf)
      /\ ZoneGood /\ ZoneByZSK(wf) /\ Times(wf)
      /\ ServedType /\ SlotBook /\ SlotBook' /\ KeyBook' /\ AllPublished' /\ keys' = ks
  BY ZoneTypes DEF ZoneInv, ZoneParts, DSInv, SlotInv, SlotParts, DSParts, Serve
<1>1. ASSUME NEW id, NEW n, Pub(id, n), HasKey(ks, id) PROVE Pub(id, n)'
  BY <1>0, <1>1, ServePub DEF AllPublished
<1>2. ASSUME NEW id, Usable(id) PROVE Usable(id)'
  <2>1. PICK k \in keys : k.id = id
    BY <1>2 DEF Usable, Pub, HasKey
  <2>2. HasKey(ks, id)
    BY <1>2, <2>1 DEF HasKey
  <2>3. Pub(id, 0)'
    BY <1>1, <1>2, <2>2 DEF Usable
  <2>4. id # stray'
    <3>1. id \in 1..lastID /\ lastID \in Nat
      BY <1>0, <1>2, ZoneTypes DEF Usable, Pub
    <3> QED
      BY <1>2, <3>1 DEF Usable
  <2> QED
    BY <1>2, <2>3, <2>4 DEF Usable
<1>3. PubActive'
  <2> SUFFICES ASSUME NEW x \in ks, x.flags = 256,
                      x.active \/ \E r \in inflight' : r.op = "activate" /\ r.key = x.id
               PROVE  Pub(x.id, 0)'
    BY <1>0 DEF PubActive
  <2>1. HasKey(ks, x.id) /\ Pub(x.id, 0)
    BY DEF HasKey
  <2> QED
    BY <1>1, <2>1
<1>4. ASSUME HasKey(keys, SignerOf(wf)) PROVE HasKey(ks, SignerOf(wf))
  <2>1. SignerOf(wf) # 0
    BY <1>0, <1>4, ZoneTypes
  <2> QED
    BY <1>0, <2>1 DEF SlotBook, SignerOf
<1>5. NewPub(wf)'
  <2>1. PICK id, n : id = SignerOf(wf) /\ n = wf.next
    OBVIOUS
  <2>2. id = SignerOf(wf)' /\ n = wf'.next
    BY <2>1 DEF SignerOf
  <2>3. \A m : Pub(id, m) => Pub(id, m)'
    BY <1>1, <1>4, <2>1 DEF Pub
  <2> QED
    BY <1>0, <2>1, <2>2, <2>3 DEF NewPub
<1>6. Backed(wf)'
  BY <1>0 DEF Backed, ZSK
<1>7. HasZSK(wf)'
  BY <1>0 DEF HasZSK, SomeZSK, ZSK
<1>8. Times(wf)'
  <2>1. PICK id, n, t : id = SignerOf(wf) /\ n = wf.next /\ t = wf.zoneTTL
    OBVIOUS
  <2>2. id = SignerOf(wf)' /\ n = wf'.next /\ t = wf'.zoneTTL
    BY <2>1 DEF SignerOf
  <2>3. ASSUME NEW m, SignsZone(id, m) PROVE SignsZone(id, m)'
    <3>1. PICK k \in keys : k.id = id /\ ZSK(k)
      BY <2>3 DEF SignsZone, IsZSK
    <3>2. id # wf.old
      BY <1>0, <2>1, <3>1, SignerIsNew DEF HasKey
    <3>3. PICK x \in ks : x.id = id /\ ZSK(x)
      BY <3>1, <3>2
    <3>4. \A y \in ks : y.flags = flagsOf(y.made)
      BY <1>0 DEF KeyBook
    <3> QED
      BY <1>0, <2>3, <3>3, <3>4, ServeSigned
  <2> QED
    BY <1>0, <2>1, <2>2, <2>3 DEF Times
<1>9. TTLBound'
  <2>1. ASSUME NEW z \in ZoneVersions' PROVE z.ttl <= maxTTL'
    <3>1. maxTTL \in Nat /\ maxTTL' \in Nat /\ ttl \in Nat /\ ttl <= maxTTL'
      <4>1. zoneTTL' = ttl /\ ttl \in Nat /\ MinimumZoneTTL \in Nat
        BY WorldAssumptions, RotationAssumptions DEF Serve
      <4> QED
        BY <1>0, <4>1, ZoneTypes DEF maxTTL, maxDuration
    <3>2. CASE z \in ZoneVersions
      <4>1. z.ttl <= maxTTL /\ z.ttl \in Nat
        BY <1>0, <3>2, ZoneTypes DEF TTLBound
      <4> QED
        BY <3>1, <4>1
    <3>3. CASE z = ZoneRRset(Image(ks, ttl))
      BY <3>1, <3>3 DEF ZoneRRset, Image
    <3> QED
      BY <1>0, <2>1, <3>2, <3>3, ServeVersions
  <2> QED
    BY <2>1 DEF TTLBound
<1>10. CASE \E x \in ks : ZSK(x)
  <2>1. PICK x \in ks : ZSK(x) /\ Usable(x.id)'
    <3>1. SomeZSK'
      BY <1>0, <1>10 DEF SomeZSK, ZSK
    <3> QED
      BY <1>0, <1>3, <1>6, <3>1, SomeGoodZSK
  <2>2. x.id \in Image(ks, ttl).zoneSig
    BY <1>0, <2>1, ZSKSigns DEF KeyBook
  <2>3. x.id \in ZoneRRset(Image(ks, ttl)).sig /\ x.flags = 256
    BY <2>1, <2>2 DEF ZoneRRset, ZSK
  <2>4. ZoneGood'
    <3> SUFFICES ASSUME NEW z \in ZoneVersions' PROVE \E id \in z.sig : Usable(id)'
      BY DEF ZoneGood
    <3> QED
      BY <1>0, <1>2, <2>1, <2>3, ServeVersions DEF ZoneGood
  <2>5. ZoneByZSK(wf)'
    <3> SUFFICES ASSUME wf.kind # "split", NEW z \in ZoneVersions'
                 PROVE  \E id \in z.sig : Usable(id)' /\ \E k \in ks : k.id = id /\ k.flags = 256
      BY <1>0 DEF ZoneByZSK
    <3>1. CASE z \in ZoneVersions
      <4>1. SomeZSK
        BY <1>10
      <4>2. PICK id \in z.sig : Usable(id) /\ \E k \in keys : k.id = id /\ k.flags = 256
        BY <1>0, <3>1, <4>1 DEF ZoneByZSK
      <4>3. \E k \in ks : k.id = id /\ k.flags = 256
        BY <4>2
      <4> QED
        BY <1>2, <4>2, <4>3
    <3>2. CASE z = ZoneRRset(Image(ks, ttl))
      BY <2>1, <2>3, <3>2
    <3> QED
      BY <1>0, <3>1, <3>2, ServeVersions
  <2> QED
    BY <1>3, <1>5, <1>6, <1>7, <1>8, <1>9, <2>4, <2>5 DEF ZoneParts
<1>11. CASE ~\E x \in ks : ZSK(x)
  <2>1. ~SomeZSK /\ ~SomeZSK'
    BY <1>0, <1>11 DEF SomeZSK, ZSK
  <2>2. PICK id \in Image(keys, zoneTTL).zoneSig : Usable(id)
    <3>1. ZoneRRset(Image(keys, zoneTTL)) \in ZoneVersions
      BY DEF ZoneVersions, Served
    <3> QED
      BY <1>0, <3>1 DEF ZoneGood, ZoneRRset
  <2>3. PICK k \in keys : k.id = id /\ k.active /\ Role(keys, k) \in {"zsk", "csk"}
    BY <2>2 DEF Image, Signers
  <2>4. k \in ks
    BY <1>11, <2>2, <2>3
  <2>5. k.flags # 256 /\ k.made \in KeyTypes /\ k.flags = flagsOf(k.made)
    <3>1. KeyBook /\ keys \in SUBSET PowerDNSKey
      BY <1>0, ZoneTypes
    <3> QED
      BY <2>1, <2>3, <3>1 DEF SomeZSK, ZSK, KeyBook, PowerDNSKey
  <2>6. Role(ks, k) \in {"zsk", "csk"}
    <3>1. CASE DynamicRoles
      <4>1. ~RolesSplit(ks)
        BY <1>11 DEF RolesSplit, ZSK
      <4> QED
        BY <3>1, <4>1 DEF Role
    <3>2. CASE ~DynamicRoles
      BY <2>3, <3>2 DEF Role
    <3> QED
      BY <3>1, <3>2
  <2>7. id \in ZoneRRset(Image(ks, ttl)).sig
    BY <2>3, <2>4, <2>6 DEF ZoneRRset, Image, Signers
  <2>8. ZoneGood'
    <3> SUFFICES ASSUME NEW z \in ZoneVersions' PROVE \E i \in z.sig : Usable(i)'
      BY DEF ZoneGood
    <3>1. CASE z \in ZoneVersions
      BY <1>0, <1>2, <3>1 DEF ZoneGood
    <3>2. CASE z = ZoneRRset(Image(ks, ttl))
      BY <1>2, <2>2, <2>7, <3>2
    <3> QED
      BY <1>0, <3>1, <3>2, ServeVersions
  <2>9. ZoneByZSK(wf)'
    BY <2>1 DEF ZoneByZSK
  <2> QED
    BY <1>3, <1>5, <1>6, <1>7, <1>8, <1>9, <2>8, <2>9 DEF ZoneParts
<1> QED
  BY <1>10, <1>11

\* A new key signs nothing of the zone yet that another key does not.
LEMMA ZoneKeyAdded ==
  ASSUME ZoneInv, DSInv', NEW made \in {"ksk", "zsk"},
         Serve(keys \cup {NewKey(lastID + 1, made, made = "ksk")}, zoneTTL, secondary),
         wf' = wf, inflight' \subseteq inflight, stray' \in {stray, lastID + 1}
  PROVE  ZoneParts'
<1> DEFINE n == NewKey(lastID + 1, made, made = "ksk")
           ks == keys \cup {n}
<1>0. DSInv /\ PubActive /\ RequestsFit /\ keys \in SUBSET PowerDNSKey /\ lastID \in Nat
      /\ zoneTTL \in ZoneTTLs
  BY ZoneTypes DEF ZoneInv, ZoneParts, DSInv, SlotInv, SlotParts, ServedType
<1>1. n \in PowerDNSKey /\ n.id = lastID + 1 /\ ~ZSK(n) /\ (n.active => n.flags # 256)
  <2>1. CASE made = "ksk"
    BY <1>0, <2>1 DEF NewKey, PowerDNSKey, flagsOf, KeyTypes, ZSK
  <2>2. CASE made = "zsk"
    <3>1. n = NewKey(lastID + 1, "zsk", FALSE)
      BY <2>2
    <3> QED
      BY <1>0, <3>1 DEF NewKey, PowerDNSKey, flagsOf, KeyTypes, ZSK
  <2> QED
    BY <2>1, <2>2
<1>2. Serve(ks, zoneTTL, secondary)
  OBVIOUS
<1>3. /\ maxTTL <= maxTTL' /\ secondary \in {secondary, Image(ks, zoneTTL)}
      /\ stray' \in {stray, 0, lastID + 1}
  <2>1. maxTTL' = maxTTL /\ maxTTL \in Nat
    BY <1>0, ZoneTypes DEF maxTTL, Serve
  <2> QED
    BY <2>1
<1>4. \A r \in inflight : r.key \in Nat /\ r.key <= lastID
  BY <1>0, SlotNumbers DEF RequestsFit, DSInv, SlotInv, OnceInv
<1> HIDE DEF n
<1>5. \A r \in inflight : r.key # n.id
  BY <1>0, <1>1, <1>4
<1>6. \A r \in inflight : HasKey(ks, r.key) => HasKey(keys, r.key)
  BY <1>5 DEF HasKey
<1>7. \A x \in ks :
        x.flags = 256 /\ (x.active \/ \E r \in inflight' : r.op = "activate" /\ r.key = x.id) =>
          Pub(x.id, 0)
  BY <1>0, <1>1, <1>5 DEF PubActive
<1>8. /\ ks \in SUBSET PowerDNSKey /\ (\A k \in keys : k \in ks)
      /\ \A x \in ks : ZSK(x) => x \in keys
  BY <1>0, <1>1
<1> HIDE DEF ks
<1>9. /\ \A k \in keys : Usable(k.id) => \E x \in ks : x.id = k.id /\ x.flags = k.flags
      /\ (\E x \in ks : ZSK(x)) \/ \A k \in keys : Usable(k.id) => k \in ks
      /\ \A k \in keys : ZSK(k) /\ k.id # wf.old => \E x \in ks : x.id = k.id /\ ZSK(x)
      /\ SomeZSK => \E x \in ks : ZSK(x)
      /\ wf.kind # "split" /\ (\E x \in ks : ZSK(x)) => SomeZSK
  BY <1>8 DEF SomeZSK
<1> QED
  BY <1>0, <1>2, <1>3, <1>6, <1>7, <1>8, <1>9, ServeZoneParts

\* The key that goes is the old one, whose deletion was sent, or a foreign one.
LEMMA ZoneKeyDropped ==
  ASSUME ZoneInv, DSInv', NEW id,
         \/ id = stray /\ stray # 0
         \/ \E r \in inflight : r.op = "delete" /\ r.key = id,
         Serve({k \in keys : k.id # id}, zoneTTL, secondary),
         wf' = wf, inflight' \subseteq inflight, stray' \in {stray, 0}
  PROVE  ZoneParts'
<1> DEFINE ks == {k \in keys : k.id # id}
<1>0. DSInv /\ PubActive /\ Backed(wf) /\ RequestsFit /\ StrayApart /\ keys \in SUBSET PowerDNSKey
      /\ zoneTTL \in ZoneTTLs
  BY ZoneTypes DEF ZoneInv, ZoneParts, DSInv, SlotInv, SlotParts, ServedType
<1>1. /\ maxTTL <= maxTTL' /\ secondary \in {secondary, Image(ks, zoneTTL)}
      /\ stray' \in {stray, 0, lastID + 1}
  <2>1. maxTTL' = maxTTL /\ maxTTL \in Nat
    BY <1>0, ZoneTypes DEF maxTTL, Serve
  <2> QED
    BY <2>1
<1>2. \A k \in keys : Usable(k.id) => k \in ks
  BY DEF Usable
<1>3. \A k \in keys : ZSK(k) /\ k.id # wf.old => k \in ks
  BY <1>0 DEF StrayApart, RequestsFit, HasKey, ZSK
<1>4. SomeZSK => \E x \in ks : ZSK(x)
  <2> SUFFICES ASSUME NEW k \in keys, ZSK(k) PROVE \E x \in ks : ZSK(x)
    BY DEF SomeZSK
  <2>1. CASE k.id # id
    BY <2>1
  <2>2. CASE k.id = id
    <3>1. \E r \in inflight : r.op = "delete" /\ HasKey(keys, r.key)
      BY <1>0, <2>2 DEF StrayApart, HasKey, ZSK
    <3> QED
      BY <1>0, <1>3, <3>1 DEF Backed, Stopping
  <2> QED
    BY <2>1, <2>2
<1>5. /\ \A x \in ks :
           x.flags = 256 /\ (x.active \/ \E r \in inflight' : r.op = "activate" /\ r.key = x.id) =>
             Pub(x.id, 0)
      /\ \A r \in inflight : HasKey(ks, r.key) => HasKey(keys, r.key)
      /\ wf.kind # "split" /\ (\E x \in ks : ZSK(x)) => SomeZSK
      /\ ks \in SUBSET PowerDNSKey
  BY <1>0 DEF PubActive, HasKey, SomeZSK
<1>6. Serve(ks, zoneTTL, secondary)
  OBVIOUS
<1> HIDE DEF ks
<1>7. /\ \A k \in keys : Usable(k.id) => \E x \in ks : x.id = k.id /\ x.flags = k.flags
      /\ \A k \in keys : ZSK(k) /\ k.id # wf.old => \E x \in ks : x.id = k.id /\ ZSK(x)
  BY <1>2, <1>3
<1> QED
  BY <1>0, <1>1, <1>2, <1>4, <1>5, <1>6, <1>7, ServeZoneParts

\* The key that is switched is a ZSK that everybody has, or the old key while
\* another ZSK is active.
LEMMA ZoneKeySwitched ==
  ASSUME ZoneInv, DSInv', NEW r \in inflight, NEW b \in BOOLEAN,
         r.op = (IF b THEN "activate" ELSE "deactivate"),
         Serve(Switched(r.key, b), zoneTTL, secondary),
         Switched(r.key, b) \in SUBSET PowerDNSKey,
         wf' = wf, inflight' \subseteq inflight, stray' = stray
  PROVE  ZoneParts'
<1> DEFINE f(k) == IF k.id = r.key THEN [k EXCEPT !.active = b] ELSE k
           ks == Switched(r.key, b)
<1>0. /\ DSInv /\ PubActive /\ Backed(wf) /\ HasZSK(wf) /\ RequestsFit
      /\ keys \in SUBSET PowerDNSKey /\ zoneTTL \in ZoneTTLs
  BY ZoneTypes DEF ZoneInv, ZoneParts, DSInv, SlotInv, SlotParts, ServedType
<1>1. /\ maxTTL <= maxTTL' /\ secondary \in {secondary, Image(ks, zoneTTL)}
      /\ stray' \in {stray, 0, lastID + 1}
  <2>1. maxTTL' = maxTTL /\ maxTTL \in Nat
    BY <1>0, ZoneTypes DEF maxTTL, Serve
  <2> QED
    BY <2>1
<1>2. ks = {f(k) : k \in keys}
  BY DEF Switched
<1>3. \A k \in keys : /\ f(k).id = k.id /\ f(k).flags = k.flags
                      /\ k.id = r.key => (f(k).active <=> b)
                      /\ k.id # r.key => f(k) = k
  BY <1>0 DEF PowerDNSKey
<1>4. /\ b => \A k \in keys : k.id = r.key => k.flags = 256
      /\ ~b /\ HasKey(keys, r.key) => r.key = wf.old
  BY <1>0 DEF RequestsFit, HasKey
<1>5. ~b /\ HasKey(keys, r.key) => \E k \in keys : ZSK(k) /\ k.id # r.key
  BY <1>0, <1>4 DEF Backed, Stopping
<1>6. ks \in SUBSET PowerDNSKey /\ Serve(ks, zoneTTL, secondary)
  OBVIOUS
<1>a. b => r.op = "activate"
  OBVIOUS
<1> HIDE DEF f, ks
<1>7. \A k \in keys : f(k) \in ks /\ f(k).id = k.id /\ f(k).flags = k.flags
  BY <1>2, <1>3
<1>8. \A k \in keys : ZSK(k) /\ (b \/ k.id # r.key) => ZSK(f(k))
  BY <1>3, <1>4 DEF ZSK
<1>9. \A k \in keys : ZSK(k) /\ k.id # wf.old => \E x \in ks : x.id = k.id /\ ZSK(x)
  BY <1>4, <1>7, <1>8 DEF HasKey
<1>10. SomeZSK => \E x \in ks : ZSK(x)
  <2> SUFFICES ASSUME NEW k \in keys, ZSK(k) PROVE \E x \in ks : ZSK(x)
    BY DEF SomeZSK
  <2>1. CASE b \/ k.id # r.key
    BY <1>7, <1>8, <2>1
  <2>2. CASE ~b /\ k.id = r.key
    BY <1>5, <1>7, <1>8, <2>2 DEF HasKey
  <2> QED
    BY <2>1, <2>2
<1>11. (\E x \in ks : ZSK(x)) \/ \A k \in keys : Usable(k.id) => k \in ks
  <2>1. CASE HasKey(keys, r.key) /\ b
    <3>1. PICK k \in keys : k.id = r.key
      BY <2>1 DEF HasKey
    <3>2. ZSK(f(k))
      BY <1>3, <1>4, <2>1, <3>1 DEF ZSK
    <3> QED
      BY <1>7, <3>2
  <2>2. CASE HasKey(keys, r.key) /\ ~b
    BY <1>5, <1>7, <1>8, <2>2
  <2>3. CASE ~HasKey(keys, r.key)
    BY <1>3, <1>7, <2>3 DEF HasKey
  <2> QED
    BY <1>4, <2>1, <2>2, <2>3
<1>12. wf.kind # "split" /\ (\E x \in ks : ZSK(x)) => SomeZSK
  <2> SUFFICES ASSUME wf.kind # "split", NEW k \in keys, ZSK(f(k)) PROVE SomeZSK
    BY <1>2
  <2>1. CASE k.id # r.key
    BY <1>3, <2>1 DEF SomeZSK
  <2>2. CASE k.id = r.key
    <3>1. b
      BY <1>3, <2>2 DEF ZSK
    <3> QED
      BY <1>0, <1>a, <2>2, <3>1 DEF HasZSK, HasKey
  <2> QED
    BY <2>1, <2>2
<1>13. ASSUME NEW x \in ks, x.flags = 256,
              x.active \/ \E s \in inflight' : s.op = "activate" /\ s.key = x.id
       PROVE  Pub(x.id, 0)
  <2>1. PICK k \in keys : x = f(k)
    BY <1>2
  <2>2. k.flags = 256 /\ k.id = x.id
    BY <1>3, <1>13, <2>1
  <2>3. k.active \/ \E s \in inflight : s.op = "activate" /\ s.key = k.id
    <3>1. CASE \E s \in inflight' : s.op = "activate" /\ s.key = x.id
      BY <2>2, <3>1
    <3>2. CASE x.active /\ k.id # r.key
      BY <1>3, <2>1, <3>2
    <3>3. CASE x.active /\ k.id = r.key
      BY <1>3, <1>a, <2>1, <3>3
    <3> QED
      BY <1>13, <3>1, <3>2, <3>3
  <2> QED
    BY <1>0, <2>2, <2>3 DEF PubActive
<1>14. \A s \in inflight : HasKey(ks, s.key) => HasKey(keys, s.key)
  BY <1>2, <1>3 DEF HasKey
<1>15. \A k \in keys : Usable(k.id) => \E x \in ks : x.id = k.id /\ x.flags = k.flags
  BY <1>7
<1> QED
  BY <1>0, <1>1, <1>6, <1>9, <1>10, <1>11, <1>12, <1>13, <1>14, <1>15, ServeZoneParts

\* PowerDNS creates, switches or deletes a key.
LEMMA PowerDNSZone ==
  ASSUME ZoneInv, DSInv', NEW r \in inflight, PowerDNSApplies(r)
  PROVE  ZoneParts'
<1>0. TypeOK /\ r \in Request
  BY DSTypes, SlotNumbers DEF ZoneInv
<1>1. /\ Serve(KeysAfter(r), zoneTTL, secondary) /\ stray' = stray /\ wf' = wf
      /\ inflight' \subseteq inflight
      /\ r.op \in Creates \cup {"activate", "deactivate", "delete"}
  BY <1>0 DEF PowerDNSApplies, Request, Ops, OnceOps, Creates
<1>2. CASE r.op \in Creates
  <2>1. /\ KeysAfter(r) = keys \cup {NewKey(lastID + 1, r.made, r.made = "ksk")}
        /\ r.made \in {"ksk", "zsk"}
    BY <1>0, <1>2 DEF KeysAfter, Creates, Request
  <2> QED
    BY <1>1, <2>1, ZoneKeyAdded
<1>3. CASE r.op = "delete"
  <2>1. KeysAfter(r) = {k \in keys : k.id # r.key}
    BY <1>3 DEF KeysAfter
  <2>2. PICK id : id = r.key
    OBVIOUS
  <2> QED
    BY <1>1, <1>3, <2>1, <2>2, ZoneKeyDropped
<1>4. CASE r.op \in {"activate", "deactivate"}
  <2>1. PICK b \in BOOLEAN : b = (r.op = "activate")
    OBVIOUS
  <2>3. KeysAfter(r) = Switched(r.key, b) /\ r.op = (IF b THEN "activate" ELSE "deactivate")
    BY <1>4, <2>1 DEF KeysAfter, Switched
  <2>2. KeysAfter(r) \in SUBSET PowerDNSKey
    BY <1>0, KeysAfterType
  <2> QED
    BY <1>1, <2>2, <2>3, ZoneKeySwitched
<1> QED
  BY <1>1, <1>2, <1>3, <1>4

\* A foreign key comes or goes.
LEMMA StraysZone ==
  ASSUME ZoneInv, DSInv', StrayKeyAppears \/ StrayKeyRemoved
  PROVE  ZoneParts'
<1>1. CASE StrayKeyAppears
  BY <1>1, ZoneKeyAdded DEF StrayKeyAppears
<1>2. CASE StrayKeyRemoved
  BY <1>2, ZoneKeyDropped DEF StrayKeyRemoved
<1> QED
  BY <1>1, <1>2

\* The zone is transferred or edited: the keys are the same, and the largest TTL
\* the controller reckons with does not fall.
LEMMA ZoneServed ==
  ASSUME ZoneInv, DSInv', SecondarySync \/ ZoneEdited(MinimumZoneTTL), wf' = wf,
         UNCHANGED <<inflight, stray>>
  PROVE  ZoneParts'
<1>0. DSInv /\ PubActive /\ keys \in SUBSET PowerDNSKey /\ zoneTTL \in ZoneTTLs
  BY ZoneTypes DEF ZoneInv, ZoneParts, ServedType
<1>1. PICK ttl \in ZoneTTLs, sec \in ZoneImage :
        /\ Serve(keys, ttl, sec) /\ sec \in {secondary, Image(keys, ttl)}
        /\ ttl >= zoneTTL \/ zoneTTL <= MinimumZoneTTL
  <2>0. secondary \in ZoneImage /\ Image(keys, zoneTTL) \in ZoneImage /\ zoneTTL \in Nat
    BY <1>0, ImageType, ZoneTypes DEF ServedType
  <2>1. CASE SecondarySync
    BY <1>0, <2>0, <2>1 DEF SecondarySync
  <2>2. CASE ZoneEdited(MinimumZoneTTL)
    <3>1. PICK ttl \in ZoneTTLs : /\ ttl > zoneTTL \/ (ttl < zoneTTL /\ zoneTTL <= MinimumZoneTTL)
                                  /\ Serve(keys, ttl, secondary)
      BY <2>2 DEF ZoneEdited
    <3>2. ttl \in Nat /\ zoneTTL \in Nat
      BY <1>0, WorldAssumptions
    <3> QED
      BY <2>0, <3>1, <3>2
  <2> QED
    BY <2>1, <2>2
<1>2. maxTTL <= maxTTL'
  <2>1. zoneTTL' = ttl /\ ttl \in Nat /\ zoneTTL \in Nat /\ MinimumZoneTTL \in Nat
    BY <1>0, <1>1, WorldAssumptions, RotationAssumptions DEF Serve
  <2> QED
    BY <1>1, <2>1 DEF maxTTL, maxDuration
<1>3. /\ \A x \in keys :
           x.flags = 256 /\ (x.active \/ \E r \in inflight' : r.op = "activate" /\ r.key = x.id) =>
             Pub(x.id, 0)
      /\ SomeZSK <=> \E x \in keys : ZSK(x)
  BY <1>0 DEF PubActive, SomeZSK
<1> QED
  BY <1>0, <1>1, <1>2, <1>3, ServeZoneParts

\* A step that touches neither keys, zone, DNSKEY caches nor workflow.
LEMMA ZoneAlike ==
  ASSUME ZoneInv, UNCHANGED <<keys, zoneTTL, secondary, wf, stray>>, inflight' \subseteq inflight,
         cache'.dnskey = cache.dnskey, cache'.zone = cache.zone
  PROVE  ZoneParts'
<1>0. /\ TTLBound /\ PubActive /\ NewPub(wf) /\ Backed(wf) /\ HasZSK(wf)
      /\ ZoneGood /\ ZoneByZSK(wf) /\ Times(wf)
  BY DEF ZoneInv, ZoneParts
<1>1. Served' = Served /\ ZoneVersions' = ZoneVersions /\ maxTTL' = maxTTL /\ SomeZSK' = SomeZSK
  BY DEF Served, ZoneVersions, maxTTL, SomeZSK, ZSK
<1>2. \A id, n : Pub(id, n) => Pub(id, n)'
  BY <1>1 DEF Pub
<1>3. \A id, n : SignsZone(id, n) => SignsZone(id, n)'
  BY <1>1 DEF SignsZone, IsZSK, ZSK
<1>4. \A id : Usable(id) => Usable(id)'
  BY <1>2 DEF Usable
<1>5. TTLBound' /\ PubActive'
  BY <1>0, <1>1, <1>2 DEF TTLBound, PubActive
<1>6. NewPub(wf)' /\ Times(wf)'
  <2>1. PICK id, n, t : id = SignerOf(wf) /\ n = wf.next /\ t = wf.zoneTTL
    OBVIOUS
  <2>2. id = SignerOf(wf)' /\ n = wf'.next /\ t = wf'.zoneTTL
    BY <2>1 DEF SignerOf
  <2>3. NewPub(wf)'
    BY <1>0, <1>2, <2>1, <2>2 DEF NewPub
  <2>4. Times(wf)'
    BY <1>0, <1>3, <2>1, <2>2 DEF Times
  <2> QED
    BY <2>3, <2>4
<1>7. Backed(wf)' /\ HasZSK(wf)'
  BY <1>0, <1>1 DEF Backed, HasZSK, ZSK
<1>8. ZoneGood' /\ ZoneByZSK(wf)'
  BY <1>0, <1>1, <1>4 DEF ZoneGood, ZoneByZSK
<1> QED
  BY <1>5, <1>6, <1>7, <1>8 DEF ZoneParts

\* What is left of a wait after one unit of time.
Less(n) == IF n > 0 THEN n - 1 ELSE 0

\* Caches forget one unit of time of what they have.
LEMMA ElapsePub ==
  ASSUME ServedType, WorldElapses, NEW id, NEW n \in Nat, Pub(id, n)
  PROVE  Pub(id, Less(n))' /\ Pub(id, n)'
<1>1. keys' = keys /\ Served' = Served
  BY DEF WorldElapses, Served
<1>2. ASSUME NEW e \in cache'.dnskey
      PROVE  id \in e.version.keys \/ (e.left <= Less(n) /\ e.left <= n)
  <2>1. PICK x \in cache.dnskey : x.left \in Nat /\ e.version = x.version /\ e.left = x.left - 1
    BY <1>2, ElapsedEntries
  <2>2. id \in x.version.keys \/ x.left <= n
    BY DEF Pub
  <2> QED
    BY <2>1, <2>2 DEF Less
<1> QED
  BY <1>1, <1>2 DEF Pub, Less

\* The same for the versions of the zone.
LEMMA ElapseSigned ==
  ASSUME ServedType, WorldElapses, NEW id, NEW n \in Nat, SignsZone(id, n)
  PROVE  SignsZone(id, Less(n))' /\ SignsZone(id, n)'
<1>1. keys' = keys /\ Served' = Served
  BY DEF WorldElapses, Served
<1>2. ASSUME NEW e \in cache'.zone
      PROVE  id \in e.version.sig \/ (e.left <= Less(n) /\ e.left <= n)
  <2>1. PICK x \in cache.zone : x.left \in Nat /\ e.version = x.version /\ e.left = x.left - 1
    BY <1>2, ElapsedEntries
  <2>2. id \in x.version.sig \/ x.left <= n
    BY DEF SignsZone
  <2> QED
    BY <2>1, <2>2 DEF Less
<1> QED
  BY <1>1, <1>2 DEF SignsZone, Less, IsZSK, ZSK

\* One unit of time: every wait and everything cached is one unit shorter.
LEMMA ElapseZone ==
  ASSUME ZoneInv, Elapse
  PROVE  ZoneParts'
<1>0. /\ TTLBound /\ PubActive /\ NewPub(wf) /\ Backed(wf) /\ HasZSK(wf)
      /\ ZoneGood /\ ZoneByZSK(wf) /\ Times(wf) /\ DSInv
  BY DEF ZoneInv, ZoneParts
<1>1. /\ ServedType /\ WorldElapses /\ wf \in Workflow /\ wf.next \in Nat /\ wf.zoneTTL \in Nat
      /\ inflight \in SUBSET Request
  BY <1>0, ZoneTypes, SlotNumbers DEF Elapse, DSInv, SlotInv, OnceInv
<1>2. /\ keys' = keys /\ zoneTTL' = zoneTTL /\ secondary' = secondary /\ stray' = stray
      /\ Served' = Served /\ maxTTL' = maxTTL /\ SomeZSK' = SomeZSK
  BY <1>1 DEF Elapse, WorldElapses, Served, maxTTL, SomeZSK, ZSK
<1>3. /\ wf'.kind = wf.kind /\ wf'.phase = wf.phase /\ wf'.old = wf.old /\ wf'.new = wf.new
      /\ wf'.zsk = wf.zsk /\ wf'.evidence = wf.evidence /\ wf'.zoneTTL = wf.zoneTTL
      /\ wf'.next = Less(wf.next)
  BY <1>1 DEF Elapse, Workflow, Less
<1>4. \A r \in inflight' : \E s \in inflight : s.op = r.op /\ s.key = r.key
  BY <1>1 DEF Elapse, Request
<1>5. \A z \in ZoneVersions' : z \in ZoneVersions
  BY <1>1, <1>2, ElapsedEntries DEF ZoneVersions
<1>6. \A id : \A n \in Nat : Pub(id, n) => Pub(id, Less(n))' /\ Pub(id, n)'
  BY <1>1, ElapsePub
<1>7. \A id : \A n \in Nat : SignsZone(id, n) => SignsZone(id, Less(n))' /\ SignsZone(id, n)'
  BY <1>1, ElapseSigned
<1>8. 0 \in Nat
  OBVIOUS
<1>9. \A id : Usable(id) => Usable(id)'
  BY <1>2, <1>4, <1>6, <1>8 DEF Usable
<1>10. TTLBound' /\ PubActive'
  BY <1>0, <1>2, <1>4, <1>5, <1>6, <1>8 DEF TTLBound, PubActive
<1>11. PICK id, n, t : id = SignerOf(wf) /\ n = wf.next /\ t = wf.zoneTTL
  OBVIOUS
<1>12. /\ id = SignerOf(wf)' /\ Less(n) = wf'.next /\ t = wf'.zoneTTL /\ n \in Nat /\ t \in Nat
  BY <1>1, <1>3, <1>11 DEF SignerOf
<1>13. NewPub(wf)'
  BY <1>0, <1>3, <1>6, <1>8, <1>11, <1>12 DEF NewPub
<1>14. Times(wf)'
  BY <1>0, <1>3, <1>7, <1>8, <1>11, <1>12 DEF Times
<1>15. Backed(wf)' /\ HasZSK(wf)'
  BY <1>0, <1>2, <1>3, <1>4 DEF Backed, HasZSK, ZSK
<1>16. ZoneGood' /\ ZoneByZSK(wf)'
  BY <1>0, <1>2, <1>3, <1>5, <1>9 DEF ZoneGood, ZoneByZSK
<1> QED
  BY <1>10, <1>13, <1>14, <1>15, <1>16 DEF ZoneParts

\* A zone at rest is signed by a key that everybody has.
LEMMA ZoneInit ==
  ASSUME Init, DSInv
  PROVE  ZoneParts
<1>1. /\ wf.phase = "idle" /\ wf.kind = "none" /\ wf.zoneTTL = 0
      /\ inflight = {} /\ stray = 0
  BY DEF Init, IdleWorkflow
<1>2. PICK z \in InitialZones : WorldInit(InitialKeys(z), InitialDS(z))
  BY DEF Init
<1>3. /\ keys = InitialKeys(z) /\ secondary = Image(keys, zoneTTL)
      /\ cache.dnskey = {} /\ cache.zone = {} /\ keys \in SUBSET PowerDNSKey
      /\ zoneTTL \in Nat /\ AllPublished /\ KeyBook
  BY <1>2, ZoneTypes DEF WorldInit
<1>4. Served = {Image(keys, zoneTTL)} /\ ZoneVersions = {ZoneRRset(Image(keys, zoneTTL))}
  BY <1>3 DEF Served, ZoneVersions
<1>5. ASSUME NEW k \in keys PROVE Pub(k.id, 0) /\ Usable(k.id)
  <2>1. k.id \in Image(keys, zoneTTL).keys
    BY <1>3 DEF Image, publishedKeys, AllPublished
  <2>2. Pub(k.id, 0)
    BY <1>3, <1>4, <2>1 DEF Pub, HasKey
  <2>3. k.id # stray
    BY <1>1, <1>3 DEF KeyBook
  <2> QED
    BY <1>1, <2>2, <2>3 DEF Usable
<1>6. TTLBound
  BY <1>3, <1>4, RotationAssumptions DEF TTLBound, ZoneRRset, Image, maxTTL, maxDuration
<1>7. PubActive
  BY <1>5 DEF PubActive
<1>8. NewPub(wf) /\ Backed(wf) /\ HasZSK(wf) /\ Times(wf)
  BY <1>1 DEF NewPub, Backed, HasZSK, Times, Signed
<1>9. CASE SomeZSK
  <2>1. PICK k \in keys : ZSK(k)
    BY <1>9 DEF SomeZSK
  <2>2. k.id \in ZoneRRset(Image(keys, zoneTTL)).sig /\ k.flags = 256
    BY <1>3, <2>1, ZSKSigns DEF KeyBook, ZoneRRset, ZSK
  <2>3. ZoneGood /\ ZoneByZSK(wf)
    BY <1>4, <1>5, <2>2 DEF ZoneGood, ZoneByZSK
  <2> QED
    BY <1>6, <1>7, <1>8, <2>3 DEF ZoneParts
<1>10. CASE ~SomeZSK
  <2>1. keys = {NewKey(1, "csk", TRUE)}
    <3>1. z # "split"
      <4>1. ZSK(NewKey(2, "zsk", TRUE))
        BY DEF ZSK, NewKey, flagsOf
      <4> QED
        BY <1>3, <1>10, <4>1 DEF InitialKeys, SomeZSK
    <3> QED
      BY <1>3, <3>1 DEF InitialKeys
  <2> DEFINE k == NewKey(1, "csk", TRUE)
  <2>2. k \in keys /\ k.active /\ k.made = "csk"
    BY <2>1 DEF NewKey
  <2> HIDE DEF k
  <2>3. Role(keys, k) = "csk"
    BY <1>10, <2>2 DEF Role, RolesSplit, SomeZSK, ZSK
  <2>4. k.id \in ZoneRRset(Image(keys, zoneTTL)).sig
    BY <2>2, <2>3 DEF ZoneRRset, Image, Signers
  <2>5. ZoneGood /\ ZoneByZSK(wf)
    BY <1>4, <1>5, <1>10, <2>2, <2>4 DEF ZoneGood, ZoneByZSK
  <2> QED
    BY <1>6, <1>7, <1>8, <2>5 DEF ZoneParts
<1> QED
  BY <1>9, <1>10

\* The inductive step of RotationKeepsTrust.
LEMMA ZoneNext ==
  ASSUME ZoneInv, [Next]_vars
  PROVE  ZoneInv'
<1>0. DSInv /\ DSInv' /\ ServedType
  BY DSNext, ZoneTypes DEF ZoneInv
<1>1. ASSUME Handling PROVE ZoneParts'
  BY <1>0, <1>1, HandlingSteps, HandlerZoneParts
<1>2. ASSUME NEW r \in inflight, PowerDNSApplies(r) PROVE ZoneParts'
  BY <1>0, <1>2, PowerDNSZone
<1>3. ASSUME NEW r \in inflight, RegistrarAccepts(r) PROVE ZoneParts'
  <2>1. UNCHANGED <<keys, zoneTTL, secondary, cache, wf, stray>> /\ inflight' \subseteq inflight
    BY <1>3 DEF RegistrarAccepts
  <2> QED
    BY <2>1, ZoneAlike
<1>4. ASSUME StrayKeyAppears \/ StrayKeyRemoved PROVE ZoneParts'
  BY <1>0, <1>4, StraysZone
<1>5. ASSUME WorldStep PROVE ZoneParts'
  <2>1. wf' = wf /\ inflight' = inflight /\ stray' = stray
    BY <1>5 DEF WorldStep, bookVars
  <2>2. CASE SecondarySync \/ ZoneEdited(MinimumZoneTTL)
    BY <1>0, <2>1, <2>2, ZoneServed
  <2>3. CASE ParentPublishes \/ ParentSync
    <3>1. UNCHANGED <<keys, zoneTTL, secondary>> /\ \E fast, slow : ServeDS(fast, slow)
      BY <2>3 DEF ParentPublishes, ParentSync
    <3>2. cache'.dnskey = cache.dnskey /\ cache'.zone = cache.zone
      BY <1>0, <3>1, ServeDSLeaves
    <3> QED
      BY <2>1, <3>1, <3>2, ZoneAlike
  <2>4. CASE RegistrarApplies \/ RegistrarFails \/ RegistrarForgetsJob \/ Redelegated
    <3>1. UNCHANGED <<keys, zoneTTL, secondary, cache>>
      BY <2>4 DEF RegistrarApplies, RegistrarFails, RegistrarForgetsJob, Redelegated
    <3> QED
      BY <2>1, <3>1, ZoneAlike
  <2> QED
    BY <1>5, <2>2, <2>3, <2>4 DEF WorldStep, World
<1>6. ASSUME Elapse PROVE ZoneParts'
  BY <1>6, ElapseZone
<1> QED
  BY <1>0, <1>1, <1>2, <1>3, <1>4, <1>5, <1>6, NextSteps DEF ZoneInv

\* The invariant behind RotationKeepsTrust.
LEMMA ZoneAlways == Spec => []ZoneInv
<1>1. Init /\ DSInv => ZoneInv
  BY ZoneInit DEF ZoneInv
<1>2. ZoneInv /\ [Next]_vars => ZoneInv'
  BY ZoneNext
<1> QED
  BY <1>1, <1>2, DSAlways, PTL DEF Spec

\* For every TTL, lag, wait and request life that the assumptions allow, every
\* number of rotations, faults and foreign keys: whatever mixture of DS, DNSKEY and
\* zone RRsets a resolver has fetched or cached, it validates the zone.  waitPublish
\* lets every cache learn the new key before anything rests on it, parentReplace
\* and waitParentReplace replace the DS and outwait it, waitNewSignature,
\* deactivateOld and waitRetire do so for the zone's signatures, and only then is
\* the old key switched off and deleted, whatever is lost, late or restarted.
THEOREM RotationKeepsTrust == Spec => []ChainOfTrust
<1>1. ZoneInv => ChainOfTrust
  <2> SUFFICES ASSUME ZoneInv, NEW ds \in DSVersions, NEW dnskey \in DnskeyVersions,
                      NEW zone \in ZoneVersions, ds # {}
               PROVE  /\ ds \cap dnskey.keys \cap dnskey.sig # {}
                      /\ zone.sig \cap dnskey.keys # {}
    BY DEF ChainOfTrust, Validates
  <2>1. PICK id : id \in ds
    OBVIOUS
  <2>2. Covers(id, 0)
    BY <2>1 DEF ZoneInv, DSInv, DSParts, AnchorsHold, Anchors
  <2>3. \A e \in cache.dnskey : Holds(e.version, id)
    BY <2>2, ZoneTypes DEF Covers, ZoneInv
  <2>4. id \in dnskey.keys /\ id \in dnskey.sig
    BY <2>2, <2>3 DEF DnskeyVersions, Covers, Holds
  <2>5. PICK s \in zone.sig : Pub(s, 0)
    BY DEF ZoneInv, ZoneParts, ZoneGood, Usable
  <2>6. \A e \in cache.dnskey : s \in e.version.keys
    BY <2>5, ZoneTypes DEF Pub, ZoneInv
  <2>7. s \in dnskey.keys
    BY <2>5, <2>6 DEF DnskeyVersions, Pub, DnskeyRRset
  <2> QED
    BY <2>1, <2>4, <2>5, <2>7
<1> QED
  BY <1>1, ZoneAlways, PTL
-----------------------------------------------------------------------------
(* The zone between rotations: SettledZone.  A creation that was given up  *)
(* may still arrive; it was sent in prepublish, and waitPublish takes      *)
(* longer than a request lives between its two looks at the inventory.     *)
(* From the second look on the keys are those of the rotation and the      *)
(* companion, but for one foreign key.                                     *)

Creating == {r \in inflight : r.op \in Creates}

\* What a handler sends lives for RequestLife; creations are sent in prepublish,
\* where alone a foreign key is adopted.
Sends ==
  /\ UNCHANGED strays
  /\ stray' # stray => stray' = 0 /\ wf.phase = "prepublish"
  /\ \A r \in inflight' \ inflight :
       /\ r.left = RequestLife
       /\ r.op \in Creates => wf.phase = "prepublish" /\ wf' = wf

\* A handler that persists, or sends a request at once, or records an intent.
LEMMA PersistSends ==
  ASSUME NEW w, \/ Persist(w)
                \/ \E key : \E op \in Ops : Issue(w, op, key, "ready")
                \/ \E key : \E op \in Ops \ Creates : Issue(w, op, key, "sent")
  PROVE  Sends
<1>1. \A op, key : Req(op, key).left = RequestLife /\ Req(op, key).op = op
  BY DEF Req
<1> QED
  BY <1>1 DEF Sends, Persist, Issue, bookVars

\* A transition is such a handler, and so is block.
LEMMA TransitionSends ==
  ASSUME block \/ \E w, phase, wait : transition(w, phase, wait)
  PROVE  Sends
BY PersistSends DEF block, transition

\* prepublish records its attempts before anything leaves.
LEMMA PrepublishSends ==
  ASSUME prepublish
  PROVE  Sends
<1>1. wf.phase = "prepublish"
  BY DEF prepublish, Due
<1>2. ASSUME NEW w, NEW id, Adopt(w, id) PROVE Sends
  BY <1>1, <1>2 DEF Adopt, Sends
<1>3. ASSUME NEW typ, NEW active, NEW op \in Creates, NEW other,
             adoptOrCreate(typ, active, other, op)
      PROVE  Sends
  BY <1>2, <1>3, PersistSends DEF adoptOrCreate, Creates, Ops, OnceOps
<1>4. ASSUME NEW typ, RecordOld(typ) PROVE Sends
  BY <1>4, TransitionSends DEF RecordOld
<1>5. ASSUME ClassifyParent PROVE Sends
  BY <1>5, TransitionSends DEF ClassifyParent
<1> QED
  BY <1>3, <1>4, <1>5, TransitionSends DEF prepublish, Creates

\* The other handlers send what may be repeated, or persist.
LEMMA HandlerSends ==
  ASSUME DSInv, Handling
  PROVE  Sends
<1>0. /\ {"activate", "deactivate", "delete"} \subseteq Ops \ Creates /\ "update_dnssec" \in Ops
      /\ \A w : Persist(w) => Sends
      /\ \A w, phase, wait : transition(w, phase, wait) => Sends
      /\ block => Sends
      /\ \A w, key : \A op \in Ops : Issue(w, op, key, "ready") => Sends
      /\ \A w, key : \A op \in Ops \ Creates : Issue(w, op, key, "sent") => Sends
  BY PersistSends, TransitionSends DEF Ops, OnceOps, Creates
<1>1. CASE \E kind \in Kinds : Trigger(kind)
  BY <1>1 DEF Trigger, Sends
<1>2. CASE BlockUnknownScheme
  BY <1>0, <1>2 DEF BlockUnknownScheme
<1>3. CASE waitPublish
  BY <1>0, <1>3 DEF waitPublish
<1>4. CASE RecordCTID \/ parentReplace
  BY <1>0, <1>4 DEF RecordCTID, parentReplace
<1>5. CASE waitParentReplace
  BY <1>0, <1>5 DEF waitParentReplace, FollowJob, AwaitDS
<1>6. CASE activateNew
  BY <1>0, <1>6 DEF activateNew
<1>7. CASE waitNewSignature
  BY <1>0, <1>7 DEF waitNewSignature, SignatureSeen, AttestAgain
<1>8. CASE deactivateOld
  BY <1>0, <1>8 DEF deactivateOld, AttestAgain, SwitchOff
<1>9. CASE waitRetire
  BY <1>0, <1>9 DEF waitRetire
<1>10. CASE deleteOld
  <2>1. ASSUME complete, UNCHANGED <<inflight, stray, strays>> PROVE Sends
    BY <2>1 DEF Sends
  <2>2. CASE RemoveOld
    BY <1>0, <2>1, <2>2 DEF RemoveOld
  <2> QED
    BY <1>0, <1>10, <2>2 DEF deleteOld
<1>11. CASE Send
  <2>1. /\ UNCHANGED <<wf, stray, strays>>
        /\ inflight' = inflight \cup {Req(call.op, call.key)}
    BY <1>11 DEF Send
  <2>2. Req(call.op, call.key).left = RequestLife /\ Req(call.op, call.key).op = call.op
    BY DEF Req
  <2>3. call.op \in Creates => wf.phase = "prepublish"
    BY DEF DSInv, SlotInv, SlotParts, CallFits
  <2> QED
    BY <2>1, <2>2, <2>3 DEF Sends
<1>12. CASE PersistAnswer
  BY <1>12 DEF PersistAnswer, Sends
<1>13. CASE NoDSProbeFails
  BY <1>13 DEF NoDSProbeFails, Sends
<1>14. CASE Abandon \/ UNCHANGED vars \/ \E r \in inflight : LoseRequest(r)
  BY <1>14 DEF Abandon, vars, LoseRequest, Sends
<1>15. CASE Resume
  BY <1>0, <1>15 DEF Resume
<1>16. CASE ReconcileSplitSignerTransition
  BY <1>0, <1>16 DEF ReconcileSplitSignerTransition
<1> QED
  BY <1>1, <1>2, <1>3, <1>4, <1>5, <1>6, <1>7, <1>8, <1>9, <1>10, <1>11, <1>12, <1>13,
     <1>14, <1>15, <1>16, PrepublishSends DEF Handling, Controller

\* The keys that are the zone's own.
Own == {k \in keys : k.id # stray}

\* They are one CSK, or one KSK and one ZSK, all active.
Whole(own) ==
  \/ \E a \in own :
       /\ own = {a} /\ a.active /\ a.flags = 257
       /\ ~DynamicRoles => a.made = "csk"
  \/ \E a, b \in own :
       /\ own = {a, b} /\ a.active /\ b.active /\ a.flags = 257 /\ b.flags = 256
       /\ ~DynamicRoles => a.made = "ksk"

InSlot(w, k) == k.id \in {w.old, w.new} \/ (w.kind = "split" /\ k.id = w.zsk)

\* The key an ordinary rotation leaves alone.
Accompanies(k, w) ==
  /\ w.kind # "split" /\ k.active /\ k.flags = flagsOf(Companion(w.kind))
  /\ ~DynamicRoles /\ w.kind = "zsk" => k.made = "ksk"

\* The keys are those of the rotation and at most one companion.
Settling(w) ==
  /\ \A k \in Own : InSlot(w, k) \/ Accompanies(k, w)
  /\ \A k, l \in Own : ~InSlot(w, k) /\ ~InSlot(w, l) => k = l
  /\ ~DynamicRoles /\ w.kind \in Rolls => \A k \in keys : k.id = w.new => k.made = "ksk"

\* A creation still under way when waitPublish looked first ends before it looks
\* again.
LateCreations(w) ==
  w.phase = "wait_publish" /\ w.evidence =>
    \A r \in Creating : r.left + PublishWait <= RequestLife + w.next

\* The only CSK is the first key.
FirstCSK == \A k \in keys : k.made = "csk" => k.id = 1

Lives == \A r \in inflight : r.left <= RequestLife

Settled(w) ==
  /\ w.phase = "idle" => Creating = {} /\ Whole(Own)
  /\ w.phase \in Handover => Creating = {} /\ Settling(w)

SettleParts ==
  /\ strays = 0 => stray = 0
  /\ FirstCSK /\ Lives /\ LateCreations(wf) /\ Settled(wf)

SettleInv == ZoneInv /\ SettleParts

\* The parts of the invariants below that the lemmas need.
LEMMA SettleTypes ==
  ASSUME ZoneInv
  PROVE  /\ TypeOK /\ wf \in Workflow /\ KeyBook /\ SlotBook /\ StrayApart /\ AllPublished
         /\ keys \in SUBSET PowerDNSKey /\ inflight \in SUBSET Request
         /\ \A k \in keys : /\ k.id \in 1..lastID /\ k.id # 0 /\ k.flags = flagsOf(k.made)
                            /\ k.flags \in {256, 257} /\ k.made \in KeyTypes /\ k.id \in Nat
         /\ \A r \in inflight : r.left \in Nat /\ r.key \in Nat /\ r.op \in Ops
         /\ RequestLife \in Nat /\ PublishWait \in Nat /\ wf.next \in Nat /\ wf.old \in Nat
         /\ stray \in Nat /\ lastID \in Nat
<1>1. DSInv /\ TypeOK /\ KeyBook /\ SlotBook /\ StrayApart /\ AllPublished
  BY DSTypes DEF ZoneInv, DSInv, SlotInv, SlotParts, DSParts
<1>2. /\ keys \in SUBSET PowerDNSKey /\ inflight \in SUBSET Request /\ wf \in Workflow
      /\ lastID \in Nat /\ stray \in Nat
  BY <1>1, SlotNumbers
<1>3. \A k \in keys : /\ k.id \in 1..lastID /\ k.id # 0 /\ k.flags = flagsOf(k.made)
                      /\ k.flags \in {256, 257} /\ k.made \in KeyTypes /\ k.id \in Nat
  BY <1>1, <1>2 DEF KeyBook, PowerDNSKey
<1>4. \A r \in inflight : r.left \in Nat /\ r.key \in Nat /\ r.op \in Ops
  BY <1>2 DEF Request
<1>5. PublishWait \in Nat /\ RequestLife \in Nat
  BY WaitAssumptions, WorldAssumptions DEF PublishWait, maxDuration
<1> QED
  BY <1>1, <1>2, <1>3, <1>4, <1>5 DEF Workflow

\* A key and how it is listed.
LEMMA ListedWith ==
  ASSUME NEW k \in keys
  PROVE  \E l \in Inventory :
           /\ l.id = k.id /\ l.flags = k.flags /\ l.active = k.active
           /\ l.published = k.published /\ l.keytype = Role(keys, k)
<1>1. Inventory = {ListedAs(x) : x \in keys}
  BY DEF Inventory, Listed, ListedAs
<1>2. ListedAs(k) \in Inventory
  BY <1>1
<1> QED
  BY <1>2 DEF ListedAs

\* A listed KSK or ZSK has the flags of one, and was made so unless roles are
\* derived.
LEMMA RoleTells ==
  ASSUME NEW k, k.flags = flagsOf(k.made), k.flags \in {256, 257}, k.made \in KeyTypes, NEW ks,
         NEW typ \in {"ksk", "zsk"}, Role(ks, k) = typ
  PROVE  k.flags = flagsOf(typ) /\ (~DynamicRoles => k.made = typ)
BY DEF Role, flagsOf, KeyTypes

\* When waitPublish has looked twice, the keys are settled.
LEMMA SeenAgain ==
  ASSUME ZoneInv, FirstCSK, wf.kind \in {"zsk", "ksk", "split"},
         validatePrepublishInventory(Inventory, wf)
  PROVE  Settling(wf)
<1>0. KeyBook /\ StrayApart /\ AllPublished
  BY SettleTypes
<1>1. \A k \in keys : /\ k.flags = flagsOf(k.made) /\ k.flags \in {256, 257}
                      /\ k.made \in KeyTypes /\ k.id \in Nat /\ k.id # 0
  BY SettleTypes
<1>2. PICK old, new \in Inventory :
        /\ old.id = wf.old /\ new.id = wf.new
        /\ validatedKeyRole(old, IF wf.kind = "split" THEN "csk" ELSE wf.kind, FALSE)
        /\ validatedKeyRole(new, IF wf.kind = "split" THEN "ksk" ELSE wf.kind, wf.kind = "split")
  BY DEF validatePrepublishInventory
<1>3. wf.old # wf.new
  BY DEF validatePrepublishInventory, Distinct
<1>4. PICK x, y \in keys :
        /\ x.id = wf.old /\ old.keytype = Role(keys, x) /\ x.flags = old.flags
        /\ y.id = wf.new /\ new.keytype = Role(keys, y) /\ y.flags = new.flags
  BY <1>2, ListedKey
<1>5. ASSUME ~DynamicRoles, wf.kind \in Rolls, NEW k \in keys, k.id = wf.new
      PROVE  k.made = "ksk"
  <2>1. k = y
    BY <1>0, <1>4, <1>5 DEF KeyBook
  <2>2. y.made = new.keytype /\ x.made = old.keytype
    BY <1>4, <1>5 DEF Role
  <2>3. CASE wf.kind = "ksk"
    BY <1>2, <2>1, <2>2, <2>3 DEF validatedKeyRole
  <2>4. CASE wf.kind = "split"
    <3>1. x.made = "csk"
      BY <1>2, <2>2, <2>4 DEF validatedKeyRole
    <3>2. y.made # "csk"
      BY <1>3, <1>4, <3>1 DEF FirstCSK
    <3> QED
      BY <1>2, <2>1, <2>2, <2>4, <3>2 DEF validatedKeyRole
  <2> QED
    BY <1>5, <2>3, <2>4 DEF Rolls
<1>6. CASE wf.kind = "split"
  <2>1. Closed(Inventory, {wf.old, wf.new, wf.zsk})
    BY <1>6 DEF validatePrepublishInventory
  <2>2. \A k \in keys : InSlot(wf, k)
    BY <1>0, <1>6, <2>1, ListedWith DEF Closed, InSlot, AllPublished
  <2> QED
    BY <1>5, <2>2 DEF Settling, Own
<1>7. CASE wf.kind # "split"
  <2>1. PICK c \in ActiveOf(Inventory, Companion(wf.kind)) :
          Closed(Inventory, {wf.old, wf.new, c.id})
    BY <1>7 DEF validatePrepublishInventory
  <2>2. c \in Inventory /\ c.active /\ c.keytype = Companion(wf.kind)
    BY <2>1 DEF ActiveOf
  <2>3. PICK z \in keys : z.id = c.id /\ z.active = c.active /\ c.keytype = Role(keys, z)
    BY <2>2, ListedKey
  <2>4. Companion(wf.kind) \in {"ksk", "zsk"}
    BY DEF Companion
  <2>5. /\ z.flags = flagsOf(Companion(wf.kind))
        /\ ~DynamicRoles => z.made = Companion(wf.kind)
    BY <1>1, <2>2, <2>3, <2>4, RoleTells
  <2>6. Accompanies(z, wf)
    BY <1>7, <2>2, <2>3, <2>5 DEF Accompanies, Companion
  <2>7. \A k \in keys : k.id \in {wf.old, wf.new, z.id}
    BY <1>0, <2>1, <2>3, ListedWith DEF Closed, AllPublished
  <2>8. \A k \in keys : InSlot(wf, k) \/ k = z
    BY <1>0, <2>3, <2>7 DEF InSlot, KeyBook
  <2> QED
    BY <1>5, <2>6, <2>8 DEF Settling, Own
<1> QED
  BY <1>6, <1>7

\* The rotation ends with the replacement, and with the companion or the new ZSK.
LEMMA EndsWhole ==
  ASSUME SettleInv, wf.phase = "delete_old", ~HasKey(keys, wf.old)
  PROVE  Whole(Own)
<1>0. /\ ZoneInv /\ DSInv /\ KeyBook /\ StrayApart /\ Settling(wf) /\ SomeSigner /\ Times(wf)
      /\ Backed(wf) /\ wf.phase \in Handover
  BY SettleTypes DEF SettleInv, SettleParts, Settled, ZoneInv, ZoneParts, DSInv, SlotInv,
                     SlotParts, Handover, AfterParent
<1>1. \A k \in keys : /\ k.flags \in {256, 257} /\ k.id # 0 /\ k.id # wf.old
                      /\ k.flags = flagsOf(k.made) /\ k.made \in KeyTypes
  BY <1>0, SettleTypes DEF HasKey
<1>2. wf.kind \in {"zsk", "ksk", "split"}
  BY <1>0 DEF DSInv, SlotInv, SlotParts, PhaseFits, OnceInv, TypeOK, Workflow
<1>3. wf.kind \in Rolls => \E a \in Own : a.id = wf.new /\ a.active /\ a.flags = 257
  <2> SUFFICES ASSUME wf.kind \in Rolls
               PROVE  \E a \in Own : a.id = wf.new /\ a.active /\ a.flags = 257
    OBVIOUS
  <2>1. parent.fast = {wf.new}
    BY <1>0 DEF DSInv, DSParts, Announcing, AfterParent
  <2>2. wf.new \in Anchors
    BY <2>1 DEF Anchors, DSVersions
  <2>3. Stands(wf.new)
    BY <1>0, <2>2 DEF DSInv, DSParts, AnchorsHold
  <2> QED
    BY <2>3 DEF Stands, Signs, Own
<1>4. wf.kind \in Signed => \E b \in Own : b.id = SignerOf(wf) /\ b.active /\ b.flags = 256
  <2> SUFFICES ASSUME wf.kind \in Signed
               PROVE  \E b \in Own : b.id = SignerOf(wf) /\ b.active /\ b.flags = 256
    OBVIOUS
  <2>1. PICK b \in keys : b.id = SignerOf(wf) /\ ZSK(b)
    BY <1>0 DEF Times, SignsZone, IsZSK
  <2>2. b.id # stray
    BY <1>0, <1>1, <2>1 DEF StrayApart, ZSK
  <2> QED
    BY <2>1, <2>2 DEF Own, ZSK
<1>5. Own \subseteq keys
  BY DEF Own
<1>6. CASE wf.kind = "split"
  <2>1. PICK a \in Own : a.id = wf.new /\ a.active /\ a.flags = 257
    BY <1>3, <1>6 DEF Rolls
  <2>2. PICK b \in Own : b.id = wf.zsk /\ b.active /\ b.flags = 256
    BY <1>4, <1>6 DEF Signed, SignerOf
  <2>3. Own = {a, b}
    BY <1>0, <1>1, <1>5, <1>6, <2>1, <2>2 DEF Settling, InSlot, Accompanies, KeyBook
  <2>4. ~DynamicRoles => a.made = "ksk"
    BY <1>0, <1>5, <1>6, <2>1 DEF Settling, Rolls
  <2> QED
    BY <2>1, <2>2, <2>3, <2>4 DEF Whole
<1>7. CASE wf.kind = "ksk"
  <2>1. PICK a \in Own : a.id = wf.new /\ a.active /\ a.flags = 257
    BY <1>3, <1>7 DEF Rolls
  <2>2. PICK b \in keys : ZSK(b)
    BY <1>0, <1>7 DEF Backed
  <2>3. b \in Own /\ b.active /\ b.flags = 256
    BY <1>0, <1>1, <2>2 DEF StrayApart, ZSK, Own
  <2>4. ~InSlot(wf, b)
    BY <1>0, <1>1, <1>5, <1>7, <2>1, <2>3 DEF InSlot, KeyBook
  <2>5. Own = {a, b}
    BY <1>0, <1>1, <1>5, <1>7, <2>1, <2>3, <2>4 DEF Settling, InSlot, KeyBook
  <2>6. ~DynamicRoles => a.made = "ksk"
    BY <1>0, <1>5, <1>7, <2>1 DEF Settling, Rolls
  <2> QED
    BY <2>1, <2>3, <2>5, <2>6 DEF Whole
<1>8. CASE wf.kind = "zsk"
  <2>1. PICK b \in Own : b.id = wf.new /\ b.active /\ b.flags = 256
    BY <1>4, <1>8 DEF Signed, SignerOf
  <2>2. PICK a \in keys : Signs(a)
    BY <1>0 DEF SomeSigner
  <2>3. a \in Own /\ a.active /\ a.flags = 257
    BY <2>2 DEF Signs, Own
  <2>4. ~InSlot(wf, a)
    BY <1>0, <1>1, <1>5, <1>8, <2>1, <2>3 DEF InSlot, KeyBook
  <2>5. Own = {a, b}
    BY <1>0, <1>1, <1>5, <1>8, <2>1, <2>3, <2>4 DEF Settling, InSlot, KeyBook
  <2>6. ~DynamicRoles => a.made = "ksk"
    BY <1>0, <1>8, <2>3, <2>4 DEF Settling, Accompanies
  <2> QED
    BY <2>1, <2>3, <2>5, <2>6 DEF Whole
<1> QED
  BY <1>2, <1>6, <1>7, <1>8

\* A handler leaves the keys alone; where it adopts a foreign key nothing is
\* settled yet.
LEMMA HandlerSettles ==
  ASSUME SettleInv, HandlerStep, Sends, RequestLife < PublishWait
  PROVE  SettleParts'
<1>0. /\ ZoneInv /\ FirstCSK /\ Lives /\ LateCreations(wf) /\ Settled(wf)
      /\ strays = 0 => stray = 0
  BY DEF SettleInv, SettleParts
<1>1. keys' = keys /\ Walks(wf')
  BY DEF HandlerStep, worldVars
<1>2. FirstCSK' /\ (strays' = 0 => stray' = 0)
  BY <1>0, <1>1 DEF FirstCSK, Sends
<1>3. Lives'
  BY <1>0, SettleTypes DEF Lives, Sends
<1>4. wf.phase # "prepublish" => Creating' \subseteq Creating /\ Own' = Own
  BY <1>1 DEF Creating, Sends, Own
<1>6. LateCreations(wf)'
  <2> SUFFICES ASSUME wf'.phase = "wait_publish", wf'.evidence, NEW r \in Creating'
               PROVE  r.left + PublishWait <= RequestLife + wf'.next
    BY DEF LateCreations
  <2>0. ~\/ Starts(wf') \/ Fills(wf') \/ SeesKeysAgain(wf') \/ AsksParent(wf') \/ SeesDS(wf')
         \/ SeesDSAgain(wf') \/ Activates(wf') \/ SeesSignature(wf') \/ Retires(wf')
         \/ Deletes(wf') \/ Ends(wf') \/ Stops(wf') \/ Resumes(wf')
    BY DEF Starts, Fills, SeesKeysAgain, AsksParent, SeesDS, SeesDSAgain, Activates,
           SeesSignature, Signing, Retires, Deletes, Ends, IdleWorkflow, Stops, Resumes
  <2>1. wf.phase = "wait_publish" /\ (SeesKeys(wf') \/ Stays(wf'))
    <3>1. SeesKeys(wf') \/ Stays(wf')
      BY <1>1, <2>0 DEF Walks
    <3> QED
      BY <3>1 DEF SeesKeys, Stays
  <2>2. r \in Creating
    BY <1>4, <2>1
  <2>3. CASE SeesKeys(wf')
    <3>1. r \in inflight /\ r.left <= RequestLife /\ wf'.next = PublishWait
      BY <1>0, <2>2, <2>3 DEF Creating, Lives, SeesKeys
    <3> QED
      BY <1>0, <3>1, SettleTypes
  <2>4. CASE Stays(wf')
    BY <1>0, <2>1, <2>2, <2>4 DEF Stays, LateCreations
  <2> QED
    BY <2>1, <2>3, <2>4
<1>7. ASSUME wf'.phase = "idle" PROVE Creating' = {} /\ Whole(Own)'
  <2>1. (Stays(wf') /\ wf.phase = "idle") \/ Ends(wf')
    BY <1>1, <1>7 DEF Walks, Starts, Fills, SeesKeys, SeesKeysAgain, AsksParent, SeesDS,
                SeesDSAgain, Activates, SeesSignature, Signing, Retires, Deletes, Stops,
                Resumes, Stays
  <2>2. Creating' \subseteq Creating /\ Own' = Own
    BY <1>4, <2>1 DEF Ends
  <2>3. CASE Stays(wf') /\ wf.phase = "idle"
    BY <1>0, <2>2, <2>3 DEF Settled, Whole
  <2>4. CASE Ends(wf')
    <3>1. Whole(Own) /\ Creating = {}
      BY <1>0, <2>4, EndsWhole DEF Ends, Settled, Handover, AfterParent
    <3> QED
      BY <2>2, <3>1 DEF Whole
  <2> QED
    BY <2>1, <2>3, <2>4
<1>8. ASSUME wf'.phase \in Handover PROVE Creating' = {} /\ Settling(wf)'
  <2>1. /\ wf.phase \in Handover \/ SeesKeysAgain(wf')
        /\ wf'.kind = wf.kind /\ wf'.old = wf.old /\ wf'.new = wf.new /\ wf'.zsk = wf.zsk
    BY <1>1, <1>8 DEF Walks, Starts, Fills, SeesKeys, SeesKeysAgain, AsksParent, SeesDS,
                SeesDSAgain, Activates, SeesSignature, Signing, Retires, Deletes, Ends,
                IdleWorkflow, Stops, Resumes, Stays, Same, Handover, AfterParent
  <2>2. Creating' \subseteq Creating /\ Own' = Own
    BY <1>4, <2>1 DEF SeesKeysAgain, Handover, AfterParent
  <2>3. Creating = {} /\ Settling(wf)
    <3>1. CASE wf.phase \in Handover
      BY <1>0, <3>1 DEF Settled
    <3>2. CASE SeesKeysAgain(wf')
      <4>1. Creating = {}
        <5> SUFFICES ASSUME NEW r \in Creating PROVE FALSE
          OBVIOUS
        <5>1. r.left + PublishWait <= RequestLife + 0
          BY <1>0, <3>2 DEF SeesKeysAgain, LateCreations
        <5> QED
          BY <1>0, <5>1, SettleTypes DEF Creating
      <4>2. wf.kind \in {"zsk", "ksk", "split"}
        BY <1>0, <3>2, SettleTypes DEF SeesKeysAgain, ZoneInv, DSInv, SlotInv, SlotParts,
                                       PhaseFits, Workflow
      <4> QED
        BY <1>0, <3>2, <4>1, <4>2, SeenAgain DEF SeesKeysAgain
    <3> QED
      BY <2>1, <3>1, <3>2
  <2> QED
    BY <1>1, <2>1, <2>2, <2>3 DEF Settling, InSlot, Accompanies
<1> QED
  BY <1>2, <1>3, <1>6, <1>7, <1>8 DEF SettleParts, Settled

\* In an idle zone no request that PowerDNS may still get changes a key.
LEMMA IdleIsInert ==
  ASSUME SettleInv, wf.phase = "idle", NEW r \in inflight, r.op # Put
  PROVE  r.op \in {"activate", "deactivate", "delete"} /\ KeysAfter(r) = keys
<1>0. /\ ZoneInv /\ Creating = {} /\ Whole(Own) /\ KeyBook /\ StrayApart /\ RequestsFit
      /\ wf.old = 0 /\ r \in Request /\ keys \in SUBSET PowerDNSKey
  BY SettleTypes DEF SettleInv, SettleParts, Settled, ZoneInv, DSInv, SlotInv, SlotParts,
                     PhaseFits
<1>1. r.op \in {"activate", "deactivate", "delete"}
  BY <1>0 DEF Creating, Creates, Request, Ops, OnceOps, Put
<1>2. CASE r.op = "delete"
  <2>1. ~HasKey(keys, r.key)
    BY <1>0, <1>2, SettleTypes DEF RequestsFit, HasKey
  <2>2. KeysAfter(r) = {k \in keys : k.id # r.key}
    BY <1>2 DEF KeysAfter
  <2> QED
    BY <1>1, <2>1, <2>2 DEF HasKey
<1>3. CASE r.op = "deactivate"
  <2>1. ~HasKey(keys, r.key)
    BY <1>0, <1>3, SettleTypes DEF RequestsFit, HasKey
  <2>2. KeysAfter(r) = Switched(r.key, FALSE)
    BY <1>3 DEF KeysAfter, Switched
  <2>3. \A k \in keys : k.id # r.key
    BY <2>1 DEF HasKey
  <2> QED
    BY <1>1, <2>2, <2>3 DEF Switched
<1>4. CASE r.op = "activate"
  <2>1. KeysAfter(r) = Switched(r.key, TRUE)
    BY <1>4 DEF KeysAfter, Switched
  <2>2. \A k \in keys : k.id = r.key => k \in Own
    BY <1>0, SettleTypes DEF StrayApart, Own
  <2>3. \A k \in Own : k.active
    BY <1>0 DEF Whole
  <2>4. \A k \in keys : k.id = r.key => [k EXCEPT !.active = TRUE] = k
    BY <1>0, <2>2, <2>3 DEF PowerDNSKey
  <2> QED
    BY <1>1, <2>1, <2>4 DEF Switched
<1> QED
  BY <1>1, <1>2, <1>3, <1>4

\* A step that keeps the zone's own keys and the workflow, and sends nothing.
LEMMA OwnKept ==
  ASSUME SettleInv, Own' = Own, wf' = wf, inflight' \subseteq inflight,
         FirstCSK', strays' = 0 => stray' = 0,
         \A k \in keys' : k.id = wf.new /\ wf.phase \in Handover => k \in keys
  PROVE  SettleParts'
<1>0. FirstCSK /\ Lives /\ LateCreations(wf) /\ Settled(wf)
  BY DEF SettleInv, SettleParts
<1>1. Creating' \subseteq Creating
  BY DEF Creating
<1>2. Lives' /\ LateCreations(wf)'
  BY <1>0, <1>1 DEF Lives, LateCreations
<1>3. Settled(wf)'
  BY <1>0, <1>1 DEF Settled, Whole, Settling, InSlot, Accompanies
<1> QED
  BY <1>2, <1>3 DEF SettleParts

\* While the keys are handed over PowerDNS switches on what is in a slot, and
\* switches off and deletes the old key only.
LEMMA HandoverKept ==
  ASSUME SettleInv, ZoneInv', wf.phase \in Handover, NEW r \in inflight,
         r.op \in {"activate", "deactivate", "delete"},
         keys' = KeysAfter(r), UNCHANGED <<wf, stray>>
  PROVE  Settling(wf)'
<1>0. ZoneInv /\ Settling(wf) /\ RequestsFit /\ keys \in SUBSET PowerDNSKey
  BY SettleTypes DEF SettleInv, SettleParts, Settled, ZoneInv, DSInv, SlotInv, SlotParts
<1>1. KeyBook'
  BY DEF ZoneInv, DSInv, SlotInv, SlotParts
<1>2. ASSUME NEW x \in keys'
      PROVE  \E k \in keys : /\ x.id = k.id /\ x.made = k.made /\ x.flags = k.flags
                             /\ k.id # wf.old /\ k.active => x.active
  <2>1. CASE r.op = "delete"
    <3>1. x \in keys
      BY <1>2, <2>1 DEF KeysAfter
    <3> QED
      BY <3>1
  <2>2. CASE r.op \in {"activate", "deactivate"}
    <3>1. PICK k \in keys :
            x = IF k.id = r.key THEN [k EXCEPT !.active = (r.op = "activate")] ELSE k
      BY <1>2, <2>2 DEF KeysAfter
    <3>2. x.id = k.id /\ x.made = k.made /\ x.flags = k.flags
      BY <1>0, <3>1 DEF PowerDNSKey
    <3>3. r.op = "deactivate" /\ k.id = r.key => k.id = wf.old
      BY <1>0 DEF RequestsFit, HasKey
    <3>4. k.active /\ k.id # wf.old => x.active
      BY <1>0, <2>2, <3>1, <3>3 DEF PowerDNSKey
    <3> QED
      BY <3>2, <3>4
  <2> QED
    BY <2>1, <2>2
<1>3. ASSUME NEW x \in Own'
      PROVE  \E k \in Own : /\ x.id = k.id /\ x.made = k.made /\ x.flags = k.flags
                            /\ k.id # wf.old /\ k.active => x.active
  BY <1>2, <1>3 DEF Own
<1>4. ASSUME NEW x \in Own' PROVE InSlot(wf, x)' \/ Accompanies(x, wf)'
  <2>1. PICK k \in Own : /\ x.id = k.id /\ x.made = k.made /\ x.flags = k.flags
                         /\ k.id # wf.old /\ k.active => x.active
    BY <1>3
  <2> QED
    BY <1>0, <2>1 DEF Settling, InSlot, Accompanies
<1>5. ASSUME NEW x \in Own', NEW y \in Own', ~InSlot(wf, x)', ~InSlot(wf, y)' PROVE x = y
  <2>1. PICK k \in Own : x.id = k.id
    BY <1>3
  <2>2. PICK l \in Own : y.id = l.id
    BY <1>3
  <2>3. k = l
    BY <1>0, <1>5, <2>1, <2>2 DEF Settling, InSlot
  <2> QED
    BY <1>1, <2>1, <2>2, <2>3 DEF KeyBook, Own
<1>6. ~DynamicRoles /\ wf.kind \in Rolls => \A x \in keys' : x.id = wf.new => x.made = "ksk"
  BY <1>0, <1>2 DEF Settling
<1> QED
  BY <1>4, <1>5, <1>6 DEF Settling

\* PowerDNS makes no CSK.
LEMMA NoNewCSK ==
  ASSUME SettleInv, NEW r \in inflight, keys' = KeysAfter(r)
  PROVE  FirstCSK'
<1>0. FirstCSK /\ keys \in SUBSET PowerDNSKey /\ r \in Request
  BY SettleTypes DEF SettleInv, SettleParts
<1>1. CASE r.op \in Creates
  <2>1. /\ keys' = keys \cup {NewKey(lastID + 1, r.made, r.made = "ksk")}
        /\ r.made # "csk"
    BY <1>0, <1>1 DEF KeysAfter, Creates, Request
  <2>2. NewKey(lastID + 1, r.made, r.made = "ksk").made = r.made
    BY DEF NewKey
  <2> QED
    BY <1>0, <2>1, <2>2 DEF FirstCSK
<1>2. CASE r.op = "delete"
  <2>1. keys' \subseteq keys
    BY <1>2 DEF KeysAfter, Creates
  <2> QED
    BY <1>0, <2>1 DEF FirstCSK
<1>3. CASE r.op \notin Creates \cup {"delete"}
  <2>1. keys' = {IF k.id = r.key THEN [k EXCEPT !.active = (r.op = "activate")] ELSE k : k \in keys}
    BY <1>3 DEF KeysAfter, Creates
  <2> SUFFICES ASSUME NEW x \in keys', x.made = "csk" PROVE x.id = 1
    BY DEF FirstCSK
  <2>2. PICK k \in keys :
          x = IF k.id = r.key THEN [k EXCEPT !.active = (r.op = "activate")] ELSE k
    BY <2>1
  <2>3. x.id = k.id /\ x.made = k.made
    BY <1>0, <2>2 DEF PowerDNSKey
  <2> QED
    BY <1>0, <2>3 DEF FirstCSK
<1> QED
  BY <1>1, <1>2, <1>3

\* A request of an earlier phase arrives.
LEMMA PowerDNSSettles ==
  ASSUME SettleInv, ZoneInv', NEW r \in inflight, PowerDNSApplies(r)
  PROVE  SettleParts'
<1>0. /\ Lives /\ LateCreations(wf) /\ Settled(wf) /\ r \in Request
      /\ strays = 0 => stray = 0
  BY SettleTypes DEF SettleInv, SettleParts
<1>1. /\ keys' = KeysAfter(r) /\ UNCHANGED <<wf, stray, strays>> /\ inflight' \subseteq inflight
      /\ r.op # Put
  BY DEF PowerDNSApplies, Serve, Put
<1>2. FirstCSK'
  BY <1>1, NoNewCSK
<1>3. CASE wf.phase = "idle"
  <2>1. keys' = keys
    BY <1>1, <1>3, IdleIsInert
  <2> QED
    BY <1>0, <1>1, <1>2, <2>1, OwnKept DEF Own
<1>4. CASE wf.phase # "idle"
  <2>1. Creating' \subseteq Creating
    BY <1>1 DEF Creating
  <2>2. Lives' /\ LateCreations(wf)'
    BY <1>0, <1>1, <2>1 DEF Lives, LateCreations
  <2>3. wf.phase \in Handover => Settling(wf)' /\ Creating' = {}
    <3> SUFFICES ASSUME wf.phase \in Handover PROVE Settling(wf)' /\ Creating' = {}
      OBVIOUS
    <3>1. Creating = {}
      BY <1>0 DEF Settled
    <3>2. r.op \in {"activate", "deactivate", "delete"}
      BY <1>0, <1>1, <3>1 DEF Creating, Creates, Request, Ops, OnceOps, Put
    <3> QED
      BY <1>1, <2>1, <3>1, <3>2, HandoverKept
  <2>4. Settled(wf)'
    BY <1>1, <1>4, <2>3 DEF Settled
  <2> QED
    BY <1>0, <1>1, <1>2, <2>2, <2>4 DEF SettleParts
<1> QED
  BY <1>3, <1>4

\* A foreign key comes or goes, the zone's own stay.
LEMMA StraysSettle ==
  ASSUME SettleInv, StrayKeyAppears \/ StrayKeyRemoved, MaxStrays <= 1
  PROVE  SettleParts'
<1>0. /\ FirstCSK /\ (strays = 0 => stray = 0) /\ ZoneInv /\ strays \in Nat /\ MaxStrays \in Nat
      /\ SlotBook
  BY SettleTypes, RotationAssumptions DEF SettleInv, SettleParts, TypeOK
<1>1. wf' = wf /\ inflight' = inflight
  BY DEF StrayKeyAppears, StrayKeyRemoved
<1>2. CASE StrayKeyAppears
  <2>1. PICK made \in {"zsk", "ksk"} : keys' = keys \cup {NewKey(lastID + 1, made, made = "ksk")}
    BY <1>2 DEF StrayKeyAppears, Serve
  <2>2. /\ NewKey(lastID + 1, made, made = "ksk").made = made
        /\ NewKey(lastID + 1, made, made = "ksk").id = lastID + 1
    BY DEF NewKey
  <2>3. stray = 0 /\ strays' # 0 /\ stray' = lastID + 1
    BY <1>0, <1>2 DEF StrayKeyAppears
  <2>4. \A k \in keys : k.id # stray /\ k.id # lastID + 1
    BY <1>0, <2>3, SettleTypes
  <2>5. Own' = Own
    BY <2>1, <2>2, <2>3, <2>4 DEF Own
  <2>6. wf.new # lastID + 1
    BY <1>0, SettleTypes, SlotNumbers DEF SlotBook
  <2> QED
    BY <1>0, <1>1, <2>1, <2>2, <2>3, <2>5, <2>6, OwnKept DEF FirstCSK
<1>3. CASE StrayKeyRemoved
  <2>1. keys' = {k \in keys : k.id # stray} /\ stray' = 0 /\ strays' = strays
    BY <1>3 DEF StrayKeyRemoved, Serve
  <2>2. Own' = Own
    BY <1>0, <2>1, SettleTypes DEF Own
  <2> QED
    BY <1>0, <1>1, <2>1, <2>2, OwnKept DEF FirstCSK
<1> QED
  BY <1>2, <1>3

\* Requests grow old as the wait does.
LEMMA ElapseSettles ==
  ASSUME SettleInv, Elapse
  PROVE  SettleParts'
<1>0. /\ ZoneInv /\ FirstCSK /\ Lives /\ LateCreations(wf) /\ Settled(wf)
      /\ strays = 0 => stray = 0
  BY DEF SettleInv, SettleParts
<1>1. UNCHANGED <<keys, stray, strays>>
  BY DEF Elapse, WorldElapses
<1>2. /\ wf'.phase = wf.phase /\ wf'.evidence = wf.evidence /\ wf'.kind = wf.kind
      /\ wf'.old = wf.old /\ wf'.new = wf.new /\ wf'.zsk = wf.zsk /\ wf'.next = Less(wf.next)
  BY <1>0, SettleTypes DEF Elapse, Workflow, Less
<1>3. ASSUME NEW x \in inflight'
      PROVE  \E r \in inflight : x.op = r.op /\ x.left = r.left - 1
  <2>1. PICK r \in inflight : x = [r EXCEPT !.left = @ - 1]
    BY <1>3 DEF Elapse
  <2> QED
    BY <1>0, <2>1, SettleTypes DEF Request
<1>4. Lives'
  BY <1>0, <1>3, SettleTypes DEF Lives
<1>5. LateCreations(wf)'
  <2> SUFFICES ASSUME wf.phase = "wait_publish", wf.evidence, NEW x \in Creating'
               PROVE  x.left + PublishWait <= RequestLife + Less(wf.next)
    BY <1>2 DEF LateCreations
  <2>1. PICK r \in inflight : x.op = r.op /\ x.left = r.left - 1
    BY <1>3 DEF Creating
  <2>2. r.left + PublishWait <= RequestLife + wf.next
    BY <1>0, <2>1 DEF LateCreations, Creating
  <2> QED
    BY <1>0, <2>1, <2>2, SettleTypes DEF Less
<1>6. Creating = {} => Creating' = {}
  BY <1>3 DEF Creating
<1>7. Settled(wf)'
  <2>1. Own' = Own
    BY <1>1 DEF Own
  <2> QED
    BY <1>0, <1>1, <1>2, <1>6, <2>1 DEF Settled, Whole, Settling, InSlot, Accompanies
<1> QED
  BY <1>0, <1>1, <1>4, <1>5, <1>7 DEF SettleParts, FirstCSK

\* A zone at rest has its keys.
LEMMA SettleInit ==
  ASSUME Init, ZoneInv
  PROVE  SettleParts
<1>1. /\ wf.phase = "idle" /\ inflight = {} /\ stray = 0
  BY DEF Init, IdleWorkflow
<1>2. PICK z \in InitialZones : keys = InitialKeys(z)
  BY DEF Init, WorldInit
<1>3. Own = keys
  BY <1>1, SettleTypes DEF Own
<1>4. FirstCSK /\ Whole(keys)
  <2>1. CASE z = "split"
    <3> DEFINE a == NewKey(1, "ksk", TRUE)
               b == NewKey(2, "zsk", TRUE)
    <3>1. keys = {a, b}
      BY <1>2, <2>1 DEF InitialKeys
    <3>2. /\ a.active /\ b.active /\ a.flags = 257 /\ b.flags = 256
          /\ a.made = "ksk" /\ b.made = "zsk"
      BY DEF NewKey, flagsOf
    <3> HIDE DEF a, b
    <3> QED
      BY <3>1, <3>2 DEF FirstCSK, Whole
  <2>2. CASE z # "split"
    <3> DEFINE a == NewKey(1, "csk", TRUE)
    <3>1. keys = {a}
      BY <1>2, <2>2 DEF InitialKeys
    <3>2. a.active /\ a.flags = 257 /\ a.made = "csk" /\ a.id = 1
      BY DEF NewKey, flagsOf
    <3> HIDE DEF a
    <3> QED
      BY <3>1, <3>2 DEF FirstCSK, Whole
  <2> QED
    BY <2>1, <2>2
<1>5. Creating = {} /\ Lives /\ LateCreations(wf)
  BY <1>1 DEF Creating, Lives, LateCreations
<1>6. Settled(wf)
  BY <1>1, <1>3, <1>4, <1>5 DEF Settled, Handover, AfterParent
<1> QED
  BY <1>1, <1>4, <1>5, <1>6 DEF SettleParts

\* The inductive step of ZoneSettles.
LEMMA SettleNext ==
  ASSUME SettleInv, [Next]_vars, MaxStrays <= 1, RequestLife < PublishWait
  PROVE  SettleInv'
<1>0. /\ DSInv /\ ZoneInv /\ ZoneInv' /\ FirstCSK /\ (strays = 0 => stray = 0)
  BY ZoneNext DEF SettleInv, SettleParts, ZoneInv
<1>1. ASSUME Handling PROVE SettleParts'
  BY <1>0, <1>1, HandlingSteps, HandlerSends, HandlerSettles
<1>2. ASSUME NEW r \in inflight, PowerDNSApplies(r) PROVE SettleParts'
  BY <1>0, <1>2, PowerDNSSettles
<1>3. ASSUME UNCHANGED <<keys, wf, stray, strays>>, inflight' \subseteq inflight
      PROVE  SettleParts'
  BY <1>0, <1>3, OwnKept DEF FirstCSK, Own
<1>4. ASSUME NEW r \in inflight, RegistrarAccepts(r) PROVE SettleParts'
  BY <1>3, <1>4 DEF RegistrarAccepts
<1>5. ASSUME StrayKeyAppears \/ StrayKeyRemoved PROVE SettleParts'
  BY <1>5, StraysSettle
<1>6. ASSUME WorldStep PROVE SettleParts'
  <2>1. UNCHANGED <<wf, inflight, stray, strays>>
    BY <1>6 DEF WorldStep, bookVars
  <2>2. keys' = keys
    BY <1>6 DEF WorldStep, World, SecondarySync, RegistrarApplies, RegistrarFails,
                RegistrarForgetsJob, ParentPublishes, ParentSync, ZoneEdited, Redelegated,
                Serve
  <2> QED
    BY <1>3, <2>1, <2>2
<1>7. ASSUME Elapse PROVE SettleParts'
  BY <1>7, ElapseSettles
<1> QED
  BY <1>0, <1>1, <1>2, <1>4, <1>5, <1>6, <1>7, NextSteps DEF SettleInv

\* One key of a role, and it is active.
LEMMA OneListed ==
  ASSUME NEW typ, NEW a \in Inventory, a.active, a.keytype = typ,
         \A l \in Inventory : l.keytype = typ => l = a
  PROVE  exactlyOneActive(Inventory, typ)
<1>1. ActiveOf(Inventory, typ) = {a}
  BY DEF ActiveOf
<1> QED
  BY <1>1, FS_Singleton DEF exactlyOneActive

\* The zone's own keys as PowerDNS lists them, and which of them sign the DNSKEY
\* set.
LEMMA WholeListed ==
  ASSUME ZoneInv, Whole(keys)
  PROVE  /\ keyScheme(Inventory) \in {"csk", "split"}
         /\ \E a \in keys : /\ a.flags = 257 /\ Signers(keys, {"ksk", "csk"}) = {a.id}
                            /\ \A k \in keys : k.flags = 257 => k = a
<1>0. \A k \in keys : k.flags = flagsOf(k.made) /\ k.made \in KeyTypes
  BY SettleTypes
<1>1. Inventory = {ListedAs(x) : x \in keys}
  BY DEF Inventory, Listed, ListedAs
<1>2. \A x : ListedAs(x).active = x.active /\ ListedAs(x).keytype = Role(keys, x)
  BY DEF ListedAs
<1>3. ASSUME NEW a \in keys, keys = {a}, a.active, a.flags = 257, ~DynamicRoles => a.made = "csk"
      PROVE  /\ keyScheme(Inventory) = "csk" /\ Signers(keys, {"ksk", "csk"}) = {a.id}
             /\ \A k \in keys : k.flags = 257 => k = a
  <2>1. Role(keys, a) = "csk"
    BY <1>3 DEF Role, RolesSplit
  <2>2. Inventory = {ListedAs(a)} /\ ListedAs(a).active /\ ListedAs(a).keytype = "csk"
    BY <1>1, <1>2, <1>3, <2>1
  <2>3. exactlyOneActive(Inventory, "csk")
    BY <2>2, OneListed
  <2>4. ActiveOf(Inventory, "ksk") = {} /\ ActiveOf(Inventory, "zsk") = {}
    BY <2>2 DEF ActiveOf
  <2>5. ~exactlyOneActive(Inventory, "ksk")
    BY <2>4, FS_EmptySet DEF exactlyOneActive
  <2>6. keyScheme(Inventory) = "csk"
    BY <2>3, <2>4, <2>5 DEF keyScheme
  <2> QED
    BY <1>3, <2>1, <2>6 DEF Signers
<1>4. ASSUME NEW a \in keys, NEW b \in keys, keys = {a, b}, a.active, b.active,
             a.flags = 257, b.flags = 256, ~DynamicRoles => a.made = "ksk"
      PROVE  /\ keyScheme(Inventory) = "split" /\ Signers(keys, {"ksk", "csk"}) = {a.id}
             /\ \A k \in keys : k.flags = 257 => k = a
  <2>1. b.made = "zsk"
    BY <1>0, <1>4 DEF flagsOf, KeyTypes
  <2>2. Role(keys, a) = "ksk" /\ Role(keys, b) = "zsk"
    BY <1>4, <2>1 DEF Role, RolesSplit
  <2>3. /\ Inventory = {ListedAs(a), ListedAs(b)}
        /\ ListedAs(a).active /\ ListedAs(a).keytype = "ksk"
        /\ ListedAs(b).active /\ ListedAs(b).keytype = "zsk"
    BY <1>1, <1>2, <1>4, <2>2
  <2>4. exactlyOneActive(Inventory, "ksk") /\ exactlyOneActive(Inventory, "zsk")
    BY <2>3, OneListed
  <2>5. ActiveOf(Inventory, "csk") = {}
    BY <2>3 DEF ActiveOf
  <2>6. ~exactlyOneActive(Inventory, "csk")
    BY <2>5, FS_EmptySet DEF exactlyOneActive
  <2>7. keyScheme(Inventory) = "split"
    BY <2>4, <2>5, <2>6 DEF keyScheme
  <2> QED
    BY <1>4, <2>2, <2>7 DEF Signers
<1> QED
  BY <1>3, <1>4 DEF Whole

\* Whatever was lost, repeated or late, a zone between two rotations has exactly
\* its keys, all in service, its DS, and nothing under way that could change
\* either: for every TTL, wait and lag, every number of rotations and faults.  Two
\* things are needed of the world.  A request must not live longer than waitPublish
\* waits between its two looks at the inventory: requests of the HTTP clients
\* time out, the wait takes a TTL at least.  And there is one foreign key at most,
\* because the model knows only the last one for a foreign key.
THEOREM ZoneSettles ==
  ASSUME RequestLife < PublishWait, MaxStrays <= 1
  PROVE  Spec => []SettledZone
<1>1. Init /\ ZoneInv => SettleInv
  BY SettleInit DEF SettleInv
<1>2. SettleInv /\ [Next]_vars => SettleInv'
  BY SettleNext
<1>3. SettleInv => SettledZone
  <2> SUFFICES ASSUME SettleInv, wf.phase = "idle", stray = 0
               PROVE  /\ \A r \in inflight : r.op \notin OnceOps /\ KeysAfter(r) = keys
                      /\ keyScheme(Inventory) \in {"csk", "split"}
                      /\ \A k \in keys : k.active /\ k.published
                      /\ registrar.data # {} =>
                           registrar.data = Signers(keys, {"ksk", "csk"})
    BY DEF SettledZone
  <2>1. ZoneInv /\ DSInv /\ AllPublished /\ Whole(Own) /\ PutBook /\ AnchorsHold /\ wf.kind = "none"
    BY SettleTypes DEF SettleInv, SettleParts, Settled, ZoneInv, DSInv, DSParts, Announcing
  <2>2. Own = keys
    BY <2>1, SettleTypes DEF Own
  <2>3. Puts = {}
    BY <2>1 DEF PutBook, Rolls
  <2>4. \A r \in inflight : r.op # Put
    BY <2>3 DEF Puts
  <2>5. \A r \in inflight : r.op \notin OnceOps /\ KeysAfter(r) = keys
    BY <2>4, IdleIsInert DEF OnceOps
  <2>6. \A k \in keys : k.active /\ k.published
    BY <2>1, <2>2 DEF Whole, AllPublished
  <2>7. PICK a \in keys : /\ a.flags = 257 /\ Signers(keys, {"ksk", "csk"}) = {a.id}
                          /\ \A k \in keys : k.flags = 257 => k = a
    BY <2>1, <2>2, WholeListed
  <2>8. \A id \in registrar.data : id = a.id
    <3> SUFFICES ASSUME NEW id \in registrar.data PROVE id = a.id
      OBVIOUS
    <3>1. Stands(id)
      BY <2>1 DEF AnchorsHold, Anchors
    <3> QED
      BY <2>7, <3>1 DEF Stands, Signs
  <2>9. registrar.data # {} => registrar.data = {a.id}
    BY <2>8
  <2> QED
    BY <2>1, <2>2, <2>5, <2>6, <2>7, <2>9, WholeListed
<1> QED
  BY <1>1, <1>2, <1>3, ZoneAlways, PTL DEF Spec
=============================================================================
