------------------------------- MODULE Outbox -------------------------------
(***************************************************************************)
(* Notifications: complete and block of internal/controller put an event   *)
(* into the persisted outbox, deliverNotifications sends what is due at    *)
(* the start of every Tick, internal/lmtp speaks LMTP with one server for  *)
(* all recipients.                                                         *)
(*                                                                         *)
(* A completion has an identifier of its own.  A blocked enrollment has a  *)
(* stable one, and Tick blocks it again every time when its zone is gone.  *)
(* The outbox is on disk, the Tick and its LMTP session are lost in a      *)
(* crash.  Time passes between Ticks, in minutes.                          *)
(***************************************************************************)
EXTENDS Naturals, FiniteSets

CONSTANTS
  Completions,  \* identifiers of completed events
  Blocks,       \* identifiers of blocked events, one per enrollment
  Recipients,   \* notifications.lmtp.to
  Retention,    \* controller.idempotency_retention
  MaxBackoff,   \* the longest wait between attempts, 2^8 minutes in the code
  MaxFaults,    \* bound: crashes, broken connections, failed updates
  MaxRejects,   \* bound: recipients turned down by the server
  MaxCopies     \* bound: copies are counted up to this number

ASSUME OutboxAssumptions ==
  /\ Recipients # {}
  /\ Completions \cap Blocks = {}
  /\ Retention \in Nat /\ MaxBackoff \in Nat \ {0}
  /\ MaxFaults \in Nat /\ MaxRejects \in Nat
  /\ MaxCopies \in Nat \ {0}

VARIABLES
  box,      \* per event: its Notification record
  gone,     \* blocked enrollments whose zone has disappeared
  stage,    \* the Tick: "free", "deliver" or "zones"
  todo,     \* events this Tick has still to send
  session,  \* the LMTP session: its event, step and who has accepted
  raised,   \* history: events that have happened
  copies,   \* history: copies each recipient got of each event
  unsure,   \* history: messages the server took without a record of it
  faults, rejects   \* what the bounds count

vars == <<box, gone, stage, todo, session, raised, copies, unsure, faults, rejects>>

Events == Completions \cup Blocks

Notification == [status : {"none", "pending", "delivered"},
                 backoff : 1..MaxBackoff, next : Nat, age : Nat]

NoEvent == [status |-> "none", backoff |-> 1, next |-> 0, age |-> 0]
Fresh == [NoEvent EXCEPT !.status = "pending"]

NoSession == [step |-> "none", event |-> "none", accepted |-> {}]

TypeOK ==
  /\ box \in [Events -> Notification]
  /\ gone \subseteq Blocks
  /\ stage \in {"free", "deliver", "zones"}
  /\ todo \subseteq Events
  /\ session \in {NoSession} \cup
       [step : {"envelope", "data", "taken", "sent", "failed"}, event : Events,
        accepted : SUBSET Recipients]
  /\ raised \subseteq Events
  /\ copies \in [Events -> [Recipients -> 0..MaxCopies]]
  /\ unsure \in [Events -> Nat]
  /\ faults \in 0..MaxFaults
  /\ rejects \in 0..MaxRejects

Init ==
  /\ box = [e \in Events |-> NoEvent]
  /\ gone = {}
  /\ stage = "free"
  /\ todo = {}
  /\ session = NoSession
  /\ raised = {}
  /\ copies = [e \in Events |-> [r \in Recipients |-> 0]]
  /\ unsure = [e \in Events |-> 0]
  /\ faults = 0 /\ rejects = 0
-----------------------------------------------------------------------------
\* Mutation: a delivered event is kept for ever.
ExpiredNever(e) == e \notin Events

\* deliverNotifications deletes what was delivered longer ago than Retention.
Expired(e) == box[e].status = "delivered" /\ box[e].age > Retention

\* Mutation: an event whose delivery failed is not looked for again.
DueOnce(e) == box[e].status = "pending" /\ box[e].next = 0 /\ box[e].backoff = 1

DueNow(e) == box[e].status = "pending" /\ box[e].next = 0

\* deliverNotifications: delete, then look for what is due.
TickBegin ==
  /\ stage = "free"
  /\ box' = [e \in Events |-> IF Expired(e) THEN NoEvent ELSE box[e]]
  /\ todo' = {e \in Events : DueNow(e) /\ ~Expired(e)}
  /\ stage' = "deliver"
  /\ UNCHANGED <<gone, session, raised, copies, unsure, faults, rejects>>

\* deliverNotifications gives up when the deletion cannot be saved.
DeleteFails ==
  /\ stage = "free"
  /\ \E e \in Events : Expired(e)
  /\ faults < MaxFaults
  /\ faults' = faults + 1
  /\ stage' = "zones"
  /\ UNCHANGED <<box, gone, todo, session, raised, copies, unsure, rejects>>

At(step) == session.step = step /\ stage = "deliver"

\* Send: dial, greeting and LHLO for the next event.
SendBegin ==
  /\ At("none")
  /\ \E e \in todo :
       /\ session' = [step |-> "envelope", event |-> e, accepted |-> {}]
       /\ todo' = todo \ {e}
  /\ UNCHANGED <<box, gone, stage, raised, copies, unsure, faults, rejects>>

\* MAIL and RCPT for every recipient: one refusal fails the whole Send.
Envelope ==
  /\ At("envelope")
  /\ session' = [session EXCEPT !.step = "data"]
  /\ UNCHANGED <<box, gone, stage, todo, raised, copies, unsure, faults, rejects>>

RcptRefused ==
  /\ At("envelope")
  /\ rejects < MaxRejects
  /\ rejects' = rejects + 1
  /\ session' = [session EXCEPT !.step = "failed"]
  /\ UNCHANGED <<box, gone, stage, todo, raised, copies, unsure, faults>>

Less(a, b) == IF a < b THEN a ELSE b

Took(e, who) == [copies EXCEPT ![e] = [r \in Recipients |->
                   IF r \in who THEN Less(copies[e][r] + 1, MaxCopies) ELSE copies[e][r]]]

\* DATA: the server takes the message and delivers it, perhaps not to all.
Data ==
  LET e == session.event
  IN /\ At("data")
     /\ \E who \in SUBSET Recipients :
          /\ who # Recipients => rejects < MaxRejects
          /\ rejects' = IF who = Recipients THEN rejects ELSE rejects + 1
          /\ session' = [session EXCEPT !.step = "taken", !.accepted = who]
          /\ copies' = Took(e, who)
     /\ unsure' = [unsure EXCEPT ![e] = @ + 1]
     /\ UNCHANGED <<box, gone, stage, todo, raised, faults>>

\* Mutation: one good answer is enough.
AllAcceptedByOne == session.accepted # {}

\* Send: one answer is read per recipient, the first bad one fails it.
AllAccepted == session.accepted = Recipients

Replies ==
  /\ At("taken")
  /\ session' = [session EXCEPT !.step = IF AllAccepted THEN "sent" ELSE "failed"]
  /\ UNCHANGED <<box, gone, stage, todo, raised, copies, unsure, faults, rejects>>

\* The connection breaks or times out, before or after the server has acted.
ConnectionLost ==
  /\ At("envelope") \/ At("data") \/ At("taken")
  /\ faults < MaxFaults
  /\ faults' = faults + 1
  /\ session' = [session EXCEPT !.step = "failed"]
  /\ UNCHANGED <<box, gone, stage, todo, raised, copies, unsure, rejects>>

\* deliverNotifications: the backoff doubles up to a cap.
Retried(event) ==
  LET backoff == Less(2 * event.backoff, MaxBackoff)
  IN [event EXCEPT !.backoff = backoff, !.next = backoff]

\* Mutation: the delivery is recorded, the event stays due.
DeliveredStillDue(event) == [event EXCEPT !.next = 0, !.age = 0]

Delivered(event) == [event EXCEPT !.status = "delivered", !.next = 0, !.age = 0]

\* deliverNotifications records the outcome, unless the Update fails.
Record ==
  LET e == session.event
  IN /\ At("sent") \/ At("failed")
     /\ \/ /\ box' = [box EXCEPT ![e] =
                 CASE box[e].status # "pending" -> box[e]
                   [] box[e].status = "pending" /\ session.step = "sent" -> Delivered(box[e])
                   [] OTHER -> Retried(box[e])]
           /\ unsure' = IF session.step = "sent" THEN [unsure EXCEPT ![e] = @ - 1]
                        ELSE unsure
           /\ UNCHANGED faults
        \/ /\ faults < MaxFaults
           /\ faults' = faults + 1
           /\ UNCHANGED <<box, unsure>>
     /\ session' = NoSession
     /\ UNCHANGED <<gone, stage, todo, raised, copies, rejects>>

\* The Tick goes on to the zones.
DeliveryEnds ==
  /\ At("none")
  /\ todo = {}
  /\ stage' = "zones"
  /\ UNCHANGED <<box, gone, todo, session, raised, copies, unsure, faults, rejects>>
-----------------------------------------------------------------------------
(* The zones' part of a Tick                                               *)

\* complete: the event is persisted with the transition to idle.
Complete(e) ==
  /\ stage = "zones"
  /\ e \notin raised
  /\ raised' = raised \cup {e}
  /\ box' = [box EXCEPT ![e] = Fresh]
  /\ UNCHANGED <<gone, stage, todo, session, copies, unsure, faults, rejects>>

\* block puts the event of an enrollment in only when it is not there.
Announce(e) == [box EXCEPT ![e] = IF @ = NoEvent THEN Fresh ELSE @]

\* block of an enrollment, for the first time.
BlockEnrollment(e) ==
  /\ stage = "zones"
  /\ e \notin raised
  /\ raised' = raised \cup {e}
  /\ box' = Announce(e)
  /\ UNCHANGED <<gone, stage, todo, session, copies, unsure, faults, rejects>>

\* Tick: enrollments of zones that are gone are blocked again, each time.
TickEnd ==
  /\ stage = "zones"
  /\ box' = [e \in Events |-> IF e \in gone /\ box[e] = NoEvent THEN Fresh ELSE box[e]]
  /\ stage' = "free"
  /\ UNCHANGED <<gone, todo, session, raised, copies, unsure, faults, rejects>>

\* The zone of a blocked enrollment is deleted, or no longer signed.
ZoneDisappears(e) ==
  /\ e \in raised \ gone
  /\ gone' = gone \cup {e}
  /\ UNCHANGED <<box, stage, todo, session, raised, copies, unsure, faults, rejects>>

\* The controller dies and starts again, or ListZones fails after delivery.
Crash ==
  /\ stage # "free"
  /\ faults < MaxFaults
  /\ faults' = faults + 1
  /\ stage' = "free" /\ todo' = {} /\ session' = NoSession
  /\ UNCHANGED <<box, gone, raised, copies, unsure, rejects>>

\* How much longer ago than Retention an event was delivered is no matter.
Aged(event) ==
  [event EXCEPT !.next = IF @ > 0 THEN @ - 1 ELSE 0,
                !.age = IF event.status = "delivered" /\ @ <= Retention THEN @ + 1 ELSE @]

\* Time passes.
Elapse ==
  /\ stage = "free"
  /\ box' = [e \in Events |-> Aged(box[e])]
  /\ UNCHANGED <<gone, stage, todo, session, raised, copies, unsure, faults, rejects>>
-----------------------------------------------------------------------------
Sending == SendBegin \/ Envelope \/ Data \/ Replies \/ Record \/ DeliveryEnds

Next ==
  \/ TickBegin \/ DeleteFails \/ Sending \/ RcptRefused \/ ConnectionLost \/ TickEnd
  \/ \E e \in Completions : Complete(e)
  \/ \E e \in Blocks : BlockEnrollment(e) \/ ZoneDisappears(e)
  \/ Crash \/ Elapse

Spec == Init /\ [][Next]_vars

\* Run calls Tick at every interval; an exchange with the server ends.
FairSpec ==
  /\ Spec
  /\ WF_vars(TickBegin) /\ WF_vars(Sending) /\ WF_vars(TickEnd)
  /\ SF_vars(Elapse)
-----------------------------------------------------------------------------
(* Properties                                                              *)

Got(e) == \A r \in Recipients : copies[e][r] > 0

\* No event is lost: whatever crashes, breaks or is refused, an event that has
\* happened waits in the outbox or has reached every recipient.
NoEventLost == \A e \in raised : box[e].status = "pending" \/ Got(e)

\* A recipient gets a second copy of a completion only after a message that the
\* server took and the outbox has no record of.
CopiesExplained ==
  \A e \in Completions, r \in Recipients : copies[e][r] <= 1 + unsure[e]

\* Every event reaches every recipient in the end: a failure moves the next
\* attempt away, but never beyond the cap.
EventDelivered == \A e \in Events : (e \in raised) ~> Got(e)

\* The outbox does not grow for ever: what was delivered is deleted.
OutboxEmptied ==
  \A e \in Completions : (e \in raised) ~> (box[e] = NoEvent)
=============================================================================
