---------------------------- MODULE OutboxProofs ----------------------------
(***************************************************************************)
(* For any events, recipients, retention and number of failures: no event  *)
(* is lost, and every second copy has an unrecorded delivery behind it.    *)
(***************************************************************************)
EXTENDS Outbox, TLAPS

\* Between deliveries nothing is left of a session, and what a session or the
\* Tick still holds is pending: nothing else touches an event meanwhile.
SessionInv ==
  /\ stage # "deliver" => todo = {} /\ session = NoSession
  /\ \A e \in todo : box[e].status = "pending"
  /\ session.step # "none" =>
       /\ session.event \in Events
       /\ box[session.event].status = "pending"
       /\ session.event \notin todo

\* What the server has said so far is true.
AnswerInv ==
  /\ session.step = "taken" =>
       \A r \in session.accepted : copies[session.event][r] > 0
  /\ session.step = "sent" => Got(session.event)
  /\ session.step \in {"taken", "sent"} => unsure[session.event] > 0

RaisedInv ==
  /\ gone \subseteq raised
  /\ \A e \in Events : e \notin raised => box[e] = NoEvent

\* A completion that is still to be sent has no recorded delivery at all.
CopiesInv ==
  \A e \in Completions, r \in Recipients :
    /\ copies[e][r] <= 1 + unsure[e]
    /\ box[e].status = "pending" \/ e \notin raised => copies[e][r] <= unsure[e]

Inv == TypeOK /\ SessionInv /\ AnswerInv /\ RaisedInv /\ NoEventLost /\ CopiesInv

\* What the operators on an event keep.
LEMMA EventTypes ==
  ASSUME NEW n \in Notification
  PROVE  /\ Delivered(n) \in Notification /\ Delivered(n).status = "delivered"
         /\ Retried(n) \in Notification /\ Retried(n).status = n.status
         /\ Aged(n) \in Notification /\ Aged(n).status = n.status
         /\ n = NoEvent => Aged(n) = NoEvent
<1> USE OutboxAssumptions DEF Notification
<1>1. Delivered(n) \in Notification /\ Delivered(n).status = "delivered"
  BY DEF Delivered
<1>2. ASSUME NEW b \in 1..MaxBackoff, NEW w \in Nat
      PROVE  /\ [n EXCEPT !.backoff = b, !.next = w] \in Notification
             /\ [n EXCEPT !.backoff = b, !.next = w].status = n.status
  OBVIOUS
<1>3. Retried(n) \in Notification /\ Retried(n).status = n.status
  <2> DEFINE b == Less(2 * n.backoff, MaxBackoff)
  <2>1. b \in 1..MaxBackoff /\ b \in Nat
    BY DEF Less
  <2>2. Retried(n) = [n EXCEPT !.backoff = b, !.next = b]
    BY DEF Retried
  <2> HIDE DEF b
  <2> QED
    BY <1>2, <2>1, <2>2
<1>4. ASSUME NEW w \in Nat, NEW a \in Nat
      PROVE  /\ [n EXCEPT !.next = w, !.age = a] \in Notification
             /\ [n EXCEPT !.next = w, !.age = a].status = n.status
  OBVIOUS
<1> DEFINE w == IF n.next > 0 THEN n.next - 1 ELSE 0
           a == IF n.status = "delivered" /\ n.age <= Retention THEN n.age + 1 ELSE n.age
<1>5. w \in Nat /\ a \in Nat
  OBVIOUS
<1>6. Aged(n) = [n EXCEPT !.next = w, !.age = a]
  BY DEF Aged
<1>7. ASSUME n = NoEvent PROVE Aged(n) = NoEvent
  <2>1. w = 0 /\ a = 0 /\ n.status = "none" /\ n.backoff = 1
    BY <1>7 DEF NoEvent
  <2> HIDE DEF w, a
  <2> QED
    BY <1>6, <1>7, <2>1 DEF NoEvent
<1>8. Aged(n) \in Notification /\ Aged(n).status = n.status
  <2> HIDE DEF w, a
  <2> QED
    BY <1>4, <1>5, <1>6
<1> QED
  BY <1>1, <1>3, <1>7, <1>8

LEMMA InitInv == Init => Inv
BY OutboxAssumptions DEF Init, Inv, TypeOK, SessionInv, AnswerInv, RaisedInv,
  NoEventLost, CopiesInv, NoEvent, NoSession, Events, Notification

LEMMA StepInv == Inv /\ [Next]_vars => Inv'
<1> SUFFICES ASSUME Inv, [Next]_vars PROVE Inv'
  OBVIOUS
<1>0. NoEvent \in Notification /\ NoEvent.status = "none"
      /\ Fresh \in Notification /\ Fresh.status = "pending"
  BY OutboxAssumptions DEF Notification, NoEvent, Fresh
<1> USE <1>0, OutboxAssumptions DEF Inv, TypeOK, SessionInv, AnswerInv, RaisedInv,
  NoEventLost, CopiesInv, NoSession, Events, Got, At
<1>1. CASE TickBegin
  BY <1>1 DEF TickBegin, Expired, DueNow
<1>2. CASE DeleteFails
  BY <1>2 DEF DeleteFails
<1>3. CASE SendBegin
  BY <1>3 DEF SendBegin
<1>4. CASE Envelope
  BY <1>4 DEF Envelope
<1>5. CASE RcptRefused
  BY <1>5 DEF RcptRefused
<1>6. CASE Data
  <2> DEFINE e == session.event
  <2>1. PICK who \in SUBSET Recipients :
          /\ session' = [session EXCEPT !.step = "taken", !.accepted = who]
          /\ copies' = Took(e, who)
          /\ who # Recipients => rejects < MaxRejects
          /\ rejects' = IF who = Recipients THEN rejects ELSE rejects + 1
    BY <1>6 DEF Data
  <2>2. /\ session.step = "data" /\ stage = "deliver" /\ e \in Events
        /\ unsure' = [unsure EXCEPT ![e] = unsure[e] + 1]
        /\ UNCHANGED <<box, gone, stage, todo, raised, faults>>
    BY <1>6 DEF Data
  <2>3. /\ session'.step = "taken" /\ session'.event = e /\ session'.accepted = who
        /\ session' \in [step : {"envelope", "data", "taken", "sent", "failed"},
                         event : Events, accepted : SUBSET Recipients]
    BY <2>1, <2>2
  <2>4. /\ copies' \in [Events -> [Recipients -> 0..MaxCopies]]
        /\ \A f \in Events, r \in Recipients :
             /\ copies'[f][r] >= copies[f][r]
             /\ f # e => copies'[f][r] = copies[f][r]
             /\ copies'[f][r] <= copies[f][r] + 1
        /\ \A r \in who : copies'[e][r] > 0
    BY <2>1, <2>2 DEF Took, Less
  <2>5. TypeOK'
    BY <2>1, <2>2, <2>3, <2>4
  <2>6. SessionInv' /\ RaisedInv'
    BY <2>2, <2>3
  <2>7. AnswerInv'
    BY <2>2, <2>3, <2>4
  <2>8. NoEventLost'
    BY <2>2, <2>4
  <2>9. CopiesInv'
    BY <2>2, <2>4
  <2> QED
    BY <2>5, <2>6, <2>7, <2>8, <2>9
<1>7. CASE Replies
  BY <1>7 DEF Replies, AllAccepted
<1>8. CASE ConnectionLost
  BY <1>8 DEF ConnectionLost
<1>9. CASE Record
  <2> DEFINE e == session.event
  <2>1. /\ stage = "deliver" /\ session.step \in {"sent", "failed"}
        /\ e \in Events /\ box[e].status = "pending" /\ e \notin todo
        /\ session' = NoSession
        /\ UNCHANGED <<gone, stage, todo, raised, copies, rejects>>
    BY <1>9 DEF Record
  <2>2. CASE UNCHANGED <<box, unsure>> /\ faults' \in 0..MaxFaults
    BY <2>1, <2>2
  <2>3. CASE /\ session.step = "sent"
             /\ box' = [box EXCEPT ![e] = Delivered(box[e])]
             /\ unsure' = [unsure EXCEPT ![e] = unsure[e] - 1]
             /\ UNCHANGED faults
    <3>1. /\ box' \in [Events -> Notification]
          /\ box'[e].status = "delivered"
          /\ \A f \in Events \ {e} : box'[f] = box[f]
      BY <2>1, <2>3, EventTypes
    <3>2. unsure' \in [Events -> Nat] /\ Got(e) /\ e \in raised
      BY <2>1, <2>3
    <3>3. TypeOK'
      BY <2>1, <2>3, <3>1, <3>2
    <3>4. SessionInv' /\ AnswerInv'
      BY <2>1, <3>1
    <3>5. RaisedInv'
      BY <2>1, <3>1, <3>2
    <3>6. NoEventLost'
      BY <2>1, <3>1, <3>2
    <3>7. CopiesInv'
      BY <2>1, <2>3, <3>1, <3>2
    <3> QED
      BY <3>3, <3>4, <3>5, <3>6, <3>7
  <2>4. CASE /\ session.step = "failed"
             /\ box' = [box EXCEPT ![e] = Retried(box[e])]
             /\ UNCHANGED <<unsure, faults>>
    <3>1. /\ box' \in [Events -> Notification]
          /\ box'[e].status = "pending"
          /\ \A f \in Events \ {e} : box'[f] = box[f]
      BY <2>1, <2>4, EventTypes
    <3>2. TypeOK'
      BY <2>1, <2>4, <3>1
    <3>3. SessionInv' /\ AnswerInv'
      BY <2>1, <3>1
    <3>4. RaisedInv'
      BY <2>1, <3>1
    <3>5. NoEventLost'
      BY <2>1, <3>1
    <3>6. CopiesInv'
      BY <2>1, <2>4, <3>1
    <3> QED
      BY <3>2, <3>3, <3>4, <3>5, <3>6
  <2> QED
    BY <1>9, <2>1, <2>2, <2>3, <2>4 DEF Record
<1>10. CASE DeliveryEnds
  BY <1>10 DEF DeliveryEnds
<1>11. ASSUME NEW e \in Completions, Complete(e) PROVE Inv'
  BY <1>11 DEF Complete
<1>12. ASSUME NEW e \in Blocks, BlockEnrollment(e) PROVE Inv'
  BY <1>12 DEF BlockEnrollment, Announce
<1>13. ASSUME NEW e \in Blocks, ZoneDisappears(e) PROVE Inv'
  BY <1>13 DEF ZoneDisappears
<1>14. CASE TickEnd
  BY <1>14 DEF TickEnd
<1>15. CASE Crash
  BY <1>15 DEF Crash
<1>16. CASE Elapse
  <2>1. /\ stage = "free"
        /\ UNCHANGED <<gone, stage, todo, session, raised, copies, unsure, faults, rejects>>
    BY <1>16 DEF Elapse
  <2>2. /\ box' \in [Events -> Notification]
        /\ \A e \in Events : box'[e].status = box[e].status
        /\ \A e \in Events : box[e] = NoEvent => box'[e] = NoEvent
    BY <1>16, EventTypes DEF Elapse
  <2>3. TypeOK'
    BY <2>1, <2>2
  <2>4. SessionInv' /\ AnswerInv' /\ RaisedInv'
    BY <2>1, <2>2
  <2>5. NoEventLost' /\ CopiesInv'
    BY <2>1, <2>2
  <2> QED
    BY <2>3, <2>4, <2>5
<1>17. CASE UNCHANGED vars
  BY <1>17 DEF vars
<1> QED
  BY <1>1, <1>2, <1>3, <1>4, <1>5, <1>6, <1>7, <1>8, <1>9, <1>10, <1>11,
     <1>12, <1>13, <1>14, <1>15, <1>16, <1>17 DEF Next, Sending

LEMMA InvAlways == Spec => []Inv
BY InitInv, StepInv, PTL DEF Spec

\* The outbox stays well typed, its backoff within the cap.
THEOREM OutboxTypeCorrect == Spec => []TypeOK
<1>1. Inv => TypeOK
  BY DEF Inv
<1> QED
  BY <1>1, InvAlways, PTL

\* No event is lost, however often process, network and recipients fail.
THEOREM NoEventIsLost == Spec => []NoEventLost
<1>1. Inv => NoEventLost
  BY DEF Inv
<1> QED
  BY <1>1, InvAlways, PTL

\* A second copy of a completion has an unrecorded delivery behind it.
THEOREM CopiesAreExplained == Spec => []CopiesExplained
<1>1. Inv => CopiesExplained
  BY DEF Inv, CopiesInv, CopiesExplained
<1> QED
  BY <1>1, InvAlways, PTL
=============================================================================
