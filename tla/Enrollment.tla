----------------------------- MODULE Enrollment -----------------------------
(***************************************************************************)
(* The enroll workflow of internal/controller for one zone: a zone whose   *)
(* DNSSEC is switched on after the arm baseline is published at the parent *)
(* for the first time.  The controller changes no key here; its only write *)
(* is one PUT to the registrar.                                            *)
(*                                                                         *)
(* `wf' is the persisted enroll record of the zone, `call' the PUT the     *)
(* running handler waits for (lost by a crash, a timeout or a failed       *)
(* update, as in Rotation), `zone' what ListZones and the configuration    *)
(* say.  A handler without a PUT is one step; a retry is no step.          *)
(* EnrollmentArmedAt is never cleared, so it is not a variable.            *)
(*                                                                         *)
(* Registrar material that names no key of the zone is {Foreign}; enabled  *)
(* and "has material" coincide, as both ways to differ are blocked.        *)
(***************************************************************************)
EXTENDS Waits

CONSTANTS
  DiscoveryGrace,  \* enrollment.discovery_grace
  MaxFaults,       \* bound: calls, requests and probes lost
  MaxEdits         \* bound: what operators change on the side

ASSUME EnrollmentAssumptions ==
  DiscoveryGrace \in Nat /\ MaxFaults \in Nat /\ MaxEdits \in Nat

\* The enroll handlers never look at the zone's TTLs: what was cached before
\* the zone was signed must have expired when the waits are over.
ASSUME GraceCoversZone ==
  \A ttl \in ZoneTTLs : ttl + ServerLag <= DiscoveryGrace + PublishWait

VARIABLES
  zone,      \* dnssec, id, selected (config)
  wf,        \* the persisted enroll workflow
  call,      \* "none", "ready", "sent", "job" or "no_job"
  inflight,  \* PUTs that have left the controller: key and time left
  lastID,    \* the highest key identifier PowerDNS has given out
  puts,      \* history: PUTs sent for this zone
  faults, edits   \* what the bounds count

vars == <<worldVars, zone, wf, call, inflight, lastID, puts, faults, edits>>

Foreign == 0

EnrollPhases == {"enroll_discovered", "enroll_wait_publish",
                 "enroll_parent_add", "enroll_wait_parent"}

NoRecord ==
  [phase |-> "unknown", ksk |-> 0, zsk |-> 0, zoneID |-> 0, next |-> 0,
   evidence |-> FALSE, ctid |-> FALSE, tried |-> FALSE, age |-> 0,
   job |-> "none", disposition |-> "none"]

EnrollWorkflow ==
  [phase : EnrollPhases \cup {"unknown", "idle", "blocked"},
   ksk : Nat, zsk : Nat, zoneID : Nat, next : Nat, evidence : BOOLEAN,
   ctid : BOOLEAN, tried : BOOLEAN, age : 0..AmbiguityLimit,
   job : {"none", "open", "done"},
   disposition : {"none", "candidate", "enrolled", "ineligible"}]

Request == [key : Nat, left : Nat]

\* A zone that is not signed yet.
Init ==
  /\ WorldInit({}, {})
  /\ zone \in [dnssec : {FALSE}, id : {1}, selected : {TRUE}]
  /\ wf = NoRecord
  /\ call = "none"
  /\ inflight = {}
  /\ lastID = 0
  /\ puts = 0
  /\ faults = 0 /\ edits = 0
-----------------------------------------------------------------------------
Inventory == Listed(keys)

\* model.Workflow.Active
Active == wf.phase \notin {"unknown", "idle"}

bookVars == <<zone, inflight, lastID, puts, faults, edits>>

\* One store.Update of the record and nothing else.
Persist(w) ==
  /\ wf' = w
  /\ UNCHANGED <<worldVars, call, bookVars>>

transition(w, phase, wait) == Persist([w EXCEPT !.phase = phase, !.next = wait])

Blocked(w) == [w EXCEPT !.phase = "blocked", !.next = 0]
block == Persist(Blocked(wf))

\* reconcileZone and advance: a candidate without a registrar attempt must
\* still be enabled and in scope, and its handler must be due.
Due(phase) ==
  /\ call = "none"
  /\ zone.dnssec
  /\ wf.tried \/ zone.selected
  /\ wf.phase = phase /\ wf.next = 0

\* The record with the keyset of a clean inventory, and the grace it is given.
Recorded(w, ksk, zsk) ==
  [w EXCEPT !.ksk = ksk.id, !.zsk = zsk.id, !.next = DiscoveryGrace]

CleanPairs ==
  {p \in Inventory \X Inventory : validateEnrollmentInventory(Inventory, p[1], p[2])}

\* validateEnrollmentInventory with the recorded keyset, and the zone's ID.
Drifted ==
  \/ ~\E p \in CleanPairs : p[1].id = wf.ksk /\ p[2].id = wf.zsk
  \/ zone.id # wf.zoneID

\* Mutation: a phase of its own instead of a disposition.
IneligiblePhase(w) == [w EXCEPT !.phase = "ineligible", !.next = 0]

Ineligible(w) == [w EXCEPT !.phase = "idle", !.next = 0, !.disposition = "ineligible"]

\* bootstrap: a DNSSEC zone without an enroll record, after the arming.
bootstrap ==
  LET candidate == [NoRecord EXCEPT !.phase = "enroll_discovered",
                      !.zoneID = zone.id, !.disposition = "candidate"]
  IN /\ call = "none"
     /\ zone.dnssec /\ zone.selected
     /\ wf.phase = "unknown"
     /\ CASE keyScheme(Inventory) = "csk" ->
               Persist(Ineligible([NoRecord EXCEPT !.zoneID = zone.id]))
          [] keyScheme(Inventory) # "csk" /\ CleanPairs = {} -> Persist(candidate)
          [] OTHER -> \E p \in CleanPairs : Persist(Recorded(candidate, p[1], p[2]))

\* Tick: an active enrollment of a zone that is gone or not signed any more.
ZoneLost == call = "none" /\ Active /\ ~zone.dnssec /\ block

\* reconcileZone: a candidate that lost its scope before the write.
ScopeLost ==
  /\ call = "none" /\ Active /\ zone.dnssec
  /\ ~wf.tried /\ ~zone.selected
  /\ block

\* validateEnrollmentEvidence, and with `recursive'.
EnrollmentEvidence ==
  /\ DelegationEvidence
  /\ AuthoritativeDNSKEYEvidence(publishedKeys(Inventory))
  /\ AuthoritativeDNSKEYRRSIGBy(wf.ksk)
  /\ AuthoritativeRRSIGBy(wf.zsk)

RecursiveEvidence ==
  /\ DelegationEvidence
  /\ DNSKEYEvidence(publishedKeys(Inventory))
  /\ DNSKEYRRSIGBy(wf.ksk)
  /\ RRSIGBy(wf.zsk)

\* complete: idle for ever, with the keyset it enrolled.
complete ==
  Persist([NoRecord EXCEPT !.phase = "idle", !.ksk = wf.ksk, !.zsk = wf.zsk,
             !.zoneID = wf.zoneID, !.disposition = "enrolled"])
-----------------------------------------------------------------------------
\* enrollDiscovered: a CSK zone is ineligible, an unfinished one is waited
\* for, a clean one recorded and given its grace.
RecordKeyset ==
  CASE keyScheme(Inventory) = "csk" -> Persist(Ineligible(wf))
    [] OTHER -> \E p \in CleanPairs : Persist(Recorded(wf, p[1], p[2]))

\* enrollDiscovered: exact material at registrar and parent is adopted.
AdoptExisting ==
  /\ RecursiveEvidence
  /\ AuthoritativeDSEvidence(wf.ksk) /\ DSEvidence(wf.ksk)
  /\ complete

enrollDiscovered ==
  /\ Due("enroll_discovered")
  /\ CASE wf.ksk = 0 -> RecordKeyset
       [] wf.ksk # 0 /\ Drifted -> block
       [] OTHER ->
            CASE DomainDNSSEC = {wf.ksk} -> AdoptExisting
              [] DomainDNSSEC \notin {{}, {wf.ksk}} -> block
              [] OTHER -> /\ NoDSEvidence
                          /\ DelegationEvidence
                          /\ transition(wf, "enroll_wait_publish", 0)

\* Mutation: the DNSKEY set is not waited for after it was first seen.
enrollWaitPublishOnce ==
  /\ Due("enroll_wait_publish")
  /\ IF Drifted
     THEN block
     ELSE EnrollmentEvidence /\ transition(wf, "enroll_parent_add", 0)

\* enrollWaitPublish: see keys, signatures and delegation, wait, see them again.
enrollWaitPublish ==
  /\ Due("enroll_wait_publish")
  /\ IF Drifted
     THEN block
     ELSE /\ EnrollmentEvidence
          /\ IF ~wf.evidence
             THEN transition([wf EXCEPT !.evidence = TRUE],
                             "enroll_wait_publish", PublishWait)
             ELSE transition([wf EXCEPT !.evidence = FALSE],
                             "enroll_parent_add", 0)

\* Mutation: the write is made before it is recorded.
WithoutRegistrarAttempt == wf

\* enrollParentAdd persists RegistrarAttemptedAt before the PUT ...
WithRegistrarAttempt == [wf EXCEPT !.tried = TRUE, !.age = 0]

\* Mutation: an ambiguous write is waited for without a limit.
AmbiguityNeverExpires == FALSE

\* ... and gives up on it after 24 hours.
AmbiguityExpired == wf.age >= AmbiguityLimit

\* enrollParentAdd after its evidence: exact material is found, foreign
\* material refused, the CTID persisted, the one PUT prepared or waited for.
AddToParent ==
  CASE DomainDNSSEC = {wf.ksk} ->
         transition([wf EXCEPT !.evidence = FALSE], "enroll_wait_parent", 0)
    [] DomainDNSSEC \notin {{}, {wf.ksk}} -> block
    [] DomainDNSSEC = {} /\ ~wf.ctid ->
         transition([wf EXCEPT !.ctid = TRUE], "enroll_parent_add", 0)
    [] DomainDNSSEC = {} /\ wf.ctid /\ wf.tried -> AmbiguityExpired /\ block
    [] OTHER ->
         /\ wf' = WithRegistrarAttempt
         /\ call' = "ready"
         /\ UNCHANGED <<worldVars, bookVars>>

enrollParentAdd ==
  /\ Due("enroll_parent_add")
  /\ IF Drifted
     THEN block
     ELSE /\ EnrollmentEvidence
          /\ IF NoDSEvidence THEN AddToParent ELSE block

\* enrollParentAdd: a no-DS query that merely failed blocks as well.
NoDSProbeFails ==
  /\ faults < MaxFaults
  /\ Due("enroll_parent_add")
  /\ ~Drifted
  /\ EnrollmentEvidence
  /\ wf' = Blocked(wf)
  /\ faults' = faults + 1
  /\ UNCHANGED <<worldVars, zone, call, inflight, lastID, puts, edits>>

\* enrollWaitParent: the job, read from the registrar's material once it can
\* no longer be queried.
FollowJob ==
  CASE JobStatus = "failed" -> block
    [] OTHER ->
         /\ \/ JobStatus = "done"
            \/ JobStatus = "gone" /\ DomainDNSSEC = {wf.ksk}
         /\ transition([wf EXCEPT !.job = "done"], "enroll_wait_parent", 0)

\* Mutation: completion follows the first sight of the DS.
AwaitDSOnce ==
  /\ AuthoritativeDSEvidence(wf.ksk)
  /\ RecursiveEvidence
  /\ DSEvidence(wf.ksk)
  /\ IF DomainDNSSEC # {wf.ksk} THEN block ELSE complete

\* enrollWaitParent: see the DS at the parent, wait its TTL, prove everything
\* through the resolvers.
AwaitDS ==
  /\ AuthoritativeDSEvidence(wf.ksk)
  /\ IF ~wf.evidence
     THEN transition([wf EXCEPT !.evidence = TRUE], "enroll_wait_parent",
                     ParentWait)
     ELSE /\ RecursiveEvidence
          /\ DSEvidence(wf.ksk)
          /\ IF DomainDNSSEC # {wf.ksk} THEN block ELSE complete

enrollWaitParent ==
  /\ Due("enroll_wait_parent")
  /\ CASE Drifted -> block
       [] ~Drifted /\ wf.job = "open" -> FollowJob
       [] OTHER -> AwaitDS
-----------------------------------------------------------------------------
(* The PUT                                                                 *)

Send ==
  /\ call = "ready"
  /\ call' = "sent"
  /\ inflight' = inflight \cup {[key |-> wf.ksk, left |-> RequestLife]}
  /\ puts' = puts + 1
  /\ UNCHANGED <<worldVars, zone, wf, lastID, faults, edits>>

\* The registrar takes the PUT as a job, or applies it at once without one.
RegistrarAccepts(r) ==
  /\ \/ /\ registrar' = [registrar EXCEPT !.job = "pending", !.jobData = {r.key}]
        /\ call' = IF call = "sent" THEN "job" ELSE call
     \/ /\ registrar' = [registrar EXCEPT !.data = {r.key}]
        /\ call' = IF call = "sent" THEN "no_job" ELSE call
  /\ inflight' = inflight \ {r}
  /\ UNCHANGED <<keys, zoneTTL, secondary, lag, cache, parent, zone, wf,
                 lastID, puts, faults, edits>>

\* A request never arrives, or the registrar rejects it.
LoseRequest(r) ==
  /\ faults < MaxFaults
  /\ inflight' = inflight \ {r}
  /\ faults' = faults + 1
  /\ UNCHANGED <<worldVars, zone, wf, call, lastID, puts, edits>>

\* The call fails: a crash, a timeout, an error, or a state update that fails.
Abandon ==
  /\ call # "none"
  /\ \/ faults < MaxFaults /\ faults' = faults + 1
     \/ call = "sent" /\ inflight = {} /\ UNCHANGED faults
  /\ call' = "none"
  /\ UNCHANGED <<worldVars, zone, wf, inflight, lastID, puts, edits>>

\* enrollParentAdd with the answer: an acknowledgement without a job blocks.
PersistAnswer ==
  /\ call \in {"job", "no_job"}
  /\ call' = "none"
  /\ wf' = IF call = "no_job" THEN Blocked(wf)
           ELSE [wf EXCEPT !.phase = "enroll_wait_parent", !.next = 0,
                           !.evidence = FALSE, !.job = "open"]
  /\ UNCHANGED <<worldVars, bookVars>>
-----------------------------------------------------------------------------
(* Operators                                                               *)

Edit == edits < MaxEdits /\ edits' = edits + 1

\* Nobody replaces or removes a signing key from the last check before the PUT
\* on, or under material the registrar has.
Unannounced == call = "none" /\ inflight = {} /\ ~wf.tried /\ registrar.data = {}

\* DNSSEC is switched on for the zone, with separate keys or with one CSK.
EnableDNSSEC ==
  /\ Edit
  /\ ~zone.dnssec
  /\ zone' = [zone EXCEPT !.dnssec = TRUE]
  /\ \/ /\ Serve({NewKey(lastID + 1, "ksk", TRUE), NewKey(lastID + 2, "zsk", TRUE)},
                 zoneTTL, secondary)
        /\ lastID' = lastID + 2
     \/ /\ Serve({NewKey(lastID + 1, "csk", TRUE)}, zoneTTL, secondary)
        /\ lastID' = lastID + 1
  /\ UNCHANGED <<registrar, parent, wf, call, inflight, puts, faults>>

\* It is switched off, perhaps because the zone is created anew.
DisableDNSSEC ==
  /\ Edit
  /\ Unannounced /\ zone.dnssec
  /\ zone' \in {[zone EXCEPT !.dnssec = FALSE],
                [zone EXCEPT !.dnssec = FALSE, !.id = @ + 1]}
  /\ Serve({}, zoneTTL, secondary)
  /\ UNCHANGED <<registrar, parent, wf, call, inflight, lastID, puts, faults>>

\* A key is replaced before anything is announced; a key that does not sign
\* may appear at any time.
ReplaceKey ==
  /\ Edit
  /\ Unannounced
  /\ \E k \in keys :
       Serve((keys \ {k}) \cup {NewKey(lastID + 1, k.made, TRUE)}, zoneTTL, secondary)
  /\ lastID' = lastID + 1
  /\ UNCHANGED <<registrar, parent, zone, wf, call, inflight, puts, faults>>

AddKey ==
  /\ Edit
  /\ zone.dnssec
  /\ Serve(keys \cup {NewKey(lastID + 1, "zsk", FALSE)}, zoneTTL, secondary)
  /\ lastID' = lastID + 1
  /\ UNCHANGED <<registrar, parent, zone, wf, call, inflight, puts, faults>>

\* It is removed again: what an operator adds, he can take away.
RemoveAddedKey ==
  /\ \E k \in keys : ~k.active /\ Serve(keys \ {k}, zoneTTL, secondary)
  /\ UNCHANGED <<registrar, parent, zone, wf, call, inflight, lastID, puts,
                 faults, edits>>

\* The parent's NS set is corrected or changed, at any time.
Redelegate ==
  /\ Edit
  /\ Redelegated
  /\ UNCHANGED <<zone, wf, call, inflight, lastID, puts, faults>>

\* A restart with another configuration takes the zone out of scope.
Deselect ==
  /\ Edit
  /\ call = "none" /\ zone.selected
  /\ zone' = [zone EXCEPT !.selected = FALSE]
  /\ UNCHANGED <<worldVars, wf, call, inflight, lastID, puts, faults>>

\* Somebody publishes the KSK of a zone that is in order at a registrar that has
\* nothing, perhaps while the PUT is under way, or, before any attempt, something
\* else.  A domain with a job that runs takes no other change.
MaterialByHand ==
  /\ Edit
  /\ registrar.data = {} /\ registrar.job # "pending"
  /\ \E id \in {wf.ksk, Foreign} :
       /\ id # Foreign => ~Drifted /\ DelegationEvidence
       /\ id = Foreign => ~wf.tried
       /\ registrar' = [registrar EXCEPT !.data = {id}]
  /\ UNCHANGED <<keys, zoneTTL, secondary, lag, cache, parent, zone, wf, call,
                 inflight, lastID, puts, faults>>

Operator ==
  \/ EnableDNSSEC \/ DisableDNSSEC \/ ReplaceKey \/ AddKey \/ RemoveAddedKey
  \/ Redelegate \/ Deselect \/ MaterialByHand
-----------------------------------------------------------------------------
Controller ==
  \/ bootstrap \/ ZoneLost \/ ScopeLost
  \/ enrollDiscovered \/ enrollWaitPublish \/ enrollParentAdd \/ enrollWaitParent
  \/ Send \/ PersistAnswer

World ==
  \/ SecondarySync \/ RegistrarApplies \/ RegistrarFails
  \/ RegistrarForgetsJob \/ ParentPublishes \/ ParentSync

WorldStep == World /\ UNCHANGED <<wf, call, bookVars>>

Elapse ==
  /\ \A r \in inflight : r.left > 0
  /\ WorldElapses
  /\ inflight' = {[r EXCEPT !.left = @ - 1] : r \in inflight}
  /\ wf' = [wf EXCEPT !.next = IF @ > 0 THEN @ - 1 ELSE 0,
                      !.age = IF wf.tried /\ @ < AmbiguityLimit THEN @ + 1 ELSE @]
  /\ UNCHANGED <<zone, call, lastID, puts, faults, edits>>

Next ==
  \/ Controller
  \/ NoDSProbeFails
  \/ \E r \in inflight : RegistrarAccepts(r) \/ LoseRequest(r)
  \/ Abandon
  \/ Operator
  \/ WorldStep
  \/ Elapse

Spec == Init /\ [][Next]_vars

\* Tick runs at every reconcile interval, servers and services make progress.
FairSpec ==
  /\ Spec
  /\ WF_vars(Controller)
  /\ WF_vars(\E r \in inflight : RegistrarAccepts(r))
  /\ WF_vars(Abandon /\ UNCHANGED faults)
  /\ WF_vars(SecondarySync /\ UNCHANGED <<wf, call, bookVars>>)
  /\ WF_vars((RegistrarApplies \/ RegistrarFails) /\ UNCHANGED <<wf, call, bookVars>>)
  /\ WF_vars(ParentPublishes /\ UNCHANGED <<wf, call, bookVars>>)
  /\ WF_vars(ParentSync /\ UNCHANGED <<wf, call, bookVars>>)
  /\ WF_vars(Elapse)
-----------------------------------------------------------------------------
(* Properties                                                              *)

TypeOK ==
  /\ WorldTypeOK
  /\ zone \in [dnssec : BOOLEAN, id : Nat, selected : BOOLEAN]
  /\ wf \in EnrollWorkflow
  /\ call \in {"none", "ready", "sent", "job", "no_job"}
  /\ inflight \in SUBSET Request
  /\ lastID \in Nat
  /\ puts \in Nat
  /\ faults \in 0..MaxFaults
  /\ edits \in 0..MaxEdits

\* A zone is announced to the registrar at most once in its whole life, over
\* every crash, lost answer, re-creation and restart: the attempt is on disk
\* before the PUT, and an enrollment that ended is never begun again.
OneWrite == puts <= 1

\* Once the controller has announced the zone, no resolver with any mixture of
\* cached and fresh RRsets finds it bogus, unsigned copies from before the
\* enrollment included.
AnnouncedZoneValidates == puts > 0 => ChainOfTrust

\* An enrollment that ended in success is what a KSK or ZSK rotation may start
\* from: registrar and parent have exactly its KSK, a job that still runs brings
\* nothing else, and, where the controller wrote the DS itself, every DNSKEY set
\* in use has both keys, every signature in use is by its ZSK and no cache lacks
\* the DS.
EnrolledIsProven ==
  wf.disposition = "enrolled" =>
    /\ registrar.data = {wf.ksk}
    /\ registrar.job = "pending" => registrar.jobData = {wf.ksk}
    /\ parent.fast = {wf.ksk}
    /\ puts > 0 =>
         /\ \A v \in DnskeyVersions : {wf.ksk, wf.zsk} \subseteq v.keys /\ wf.ksk \in v.sig
         /\ \A v \in ZoneVersions : wf.zsk \in v.sig
         /\ DSVersions = {{wf.ksk}}

\* What only people can help with: a keyset that is not clean yet, and a job
\* that failed unseen.
AwaitsCleanKeys == wf.phase = "enroll_discovered" /\ wf.ksk = 0 /\ CleanPairs = {}
JobLost == wf.job = "open" /\ registrar.job = "gone" /\ registrar.data # {wf.ksk}

\* A discovered zone is enrolled, declared ineligible or blocked, unless its
\* keys are never finished, it is not delegated as configured, or its job
\* failed unseen: no lost answer or crash leaves it waiting for ever.
EnrollmentEnds ==
  Active ~> \/ wf.phase \in {"idle", "blocked"}
            \/ AwaitsCleanKeys \/ ~DelegationEvidence \/ JobLost
=============================================================================
