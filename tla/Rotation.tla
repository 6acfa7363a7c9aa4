------------------------------ MODULE Rotation ------------------------------
(***************************************************************************)
(* The zsk, ksk and split workflows of internal/controller for one zone,   *)
(* against the world of module DNSWorld.                                   *)
(*                                                                         *)
(* `wf' is the persisted model.Workflow.  A handler that only reads and    *)
(* then persists is one step.  A handler that writes to PowerDNS or the    *)
(* registrar is several: it checks its evidence and, where the code does,  *)
(* persists its intent; the request travels; the service applies it; the   *)
(* answer comes back and the next phase is persisted.  `call' is the only  *)
(* thing the controller keeps in memory, so a crash and restart, a timed   *)
(* out request and a state update that fails all come to losing it.        *)
(*                                                                         *)
(* recordRetry is not a step: it only sets Attempts, LastError and a later *)
(* NextActionAt, and a handler may be run arbitrarily late here anyway.    *)
(* NextActionAt is kept as the time left until it (`next'), EvidenceAt and *)
(* the *AttemptedAt stamps as whether they are set, RegistrarAttemptedAt   *)
(* with its age as well.                                                   *)
(***************************************************************************)
EXTENDS Waits

CONSTANTS
  Kinds,              \* the workflow kinds that may be started
  InitialZones,       \* the kinds of zone the controller may start from
  MinimumZoneTTL,     \* the floor of maxTTL
  MaxRotations,       \* bound: workflows started
  MaxFaults,          \* bound: calls lost, requests lost, probes failed
  MaxStrays           \* bound: keys an operator adds on the side

ASSUME RotationAssumptions ==
  /\ Kinds \subseteq {"zsk", "ksk", "split"}
  /\ MinimumZoneTTL \in Nat
  /\ MaxRotations \in Nat /\ MaxFaults \in Nat /\ MaxStrays \in Nat

ASSUME ZonesAssumption == InitialZones \subseteq {"split", "csk", "unsigned csk"}

VARIABLES
  wf,         \* the persisted workflow
  call,       \* the write the running handler is waiting for
  inflight,   \* requests that have left the controller
  lastID,     \* the highest key identifier PowerDNS has given out
  stray,      \* the key an operator added on the side, 0 if none
  sent,       \* history: non-idempotent requests sent by this workflow
  rotations, faults, strays   \* what the bounds count

vars == <<worldVars, wf, call, inflight, lastID, stray, sent,
          rotations, faults, strays>>

OnceOps == {"create_key", "create_zsk", "update_dnssec"}
Ops == OnceOps \cup {"activate", "deactivate", "delete"}

Phases == {"idle", "prepublish", "wait_publish", "activate_new",
           "wait_new_signature", "deactivate_old", "parent_remove",
           "wait_parent_remove", "wait_retire", "delete_old", "blocked"}

IdleWorkflow ==
  [kind |-> "none", phase |-> "idle", old |-> 0, new |-> 0, zsk |-> 0,
   keyTried |-> FALSE, zskTried |-> FALSE, next |-> 0, evidence |-> FALSE,
   zoneTTL |-> 0, ctid |-> FALSE, tried |-> FALSE, age |-> 0,
   job |-> "none", mode |-> "none", attested |-> FALSE]

Workflow ==
  [kind : {"none", "zsk", "ksk", "split"}, phase : Phases,
   old : Nat, new : Nat, zsk : Nat, keyTried : BOOLEAN, zskTried : BOOLEAN,
   next : Nat, evidence : BOOLEAN, zoneTTL : Nat, ctid : BOOLEAN,
   tried : BOOLEAN, age : 0..AmbiguityLimit, job : {"none", "open", "done"},
   mode : {"none", "existing", "initial"}, attested : BOOLEAN]

NoCall == [op |-> "none", key |-> 0, stage |-> "none", reply |-> 0]
Call == {NoCall} \cup [op : Ops, key : Nat,
                       stage : {"ready", "sent", "answered"}, reply : Nat]
Request == [op : Ops, key : Nat, made : {"ksk", "zsk"}, left : Nat]

\* The zones a rotation may find: key 1 signs the DNSKEY RRset, and the
\* parent announces it unless the zone is not delegated securely.
InitialKeys(z) ==
  IF z = "split" THEN {NewKey(1, "ksk", TRUE), NewKey(2, "zsk", TRUE)}
  ELSE {NewKey(1, "csk", TRUE)}
InitialDS(z) == IF z = "unsigned csk" THEN {} ELSE {1}

Init ==
  /\ \E z \in InitialZones :
       /\ WorldInit(InitialKeys(z), InitialDS(z))
       /\ lastID = IF z = "split" THEN 2 ELSE 1
  /\ wf = IdleWorkflow
  /\ call = NoCall
  /\ inflight = {}
  /\ stray = 0
  /\ sent = [op \in OnceOps |-> 0]
  /\ rotations = 0 /\ faults = 0 /\ strays = 0
-----------------------------------------------------------------------------
Inventory == Listed(keys)

\* The largest TTL of GetZone's answer, at least a day.
maxTTL == maxDuration(zoneTTL, MinimumZoneTTL)

\* Mutation: a wait that forgets the TTL.
ZoneWaitWithoutTTL(ttl) == PropagationMargin

\* The waits of the signer phases.
ZoneWait(ttl) == ttl + PropagationMargin

InitialSplit == wf.kind = "split" /\ wf.mode = "initial"

\* advance: the phase's handler runs when NextActionAt has come.  Tick and
\* the operator's state-only operations share one mutex: none while a call
\* is out.
Due(phase) == call = NoCall /\ wf.phase = phase /\ wf.next = 0

bookVars == <<inflight, lastID, stray, sent, rotations, faults, strays>>

\* One store.Update of the workflow and nothing else.
Persist(w) ==
  /\ wf' = w
  /\ UNCHANGED <<worldVars, call, bookVars>>

transition(w, phase, wait) == Persist([w EXCEPT !.phase = phase, !.next = wait])

block == Persist([wf EXCEPT !.phase = "blocked", !.next = 0])

\* The role a key creation asks for: the one of its slot.
MadeFor(op) == IF op = "create_zsk" \/ wf.kind = "zsk" THEN "zsk" ELSE "ksk"

Req(op, key) ==
  [op |-> op, key |-> key, made |-> MadeFor(op), left |-> RequestLife]

\* The handler issues a request; the workflow is persisted as w before.
Issue(w, op, key, stage) ==
  /\ wf' = w
  /\ call' = [op |-> op, key |-> key, stage |-> stage, reply |-> 0]
  /\ inflight' = IF stage = "ready" THEN inflight
                 ELSE inflight \cup {Req(op, key)}
  /\ UNCHANGED <<worldVars, lastID, stray, sent, rotations, faults, strays>>
-----------------------------------------------------------------------------
(* Starting a rotation                                                     *)

\* start: the zone's workflow record, idle until now, enters its first phase.
start(kind) ==
  /\ wf.phase = "idle"
  /\ wf' = [wf EXCEPT !.kind = kind, !.phase = "prepublish", !.next = 0]

\* Trigger, or reconcileZone when the interval of a kind has passed: the keys
\* must have the scheme the kind needs.
Trigger(kind) ==
  /\ call = NoCall
  /\ rotations < MaxRotations
  /\ keyScheme(Inventory) = IF kind = "split" THEN "csk" ELSE "split"
  /\ start(kind)
  /\ rotations' = rotations + 1
  /\ UNCHANGED <<worldVars, call, inflight, lastID, stray, sent, faults, strays>>

\* reconcileZone: an idle zone without a recognised key scheme.
BlockUnknownScheme ==
  /\ call = NoCall
  /\ wf.phase = "idle"
  /\ keyScheme(Inventory) = "unknown"
  /\ Persist([wf EXCEPT !.kind = "zsk", !.phase = "blocked"])

\* prepublish: record the one active key of the role.
RecordOld(typ) ==
  IF exactlyOneActive(Inventory, typ)
  THEN \E k \in ActiveOf(Inventory, typ) :
         transition([wf EXCEPT !.old = k.id], "prepublish", 0)
  ELSE block

\* prepublish: a split finds out whether the parent already has the CSK.
ClassifyParent ==
  CASE DomainDNSSEC = {wf.old} ->
         transition([wf EXCEPT !.mode = "existing"], "prepublish", 0)
    [] DomainDNSSEC = {} ->
         /\ NoDSEvidence
         /\ transition([wf EXCEPT !.mode = "initial"], "prepublish", 0)
    [] OTHER -> block

\* The workflow once a slot has its key: a split goes on to its ZSK.
WithNewKey(id) ==
  IF wf.kind = "split" THEN [wf EXCEPT !.new = id, !.next = 0]
  ELSE [wf EXCEPT !.new = id, !.phase = "wait_publish", !.next = 0,
                  !.evidence = FALSE]

WithNewZSK(id) ==
  [wf EXCEPT !.zsk = id, !.phase = "wait_publish", !.next = 0,
             !.evidence = FALSE]

With(op, id) == IF op = "create_zsk" THEN WithNewZSK(id) ELSE WithNewKey(id)

\* Mutation: the attempt is not recorded.
WithoutAttempt(op) == wf

\* recordCreateAttempt
WithAttempt(op) ==
  IF op = "create_zsk" THEN [wf EXCEPT !.zskTried = TRUE]
                       ELSE [wf EXCEPT !.keyTried = TRUE]

CreateTried(op) == IF op = "create_zsk" THEN wf.zskTried ELSE wf.keyTried

\* A foreign key that fills a slot belongs to the zone from now on.
Adopt(w, id) ==
  /\ wf' = w
  /\ stray' = IF id = stray THEN 0 ELSE stray
  /\ UNCHANGED <<worldVars, call, inflight, lastID, sent, rotations, faults, strays>>

\* adoptOrCreate for one slot: adopt the single candidate, else persist the
\* attempt before the only POST this slot will ever see.
adoptOrCreate(typ, active, otherSlot, op) ==
  LET split == wf.kind = "split"
      candidates == Candidates(Inventory, wf, typ, active, split)
  IN /\ ~AdoptRefused(Inventory, wf, typ, active, split, otherSlot, Algorithm)
     /\ \/ \E k \in candidates : Adopt(With(op, k.id), k.id)
        \/ /\ candidates = {}
           /\ ~CreateTried(op)
           /\ Issue(WithAttempt(op), op, 0, "ready")

\* prepublish: the old key, for a split the parent's state, then the
\* replacement key, active unless it is a ZSK, and a split's inactive ZSK.
prepublish ==
  LET split == wf.kind = "split"
  IN /\ Due("prepublish")
     /\ CASE wf.old = 0 -> RecordOld(IF split THEN "csk" ELSE wf.kind)
          [] wf.old # 0 /\ ~HasKey(keys, wf.old) -> block
          [] OTHER ->
               CASE split /\ wf.mode = "none" -> ClassifyParent
                 [] (split => wf.mode # "none") /\ wf.new = 0 ->
                      adoptOrCreate(IF split THEN "ksk" ELSE wf.kind,
                                    wf.kind # "zsk", wf.zsk, "create_key")
                 [] split /\ wf.new # 0 /\ wf.zsk = 0 ->
                      adoptOrCreate("zsk", FALSE, wf.new, "create_zsk")
                 [] OTHER ->
                      transition([wf EXCEPT !.evidence = FALSE], "wait_publish", 0)
-----------------------------------------------------------------------------
(* Publication                                                             *)

DNSKEYsVisible ==
  IF InitialSplit THEN AuthoritativeDNSKEYEvidence(publishedKeys(Inventory))
  ELSE DNSKEYEvidence(publishedKeys(Inventory))

SignsDNSKEYs(id) ==
  IF InitialSplit THEN AuthoritativeDNSKEYRRSIGBy(id) ELSE DNSKEYRRSIGBy(id)

\* waitPublish: see the exact DNSKEY set (and both key signatures) on every
\* path, wait its TTL, see it again.
waitPublish ==
  /\ Due("wait_publish")
  /\ IF ~validatePrepublishInventory(Inventory, wf)
     THEN block
     ELSE /\ DNSKEYsVisible
          /\ wf.kind # "zsk" => SignsDNSKEYs(wf.old) /\ SignsDNSKEYs(wf.new)
          /\ IF ~wf.evidence
             THEN transition([wf EXCEPT !.evidence = TRUE], "wait_publish",
                             PublishWait)
             ELSE transition([wf EXCEPT !.evidence = FALSE],
                    IF wf.kind = "zsk" THEN "activate_new" ELSE "parent_remove", 0)
-----------------------------------------------------------------------------
(* The parent                                                              *)

\* parentReplace: the CTID is persisted in a step of its own.
RecordCTID ==
  /\ Due("parent_remove")
  /\ ~wf.ctid
  /\ transition([wf EXCEPT !.ctid = TRUE], "parent_remove", 0)

\* parentReplace: inventory and evidence are proven again before the read
\* of the registrar.
ReadyForParent ==
  /\ Due("parent_remove")
  /\ wf.ctid
  /\ recordedKeys(Inventory, wf.old, wf.new)

ParentEvidence ==
  /\ DNSKEYsVisible
  /\ SignsDNSKEYs(wf.new)
  /\ wf.kind = "split" =>
       IF InitialSplit THEN AuthoritativeRRSIGBy(wf.old) ELSE RRSIGBy(wf.old)

\* The registrar has what the workflow found there when it started.
RegistrarUnchanged ==
  IF InitialSplit THEN DomainDNSSEC = {} /\ NoDSEvidence
  ELSE DomainDNSSEC = {wf.old}

\* parentReplace persists RegistrarAttemptedAt before the PUT ...
WithRegistrarAttempt == [wf EXCEPT !.tried = TRUE, !.age = 0]

\* Mutation: an ambiguous write is waited for without a limit.
AmbiguityNeverExpires == FALSE

\* ... and gives up on it after 24 hours.
AmbiguityExpired == wf.age >= AmbiguityLimit

\* parentReplace: new material is already there, or the one PUT is made, or
\* an earlier PUT is waited for, up to a limit.
parentReplace ==
  /\ ReadyForParent
  /\ IF ~validatePrepublishInventory(Inventory, wf)
     THEN block
     ELSE /\ ParentEvidence
          /\ CASE DomainDNSSEC = {wf.new} ->
                    transition([wf EXCEPT !.evidence = FALSE],
                               "wait_parent_remove", 0)
               [] DomainDNSSEC # {wf.new} /\ ~RegistrarUnchanged -> block
               [] OTHER ->
                    IF wf.tried
                    THEN AmbiguityExpired /\ block
                    ELSE Issue(WithRegistrarAttempt, "update_dnssec", wf.new,
                               "ready")

\* parentReplace: an initial split takes any error of NoDSEvidence, a failed
\* query too, for a DS that has appeared.
NoDSProbeFails ==
  /\ faults < MaxFaults
  /\ ReadyForParent
  /\ InitialSplit
  /\ validatePrepublishInventory(Inventory, wf)
  /\ ParentEvidence
  /\ DomainDNSSEC = {}
  /\ wf' = [wf EXCEPT !.phase = "blocked", !.next = 0]
  /\ faults' = faults + 1
  /\ UNCHANGED <<worldVars, call, inflight, lastID, stray, sent, rotations, strays>>

\* waitParentReplace: a split whose inventory drifted is given up.
SplitDrifted ==
  wf.kind = "split" /\ ~validatePrepublishInventory(Inventory, wf)

InService(id) == \E k \in keys : k.id = id /\ k.active /\ k.published
IsActive(id) == \E k \in keys : k.id = id /\ k.active

\* waitParentReplace: the job is followed until it is known to have
\* succeeded, from its status or from the registrar's material once it can
\* no longer be queried.
FollowJob ==
  CASE JobStatus = "failed" -> block
    [] OTHER ->
         /\ \/ JobStatus = "done"
            \/ JobStatus = "gone" /\ DomainDNSSEC = {wf.new}
         /\ transition([wf EXCEPT !.job = "done"], "wait_parent_remove", 0)

\* waitParentReplace: see the new DS at the parent, wait its TTL, see it
\* through every resolver and the new KSK in service.
AwaitDS ==
  /\ AuthoritativeDSEvidence(wf.new)
  /\ IF ~wf.evidence
     THEN transition([wf EXCEPT !.evidence = TRUE], "wait_parent_remove",
                     ParentWait)
     ELSE /\ DSEvidence(wf.new)
          /\ IF ~InService(wf.new)
             THEN block
             ELSE /\ DNSKEYEvidence(publishedKeys(Inventory))
                  /\ DNSKEYRRSIGBy(wf.new)
                  /\ transition([wf EXCEPT !.evidence = FALSE],
                       IF wf.kind = "split" THEN "activate_new"
                                            ELSE "deactivate_old", 0)

waitParentReplace ==
  /\ Due("wait_parent_remove")
  /\ CASE SplitDrifted -> block
       [] ~SplitDrifted /\ wf.job = "open" ->
            recordedKeys(Inventory, wf.old, wf.new) /\ FollowJob
       [] OTHER ->
            recordedKeys(Inventory, wf.old, wf.new) /\ AwaitDS
-----------------------------------------------------------------------------
(* Switching the signer                                                    *)

NewSigner == IF wf.kind = "split" THEN wf.zsk ELSE wf.new

\* activateNew
activateNew ==
  /\ Due("activate_new")
  /\ IF \/ /\ wf.kind = "split"
           /\ ~validatePrepublishInventory(Inventory, wf)
           /\ ~validateActiveSplitInventory(Inventory, wf)
        \/ ~HasKey(keys, NewSigner)
     THEN block
     ELSE IF IsActive(NewSigner)
          THEN transition([wf EXCEPT !.evidence = FALSE], "wait_new_signature", 0)
          ELSE Issue(wf, "activate", NewSigner, "sent")

\* validateSplitSignerTransitionEvidence
SignerTransitionEvidence ==
  /\ validateActiveSplitInventory(Inventory, wf)
  /\ ExactSplitLabels(Inventory, wf)
  /\ DomainDNSSEC = {wf.new}
  /\ AuthoritativeDSEvidence(wf.new) /\ DSEvidence(wf.new)
  /\ DNSKEYEvidence(publishedKeys(Inventory))
  /\ DNSKEYRRSIGBy(wf.new)
  /\ RRSIGBy(wf.zsk)
  /\ DelegationEvidence

\* waitNewSignature, deactivateOld: the zone TTL has grown since the
\* attestation; it is waited for once more.
AttestAgain ==
  transition([wf EXCEPT !.zoneTTL = maxTTL, !.evidence = TRUE],
             "wait_new_signature", ZoneWait(maxTTL))

\* waitNewSignature: the new signature is seen everywhere; remember the zone
\* TTL; a split keeps both signatures for that long, by the overlap it
\* observes or by the operator's attestation.
SignatureSeen ==
  CASE ~InService(NewSigner) -> block
    [] InService(NewSigner) /\ wf.zoneTTL = 0 ->
         transition([wf EXCEPT !.zoneTTL = maxTTL], "wait_new_signature", 0)
    [] OTHER ->
         /\ wf.kind = "split" =>
              IF wf.attested THEN SignerTransitionEvidence ELSE RRSIGBy(wf.old)
         /\ CASE wf.kind = "split" /\ ~wf.attested /\ ~wf.evidence ->
                   transition([wf EXCEPT !.evidence = TRUE],
                              "wait_new_signature", ZoneWait(wf.zoneTTL))
              [] wf.attested /\ maxTTL > wf.zoneTTL -> AttestAgain
              [] OTHER ->
                   transition([wf EXCEPT !.evidence = FALSE], "deactivate_old", 0)

waitNewSignature ==
  /\ Due("wait_new_signature")
  /\ recordedKeys(Inventory, wf.old, wf.new)
  /\ IF ~HasKey(keys, NewSigner)
     THEN block
     ELSE RRSIGBy(NewSigner) /\ SignatureSeen

\* deactivateOld: the evidence that must hold when the old key is switched off.
DeactivationEvidence ==
  /\ IF wf.kind = "zsk" THEN RRSIGBy(wf.new)
     ELSE DNSKEYRRSIGBy(wf.new) /\ DSEvidence(wf.new)
  /\ wf.kind = "split" => RRSIGBy(wf.zsk)
  /\ DNSKEYEvidence(publishedKeys(Inventory))

\* deactivateOld: wait out a TTL that grew, then switch the old key off.
SwitchOff ==
  /\ DeactivationEvidence
  /\ CASE wf.kind # "ksk" /\ maxTTL > wf.zoneTTL ->
            transition([wf EXCEPT !.zoneTTL = maxTTL, !.evidence = TRUE],
                       "deactivate_old", ZoneWait(maxTTL))
       [] ~(wf.kind # "ksk" /\ maxTTL > wf.zoneTTL) /\ IsActive(wf.old) ->
            Issue(wf, "deactivate", wf.old, "sent")
       [] OTHER ->
            IF wf.kind = "ksk" THEN transition(wf, "delete_old", 0)
            ELSE transition(wf, "wait_retire", ZoneWait(wf.zoneTTL))

\* deactivateOld: a split must be in the exact state before or after the
\* switch, and an attested one proves its whole transition once more.
deactivateOld ==
  LET split == wf.kind = "split"
      before == validateActiveSplitInventory(Inventory, wf)
      after == validateDeactivatedSplitInventory(Inventory, wf)
  IN /\ Due("deactivate_old")
     /\ IF split /\ ~before /\ ~after
        THEN block
        ELSE /\ wf.attested /\ before => SignerTransitionEvidence
             /\ IF wf.attested /\ before /\ maxTTL > wf.zoneTTL
                THEN AttestAgain
                ELSE /\ recordedKeys(Inventory, wf.old, wf.new)
                     /\ IF ~InService(wf.new) THEN block ELSE SwitchOff

\* Mutation: a phase that advance does not know.
waitRetireToUnknownPhase ==
  /\ Due("wait_retire")
  /\ transition(wf, "retired", 0)

\* waitRetire
waitRetire ==
  /\ Due("wait_retire")
  /\ recordedKeys(Inventory, wf.old, wf.new)
  /\ IF ~HasKey(keys, NewSigner)
     THEN block
     ELSE RRSIGBy(NewSigner) /\ transition(wf, "delete_old", 0)
-----------------------------------------------------------------------------
(* Retiring the old key                                                    *)

\* complete: a fresh idle record; the outbox event is left to the outbox.
complete ==
  /\ wf' = IdleWorkflow
  /\ sent' = [op \in OnceOps |-> 0]

\* deleteOld compares the published set with the keys it expects: the whole
\* inventory of an ordinary rotation, the recorded keys of a split.
ExpectedDNSKEYs ==
  IF wf.kind = "split"
  THEN {wf.new, wf.zsk} \cup {k.id : k \in {x \in keys : x.id = wf.old}}
  ELSE publishedKeys(Inventory)

\* deleteOld: what is refused at once, what is waited for, and what is
\* refused after that, in the order of the code.
ReplacementInService ==
  /\ InService(wf.new)
  /\ wf.kind # "split" => retirementInventory(Inventory, wf)

ReplacementTrusted ==
  wf.kind # "zsk" => /\ DNSKEYRRSIGBy(wf.new)
                     /\ DSEvidence(wf.new)
                     /\ AuthoritativeDSEvidence(wf.new)

\* Mutation: the workflow is completed before the DELETE is answered.
RemoveOldUnanswered ==
  /\ DNSKEYEvidence(ExpectedDNSKEYs)
  /\ ~IsActive(wf.old)
  /\ complete
  /\ inflight' = inflight \cup {Req("delete", wf.old)}
  /\ UNCHANGED <<worldVars, call, lastID, stray, rotations, faults, strays>>

\* deleteOld: delete the recorded key, or find it gone and finish.
RemoveOld ==
  /\ DNSKEYEvidence(ExpectedDNSKEYs)
  /\ CASE IsActive(wf.old) -> block
       [] ~IsActive(wf.old) /\ HasKey(keys, wf.old) ->
            Issue(wf, "delete", wf.old, "sent")
       [] OTHER ->
            /\ complete
            /\ UNCHANGED <<worldVars, call, inflight, lastID, stray,
                           rotations, faults, strays>>

deleteOld ==
  LET split == wf.kind = "split"
  IN /\ Due("delete_old")
     /\ IF ~ReplacementInService
        THEN block
        ELSE /\ ReplacementTrusted
             /\ IF split /\ ~InService(wf.zsk)
                THEN block
                ELSE /\ wf.kind # "ksk" => RRSIGBy(NewSigner)
                     /\ IF split /\ DomainDNSSEC # {wf.new}
                        THEN block
                        ELSE RemoveOld
-----------------------------------------------------------------------------
(* The calls                                                               *)

\* The request of a persisted intent leaves the controller.
Send ==
  /\ call.stage = "ready"
  /\ call' = [call EXCEPT !.stage = "sent"]
  /\ inflight' = inflight \cup {Req(call.op, call.key)}
  /\ sent' = [sent EXCEPT ![call.op] = @ + 1]
  /\ UNCHANGED <<worldVars, wf, lastID, stray, rotations, faults, strays>>

Answered(r, reply) ==
  IF call.stage = "sent" /\ call.op = r.op /\ call.key = r.key
  THEN [call EXCEPT !.stage = "answered", !.reply = reply]
  ELSE call

\* PowerDNS: POST, PUT and DELETE on cryptokeys.
KeysAfter(r) ==
  CASE r.op \in {"create_key", "create_zsk"} ->
         keys \cup {NewKey(lastID + 1, r.made, r.made = "ksk")}
    [] r.op = "delete" -> {k \in keys : k.id # r.key}
    [] OTHER -> {IF k.id = r.key THEN [k EXCEPT !.active = (r.op = "activate")]
                                 ELSE k : k \in keys}

PowerDNSApplies(r) ==
  LET creates == r.op \in {"create_key", "create_zsk"}
  IN /\ r.op # "update_dnssec"
     /\ Serve(KeysAfter(r), zoneTTL, secondary)
     /\ lastID' = IF creates THEN lastID + 1 ELSE lastID
     /\ call' = Answered(r, IF creates THEN lastID + 1 ELSE 0)
     /\ inflight' = inflight \ {r}
     /\ UNCHANGED <<wf, registrar, parent, stray, sent, rotations, faults, strays>>

\* The registrar takes the PUT as a job, or applies it at once without one.
RegistrarAccepts(r) ==
  /\ r.op = "update_dnssec"
  /\ \/ /\ registrar' = [registrar EXCEPT !.job = "pending", !.jobData = {r.key}]
        /\ call' = Answered(r, 1)
     \/ /\ registrar' = [registrar EXCEPT !.data = {r.key}]
        /\ call' = Answered(r, 0)
  /\ inflight' = inflight \ {r}
  /\ UNCHANGED <<keys, zoneTTL, secondary, lag, cache, parent, wf, lastID,
                 stray, sent, rotations, faults, strays>>

\* A request never arrives, or the service rejects it.
LoseRequest(r) ==
  /\ faults < MaxFaults
  /\ inflight' = inflight \ {r}
  /\ faults' = faults + 1
  /\ UNCHANGED <<worldVars, wf, call, lastID, stray, sent, rotations, strays>>

\* The controller crashes and restarts, gives up waiting, or fails to persist
\* the answer: the next Tick starts from the persisted workflow.
Abandon ==
  /\ call # NoCall
  /\ \/ faults < MaxFaults /\ faults' = faults + 1
     \/ /\ call.stage = "sent"
        /\ ~\E r \in inflight : r.op = call.op /\ r.key = call.key
        /\ UNCHANGED faults
  /\ call' = NoCall
  /\ UNCHANGED <<worldVars, wf, inflight, lastID, stray, sent, rotations, strays>>

\* The handler continues with the answer and persists its last transition.
AfterAnswer ==
  CASE call.op \in {"create_key", "create_zsk"} -> With(call.op, call.reply)
    [] call.op = "update_dnssec" ->
         [wf EXCEPT !.phase = "wait_parent_remove", !.next = 0,
                    !.evidence = FALSE,
                    !.job = IF call.reply = 1 THEN "open" ELSE "none"]
    [] call.op = "activate" ->
         [wf EXCEPT !.phase = "wait_new_signature", !.next = 0, !.evidence = FALSE]
    [] OTHER ->
         IF wf.kind = "ksk" THEN [wf EXCEPT !.phase = "delete_old", !.next = 0]
         ELSE [wf EXCEPT !.phase = "wait_retire",
                         !.next = ZoneWait(wf.zoneTTL)]

PersistAnswer ==
  /\ call.stage = "answered"
  /\ call' = NoCall
  /\ IF call.op = "delete" THEN complete
     ELSE wf' = AfterAnswer /\ UNCHANGED sent
  /\ UNCHANGED <<worldVars, inflight, lastID, stray, rotations, faults, strays>>
-----------------------------------------------------------------------------
(* The operator                                                            *)

\* A key made outside the controller: an inactive ZSK or an active KSK.
StrayKeyAppears ==
  /\ strays < MaxStrays
  /\ \E made \in {"zsk", "ksk"} :
       Serve(keys \cup {NewKey(lastID + 1, made, made = "ksk")}, zoneTTL, secondary)
  /\ lastID' = lastID + 1
  /\ stray' = lastID + 1
  /\ strays' = strays + 1
  /\ UNCHANGED <<registrar, parent, wf, call, inflight, sent, rotations, faults>>

\* It is removed again, unless a workflow has adopted it.
StrayKeyRemoved ==
  /\ stray # 0
  /\ Serve({k \in keys : k.id # stray}, zoneTTL, secondary)
  /\ stray' = 0
  /\ UNCHANGED <<registrar, parent, wf, call, inflight, lastID, sent,
                 rotations, faults, strays>>

\* Resume: a blocked initial split without any registrar attempt goes back
\* to wait_publish and proves publication from the start.
Resume ==
  /\ call = NoCall
  /\ wf.phase = "blocked"
  /\ wf.kind = "split" /\ wf.mode = "initial"
  /\ Distinct(wf)
  /\ ~wf.tried /\ ~wf.ctid /\ wf.job = "none"
  /\ validatePrepublishInventory(Inventory, wf)
  /\ DomainDNSSEC = {}
  /\ NoDSEvidence
  /\ transition([wf EXCEPT !.evidence = FALSE], "wait_publish", 0)

\* ReconcileSplitSignerTransition: the operator attests that PowerDNS moved
\* the old CSK to the KSK role; a full zone TTL is waited from now.
ReconcileSplitSignerTransition ==
  LET ttl == maxDuration(maxTTL, wf.zoneTTL)
  IN /\ call = NoCall
     /\ wf.phase = "wait_new_signature"
     /\ InitialSplit
     /\ Distinct(wf)
     /\ wf.tried /\ wf.ctid
     /\ ~wf.attested
     /\ SignerTransitionEvidence
     /\ transition([wf EXCEPT !.attested = TRUE, !.evidence = TRUE,
                              !.zoneTTL = ttl],
                   "wait_new_signature", ZoneWait(ttl))
-----------------------------------------------------------------------------
Controller ==
  \/ prepublish \/ waitPublish
  \/ RecordCTID \/ parentReplace \/ waitParentReplace
  \/ activateNew \/ waitNewSignature \/ deactivateOld \/ waitRetire \/ deleteOld
  \/ Send \/ PersistAnswer

\* A zone TTL above the floor of maxTTL is not lowered: the controller would
\* not wait for the signatures cached before.
World ==
  \/ SecondarySync \/ RegistrarApplies \/ RegistrarFails
  \/ RegistrarForgetsJob \/ ParentPublishes \/ ParentSync
  \/ ZoneEdited(MinimumZoneTTL) \/ Redelegated

WorldStep == World /\ UNCHANGED <<wf, call, bookVars>>

Deliver(r) == PowerDNSApplies(r) \/ RegistrarAccepts(r)

\* One unit of time; a request does not travel for longer than RequestLife.
Elapse ==
  /\ \A r \in inflight : r.left > 0
  /\ WorldElapses
  /\ inflight' = {[r EXCEPT !.left = @ - 1] : r \in inflight}
  /\ wf' = [wf EXCEPT !.next = IF @ > 0 THEN @ - 1 ELSE 0,
                      !.age = IF wf.tried /\ @ < AmbiguityLimit THEN @ + 1 ELSE @]
  /\ UNCHANGED <<call, lastID, stray, sent, rotations, faults, strays>>

Next ==
  \/ \E kind \in Kinds : Trigger(kind)
  \/ BlockUnknownScheme
  \/ Controller
  \/ NoDSProbeFails
  \/ \E r \in inflight : Deliver(r) \/ LoseRequest(r)
  \/ Abandon
  \/ StrayKeyAppears \/ StrayKeyRemoved
  \/ Resume \/ ReconcileSplitSignerTransition
  \/ WorldStep
  \/ Elapse

Spec == Init /\ [][Next]_vars

\* The services answer, servers catch up and the controller ticks: Tick runs
\* at every reconcile interval and a due handler whose evidence is there acts.
FairSpec ==
  /\ Spec
  /\ WF_vars(Controller)
  /\ WF_vars(\E r \in inflight : Deliver(r))
  /\ WF_vars(Abandon /\ UNCHANGED faults)
  /\ WF_vars(SecondarySync /\ UNCHANGED <<wf, call, bookVars>>)
  /\ WF_vars((RegistrarApplies \/ RegistrarFails) /\ UNCHANGED <<wf, call, bookVars>>)
  /\ WF_vars(ParentPublishes /\ UNCHANGED <<wf, call, bookVars>>)
  /\ WF_vars(ParentSync /\ UNCHANGED <<wf, call, bookVars>>)
  /\ WF_vars(Elapse)
-----------------------------------------------------------------------------
(* Properties                                                              *)

TypeOK ==
  /\ WorldTypeOK
  /\ wf \in Workflow
  /\ call \in Call
  /\ inflight \in SUBSET Request
  /\ lastID \in Nat
  /\ stray \in Nat
  /\ sent \in [OnceOps -> Nat]
  /\ rotations \in 0..MaxRotations
  /\ faults \in 0..MaxFaults
  /\ strays \in 0..MaxStrays

\* A workflow sends each key creation and the registrar write at most once,
\* whatever is lost, repeated or restarted: the attempt is on disk before the
\* request leaves (adoptOrCreate, parentReplace).
AtMostOnce == \A op \in OnceOps : sent[op] <= 1

\* The registrar holds or processes a DS only for a key that every DNSKEY
\* RRset in use, cached ones included, contains and is signed by: the parent
\* write waits for prepublication (waitPublish, parentReplace), and the old
\* key is withdrawn only after its DS (deactivateOld).
DSAnnouncedWhenUsable ==
  \A id \in registrar.data \cup
            (IF registrar.job = "pending" THEN registrar.jobData ELSE {}) :
    \A v \in DnskeyVersions : id \in v.keys \cap v.sig

\* Between rotations, and with no foreign key about, the zone has exactly one
\* KSK and one ZSK or one CSK, all in service, and the registrar names the
\* key that signs the DNSKEY set (if the parent is signed at all): complete
\* leaves nothing of the rotation behind, and no late request that could
\* still change the keys.
SettledZone ==
  wf.phase = "idle" /\ stray = 0 =>
    /\ \A r \in inflight : r.op \notin OnceOps /\ KeysAfter(r) = keys
    /\ keyScheme(Inventory) \in {"csk", "split"}
    /\ \A k \in keys : k.active /\ k.published
    /\ registrar.data # {} =>
         registrar.data = Signers(keys, {"ksk", "csk"})

\* The three key slots of a workflow never name one key twice, and a slot
\* that has been filled names a key that PowerDNS has until deleteOld removes
\* it, even when a foreign key was adopted (adoptOrCreate).
SlotsAreSound ==
  /\ \A a, b \in {"old", "new", "zsk"} :
       a # b /\ wf[a] # 0 => wf[a] # wf[b]
  /\ \A a \in {"new", "zsk"} : wf[a] # 0 => HasKey(keys, wf[a])
  /\ wf.old # 0 /\ wf.phase \notin {"delete_old", "blocked"} => HasKey(keys, wf.old)

\* A key creation whose request was lost: adoptOrCreate never repeats it.
CreateLost ==
  /\ wf.phase = "prepublish"
  /\ \/ wf.keyTried /\ wf.new = 0
     \/ wf.zskTried /\ wf.new # 0 /\ wf.zsk = 0
  /\ call = NoCall /\ inflight = {}

\* A job that failed and can no longer be queried.
JobLost == wf.job = "open" /\ registrar.job = "gone" /\ registrar.data # {wf.new}

\* PowerDNS took the old CSK out of the zone signatures on activation, and
\* the operator has not attested it.
AwaitsAttestation ==
  /\ wf.phase = "wait_new_signature"
  /\ wf.kind = "split" /\ ~wf.attested
  /\ ~RRSIGBy(wf.old)

\* A deactivation of the old CSK that was given up landed after deactivateOld
\* had gone back to wait for a larger zone TTL: the attested evidence asks
\* for an active CSK and now fails for ever.
SwitchedOffLate ==
  /\ wf.phase = "wait_new_signature" /\ wf.attested
  /\ ~IsActive(wf.old)

\* An attested split proves the delegation in every Tick until the old key is
\* switched off, and waits while the NS set is not the configured one.
AwaitsDelegation ==
  /\ wf.phase \in {"wait_new_signature", "deactivate_old"} /\ wf.attested
  /\ ~DelegationEvidence

\* A started rotation completes, or stops where only an operator can help: in
\* phase blocked, at a key creation that was lost, at a job that failed
\* unseen, at a signer transition to be attested, or at an attested one
\* whose old key was switched off late or whose delegation is not the
\* configured one.  No order of crashes, late answers and slow servers leaves
\* it waiting for anything else.
RotationEnds ==
  (wf.phase # "idle") ~> \/ wf.phase \in {"idle", "blocked"}
                         \/ CreateLost \/ JobLost
                         \/ AwaitsAttestation \/ SwitchedOffLate
                         \/ AwaitsDelegation

\* docs/spec.md: "Read failures retry and do not mutate."  A step that is
\* only a failed read leaves the workflow as it was.
ReadFailuresRetry ==
  [][faults' # faults /\ UNCHANGED <<call, inflight>> => UNCHANGED wf]_vars
=============================================================================
