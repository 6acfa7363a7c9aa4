------------------------------ MODULE Admission ------------------------------
(***************************************************************************)
(* Which workflow of which zone may run: Tick over the zones, bootstrap,   *)
(* Trigger, Resume and ArmEnrollment of internal/controller, on the state  *)
(* of internal/state.  What a workflow does once it may is in Rotation and *)
(* Enrollment; here advance lets it stay, complete or block.               *)
(*                                                                         *)
(* Tick, Resume and ArmEnrollment hold c.mu, Trigger does not: its reads   *)
(* and its Update fall between any two steps of the others.  A step is one *)
(* read of PowerDNS or of the state, or one store.Update.  A crash loses   *)
(* the running Tick and every request; a restart may come with another     *)
(* configuration.  Clients that got no answer repeat their request: any    *)
(* client may send any request at any time.                                *)
(***************************************************************************)
EXTENDS Naturals, FiniteSets

CONSTANTS
  Zones,
  Clients,        \* connections to the control socket
  RequestKeys,    \* idempotency keys of Trigger and Resume
  ArmKeys,        \* idempotency keys of ArmEnrollment
  RequestKinds,   \* the kinds clients ask for
  InitialScopes,  \* what the first configuration says of the zones, each of some zone
  MaxPending,     \* enrollment.max_pending
  MaxNewPerDay,   \* enrollment.max_new_per_day
  MaxChanges,     \* bound: changes made to zones at PowerDNS
  MaxCrashes      \* bound: restarts

ASSUME AdmissionAssumptions ==
  /\ RequestKinds \subseteq {"zsk", "ksk", "split"}
  /\ InitialScopes \subseteq {"out", "rotation", "enroll"}
  /\ MaxPending \in Nat /\ MaxNewPerDay \in Nat
  /\ MaxChanges \in Nat /\ MaxCrashes \in Nat

\* What ListZones returns.
ASSUME ZonesFinite == IsFiniteSet(Zones)

VARIABLES
  pdns,     \* per zone: is it signed, and its key scheme
  scope,    \* per zone, the configuration: out, rotation, or enroll as well
  wf,       \* per zone and kind, the persisted phase: absent, idle, active, blocked
  tried,    \* zones whose enrollment has a registrar attempt
  recent,   \* zones with an enrollment discovered less than 24 hours ago
  armed,    \* EnrollmentArmedAt is set
  idem,     \* Idempotency: what each key was used for
  tick,     \* who holds c.mu and where it is
  client,   \* per client: its request, and the answer it has
  waits,    \* per zone: requests older than its workflow
  baseline, \* history: zones that were signed when enrollment was armed
  admitted, \* history: zones whose enrollment was begun less than 24 hours ago
  acted,    \* history: Updates that started workflows, per key
  changes, crashes   \* what the bounds count

vars == <<pdns, scope, wf, tried, recent, armed, idem, tick, client, waits,
          baseline, admitted, acted, changes, crashes>>

IdemKeys == RequestKeys \cup ArmKeys
RotationKinds == {"zsk", "ksk", "split"}
AllKinds == RotationKinds \cup {"enroll"}
Schemes == {"split", "csk", "unknown"}
States == {"absent", "idle", "active", "blocked"}

NoRequest == [kind |-> "none", zones |-> {}]
TriggerRequest == [kind : RequestKinds, zones : (SUBSET Zones) \ {{}}]
ResumeRequest == [kind : {"resume", "reconcile-split-signer"}, zones : (SUBSET Zones) \ {{}}]
ArmRequest == [kind |-> "enrollment-arm", zones |-> {}]
Request == {NoRequest, ArmRequest} \cup TriggerRequest \cup ResumeRequest

NoClient == [stage |-> "none", request |-> NoRequest, key |-> "none"]
Free == [stage |-> "free", todo |-> {}, seen |-> {}, zone |-> "none",
         kind |-> "none", scheme |-> "none", key |-> "none"]

TickState ==
  [stage : {"free", "zones", "keys", "booted", "block", "advance", "start", "arming"},
   todo : SUBSET Zones, seen : SUBSET Zones, zone : Zones \cup {"none"},
   kind : AllKinds \cup {"none"}, scheme : Schemes \cup {"none"},
   key : ArmKeys \cup {"none"}]

ClientState ==
  [stage : {"none", "read", "ok", "refused"},
   request : {NoRequest} \cup TriggerRequest, key : IdemKeys \cup {"none"}]

ZoneState == [dnssec : BOOLEAN, scheme : Schemes]

TypeOK ==
  /\ pdns \in [Zones -> ZoneState]
  /\ scope \in [Zones -> {"out", "rotation", "enroll"}]
  /\ wf \in [Zones -> [AllKinds -> States]]
  /\ tried \subseteq Zones
  /\ recent \subseteq Zones
  /\ armed \in BOOLEAN
  /\ idem \in [IdemKeys -> Request]
  /\ tick \in TickState
  /\ client \in [Clients -> ClientState]
  /\ waits \in [Zones -> SUBSET Clients]
  /\ baseline \subseteq Zones
  /\ admitted \subseteq Zones
  /\ acted \in [IdemKeys -> 0..2]
  /\ changes \in 0..MaxChanges
  /\ crashes \in 0..MaxCrashes

Init ==
  /\ pdns \in [Zones -> [dnssec : BOOLEAN, scheme : {"split"}]]
  /\ scope \in [Zones -> InitialScopes]
  /\ {scope[z] : z \in Zones} = InitialScopes
  /\ wf = [z \in Zones |-> [k \in AllKinds |-> "absent"]]
  /\ tried = {} /\ recent = {} /\ armed = FALSE
  /\ idem = [k \in IdemKeys |-> NoRequest]
  /\ tick = Free
  /\ client = [c \in Clients |-> NoClient]
  /\ waits = [z \in Zones |-> {}]
  /\ baseline = {} /\ admitted = {}
  /\ acted = [k \in IdemKeys |-> 0]
  /\ changes = 0 /\ crashes = 0
-----------------------------------------------------------------------------
\* model.Workflow.Active: blocked workflows count.
IsActive(state) == state \in {"active", "blocked"}
ActiveKinds(z) == {k \in AllKinds : IsActive(wf[z][k])}

Signed == {z \in Zones : pdns[z].dnssec}

\* selected and selectedEnrollment: whoever enrolls a zone may rotate it.
selected(z) == scope[z] # "out"
selectedEnrollment(z) == scope[z] = "enroll"

\* The scheme a rotation kind needs.
SchemeFor(kind) == IF kind = "split" THEN "csk" ELSE "split"

Pending(c) == client[c].stage = "read"

\* A workflow takes days, a request seconds: it outlives the requests that
\* were under way when it started.
Older == {c \in Clients : Pending(c)}

diskVars == <<wf, tried, recent, armed, idem>>
historyVars == <<waits, baseline, admitted, acted, changes, crashes>>
-----------------------------------------------------------------------------
(* Tick                                                                    *)

\* Tick: ListZones and a snapshot.
TickBegin ==
  /\ tick.stage = "free"
  /\ tick' = [Free EXCEPT !.stage = "zones", !.seen = Signed,
       !.todo = {z \in Signed : selected(z) \/ IsActive(wf[z]["enroll"])}]
  /\ UNCHANGED <<pdns, scope, diskVars, client, historyVars>>

Skip(z) == [tick EXCEPT !.stage = "zones", !.todo = @ \ {z}, !.zone = "none",
                        !.kind = "none", !.scheme = "none"]

\* reconcileZone: ListKeys, which may fail.
ListKeys ==
  /\ tick.stage = "zones"
  /\ \E z \in tick.todo :
       tick' \in {[tick EXCEPT !.stage = "keys", !.zone = z,
                               !.scheme = pdns[z].scheme], Skip(z)}
  /\ UNCHANGED <<pdns, scope, diskVars, client, historyVars>>

\* bootstrap: idle records for the kinds the scheme allows.
WithRecords(kinds) ==
  [k \in AllKinds |-> IF k \in kinds /\ wf[tick.zone][k] = "absent" THEN "idle"
                      ELSE wf[tick.zone][k]]

SchemeKinds(scheme) ==
  CASE scheme = "split" -> {"zsk", "ksk"}
    [] scheme = "csk" -> {"split"}
    [] OTHER -> {}

\* Mutation: a blocked enrollment is tried again.
EligibleAfterBlock(z) ==
  wf[z]["enroll"] \in {"absent", "blocked"} /\ armed /\ selectedEnrollment(z)

\* bootstrap: a zone without an enroll record may become a candidate.
Eligible(z) ==
  wf[z]["enroll"] = "absent" /\ armed /\ selectedEnrollment(z)

\* Mutation: the breaker forgets the enrollments of the day that have ended.
BreakerOfPending ==
  LET pending == {z \in Zones : IsActive(wf[z]["enroll"])}
  IN \/ Cardinality(pending) >= MaxPending
     \/ Cardinality(recent \cap pending) >= MaxNewPerDay

\* bootstrap: the circuit breaker counts blocked enrollments as pending.
Breaker ==
  \/ Cardinality({z \in Zones : IsActive(wf[z]["enroll"])}) >= MaxPending
  \/ Cardinality(recent) >= MaxNewPerDay

\* bootstrap: one Update.
bootstrap ==
  LET z == tick.zone
      records == WithRecords(SchemeKinds(tick.scheme))
  IN /\ tick.stage = "keys"
     /\ CASE ~Eligible(z) ->
               wf' = [wf EXCEPT ![z] = records] /\ UNCHANGED <<recent, admitted>>
          [] Eligible(z) /\ tick.scheme = "csk" ->
               /\ wf' = [wf EXCEPT ![z] = [records EXCEPT !["enroll"] = "idle"]]
               /\ UNCHANGED <<recent, admitted>>
          [] OTHER ->
               /\ wf' = [wf EXCEPT ![z] = [records EXCEPT
                           !["enroll"] = IF Breaker THEN "blocked" ELSE "active"]]
               /\ recent' = recent \cup {z}
               /\ admitted' = IF Breaker THEN admitted ELSE admitted \cup {z}
     /\ tick' = [tick EXCEPT !.stage = "booted"]
     /\ UNCHANGED <<pdns, scope, tried, armed, idem, client, waits, baseline,
                    acted, changes, crashes>>

\* reconcileZone: with one active workflow, an enrollment that lost its scope
\* before the write is blocked, any other advances.
WithOneActive(z, k) ==
  CASE k = "enroll" /\ z \notin tried /\ ~selectedEnrollment(z) ->
         tick' = [tick EXCEPT !.stage = "block", !.kind = k]
    [] wf[z][k] = "blocked" -> tick' = Skip(z)
    [] OTHER -> tick' = [tick EXCEPT !.stage = "advance", !.kind = k]

\* reconcileZone: without one, a rotation whose interval has passed starts.
WithoutActive(z) ==
  CASE tick.scheme = "csk" -> tick' = Skip(z)
    [] tick.scheme = "unknown" ->
         tick' = [tick EXCEPT !.stage = "block", !.kind = "zsk"]
    [] OTHER ->
         \/ tick' = Skip(z)
         \/ \E k \in {"zsk", "ksk"} : tick' = [tick EXCEPT !.stage = "start", !.kind = k]

\* reconcileZone decides on a snapshot.
Decide ==
  LET z == tick.zone
  IN /\ tick.stage = "booted"
     /\ CASE Cardinality(ActiveKinds(z)) > 1 ->
               \E k \in ActiveKinds(z) : tick' = [tick EXCEPT !.stage = "block", !.kind = k]
          [] Cardinality(ActiveKinds(z)) = 1 ->
               \E k \in ActiveKinds(z) : WithOneActive(z, k)
          [] OTHER -> WithoutActive(z)
     /\ UNCHANGED <<pdns, scope, diskVars, client, historyVars>>

\* block: whatever else the zone has become meanwhile.
Block ==
  /\ tick.stage = "block"
  /\ wf' = [wf EXCEPT ![tick.zone][tick.kind] = "blocked"]
  /\ tick' = Skip(tick.zone)
  /\ UNCHANGED <<pdns, scope, tried, recent, armed, idem, client, historyVars>>

\* start: one Update that looks for active workflows again.
Start ==
  LET z == tick.zone
  IN /\ tick.stage = "start"
     /\ IF ActiveKinds(z) = {}
        THEN /\ wf' = [wf EXCEPT ![z][tick.kind] = "active"]
             /\ waits' = [waits EXCEPT ![z] = Older]
        ELSE UNCHANGED <<wf, waits>>
     /\ tick' = Skip(z)
     /\ UNCHANGED <<pdns, scope, tried, recent, armed, idem, client,
                    baseline, admitted, acted, changes, crashes>>

\* complete: idle again; an enrollment also resets the records of both roles,
\* and a split leaves separate keys.
Completed(z, k) ==
  [wf EXCEPT ![z] = [x \in AllKinds |->
     IF x = k \/ (k = "enroll" /\ x \in {"zsk", "ksk"}) THEN "idle" ELSE wf[z][x]]]

\* advance: the handler waits, blocks, makes its registrar write, or completes.
Advance ==
  LET z == tick.zone
      k == tick.kind
  IN /\ tick.stage = "advance"
     /\ \/ UNCHANGED <<wf, tried, pdns>>
        \/ /\ wf' = [wf EXCEPT ![z][k] = "blocked"]
           /\ UNCHANGED <<tried, pdns>>
        \/ /\ k = "enroll"
           /\ tried' = tried \cup {z}
           /\ UNCHANGED <<wf, pdns>>
        \/ /\ waits[z] = {}
           /\ wf' = Completed(z, k)
           /\ pdns' = IF k = "split" THEN [pdns EXCEPT ![z].scheme = "split"] ELSE pdns
           /\ UNCHANGED tried
     /\ tick' = Skip(z)
     /\ UNCHANGED <<scope, recent, armed, idem, client, historyVars>>

\* Tick, at its end: active enrollments of zones it did not see signed.
TickEnd ==
  /\ tick.stage = "zones"
  /\ tick.todo = {}
  /\ wf' = [z \in Zones |->
       IF z \notin tick.seen /\ IsActive(wf[z]["enroll"])
       THEN [wf[z] EXCEPT !["enroll"] = "blocked"] ELSE wf[z]]
  /\ tick' = Free
  /\ UNCHANGED <<pdns, scope, tried, recent, armed, idem, client, historyVars>>
-----------------------------------------------------------------------------
(* The control operations                                                  *)

\* Mutation: keys are not kept.
LookupForgotten(key, request) == "unused"

\* Mutation: a key that is known is taken for a repetition.
LookupAnyUse(key, request) ==
  IF idem[key] = NoRequest THEN "unused" ELSE "repeated"

\* What a key says about a request: unused, this request, or another one.
Lookup(key, request) ==
  CASE idem[key] = NoRequest -> "unused"
    [] idem[key] = request -> "repeated"
    [] OTHER -> "conflict"

Answer(c, stage) ==
  /\ client' = [client EXCEPT ![c].stage = stage]
  /\ waits' = [z \in Zones |-> waits[z] \ {c}]

Asked(c, request, key, stage) ==
  client' = [client EXCEPT ![c] = [stage |-> stage, request |-> request, key |-> key]]

\* Trigger: the snapshot and the reads of PowerDNS.
TriggerReads(c, request, key) ==
  /\ ~Pending(c)
  /\ \/ /\ Lookup(key, request) = "repeated"
        /\ Asked(c, request, key, "ok")
     \/ /\ Lookup(key, request) = "unused"
        /\ \A z \in request.zones :
             /\ pdns[z].dnssec /\ selected(z)
             /\ pdns[z].scheme = SchemeFor(request.kind)
        /\ Asked(c, request, key, "read")
  /\ UNCHANGED <<pdns, scope, diskVars, tick, historyVars>>

\* Mutation: the Update trusts the snapshot.
AdmittedBySnapshot(request) == TRUE

\* Trigger: no zone of the batch has an active workflow.
Admitted(request) == \A z \in request.zones : ActiveKinds(z) = {}

\* Trigger: the Update decides again, and starts all zones or none.
TriggerUpdates(c) ==
  LET request == client[c].request
      key == client[c].key
  IN /\ Pending(c)
     /\ CASE Lookup(key, request) = "repeated" ->
               Answer(c, "ok") /\ UNCHANGED <<wf, idem, acted>>
          [] Lookup(key, request) = "unused" /\ Admitted(request) ->
               /\ wf' = [z \in Zones |-> IF z \in request.zones
                           THEN [wf[z] EXCEPT ![request.kind] = "active"] ELSE wf[z]]
               /\ idem' = [idem EXCEPT ![key] = request]
               /\ acted' = [acted EXCEPT ![key] = @ + 1]
               /\ client' = [client EXCEPT ![c].stage = "ok"]
               /\ waits' = [z \in Zones |-> IF z \in request.zones
                              THEN Older \ {c} ELSE waits[z] \ {c}]
          [] OTHER -> Answer(c, "refused") /\ UNCHANGED <<wf, idem, acted>>
     /\ UNCHANGED <<pdns, scope, tried, recent, armed, tick, baseline,
                    admitted, changes, crashes>>

\* Resume: blocked splits go on, all of them or none.  Its evidence is in
\* Rotation; it holds c.mu, so only its Update matters here.
Resume(zones, key) ==
  LET request == [kind |-> "resume", zones |-> zones]
  IN /\ tick.stage = "free"
     /\ Lookup(key, request) = "unused"
     /\ \A z \in zones : /\ pdns[z].dnssec /\ selected(z)
                         /\ wf[z]["split"] = "blocked"
     /\ wf' = [z \in Zones |-> IF z \in zones
                 THEN [wf[z] EXCEPT !["split"] = "active"] ELSE wf[z]]
     /\ idem' = [idem EXCEPT ![key] = request]
     /\ waits' = [z \in Zones |-> IF z \in zones THEN Older ELSE waits[z]]
     /\ UNCHANGED <<pdns, scope, tried, recent, armed, tick, client,
                    baseline, admitted, acted, changes, crashes>>

\* ReconcileSplitSignerTransition: the split of one zone goes on, attested.
ReconcileSplitSignerTransition(z, key) ==
  LET request == [kind |-> "reconcile-split-signer", zones |-> {z}]
  IN /\ tick.stage = "free"
     /\ Lookup(key, request) = "unused"
     /\ pdns[z].dnssec /\ selected(z) /\ wf[z]["split"] = "active"
     /\ idem' = [idem EXCEPT ![key] = request]
     /\ UNCHANGED <<pdns, scope, wf, tried, recent, armed, tick, client, historyVars>>

\* ArmEnrollment: the snapshot and ListZones ...
ArmReads(key) ==
  /\ tick.stage = "free"
  /\ ~armed
  /\ Lookup(key, ArmRequest) = "unused"
  /\ tick' = [Free EXCEPT !.stage = "arming", !.seen = Signed, !.key = key]
  /\ UNCHANGED <<pdns, scope, diskVars, client, historyVars>>

\* Mutation: only zones in scope are put on record.
BaselineInScope == {z \in tick.seen : selectedEnrollment(z)}

\* ... and one Update that puts every signed zone on record and arms.
Baseline == tick.seen

\* The key is not looked up again.
ArmUpdates ==
  /\ tick.stage = "arming"
  /\ wf' = [z \in Zones |-> IF z \in Baseline /\ wf[z]["enroll"] = "absent"
              THEN [wf[z] EXCEPT !["enroll"] = "idle"] ELSE wf[z]]
  /\ armed' = TRUE
  /\ idem' = [idem EXCEPT ![tick.key] = ArmRequest]
  /\ baseline' = tick.seen
  /\ tick' = Free
  /\ UNCHANGED <<pdns, scope, tried, recent, client, waits, admitted, acted,
                 changes, crashes>>
-----------------------------------------------------------------------------
(* Around the controller                                                   *)

\* A zone is signed, with either scheme, is no longer signed, or its keys are
\* changed by hand.
ZoneChanges ==
  /\ changes < MaxChanges
  /\ changes' = changes + 1
  /\ \E z \in Zones :
       \/ \E s \in Schemes : pdns' = [pdns EXCEPT ![z] = [dnssec |-> TRUE, scheme |-> s]]
       \/ pdns' = [pdns EXCEPT ![z].dnssec = FALSE]
  /\ UNCHANGED <<scope, diskVars, tick, client, waits, baseline, admitted, acted,
                 crashes>>

\* 24 hours have passed since an enrollment was discovered.
DayPasses ==
  /\ \E z \in recent : recent' = recent \ {z} /\ admitted' = admitted \ {z}
  /\ UNCHANGED <<pdns, scope, wf, tried, armed, idem, tick, client, waits,
                 baseline, acted, changes, crashes>>

\* The controller dies, or is restarted with another configuration.
Crash ==
  /\ crashes < MaxCrashes
  /\ crashes' = crashes + 1
  /\ tick' = Free
  /\ client' = [c \in Clients |-> IF Pending(c) THEN NoClient ELSE client[c]]
  /\ waits' = [z \in Zones |-> {}]
  /\ scope' \in {scope} \cup {[scope EXCEPT ![z] = s] :
                                z \in Zones, s \in {"out", "rotation", "enroll"}}
  /\ UNCHANGED <<pdns, diskVars, baseline, admitted, acted, changes>>
-----------------------------------------------------------------------------
Tick ==
  \/ TickBegin \/ ListKeys \/ bootstrap \/ Decide \/ Block \/ Start \/ Advance
  \/ TickEnd

Next ==
  \/ Tick
  \/ \E c \in Clients, r \in TriggerRequest, key \in RequestKeys : TriggerReads(c, r, key)
  \/ \E c \in Clients : TriggerUpdates(c)
  \/ \E zones \in (SUBSET Zones) \ {{}}, key \in RequestKeys : Resume(zones, key)
  \/ \E z \in Zones, key \in RequestKeys : ReconcileSplitSignerTransition(z, key)
  \/ \E key \in ArmKeys : ArmReads(key)
  \/ ArmUpdates
  \/ ZoneChanges \/ DayPasses \/ Crash

Spec == Init /\ [][Next]_vars
-----------------------------------------------------------------------------
(* Properties                                                              *)

\* A workflow is only ever advanced as the one active workflow of its zone, at
\* the moment its handler acts and not only when reconcileZone looked: two
\* workflows never change the keys of a zone in turns, and completing an
\* enrollment never wipes out a rotation that was just accepted.
AdvancedAlone ==
  tick.stage = "advance" => ActiveKinds(tick.zone) = {tick.kind}

\* An idempotency key starts workflows at most once, however often its request
\* is repeated, raced by another one or cut off by a crash.
KeyActsOnce ==
  \A key \in IdemKeys : acted[key] = (IF idem[key] \in TriggerRequest THEN 1 ELSE 0)

\* A client is told that its request was accepted only when exactly that
\* request is on record, so a repetition after a crash finds it.
AnswersHonest ==
  \A c \in Clients : client[c].stage = "ok" => idem[client[c].key] = client[c].request

\* A zone that was signed when enrollment was armed is never enrolled, not
\* even when the scope is extended to it later.
BaselineNeverEnrolled == \A z \in baseline : wf[z]["enroll"] = "idle"

\* The breaker of bootstrap holds over restarts, days and changes of the
\* configuration: never more than MaxPending enrollments run, and within 24
\* hours never more than MaxNewPerDay are begun, those included that have
\* completed or are blocked by now.
EnrollmentsLimited ==
  /\ Cardinality({z \in Zones : wf[z]["enroll"] = "active"}) <= MaxPending
  /\ Cardinality(admitted) <= MaxNewPerDay

\* README: "A baselined, completed, ineligible, drifted, removed, or
\* DNSSEC-disabled zone is never silently re-enrolled."
EndedEnrollmentStays ==
  [][\A z \in Zones : wf[z]["enroll"] \in {"idle", "blocked"} =>
       wf'[z]["enroll"] = wf[z]["enroll"]]_vars
=============================================================================
