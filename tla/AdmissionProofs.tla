-------------------------- MODULE AdmissionProofs --------------------------
(***************************************************************************)
(* For any zones, clients and idempotency keys: workflows advance alone,   *)
(* an enrollment that ended or was never due is not begun, a key starts    *)
(* workflows at most once, and the circuit breaker holds.                  *)
(***************************************************************************)
EXTENDS Admission, FiniteSetTheorems, TLAPS

\* What the running Tick has read is still true when it acts on it: nobody else
\* ends a workflow, and Trigger starts none in a zone that has one.
TickInv ==
  /\ tick.stage \in {"keys", "booted", "block", "advance", "start"} => tick.zone \in Zones
  /\ tick.stage \in {"keys", "booted"} => tick.scheme \in Schemes
  /\ tick.stage \in {"block", "advance"} => tick.kind \in AllKinds
  /\ tick.stage = "start" => tick.kind \in {"zsk", "ksk"}
  /\ tick.stage = "advance" =>
       ActiveKinds(tick.zone) = {tick.kind} /\ wf[tick.zone][tick.kind] = "active"
  /\ tick.stage = "block" /\ tick.kind = "enroll" => IsActive(wf[tick.zone]["enroll"])
  /\ tick.stage = "arming" => ~armed /\ tick.key \in ArmKeys

ClientInv ==
  \A c \in Clients :
    client[c].stage \in {"read", "ok"} =>
      client[c].request \in TriggerRequest /\ client[c].key \in RequestKeys

\* Before the arming no zone has an enroll record.
ArmInv ==
  /\ ~armed => baseline = {} /\ \A z \in Zones : wf[z]["enroll"] = "absent"
  /\ BaselineNeverEnrolled

\* The keys of ArmEnrollment are its own.
Apart == ArmKeys \cap RequestKeys = {}

\* A key without a record has started nothing; ArmEnrollment forgets what its
\* key was used for, if another operation used it.
KeyInv ==
  /\ \A key \in IdemKeys :
       /\ acted[key] \in {0, 1}
       /\ idem[key] = NoRequest => acted[key] = 0
       /\ idem[key] \in TriggerRequest => key \in RequestKeys
       /\ Apart => acted[key] = (IF idem[key] \in TriggerRequest THEN 1 ELSE 0)
  /\ Apart => AnswersHonest

Inv == TypeOK /\ TickInv /\ ClientInv /\ ArmInv /\ KeyInv

\* An enrollment that ended stays as it is.
EnrollStays ==
  \A z \in Zones : wf[z]["enroll"] \in {"idle", "blocked"} =>
    wf'[z]["enroll"] = wf[z]["enroll"]

\* The kinds of request are told apart by their first field.
LEMMA RequestsDiffer ==
  /\ NoRequest \notin TriggerRequest
  /\ \A kind \in {"resume", "reconcile-split-signer"} : \A zones :
       [kind |-> kind, zones |-> zones] \notin TriggerRequest \cup {NoRequest}
  /\ ArmRequest \notin TriggerRequest \cup {NoRequest}
BY AdmissionAssumptions DEF NoRequest, TriggerRequest, ArmRequest

\* The invariant holds when the controller first starts.
LEMMA InitInv == Init => Inv
<1> SUFFICES ASSUME Init PROVE Inv
  OBVIOUS
<1> USE AdmissionAssumptions DEF Init
<1>1. TypeOK
  <2>1. pdns \in [Zones -> ZoneState]
    BY DEF ZoneState, Schemes
  <2>2. scope \in [Zones -> {"out", "rotation", "enroll"}]
    OBVIOUS
  <2>3. tick \in TickState
    BY DEF Free, TickState
  <2>4. client \in [Clients -> ClientState]
    BY DEF NoClient, ClientState
  <2>5. wf \in [Zones -> [AllKinds -> States]]
    BY DEF States
  <2>6. idem \in [IdemKeys -> Request] /\ acted \in [IdemKeys -> 0..2]
    <3>1. NoRequest \in Request
      BY DEF Request
    <3> QED
      BY <3>1
  <2>7. waits \in [Zones -> SUBSET Clients]
    OBVIOUS
  <2>8. /\ tried \subseteq Zones /\ recent \subseteq Zones /\ baseline \subseteq Zones
        /\ admitted \subseteq Zones
        /\ armed \in BOOLEAN /\ changes \in 0..MaxChanges /\ crashes \in 0..MaxCrashes
    <3>1. tried \subseteq Zones /\ recent \subseteq Zones /\ baseline \subseteq Zones
        /\ admitted \subseteq Zones
      OBVIOUS
    <3>2. armed \in BOOLEAN
      OBVIOUS
    <3>3. changes \in 0..MaxChanges /\ crashes \in 0..MaxCrashes
      OBVIOUS
    <3> QED
      BY <3>1, <3>2, <3>3
  <2> HIDE DEF Init
  <2> QED
    BY <2>1, <2>2, <2>3, <2>4, <2>5, <2>6, <2>7, <2>8 DEF TypeOK
<1>2. TickInv /\ ClientInv
  BY DEF TickInv, ClientInv, Free, NoClient
<1>3. ArmInv
  BY DEF ArmInv, BaselineNeverEnrolled, AllKinds
<1>4. KeyInv
  BY RequestsDiffer DEF KeyInv, AnswersHonest, NoClient
<1> QED
  BY <1>1, <1>2, <1>3, <1>4 DEF Inv

\* The set of active kinds is finite, so with one element it is a singleton.
LEMMA OneActive ==
  ASSUME NEW z \in Zones, NEW k \in ActiveKinds(z), Cardinality(ActiveKinds(z)) = 1
  PROVE  ActiveKinds(z) = {k}
<1>1. IsFiniteSet(AllKinds)
  <2>1. AllKinds = {"zsk", "ksk", "split", "enroll"}
    BY DEF AllKinds, RotationKinds
  <2>2. IsFiniteSet({"zsk"})
    BY FS_Singleton
  <2>3. IsFiniteSet({"zsk"} \cup {"ksk"})
    BY <2>2, FS_AddElement
  <2>4. IsFiniteSet(({"zsk"} \cup {"ksk"}) \cup {"split"})
    BY <2>3, FS_AddElement
  <2>5. IsFiniteSet((({"zsk"} \cup {"ksk"}) \cup {"split"}) \cup {"enroll"})
    BY <2>4, FS_AddElement
  <2>6. AllKinds = (({"zsk"} \cup {"ksk"}) \cup {"split"}) \cup {"enroll"}
    BY <2>1
  <2> QED
    BY <2>5, <2>6
<1>2. IsFiniteSet(ActiveKinds(z))
  BY <1>1, FS_Subset DEF ActiveKinds
<1>3. PICK x : ActiveKinds(z) = {x}
  BY <1>2, FS_Singleton
<1> QED
  BY <1>3

\* The stages of a Tick, and the updates of records that the steps make.
Stages == {"free", "zones", "keys", "booted", "block", "advance", "start", "arming"}
AtZone(t, z, sc) == [t EXCEPT !.stage = "keys", !.zone = z, !.scheme = sc]
AtKind(t, s, k) == [t EXCEPT !.stage = s, !.kind = k]
WithPhase(f, z, k, s) == [f EXCEPT ![z][k] = s]
Answered(f, c, s) == [f EXCEPT ![c].stage = s]
Phases == [Zones -> [AllKinds -> States]]

\* What Skip leaves of a Tick needs nothing of the zone it was at.
LEMMA Skipped ==
  ASSUME tick \in TickState, NEW z
  PROVE  Skip(z) \in TickState /\ Skip(z).stage = "zones"
BY DEF Skip, TickState

\* A Tick goes on to its next stage,
LEMMA NextStage ==
  ASSUME NEW t \in TickState, NEW s \in Stages
  PROVE  /\ [t EXCEPT !.stage = s] \in TickState
         /\ [t EXCEPT !.stage = s].stage = s
         /\ [t EXCEPT !.stage = s].zone = t.zone
         /\ [t EXCEPT !.stage = s].scheme = t.scheme
BY DEF TickState, Stages

\* with the keys of a zone
LEMMA NextZone ==
  ASSUME NEW t \in TickState, NEW z \in Zones, NEW sc \in Schemes
  PROVE  LET u == AtZone(t, z, sc)
         IN u \in TickState /\ u.stage = "keys" /\ u.zone = z /\ u.scheme = sc
BY DEF TickState, AtZone

\* or with a kind of workflow.
LEMMA NextKind ==
  ASSUME NEW t \in TickState, NEW s \in Stages, NEW k \in AllKinds
  PROVE  LET u == AtKind(t, s, k)
         IN u \in TickState /\ u.stage = s /\ u.kind = k /\ u.zone = t.zone
BY DEF TickState, Stages, AtKind

\* A Tick, or an arming, begins with what it has seen.
LEMMA FreeType ==
  ASSUME NEW s \in {"free", "zones", "arming"}, NEW seen \in SUBSET Zones,
         NEW todo \in SUBSET Zones, NEW key \in ArmKeys \cup {"none"}
  PROVE  [stage |-> s, todo |-> todo, seen |-> seen, zone |-> "none",
          kind |-> "none", scheme |-> "none", key |-> key] \in TickState
BY DEF TickState

\* A client gets its answer
LEMMA AnswerType ==
  ASSUME NEW f \in [Clients -> ClientState], NEW c \in Clients, NEW s \in {"ok", "refused"}
  PROVE  LET g == Answered(f, c, s)
         IN /\ g \in [Clients -> ClientState]
            /\ g[c].stage = s /\ g[c].request = f[c].request /\ g[c].key = f[c].key
            /\ \A d \in Clients \ {c} : g[d] = f[d]
BY DEF ClientState, Answered

\* or sends a request.
LEMMA AskType ==
  ASSUME NEW r \in TriggerRequest, NEW k \in IdemKeys, NEW s \in {"read", "ok"}
  PROVE  [stage |-> s, request |-> r, key |-> k] \in ClientState
BY DEF ClientState

\* One workflow of one zone changes.
LEMMA PhaseSet ==
  ASSUME NEW f \in Phases, NEW z \in Zones, NEW k \in AllKinds, NEW s \in States
  PROVE  /\ WithPhase(f, z, k, s) \in Phases
         /\ k = "enroll" => WithPhase(f, z, k, s)[z]["enroll"] = s
         /\ \A x \in Zones : x # z \/ k # "enroll" =>
              WithPhase(f, z, k, s)[x]["enroll"] = f[x]["enroll"]
BY DEF Phases, WithPhase, AllKinds

\* A step that leaves the persisted workflows and the arming alone preserves
\* what is said of them.
LEMMA WorkflowsAlone ==
  ASSUME Inv, UNCHANGED <<wf, armed, baseline>>
  PROVE  ArmInv' /\ EnrollStays
BY DEF Inv, ArmInv, BaselineNeverEnrolled, EnrollStays

\* So does one that leaves the Tick and what it read alone,
LEMMA TickAlone ==
  ASSUME Inv, UNCHANGED <<wf, armed, tick>>
  PROVE  TickInv'
BY DEF Inv, TickInv, ActiveKinds

\* one that answers nobody,
LEMMA ClientsAlone ==
  ASSUME Inv, UNCHANGED client
  PROVE  ClientInv'
BY DEF Inv, ClientInv

\* and one that uses no key.
LEMMA KeysAlone ==
  ASSUME Inv, UNCHANGED <<idem, acted, client>>
  PROVE  KeyInv'
BY DEF Inv, KeyInv, AnswersHonest

\* Between two zones the Tick holds nothing.
LEMMA BetweenZones ==
  ASSUME tick'.stage \in {"free", "zones"}
  PROVE  TickInv'
BY DEF TickInv

\* A step that only ends enrollments under way leaves the others as they are.
LEMMA EnrollChange ==
  ASSUME Inv, UNCHANGED <<armed, baseline>>,
         \A x \in Zones :
           \/ wf'[x]["enroll"] = wf[x]["enroll"]
           \/ wf[x]["enroll"] \in {"active"} /\ wf'[x]["enroll"] \in {"idle", "blocked"}
           \/ wf[x]["enroll"] \in {"active", "blocked"} /\ wf'[x]["enroll"] = "blocked"
  PROVE  ArmInv' /\ EnrollStays
<1>1. EnrollStays
  BY DEF EnrollStays
<1>2. \A x \in baseline : x \in Zones /\ wf[x]["enroll"] = "idle"
  BY DEF Inv, TypeOK, ArmInv, BaselineNeverEnrolled
<1>3. BaselineNeverEnrolled'
  BY <1>2 DEF BaselineNeverEnrolled
<1>4. ASSUME ~armed
      PROVE  baseline = {} /\ \A x \in Zones : wf'[x]["enroll"] = "absent"
  BY <1>4 DEF Inv, ArmInv
<1>5. ArmInv'
  BY <1>3, <1>4, Zenon DEF ArmInv
<1> QED
  BY <1>1, <1>5

\* The keys of a zone change.
LEMMA SchemeSet ==
  ASSUME NEW f \in [Zones -> ZoneState], NEW z \in Zones,
         NEW g, g = [f EXCEPT ![z].scheme = "split"] \/ g = [f EXCEPT ![z].dnssec = FALSE]
  PROVE  g \in [Zones -> ZoneState]
BY DEF ZoneState, Schemes

\* The Tick's own steps.
LEMMA TickStep ==
  ASSUME Inv, Tick
  PROVE  Inv' /\ EnrollStays
<1> USE DEF Inv
<1>w. wf \in Phases /\ tick \in TickState
  BY DEF TypeOK, Phases
<1>e. "enroll" \in AllKinds /\ "blocked" \in States /\ "active" \in States
  BY DEF AllKinds, States
<1>1. CASE TickBegin
  <2>1. tick' \in TickState /\ tick'.stage = "zones"
    <3> DEFINE todo == {z \in Signed : selected(z) \/ IsActive(wf[z]["enroll"])}
    <3>1. Signed \in SUBSET Zones /\ todo \in SUBSET Zones
      BY DEF Signed
    <3>2. tick' = [stage |-> "zones", todo |-> todo, seen |-> Signed, zone |-> "none",
                   kind |-> "none", scheme |-> "none", key |-> "none"]
      BY <1>1 DEF TickBegin, Free
    <3> HIDE DEF todo
    <3> QED
      BY <3>1, <3>2, FreeType
  <2> QED
    BY <1>1, <2>1, WorkflowsAlone, ClientsAlone, KeysAlone, BetweenZones
       DEF TickBegin, TypeOK, diskVars, historyVars
<1>2. CASE ListKeys
  <2>1. PICK z \in tick.todo :
          tick' \in {AtZone(tick, z, pdns[z].scheme),
                     Skip(z)}
    BY <1>2 DEF ListKeys, AtZone
  <2>2. z \in Zones
    BY <1>w DEF TickState
  <2>3. pdns[z].scheme \in Schemes
    BY <2>2 DEF TypeOK, ZoneState
  <2>4. CASE tick' = Skip(z)
    BY <1>2, <1>w, <2>4, Skipped, WorkflowsAlone, ClientsAlone, KeysAlone, BetweenZones
       DEF ListKeys, TypeOK, diskVars, historyVars
  <2>5. CASE tick' = AtZone(tick, z, pdns[z].scheme)
    <3>1. tick' \in TickState /\ tick'.stage = "keys" /\ tick'.zone = z
          /\ tick'.scheme = pdns[z].scheme
      BY <1>w, <2>2, <2>3, <2>5, NextZone
    <3>2. TickInv'
      BY <2>2, <2>3, <3>1 DEF TickInv
    <3> QED
      BY <1>2, <3>1, <3>2, WorkflowsAlone, ClientsAlone, KeysAlone
         DEF ListKeys, TypeOK, diskVars, historyVars
  <2> QED
    BY <2>1, <2>4, <2>5
<1>3. CASE bootstrap
  <2> DEFINE z == tick.zone
             records == WithRecords(SchemeKinds(tick.scheme))
  <2>1. z \in Zones /\ tick.scheme \in Schemes
    BY <1>3 DEF bootstrap, TickInv
  <2>2. records \in [AllKinds -> States] /\ records["enroll"] = wf[z]["enroll"]
    <3>1. "enroll" \notin SchemeKinds(tick.scheme)
      BY <2>1 DEF SchemeKinds, Schemes
    <3> QED
      BY <1>w, <2>1, <3>1 DEF WithRecords, Phases, States, AllKinds
  <2>3. tick' \in TickState /\ tick'.stage = "booted" /\ tick'.zone = z
        /\ tick'.scheme = tick.scheme
    <3>1. tick' = [tick EXCEPT !.stage = "booted"]
      BY <1>3 DEF bootstrap
    <3> QED
      BY <1>w, <3>1, NextStage DEF Stages
  <2>4. TickInv'
    BY <2>1, <2>3 DEF TickInv
  <2>5. PICK row \in [AllKinds -> States] :
          /\ wf' = [wf EXCEPT ![z] = row]
          /\ \/ row["enroll"] = wf[z]["enroll"]
             \/ Eligible(z)
    <3> HIDE DEF records
    <3>1. CASE ~Eligible(z)
      <4>1. wf' = [wf EXCEPT ![z] = records]
        BY <1>3, <3>1 DEF bootstrap, records
      <4> QED
        BY <2>2, <4>1
    <3>2. CASE Eligible(z)
      <4>1. PICK s \in {"idle", "blocked", "active"} :
              wf' = [wf EXCEPT ![z] = [records EXCEPT !["enroll"] = s]]
        BY <1>3, <3>2 DEF bootstrap, records
      <4>2. [records EXCEPT !["enroll"] = s] \in [AllKinds -> States]
        BY <2>2 DEF States
      <4> QED
        BY <3>2, <4>1, <4>2
    <3> QED
      BY <3>1, <3>2
  <2>6. wf' \in Phases /\ recent' \subseteq Zones /\ admitted' \subseteq Zones
    <3>1. wf' \in Phases
      BY <1>w, <2>1, <2>5 DEF Phases
    <3>2. /\ recent' = recent \/ recent' = recent \cup {z}
          /\ admitted' = admitted \/ admitted' = admitted \cup {z}
      BY <1>3 DEF bootstrap
    <3> QED
      BY <2>1, <3>1, <3>2 DEF TypeOK
  <2>7. ArmInv' /\ EnrollStays
    <3>1. \A x \in Zones : wf'[x]["enroll"] = wf[x]["enroll"] \/ (x = z /\ Eligible(z))
      BY <1>w, <2>1, <2>5 DEF Phases
    <3>2. armed' = armed /\ baseline' = baseline
      BY <1>3 DEF bootstrap, historyVars
    <3>3. EnrollStays
      BY <3>1 DEF EnrollStays, Eligible
    <3>4. \A x \in baseline : x \in Zones /\ wf[x]["enroll"] = "idle"
      BY DEF TypeOK, ArmInv, BaselineNeverEnrolled
    <3>5. BaselineNeverEnrolled'
      BY <3>1, <3>2, <3>4 DEF BaselineNeverEnrolled, Eligible
    <3>6. ASSUME ~armed PROVE baseline = {} /\ \A x \in Zones : wf'[x]["enroll"] = "absent"
      BY <3>1, <3>6 DEF Eligible, ArmInv
    <3>7. ArmInv'
      BY <3>2, <3>5, <3>6, Zenon DEF ArmInv
    <3> QED
      BY <3>3, <3>7
  <2>8. ClientInv' /\ KeyInv'
    BY <1>3, ClientsAlone, KeysAlone DEF bootstrap, historyVars
  <2>9. TypeOK'
    BY <1>3, <2>3, <2>6 DEF bootstrap, TypeOK, Phases, historyVars
  <2> QED
    BY <2>4, <2>7, <2>8, <2>9
<1>4. CASE Decide
  <2> DEFINE z == tick.zone
  <2>1. z \in Zones /\ tick.scheme \in Schemes
    BY <1>4 DEF Decide, TickInv
  <2>2. \/ tick' = Skip(z)
        \/ \E k \in ActiveKinds(z) : tick' = AtKind(tick, "block", k)
        \/ tick.scheme = "unknown" /\ tick' = AtKind(tick, "block", "zsk")
        \/ \E k \in {"zsk", "ksk"} : tick' = AtKind(tick, "start", k)
        \/ \E k \in ActiveKinds(z) :
             /\ Cardinality(ActiveKinds(z)) = 1 /\ wf[z][k] # "blocked"
             /\ tick' = AtKind(tick, "advance", k)
    <3>1. CASE Cardinality(ActiveKinds(z)) > 1
      <4>1. \E k \in ActiveKinds(z) : tick' = [tick EXCEPT !.stage = "block", !.kind = k]
        <5>1. ~(Cardinality(ActiveKinds(z)) = 1)
          BY <3>1
        <5> QED
          BY <1>4, <3>1, <5>1, Zenon DEF Decide
      <4>2. \E k \in ActiveKinds(z) : tick' = AtKind(tick, "block", k)
        BY <4>1, Zenon DEF AtKind
      <4> QED
        BY <4>2
    <3>2. CASE ~(Cardinality(ActiveKinds(z)) > 1) /\ Cardinality(ActiveKinds(z)) = 1
      <4>1. PICK k \in ActiveKinds(z) : WithOneActive(z, k)
        BY <1>4, <3>2 DEF Decide
      <4> QED
        BY <3>2, <4>1 DEF WithOneActive, AtKind
    <3>3. CASE ~(Cardinality(ActiveKinds(z)) > 1) /\ ~(Cardinality(ActiveKinds(z)) = 1)
      <4>1. WithoutActive(z)
        BY <1>4, <3>3 DEF Decide
      <4> QED
        BY <4>1 DEF WithoutActive, AtKind
    <3> QED
      BY <3>1, <3>2, <3>3
  <2>3. UNCHANGED <<pdns, scope, diskVars, client, historyVars>>
    BY <1>4 DEF Decide
  <2>4. tick' \in TickState => TypeOK'
    BY <2>3 DEF TypeOK, diskVars, historyVars
  <2>5. tick' \in TickState /\ TickInv'
    <3>1. CASE tick' = Skip(z)
      BY <1>w, <3>1, Skipped, BetweenZones
    <3>2. CASE \E k \in ActiveKinds(z) : tick' = AtKind(tick, "block", k)
      <4>1. PICK k \in ActiveKinds(z) : tick' = AtKind(tick, "block", k)
        BY <3>2
      <4>a. k \in AllKinds
        BY DEF ActiveKinds
      <4>2. IsActive(wf[z][k])
        BY DEF ActiveKinds
      <4>3. tick' \in TickState /\ tick'.stage = "block" /\ tick'.kind = k /\ tick'.zone = z
        <5>1. "block" \in Stages /\ "advance" \in Stages
          BY DEF Stages
        <5> HIDE DEF z
        <5> QED
          BY <1>w, <4>1, <4>a, <5>1, NextKind DEF z
      <4> QED
        BY <2>1, <2>3, <4>a, <4>2, <4>3 DEF TickInv, diskVars
    <3>3. CASE tick' = AtKind(tick, "block", "zsk")
      <4>1. tick' \in TickState /\ tick'.stage = "block" /\ tick'.kind = "zsk" /\ tick'.zone = z
        BY <1>w, <3>3, NextKind DEF Stages, AllKinds, RotationKinds
      <4> QED
        BY <2>1, <4>1 DEF TickInv, AllKinds, RotationKinds
    <3>4. CASE \E k \in {"zsk", "ksk"} : tick' = AtKind(tick, "start", k)
      <4>1. PICK k \in {"zsk", "ksk"} : tick' = AtKind(tick, "start", k)
        BY <3>4
      <4>2. tick' \in TickState /\ tick'.stage = "start" /\ tick'.kind = k /\ tick'.zone = z
        BY <1>w, <4>1, NextKind DEF Stages, AllKinds, RotationKinds
      <4> QED
        BY <2>1, <4>2 DEF TickInv
    <3>5. CASE \E k \in ActiveKinds(z) :
                 /\ Cardinality(ActiveKinds(z)) = 1 /\ wf[z][k] # "blocked"
                 /\ tick' = AtKind(tick, "advance", k)
      <4>1. PICK k \in ActiveKinds(z) :
              /\ Cardinality(ActiveKinds(z)) = 1 /\ wf[z][k] # "blocked"
              /\ tick' = AtKind(tick, "advance", k)
        BY <3>5
      <4>a. k \in AllKinds
        BY DEF ActiveKinds
      <4>2. wf[z][k] = "active"
        BY <4>1 DEF ActiveKinds, IsActive
      <4>3. tick' \in TickState /\ tick'.stage = "advance" /\ tick'.kind = k /\ tick'.zone = z
        <5>1. "block" \in Stages /\ "advance" \in Stages
          BY DEF Stages
        <5> HIDE DEF z
        <5> QED
          BY <1>w, <4>1, <4>a, <5>1, NextKind DEF z
      <4>4. ActiveKinds(z) = {k}
        BY <2>1, <4>1, OneActive
      <4>5. (ActiveKinds(z))' = {k}
        <5>1. wf' = wf /\ tick'.zone = tick.zone
          BY <2>3, <4>3 DEF diskVars
        <5> QED
          BY <4>4, <5>1 DEF ActiveKinds
      <4> QED
        BY <2>1, <2>3, <4>a, <4>2, <4>3, <4>5 DEF TickInv, diskVars
    <3> QED
      BY <2>2, <3>1, <3>2, <3>3, <3>4, <3>5
  <2>6. UNCHANGED <<wf, armed, baseline>> /\ UNCHANGED client /\ UNCHANGED <<idem, acted, client>>
    BY <2>3 DEF diskVars, historyVars
  <2> QED
    BY <2>4, <2>5, <2>6, WorkflowsAlone, ClientsAlone, KeysAlone
<1>5. CASE Block
  <2> DEFINE z == tick.zone
  <2>1. z \in Zones /\ tick.kind \in AllKinds
    BY <1>5 DEF Block, TickInv
  <2>2. wf' = WithPhase(wf, z, tick.kind, "blocked") /\ tick' = Skip(z)
        /\ UNCHANGED <<pdns, scope, tried, recent, armed, idem, client, historyVars>>
    BY <1>5 DEF Block, WithPhase
  <2>3. wf' \in Phases
        /\ (tick.kind = "enroll" => wf'[z]["enroll"] = "blocked")
        /\ \A x \in Zones : x # z \/ tick.kind # "enroll" => wf'[x]["enroll"] = wf[x]["enroll"]
    BY <1>w, <1>e, <2>1, <2>2, PhaseSet
  <2>4. tick' \in TickState /\ TickInv'
    BY <1>w, <2>2, Skipped, BetweenZones
  <2>5. TypeOK'
    BY <2>2, <2>3, <2>4 DEF TypeOK, Phases, historyVars
  <2>6. \A x \in Zones : \/ wf'[x]["enroll"] = wf[x]["enroll"]
                         \/ wf[x]["enroll"] \in {"active", "blocked"} /\ wf'[x]["enroll"] = "blocked"
    <3>1. tick.kind = "enroll" => IsActive(wf[z]["enroll"])
      BY <1>5 DEF Block, TickInv
    <3> QED
      BY <2>3, <3>1, <1>e DEF IsActive
  <2>7. ArmInv' /\ EnrollStays
    BY <2>2, <2>6, EnrollChange DEF historyVars
  <2>8. ClientInv' /\ KeyInv'
    BY <2>2, ClientsAlone, KeysAlone DEF historyVars
  <2> QED
    BY <2>4, <2>5, <2>7, <2>8
<1>6. CASE Start
  <2> DEFINE z == tick.zone
  <2>1. z \in Zones /\ tick.kind \in {"zsk", "ksk"} /\ tick.kind \in AllKinds
    BY <1>6 DEF Start, TickInv, AllKinds, RotationKinds
  <2>2. tick' = Skip(z)
        /\ UNCHANGED <<pdns, scope, tried, recent, armed, idem, client, baseline, admitted,
                        acted, changes, crashes>>
    BY <1>6 DEF Start
  <2>3. wf' = wf \/ wf' = WithPhase(wf, z, tick.kind, "active")
    BY <1>6 DEF Start, WithPhase
  <2>4. wf' \in Phases /\ \A x \in Zones : wf'[x]["enroll"] = wf[x]["enroll"]
    <3>1. CASE wf' = wf
      BY <1>w, <3>1
    <3>2. CASE wf' = WithPhase(wf, z, tick.kind, "active")
      <4>1. wf' \in Phases
            /\ \A x \in Zones : x # z \/ tick.kind # "enroll" => wf'[x]["enroll"] = wf[x]["enroll"]
        BY <1>w, <1>e, <2>1, <3>2, PhaseSet
      <4> QED
        BY <2>1, <4>1, <1>e
    <3> QED
      BY <2>3, <3>1, <3>2
  <2>5. waits' \in [Zones -> SUBSET Clients]
    <3>1. waits' = waits \/ waits' = [waits EXCEPT ![z] = Older]
      BY <1>6 DEF Start
    <3>2. Older \in SUBSET Clients
      BY DEF Older
    <3> QED
      BY <2>1, <3>1, <3>2 DEF TypeOK
  <2>6. tick' \in TickState /\ TickInv'
    BY <1>w, <2>2, Skipped, BetweenZones
  <2>7. TypeOK'
    BY <2>2, <2>4, <2>5, <2>6 DEF TypeOK, Phases
  <2>8. ArmInv' /\ EnrollStays
    BY <2>2, <2>4, EnrollChange
  <2>9. ClientInv' /\ KeyInv'
    BY <2>2, ClientsAlone, KeysAlone
  <2> QED
    BY <2>6, <2>7, <2>8, <2>9
<1>7. CASE Advance
  <2> DEFINE z == tick.zone
             k == tick.kind
  <2>1. z \in Zones /\ k \in AllKinds /\ wf[z][k] = "active" /\ ActiveKinds(z) = {k}
    BY <1>7 DEF Advance, TickInv
  <2>2. tick' = Skip(z) /\ UNCHANGED <<scope, recent, armed, idem, client, historyVars>>
    BY <1>7 DEF Advance
  <2>3. wf' = wf \/ wf' = WithPhase(wf, z, k, "blocked") \/ wf' = Completed(z, k)
    BY <1>7 DEF Advance, WithPhase
  <2>4. wf' \in Phases
        /\ \A x \in Zones : \/ wf'[x]["enroll"] = wf[x]["enroll"]
                            \/ wf[x]["enroll"] = "active" /\ wf'[x]["enroll"] \in {"idle", "blocked"}
    <3>1. CASE wf' = wf
      BY <1>w, <3>1
    <3>2. CASE wf' = WithPhase(wf, z, k, "blocked")
      <4>1. wf' \in Phases
            /\ (k = "enroll" => wf'[z]["enroll"] = "blocked")
            /\ \A x \in Zones : x # z \/ k # "enroll" => wf'[x]["enroll"] = wf[x]["enroll"]
        BY <1>w, <1>e, <2>1, <3>2, PhaseSet
      <4> QED
        BY <2>1, <4>1, <1>e
    <3>3. CASE wf' = Completed(z, k)
      <4> DEFINE row == [x \in AllKinds |->
            IF x = k \/ (k = "enroll" /\ x \in {"zsk", "ksk"}) THEN "idle" ELSE wf[z][x]]
      <4>1. row \in [AllKinds -> States]
        BY <1>w, <2>1 DEF Phases, States
      <4>2. k # "enroll" => row["enroll"] = wf[z]["enroll"]
        BY DEF AllKinds
      <4>3. k = "enroll" => row["enroll"] = "idle"
        BY DEF AllKinds
      <4>4. wf' = [wf EXCEPT ![z] = row]
        BY <3>3 DEF Completed
      <4> HIDE DEF row
      <4> QED
        BY <1>w, <2>1, <4>1, <4>2, <4>3, <4>4 DEF Phases
    <3> QED
      BY <2>3, <3>1, <3>2, <3>3
  <2>5. tried' \subseteq Zones
    <3>1. tried' = tried \/ tried' = tried \cup {z}
      BY <1>7 DEF Advance
    <3> QED
      BY <2>1, <3>1 DEF TypeOK
  <2>6. pdns' \in [Zones -> ZoneState]
    <3>1. pdns' = pdns \/ pdns' = [pdns EXCEPT ![z].scheme = "split"]
      BY <1>7 DEF Advance
    <3> QED
      BY <2>1, <3>1, SchemeSet DEF TypeOK
  <2>7. tick' \in TickState /\ TickInv'
    BY <1>w, <2>2, Skipped, BetweenZones
  <2>8. TypeOK'
    BY <2>2, <2>4, <2>5, <2>6, <2>7 DEF TypeOK, Phases, historyVars
  <2>9. ArmInv' /\ EnrollStays
    BY <2>2, <2>4, EnrollChange DEF historyVars
  <2>10. ClientInv' /\ KeyInv'
    BY <2>2, ClientsAlone, KeysAlone DEF historyVars
  <2> QED
    BY <2>7, <2>8, <2>9, <2>10
<1>8. CASE TickEnd
  <2>1. tick' = Free /\ UNCHANGED <<pdns, scope, tried, recent, armed, idem, client, historyVars>>
    BY <1>8 DEF TickEnd
  <2>2. wf' \in Phases
        /\ \A x \in Zones : \/ wf'[x]["enroll"] = wf[x]["enroll"]
                            \/ wf[x]["enroll"] \in {"active", "blocked"} /\ wf'[x]["enroll"] = "blocked"
    BY <1>8, <1>w DEF TickEnd, Phases, IsActive, AllKinds, States
  <2>3. tick' \in TickState /\ TickInv'
    BY <2>1, FreeType, BetweenZones DEF Free
  <2>4. TypeOK'
    BY <2>1, <2>2, <2>3 DEF TypeOK, Phases, historyVars
  <2>5. ArmInv' /\ EnrollStays
    BY <2>1, <2>2, EnrollChange DEF historyVars
  <2>6. ClientInv' /\ KeyInv'
    BY <2>1, ClientsAlone, KeysAlone DEF historyVars
  <2> QED
    BY <2>3, <2>4, <2>5, <2>6
<1> QED
  BY <1>1, <1>2, <1>3, <1>4, <1>5, <1>6, <1>7, <1>8 DEF Tick

\* Trigger reads; what it answers at once is on record.
LEMMA TriggerReadsStep ==
  ASSUME Inv, NEW c \in Clients, NEW r \in TriggerRequest, NEW key \in RequestKeys,
         TriggerReads(c, r, key)
  PROVE  Inv' /\ EnrollStays
<1>1. UNCHANGED <<pdns, scope, diskVars, tick, historyVars>>
  BY DEF TriggerReads
<1>2. PICK s \in {"read", "ok"} :
        /\ client' = [client EXCEPT ![c] = [stage |-> s, request |-> r, key |-> key]]
        /\ s = "ok" => idem[key] = r
  <2>1. CASE Lookup(key, r) = "repeated"
    <3>1. idem[key] = r
      BY <2>1 DEF Lookup
    <3> QED
      BY <2>1, <3>1 DEF TriggerReads, Asked
  <2>2. CASE Lookup(key, r) # "repeated"
    BY <2>2 DEF TriggerReads, Asked
  <2> QED
    BY <2>1, <2>2
<1> DEFINE asked == [stage |-> s, request |-> r, key |-> key]
<1>3. asked \in ClientState /\ asked.stage = s /\ asked.request = r /\ asked.key = key
  BY AskType DEF IdemKeys
<1>4. client' = [client EXCEPT ![c] = asked]
  BY <1>2
<1> HIDE DEF asked
<1>5. client \in [Clients -> ClientState]
  BY DEF Inv, TypeOK
<1>6. client' \in [Clients -> ClientState]
  BY <1>3, <1>4, <1>5
<1>7. TypeOK'
  BY <1>1, <1>6 DEF Inv, TypeOK, diskVars, historyVars
<1>8. ClientInv'
  BY <1>3, <1>4, <1>5 DEF Inv, ClientInv
<1>9. KeyInv'
  <2>1. idem' = idem /\ acted' = acted
    BY <1>1 DEF diskVars, historyVars
  <2>2. ASSUME Apart PROVE AnswersHonest'
    <3>1. AnswersHonest
      BY <2>2 DEF Inv, KeyInv
    <3> QED
      BY <1>2, <1>3, <1>4, <1>5, <2>1, <3>1 DEF AnswersHonest
  <2> QED
    BY <2>1, <2>2 DEF Inv, KeyInv
<1> QED
  BY <1>1, <1>7, <1>8, <1>9, WorkflowsAlone, TickAlone DEF Inv, diskVars, historyVars

\* ArmEnrollment begins.
LEMMA ArmReadsStep ==
  ASSUME Inv, NEW key \in ArmKeys, ArmReads(key)
  PROVE  Inv' /\ EnrollStays
<1>1. UNCHANGED <<pdns, scope, diskVars, client, historyVars>> /\ ~armed
  BY DEF ArmReads
<1>2. tick' \in TickState /\ tick'.stage = "arming" /\ tick'.key = key
  <2>1. tick' = [stage |-> "arming", todo |-> {}, seen |-> Signed, zone |-> "none",
                 kind |-> "none", scheme |-> "none", key |-> key]
    BY DEF ArmReads, Free
  <2>2. Signed \in SUBSET Zones
    BY DEF Signed
  <2> QED
    BY <2>1, <2>2, FreeType
<1>3. TickInv'
  BY <1>1, <1>2 DEF TickInv, diskVars
<1>4. TypeOK'
  BY <1>1, <1>2 DEF Inv, TypeOK, diskVars, historyVars
<1> QED
  BY <1>1, <1>3, <1>4, WorkflowsAlone, ClientsAlone, KeysAlone DEF Inv, diskVars, historyVars

\* What happens around the controller.
LEMMA AroundStep ==
  ASSUME Inv, ZoneChanges \/ DayPasses \/ Crash
  PROVE  Inv' /\ EnrollStays
<1>1. CASE ZoneChanges
  <2>1. UNCHANGED <<scope, diskVars, tick, client, waits, baseline, admitted, acted, crashes>>
        /\ changes < MaxChanges /\ changes' = changes + 1
    BY <1>1 DEF ZoneChanges
  <2>2. pdns' \in [Zones -> ZoneState]
    <3>1. PICK z \in Zones :
            \/ \E s \in Schemes : pdns' = [pdns EXCEPT ![z] = [dnssec |-> TRUE, scheme |-> s]]
            \/ pdns' = [pdns EXCEPT ![z].dnssec = FALSE]
      BY <1>1 DEF ZoneChanges
    <3>2. pdns \in [Zones -> ZoneState]
      BY DEF Inv, TypeOK
    <3>3. CASE pdns' = [pdns EXCEPT ![z].dnssec = FALSE]
      BY <3>2, <3>3, SchemeSet
    <3>4. CASE \E s \in Schemes : pdns' = [pdns EXCEPT ![z] = [dnssec |-> TRUE, scheme |-> s]]
      <4>1. PICK s \in Schemes : pdns' = [pdns EXCEPT ![z] = [dnssec |-> TRUE, scheme |-> s]]
        BY <3>4
      <4>2. [dnssec |-> TRUE, scheme |-> s] \in ZoneState
        BY DEF ZoneState
      <4> QED
        BY <3>2, <4>1, <4>2
    <3> QED
      BY <3>1, <3>3, <3>4
  <2>3. changes' \in 0..MaxChanges
    BY <2>1, AdmissionAssumptions DEF Inv, TypeOK
  <2>4. TypeOK'
    BY <2>1, <2>2, <2>3 DEF Inv, TypeOK, diskVars
  <2> QED
    BY <2>1, <2>4, WorkflowsAlone, TickAlone, ClientsAlone, KeysAlone DEF Inv, diskVars
<1>2. CASE DayPasses
  <2>1. UNCHANGED <<pdns, scope, wf, tried, armed, idem, tick, client, waits,
                    baseline, acted, changes, crashes>>
        /\ recent' \subseteq recent /\ admitted' \subseteq admitted
    BY <1>2 DEF DayPasses
  <2>2. TypeOK'
    BY <2>1 DEF Inv, TypeOK
  <2> QED
    BY <2>1, <2>2, WorkflowsAlone, TickAlone, ClientsAlone, KeysAlone DEF Inv
<1>3. CASE Crash
  <2>1. UNCHANGED <<pdns, diskVars, baseline, admitted, acted, changes>> /\ tick' = Free
        /\ crashes < MaxCrashes /\ crashes' = crashes + 1 /\ waits' = [z \in Zones |-> {}]
    BY <1>3 DEF Crash
  <2>2. scope' \in [Zones -> {"out", "rotation", "enroll"}]
    <3>1. \/ scope' = scope
          \/ \E z \in Zones, t \in {"out", "rotation", "enroll"} : scope' = [scope EXCEPT ![z] = t]
      BY <1>3 DEF Crash
    <3> QED
      BY <3>1 DEF Inv, TypeOK
  <2>3. client' = [c \in Clients |-> IF Pending(c) THEN NoClient ELSE client[c]]
    BY <1>3 DEF Crash
  <2>4. NoClient \in ClientState /\ NoClient.stage = "none"
    BY DEF NoClient, ClientState
  <2>5. client' \in [Clients -> ClientState]
    BY <2>3, <2>4 DEF Inv, TypeOK
  <2>6. ClientInv'
    BY <2>3, <2>4 DEF Inv, ClientInv
  <2>7. KeyInv'
    <3>1. idem' = idem /\ acted' = acted
      BY <2>1 DEF diskVars
    <3>2. ASSUME Apart PROVE AnswersHonest'
      <4>1. AnswersHonest
        BY <3>2 DEF Inv, KeyInv
      <4> QED
        BY <2>3, <2>4, <3>1, <4>1 DEF AnswersHonest
    <3> QED
      BY <3>1, <3>2 DEF Inv, KeyInv
  <2>8. tick' \in TickState /\ TickInv'
    BY <2>1, FreeType, BetweenZones DEF Free
  <2>9. crashes' \in 0..MaxCrashes /\ waits' \in [Zones -> SUBSET Clients]
    BY <2>1, AdmissionAssumptions DEF Inv, TypeOK
  <2>10. TypeOK'
    BY <2>1, <2>2, <2>5, <2>8, <2>9 DEF Inv, TypeOK, diskVars
  <2> QED
    BY <2>1, <2>6, <2>7, <2>8, <2>10, WorkflowsAlone DEF Inv, diskVars
<1> QED
  BY <1>1, <1>2, <1>3

\* A key without a record gets one for a request that starts nothing.
LEMMA Recorded ==
  ASSUME Inv, NEW key \in IdemKeys, NEW r, idem[key] = NoRequest \/ (Apart => key \notin RequestKeys),
         r \notin TriggerRequest \cup {NoRequest},
         idem' = [idem EXCEPT ![key] = r], UNCHANGED <<acted, client>>
  PROVE  KeyInv'
<1>1. idem \in [IdemKeys -> Request]
  BY DEF Inv, TypeOK
<1>2. idem'[key] = r /\ \A k \in IdemKeys \ {key} : idem'[k] = idem[k]
  BY <1>1
<1>3. \A k \in IdemKeys :
        /\ acted[k] \in {0, 1}
        /\ idem[k] = NoRequest => acted[k] = 0
        /\ idem[k] \in TriggerRequest => k \in RequestKeys
        /\ Apart => acted[k] = (IF idem[k] \in TriggerRequest THEN 1 ELSE 0)
  BY DEF Inv, KeyInv
<1>4. \A k \in IdemKeys :
        /\ acted'[k] \in {0, 1}
        /\ idem'[k] = NoRequest => acted'[k] = 0
        /\ idem'[k] \in TriggerRequest => k \in RequestKeys
        /\ Apart => acted'[k] = (IF idem'[k] \in TriggerRequest THEN 1 ELSE 0)
  BY <1>2, <1>3
<1>5. ASSUME Apart PROVE AnswersHonest'
  <2>1. SUFFICES ASSUME NEW c \in Clients, client[c].stage = "ok"
                 PROVE  idem'[client[c].key] = client[c].request
    BY DEF AnswersHonest
  <2>2. idem[client[c].key] = client[c].request
    BY <1>5, <2>1 DEF Inv, KeyInv, AnswersHonest
  <2>3. client[c].request \in TriggerRequest /\ client[c].key \in RequestKeys
    BY <2>1 DEF Inv, ClientInv
  <2>4. client[c].key # key
    BY <1>5, <2>2, <2>3, RequestsDiffer
  <2> QED
    BY <1>2, <2>2, <2>3, <2>4 DEF IdemKeys
<1> QED
  BY <1>4, <1>5 DEF KeyInv

\* The Update of Resume restarts splits, never enrollments.
LEMMA ResumeStep ==
  ASSUME Inv, NEW zones \in SUBSET Zones, zones # {}, NEW key \in RequestKeys,
         Resume(zones, key)
  PROVE  Inv' /\ EnrollStays
<1> DEFINE r == [kind |-> "resume", zones |-> zones]
<1>1. UNCHANGED <<pdns, scope, tried, recent, armed, tick, client, baseline, admitted,
                  acted, changes, crashes>>
      /\ tick.stage = "free" /\ Lookup(key, r) = "unused"
      /\ idem' = [idem EXCEPT ![key] = r]
  BY DEF Resume
<1>2. r \in Request /\ r \notin TriggerRequest \cup {NoRequest}
  <2>1. r \in ResumeRequest
    BY DEF ResumeRequest
  <2> QED
    BY <2>1, RequestsDiffer DEF Request
<1>3. idem[key] = NoRequest /\ key \in IdemKeys
  BY <1>1 DEF Lookup, IdemKeys
<1> HIDE DEF r
<1>4. wf' \in Phases /\ \A x \in Zones : wf'[x]["enroll"] = wf[x]["enroll"]
  <2>1. wf \in Phases
    BY DEF Inv, TypeOK, Phases
  <2>2. wf' = [z \in Zones |-> IF z \in zones
                 THEN [wf[z] EXCEPT !["split"] = "active"] ELSE wf[z]]
    BY DEF Resume
  <2> QED
    BY <2>1, <2>2 DEF Phases, States, AllKinds, RotationKinds
<1>5. waits' \in [Zones -> SUBSET Clients]
  <2>1. Older \in SUBSET Clients
    BY DEF Older
  <2> QED
    BY <2>1 DEF Resume, Inv, TypeOK
<1>6. idem' \in [IdemKeys -> Request]
  BY <1>1, <1>2, <1>3 DEF Inv, TypeOK
<1>7. TypeOK'
  BY <1>1, <1>4, <1>5, <1>6 DEF Inv, TypeOK, Phases
<1>8. KeyInv'
  BY <1>1, <1>2, <1>3, Recorded
<1> QED
  BY <1>1, <1>4, <1>7, <1>8, EnrollChange, BetweenZones, ClientsAlone DEF Inv

\* The Update of ReconcileSplitSignerTransition only puts its key on record.
LEMMA ReconcileStep ==
  ASSUME Inv, NEW z \in Zones, NEW key \in RequestKeys,
         ReconcileSplitSignerTransition(z, key)
  PROVE  Inv' /\ EnrollStays
<1> DEFINE r == [kind |-> "reconcile-split-signer", zones |-> {z}]
<1>1. UNCHANGED <<pdns, scope, wf, tried, recent, armed, tick, client, waits, baseline, admitted, acted,
                  changes, crashes>>
      /\ tick.stage = "free" /\ Lookup(key, r) = "unused"
      /\ idem' = [idem EXCEPT ![key] = r]
  BY DEF ReconcileSplitSignerTransition, historyVars
<1>2. r \in Request /\ r \notin TriggerRequest \cup {NoRequest}
  <2>1. r \in ResumeRequest
    BY DEF ResumeRequest
  <2> QED
    BY <2>1, RequestsDiffer DEF Request
<1>3. idem[key] = NoRequest /\ key \in IdemKeys
  BY <1>1 DEF Lookup, IdemKeys
<1> HIDE DEF r
<1>4. idem' \in [IdemKeys -> Request]
  BY <1>1, <1>2, <1>3 DEF Inv, TypeOK
<1>5. TypeOK'
  BY <1>1, <1>4 DEF Inv, TypeOK
<1>6. KeyInv'
  BY <1>1, <1>2, <1>3, Recorded
<1> QED
  BY <1>1, <1>5, <1>6, EnrollChange, BetweenZones, ClientsAlone DEF Inv

\* The Update of ArmEnrollment: no zone had an enroll record before.
LEMMA ArmUpdatesStep ==
  ASSUME Inv, ArmUpdates
  PROVE  Inv' /\ EnrollStays
<1>1. /\ UNCHANGED <<pdns, scope, tried, recent, client, waits, admitted, acted, changes, crashes>>
      /\ tick.stage = "arming" /\ tick' = Free /\ armed' = TRUE /\ baseline' = tick.seen
      /\ idem' = [idem EXCEPT ![tick.key] = ArmRequest]
      /\ wf' = [z \in Zones |-> IF z \in tick.seen /\ wf[z]["enroll"] = "absent"
                  THEN [wf[z] EXCEPT !["enroll"] = "idle"] ELSE wf[z]]
  BY DEF ArmUpdates, Baseline
<1>2. ~armed /\ tick.key \in ArmKeys /\ tick.key \in IdemKeys
  BY <1>1 DEF Inv, TickInv, IdemKeys
<1>3. tick.seen \subseteq Zones /\ wf \in Phases
  BY DEF Inv, TypeOK, TickState, Phases
<1>4. \A z \in Zones : wf[z]["enroll"] = "absent"
  BY <1>2 DEF Inv, ArmInv
<1>5. wf' \in Phases /\ \A z \in tick.seen : wf'[z]["enroll"] = "idle"
  BY <1>1, <1>3, <1>4 DEF Phases, States, AllKinds
<1>6. EnrollStays
  BY <1>4 DEF EnrollStays
<1>7. ArmInv'
  BY <1>1, <1>5 DEF ArmInv, BaselineNeverEnrolled
<1>8. tick' \in TickState /\ TickInv'
  BY <1>1, FreeType, BetweenZones DEF Free
<1>9. KeyInv'
  BY <1>1, <1>2, RequestsDiffer, Recorded DEF Apart
<1>10. idem' \in [IdemKeys -> Request] /\ armed' \in BOOLEAN
  <2>1. ArmRequest \in Request
    BY DEF Request
  <2>2. idem' \in [IdemKeys -> Request]
    BY <1>1, <1>2, <2>1 DEF Inv, TypeOK
  <2> QED
    BY <1>1, <2>2
<1>11. TypeOK'
  BY <1>1, <1>3, <1>5, <1>8, <1>10 DEF Inv, TypeOK, Phases
<1> QED
  BY <1>1, <1>6, <1>7, <1>8, <1>9, <1>11, ClientsAlone DEF Inv

\* The Update of Trigger: all zones start, or nothing but the answer changes.
LEMMA TriggerUpdatesStep ==
  ASSUME Inv, NEW c \in Clients, TriggerUpdates(c)
  PROVE  Inv' /\ EnrollStays
<1> DEFINE r == client[c].request
           key == client[c].key
<1>1. UNCHANGED <<pdns, scope, tried, recent, armed, tick, baseline, admitted, changes, crashes>>
      /\ client[c].stage = "read"
  BY DEF TriggerUpdates, Pending
<1>2. r \in TriggerRequest /\ key \in RequestKeys /\ key \in IdemKeys
  BY <1>1 DEF Inv, ClientInv, IdemKeys
<1>3. client \in [Clients -> ClientState] /\ waits \in [Zones -> SUBSET Clients]
      /\ wf \in Phases /\ idem \in [IdemKeys -> Request] /\ acted \in [IdemKeys -> 0..2]
  BY DEF Inv, TypeOK, Phases
<1>a. ASSUME NEW s \in {"ok", "refused"}, client' = [client EXCEPT ![c].stage = s]
      PROVE  /\ client' \in [Clients -> ClientState]
             /\ client'[c].stage = s /\ client'[c].request = r /\ client'[c].key = key
             /\ \A d \in Clients \ {c} : client'[d] = client[d]
             /\ ClientInv'
  <2>1. /\ client' \in [Clients -> ClientState]
        /\ client'[c].stage = s /\ client'[c].request = r /\ client'[c].key = key
        /\ \A d \in Clients \ {c} : client'[d] = client[d]
    <3>1. client' = Answered(client, c, s)
      BY <1>a DEF Answered
    <3> QED
      BY <1>3, <3>1, AnswerType
  <2> HIDE DEF r, key
  <2>2. ClientInv'
    BY <1>2, <2>1 DEF Inv, ClientInv
  <2> QED
    BY <2>1, <2>2
<1>4. CASE Lookup(key, r) = "unused" /\ Admitted(r)
  <2>1. /\ wf' = [z \in Zones |-> IF z \in r.zones
                    THEN [wf[z] EXCEPT ![r.kind] = "active"] ELSE wf[z]]
        /\ idem' = [idem EXCEPT ![key] = r]
        /\ acted' = [acted EXCEPT ![key] = @ + 1]
        /\ client' = [client EXCEPT ![c].stage = "ok"]
        /\ waits' = [z \in Zones |-> IF z \in r.zones THEN Older \ {c} ELSE waits[z] \ {c}]
    BY <1>4 DEF TriggerUpdates
  <2>2. idem[key] = NoRequest /\ acted[key] = 0
    BY <1>2, <1>4 DEF Lookup, Inv, KeyInv
  <2>3. r \in Request /\ r # NoRequest /\ r.zones \subseteq Zones /\ r.kind \in RotationKinds
    <3>1. r \in Request /\ r # NoRequest
      BY <1>2, RequestsDiffer DEF Request
    <3> QED
      BY <1>2, <3>1, AdmissionAssumptions DEF TriggerRequest, RotationKinds
  <2>4. /\ client' \in [Clients -> ClientState] /\ ClientInv'
        /\ client'[c].request = r /\ client'[c].key = key
        /\ \A d \in Clients \ {c} : client'[d] = client[d]
    BY <1>a, <2>1
  <2> HIDE DEF r, key
  <2>5. wf' \in Phases
        /\ (\A x \in Zones : wf'[x]["enroll"] = wf[x]["enroll"])
        /\ \A x \in Zones \ r.zones : wf'[x] = wf[x]
    BY <1>3, <2>1, <2>3 DEF Phases, States, AllKinds, RotationKinds
  <2>6. waits' \in [Zones -> SUBSET Clients]
    <3>1. Older \in SUBSET Clients
      BY DEF Older
    <3> QED
      BY <1>3, <2>1, <3>1
  <2>7. idem' \in [IdemKeys -> Request] /\ acted' \in [IdemKeys -> 0..2]
    BY <1>2, <1>3, <2>1, <2>2, <2>3
  <2>8. TypeOK'
    BY <1>1, <2>4, <2>5, <2>6, <2>7 DEF Inv, TypeOK, Phases
  <2>9. TickInv'
    <3>1. tick.stage = "advance" => tick.zone \in Zones /\ tick.zone \notin r.zones
      BY <1>4 DEF Inv, TickInv, Admitted
    <3>2. tick.stage = "advance" => wf'[tick.zone] = wf[tick.zone]
      BY <2>5, <3>1
    <3>3. tick.stage = "advance" =>
            /\ {k \in AllKinds : IsActive(wf'[tick.zone][k])} = {tick.kind}
            /\ wf'[tick.zone][tick.kind] = "active"
      BY <3>2 DEF Inv, TickInv, ActiveKinds
    <3>4. tick.stage = "block" /\ tick.kind = "enroll" => IsActive(wf'[tick.zone]["enroll"])
      BY <2>5 DEF Inv, TickInv
    <3> QED
      BY <1>1, <3>3, <3>4 DEF Inv, TickInv, ActiveKinds
  <2>10. KeyInv'
    <3>1. \A k \in IdemKeys : IF k = key THEN idem'[k] = r /\ acted'[k] = 1
                              ELSE idem'[k] = idem[k] /\ acted'[k] = acted[k]
      BY <1>2, <1>3, <2>1, <2>2
    <3>2. \A k \in IdemKeys :
            /\ acted'[k] \in {0, 1}
            /\ idem'[k] = NoRequest => acted'[k] = 0
            /\ idem'[k] \in TriggerRequest => k \in RequestKeys
            /\ Apart => acted'[k] = (IF idem'[k] \in TriggerRequest THEN 1 ELSE 0)
      BY <1>2, <2>3, <3>1 DEF Inv, KeyInv
    <3>3. ASSUME Apart PROVE AnswersHonest'
      <4>1. SUFFICES ASSUME NEW d \in Clients, client'[d].stage = "ok"
                     PROVE  idem'[client'[d].key] = client'[d].request
        BY DEF AnswersHonest
      <4>2. CASE d = c
        BY <1>2, <2>4, <3>1, <4>2
      <4>3. CASE d # c
        <5>1. client[d].stage = "ok" /\ client'[d] = client[d]
          BY <2>4, <4>1, <4>3
        <5>2. idem[client[d].key] = client[d].request
          BY <3>3, <5>1 DEF Inv, KeyInv, AnswersHonest
        <5>3. client[d].request \in TriggerRequest /\ client[d].key \in RequestKeys
          BY <5>1 DEF Inv, ClientInv
        <5>4. client[d].key # key
          BY <2>2, <5>2, <5>3, RequestsDiffer
        <5> QED
          BY <3>1, <5>1, <5>2, <5>3, <5>4 DEF IdemKeys
      <4> QED
        BY <4>2, <4>3
    <3> QED
      BY <3>2, <3>3 DEF KeyInv
  <2> QED
    BY <1>1, <2>4, <2>5, <2>8, <2>9, <2>10, EnrollChange DEF Inv
<1>5. CASE ~(Lookup(key, r) = "unused" /\ Admitted(r))
  <2>1. PICK s \in {"ok", "refused"} :
          Answer(c, s) /\ UNCHANGED <<wf, idem, acted>> /\ (s = "ok" => idem[key] = r)
    <3>1. CASE Lookup(key, r) = "repeated"
      <4>1. idem[key] = r
        BY <3>1 DEF Lookup
      <4>2. Lookup(key, r) # "unused"
        BY <3>1
      <4> QED
        BY <3>1, <4>1, <4>2 DEF TriggerUpdates
    <3>2. CASE Lookup(key, r) # "repeated"
      BY <1>5, <3>2 DEF TriggerUpdates
    <3> QED
      BY <3>1, <3>2
  <2>2. client' = [client EXCEPT ![c].stage = s] /\ waits' = [z \in Zones |-> waits[z] \ {c}]
    BY <2>1 DEF Answer
  <2>3. /\ client' \in [Clients -> ClientState] /\ ClientInv'
        /\ client'[c].stage = s /\ client'[c].request = r /\ client'[c].key = key
        /\ \A d \in Clients \ {c} : client'[d] = client[d]
    BY <1>a, <2>2
  <2> HIDE DEF r, key
  <2>4. waits' \in [Zones -> SUBSET Clients]
    BY <1>3, <2>2
  <2>5. TypeOK'
    BY <1>1, <2>1, <2>3, <2>4 DEF Inv, TypeOK
  <2>6. KeyInv'
    <3>1. ASSUME Apart PROVE AnswersHonest'
      <4>1. AnswersHonest
        BY <3>1 DEF Inv, KeyInv
      <4> QED
        BY <2>1, <2>3, <4>1 DEF AnswersHonest
    <3> QED
      BY <2>1, <3>1 DEF Inv, KeyInv
  <2> QED
    BY <1>1, <2>1, <2>3, <2>5, <2>6, WorkflowsAlone, TickAlone DEF Inv
<1> QED
  BY <1>4, <1>5

\* One step, whoever takes it.
LEMMA StepInv == Inv /\ [Next]_vars => Inv' /\ EnrollStays
<1> SUFFICES ASSUME Inv, [Next]_vars PROVE Inv' /\ EnrollStays
  OBVIOUS
<1>1. CASE UNCHANGED vars
  <2>1. TypeOK'
    BY <1>1 DEF Inv, TypeOK, vars
  <2> QED
    BY <1>1, <2>1, WorkflowsAlone, TickAlone, ClientsAlone, KeysAlone DEF Inv, vars
<1>2. CASE \E zones \in (SUBSET Zones) \ {{}}, key \in RequestKeys : Resume(zones, key)
  BY <1>2, ResumeStep
<1>3. CASE \E c \in Clients, r \in TriggerRequest, key \in RequestKeys : TriggerReads(c, r, key)
  BY <1>3, TriggerReadsStep
<1>4. CASE \E c \in Clients : TriggerUpdates(c)
  BY <1>4, TriggerUpdatesStep
<1>5. CASE \E key \in ArmKeys : ArmReads(key)
  BY <1>5, ArmReadsStep
<1>6. CASE \E z \in Zones, key \in RequestKeys : ReconcileSplitSignerTransition(z, key)
  BY <1>6, ReconcileStep
<1> QED
  BY <1>1, <1>2, <1>3, <1>4, <1>5, <1>6, TickStep, ArmUpdatesStep, AroundStep DEF Next

\* The invariant holds throughout.
LEMMA InvAlways == Spec => []Inv
BY InitInv, StepInv, PTL DEF Spec

\* Type correctness of the admission state.
THEOREM AdmissionTypeCorrect == Spec => []TypeOK
<1>1. Inv => TypeOK
  BY DEF Inv
<1> QED
  BY <1>1, InvAlways, PTL

\* reconcileZone's decision still holds when advance acts on it, whatever
\* Trigger did without c.mu in between.
THEOREM AdvancesAlone == Spec => []AdvancedAlone
<1>1. Inv => AdvancedAlone
  BY DEF Inv, TickInv, AdvancedAlone
<1> QED
  BY <1>1, InvAlways, PTL

\* A zone that ArmEnrollment put on record is never enrolled.
THEOREM BaselineStaysOut == Spec => []BaselineNeverEnrolled
<1>1. Inv => BaselineNeverEnrolled
  BY DEF Inv, ArmInv
<1> QED
  BY <1>1, InvAlways, PTL

\* bootstrap, Trigger, Resume and Tick leave an ended enrollment as it is.
THEOREM EndedEnrollmentsStay == Spec => EndedEnrollmentStays
<1>1. Inv /\ [Next]_vars => [\A z \in Zones : wf[z]["enroll"] \in {"idle", "blocked"} =>
                                wf'[z]["enroll"] = wf[z]["enroll"]]_vars
  BY StepInv DEF EnrollStays
<1> QED
  BY <1>1, InvAlways, PTL DEF Spec, EndedEnrollmentStays

\* Keys kept apart from those of ArmEnrollment start workflows at most once.
THEOREM KeysActOnce == ASSUME ArmKeys \cap RequestKeys = {} PROVE Spec => []KeyActsOnce
<1>1. Inv => KeyActsOnce
  BY DEF Inv, KeyInv, KeyActsOnce, Apart
<1> QED
  BY <1>1, InvAlways, PTL

\* An accepted request of such a key is on record.
THEOREM AnswersAreHonest == ASSUME ArmKeys \cap RequestKeys = {} PROVE Spec => []AnswersHonest
<1>1. Inv => AnswersHonest
  BY DEF Inv, KeyInv, Apart
<1> QED
  BY <1>1, InvAlways, PTL

\* The enrollments that run, and what the breaker counts as pending.
Running == {z \in Zones : wf[z]["enroll"] = "active"}
Counted == {z \in Zones : IsActive(wf[z]["enroll"])}

\* What the daily limit counts includes what it limits.
AdmittedRecently == admitted \subseteq recent

\* No enrollment is begun by this step.
Fewer == admitted' \subseteq admitted /\ admitted' \subseteq recent'

\* No step but bootstrap's lets an enrollment run that did not, or counts one
\* as begun: Block and advance end enrollments, Start, Trigger and Resume
\* begin rotations, ArmEnrollment writes idle records.
LEMMA OnlyBootstrapEnrolls ==
  ASSUME Inv, AdmittedRecently, Next, ~bootstrap
  PROVE  Fewer /\ Running' \subseteq Running
<1>t. wf \in Phases /\ "enroll" \in AllKinds /\ "blocked" \in States /\ "active" \in States
  BY DEF Inv, TypeOK, Phases, AllKinds, States
<1> USE DEF AdmittedRecently, Fewer
<1> SUFFICES /\ Fewer
             /\ \A x \in Zones : wf'[x]["enroll"] = "active" => wf[x]["enroll"] = "active"
  BY DEF Running
<1>1. CASE UNCHANGED <<wf, recent, admitted>>
  BY <1>1
<1>2. CASE TickBegin \/ ListKeys \/ Decide
  BY <1>1, <1>2 DEF TickBegin, ListKeys, Decide, diskVars, historyVars
<1>3. CASE Block
  <2>1. /\ tick.zone \in Zones /\ tick.kind \in AllKinds /\ UNCHANGED <<recent, admitted>>
        /\ wf' = WithPhase(wf, tick.zone, tick.kind, "blocked")
    BY <1>3 DEF Block, historyVars, Inv, TickInv, WithPhase
  <2>2. \A x \in Zones : wf'[x]["enroll"] = wf[x]["enroll"] \/ wf'[x]["enroll"] = "blocked"
    BY <1>t, <2>1, PhaseSet
  <2> QED
    BY <2>1, <2>2
<1>4. CASE Start
  <2>1. /\ tick.zone \in Zones /\ tick.kind \in AllKinds /\ tick.kind # "enroll"
        /\ UNCHANGED <<recent, admitted>>
        /\ wf' = wf \/ wf' = WithPhase(wf, tick.zone, tick.kind, "active")
    BY <1>4 DEF Start, Inv, TickInv, WithPhase, AllKinds, RotationKinds
  <2>2. \A x \in Zones : wf'[x]["enroll"] = wf[x]["enroll"]
    BY <1>t, <2>1, PhaseSet
  <2> QED
    BY <2>1, <2>2
<1>5. CASE Advance
  <2>1. /\ tick.zone \in Zones /\ tick.kind \in AllKinds /\ UNCHANGED <<recent, admitted>>
        /\ \/ wf' = wf
           \/ wf' = WithPhase(wf, tick.zone, tick.kind, "blocked")
           \/ wf' = Completed(tick.zone, tick.kind)
    BY <1>5 DEF Advance, historyVars, Inv, TickInv, WithPhase
  <2>2. CASE wf' = WithPhase(wf, tick.zone, tick.kind, "blocked")
    <3>1. \A x \in Zones : wf'[x]["enroll"] = wf[x]["enroll"] \/ wf'[x]["enroll"] = "blocked"
      BY <1>t, <2>1, <2>2, PhaseSet
    <3> QED
      BY <2>1, <3>1
  <2>3. CASE wf' = Completed(tick.zone, tick.kind)
    <3>1. \A x \in Zones : wf'[x]["enroll"] = wf[x]["enroll"] \/ wf'[x]["enroll"] = "idle"
      BY <1>t, <2>1, <2>3 DEF Completed, Phases
    <3> QED
      BY <2>1, <3>1
  <2> QED
    BY <2>1, <2>2, <2>3
<1>6. CASE TickEnd
  <2>1. \A x \in Zones : wf'[x]["enroll"] = wf[x]["enroll"] \/ wf'[x]["enroll"] = "blocked"
    BY <1>6, <1>t DEF TickEnd, Phases
  <2> QED
    BY <1>6, <2>1 DEF TickEnd, historyVars
<1>7. ASSUME NEW c \in Clients, TriggerUpdates(c)
      PROVE  UNCHANGED <<recent, admitted>> /\ \A x \in Zones : wf'[x]["enroll"] = wf[x]["enroll"]
  <2> DEFINE r == client[c].request
  <2>1. r.kind \in RotationKinds /\ UNCHANGED <<recent, admitted>>
    BY <1>7, AdmissionAssumptions
       DEF TriggerUpdates, Pending, Inv, ClientInv, TriggerRequest, RotationKinds
  <2>2. \/ wf' = wf
        \/ wf' = [z \in Zones |-> IF z \in r.zones
                    THEN [wf[z] EXCEPT ![r.kind] = "active"] ELSE wf[z]]
    BY <1>7 DEF TriggerUpdates
  <2> HIDE DEF r
  <2> QED
    BY <1>t, <2>1, <2>2 DEF Phases, RotationKinds
<1>8. ASSUME NEW zones \in SUBSET Zones, NEW key \in RequestKeys, Resume(zones, key)
      PROVE  UNCHANGED <<recent, admitted>> /\ \A x \in Zones : wf'[x]["enroll"] = wf[x]["enroll"]
  BY <1>8, <1>t DEF Resume, Phases
<1>9. CASE ArmUpdates
  <2>1. \A x \in Zones : wf'[x]["enroll"] = wf[x]["enroll"] \/ wf'[x]["enroll"] = "idle"
    BY <1>9, <1>t DEF ArmUpdates, Phases
  <2> QED
    BY <1>9, <2>1 DEF ArmUpdates
<1>10. CASE DayPasses
  BY <1>10 DEF DayPasses
<1>11. CASE \/ \E c \in Clients, r \in TriggerRequest, key \in RequestKeys : TriggerReads(c, r, key)
            \/ \E z \in Zones, key \in RequestKeys : ReconcileSplitSignerTransition(z, key)
            \/ \E key \in ArmKeys : ArmReads(key)
            \/ ZoneChanges \/ Crash
  <2>1. CASE \E c \in Clients, r \in TriggerRequest, key \in RequestKeys : TriggerReads(c, r, key)
    BY <1>1, <2>1 DEF TriggerReads, diskVars, historyVars
  <2>2. CASE \/ \E z \in Zones, key \in RequestKeys : ReconcileSplitSignerTransition(z, key)
             \/ \E key \in ArmKeys : ArmReads(key)
    BY <1>1, <2>2 DEF ReconcileSplitSignerTransition, ArmReads, diskVars, historyVars
  <2>3. CASE ZoneChanges \/ Crash
    <3>1. UNCHANGED <<diskVars, admitted>>
      BY <2>3 DEF ZoneChanges, Crash
    <3> QED
      BY <1>1, <3>1 DEF diskVars
  <2> QED
    BY <1>11, <2>1, <2>2, <2>3
<1> QED
  BY <1>2, <1>3, <1>4, <1>5, <1>6, <1>7, <1>8, <1>9, <1>10, <1>11 DEF Next, Tick

\* bootstrap lets its zone run only below both limits; with the breaker open it
\* records the discovery all the same.
LEMMA BootstrapEnrolls ==
  ASSUME Inv, bootstrap
  PROVE  \/ /\ recent \subseteq recent' /\ admitted' = admitted
            /\ Running' \subseteq Running
         \/ /\ ~Breaker
            /\ \E z \in Zones : /\ recent' = recent \cup {z}
                               /\ admitted' = admitted \cup {z}
                               /\ Running' \subseteq Running \cup {z}
<1> DEFINE z == tick.zone
           records == WithRecords(SchemeKinds(tick.scheme))
<1>1. z \in Zones /\ tick.scheme \in Schemes /\ wf \in Phases
  BY DEF bootstrap, Inv, TickInv, TypeOK, Phases
<1>2. records \in [AllKinds -> States] /\ records["enroll"] = wf[z]["enroll"]
  <2>1. "enroll" \notin SchemeKinds(tick.scheme)
    BY <1>1 DEF SchemeKinds, Schemes
  <2> QED
    BY <1>1, <2>1 DEF WithRecords, Phases, States, AllKinds
<1>3. \/ wf' = [wf EXCEPT ![z] = records] /\ UNCHANGED <<recent, admitted>>
      \/ wf' = [wf EXCEPT ![z] = [records EXCEPT !["enroll"] = "idle"]]
         /\ UNCHANGED <<recent, admitted>>
      \/ /\ wf' = [wf EXCEPT ![z] = [records EXCEPT !["enroll"] = "active"]]
         /\ recent' = recent \cup {z} /\ admitted' = admitted \cup {z} /\ ~Breaker
      \/ /\ wf' = [wf EXCEPT ![z] = [records EXCEPT !["enroll"] = "blocked"]]
         /\ recent' = recent \cup {z} /\ admitted' = admitted
  <2> HIDE DEF records
  <2> QED
    BY DEF bootstrap, records
<1> HIDE DEF z, records
<1>4. ASSUME NEW row \in [AllKinds -> States], wf' = [wf EXCEPT ![z] = row]
      PROVE  /\ wf'[z] = row
             /\ \A x \in Zones \ {z} : wf'[x] = wf[x]
  BY <1>1, <1>4 DEF Phases
<1>5. ASSUME NEW s \in States
      PROVE  [records EXCEPT !["enroll"] = s] \in [AllKinds -> States]
             /\ [records EXCEPT !["enroll"] = s]["enroll"] = s
  BY <1>2 DEF AllKinds
<1>6. \A s \in {"idle", "active", "blocked"} : s \in States
  BY DEF States
<1>7. CASE wf' = [wf EXCEPT ![z] = records] /\ UNCHANGED <<recent, admitted>>
  <2>1. wf'[z]["enroll"] = wf[z]["enroll"] /\ \A x \in Zones \ {z} : wf'[x] = wf[x]
    BY <1>2, <1>4, <1>7
  <2> QED
    BY <1>7, <2>1 DEF Running
<1>8. ASSUME NEW s \in {"idle", "active", "blocked"},
             wf' = [wf EXCEPT ![z] = [records EXCEPT !["enroll"] = s]]
      PROVE  /\ Running' \subseteq Running \cup {z}
             /\ s # "active" => Running' \subseteq Running /\ z \notin Running'
  <2>1. wf'[z]["enroll"] = s /\ \A x \in Zones \ {z} : wf'[x] = wf[x]
    <3> DEFINE row == [records EXCEPT !["enroll"] = s]
    <3>1. row \in [AllKinds -> States] /\ row["enroll"] = s /\ wf' = [wf EXCEPT ![z] = row]
      BY <1>5, <1>6, <1>8
    <3> HIDE DEF row
    <3> QED
      BY <1>4, <3>1
  <2> QED
    BY <2>1 DEF Running
<1>9. CASE /\ wf' = [wf EXCEPT ![z] = [records EXCEPT !["enroll"] = "idle"]]
           /\ UNCHANGED <<recent, admitted>>
  BY <1>8, <1>9
<1>10. CASE /\ wf' = [wf EXCEPT ![z] = [records EXCEPT !["enroll"] = "active"]]
            /\ recent' = recent \cup {z} /\ admitted' = admitted \cup {z} /\ ~Breaker
  BY <1>1, <1>8, <1>10
<1>11. CASE /\ wf' = [wf EXCEPT ![z] = [records EXCEPT !["enroll"] = "blocked"]]
            /\ recent' = recent \cup {z} /\ admitted' = admitted
  BY <1>1, <1>8, <1>11
<1> QED
  BY <1>3, <1>7, <1>9, <1>10, <1>11

\* The limits hold when the controller first starts, and over every step.
LEMMA LimitsInit == Init => EnrollmentsLimited /\ AdmittedRecently
<1> SUFFICES ASSUME Init PROVE EnrollmentsLimited /\ AdmittedRecently
  OBVIOUS
<1>1. Running = {} /\ admitted = {}
  BY DEF Init, Running, AllKinds
<1>2. Cardinality(Running) = 0 /\ Cardinality(admitted) = 0
  BY <1>1, FS_EmptySet
<1> QED
  BY <1>1, <1>2, AdmissionAssumptions DEF EnrollmentsLimited, AdmittedRecently, Running

LEMMA LimitsStep ==
  ASSUME Inv, EnrollmentsLimited, AdmittedRecently, [Next]_vars
  PROVE  EnrollmentsLimited' /\ AdmittedRecently'
<1>a. \A S \in SUBSET Zones : IsFiniteSet(S) /\ Cardinality(S) \in Nat
  BY ZonesFinite, FS_Subset, FS_CardinalityType
<1>b. ASSUME NEW S \in SUBSET Zones, NEW T \in SUBSET S
      PROVE  Cardinality(T) <= Cardinality(S)
  BY <1>a, FS_Subset
<1>c. ASSUME NEW S \in SUBSET Zones, NEW z \in Zones
      PROVE  Cardinality(S \cup {z}) <= Cardinality(S) + 1
  BY <1>a, FS_AddElement
<1>d. /\ Running \in SUBSET Zones /\ Running' \in SUBSET Zones
      /\ Counted \in SUBSET Zones /\ recent \in SUBSET Zones
      /\ admitted \in SUBSET Zones
  BY DEF Running, Counted, Inv, TypeOK
<1>e. MaxPending \in Nat /\ MaxNewPerDay \in Nat
  BY AdmissionAssumptions
<1>f. Cardinality(Running) <= MaxPending /\ Cardinality(admitted) <= MaxNewPerDay
  BY DEF EnrollmentsLimited, Running
<1>g. SUFFICES /\ Cardinality(Running') <= MaxPending
               /\ Cardinality(admitted') <= MaxNewPerDay
               /\ admitted' \subseteq recent'
  BY DEF EnrollmentsLimited, AdmittedRecently, Running
<1>1. CASE Fewer /\ Running' \subseteq Running
  <2>1. admitted' \in SUBSET admitted /\ admitted' \in SUBSET Zones
    BY <1>1, <1>d DEF Fewer
  <2>2. /\ Cardinality(Running') <= Cardinality(Running)
        /\ Cardinality(admitted') <= Cardinality(admitted)
    BY <1>1, <1>b, <1>d, <2>1
  <2>3. \A S \in {Running, Running', admitted, admitted'} : Cardinality(S) \in Nat
    BY <1>a, <1>d, <2>1
  <2> QED
    BY <1>1, <1>e, <1>f, <2>2, <2>3 DEF Fewer
<1>2. ASSUME ~Breaker, NEW z \in Zones, recent' = recent \cup {z},
             admitted' = admitted \cup {z}, Running' \subseteq Running \cup {z}
      PROVE  /\ Cardinality(Running') <= MaxPending
             /\ Cardinality(admitted') <= MaxNewPerDay
             /\ admitted' \subseteq recent'
  <2>1. Cardinality(Counted) < MaxPending /\ Cardinality(recent) < MaxNewPerDay
    BY <1>2, <1>a, <1>d, <1>e DEF Breaker, Counted
  <2>2. Running' \subseteq Counted \cup {z} /\ admitted' \subseteq recent \cup {z}
    BY <1>2 DEF Running, Counted, IsActive, AdmittedRecently
  <2>3. /\ Cardinality(Running') <= Cardinality(Counted \cup {z})
        /\ Cardinality(admitted') <= Cardinality(recent \cup {z})
    <3>1. Counted \cup {z} \in SUBSET Zones /\ recent \cup {z} \in SUBSET Zones
      BY <1>d, <1>2
    <3> QED
      BY <1>b, <2>2, <3>1
  <2>4. /\ Cardinality(Counted \cup {z}) <= Cardinality(Counted) + 1
        /\ Cardinality(recent \cup {z}) <= Cardinality(recent) + 1
    BY <1>c, <1>d, <1>2
  <2>5. \A S \in {Running', admitted', Counted, recent, Counted \cup {z}, recent \cup {z}} :
          Cardinality(S) \in Nat
    BY <1>a, <1>d, <1>2
  <2> QED
    BY <1>2, <1>e, <2>1, <2>2, <2>3, <2>4, <2>5
<1>3. CASE UNCHANGED vars
  BY <1>1, <1>3 DEF vars, Running, Fewer, AdmittedRecently
<1>4. CASE Next /\ ~bootstrap
  BY <1>1, <1>4, OnlyBootstrapEnrolls
<1>5. CASE bootstrap
  <2>1. CASE recent \subseteq recent' /\ admitted' = admitted /\ Running' \subseteq Running
    BY <1>1, <2>1 DEF Fewer, AdmittedRecently
  <2> QED
    BY <1>2, <1>5, <2>1, BootstrapEnrolls
<1> QED
  BY <1>3, <1>4, <1>5

\* bootstrap's circuit breaker holds for any number of zones, over restarts,
\* changes of the configuration and discoveries that grow old: both of what
\* runs and of what was begun within 24 hours, however it ended.
THEOREM EnrollmentsAreLimited == Spec => []EnrollmentsLimited
BY LimitsInit, LimitsStep, InvAlways, PTL DEF Spec

=============================================================================
