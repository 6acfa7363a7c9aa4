-------------------------- MODULE EnrollmentProofs --------------------------
(***************************************************************************)
(* Proofs about Enrollment for every TTL, wait, lag and bound.             *)
(*                                                                         *)
(* None of the properties is inductive.  Inv adds what the handlers rely   *)
(* on without saying so: which phases come before the attempt is on disk,  *)
(* that a registrar that has nothing has left nothing at the parent, and   *)
(* how long what was cached before the zone was signed, or before its DS   *)
(* appeared, can still be used, counted against the wait the workflow has  *)
(* before it.                                                              *)
(***************************************************************************)
EXTENDS Enrollment, WorldProofs

(* The shapes of the handlers.                                             *)

Candidate ==
  [NoRecord EXCEPT !.phase = "enroll_discovered", !.zoneID = zone.id,
     !.disposition = "candidate"]

Early == {"unknown", "enroll_discovered"}

Blocks == Active /\ wf' = Blocked(wf)

Dismisses ==
  /\ wf.phase \in Early
  /\ \E w \in {wf, [NoRecord EXCEPT !.zoneID = zone.id]} : wf' = Ineligible(w)

Discovers == wf.phase = "unknown" /\ wf' = Candidate

Records ==
  \E w \in {wf, Candidate}, p \in CleanPairs :
    /\ wf.phase \in Early /\ w.phase = "enroll_discovered"
    /\ wf' = Recorded(w, p[1], p[2])

StartsWait ==
  /\ wf.phase = "enroll_discovered" /\ wf.next = 0
  /\ wf' = [wf EXCEPT !.phase = "enroll_wait_publish", !.next = 0]

SeesZone ==
  /\ wf.phase = "enroll_wait_publish" /\ ~wf.evidence /\ EnrollmentEvidence
  /\ wf' = [wf EXCEPT !.evidence = TRUE, !.phase = "enroll_wait_publish",
                      !.next = PublishWait]

TrustsZone ==
  /\ wf.phase = "enroll_wait_publish" /\ wf.next = 0 /\ wf.evidence
  /\ wf' = [wf EXCEPT !.evidence = FALSE, !.phase = "enroll_parent_add", !.next = 0]

FindsMaterial ==
  /\ wf.phase = "enroll_parent_add"
  /\ wf' = [wf EXCEPT !.evidence = FALSE, !.phase = "enroll_wait_parent", !.next = 0]

KeepsCTID ==
  /\ wf.phase = "enroll_parent_add"
  /\ wf' = [wf EXCEPT !.ctid = TRUE, !.phase = "enroll_parent_add", !.next = 0]

FollowsJob ==
  /\ wf.phase = "enroll_wait_parent" /\ wf.job = "open"
  /\ wf' = [wf EXCEPT !.job = "done", !.phase = "enroll_wait_parent", !.next = 0]

SeesDS ==
  /\ wf.phase = "enroll_wait_parent" /\ wf.job # "open"
  /\ AuthoritativeDSEvidence(wf.ksk)
  /\ wf' = [wf EXCEPT !.evidence = TRUE, !.phase = "enroll_wait_parent",
                      !.next = ParentWait]

Completes ==
  /\ \/ wf.phase = "enroll_discovered"
     \/ wf.phase = "enroll_wait_parent" /\ wf.evidence /\ wf.next = 0
  /\ DomainDNSSEC = {wf.ksk} /\ AuthoritativeDSEvidence(wf.ksk)
  /\ wf' = [NoRecord EXCEPT !.phase = "idle", !.ksk = wf.ksk, !.zsk = wf.zsk,
              !.zoneID = wf.zoneID, !.disposition = "enrolled"]

\* A handler that ends with one update of the record ...
Handled ==
  /\ call = "none"
  /\ UNCHANGED <<worldVars, call, zone, inflight, lastID, puts, edits>>
  /\ faults' \in 0..MaxFaults
  /\ \/ Blocks \/ Dismisses \/ Discovers \/ Records \/ StartsWait \/ SeesZone
     \/ TrustsZone \/ FindsMaterial \/ KeepsCTID \/ FollowsJob \/ SeesDS \/ Completes

\* ... or with the attempt on record and the PUT before it.
Attempts ==
  /\ call = "none" /\ call' = "ready"
  /\ wf.phase = "enroll_parent_add" /\ ~wf.tried /\ ~Drifted
  /\ zone.dnssec /\ DomainDNSSEC = {}
  /\ wf' = WithRegistrarAttempt
  /\ UNCHANGED <<worldVars, bookVars>>

\* Every handler has one of these shapes.
LEMMA HandlerShapes ==
  ASSUME TypeOK,
         \/ bootstrap \/ ZoneLost \/ ScopeLost \/ enrollDiscovered
         \/ enrollWaitPublish \/ enrollParentAdd \/ enrollWaitParent
         \/ NoDSProbeFails
  PROVE  Handled \/ Attempts
<1>1. \A w : Persist(w) =>
        /\ UNCHANGED <<worldVars, call, zone, inflight, lastID, puts, edits>>
        /\ faults' \in 0..MaxFaults
        /\ wf' = w
  BY DEF Persist, bookVars, TypeOK
<1>2. call = "none"
  BY DEF bootstrap, ZoneLost, ScopeLost, enrollDiscovered, enrollWaitPublish,
         enrollParentAdd, enrollWaitParent, NoDSProbeFails, Due
<1>3. block /\ Active => Handled
  BY <1>1, <1>2 DEF block, Handled, Blocks
<1>4. \A ph : Due(ph) => wf.phase = ph /\ wf.next = 0 /\ zone.dnssec
  BY DEF Due
<1>5. CASE bootstrap
  <2>1. wf.phase = "unknown" /\ wf.phase \in Early
    BY <1>5 DEF bootstrap, Early
  <2>2. \/ Persist(Ineligible([NoRecord EXCEPT !.zoneID = zone.id]))
        \/ Persist(Candidate)
        \/ \E p \in CleanPairs : Persist(Recorded(Candidate, p[1], p[2]))
    BY <1>5 DEF bootstrap, Candidate
  <2>3. Candidate.phase = "enroll_discovered"
    BY DEF Candidate, NoRecord
  <2>4. \/ wf' = Ineligible([NoRecord EXCEPT !.zoneID = zone.id])
        \/ wf' = Candidate
        \/ \E p \in CleanPairs : wf' = Recorded(Candidate, p[1], p[2])
    BY <2>2, <1>1
  <2>5. Dismisses \/ Discovers \/ Records
    BY <2>1, <2>3, <2>4 DEF Dismisses, Discovers, Records
  <2> QED BY <1>1, <1>2, <2>2, <2>5 DEF Handled
<1>6. CASE ZoneLost \/ ScopeLost
  BY <1>3, <1>6 DEF ZoneLost, ScopeLost
<1>7. CASE enrollDiscovered
  <2>1. wf.phase = "enroll_discovered" /\ wf.phase \in Early /\ wf.next = 0 /\ Active
    BY <1>4, <1>7 DEF enrollDiscovered, Early, Active
  <2>2. \/ RecordKeyset \/ block
        \/ DomainDNSSEC = {wf.ksk} /\ AdoptExisting
        \/ transition(wf, "enroll_wait_publish", 0)
    BY <1>7 DEF enrollDiscovered
  <2>3. CASE RecordKeyset
    <3>1. Persist(Ineligible(wf)) \/ \E p \in CleanPairs : Persist(Recorded(wf, p[1], p[2]))
      BY <2>3 DEF RecordKeyset
    <3>2. Dismisses \/ Records
      BY <3>1, <2>1, <1>1 DEF Dismisses, Records
    <3> QED BY <3>1, <3>2, <1>1, <1>2 DEF Handled
  <2>4. CASE DomainDNSSEC = {wf.ksk} /\ AdoptExisting
    BY <2>4, <2>1, <1>1, <1>2 DEF AdoptExisting, complete, Handled, Completes
  <2>5. CASE transition(wf, "enroll_wait_publish", 0)
    BY <2>5, <2>1, <1>1, <1>2 DEF transition, Handled, StartsWait
  <2> QED BY <2>1, <2>2, <2>3, <2>4, <2>5, <1>3
<1>8. CASE enrollWaitPublish
  <2>1. wf.phase = "enroll_wait_publish" /\ wf.next = 0 /\ Active
    BY <1>4, <1>8 DEF enrollWaitPublish, Active
  <2>2. \/ block
        \/ /\ ~wf.evidence /\ EnrollmentEvidence
           /\ transition([wf EXCEPT !.evidence = TRUE], "enroll_wait_publish", PublishWait)
        \/ wf.evidence /\ transition([wf EXCEPT !.evidence = FALSE], "enroll_parent_add", 0)
    BY <1>8 DEF enrollWaitPublish
  <2>3. CASE /\ ~wf.evidence /\ EnrollmentEvidence
             /\ transition([wf EXCEPT !.evidence = TRUE], "enroll_wait_publish", PublishWait)
    BY <2>3, <2>1, <1>1, <1>2 DEF transition, Handled, SeesZone
  <2>4. CASE wf.evidence /\ transition([wf EXCEPT !.evidence = FALSE], "enroll_parent_add", 0)
    BY <2>4, <2>1, <1>1, <1>2 DEF transition, Handled, TrustsZone
  <2> QED BY <2>1, <2>2, <2>3, <2>4, <1>3
<1>9. CASE enrollParentAdd
  <2>1. wf.phase = "enroll_parent_add" /\ zone.dnssec /\ Active
    BY <1>4, <1>9 DEF enrollParentAdd, Active
  <2>2. block \/ (~Drifted /\ EnrollmentEvidence /\ AddToParent)
    BY <1>9 DEF enrollParentAdd
  <2>3. CASE ~Drifted /\ EnrollmentEvidence /\ AddToParent
    <3>1. \/ transition([wf EXCEPT !.evidence = FALSE], "enroll_wait_parent", 0)
          \/ block
          \/ transition([wf EXCEPT !.ctid = TRUE], "enroll_parent_add", 0)
          \/ /\ ~wf.tried /\ DomainDNSSEC = {}
             /\ wf' = WithRegistrarAttempt /\ call' = "ready"
             /\ UNCHANGED <<worldVars, bookVars>>
      BY <2>3 DEF AddToParent
    <3>2. CASE transition([wf EXCEPT !.evidence = FALSE], "enroll_wait_parent", 0)
      BY <3>2, <2>1, <1>1, <1>2 DEF transition, Handled, FindsMaterial
    <3>3. CASE transition([wf EXCEPT !.ctid = TRUE], "enroll_parent_add", 0)
      BY <3>3, <2>1, <1>1, <1>2 DEF transition, Handled, KeepsCTID
    <3>4. CASE /\ ~wf.tried /\ DomainDNSSEC = {}
               /\ wf' = WithRegistrarAttempt /\ call' = "ready"
               /\ UNCHANGED <<worldVars, bookVars>>
      BY <3>4, <2>1, <2>3, <1>2 DEF Attempts, EnrollmentEvidence
    <3> QED BY <3>1, <3>2, <3>3, <3>4, <2>1, <1>3
  <2> QED BY <2>1, <2>2, <2>3, <1>3
<1>10. CASE enrollWaitParent
  <2>1. wf.phase = "enroll_wait_parent" /\ wf.next = 0 /\ Active
    BY <1>4, <1>10 DEF enrollWaitParent, Active
  <2>2. block \/ (wf.job = "open" /\ FollowJob) \/ (wf.job # "open" /\ AwaitDS)
                \/ (Drifted /\ block)
    BY <1>10 DEF enrollWaitParent
  <2>3. CASE wf.job = "open" /\ FollowJob
    <3>1. block \/ transition([wf EXCEPT !.job = "done"], "enroll_wait_parent", 0)
      BY <2>3 DEF FollowJob
    <3>2. CASE transition([wf EXCEPT !.job = "done"], "enroll_wait_parent", 0)
      BY <3>2, <2>1, <2>3, <1>1, <1>2 DEF transition, Handled, FollowsJob
    <3> QED BY <3>1, <3>2, <2>1, <1>3
  <2>4. CASE wf.job # "open" /\ AwaitDS
    <3>1. \/ block
          \/ transition([wf EXCEPT !.evidence = TRUE], "enroll_wait_parent", ParentWait)
          \/ wf.evidence /\ DomainDNSSEC = {wf.ksk} /\ complete
      BY <2>4 DEF AwaitDS
    <3>2. AuthoritativeDSEvidence(wf.ksk)
      BY <2>4 DEF AwaitDS
    <3>3. CASE transition([wf EXCEPT !.evidence = TRUE], "enroll_wait_parent", ParentWait)
      BY <3>2, <3>3, <2>1, <2>4, <1>1, <1>2 DEF transition, Handled, SeesDS
    <3>4. CASE wf.evidence /\ DomainDNSSEC = {wf.ksk} /\ complete
      BY <3>2, <3>4, <2>1, <1>1, <1>2 DEF complete, Handled, Completes
    <3> QED BY <3>1, <3>3, <3>4, <2>1, <1>3
  <2> QED BY <2>1, <2>2, <2>3, <2>4, <1>3
<1>11. CASE NoDSProbeFails
  <2>1. wf.phase = "enroll_parent_add" /\ Active
    BY <1>4, <1>11 DEF NoDSProbeFails, Active
  <2>2. faults' \in 0..MaxFaults
    BY <1>11, EnrollmentAssumptions DEF NoDSProbeFails, TypeOK
  <2> QED BY <2>1, <2>2, <1>2, <1>11 DEF NoDSProbeFails, Handled, Blocks
<1> QED BY <1>5, <1>6, <1>7, <1>8, <1>9, <1>10, <1>11
-----------------------------------------------------------------------------
(* Keysets.                                                                *)

\* The zone is signed with this KSK and this ZSK.
Good(ks, ksk, zsk) ==
  /\ \E k \in ks : k.id = ksk /\ k.active /\ k.published /\ Role(ks, k) = "ksk"
  /\ \E k \in ks : k.id = zsk /\ k.active /\ k.published /\ Role(ks, k) = "zsk"

SameSigners(before, after) ==
  \A k \in before \cup after : k.active => k \in before /\ k \in after

\* A key list the operator leaves behind: he invents identifiers and takes
\* keys away, but never brings one back.
Succeeds(before, after, last, newLast) ==
  /\ after \in SUBSET PowerDNSKey
  /\ newLast \in Nat /\ last <= newLast
  /\ \A k \in after : k.id \in 1..newLast
  /\ \A k \in after : k.id <= last => k \in before

OperatorServes ==
  /\ \E ks :
       /\ Serve(ks, zoneTTL, secondary)
       /\ Succeeds(keys, ks, lastID, lastID')
       /\ ~zone.dnssec \/ Unannounced \/ SameSigners(keys, ks)
  /\ (zone.dnssec => zone'.dnssec) \/ Unannounced
  /\ zone' \in [dnssec : BOOLEAN, id : Nat, selected : BOOLEAN]
  /\ edits' \in 0..MaxEdits
  /\ UNCHANGED <<registrar, parent, wf, call, inflight, puts, faults>>

KeysNumbered ==
  /\ \A k \in keys : k.id \in 1..lastID
  /\ wf.ksk <= lastID /\ wf.zsk <= lastID

\* A clean inventory is a signed zone.
LEMMA CleanIsGood ==
  ASSUME NEW p \in CleanPairs
  PROVE  Good(keys, p[1].id, p[2].id)
<1>1. /\ p[1] \in Inventory /\ p[1].active /\ p[1].published /\ p[1].keytype = "ksk"
      /\ p[2] \in Inventory /\ p[2].active /\ p[2].published /\ p[2].keytype = "zsk"
  BY DEF CleanPairs, validateEnrollmentInventory, validatedKeyRole
<1>2. \A x \in Inventory : \E k \in keys :
        /\ k.id = x.id /\ x.active = k.active /\ x.published = k.published
        /\ Role(keys, k) = x.keytype
  BY DEF Inventory, Listed
<1>3. PICK k \in keys : k.id = p[1].id /\ k.active /\ k.published /\ Role(keys, k) = "ksk"
  BY <1>1, <1>2
<1>4. PICK z \in keys : z.id = p[2].id /\ z.active /\ z.published /\ Role(keys, z) = "zsk"
  BY <1>1, <1>2
<1> QED BY <1>3, <1>4 DEF Good

\* What validateEnrollmentInventory checks before every step.
LEMMA NotDriftedIsGood ==
  ASSUME ~Drifted
  PROVE  Good(keys, wf.ksk, wf.zsk)
  BY CleanIsGood DEF Drifted

\* Keys that do not sign make no difference ...
LEMMA GoodForward ==
  ASSUME NEW before, NEW after, SameSigners(before, after),
         NEW ksk, NEW zsk, Good(before, ksk, zsk)
  PROVE  Good(after, ksk, zsk)
<1>1. RolesSplit(before) <=> RolesSplit(after)
  BY DEF RolesSplit, SameSigners
<1>2. \A k : Role(before, k) = Role(after, k)
  BY <1>1 DEF Role
<1> QED BY <1>2 DEF Good, SameSigners

\* ... and a keyset that is gone does not come back.
LEMMA GoodBackward ==
  ASSUME NEW before \in SUBSET PowerDNSKey, NEW after, NEW last \in Nat, NEW newLast,
         Succeeds(before, after, last, newLast),
         NEW ksk \in Nat, NEW zsk \in Nat, ksk <= last, zsk <= last,
         Good(after, ksk, zsk)
  PROVE  Good(before, ksk, zsk)
<1>1. PICK a \in after : a.id = ksk /\ a.active /\ a.published /\ Role(after, a) = "ksk"
  BY DEF Good
<1>2. PICK b \in after : b.id = zsk /\ b.active /\ b.published /\ Role(after, b) = "zsk"
  BY DEF Good
<1>3. a \in before /\ b \in before
  BY <1>1, <1>2 DEF Succeeds
<1>4. Role(before, a) = "ksk" /\ Role(before, b) = "zsk"
  <2>1. CASE ~DynamicRoles
    BY <2>1, <1>1, <1>2 DEF Role
  <2>2. CASE DynamicRoles
    <3>1. a.flags = 257 /\ b.flags # 257
      BY <2>2, <1>1, <1>2 DEF Role
    <3>2. b.flags = 256
      BY <1>3, <3>1 DEF PowerDNSKey
    <3>3. RolesSplit(before)
      BY <1>1, <1>2, <1>3, <3>1, <3>2 DEF RolesSplit
    <3> QED BY <2>2, <3>1, <3>3 DEF Role
  <2> QED BY <2>1, <2>2
<1> QED BY <1>1, <1>2, <1>3, <1>4 DEF Good

\* What the operators do to keys.
LEMMA OperatorShapes ==
  ASSUME TypeOK, KeysNumbered,
         \/ EnableDNSSEC \/ DisableDNSSEC \/ ReplaceKey \/ AddKey \/ RemoveAddedKey
  PROVE  OperatorServes
<1>0. /\ keys \in SUBSET PowerDNSKey /\ lastID \in Nat
      /\ \A k \in keys : k.id \in 1..lastID
      /\ zone \in [dnssec : BOOLEAN, id : Nat, selected : BOOLEAN]
      /\ edits \in 0..MaxEdits
  BY DEF TypeOK, WorldTypeOK, KeysNumbered
<1>3. edits' \in 0..MaxEdits
  <2>1. edits' = edits \/ Edit
    BY DEF EnableDNSSEC, DisableDNSSEC, ReplaceKey, AddKey, RemoveAddedKey
  <2> QED BY <1>0, <2>1, EnrollmentAssumptions DEF Edit
<1>4. \A k \in PowerDNSKey : k.made \in KeyTypes
  BY DEF PowerDNSKey
<1>5. /\ UNCHANGED <<registrar, parent, wf, call, inflight, puts, faults>>
      /\ (zone.dnssec => zone'.dnssec) \/ Unannounced
      /\ zone' \in [dnssec : BOOLEAN, id : Nat, selected : BOOLEAN]
  <2>1. CASE EnableDNSSEC
    BY <1>0, <2>1 DEF EnableDNSSEC
  <2>2. CASE DisableDNSSEC
    <3>1. Unannounced /\ UNCHANGED <<registrar, parent, wf, call, inflight, puts, faults>>
      BY <2>2 DEF DisableDNSSEC
    <3>2. \/ zone' = [zone EXCEPT !.dnssec = FALSE]
          \/ zone' = [zone EXCEPT !.dnssec = FALSE, !.id = @ + 1]
      BY <2>2 DEF DisableDNSSEC
    <3>3. zone' \in [dnssec : BOOLEAN, id : Nat, selected : BOOLEAN]
      <4>1. CASE zone' = [zone EXCEPT !.dnssec = FALSE]
        BY <1>0, <4>1
      <4>2. CASE zone' = [zone EXCEPT !.dnssec = FALSE, !.id = @ + 1]
        <5> DEFINE id == zone.id + 1
        <5>1. id \in Nat /\ zone' = [zone EXCEPT !.dnssec = FALSE, !.id = id]
          BY <1>0, <4>2
        <5> HIDE DEF id
        <5> QED BY <1>0, <5>1
      <4> QED BY <3>2, <4>1, <4>2
    <3> QED BY <3>1, <3>3
  <2>3. CASE ReplaceKey
    BY <1>0, <2>3 DEF ReplaceKey
  <2>4. CASE AddKey
    BY <1>0, <2>4 DEF AddKey
  <2>5. CASE RemoveAddedKey
    BY <1>0, <2>5 DEF RemoveAddedKey
  <2> QED BY <2>1, <2>2, <2>3, <2>4, <2>5
<1>6. \E ks : /\ Serve(ks, zoneTTL, secondary)
              /\ Succeeds(keys, ks, lastID, lastID')
              /\ ~zone.dnssec \/ Unannounced \/ SameSigners(keys, ks)
  <2>1. CASE EnableDNSSEC
    <3> DEFINE ksk == NewKey(lastID + 1, "ksk", TRUE)
               zsk == NewKey(lastID + 2, "zsk", TRUE)
               csk == NewKey(lastID + 1, "csk", TRUE)
    <3>1. /\ {ksk, zsk, csk} \subseteq PowerDNSKey
          /\ ksk.id = lastID + 1 /\ zsk.id = lastID + 2 /\ csk.id = lastID + 1
      BY <1>0 DEF NewKey, PowerDNSKey, flagsOf, KeyTypes
    <3>2. \/ Serve({ksk, zsk}, zoneTTL, secondary) /\ lastID' = lastID + 2
          \/ Serve({csk}, zoneTTL, secondary) /\ lastID' = lastID + 1
      BY <2>1 DEF EnableDNSSEC
    <3> HIDE DEF ksk, zsk, csk
    <3>3. lastID' = lastID + 2 => Succeeds(keys, {ksk, zsk}, lastID, lastID')
      BY <1>0, <3>1 DEF Succeeds
    <3>4. lastID' = lastID + 1 => Succeeds(keys, {csk}, lastID, lastID')
      BY <1>0, <3>1 DEF Succeeds
    <3> QED BY <3>2, <3>3, <3>4, <2>1 DEF EnableDNSSEC
  <2>2. CASE DisableDNSSEC
    BY <1>0, <2>2 DEF DisableDNSSEC, Succeeds
  <2>3. CASE ReplaceKey
    <3>1. PICK k \in keys :
            Serve((keys \ {k}) \cup {NewKey(lastID + 1, k.made, TRUE)}, zoneTTL, secondary)
      BY <1>0, <2>3 DEF ReplaceKey
    <3> DEFINE new == NewKey(lastID + 1, k.made, TRUE)
               ks == (keys \ {k}) \cup {new}
    <3>2. new \in PowerDNSKey /\ new.id = lastID + 1
      BY <1>0, <1>4 DEF NewKey, PowerDNSKey, flagsOf, KeyTypes
    <3>3. lastID' = lastID + 1
      BY <1>0, <2>3 DEF ReplaceKey
    <3> HIDE DEF new
    <3>4. Succeeds(keys, ks, lastID, lastID')
      BY <1>0, <3>2, <3>3 DEF Succeeds
    <3> QED BY <3>1, <3>4, <2>3 DEF ReplaceKey, new
  <2>4. CASE AddKey
    <3> DEFINE new == NewKey(lastID + 1, "zsk", FALSE)
               ks == keys \cup {new}
    <3>1. Serve(ks, zoneTTL, secondary) /\ lastID' = lastID + 1
      BY <1>0, <2>4 DEF AddKey
    <3>2. new \in PowerDNSKey /\ new.id = lastID + 1
      BY <1>0 DEF NewKey, PowerDNSKey, flagsOf, KeyTypes
    <3>3. ~new.active
      BY DEF NewKey
    <3> HIDE DEF new
    <3>4. Succeeds(keys, ks, lastID, lastID')
      BY <1>0, <3>1, <3>2 DEF Succeeds
    <3>5. SameSigners(keys, ks)
      BY <3>3 DEF SameSigners
    <3> QED BY <3>1, <3>4, <3>5
  <2>5. CASE RemoveAddedKey
    <3>1. PICK k \in keys : ~k.active /\ Serve(keys \ {k}, zoneTTL, secondary)
      BY <1>0, <2>5 DEF RemoveAddedKey
    <3>2. lastID' = lastID
      BY <1>0, <2>5 DEF RemoveAddedKey
    <3>3. Succeeds(keys, keys \ {k}, lastID, lastID')
      BY <1>0, <3>2 DEF Succeeds
    <3>4. SameSigners(keys, keys \ {k})
      BY <3>1 DEF SameSigners
    <3> QED BY <3>1, <3>3, <3>4
  <2> QED BY <2>1, <2>2, <2>3, <2>4, <2>5
<1> QED BY <1>3, <1>5, <1>6 DEF OperatorServes

-----------------------------------------------------------------------------
(* Types, key identifiers and caches.                                      *)

Base == TypeOK /\ KeysNumbered /\ CacheBounded

\* No record, a candidate and the waits are well typed.
LEMMA RecordParts ==
  ASSUME TypeOK
  PROVE  /\ NoRecord \in EnrollWorkflow /\ Candidate \in EnrollWorkflow
         /\ [NoRecord EXCEPT !.zoneID = zone.id] \in EnrollWorkflow
         /\ PublishWait \in Nat /\ ParentWait \in Nat
<1>1. zone.id \in Nat /\ 0 \in 0..AmbiguityLimit
  BY WaitAssumptions DEF TypeOK
<1>2. NoRecord \in EnrollWorkflow
  BY <1>1 DEF NoRecord, EnrollWorkflow
<1>3. Candidate \in EnrollWorkflow
  BY <1>1, <1>2 DEF Candidate, EnrollWorkflow, EnrollPhases
<1>4. [NoRecord EXCEPT !.zoneID = zone.id] \in EnrollWorkflow
  BY <1>1, <1>2 DEF EnrollWorkflow
<1>5. PublishWait \in Nat /\ ParentWait \in Nat
  BY WorldAssumptions, WaitAssumptions DEF PublishWait, ParentWait, maxDuration
<1> QED BY <1>2, <1>3, <1>4, <1>5

\* A handler persists a well typed record, and names only keys that PowerDNS
\* has given out.
LEMMA HandledRecord ==
  ASSUME Base, Handled
  PROVE  wf' \in EnrollWorkflow /\ wf'.ksk <= lastID /\ wf'.zsk <= lastID
<1>1. /\ wf \in EnrollWorkflow /\ lastID \in Nat
      /\ wf.ksk <= lastID /\ wf.zsk <= lastID
      /\ keys \in SUBSET PowerDNSKey
      /\ \A k \in keys : k.id \in 1..lastID
  BY DEF Base, TypeOK, WorldTypeOK, KeysNumbered
<1>2. /\ NoRecord \in EnrollWorkflow /\ Candidate \in EnrollWorkflow
      /\ [NoRecord EXCEPT !.zoneID = zone.id] \in EnrollWorkflow
      /\ PublishWait \in Nat /\ ParentWait \in Nat
  BY RecordParts DEF Base
<1>3. /\ Candidate.ksk = 0 /\ Candidate.zsk = 0
      /\ [NoRecord EXCEPT !.zoneID = zone.id].ksk = 0
      /\ [NoRecord EXCEPT !.zoneID = zone.id].zsk = 0
  BY DEF Candidate, NoRecord
<1>4. CASE Blocks
  BY <1>1, <1>4 DEF Blocks, Blocked, EnrollWorkflow
<1>5. CASE Dismisses
  <2>1. PICK w \in {wf, [NoRecord EXCEPT !.zoneID = zone.id]} : wf' = Ineligible(w)
    BY <1>5 DEF Dismisses
  <2>2. w \in EnrollWorkflow /\ w.ksk <= lastID /\ w.zsk <= lastID
    <3> DEFINE x == [NoRecord EXCEPT !.zoneID = zone.id]
    <3>1. x \in EnrollWorkflow /\ x.ksk <= lastID /\ x.zsk <= lastID
      BY <1>1, <1>2, <1>3
    <3> HIDE DEF x
    <3>2. w = wf \/ w = x
      BY DEF x
    <3> QED BY <1>1, <3>1, <3>2
  <2> QED BY <2>1, <2>2 DEF Ineligible, EnrollWorkflow
<1>6. CASE Discovers
  BY <1>1, <1>2, <1>3, <1>6 DEF Discovers
<1>7. CASE Records
  <2>1. PICK w \in {wf, Candidate}, p \in CleanPairs : wf' = Recorded(w, p[1], p[2])
    BY <1>7 DEF Records
  <2>2. p[1].id \in 1..lastID /\ p[2].id \in 1..lastID
    BY <1>1, CleanIsGood DEF Good
  <2>3. w \in EnrollWorkflow
    BY <1>1, <1>2, <2>1
  <2> DEFINE a == p[1].id
             b == p[2].id
  <2>4. wf' = [w EXCEPT !.ksk = a, !.zsk = b, !.next = DiscoveryGrace]
    BY <2>1 DEF Recorded
  <2>5. a \in Nat /\ b \in Nat /\ a <= lastID /\ b <= lastID
    BY <1>1, <2>2
  <2> HIDE DEF a, b
  <2> QED BY <2>3, <2>4, <2>5, EnrollmentAssumptions DEF EnrollWorkflow
<1>8. CASE StartsWait
  BY <1>1, <1>8 DEF StartsWait, EnrollWorkflow, EnrollPhases
<1>8a. CASE KeepsCTID
  BY <1>1, <1>8a DEF KeepsCTID, EnrollWorkflow, EnrollPhases
<1>9. CASE SeesZone
  BY <1>1, <1>2, <1>9 DEF SeesZone, EnrollWorkflow, EnrollPhases
<1>10. CASE TrustsZone
  BY <1>1, <1>10 DEF TrustsZone, EnrollWorkflow, EnrollPhases
<1>10a. CASE FindsMaterial
  BY <1>1, <1>10a DEF FindsMaterial, EnrollWorkflow, EnrollPhases
<1>11. CASE FollowsJob
  BY <1>1, <1>11 DEF FollowsJob, EnrollWorkflow, EnrollPhases
<1>12. CASE SeesDS
  BY <1>1, <1>2, <1>12 DEF SeesDS, EnrollWorkflow, EnrollPhases
<1>13. CASE Completes
  <2>1. wf.ksk \in Nat /\ wf.zsk \in Nat /\ wf.zoneID \in Nat
    BY <1>1 DEF EnrollWorkflow
  <2>2. wf' \in EnrollWorkflow
    BY <1>2, <1>13, <2>1 DEF Completes, EnrollWorkflow
  <2>3. wf'.ksk = wf.ksk /\ wf'.zsk = wf.zsk
    BY <1>13 DEF Completes, NoRecord
  <2> QED BY <1>1, <2>2, <2>3
<1> QED BY <1>4, <1>5, <1>6, <1>7, <1>8, <1>8a, <1>9, <1>10, <1>10a, <1>11,
          <1>12, <1>13 DEF Handled

\* A handler keeps types, identifiers and caches.
LEMMA HandledBase ==
  ASSUME Base, Handled
  PROVE  Base'
<1>1. UNCHANGED <<keys, zoneTTL, secondary, lag, cache, registrar, parent, call, zone,
                  inflight, lastID, puts, edits>>
      /\ faults' \in 0..MaxFaults
  BY DEF Handled, worldVars
<1>2. WorldTypeOK'
  BY <1>1 DEF Base, TypeOK, WorldTypeOK
<1>3. TypeOK'
  BY <1>1, <1>2, HandledRecord DEF Base, TypeOK
<1>4. KeysNumbered'
  BY <1>1, HandledRecord DEF Base, KeysNumbered
<1>5. CacheBounded'
  BY <1>1 DEF Base, CacheBounded
<1> QED BY <1>3, <1>4, <1>5 DEF Base

\* So do the attempt, the PUT and its answers.
LEMMA CallBase ==
  ASSUME Base,
         \/ Attempts \/ Send \/ PersistAnswer \/ Abandon
         \/ \E r \in inflight : RegistrarAccepts(r) \/ LoseRequest(r)
  PROVE  Base'
<1>0. /\ wf \in EnrollWorkflow /\ call \in {"none", "ready", "sent", "job", "no_job"}
      /\ inflight \in SUBSET Request /\ lastID \in Nat /\ puts \in Nat
      /\ faults \in 0..MaxFaults /\ edits \in 0..MaxEdits /\ WorldTypeOK
      /\ zone \in [dnssec : BOOLEAN, id : Nat, selected : BOOLEAN]
      /\ RegistrarType
  BY WorldParts DEF Base, TypeOK
<1>1. UNCHANGED <<keys, zoneTTL, secondary, lag, cache, parent, zone, lastID, edits>>
  BY DEF Attempts, Send, PersistAnswer, Abandon, RegistrarAccepts, LoseRequest,
         worldVars, bookVars
<1>2. /\ wf' \in EnrollWorkflow /\ wf'.ksk = wf.ksk /\ wf'.zsk = wf.zsk
  <2>1. 0 \in 0..AmbiguityLimit
    BY WaitAssumptions
  <2>2. CASE Attempts
    BY <1>0, <2>1, <2>2 DEF Attempts, WithRegistrarAttempt, EnrollWorkflow
  <2>3. CASE PersistAnswer
    BY <1>0, <2>3 DEF PersistAnswer, Blocked, EnrollWorkflow, EnrollPhases
  <2>4. CASE UNCHANGED wf
    BY <1>0, <2>4
  <2> QED BY <2>2, <2>3, <2>4 DEF Send, Abandon, RegistrarAccepts, LoseRequest
<1>3. RegistrarType'
  <2>1. CASE \E r \in inflight : RegistrarAccepts(r)
    <3>1. PICK r \in inflight : RegistrarAccepts(r)
      BY <2>1
    <3>2. {r.key} \in KeyIDs
      BY <1>0 DEF Request, KeyIDs
    <3> QED BY <1>0, <3>1, <3>2 DEF RegistrarAccepts, RegistrarType
  <2>2. CASE UNCHANGED registrar
    BY <1>0, <2>2 DEF RegistrarType
  <2> QED BY <2>1, <2>2
          DEF Attempts, Send, PersistAnswer, Abandon, LoseRequest, worldVars
<1>4. WorldTypeOK'
  <2>1. ServedType' /\ ParentType'
    BY <1>0, <1>1, WorldParts DEF ServedType, ParentType
  <2> QED BY <2>1, <1>3, WorldParts
<1>5. call' \in {"none", "ready", "sent", "job", "no_job"}
  BY <1>0 DEF Attempts, Send, PersistAnswer, Abandon, RegistrarAccepts, LoseRequest
<1>6. inflight' \in SUBSET Request /\ puts' \in Nat
  <2>1. CASE Send
    <3>1. [key |-> wf.ksk, left |-> RequestLife] \in Request
      BY <1>0, WaitAssumptions DEF Request, EnrollWorkflow
    <3> QED BY <1>0, <2>1, <3>1 DEF Send
  <2>2. CASE inflight' \subseteq inflight /\ UNCHANGED puts
    BY <1>0, <2>2
  <2> QED BY <2>1, <2>2
          DEF Attempts, PersistAnswer, Abandon, RegistrarAccepts, LoseRequest, bookVars
<1>7. faults' \in 0..MaxFaults
  <2>1. faults' = faults \/ (faults < MaxFaults /\ faults' = faults + 1)
    BY DEF Attempts, Send, PersistAnswer, Abandon, RegistrarAccepts, LoseRequest, bookVars
  <2> QED BY <1>0, <2>1, EnrollmentAssumptions
<1>8. TypeOK'
  BY <1>0, <1>1, <1>2, <1>4, <1>5, <1>6, <1>7 DEF TypeOK
<1>9. KeysNumbered' /\ CacheBounded'
  BY <1>1, <1>2 DEF Base, KeysNumbered, CacheBounded
<1> QED BY <1>8, <1>9 DEF Base

\* So do the operators ...
LEMMA OperatorBase ==
  ASSUME Base, OperatorServes \/ Redelegate \/ Deselect \/ MaterialByHand
  PROVE  Base'
<1>0. /\ TypeOK /\ KeysNumbered /\ CacheBounded /\ WorldTypeOK
      /\ ServedType /\ ParentType /\ RegistrarType
      /\ zone \in [dnssec : BOOLEAN, id : Nat, selected : BOOLEAN]
      /\ wf \in EnrollWorkflow /\ lastID \in Nat /\ edits \in 0..MaxEdits
  BY WorldParts DEF Base, TypeOK
<1>1. CASE OperatorServes
  <2>1. PICK ks : /\ Serve(ks, zoneTTL, secondary)
                  /\ Succeeds(keys, ks, lastID, lastID')
    BY <1>1 DEF OperatorServes
  <2>2. ks \in SUBSET PowerDNSKey /\ zoneTTL \in ZoneTTLs /\ secondary \in ZoneImage
    BY <1>0, <2>1 DEF Succeeds, ServedType
  <2>3. ServedType' /\ CacheBounded'
    BY <1>0, <2>1, <2>2, ServeType, ServeBounded
  <2>4. ParentType' /\ RegistrarType'
    BY <1>0, <1>1 DEF OperatorServes, ParentType, RegistrarType
  <2>5. keys' = ks
    BY <2>1 DEF Serve
  <2>6. lastID' \in Nat /\ lastID <= lastID' /\ \A k \in keys' : k.id \in 1..lastID'
    BY <2>1, <2>5 DEF Succeeds
  <2>7. zone' \in [dnssec : BOOLEAN, id : Nat, selected : BOOLEAN]
    BY <1>0, <1>1 DEF OperatorServes
  <2>8. /\ UNCHANGED <<wf, call, inflight, puts, faults>> /\ edits' \in 0..MaxEdits
    BY <1>1 DEF OperatorServes
  <2>9. TypeOK'
    BY <1>0, <2>3, <2>4, <2>6, <2>7, <2>8, WorldParts DEF TypeOK
  <2>10. wf.ksk \in Nat /\ wf.zsk \in Nat
    BY <1>0 DEF EnrollWorkflow
  <2>11. KeysNumbered'
    BY <1>0, <2>6, <2>8, <2>10 DEF KeysNumbered
  <2> QED BY <2>3, <2>9, <2>11 DEF Base
<1>2. CASE Redelegate \/ Deselect
  <2>1. /\ UNCHANGED <<keys, zoneTTL, secondary, lag, cache, registrar>>
        /\ UNCHANGED <<wf, call, inflight, lastID, puts, faults>>
        /\ edits' \in 0..MaxEdits
    BY <1>0, <1>2, EnrollmentAssumptions
       DEF Redelegate, Redelegated, Deselect, Edit, worldVars
  <2>2. zone' \in [dnssec : BOOLEAN, id : Nat, selected : BOOLEAN]
    BY <1>0, <1>2 DEF Redelegate, Deselect
  <2>3. WorldTypeOK'
    <3>1. CASE Redelegate
      BY <1>0, <3>1, WorldActionType DEF Redelegate
    <3>2. CASE Deselect
      BY <1>0, <3>2 DEF Deselect, worldVars, WorldTypeOK
    <3> QED BY <1>2, <3>1, <3>2
  <2>4. TypeOK'
    BY <1>0, <2>1, <2>2, <2>3 DEF TypeOK
  <2> QED BY <1>0, <2>1, <2>4 DEF Base, KeysNumbered, CacheBounded
<1>3. CASE MaterialByHand
  <2>1. /\ UNCHANGED <<keys, zoneTTL, secondary, lag, cache, parent, zone,
                       wf, call, inflight, lastID, puts, faults>>
        /\ edits' \in 0..MaxEdits
    BY <1>0, <1>3, EnrollmentAssumptions DEF MaterialByHand, Edit
  <2>2. PICK id \in {wf.ksk, Foreign} : registrar' = [registrar EXCEPT !.data = {id}]
    BY <1>3 DEF MaterialByHand
  <2>3. {id} \in KeyIDs
    BY <1>0 DEF EnrollWorkflow, Foreign, KeyIDs
  <2>4. RegistrarType'
    BY <1>0, <2>2, <2>3 DEF RegistrarType
  <2>5. ServedType' /\ ParentType'
    BY <1>0, <2>1 DEF ServedType, ParentType
  <2>6. TypeOK'
    BY <1>0, <2>1, <2>4, <2>5, WorldParts DEF TypeOK
  <2> QED BY <1>0, <2>1, <2>6 DEF Base, KeysNumbered, CacheBounded
<1> QED BY <1>1, <1>2, <1>3

\* ... and the world with its time.
LEMMA WorldBase ==
  ASSUME Base, WorldStep \/ Elapse
  PROVE  Base'
<1>0. /\ TypeOK /\ KeysNumbered /\ CacheBounded /\ WorldTypeOK
      /\ ServedType /\ ParentType /\ RegistrarType
      /\ wf \in EnrollWorkflow /\ inflight \in SUBSET Request
  BY WorldParts DEF Base, TypeOK
<1>1. UNCHANGED <<keys, zone, call, lastID, puts, faults, edits>>
  BY DEF WorldStep, World, Elapse, WorldElapses, SecondarySync, RegistrarApplies,
         RegistrarFails, RegistrarForgetsJob, ParentPublishes, ParentSync, Serve, bookVars
<1>2. WorldTypeOK'
  BY <1>0, WorldActionType, WorldElapsesType DEF WorldStep, World, Elapse
<1>3. CacheBounded'
  <2>1. CASE SecondarySync
    BY <1>0, <2>1, ServeBounded DEF SecondarySync, ServedType
  <2>2. CASE ParentPublishes \/ ParentSync
    BY <1>0, <2>2, ServeDSBounded DEF ParentPublishes, ParentSync
  <2>3. CASE RegistrarApplies \/ RegistrarFails \/ RegistrarForgetsJob
    BY <1>0, <2>3 DEF RegistrarApplies, RegistrarFails, RegistrarForgetsJob, CacheBounded
  <2>4. CASE Elapse
    BY <1>0, <2>4, ElapseBounded DEF Elapse
  <2> QED BY <2>1, <2>2, <2>3, <2>4 DEF WorldStep, World
<1>4. wf' \in EnrollWorkflow /\ wf'.ksk = wf.ksk /\ wf'.zsk = wf.zsk
  <2>1. CASE WorldStep
    BY <1>0, <2>1 DEF WorldStep
  <2>2. CASE Elapse
    <3> DEFINE n == IF wf.next > 0 THEN wf.next - 1 ELSE 0
               a == IF wf.tried /\ wf.age < AmbiguityLimit THEN wf.age + 1 ELSE wf.age
    <3>1. n \in Nat /\ a \in 0..AmbiguityLimit
      BY <1>0, WaitAssumptions DEF EnrollWorkflow
    <3>2. wf' = [wf EXCEPT !.next = n, !.age = a]
      BY <2>2 DEF Elapse
    <3> HIDE DEF n, a
    <3> QED BY <1>0, <3>1, <3>2 DEF EnrollWorkflow
  <2> QED BY <2>1, <2>2
<1>5. inflight' \in SUBSET Request
  <2>1. CASE WorldStep
    BY <1>0, <2>1 DEF WorldStep, bookVars
  <2>2. CASE Elapse
    BY <1>0, <2>2 DEF Elapse, Request
  <2> QED BY <2>1, <2>2
<1>6. TypeOK'
  BY <1>0, <1>1, <1>2, <1>4, <1>5 DEF TypeOK
<1>7. KeysNumbered'
  BY <1>0, <1>1, <1>4 DEF KeysNumbered
<1> QED BY <1>3, <1>6, <1>7 DEF Base

-----------------------------------------------------------------------------
(* The attempt and what it may find at the registrar.                      *)

Enrolled == wf.disposition = "enrolled"
Announced == wf.tried \/ puts > 0

\* The attempt is on disk before the PUT, once, and for the recorded KSK.
Once ==
  /\ wf.phase \in Early \cup {"enroll_wait_publish"} =>
       ~wf.tried /\ puts = 0 /\ call = "none"
  /\ wf.phase \in Early => ~wf.evidence
  /\ call # "none" => wf.phase = "enroll_parent_add" /\ wf.tried
  /\ call = "ready" => puts = 0
  /\ puts <= 1
  /\ puts > 0 => wf.tried \/ Enrolled
  /\ inflight # {} => puts > 0
  /\ \A r \in inflight : r.key = wf.ksk /\ inflight = {r}
  /\ Enrolled => wf.phase = "idle"
  /\ wf.phase = "enroll_wait_parent" /\ wf.job = "open" => ~wf.evidence

\* Nothing is at the parent or in its caches but what the registrar has.
ParentFollows ==
  /\ registrar.data = {} => parent.fast = {} /\ parent.slow = {} /\ cache.ds = {}
  /\ parent.fast \in {{}, registrar.data} /\ parent.slow \in {{}, registrar.data}
  /\ \A e \in cache.ds : e.version \in {{}, registrar.data}

\* From the attempt on the registrar has nothing or the recorded KSK, whoever
\* brought it there, and a job brings nothing else.
Material ==
  /\ puts = 0 \/ inflight # {} => registrar.job = "none"
  /\ registrar.job = "pending" => registrar.jobData = {wf.ksk}
  /\ Announced => registrar.data \in {{}, {wf.ksk}} /\ zone.dnssec
  /\ puts > 0 => wf.tried \/ registrar.data # {}
  /\ Enrolled => registrar.data = {wf.ksk} /\ parent.fast = {wf.ksk}

Ledger == Once /\ ParentFollows /\ Material

\* A handler after discovery keeps the attempt as it is ...
KeepsAttempt ==
  /\ wf.phase # "idle" /\ wf.phase # "unknown"
  /\ wf'.ksk = wf.ksk /\ wf'.tried = wf.tried /\ wf'.disposition = wf.disposition
  /\ wf'.phase \notin Early
  /\ wf'.phase = "enroll_wait_publish" => wf.phase \in Early \cup {"enroll_wait_publish"}
  /\ wf'.phase = "enroll_wait_parent" /\ wf'.job = "open" => ~wf'.evidence

\* ... and one before it begins a new record, or ends it.
BeginsRecord ==
  /\ wf.phase \in Early /\ wf'.phase \in {"enroll_discovered", "idle"}
  /\ ~wf'.tried /\ ~wf'.evidence /\ wf'.disposition # "enrolled"

LedgerVars == <<registrar, parent, cache, call, zone, inflight, puts>>

\* Whoever keeps the attempt keeps the ledger.
LEMMA KeepsLedger ==
  ASSUME Base, Ledger, KeepsAttempt, UNCHANGED LedgerVars, call = "none"
  PROVE  Ledger'
<1>1. UNCHANGED <<registrar, parent, cache, call, zone, inflight, puts>>
  BY DEF LedgerVars
<1>2. wf.disposition # "enrolled" /\ wf'.disposition # "enrolled"
  BY DEF Ledger, Once, KeepsAttempt, Enrolled
<1>3. Once'
  BY <1>1, <1>2 DEF Ledger, Once, KeepsAttempt, Enrolled, Early
<1>4. ParentFollows'
  BY <1>1 DEF Ledger, ParentFollows
<1>5. Material'
  BY <1>1, <1>2 DEF Ledger, Material, KeepsAttempt, Enrolled, Announced
<1> QED BY <1>3, <1>4, <1>5 DEF Ledger

\* Before the attempt the ledger is empty.
LEMMA BeginsLedger ==
  ASSUME Base, Ledger, BeginsRecord, UNCHANGED LedgerVars
  PROVE  Ledger'
<1>1. UNCHANGED <<registrar, parent, cache, call, zone, inflight, puts>>
  BY DEF LedgerVars
<1>2. puts = 0 /\ call = "none" /\ inflight = {}
  BY DEF Ledger, Once, BeginsRecord, Base, TypeOK
<1>3. Once'
  BY <1>1, <1>2 DEF Once, BeginsRecord, Enrolled, Early
<1>4. ParentFollows'
  BY <1>1 DEF Ledger, ParentFollows
<1>5. Material'
  BY <1>1, <1>2 DEF Ledger, Material, BeginsRecord, Enrolled, Announced
<1> QED BY <1>3, <1>4, <1>5 DEF Ledger

\* The handlers keep the ledger: those before the attempt write nothing into
\* it, those after it keep the attempt, and completion finds the recorded KSK.
LEMMA HandledLedger ==
  ASSUME Base, Ledger, Handled
  PROVE  Ledger'
<1>1. UNCHANGED <<registrar, parent, cache, call, zone, inflight, puts>> /\ call = "none"
  BY DEF Handled, worldVars
<1>2. UNCHANGED LedgerVars
  BY <1>1 DEF LedgerVars
<1>3. wf \in EnrollWorkflow
  BY DEF Base, TypeOK
<1>4. wf.phase \in Early => ~wf.tried /\ ~wf.evidence /\ wf.disposition # "enrolled"
  BY DEF Ledger, Once, Early, Enrolled
<1>5. Blocks => KeepsAttempt
  BY <1>3 DEF Blocks, Blocked, EnrollWorkflow, KeepsAttempt, Active, Early
<1>6. ASSUME Dismisses PROVE BeginsRecord
  <2>1. PICK w \in {wf, [NoRecord EXCEPT !.zoneID = zone.id]} : wf' = Ineligible(w)
    BY <1>6 DEF Dismisses
  <2>2. wf'.phase = "idle" /\ wf'.disposition = "ineligible" /\ ~wf'.tried /\ ~wf'.evidence
    BY <1>3, <1>4, <1>6, <2>1 DEF Dismisses, Ineligible, NoRecord, EnrollWorkflow
  <2> QED BY <1>6, <2>2 DEF Dismisses, BeginsRecord
<1>7. Discovers => BeginsRecord
  BY DEF Discovers, Candidate, NoRecord, Early, BeginsRecord
<1>8. ASSUME Records PROVE BeginsRecord
  <2>1. PICK w \in {wf, Candidate}, p \in CleanPairs :
          w.phase = "enroll_discovered" /\ wf' = Recorded(w, p[1], p[2])
    BY <1>8 DEF Records
  <2>2. wf.phase \in Early
    BY <1>8 DEF Records
  <2>3. w \in EnrollWorkflow
    BY <1>3, <2>1, RecordParts DEF Base
  <2>4. ~w.tried /\ ~w.evidence /\ w.disposition # "enrolled"
    BY <1>3, <1>4, <2>1, <2>2 DEF Candidate, NoRecord
  <2>5. wf'.phase = w.phase /\ wf'.tried = w.tried /\ wf'.evidence = w.evidence
        /\ wf'.disposition = w.disposition
    BY <2>1, <2>3 DEF Recorded, EnrollWorkflow
  <2> QED BY <2>1, <2>2, <2>4, <2>5 DEF BeginsRecord
<1>9. StartsWait => KeepsAttempt
  BY <1>3 DEF StartsWait, EnrollWorkflow, KeepsAttempt, Early
<1>10. SeesZone => KeepsAttempt
  BY <1>3 DEF SeesZone, EnrollWorkflow, KeepsAttempt, Early
<1>11. TrustsZone => KeepsAttempt
  BY <1>3 DEF TrustsZone, EnrollWorkflow, KeepsAttempt, Early
<1>12. FindsMaterial => KeepsAttempt
  BY <1>3 DEF FindsMaterial, EnrollWorkflow, KeepsAttempt, Early
<1>13. KeepsCTID => KeepsAttempt
  BY <1>3 DEF KeepsCTID, EnrollWorkflow, KeepsAttempt, Early
<1>14. FollowsJob => KeepsAttempt
  BY <1>3 DEF FollowsJob, EnrollWorkflow, KeepsAttempt, Early
<1>15. SeesDS => KeepsAttempt
  BY <1>3 DEF SeesDS, EnrollWorkflow, KeepsAttempt, Early
<1>16. CASE Completes
  <2>1. /\ wf'.phase = "idle" /\ wf'.ksk = wf.ksk /\ ~wf'.tried
        /\ wf'.disposition = "enrolled"
        /\ registrar.data = {wf.ksk} /\ parent.fast = {wf.ksk}
    BY <1>16 DEF Completes, NoRecord, DomainDNSSEC, AuthoritativeDSEvidence
  <2>2. puts > 0 => zone.dnssec
    BY DEF Ledger, Material, Announced
  <2>3. Once'
    BY <1>1, <2>1, <2>2 DEF Ledger, Once, Early, Enrolled
  <2>4. ParentFollows'
    BY <1>1 DEF Ledger, ParentFollows
  <2>5. Material'
    BY <1>1, <2>1, <2>2 DEF Ledger, Material, Enrolled, Announced
  <2> QED BY <2>3, <2>4, <2>5 DEF Ledger
<1> QED BY <1>1, <1>2, <1>5, <1>6, <1>7, <1>8, <1>9, <1>10, <1>11, <1>12, <1>13, <1>14,
           <1>15, <1>16, KeepsLedger, BeginsLedger DEF Handled

\* The attempt and the PUT keep the ledger: nothing was sent before, and the
\* registrar still has nothing.
LEMMA SendLedger ==
  ASSUME Base, Ledger, Attempts \/ Send
  PROVE  Ledger'
<1>1. wf \in EnrollWorkflow /\ puts \in Nat
  BY DEF Base, TypeOK
<1>2. CASE Attempts
  <2>1. /\ UNCHANGED <<registrar, parent, cache, zone, inflight, puts>>
        /\ call' = "ready" /\ call = "none"
        /\ wf.phase = "enroll_parent_add" /\ ~wf.tried
        /\ zone.dnssec /\ registrar.data = {}
    BY <1>2 DEF Attempts, worldVars, bookVars, DomainDNSSEC
  <2>2. /\ wf'.phase = "enroll_parent_add" /\ wf'.tried /\ wf'.ksk = wf.ksk
        /\ wf'.disposition = wf.disposition
    BY <1>1, <1>2, <2>1 DEF Attempts, WithRegistrarAttempt, EnrollWorkflow
  <2>3. wf.disposition # "enrolled" /\ puts = 0 /\ inflight = {}
    BY <1>1, <2>1 DEF Ledger, Once, Enrolled
  <2>4. Once'
    BY <2>1, <2>2, <2>3 DEF Once, Enrolled, Early
  <2>5. ParentFollows'
    BY <2>1 DEF Ledger, ParentFollows
  <2>6. registrar.job = "none"
    BY <2>3 DEF Ledger, Material
  <2>7. Material'
    BY <2>1, <2>2, <2>3, <2>6 DEF Material, Enrolled, Announced
  <2> QED BY <2>4, <2>5, <2>7 DEF Ledger
<1>3. CASE Send
  <2>1. /\ UNCHANGED <<registrar, parent, cache, zone, wf>>
        /\ call = "ready" /\ call' = "sent" /\ puts' = puts + 1
        /\ inflight' = inflight \cup {[key |-> wf.ksk, left |-> RequestLife]}
    BY <1>3 DEF Send, worldVars
  <2>2. /\ puts = 0 /\ wf.tried /\ wf.phase = "enroll_parent_add" /\ inflight = {}
        /\ wf.disposition # "enrolled"
    BY <1>1, <2>1 DEF Ledger, Once, Enrolled
  <2>3. \A r \in inflight' : r.key = wf.ksk /\ inflight' = {r}
    BY <2>1, <2>2
  <2>4. puts' = 1 /\ inflight' # {}
    BY <2>1, <2>2
  <2>5. Once'
    BY <2>1, <2>2, <2>3, <2>4 DEF Once, Enrolled, Early
  <2>6. ParentFollows'
    BY <2>1 DEF Ledger, ParentFollows
  <2>7. registrar.job = "none" /\ registrar.data \in {{}, {wf.ksk}} /\ zone.dnssec
    BY <2>1, <2>2 DEF Ledger, Material, Announced
  <2>8. Material'
    BY <2>1, <2>2, <2>4, <2>7 DEF Material, Enrolled, Announced
  <2> QED BY <2>5, <2>6, <2>8 DEF Ledger
<1> QED BY <1>2, <1>3

\* So does whatever becomes of the PUT.
LEMMA AnswerLedger ==
  ASSUME Base, Ledger,
         \/ PersistAnswer \/ Abandon
         \/ \E r \in inflight : RegistrarAccepts(r) \/ LoseRequest(r)
  PROVE  Ledger'
<1>1. wf \in EnrollWorkflow /\ puts \in Nat /\ Once /\ ParentFollows /\ Material
      /\ registrar \in [data : KeyIDs,
                        job : {"none", "pending", "done", "failed", "gone"},
                        jobData : KeyIDs]
  BY DEF Base, TypeOK, Ledger, WorldTypeOK
<1>2. CASE PersistAnswer
  <2>1. /\ UNCHANGED <<registrar, parent, cache, zone, inflight, puts>>
        /\ call' = "none" /\ call # "none"
    BY <1>2 DEF PersistAnswer, worldVars, bookVars
  <2>2. wf.phase = "enroll_parent_add" /\ wf.disposition # "enrolled"
    BY <1>1, <2>1 DEF Once, Enrolled
  <2>3. /\ wf'.phase \in {"blocked", "enroll_wait_parent"}
        /\ wf'.phase = "enroll_wait_parent" => ~wf'.evidence
        /\ wf'.tried = wf.tried /\ wf'.ksk = wf.ksk /\ wf'.disposition = wf.disposition
    BY <1>1, <1>2 DEF PersistAnswer, Blocked, EnrollWorkflow
  <2>4. Once'
    BY <1>1, <2>1, <2>2, <2>3 DEF Once, Enrolled, Early
  <2>5. ParentFollows'
    BY <1>1, <2>1 DEF ParentFollows
  <2>6. Material'
    BY <1>1, <2>1, <2>2, <2>3 DEF Material, Enrolled, Announced
  <2> QED BY <2>4, <2>5, <2>6 DEF Ledger
<1>3. CASE Abandon
  <2>1. UNCHANGED <<registrar, parent, cache, zone, wf, inflight, puts>> /\ call' = "none"
    BY <1>3 DEF Abandon, worldVars
  <2>2. Once'
    BY <1>1, <2>1 DEF Once, Enrolled, Early
  <2>3. ParentFollows'
    BY <1>1, <2>1 DEF ParentFollows
  <2>4. Material'
    BY <1>1, <2>1 DEF Material, Enrolled, Announced
  <2> QED BY <2>2, <2>3, <2>4 DEF Ledger
<1>4. ASSUME NEW r \in inflight, RegistrarAccepts(r) \/ LoseRequest(r)
      PROVE  Ledger'
  <2>1. /\ UNCHANGED <<parent, cache, zone, wf, puts>> /\ inflight' = {}
        /\ call' \in {call, "job", "no_job"} /\ (call' # call => call = "sent")
    BY <1>1, <1>4 DEF RegistrarAccepts, LoseRequest, worldVars, Once
  <2>2. /\ puts > 0 /\ r.key = wf.ksk /\ call # "ready"
        /\ registrar.job = "none" /\ registrar.data \in {{}, {wf.ksk}} /\ zone.dnssec
    <3>1. inflight # {}
      OBVIOUS
    <3>2. puts > 0 /\ r.key = wf.ksk /\ call # "ready"
      BY <1>1, <3>1 DEF Once
    <3> QED BY <1>1, <3>1, <3>2 DEF Material, Announced
  <2>3. Once'
    BY <1>1, <2>1, <2>2 DEF Once, Enrolled, Early
  <2>4. /\ registrar'.job = "none" \/ (registrar'.job = "pending"
                                       /\ registrar'.jobData = {wf.ksk})
        /\ registrar'.data \in {registrar.data, {wf.ksk}}
    <3>1. CASE RegistrarAccepts(r)
      BY <1>1, <2>2, <3>1 DEF RegistrarAccepts
    <3>2. CASE LoseRequest(r)
      BY <2>2, <3>2 DEF LoseRequest, worldVars
    <3> QED BY <1>4, <3>1, <3>2
  <2>5. ParentFollows'
    BY <1>1, <2>1, <2>2, <2>4 DEF ParentFollows
  <2>6. call' # "ready"
    BY <2>1, <2>2
  <2>7. Material'
    BY <1>1, <2>1, <2>2, <2>4, <2>6 DEF Material, Enrolled, Announced
  <2> QED BY <2>3, <2>5, <2>7 DEF Ledger
<1> QED BY <1>2, <1>3, <1>4

\* The operators keep the ledger: where something was announced they leave
\* DNSSEC on, and bring the registrar nothing but the recorded KSK.
LEMMA OperatorLedger ==
  ASSUME Base, Ledger, OperatorServes \/ Redelegate \/ Deselect \/ MaterialByHand
  PROVE  Ledger'
<1>1. wf \in EnrollWorkflow /\ puts \in Nat /\ Once /\ ParentFollows /\ Material
      /\ ServedType /\ ParentType /\ RegistrarType
      /\ zone \in [dnssec : BOOLEAN, id : Nat, selected : BOOLEAN]
  BY WorldParts DEF Base, TypeOK, Ledger
<1>2. /\ UNCHANGED <<wf, call, inflight, puts>>
      /\ parent'.fast = parent.fast /\ parent'.slow = parent.slow
  BY <1>1, RedelegatedLeaves DEF OperatorServes, Redelegate, Deselect, MaterialByHand, worldVars
<1>3. Once'
  BY <1>1, <1>2 DEF Once, Enrolled
<1>4. CASE MaterialByHand
  <2>1. /\ registrar.data = {} /\ registrar.job # "pending" /\ UNCHANGED <<cache, zone>>
    BY <1>4 DEF MaterialByHand
  <2>2. PICK id \in {wf.ksk, Foreign} : /\ id = Foreign => ~wf.tried
                                        /\ registrar' = [registrar EXCEPT !.data = {id}]
    BY <1>4 DEF MaterialByHand
  <2>3. registrar'.data = {id} /\ registrar'.job = registrar.job
    BY <1>1, <2>2 DEF RegistrarType
  <2>4. ParentFollows'
    BY <1>1, <1>2, <2>1, <2>3 DEF ParentFollows
  <2>5. wf.disposition # "enrolled" /\ (puts > 0 => wf.tried)
    BY <1>1, <2>1 DEF Material, Enrolled
  <2>6. Material'
    BY <1>1, <1>2, <2>1, <2>2, <2>3, <2>5 DEF Material, Enrolled, Announced
  <2> QED BY <1>3, <2>4, <2>6 DEF Ledger
<1>5. CASE OperatorServes \/ Redelegate \/ Deselect
  <2>1. registrar' = registrar /\ cache'.ds = cache.ds
    <3>1. CASE OperatorServes
      BY <1>1, <3>1, ServeLeaves DEF OperatorServes
    <3>2. CASE Redelegate \/ Deselect
      BY <3>2 DEF Redelegate, Redelegated, Deselect, worldVars
    <3> QED BY <1>5, <3>1, <3>2
  <2>2. ParentFollows'
    BY <1>1, <1>2, <2>1 DEF ParentFollows
  <2>3. Unannounced \/ (zone.dnssec => zone'.dnssec)
    <3>1. CASE OperatorServes
      BY <3>1 DEF OperatorServes
    <3>2. CASE Redelegate \/ Deselect
      BY <1>1, <3>2 DEF Redelegate, Deselect
    <3> QED BY <1>5, <3>1, <3>2
  <2>4. CASE Unannounced
    <3>1. call = "none" /\ inflight = {} /\ ~wf.tried /\ ~(puts > 0)
          /\ wf.disposition # "enrolled"
      BY <1>1, <2>4 DEF Unannounced, Material, Enrolled
    <3> QED BY <1>1, <1>2, <1>3, <2>1, <2>2, <3>1
            DEF Material, Enrolled, Announced, Ledger
  <2>5. CASE zone.dnssec => zone'.dnssec
    BY <1>1, <1>2, <1>3, <2>1, <2>2, <2>5 DEF Material, Enrolled, Announced, Ledger
  <2> QED BY <2>3, <2>4, <2>5
<1> QED BY <1>4, <1>5

\* So do registrar, parent and time: the registrar applies only what the
\* controller sent, and the parent follows the registrar.
LEMMA WorldLedger ==
  ASSUME Base, Ledger, WorldStep \/ Elapse
  PROVE  Ledger'
<1>1. wf \in EnrollWorkflow /\ puts \in Nat /\ Once /\ ParentFollows /\ Material
      /\ ServedType /\ RegistrarType /\ ParentType
  BY WorldParts DEF Base, TypeOK, Ledger
<1>2. UNCHANGED <<zone, call, puts>>
  BY DEF WorldStep, Elapse, bookVars
<1>3. /\ wf'.phase = wf.phase /\ wf'.ksk = wf.ksk /\ wf'.tried = wf.tried
      /\ wf'.evidence = wf.evidence /\ wf'.job = wf.job
      /\ wf'.disposition = wf.disposition
  <2>1. CASE WorldStep
    BY <2>1 DEF WorldStep
  <2>2. CASE Elapse
    BY <1>1, <2>2 DEF Elapse, EnrollWorkflow
  <2> QED BY <2>1, <2>2
<1>4. /\ inflight' = {} <=> inflight = {}
      /\ \A r \in inflight' : r.key = wf.ksk /\ inflight' = {r}
  <2>1. CASE WorldStep
    BY <1>1, <2>1 DEF WorldStep, bookVars, Once
  <2>2. CASE Elapse
    <3>1. inflight' = {[r EXCEPT !.left = @ - 1] : r \in inflight}
      BY <2>2 DEF Elapse
    <3>2. \A r \in inflight : r.key = wf.ksk /\ inflight = {r} /\ r \in Request
      BY <1>1 DEF Once, Base, TypeOK
    <3>3. \A r \in Request : [r EXCEPT !.left = @ - 1].key = r.key
      BY DEF Request
    <3> QED BY <3>1, <3>2, <3>3
  <2> QED BY <2>1, <2>2
<1>5. Once'
  BY <1>1, <1>2, <1>3, <1>4 DEF Once, Enrolled
<1>6. CASE SecondarySync \/ Elapse
  <2>1. UNCHANGED registrar /\ parent'.fast = parent.fast /\ parent'.slow = parent.slow
    BY <1>1, <1>6 DEF SecondarySync, Elapse, WorldElapses, ParentType
  <2>2. cache.ds = {} => cache'.ds = {}
    BY <1>1, <1>6, ServeLeaves, ElapsedEntries DEF SecondarySync, Elapse
  <2>3. \A e \in cache'.ds : \E x \in cache.ds : e.version = x.version
    BY <1>1, <1>6, ServeLeaves, ElapsedEntries DEF SecondarySync, Elapse
  <2>4. ParentFollows'
    BY <1>1, <2>1, <2>2, <2>3 DEF ParentFollows
  <2>5. Material'
    BY <1>1, <1>2, <1>3, <1>4, <2>1 DEF Material, Enrolled, Announced
  <2> QED BY <1>5, <2>4, <2>5 DEF Ledger
<1>7. CASE RegistrarApplies \/ RegistrarFails \/ RegistrarForgetsJob
  <2>1. UNCHANGED <<parent, cache>>
    BY <1>7 DEF RegistrarApplies, RegistrarFails, RegistrarForgetsJob
  <2>2. registrar.job # "none" /\ registrar'.job \in {"done", "failed", "gone"}
    BY <1>1, <1>7 DEF RegistrarApplies, RegistrarFails, RegistrarForgetsJob, RegistrarType
  <2>3. \/ registrar'.data = registrar.data
        \/ registrar'.data = {wf.ksk}
    BY <1>1, <1>7
       DEF RegistrarApplies, RegistrarFails, RegistrarForgetsJob, RegistrarType, Material
  <2>4. inflight = {} /\ puts > 0 /\ registrar.data \in {{}, {wf.ksk}}
    BY <1>1, <2>2 DEF Material, Announced
  <2>5. ParentFollows'
    BY <1>1, <2>1, <2>3, <2>4 DEF ParentFollows
  <2>6. Material'
    BY <1>1, <1>2, <1>3, <1>4, <2>1, <2>2, <2>3, <2>4 DEF Material, Enrolled, Announced
  <2> QED BY <1>5, <2>5, <2>6 DEF Ledger
<1>8. CASE ParentPublishes \/ ParentSync
  <2>1. UNCHANGED registrar
    BY <1>8 DEF ParentPublishes, ParentSync
  <2>2. registrar.data # {}
    BY <1>1, <1>8 DEF ParentPublishes, ParentSync, ParentFollows
  <2>3. /\ parent'.fast = registrar.data \/ (ParentSync /\ parent'.fast = parent.fast)
        /\ parent'.slow \in {parent.slow, parent.fast}
    BY <1>8 DEF ParentPublishes, ParentSync, ServeDS
  <2>4. \A e \in cache'.ds : e.version \in {{}, registrar.data}
    <3>1. \A e \in cache'.ds : e \in cache.ds \/ e.version \in {parent.fast, parent.slow}
      BY <1>1, <1>8, ServeDSLeaves DEF ParentPublishes, ParentSync
    <3> QED BY <1>1, <3>1 DEF ParentFollows
  <2>5. ParentFollows'
    BY <1>1, <2>1, <2>2, <2>3, <2>4 DEF ParentFollows
  <2>6. parent.fast = registrar.data => parent'.fast = registrar.data
    BY <2>3
  <2>7. Material'
    BY <1>1, <1>2, <1>3, <1>4, <2>1, <2>6 DEF Material, Enrolled, Announced
  <2> QED BY <1>5, <2>5, <2>7 DEF Ledger
<1> QED BY <1>6, <1>7, <1>8 DEF WorldStep, World

-----------------------------------------------------------------------------
(* Time: how long what was cached or served before can still be used.      *)

GoodDnskey(v, ksk, zsk) == ksk \in v.keys /\ zsk \in v.keys /\ ksk \in v.sig
GoodZone(v, zsk) == zsk \in v.sig
GoodImage(i, ksk, zsk) ==
  GoodDnskey(DnskeyRRset(i), ksk, zsk) /\ GoodZone(ZoneRRset(i), zsk)

ZoneUpTo(c, zsk, n) == \A e \in c.zone : GoodZone(e.version, zsk) \/ e.left <= n
DnskeyUpTo(c, ksk, zsk, n) ==
  \A e \in c.dnskey : GoodDnskey(e.version, ksk, zsk) \/ e.left <= n

\* A secondary that does not serve the signed zone yet can hand out unsigned
\* data until it follows, and that data lives on for its TTL.
SecondaryUpTo(sec, behind, zsk, n) ==
  GoodZone(ZoneRRset(sec), zsk) \/ sec.ttl + (ServerLag - behind) <= n

\* Before the keys were seen everywhere, and after.
Unseen(c, sec, behind, zsk, n) ==
  ZoneUpTo(c, zsk, n) /\ SecondaryUpTo(sec, behind, zsk, n)
Seen(c, sec, ksk, zsk, n) ==
  GoodImage(sec, ksk, zsk) /\ ZoneUpTo(c, zsk, n) /\ DnskeyUpTo(c, ksk, zsk, n)

Proven == {"enroll_parent_add", "enroll_wait_parent"}

\* The waits still to come cover what is left, as long as the recorded keys
\* sign the zone; and once the zone is announced they always do.
ZoneTimed ==
  /\ Good(keys, wf.ksk, wf.zsk) =>
       /\ wf.phase = "enroll_discovered" =>
            Unseen(cache, secondary, lag, wf.zsk, wf.next + PublishWait)
       /\ wf.phase = "enroll_wait_publish" /\ ~wf.evidence =>
            Unseen(cache, secondary, lag, wf.zsk, PublishWait)
       /\ wf.phase = "enroll_wait_publish" /\ wf.evidence =>
            Seen(cache, secondary, wf.ksk, wf.zsk, wf.next)
       /\ wf.phase \in Proven => Seen(cache, secondary, wf.ksk, wf.zsk, 0)
  /\ Announced =>
       Good(keys, wf.ksk, wf.zsk) /\ Seen(cache, secondary, wf.ksk, wf.zsk, 0)

\* The same for resolvers that still believe there is no DS.
DSTimed ==
  /\ wf.phase = "enroll_wait_parent" /\ wf.evidence =>
       /\ parent.fast = {wf.ksk}
       /\ parent.slow # parent.fast => (ParentLag - parent.lag) + DSTTL <= wf.next
       /\ \A e \in cache.ds : e.left <= wf.next
  /\ Enrolled /\ puts > 0 => parent.slow = parent.fast /\ cache.ds = {}

\* PowerDNS serves a good image of a good keyset.
LEMMA GoodServesGood ==
  ASSUME NEW ks, NEW ttl, NEW ksk, NEW zsk, Good(ks, ksk, zsk)
  PROVE  GoodImage(Image(ks, ttl), ksk, zsk)
<1>1. PICK a \in ks : a.id = ksk /\ a.active /\ a.published /\ Role(ks, a) = "ksk"
  BY DEF Good
<1>2. PICK b \in ks : b.id = zsk /\ b.active /\ b.published /\ Role(ks, b) = "zsk"
  BY DEF Good
<1>3. ksk \in publishedKeys(ks) /\ zsk \in publishedKeys(ks)
  BY <1>1, <1>2 DEF publishedKeys
<1>4. ksk \in Signers(ks, {"ksk", "csk"}) /\ zsk \in Signers(ks, {"zsk", "csk"})
  BY <1>1, <1>2 DEF Signers
<1> QED BY <1>3, <1>4 DEF GoodImage, GoodDnskey, GoodZone, DnskeyRRset, ZoneRRset, Image

\* What validateEnrollmentEvidence sees on every server is the signed zone.
LEMMA EvidenceIsGood ==
  ASSUME EnrollmentEvidence, Good(keys, wf.ksk, wf.zsk)
  PROVE  GoodImage(secondary, wf.ksk, wf.zsk)
<1>1. PICK b \in keys : b.id = wf.zsk /\ b.published
  BY DEF Good
<1>2. wf.zsk \in publishedKeys(Inventory)
  <2> DEFINE x == [id |-> b.id, keytype |-> Role(keys, b), flags |-> b.flags,
                   active |-> b.active, published |-> b.published,
                   algorithm |-> b.algorithm]
  <2>1. x \in Inventory
    BY <1>1 DEF Inventory, Listed
  <2>2. x.id = wf.zsk /\ x.published
    BY <1>1
  <2> QED BY <2>1, <2>2 DEF publishedKeys
<1>3. /\ secondary.keys = publishedKeys(Inventory)
      /\ wf.ksk \in secondary.keySig /\ wf.ksk \in secondary.keys
      /\ wf.zsk \in secondary.zoneSig
  BY DEF EnrollmentEvidence, AuthoritativeDNSKEYEvidence, AuthoritativeDNSKEYRRSIGBy,
         AuthoritativeRRSIGBy, Served
<1> QED BY <1>2, <1>3 DEF GoodImage, GoodDnskey, GoodZone, DnskeyRRset, ZoneRRset

\* Every entry expires within discovery grace and publish wait.
LEMMA GraceCovers ==
  ASSUME Base, NEW zsk
  PROVE  Unseen(cache, secondary, lag, zsk, DiscoveryGrace + PublishWait)
<1>1. PublishWait \in Nat /\ DiscoveryGrace \in Nat /\ ServerLag \in Nat
  BY RecordParts, EnrollmentAssumptions, WorldAssumptions DEF Base
<1>2. ServedType
  BY WorldParts DEF Base, TypeOK
<1>3. \A ttl \in ZoneTTLs : ttl \in Nat /\ ttl + ServerLag <= DiscoveryGrace + PublishWait
  BY WorldAssumptions, GraceCoversZone
<1>4. ZoneUpTo(cache, zsk, DiscoveryGrace + PublishWait)
  <2> SUFFICES ASSUME NEW e \in cache.zone
               PROVE  e.left <= DiscoveryGrace + PublishWait
    BY DEF ZoneUpTo
  <2>1. e.left \in Nat /\ e.version.ttl \in ZoneTTLs
    BY <1>2 DEF ServedType, Cached
  <2>2. e.left <= e.version.ttl
    BY DEF Base, CacheBounded
  <2> QED BY <1>1, <1>3, <2>1, <2>2
<1>5. SecondaryUpTo(secondary, lag, zsk, DiscoveryGrace + PublishWait)
  <2>1. secondary.ttl \in ZoneTTLs /\ lag \in 0..ServerLag
    BY <1>2 DEF ServedType, ZoneImage
  <2> QED BY <1>1, <1>3, <2>1 DEF SecondaryUpTo
<1> QED BY <1>4, <1>5 DEF Unseen

\* A DNSKEY set expires within the publish wait.
LEMMA WaitCoversDNSKEY ==
  ASSUME Base, NEW ksk, NEW zsk
  PROVE  DnskeyUpTo(cache, ksk, zsk, PublishWait)
<1>1. DNSKEYTTL \in Nat /\ DNSKEYTTL <= PublishWait /\ PublishWait \in Nat
  BY WorldAssumptions, WaitAssumptions DEF PublishWait, maxDuration
<1>2. \A e \in cache.dnskey : e.left \in Nat /\ e.left <= DNSKEYTTL
  BY WorldParts DEF Base, TypeOK, ServedType, Cached, CacheBounded
<1> QED BY <1>1, <1>2 DEF DnskeyUpTo

\* Changing keys around a keyset that stays leaves nothing bad behind.
LEMMA ServeTimed ==
  ASSUME Base, NEW ks, NEW ksk, NEW zsk, Serve(ks, zoneTTL, secondary),
         Good(keys, ksk, zsk), Good(ks, ksk, zsk), NEW n
  PROVE  /\ Unseen(cache, secondary, lag, zsk, n) =>
              Unseen(cache', secondary', lag', zsk, n)
         /\ Seen(cache, secondary, ksk, zsk, n) => Seen(cache', secondary', ksk, zsk, n)
<1>1. ServedType
  BY WorldParts DEF Base, TypeOK
<1>2. GoodImage(Image(keys, zoneTTL), ksk, zsk) /\ GoodImage(Image(ks, zoneTTL), ksk, zsk)
  BY GoodServesGood
<1>3. \A i \in Served \ {Image(ks, zoneTTL), secondary} : i = Image(keys, zoneTTL)
  BY DEF Served
<1>4. \A e \in cache'.zone : e \in cache.zone \/ GoodZone(e.version, zsk)
  BY <1>1, <1>2, <1>3, ServeLeaves DEF GoodImage
<1>5. \A e \in cache'.dnskey : e \in cache.dnskey \/ GoodDnskey(e.version, ksk, zsk)
  BY <1>1, <1>2, <1>3, ServeLeaves DEF GoodImage
<1>6. ZoneUpTo(cache, zsk, n) => ZoneUpTo(cache', zsk, n)
  BY <1>4 DEF ZoneUpTo
<1>7. DnskeyUpTo(cache, ksk, zsk, n) => DnskeyUpTo(cache', ksk, zsk, n)
  BY <1>5 DEF DnskeyUpTo
<1>8. secondary' = secondary /\ (lag' = lag \/ secondary = Image(ks, zoneTTL))
  BY DEF Serve
<1>9. SecondaryUpTo(secondary, lag, zsk, n) => SecondaryUpTo(secondary', lag', zsk, n)
  BY <1>2, <1>8 DEF SecondaryUpTo, GoodImage
<1> QED BY <1>6, <1>7, <1>8, <1>9 DEF Unseen, Seen

\* A secondary that follows leaves its old data for the TTL it was allowed.
LEMMA SyncTimed ==
  ASSUME Base, SecondarySync, NEW ksk, NEW zsk, Good(keys, ksk, zsk), NEW n \in Nat
  PROVE  /\ Unseen(cache, secondary, lag, zsk, n) =>
              Unseen(cache', secondary', lag', zsk, n)
         /\ Seen(cache, secondary, ksk, zsk, n) => Seen(cache', secondary', ksk, zsk, n)
<1>1. ServedType
  BY WorldParts DEF Base, TypeOK
<1>2. Serve(keys, zoneTTL, Image(keys, zoneTTL))
  BY DEF SecondarySync
<1>3. GoodImage(Image(keys, zoneTTL), ksk, zsk)
  BY GoodServesGood
<1>4. \A i \in Served \ {Image(keys, zoneTTL), Image(keys, zoneTTL)} : i = secondary
  BY DEF Served
<1>5. \A e \in cache'.zone :
        e \in cache.zone \/ e = [version |-> ZoneRRset(secondary), left |-> secondary.ttl]
  BY <1>1, <1>2, <1>4, ServeLeaves
<1>6. \A e \in cache'.dnskey :
        e \in cache.dnskey \/ e = [version |-> DnskeyRRset(secondary), left |-> DNSKEYTTL]
  BY <1>1, <1>2, <1>4, ServeLeaves
<1>7. secondary' = Image(keys, zoneTTL)
  BY <1>2 DEF Serve
<1>8. SecondaryUpTo(secondary', lag', zsk, n)
  BY <1>3, <1>7 DEF SecondaryUpTo, GoodImage
<1>9. ASSUME Unseen(cache, secondary, lag, zsk, n)
      PROVE  Unseen(cache', secondary', lag', zsk, n)
  <2>1. secondary.ttl \in Nat /\ lag \in 0..ServerLag /\ ServerLag \in Nat
    BY <1>1, WorldAssumptions DEF ServedType, ZoneImage
  <2>2. GoodZone(ZoneRRset(secondary), zsk) \/ secondary.ttl <= n
    BY <1>9, <2>1 DEF Unseen, SecondaryUpTo
  <2>3. ZoneUpTo(cache', zsk, n)
    BY <1>5, <1>9, <2>2 DEF Unseen, ZoneUpTo
  <2> QED BY <1>8, <2>3 DEF Unseen
<1>10. ASSUME Seen(cache, secondary, ksk, zsk, n)
       PROVE  Seen(cache', secondary', ksk, zsk, n)
  <2>1. ZoneUpTo(cache', zsk, n)
    BY <1>5, <1>10 DEF Seen, ZoneUpTo, GoodImage
  <2>2. DnskeyUpTo(cache', ksk, zsk, n)
    BY <1>6, <1>10 DEF Seen, DnskeyUpTo, GoodImage
  <2> QED BY <1>3, <1>7, <2>1, <2>2 DEF Seen
<1> QED BY <1>9, <1>10

\* Time brings every limit one unit nearer.
LEMMA ElapseTimed ==
  ASSUME Base, WorldElapses, NEW ksk, NEW zsk, Good(keys, ksk, zsk),
         NEW n \in Nat, NEW m \in Nat, n <= m + 1
  PROVE  /\ Unseen(cache, secondary, lag, zsk, n) =>
              Unseen(cache', secondary', lag', zsk, m)
         /\ Seen(cache, secondary, ksk, zsk, n) => Seen(cache', secondary', ksk, zsk, m)
<1>1. ServedType
  BY WorldParts DEF Base, TypeOK
<1>2. ZoneUpTo(cache, zsk, n) => ZoneUpTo(cache', zsk, m)
  BY <1>1, ElapsedEntries DEF ZoneUpTo
<1>3. DnskeyUpTo(cache, ksk, zsk, n) => DnskeyUpTo(cache', ksk, zsk, m)
  BY <1>1, ElapsedEntries DEF DnskeyUpTo
<1>4. secondary' = secondary
  BY DEF WorldElapses
<1>5. SecondaryUpTo(secondary, lag, zsk, n) => SecondaryUpTo(secondary', lag', zsk, m)
  <2>1. CASE secondary = Image(keys, zoneTTL)
    BY <1>4, <2>1, GoodServesGood DEF SecondaryUpTo, GoodImage
  <2>2. CASE secondary # Image(keys, zoneTTL)
    <3>1. lag' = lag + 1 /\ lag < ServerLag /\ lag \in Nat /\ ServerLag \in Nat
          /\ secondary.ttl \in Nat
      BY <1>1, <2>2, WorldAssumptions DEF WorldElapses, ServedType, ZoneImage
    <3> QED BY <1>4, <3>1 DEF SecondaryUpTo
  <2> QED BY <2>1, <2>2
<1> QED BY <1>2, <1>3, <1>4, <1>5 DEF Unseen, Seen

\* A handler that keeps the recorded keyset moves on only when the wait of
\* the phase it leaves is over.
LEMMA HandledZoneTimed ==
  ASSUME Base, Ledger, ZoneTimed, Handled
  PROVE  ZoneTimed'
<1>1. UNCHANGED <<keys, secondary, lag, cache, puts>>
  BY DEF Handled, worldVars
<1>2. wf \in EnrollWorkflow /\ puts \in Nat /\ PublishWait \in Nat
  BY RecordParts DEF Base, TypeOK
<1>3. wf.phase \in Early \cup {"enroll_wait_publish"} => ~wf.tried /\ puts = 0
  BY DEF Ledger, Once
<1>4. wf.phase \in Early => ~wf.evidence
  BY DEF Ledger, Once
<1>5. CASE Blocks
  <2>1. wf'.phase = "blocked" /\ wf'.ksk = wf.ksk /\ wf'.zsk = wf.zsk /\ wf'.tried = wf.tried
    BY <1>2, <1>5 DEF Blocks, Blocked, EnrollWorkflow
  <2> QED BY <1>1, <2>1 DEF ZoneTimed, Announced, Proven
<1>6. CASE Dismisses
  <2>1. PICK w \in {wf, [NoRecord EXCEPT !.zoneID = zone.id]} : wf' = Ineligible(w)
    BY <1>6 DEF Dismisses
  <2>2. wf'.phase = "idle" /\ ~wf'.tried
    BY <1>2, <1>3, <1>6, <2>1 DEF Dismisses, Ineligible, NoRecord, EnrollWorkflow
  <2> QED BY <1>1, <1>3, <1>6, <2>2 DEF ZoneTimed, Announced, Proven, Dismisses
<1>7. CASE Discovers
  <2>1. wf'.phase = "enroll_discovered" /\ ~wf'.tried /\ wf'.ksk = 0
    BY <1>7 DEF Discovers, Candidate, NoRecord
  <2>2. ~Good(keys, 0, wf'.zsk)
    BY DEF Good, Base, KeysNumbered
  <2> QED BY <1>1, <1>3, <1>7, <2>1, <2>2 DEF ZoneTimed, Announced, Proven, Discovers, Early
<1>8. CASE Records
  <2>1. PICK w \in {wf, Candidate}, p \in CleanPairs :
          w.phase = "enroll_discovered" /\ wf' = Recorded(w, p[1], p[2])
    BY <1>8 DEF Records
  <2>2. puts = 0 /\ ~wf.tried
    BY <1>3, <1>8 DEF Records
  <2>3. w \in EnrollWorkflow /\ ~w.tried
    BY <1>2, <2>1, <2>2, RecordParts DEF Base, Candidate, NoRecord
  <2>4. wf'.phase = w.phase /\ wf'.tried = w.tried /\ wf'.next = DiscoveryGrace
    BY <2>1, <2>3 DEF Recorded, EnrollWorkflow
  <2>5. Unseen(cache, secondary, lag, wf'.zsk, DiscoveryGrace + PublishWait)
    BY GraceCovers
  <2> QED BY <1>1, <2>1, <2>2, <2>3, <2>4, <2>5 DEF ZoneTimed, Announced, Proven
<1>9. CASE StartsWait
  <2>1. /\ wf.phase = "enroll_discovered" /\ wf.next = 0
        /\ wf'.phase = "enroll_wait_publish" /\ wf'.ksk = wf.ksk /\ wf'.zsk = wf.zsk
        /\ wf'.tried = wf.tried /\ wf'.evidence = wf.evidence
    BY <1>2, <1>9 DEF StartsWait, EnrollWorkflow
  <2>2. wf.next + PublishWait = PublishWait /\ ~wf.evidence /\ ~wf.tried /\ puts = 0
    BY <1>2, <1>3, <1>4, <2>1 DEF Early
  <2> QED BY <1>1, <2>1, <2>2 DEF ZoneTimed, Announced, Proven
<1>10. CASE SeesZone
  <2>1. /\ wf.phase = "enroll_wait_publish" /\ ~wf.evidence /\ EnrollmentEvidence
        /\ wf'.phase = "enroll_wait_publish" /\ wf'.ksk = wf.ksk /\ wf'.zsk = wf.zsk
        /\ wf'.tried = wf.tried /\ wf'.evidence /\ wf'.next = PublishWait
    BY <1>2, <1>10 DEF SeesZone, EnrollWorkflow
  <2>2. ~wf.tried /\ puts = 0
    BY <1>3, <2>1
  <2>3. Good(keys, wf.ksk, wf.zsk) =>
          Seen(cache, secondary, wf.ksk, wf.zsk, PublishWait)
    BY <2>1, EvidenceIsGood, WaitCoversDNSKEY DEF ZoneTimed, Unseen, Seen
  <2> QED BY <1>1, <2>1, <2>2, <2>3 DEF ZoneTimed, Announced, Proven
<1>11. CASE TrustsZone
  <2>1. /\ wf.phase = "enroll_wait_publish" /\ wf.evidence /\ wf.next = 0
        /\ wf'.phase = "enroll_parent_add" /\ wf'.ksk = wf.ksk /\ wf'.zsk = wf.zsk
        /\ wf'.tried = wf.tried
    BY <1>2, <1>11 DEF TrustsZone, EnrollWorkflow
  <2> QED BY <1>1, <2>1 DEF ZoneTimed, Announced, Proven
<1>12. CASE FindsMaterial \/ KeepsCTID \/ FollowsJob \/ SeesDS
  <2>1. /\ wf.phase \in Proven /\ wf'.phase \in Proven
        /\ wf'.ksk = wf.ksk /\ wf'.zsk = wf.zsk /\ wf'.tried = wf.tried
    <3>1. CASE FindsMaterial
      BY <1>2, <3>1 DEF FindsMaterial, EnrollWorkflow, Proven
    <3>2. CASE KeepsCTID
      BY <1>2, <3>2 DEF KeepsCTID, EnrollWorkflow, Proven
    <3>3. CASE FollowsJob
      BY <1>2, <3>3 DEF FollowsJob, EnrollWorkflow, Proven
    <3>4. CASE SeesDS
      BY <1>2, <3>4 DEF SeesDS, EnrollWorkflow, Proven
    <3> QED BY <1>12, <3>1, <3>2, <3>3, <3>4
  <2> QED BY <1>1, <2>1 DEF ZoneTimed, Announced, Proven
<1>13. CASE Completes
  <2>1. wf'.phase = "idle" /\ wf'.ksk = wf.ksk /\ wf'.zsk = wf.zsk /\ ~wf'.tried
    BY <1>13 DEF Completes, NoRecord
  <2> QED BY <1>1, <2>1 DEF ZoneTimed, Announced, Proven
<1> QED BY <1>5, <1>6, <1>7, <1>8, <1>9, <1>10, <1>11, <1>12, <1>13 DEF Handled

\* The attempt is made for a zone whose every copy is signed by the recorded
\* keys; the PUT and its answers leave the zone alone.
LEMMA CallZoneTimed ==
  ASSUME Base, Ledger, ZoneTimed,
         \/ Attempts \/ Send \/ PersistAnswer \/ Abandon
         \/ \E r \in inflight : RegistrarAccepts(r) \/ LoseRequest(r)
  PROVE  ZoneTimed'
<1>1. UNCHANGED <<keys, secondary, lag, cache>>
  BY DEF Attempts, Send, PersistAnswer, Abandon, RegistrarAccepts, LoseRequest, worldVars
<1>2. wf \in EnrollWorkflow /\ puts \in Nat
  BY DEF Base, TypeOK
<1>3. CASE Attempts
  <2>1. Good(keys, wf.ksk, wf.zsk) /\ wf.phase = "enroll_parent_add"
    BY <1>3, NotDriftedIsGood DEF Attempts
  <2>2. wf'.phase = wf.phase /\ wf'.ksk = wf.ksk /\ wf'.zsk = wf.zsk
    BY <1>2, <1>3 DEF Attempts, WithRegistrarAttempt, EnrollWorkflow
  <2> QED BY <1>1, <2>1, <2>2 DEF ZoneTimed, Proven
<1>4. CASE PersistAnswer
  <2>1. call # "none" /\ UNCHANGED puts
    BY <1>4 DEF PersistAnswer, bookVars
  <2>2. wf.phase = "enroll_parent_add"
    BY <2>1 DEF Ledger, Once
  <2>3. /\ wf'.phase \in {"blocked", "enroll_wait_parent"} /\ wf'.tried = wf.tried
        /\ wf'.ksk = wf.ksk /\ wf'.zsk = wf.zsk
    BY <1>2, <1>4 DEF PersistAnswer, Blocked, EnrollWorkflow
  <2> QED BY <1>1, <2>1, <2>2, <2>3 DEF ZoneTimed, Announced, Proven
<1>5. CASE Send
  <2>1. wf' = wf /\ wf.tried
    BY <1>5 DEF Send, Ledger, Once
  <2> QED BY <1>1, <2>1 DEF ZoneTimed, Announced
<1>6. CASE UNCHANGED <<wf, puts>>
  BY <1>1, <1>6 DEF ZoneTimed, Announced
<1> QED BY <1>3, <1>4, <1>5, <1>6 DEF Abandon, RegistrarAccepts, LoseRequest

\* The operators do not touch the keys of an announced zone, and a keyset
\* they do touch is not the recorded one any more.
LEMMA OperatorZoneTimed ==
  ASSUME Base, Ledger, ZoneTimed, OperatorServes \/ Redelegate \/ Deselect \/ MaterialByHand
  PROVE  ZoneTimed'
<1>1. wf' = wf /\ puts' = puts
  BY DEF OperatorServes, Redelegate, Deselect, MaterialByHand
<1>2. CASE OperatorServes
  <2>1. PICK ks : /\ Serve(ks, zoneTTL, secondary)
                  /\ Succeeds(keys, ks, lastID, lastID')
                  /\ ~zone.dnssec \/ Unannounced \/ SameSigners(keys, ks)
    BY <1>2 DEF OperatorServes
  <2>2. keys' = ks
    BY <2>1 DEF Serve
  <2>3. /\ keys \in SUBSET PowerDNSKey /\ lastID \in Nat /\ wf.ksk \in Nat /\ wf.zsk \in Nat
        /\ wf.ksk <= lastID /\ wf.zsk <= lastID
    BY DEF Base, TypeOK, WorldTypeOK, EnrollWorkflow, KeysNumbered
  <2>4. Good(ks, wf.ksk, wf.zsk) => Good(keys, wf.ksk, wf.zsk)
    BY <2>1, <2>3, GoodBackward
  <2>5. \A n : Good(ks, wf.ksk, wf.zsk) =>
          /\ Unseen(cache, secondary, lag, wf.zsk, n) =>
               Unseen(cache', secondary', lag', wf.zsk, n)
          /\ Seen(cache, secondary, wf.ksk, wf.zsk, n) =>
               Seen(cache', secondary', wf.ksk, wf.zsk, n)
    BY <2>1, <2>4, ServeTimed
  <2>6. Announced => SameSigners(keys, ks)
    BY <2>1 DEF Announced, Unannounced, Ledger, Material
  <2>7. Announced => Good(ks, wf.ksk, wf.zsk)
    BY <2>6, GoodForward DEF ZoneTimed
  <2> QED BY <1>1, <2>2, <2>4, <2>5, <2>7 DEF ZoneTimed, Announced
<1>3. CASE Redelegate \/ Deselect \/ MaterialByHand
  <2>1. UNCHANGED <<keys, secondary, lag, cache>>
    BY <1>3 DEF Redelegate, Redelegated, Deselect, MaterialByHand, worldVars
  <2> QED BY <1>1, <2>1 DEF ZoneTimed, Announced
<1> QED BY <1>2, <1>3

\* A secondary that follows stays within its limit, and time brings limit and
\* wait down together.
LEMMA WorldZoneTimed ==
  ASSUME Base, Ledger, ZoneTimed, WorldStep \/ Elapse
  PROVE  ZoneTimed'
<1>1. wf \in EnrollWorkflow /\ PublishWait \in Nat /\ ServedType
  BY RecordParts, WorldParts DEF Base, TypeOK
<1>2. CASE WorldStep /\ SecondarySync
  <2>1. UNCHANGED <<keys, wf, puts>>
    BY <1>2 DEF WorldStep, SecondarySync, Serve, bookVars
  <2>2. \A n \in Nat : Good(keys, wf.ksk, wf.zsk) =>
          /\ Unseen(cache, secondary, lag, wf.zsk, n) =>
               Unseen(cache', secondary', lag', wf.zsk, n)
          /\ Seen(cache, secondary, wf.ksk, wf.zsk, n) =>
               Seen(cache', secondary', wf.ksk, wf.zsk, n)
    BY <1>2, SyncTimed
  <2>3. wf.next \in Nat /\ wf.next + PublishWait \in Nat /\ 0 \in Nat
    BY <1>1 DEF EnrollWorkflow
  <2> QED BY <1>1, <2>1, <2>2, <2>3 DEF ZoneTimed, Announced
<1>3. CASE WorldStep /\ ~SecondarySync
  <2>1. UNCHANGED <<keys, secondary, lag, wf, puts>>
    BY <1>3 DEF WorldStep, World, RegistrarApplies, RegistrarFails, RegistrarForgetsJob,
                ParentPublishes, ParentSync, bookVars
  <2>2. cache'.zone = cache.zone /\ cache'.dnskey = cache.dnskey
    BY <1>1, <1>3, ServeDSLeaves
       DEF WorldStep, World, RegistrarApplies, RegistrarFails, RegistrarForgetsJob,
           ParentPublishes, ParentSync
  <2>3. \A n : /\ Unseen(cache, secondary, lag, wf.zsk, n) =>
                    Unseen(cache', secondary, lag, wf.zsk, n)
               /\ Seen(cache, secondary, wf.ksk, wf.zsk, n) =>
                    Seen(cache', secondary, wf.ksk, wf.zsk, n)
    BY <2>2 DEF Unseen, Seen, ZoneUpTo, DnskeyUpTo
  <2> QED BY <2>1, <2>3 DEF ZoneTimed, Announced
<1>4. CASE Elapse
  <2>1. UNCHANGED <<keys, puts>> /\ WorldElapses
    BY <1>4 DEF Elapse, WorldElapses
  <2>2. /\ wf'.phase = wf.phase /\ wf'.ksk = wf.ksk /\ wf'.zsk = wf.zsk
        /\ wf'.tried = wf.tried /\ wf'.evidence = wf.evidence
    BY <1>1, <1>4 DEF Elapse, EnrollWorkflow
  <2>3. wf.next \in Nat /\ wf'.next \in Nat /\ wf.next <= wf'.next + 1
    BY <1>1, <1>4 DEF Elapse, EnrollWorkflow
  <2>4. \A n \in Nat, m \in Nat : n <= m + 1 /\ Good(keys, wf.ksk, wf.zsk) =>
          /\ Unseen(cache, secondary, lag, wf.zsk, n) =>
               Unseen(cache', secondary', lag', wf.zsk, m)
          /\ Seen(cache, secondary, wf.ksk, wf.zsk, n) =>
               Seen(cache', secondary', wf.ksk, wf.zsk, m)
    BY <2>1, ElapseTimed
  <2> DEFINE n == wf.next + PublishWait
             m == wf'.next + PublishWait
  <2>5. n \in Nat /\ m \in Nat /\ n <= m + 1 /\ 0 \in Nat /\ 0 <= 0 + 1
        /\ PublishWait <= PublishWait + 1
    BY <1>1, <2>3
  <2> HIDE DEF n, m
  <2>6. Good(keys, wf.ksk, wf.zsk) =>
          /\ Unseen(cache, secondary, lag, wf.zsk, n) =>
               Unseen(cache', secondary', lag', wf.zsk, m)
          /\ Unseen(cache, secondary, lag, wf.zsk, PublishWait) =>
               Unseen(cache', secondary', lag', wf.zsk, PublishWait)
          /\ Seen(cache, secondary, wf.ksk, wf.zsk, wf.next) =>
               Seen(cache', secondary', wf.ksk, wf.zsk, wf'.next)
          /\ Seen(cache, secondary, wf.ksk, wf.zsk, 0) =>
               Seen(cache', secondary', wf.ksk, wf.zsk, 0)
    BY <1>1, <2>3, <2>4, <2>5
  <2> QED BY <2>1, <2>2, <2>6 DEF ZoneTimed, Announced, n, m
<1> QED BY <1>2, <1>3, <1>4

\* The wait for the DS covers the parent's lag and the TTL of its absence, and
\* completion comes after it.
LEMMA HandledDSTimed ==
  ASSUME Base, Ledger, DSTimed, Handled
  PROVE  DSTimed'
<1>1. UNCHANGED <<parent, cache, puts>>
  BY DEF Handled, worldVars
<1>2. wf \in EnrollWorkflow /\ puts \in Nat /\ ParentType /\ ServedType
  BY WorldParts DEF Base, TypeOK
<1>3. /\ \A e \in cache.ds : e.left \in Nat /\ e.left > 0 /\ e.left <= DSTTL
      /\ DSTTL \in Nat /\ DSTTL > 0 /\ ParentLag \in Nat /\ parent.lag \in 0..ParentLag
  BY <1>2, WorldAssumptions DEF ServedType, ParentType, Cached, Base, CacheBounded
<1>4. wf.phase \in Early \cup {"enroll_wait_publish"} => puts = 0
  BY DEF Ledger, Once
<1>5. wf.phase # "idle" => wf.disposition # "enrolled"
  BY DEF Ledger, Once, Enrolled
<1>6. CASE SeesDS
  <2>1. /\ wf.phase = "enroll_wait_parent" /\ parent.fast = {wf.ksk}
        /\ wf'.ksk = wf.ksk /\ wf'.next = ParentWait /\ wf'.disposition = wf.disposition
    BY <1>2, <1>6 DEF SeesDS, EnrollWorkflow, AuthoritativeDSEvidence
  <2>2. ParentWait \in Nat /\ DSTTL + ParentLag <= ParentWait
    BY WorldAssumptions, WaitAssumptions, MarginCoversLag DEF ParentWait, maxDuration
  <2>3. (ParentLag - parent.lag) + DSTTL <= ParentWait /\ DSTTL <= ParentWait
    BY <1>3, <2>2
  <2>4. \A e \in cache.ds : e.left <= ParentWait
    BY <1>3, <2>2, <2>3
  <2> QED BY <1>1, <1>5, <2>1, <2>3, <2>4 DEF DSTimed, Enrolled
<1>7. CASE Completes
  <2>1. wf'.phase = "idle"
    BY <1>7 DEF Completes, NoRecord
  <2>2. CASE wf.phase = "enroll_discovered"
    BY <1>1, <1>4, <2>1, <2>2 DEF DSTimed, Early
  <2>3. CASE wf.phase = "enroll_wait_parent" /\ wf.evidence /\ wf.next = 0
    <3>1. \A e \in cache.ds : e.left <= 0
      BY <2>3 DEF DSTimed
    <3>2. cache.ds = {}
      BY <1>3, <3>1
    <3>3. parent.slow # parent.fast => (ParentLag - parent.lag) + DSTTL <= 0
      BY <2>3 DEF DSTimed
    <3>4. parent.slow = parent.fast
      BY <1>3, <3>3
    <3> QED BY <1>1, <2>1, <3>2, <3>4 DEF DSTimed
  <2> QED BY <1>7, <2>2, <2>3 DEF Completes
<1>8. CASE Blocks \/ Dismisses \/ Discovers \/ Records \/ StartsWait \/ SeesZone
           \/ TrustsZone \/ FindsMaterial \/ KeepsCTID \/ FollowsJob
  <2>1. /\ wf'.phase = "enroll_wait_parent" => ~wf'.evidence
        /\ wf'.disposition = "enrolled" => puts = 0
    <3>1. CASE Blocks
      BY <1>2, <1>5, <3>1 DEF Blocks, Blocked, EnrollWorkflow, Active
    <3>2. CASE Dismisses
      <4>1. PICK w \in {wf, [NoRecord EXCEPT !.zoneID = zone.id]} : wf' = Ineligible(w)
        BY <3>2 DEF Dismisses
      <4> QED BY <1>2, <4>1 DEF Ineligible, NoRecord, EnrollWorkflow
    <3>3. CASE Discovers
      BY <3>3 DEF Discovers, Candidate, NoRecord
    <3>4. CASE Records
      <4>1. PICK w \in {wf, Candidate}, p \in CleanPairs :
              w.phase = "enroll_discovered" /\ wf' = Recorded(w, p[1], p[2])
        BY <3>4 DEF Records
      <4>2. puts = 0
        BY <1>4, <3>4 DEF Records
      <4>3. w \in EnrollWorkflow
        BY <1>2, <4>1, RecordParts DEF Base
      <4> QED BY <4>1, <4>2, <4>3 DEF Recorded, EnrollWorkflow
    <3>5. CASE StartsWait
      BY <1>2, <1>5, <3>5 DEF StartsWait, EnrollWorkflow
    <3>6. CASE SeesZone
      BY <1>2, <1>5, <3>6 DEF SeesZone, EnrollWorkflow
    <3>7. CASE TrustsZone
      BY <1>2, <1>5, <3>7 DEF TrustsZone, EnrollWorkflow
    <3>8. CASE FindsMaterial
      BY <1>2, <1>5, <3>8 DEF FindsMaterial, EnrollWorkflow
    <3>9. CASE KeepsCTID
      BY <1>2, <1>5, <3>9 DEF KeepsCTID, EnrollWorkflow
    <3>10. CASE FollowsJob
      <4>1. ~wf.evidence
        BY <3>10 DEF FollowsJob, Ledger, Once
      <4> QED BY <1>2, <1>5, <3>10, <4>1 DEF FollowsJob, EnrollWorkflow
    <3> QED BY <1>8, <3>1, <3>2, <3>3, <3>4, <3>5, <3>6, <3>7, <3>8, <3>9, <3>10
  <2> QED BY <1>1, <2>1 DEF DSTimed, Enrolled
<1> QED BY <1>6, <1>7, <1>8 DEF Handled

\* No PUT is made while the DS is waited for, and none is under way when the
\* enrollment has ended.
LEMMA CallDSTimed ==
  ASSUME Base, Ledger, DSTimed,
         \/ Attempts \/ Send \/ PersistAnswer \/ Abandon
         \/ \E r \in inflight : RegistrarAccepts(r) \/ LoseRequest(r)
  PROVE  DSTimed'
<1>1. UNCHANGED <<parent, cache>>
  BY DEF Attempts, Send, PersistAnswer, Abandon, RegistrarAccepts, LoseRequest, worldVars
<1>2. wf \in EnrollWorkflow
  BY DEF Base, TypeOK
<1>3. CASE Attempts \/ PersistAnswer \/ Send
  <2>1. wf.phase = "enroll_parent_add" /\ wf.disposition # "enrolled"
    <3>1. wf.phase = "enroll_parent_add"
      BY <1>3 DEF Attempts, PersistAnswer, Send, Ledger, Once
    <3> QED BY <3>1 DEF Ledger, Once, Enrolled
  <2>2. /\ wf'.disposition = wf.disposition
        /\ wf'.phase = "enroll_wait_parent" => ~wf'.evidence
    <3>1. CASE Attempts
      BY <1>2, <2>1, <3>1 DEF Attempts, WithRegistrarAttempt, EnrollWorkflow
    <3>2. CASE PersistAnswer
      BY <1>2, <2>1, <3>2 DEF PersistAnswer, Blocked, EnrollWorkflow
    <3>3. CASE Send
      BY <2>1, <3>3 DEF Send
    <3> QED BY <1>3, <3>1, <3>2, <3>3
  <2> QED BY <2>1, <2>2 DEF DSTimed, Enrolled
<1>4. CASE UNCHANGED <<wf, puts>>
  BY <1>1, <1>4 DEF DSTimed, Enrolled
<1> QED BY <1>3, <1>4 DEF Abandon, RegistrarAccepts, LoseRequest

\* The operators publish no DS.
LEMMA OperatorDSTimed ==
  ASSUME Base, DSTimed, OperatorServes \/ Redelegate \/ Deselect \/ MaterialByHand
  PROVE  DSTimed'
<1>1. /\ UNCHANGED <<wf, puts>>
      /\ parent'.fast = parent.fast /\ parent'.slow = parent.slow
      /\ parent'.lag = parent.lag
  <2>1. ParentType
    BY WorldParts DEF Base, TypeOK
  <2> QED BY <2>1, RedelegatedLeaves
             DEF OperatorServes, Redelegate, Deselect, MaterialByHand, worldVars
<1>2. cache'.ds = cache.ds
  <2>1. ServedType
    BY WorldParts DEF Base, TypeOK
  <2>2. CASE OperatorServes
    BY <2>1, <2>2, ServeLeaves DEF OperatorServes
  <2>3. CASE Redelegate \/ Deselect \/ MaterialByHand
    BY <2>3 DEF Redelegate, Redelegated, Deselect, MaterialByHand, worldVars
  <2> QED BY <2>2, <2>3
<1> QED BY <1>1, <1>2 DEF DSTimed, Enrolled

\* The parent's last server follows within its lag, and the absence it
\* announced lives for the TTL; the wait comes down with both.
LEMMA WorldDSTimed ==
  ASSUME Base, Ledger, DSTimed, WorldStep \/ Elapse
  PROVE  DSTimed'
<1>1. /\ wf \in EnrollWorkflow /\ ParentType /\ ServedType /\ DSTTL \in Nat
      /\ ParentLag \in Nat /\ parent.lag \in 0..ParentLag /\ wf.next \in Nat
  BY WorldParts, WorldAssumptions DEF Base, TypeOK, EnrollWorkflow, ParentType
<1>2. CASE Elapse
  <2>1. /\ wf'.phase = wf.phase /\ wf'.ksk = wf.ksk /\ wf'.evidence = wf.evidence
        /\ wf'.disposition = wf.disposition /\ UNCHANGED puts
    BY <1>1, <1>2 DEF Elapse, EnrollWorkflow
  <2>2. wf'.next \in Nat /\ wf.next <= wf'.next + 1
    BY <1>1, <1>2 DEF Elapse, EnrollWorkflow
  <2>3. /\ parent'.fast = parent.fast /\ parent'.slow = parent.slow
        /\ parent.slow # parent.fast => parent'.lag = parent.lag + 1 /\ parent.lag < ParentLag
    BY <1>1, <1>2 DEF Elapse, WorldElapses, ParentType
  <2>4. \A e \in cache'.ds : \E x \in cache.ds : x.left \in Nat /\ e.left = x.left - 1
    BY <1>1, <1>2, ElapsedEntries DEF Elapse
  <2>5. ASSUME wf.phase = "enroll_wait_parent", wf.evidence
        PROVE  /\ parent'.slow # parent'.fast =>
                    (ParentLag - parent'.lag) + DSTTL <= wf'.next
               /\ \A e \in cache'.ds : e.left <= wf'.next
    <3>1. /\ parent.slow # parent.fast => (ParentLag - parent.lag) + DSTTL <= wf.next
          /\ \A e \in cache.ds : e.left <= wf.next
      BY <2>5 DEF DSTimed
    <3>2. parent'.slow # parent'.fast => (ParentLag - parent'.lag) + DSTTL <= wf'.next
      BY <1>1, <2>2, <2>3, <3>1
    <3>3. \A e \in cache'.ds : e.left <= wf'.next
      BY <1>1, <2>2, <2>4, <3>1
    <3> QED BY <3>2, <3>3
  <2> QED BY <2>1, <2>3, <2>4, <2>5 DEF DSTimed, Enrolled
<1>3. CASE WorldStep
  <2>1. UNCHANGED <<wf, puts>>
    BY <1>3 DEF WorldStep, bookVars
  <2>2. CASE SecondarySync
    BY <1>1, <2>1, <2>2, ServeLeaves DEF SecondarySync, DSTimed, Enrolled
  <2>3. CASE RegistrarApplies \/ RegistrarFails \/ RegistrarForgetsJob
    BY <2>1, <2>3
       DEF RegistrarApplies, RegistrarFails, RegistrarForgetsJob, DSTimed, Enrolled
  <2>4. CASE ParentPublishes \/ ParentSync
    <3>1. Enrolled => parent.fast = registrar.data
      BY DEF Ledger, Material
    <3>2. wf.phase = "enroll_wait_parent" /\ wf.evidence => parent.fast = registrar.data
      BY DEF DSTimed, Ledger, ParentFollows
    <3>3. ASSUME Enrolled, puts > 0
          PROVE  FALSE
      BY <2>4, <3>1, <3>3 DEF ParentPublishes, ParentSync, DSTimed
    <3>4. ASSUME wf.phase = "enroll_wait_parent", wf.evidence
          PROVE  /\ parent'.fast = {wf.ksk} /\ parent'.slow = parent'.fast
                 /\ \A e \in cache'.ds : e.left <= wf.next
      <4>1. ParentSync
        BY <2>4, <3>2, <3>4 DEF ParentPublishes
      <4>2. parent'.fast = parent.fast /\ parent'.slow = parent.fast
        BY <4>1 DEF ParentSync, ServeDS
      <4>3. /\ parent.fast = {wf.ksk} /\ (ParentLag - parent.lag) + DSTTL <= wf.next
            /\ \A e \in cache.ds : e.left <= wf.next
        BY <3>4, <4>1 DEF DSTimed, ParentSync
      <4>4. DSTTL <= wf.next
        BY <1>1, <4>3
      <4>5. \A e \in cache'.ds : e \in cache.ds \/ e.left = DSTTL
        BY <1>1, <4>1, ServeDSLeaves DEF ParentSync
      <4> QED BY <4>2, <4>3, <4>4, <4>5
    <3> QED BY <2>1, <3>3, <3>4 DEF DSTimed, Enrolled
  <2> QED BY <1>3, <2>2, <2>3, <2>4 DEF WorldStep, World
<1> QED BY <1>2, <1>3
-----------------------------------------------------------------------------
(* Theorems.                                                               *)

Inv == Base /\ Ledger /\ ZoneTimed /\ DSTimed

\* An unsigned zone with no record satisfies the invariant.
LEMMA InitInv ==
  ASSUME Init
  PROVE  Inv
<1>1. /\ keys = {} /\ zoneTTL \in ZoneTTLs /\ secondary = Image({}, zoneTTL) /\ lag = 0
      /\ cache = [dnskey |-> {}, zone |-> {}, ds |-> {}]
      /\ registrar = [data |-> {}, job |-> "none", jobData |-> {}]
      /\ parent \in [fast : {{}}, slow : {{}}, lag : {0}, delegated : BOOLEAN]
  <2>1. parent \in [fast : {{}}, slow : {{}}, lag : {0}, delegated : Delegations]
    BY DEF Init, WorldInit
  <2> QED BY <2>1, WorldAssumptions DEF Init, WorldInit
<1>2. /\ wf = NoRecord /\ call = "none" /\ inflight = {} /\ lastID = 0 /\ puts = 0
      /\ faults = 0 /\ edits = 0
  BY DEF Init
<1>2a. zone \in [dnssec : BOOLEAN, id : Nat, selected : BOOLEAN]
  <2>1. zone \in [dnssec : {FALSE}, id : {1}, selected : {TRUE}]
    BY DEF Init
  <2>2. {FALSE} \subseteq BOOLEAN /\ {TRUE} \subseteq BOOLEAN /\ {1} \subseteq Nat
    OBVIOUS
  <2> QED BY <2>1, <2>2, Zenon
<1>3. WorldTypeOK
  <2>1. {} \in SUBSET PowerDNSKey /\ {} \in KeyIDs /\ 0 \in 0..ServerLag /\ 0 \in 0..ParentLag
    BY WorldAssumptions DEF KeyIDs
  <2>2. secondary \in ZoneImage
    BY <1>1, <2>1, ImageType
  <2> QED BY <1>1, <2>1, <2>2 DEF WorldTypeOK, Cached
<1>4. TypeOK
  <2>1. wf \in EnrollWorkflow
    BY <1>2, WaitAssumptions DEF NoRecord, EnrollWorkflow
  <2> QED BY <1>2, <1>2a, <1>3, <2>1, EnrollmentAssumptions DEF TypeOK
<1>5. KeysNumbered /\ CacheBounded
  BY <1>1, <1>2 DEF KeysNumbered, CacheBounded, NoRecord
<1>6. Once
  BY <1>2 DEF Once, NoRecord, Enrolled
<1>7. ParentFollows
  BY <1>1 DEF ParentFollows
<1>8. Material
  BY <1>1, <1>2 DEF Material, NoRecord, Announced, Enrolled
<1>9. ZoneTimed /\ DSTimed
  <2>1. wf.phase = "unknown" /\ wf.disposition = "none" /\ ~wf.tried /\ ~(puts > 0)
    BY <1>2 DEF NoRecord
  <2> QED BY <2>1 DEF ZoneTimed, DSTimed, Announced, Enrolled, Proven
<1> QED BY <1>4, <1>5, <1>6, <1>7, <1>8, <1>9 DEF Inv, Base, Ledger

\* Every step of the controller, the operators and the world keeps it.
LEMMA NextInv ==
  ASSUME Inv, [Next]_vars
  PROVE  Inv'
<1> USE DEF Inv
<1>1. CASE Handled
  BY <1>1, HandledBase, HandledLedger, HandledZoneTimed, HandledDSTimed
<1>2. CASE \/ Attempts \/ Send \/ PersistAnswer \/ Abandon
           \/ \E r \in inflight : RegistrarAccepts(r) \/ LoseRequest(r)
  BY <1>2, CallBase, SendLedger, AnswerLedger, CallZoneTimed, CallDSTimed
<1>3. CASE OperatorServes \/ Redelegate \/ Deselect \/ MaterialByHand
  BY <1>3, OperatorBase, OperatorLedger, OperatorZoneTimed, OperatorDSTimed
<1>4. CASE WorldStep \/ Elapse
  BY <1>4, WorldBase, WorldLedger, WorldZoneTimed, WorldDSTimed
<1>5. CASE UNCHANGED vars
  <2>1. UNCHANGED <<keys, zoneTTL, secondary, lag, cache, registrar, parent, zone, wf, call,
                    inflight, lastID, puts, faults, edits>>
    BY <1>5 DEF vars, worldVars
  <2>2. Base'
    BY <2>1 DEF Base, TypeOK, WorldTypeOK, KeysNumbered, CacheBounded
  <2>3. Ledger'
    BY <2>1 DEF Ledger, Once, ParentFollows, Material, Enrolled, Announced
  <2>4. ZoneTimed' /\ DSTimed'
    BY <2>1 DEF ZoneTimed, DSTimed, Enrolled, Announced
  <2> QED BY <2>2, <2>3, <2>4
<1>6. TypeOK /\ KeysNumbered
  BY DEF Base
<1> QED BY <1>1, <1>2, <1>3, <1>4, <1>5, <1>6, HandlerShapes, OperatorShapes
        DEF Next, Controller, Operator

\* The invariant holds in every reachable state.
LEMMA Invariance == Spec => []Inv
  BY InitInv, NextInv, PTL DEF Spec

\* Record, call, requests and world keep their types over every lost answer,
\* crash, restart and edit by operators.
THEOREM EnrollmentTypeCorrect == Spec => []TypeOK
<1>1. Inv => TypeOK
  BY DEF Inv, Base
<1> QED BY <1>1, Invariance, PTL

\* At most one PUT is sent to the registrar for a zone: enrollParentAdd puts
\* RegistrarAttemptedAt on disk before it, and no record begins again.
THEOREM AtMostOnePut == Spec => []OneWrite
<1>1. Inv => OneWrite
  BY DEF Inv, Ledger, Once, OneWrite
<1> QED BY <1>1, Invariance, PTL

\* Every copy of an announced zone, served or cached, is signed by the
\* recorded keys.
LEMMA AnnouncedVersions ==
  ASSUME Inv, Announced
  PROVE  /\ \A v \in DnskeyVersions : GoodDnskey(v, wf.ksk, wf.zsk)
         /\ \A v \in ZoneVersions : GoodZone(v, wf.zsk)
<1>1. Good(keys, wf.ksk, wf.zsk) /\ Seen(cache, secondary, wf.ksk, wf.zsk, 0)
  BY DEF Inv, ZoneTimed
<1>2. \A i \in Served : GoodImage(i, wf.ksk, wf.zsk)
  BY <1>1, GoodServesGood DEF Served, Seen
<1>3. /\ \A e \in cache.dnskey : e.left \in Nat \ {0}
      /\ \A e \in cache.zone : e.left \in Nat \ {0}
  BY DEF Inv, Base, TypeOK, WorldTypeOK, Cached
<1>4. /\ \A e \in cache.dnskey : GoodDnskey(e.version, wf.ksk, wf.zsk)
      /\ \A e \in cache.zone : GoodZone(e.version, wf.zsk)
  BY <1>1, <1>3 DEF Seen, ZoneUpTo, DnskeyUpTo
<1> QED BY <1>2, <1>4 DEF DnskeyVersions, ZoneVersions, GoodImage

\* Once the PUT was sent, every resolver validates the zone with whatever
\* mixture of DS, DNSKEY and zone data it holds: discovery grace and publish
\* wait outlast every unsigned copy.
THEOREM AnnouncedZoneIsValid == Spec => []AnnouncedZoneValidates
<1>1. ASSUME Inv, puts > 0
      PROVE  ChainOfTrust
  <2>1. Announced
    BY <1>1 DEF Announced
  <2>2. /\ \A v \in DnskeyVersions : GoodDnskey(v, wf.ksk, wf.zsk)
        /\ \A v \in ZoneVersions : GoodZone(v, wf.zsk)
    BY <1>1, <2>1, AnnouncedVersions
  <2>3. \A ds \in DSVersions : ds = {} \/ ds = {wf.ksk}
    BY <1>1, <2>1 DEF Inv, Ledger, ParentFollows, Material, DSVersions
  <2> SUFFICES ASSUME NEW ds \in DSVersions, NEW d \in DnskeyVersions, NEW z \in ZoneVersions
               PROVE  Validates(ds, d, z)
    BY DEF ChainOfTrust
  <2>4. wf.ksk \in d.keys /\ wf.ksk \in d.sig /\ wf.zsk \in d.keys /\ wf.zsk \in z.sig
    BY <2>2 DEF GoodDnskey, GoodZone
  <2> QED BY <2>3, <2>4 DEF Validates
<1> QED BY <1>1, Invariance, PTL DEF AnnouncedZoneValidates

\* An enrollment that completed has its KSK, and nothing else, at registrar
\* and parent and, where the controller wrote the DS itself, its keys in every
\* DNSKEY set, its signatures on all data, and no resolver left that believes
\* the zone to be insecure.
THEOREM EnrolledIsComplete == Spec => []EnrolledIsProven
<1>1. ASSUME Inv, wf.disposition = "enrolled"
      PROVE  /\ registrar.data = {wf.ksk}
             /\ registrar.job = "pending" => registrar.jobData = {wf.ksk}
             /\ parent.fast = {wf.ksk}
  BY <1>1 DEF Inv, Ledger, Material, Enrolled
<1>2. ASSUME Inv, wf.disposition = "enrolled", puts > 0
      PROVE  /\ \A v \in DnskeyVersions :
                  {wf.ksk, wf.zsk} \subseteq v.keys /\ wf.ksk \in v.sig
             /\ \A v \in ZoneVersions : wf.zsk \in v.sig
             /\ DSVersions = {{wf.ksk}}
  <2>1. Announced
    BY <1>2 DEF Announced
  <2>2. /\ \A v \in DnskeyVersions : GoodDnskey(v, wf.ksk, wf.zsk)
        /\ \A v \in ZoneVersions : GoodZone(v, wf.zsk)
    BY <1>2, <2>1, AnnouncedVersions
  <2>3. parent.slow = parent.fast /\ cache.ds = {}
    BY <1>2 DEF Inv, DSTimed, Enrolled
  <2>4. DSVersions = {{wf.ksk}}
    BY <1>1, <1>2, <2>3 DEF DSVersions
  <2> QED BY <2>2, <2>4 DEF GoodDnskey, GoodZone
<1>3. Inv => EnrolledIsProven
  BY <1>1, <1>2 DEF EnrolledIsProven
<1> QED BY <1>3, Invariance, PTL

=============================================================================
