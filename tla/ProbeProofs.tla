---------------------------- MODULE ProbeProofs ----------------------------
(***************************************************************************)
(* Proofs about Probe for any number of parent servers, resolvers, levels, *)
(* failures and changes.                                                   *)
(*                                                                         *)
(* NothingOverlooked speaks of the end of a look-up and is not inductive.  *)
(* What is kept on the way is that no address asked at this level has      *)
(* contradicted it since the look-up began (AskedAreClean), and that the   *)
(* addresses that have still do (SteadyContradict).  Both need that the    *)
(* look-up ends at such an address, which is not so for another DS RRset.  *)
(***************************************************************************)
EXTENDS Probe, TLAPS

\* An address that has contradicted the proof since the beginning does so now,
\* and is one the look-up would hear.
SteadyContradict ==
  \A a \in steady : a \in Serving \ down /\ Contradicts(op, served[a[1]])

\* None of them has been asked at this level: it would have ended the look-up.
AskedAreClean ==
  stage = "level" /\ op # "DS" => (level \ todo) \cap steady = {}

Inv == TypeOK /\ SteadyContradict /\ AskedAreClean /\ NothingOverlooked

\* A look-up has not begun.
LEMMA ProbeInit == Init => Inv
<1> SUFFICES ASSUME Init PROVE Inv
  OBVIOUS
<1>1. TypeOK
  <2>1. last \in BOOLEAN
    BY DEF Init
  <2>2. down \subseteq Addresses /\ lame \subseteq ParentServers
    BY DEF Init, AtMost
  <2>3. depth \in 0..MaxDepth /\ changes \in 0..MaxChanges /\ faults \in 0..MaxFaults
    BY ProbeAssumptions DEF Init
  <2> QED BY <2>1, <2>2, <2>3 DEF Init, TypeOK
<1> QED BY <1>1 DEF Init, Inv, SteadyContradict, AskedAreClean, NothingOverlooked

\* An address of the parent names one of its hosts.
LEMMA HostOfAddress ==
  ASSUME NEW a \in ParentServers
  PROVE  a[1] \in ParentHosts
  BY DEF ParentServers

\* Only the look-up of a DS is not ended by what contradicts it.
LEMMA ContradictionRefutes ==
  ASSUME op # "DS", op \in Lookups, NEW data, Contradicts(op, data)
  PROVE  Verdict(op, data) = "refuted"
  BY ProbeAssumptions DEF Contradicts, Verdict

\* A new level has nothing asked yet.
LEMMA LevelTypes ==
  ASSUME TypeOK, NEW servers \in SUBSET Addresses, Level(servers)
  PROVE  /\ stage' = "level" /\ level' \subseteq Addresses
         /\ todo' \subseteq Addresses \cup Resolvers
         /\ verified' \subseteq Addresses /\ referrals' \subseteq Addresses
         /\ last' \in BOOLEAN /\ level' \ todo' = {}
  BY DEF Level

\* The steps of a look-up keep the types.
LEMMA LookupType ==
  ASSUME TypeOK, Lookup
  PROVE  TypeOK'
<1> USE ProbeAssumptions
<1>1. RootServers \subseteq Addresses /\ ParentServers \subseteq Addresses
      /\ Serving \subseteq ParentServers
  BY DEF Addresses, Serving
<1>2. ASSUME NEW result \in {"ok", "error"}, End(result),
             UNCHANGED <<worldVars, op, steady>>, faults' \in 0..MaxFaults
      PROVE  TypeOK'
  <2>1. last' \in BOOLEAN
    BY <1>2 DEF End
  <2>2. depth' \in 0..MaxDepth
    BY <1>2 DEF End
  <2> QED BY <1>2, <2>1, <2>2 DEF End, TypeOK, worldVars
<1>3. ASSUME NEW servers \in SUBSET Addresses, Level(servers),
             UNCHANGED <<worldVars, op, steady, faults>>, depth' \in 0..MaxDepth
      PROVE  TypeOK'
  BY <1>3, LevelTypes DEF TypeOK, worldVars
<1>4. CASE Begin
  <2>1. steady' \subseteq ParentServers /\ depth' \in 0..MaxDepth
    BY <1>1, <1>4 DEF Begin
  <2>2. CASE op = "NoDS"
    BY <1>4, <2>1, <2>2 DEF Begin, TypeOK, worldVars
  <2>3. CASE op # "NoDS"
    BY <1>1, <1>4, <2>1, <2>3, LevelTypes DEF Begin, TypeOK, worldVars
  <2> QED BY <2>2, <2>3
<1>5. CASE AskResolver
  <2>1. ASSUME NEW r \in todo, todo' = todo \ {r},
               UNCHANGED <<worldVars, op, steady, faults, stage, depth, level,
                           verified, referrals, last>>
        PROVE  TypeOK'
    BY <2>1 DEF TypeOK, worldVars
  <2>2. faults \in 0..MaxFaults /\ depth \in 0..MaxDepth
    BY DEF TypeOK
  <2> QED BY <1>1, <1>2, <1>3, <1>5, <2>1, <2>2 DEF AskResolver
<1>6. CASE ResolverFails
  <2>1. faults' \in 0..MaxFaults
    BY <1>6 DEF ResolverFails, TypeOK
  <2> QED BY <1>2, <1>6, <2>1 DEF ResolverFails
<1>7. CASE AskUnanswered
  <2>1. faults' \in 0..MaxFaults
    BY <1>7 DEF AskUnanswered, TypeOK
  <2> QED BY <1>7, <2>1 DEF AskUnanswered, Passed, TypeOK, worldVars
<1>8. CASE AskReferring
  <2>1. faults' \in 0..MaxFaults
    BY <1>8 DEF AskReferring, TypeOK
  <2>2. ParentHosts \X {"v4"} \subseteq ParentServers
    BY DEF ParentServers, Families
  <2>3. referrals' \subseteq Addresses
    BY <1>1, <1>8, <2>2 DEF AskReferring, TypeOK
  <2> QED BY <1>8, <2>1, <2>3 DEF AskReferring, Passed, TypeOK, worldVars
<1>9. CASE AskParent
  <2>1. PICK a \in todo \ down :
          /\ a \in Serving
          /\ \/ End("error")
             \/ /\ Passed(a)
                /\ verified' = verified \/ verified' = verified \cup {a}
                /\ last' = (last \/ VerdictOf(a) = "error")
                /\ UNCHANGED referrals
    BY <1>9 DEF AskParent
  <2>2. UNCHANGED <<worldVars, op, steady, faults>> /\ faults \in 0..MaxFaults
    BY <1>9 DEF AskParent, TypeOK
  <2>3. CASE End("error")
    BY <1>2, <2>2, <2>3
  <2>4. CASE Passed(a) /\ UNCHANGED referrals /\ last' \in BOOLEAN
             /\ (verified' = verified \/ verified' = verified \cup {a})
    BY <1>1, <2>1, <2>2, <2>4 DEF Passed, TypeOK, worldVars
  <2> QED BY <2>1, <2>3, <2>4
<1>10. CASE LevelEnds
  <2>1. UNCHANGED <<worldVars, op, steady, faults>> /\ faults \in 0..MaxFaults
    BY <1>10 DEF LevelEnds, TypeOK
  <2>2. referrals \in SUBSET Addresses
    BY DEF TypeOK
  <2>3. (IF depth < MaxDepth THEN depth + 1 ELSE depth) \in 0..MaxDepth
    BY DEF TypeOK
  <2> QED BY <1>2, <1>3, <1>10, <2>1, <2>2, <2>3 DEF LevelEnds
<1> QED BY <1>4, <1>5, <1>6, <1>7, <1>8, <1>9, <1>10 DEF Lookup

\* Registry, servers and resolvers keep the types.
LEMMA WorldType ==
  ASSUME TypeOK,
         \/ RegistryChanges
         \/ \E h \in ParentHosts : ParentSync(h)
         \/ \E r \in Resolvers : ResolverRefreshes(r)
  PROVE  TypeOK'
<1> USE ProbeAssumptions DEF TypeOK, lookupVars
<1>1. CASE RegistryChanges
  BY <1>1 DEF RegistryChanges
<1>2. ASSUME NEW h \in ParentHosts, ParentSync(h) PROVE TypeOK'
  BY <1>2 DEF ParentSync
<1>3. ASSUME NEW r \in Resolvers, ResolverRefreshes(r) PROVE TypeOK'
  BY <1>3 DEF ResolverRefreshes
<1> QED BY <1>1, <1>2, <1>3

\* The steps of a look-up: whoever is passed at this level is not, or no
\* longer, one that has contradicted the proof throughout.
LEMMA LookupClean ==
  ASSUME Inv, Lookup
  PROVE  SteadyContradict' /\ AskedAreClean' /\ NothingOverlooked'
<1> USE DEF Inv
<1> DEFINE Goal == SteadyContradict' /\ AskedAreClean' /\ NothingOverlooked'
<1>1. UNCHANGED <<down, lame, served, op>>
  BY DEF Lookup, Begin, AskResolver, ResolverFails, AskUnanswered, AskReferring,
         AskParent, LevelEnds, worldVars
<1>2. Serving' = Serving
  BY <1>1 DEF Serving
<1>3. ASSUME steady' \subseteq steady PROVE SteadyContradict'
  BY <1>1, <1>2, <1>3 DEF SteadyContradict
<1>4. ASSUME UNCHANGED steady, stage' = "error" PROVE Goal
  BY <1>3, <1>4 DEF AskedAreClean, NothingOverlooked
<1>5. ASSUME UNCHANGED steady, stage' = "level", level' \ todo' = {} PROVE Goal
  BY <1>3, <1>5 DEF AskedAreClean, NothingOverlooked
<1>6. ASSUME NEW a \in todo, Passed(a), stage = "level", steady' \subseteq steady,
             op # "DS" => a \notin steady'
      PROVE  Goal
  BY <1>1, <1>3, <1>6 DEF Passed, AskedAreClean, NothingOverlooked
<1>7. CASE Begin
  <2>1. steady' = {a \in Serving \ down : Contradicts(op, served[a[1]])}
    BY <1>7 DEF Begin
  <2>2. SteadyContradict'
    BY <1>1, <1>2, <2>1 DEF SteadyContradict
  <2>3. \/ stage' = "resolvers"
        \/ stage' = "level" /\ level' \ todo' = {}
    BY <1>7 DEF Begin, Level
  <2> QED BY <2>2, <2>3 DEF AskedAreClean, NothingOverlooked
<1>8. CASE AskResolver \/ ResolverFails
  <2>1. UNCHANGED steady
    BY <1>8 DEF AskResolver, ResolverFails
  <2>2. \/ stage' = "error" \/ stage' = "resolvers"
        \/ stage' = "level" /\ level' \ todo' = {}
    BY <1>8 DEF AskResolver, ResolverFails, End, Level
  <2> QED BY <1>3, <1>4, <1>5, <2>1, <2>2 DEF AskedAreClean, NothingOverlooked
<1>9. CASE AskUnanswered
  BY <1>6, <1>9 DEF AskUnanswered
<1>10. CASE AskReferring
  <2>1. PICK a \in todo : a \notin Serving /\ Passed(a)
    BY <1>10 DEF AskReferring
  <2>2. a \notin steady /\ UNCHANGED steady /\ stage = "level"
    BY <1>10, <2>1 DEF SteadyContradict, AskReferring
  <2> QED BY <1>6, <2>1, <2>2
<1>11. CASE AskParent
  <2>1. PICK a \in todo : \/ End("error")
                          \/ Passed(a) /\ VerdictOf(a) # "refuted"
    BY <1>11 DEF AskParent
  <2>2. UNCHANGED steady /\ stage = "level"
    BY <1>11 DEF AskParent
  <2>3. CASE End("error")
    BY <1>4, <2>2, <2>3 DEF End
  <2>4. CASE Passed(a) /\ VerdictOf(a) # "refuted"
    <3>1. op \in Lookups
      BY DEF TypeOK
    <3>2. op # "DS" => a \notin steady
      BY <2>4, <3>1, ContradictionRefutes DEF SteadyContradict, VerdictOf
    <3> QED BY <1>6, <2>2, <2>4, <3>2
  <2> QED BY <2>1, <2>3, <2>4
<1>12. CASE LevelEnds
  <2>1. UNCHANGED steady /\ todo = {} /\ stage = "level"
    BY <1>12 DEF LevelEnds, Proved
  <2>2. CASE End("ok")
    <3>1. (op # "DS" => level \cap steady = {}) /\ level' = level
      BY <2>1, <2>2 DEF AskedAreClean, End
    <3> QED BY <1>1, <1>3, <2>1, <2>2, <3>1 DEF End, AskedAreClean, NothingOverlooked
  <2>3. CASE End("error") \/ Level(referrals)
    BY <1>4, <1>5, <2>1, <2>3 DEF End, Level
  <2> QED BY <1>12, <2>2, <2>3 DEF LevelEnds
<1> QED BY <1>7, <1>8, <1>9, <1>10, <1>11, <1>12 DEF Lookup

\* Around the look-up: a server that changes its mind is no longer steady.
LEMMA WorldClean ==
  ASSUME Inv,
         \/ RegistryChanges
         \/ \E h \in ParentHosts : ParentSync(h)
         \/ \E r \in Resolvers : ResolverRefreshes(r)
  PROVE  SteadyContradict' /\ AskedAreClean' /\ NothingOverlooked'
<1> USE DEF Inv
<1>1. UNCHANGED <<down, lame, op, stage, level, todo>> /\ steady' \subseteq steady
  BY DEF RegistryChanges, ParentSync, ResolverRefreshes, lookupVars
<1>2. AskedAreClean' /\ NothingOverlooked'
  BY <1>1 DEF AskedAreClean, NothingOverlooked
<1>3. Serving' = Serving
  BY <1>1 DEF Serving
<1>4. ASSUME UNCHANGED served PROVE SteadyContradict'
  BY <1>1, <1>3, <1>4 DEF SteadyContradict
<1>5. ASSUME NEW h \in ParentHosts, ParentSync(h) PROVE SteadyContradict'
  <2> SUFFICES ASSUME NEW a \in steady' PROVE Contradicts(op, served'[a[1]])
    BY <1>1, <1>3 DEF SteadyContradict
  <2>1. a \in steady /\ (a[1] # h \/ Contradicts(op, registry))
    BY <1>5 DEF ParentSync
  <2>2. a[1] \in ParentHosts
    BY <2>1, HostOfAddress DEF TypeOK
  <2>3. served' = [served EXCEPT ![h] = registry]
    BY <1>5 DEF ParentSync
  <2>4. served'[a[1]] = IF a[1] = h THEN registry ELSE served[a[1]]
    BY <2>2, <2>3 DEF TypeOK
  <2> QED BY <2>1, <2>4 DEF SteadyContradict
<1> QED BY <1>2, <1>4, <1>5 DEF RegistryChanges, ResolverRefreshes

\* Every step keeps the invariant.
LEMMA ProbeNext ==
  ASSUME Inv, [Next]_vars
  PROVE  Inv'
<1>1. CASE UNCHANGED vars
  BY <1>1 DEF vars, worldVars, lookupVars, Inv, TypeOK, SteadyContradict, Serving,
              AskedAreClean, NothingOverlooked
<1> QED BY <1>1, LookupType, WorldType, LookupClean, WorldClean DEF Next, Inv

\* The inductive invariant holds in every behaviour.
LEMMA ProbeInv == Spec => []Inv
<1>1. Inv /\ [Next]_vars => Inv'
  BY ProbeNext
<1> QED BY <1>1, ProbeInit, PTL DEF Spec

\* Every look-up works on addresses and levels that exist: it never descends
\* below MaxDepth, however servers refer to each other.
THEOREM ProbeTypeCorrect == Spec => []TypeOK
<1>1. Inv => TypeOK
  BY DEF Inv
<1> QED BY <1>1, ProbeInv, PTL

\* NoDSEvidence never succeeds over an address of its last level that served a
\* DS RRset from its beginning to its end, nor DelegationEvidence over one
\* with another NS RRset, for any number of servers and in whatever order
\* they are asked, fail and change.
THEOREM NothingIsOverlooked == Spec => []NothingOverlooked
<1>1. Inv => NothingOverlooked
  BY DEF Inv
<1> QED BY <1>1, ProbeInv, PTL
=============================================================================
