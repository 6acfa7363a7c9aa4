------------------------------- MODULE Probe -------------------------------
(***************************************************************************)
(* The iterative lookups of internal/dnsprobe: NoDSEvidence, the parent's  *)
(* part of DelegationEvidence and AuthoritativeDSEvidence walk from the    *)
(* root to the zone's parent and want their proof from two addresses of    *)
(* one level.  The controller repeats a lookup that failed; the parent's   *)
(* servers follow the registry one by one, in the middle of a lookup too.  *)
(*                                                                         *)
(* What a parent server has on the zone is "none", "old" or "new": its DS  *)
(* RRset, where "new" is the one looked for, or its NS RRset, where "new"  *)
(* is the one configured.  A response that fails verification is one that  *)
(* does not come.                                                          *)
(***************************************************************************)
EXTENDS Naturals, FiniteSets

CONSTANTS
  ParentHosts,  \* the parent's servers, each with an IPv4 and an IPv6 address
  Resolvers,    \* dns.resolvers
  Lookups,      \* which lookups the controller makes
  MaxDepth,     \* levels a lookup descends, 12 in the code
  MaxDown,      \* bound: addresses that cannot be reached at all
  MaxLame,      \* bound: parent addresses that only refer to the root
  MaxChanges,   \* bound: changes in the registry
  MaxFaults     \* bound: queries and referrals that fail once

ASSUME ProbeAssumptions ==
  /\ "root" \notin ParentHosts
  /\ Lookups \subseteq {"NoDS", "Delegation", "DS"}
  /\ MaxDepth \in Nat /\ MaxDown \in Nat /\ MaxLame \in Nat
  /\ MaxChanges \in Nat /\ MaxFaults \in Nat

Families == {"v4", "v6"}
RootServers == {"root"} \X Families
ParentServers == ParentHosts \X Families
Addresses == RootServers \cup ParentServers
Data == {"none", "old", "new"}

VARIABLES
  down,      \* addresses out of reach
  lame,      \* addresses in the parent's NS set that do not serve it
  registry,  \* what the registry has for the zone
  served,    \* what each of the parent's hosts serves
  cached,    \* what each resolver answers
  op,        \* the lookup that runs
  stage,     \* "idle", "resolvers", "level", "ok" or "error"
  depth,     \* levels done
  level,     \* the addresses of this level
  todo,      \* resolvers, or addresses of the level, not asked yet
  verified,  \* addresses of this level that gave the proof
  last,      \* an error was met at this level
  referrals, \* addresses for the next level
  steady,    \* history: addresses contradicting the proof since the lookup began
  changes, faults   \* what the bounds count

worldVars == <<down, lame, registry, served, cached, changes>>
lookupVars == <<op, stage, depth, level, todo, verified, last, referrals>>
vars == <<worldVars, lookupVars, steady, faults>>

TypeOK ==
  /\ down \subseteq Addresses
  /\ lame \subseteq ParentServers
  /\ registry \in Data
  /\ served \in [ParentHosts -> Data]
  /\ cached \in [Resolvers -> Data]
  /\ op \in Lookups
  /\ stage \in {"idle", "resolvers", "level", "ok", "error"}
  /\ depth \in 0..MaxDepth
  /\ level \subseteq Addresses
  /\ todo \subseteq Addresses \cup Resolvers
  /\ verified \subseteq Addresses
  /\ last \in BOOLEAN
  /\ referrals \subseteq Addresses
  /\ steady \subseteq ParentServers
  /\ changes \in 0..MaxChanges
  /\ faults \in 0..MaxFaults

AtMost(n, set) == {s \in SUBSET set : Cardinality(s) <= n}

Init ==
  /\ down \in AtMost(MaxDown, Addresses)
  /\ lame \in AtMost(MaxLame, ParentServers)
  /\ registry \in Data
  /\ served = [h \in ParentHosts |-> registry]
  /\ cached = [r \in Resolvers |-> registry]
  /\ op \in Lookups
  /\ stage = "idle"
  /\ depth = 0
  /\ level = {} /\ todo = {} /\ verified = {} /\ referrals = {}
  /\ last = FALSE
  /\ steady = {}
  /\ changes = 0 /\ faults = 0
-----------------------------------------------------------------------------
\* What an answer of the parent means: a proof, the end of the lookup, an
\* error remembered, or nothing.
Verdict(lookup, data) ==
  CASE lookup = "NoDS" -> IF data = "none" THEN "proof" ELSE "refuted"
    [] lookup = "Delegation" ->
         CASE data = "new" -> "proof" [] data = "old" -> "refuted" [] OTHER -> "nothing"
    [] OTHER ->
         CASE data = "new" -> "proof" [] data = "old" -> "error" [] OTHER -> "refuted"

\* What speaks against the proof.  Another DS RRset than the one looked for is
\* only an error to AuthoritativeDSEvidence.
Contradicts(lookup, data) == Verdict(lookup, data) \in {"refuted", "error"}

Serving == ParentServers \ lame

VerdictOf(a) == Verdict(op, served[a[1]])

Level(servers) ==
  /\ stage' = "level"
  /\ level' = servers
  /\ todo' = servers
  /\ verified' = {} /\ referrals' = {} /\ last' = FALSE

\* A lookup begins, or is repeated after it failed or was no longer enough.
Begin ==
  /\ stage \in {"idle", "ok", "error"}
  /\ depth' = 0
  /\ steady' = {a \in Serving \ down : Contradicts(op, served[a[1]])}
  /\ IF op = "NoDS"
     THEN /\ stage' = "resolvers" /\ level' = {} /\ todo' = Resolvers
          /\ verified' = {} /\ referrals' = {} /\ last' = FALSE
     ELSE Level(RootServers)
  /\ UNCHANGED <<worldVars, op, faults>>

\* Mutation: the outcome of the lookup is not told.
EndUntold(result) ==
  /\ stage' = "done"
  /\ todo' = {} /\ verified' = verified /\ referrals' = {} /\ last' = FALSE
  /\ depth' = 0
  /\ UNCHANGED level

End(result) ==
  /\ stage' = result
  /\ todo' = {} /\ verified' = verified /\ referrals' = {} /\ last' = FALSE
  /\ depth' = 0
  /\ UNCHANGED level

\* NoDSEvidence: every resolver proves the absence before the parent is asked.
AskResolver ==
  /\ stage = "resolvers"
  /\ \E r \in todo :
       \/ /\ cached[r] # "none" \/ Cardinality(Resolvers) < 2
          /\ End("error")
       \/ /\ cached[r] = "none" /\ Cardinality(Resolvers) >= 2
          /\ IF todo = {r} THEN Level(RootServers) /\ UNCHANGED depth
             ELSE /\ todo' = todo \ {r}
                  /\ UNCHANGED <<stage, depth, level, verified, referrals, last>>
  /\ UNCHANGED <<worldVars, op, steady, faults>>

\* One resolver without an answer is enough.
ResolverFails ==
  /\ stage = "resolvers"
  /\ faults < MaxFaults
  /\ faults' = faults + 1
  /\ End("error")
  /\ UNCHANGED <<worldVars, op, steady>>

Passed(a) == todo' = todo \ {a} /\ UNCHANGED <<stage, depth, level>>

\* query: no answer from an address, after three attempts.
AskUnanswered ==
  /\ stage = "level"
  /\ \E a \in todo :
       /\ \/ a \in down /\ UNCHANGED faults
          \/ a \notin down /\ faults < MaxFaults /\ faults' = faults + 1
       /\ Passed(a)
       /\ steady' = steady \ {a}
  /\ last' = TRUE
  /\ UNCHANGED <<worldVars, op, verified, referrals>>

\* referralServers: the addresses of the parent's servers, from glue or from
\* the first resolver, or fewer where that failed; the root from a lame one.
AskReferring ==
  /\ stage = "level"
  /\ \E a \in todo \ down :
       /\ a \notin Serving
       /\ \/ /\ referrals' = referrals \cup (IF a \in lame THEN RootServers ELSE ParentServers)
             /\ UNCHANGED faults
          \/ /\ faults < MaxFaults
             /\ faults' = faults + 1
             /\ \E some \in {{}, ParentHosts \X {"v4"}} : referrals' = referrals \cup some
       /\ Passed(a)
  /\ UNCHANGED <<worldVars, op, verified, last, steady>>

\* An answer of the parent itself.
AskParent ==
  /\ stage = "level"
  /\ \E a \in todo \ down :
       /\ a \in Serving
       /\ IF VerdictOf(a) = "refuted"
          THEN End("error")
          ELSE /\ Passed(a)
               /\ verified' = IF VerdictOf(a) = "proof" THEN verified \cup {a} ELSE verified
               /\ last' = (last \/ VerdictOf(a) = "error")
               /\ UNCHANGED referrals
  /\ UNCHANGED <<worldVars, op, steady, faults>>

\* Mutation: two proofs end the lookup, whoever has not been asked.
ProvedAtOnce == Cardinality(verified) >= 2

\* Two addresses of a level gave the proof, when all have been asked.
Proved == todo = {} /\ Cardinality(verified) >= 2

\* Mutation: the depth is not counted.
ExhaustedNever == FALSE

Exhausted == depth + 1 >= MaxDepth

\* Mutation: an error ends every lookup at its level.
StoppedAtOnce == last

\* AuthoritativeDSEvidence gives up when any address of a level failed.
StoppedByError == op = "DS" /\ last

\* The end of a level.
LevelEnds ==
  /\ stage = "level"
  /\ \/ Proved /\ End("ok")
     \/ /\ todo = {} /\ ~Proved
        /\ IF \/ verified # {}
              \/ StoppedByError
              \/ referrals = {}
              \/ Exhausted
           THEN End("error")
           ELSE /\ Level(referrals)
                /\ depth' = IF depth < MaxDepth THEN depth + 1 ELSE depth
  /\ UNCHANGED <<worldVars, op, steady, faults>>
-----------------------------------------------------------------------------
\* The registry has other data for the zone.
RegistryChanges ==
  /\ changes < MaxChanges
  /\ changes' = changes + 1
  /\ registry' \in Data \ {registry}
  /\ UNCHANGED <<down, lame, served, cached, lookupVars, steady, faults>>

\* A server of the parent follows.
ParentSync(h) ==
  /\ served[h] # registry
  /\ served' = [served EXCEPT ![h] = registry]
  /\ steady' = {a \in steady : a[1] # h \/ Contradicts(op, registry)}
  /\ UNCHANGED <<down, lame, registry, cached, changes, lookupVars, faults>>

\* A resolver asks one of them again.  Only NoDSEvidence asks a resolver, and
\* none while it asks the parent: refreshes are left to the time before and after.
ResolverRefreshes(r) ==
  /\ op = "NoDS" /\ stage # "level"
  /\ \E h \in ParentHosts : cached' = [cached EXCEPT ![r] = served[h]]
  /\ UNCHANGED <<down, lame, registry, served, changes, lookupVars, steady, faults>>

Lookup == Begin \/ AskResolver \/ ResolverFails \/ AskUnanswered \/ AskReferring \/ AskParent \/ LevelEnds

Next ==
  \/ Lookup
  \/ RegistryChanges
  \/ \E h \in ParentHosts : ParentSync(h)
  \/ \E r \in Resolvers : ResolverRefreshes(r)

Spec == Init /\ [][Next]_vars

\* The controller repeats its handlers, servers and resolvers catch up.
FairSpec ==
  /\ Spec
  /\ WF_vars(Lookup)
  /\ \A h \in ParentHosts : WF_vars(ParentSync(h))
  /\ \A r \in Resolvers : SF_vars(ResolverRefreshes(r))
-----------------------------------------------------------------------------
(* Properties                                                              *)

\* NoDSEvidence and DelegationEvidence overlook nothing: when one succeeds, no
\* address it was referred to and could reach served a DS RRset, or an NS
\* RRset other than the configured one, from its beginning to its end, however
\* early two others agreed.  It does not hold for AuthoritativeDSEvidence, which
\* passes over an address with another DS RRset once two have the one looked for.
NothingOverlooked == stage = "ok" /\ op # "DS" => level \cap steady = {}

Running == stage \in {"resolvers", "level"}

\* Every lookup ends, whatever servers refer to each other in a circle.
LookupEnds == Running ~> ~Running

\* Everything the lookup needs is there: the parent's servers all have the data
\* and can be reached at two addresses, and the root at one.  For the DS every
\* address must be reachable: AuthoritativeDSEvidence stops at a level of which
\* one address failed, although another one referred it further.
Available ==
  /\ \A h \in ParentHosts : Verdict(op, served[h]) = "proof"
  /\ op = "NoDS" => \A r \in Resolvers : cached[r] = "none"
  /\ Cardinality(Serving \ down) >= 2
  /\ RootServers \ down # {}
  /\ op = "DS" => down = {}

\* A proof that is there is found in the end: neither a passing failure nor a
\* lame server, nor an address out of reach where the lookup tolerates one,
\* stops it for ever.  docs/spec.md says of the DS: "When the authoritative
\* parent first serves exact new-only DS, persist its TTL".
ProofFound == Available ~> (stage = "ok" \/ ~Available)
============================================================================
