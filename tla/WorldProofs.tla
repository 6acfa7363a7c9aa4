---------------------------- MODULE WorldProofs ----------------------------
(***************************************************************************)
(* Lemmas about DNSWorld that the proofs about Rotation and Enrollment     *)
(* share: what its actions do to types, to served and cached versions, and *)
(* how long a version that is no longer served stays in caches.            *)
(***************************************************************************)
EXTENDS Waits, TLAPS

ServedType ==
  /\ keys \in SUBSET PowerDNSKey
  /\ zoneTTL \in ZoneTTLs
  /\ secondary \in ZoneImage
  /\ lag \in 0..ServerLag
  /\ cache \in [dnskey : Cached([keys : KeyIDs, sig : KeyIDs]),
                zone : Cached([sig : KeyIDs, ttl : ZoneTTLs]),
                ds : Cached(KeyIDs)]

\* The image PowerDNS serves of a list of keys.
LEMMA ImageType ==
  ASSUME NEW ks \in SUBSET PowerDNSKey, NEW ttl \in ZoneTTLs
  PROVE  Image(ks, ttl) \in ZoneImage
<1>1. publishedKeys(ks) \in KeyIDs
  BY DEF publishedKeys, PowerDNSKey, KeyIDs
<1>2. \A roles : Signers(ks, roles) \in KeyIDs
  BY DEF Signers, PowerDNSKey, KeyIDs
<1> QED BY <1>1, <1>2 DEF Image, ZoneImage

\* Serving new keys, TTLs or secondary images keeps the world well typed.
LEMMA ServeType ==
  ASSUME ServedType, NEW ks \in SUBSET PowerDNSKey, NEW ttl \in ZoneTTLs,
         NEW sec \in ZoneImage, Serve(ks, ttl, sec)
  PROVE  ServedType'
<1> DEFINE now == {Image(ks, ttl), sec}
<1>1. Served \subseteq ZoneImage /\ now \subseteq ZoneImage
  BY ImageType DEF ServedType, Served
<1>2. {DnskeyRRset(i) : i \in Served} \subseteq [keys : KeyIDs, sig : KeyIDs]
  BY <1>1 DEF DnskeyRRset, ZoneImage
<1>3. {ZoneRRset(i) : i \in Served} \subseteq [sig : KeyIDs, ttl : ZoneTTLs]
  BY <1>1 DEF ZoneRRset, ZoneImage
<1>4. cache.dnskey \in Cached([keys : KeyIDs, sig : KeyIDs])
      /\ cache.zone \in Cached([sig : KeyIDs, ttl : ZoneTTLs])
  BY DEF ServedType
<1>5. \A v \in [sig : KeyIDs, ttl : ZoneTTLs] : v.ttl \in Nat \ {0}
  BY WorldAssumptions
<1>6. DNSKEYTTL \in Nat \ {0}
  BY WorldAssumptions
<1> DEFINE d == {e \in cache.dnskey : e.version \notin {DnskeyRRset(i) : i \in now}}
                  \cup {[version |-> v, left |-> DNSKEYTTL] :
                          v \in {DnskeyRRset(i) : i \in Served}
                                  \ {DnskeyRRset(i) : i \in now}}
           z == {e \in cache.zone : e.version \notin {ZoneRRset(i) : i \in now}}
                  \cup {[version |-> v, left |-> v.ttl] :
                          v \in {ZoneRRset(i) : i \in Served}
                                  \ {ZoneRRset(i) : i \in now}}
<1>7. d \in Cached([keys : KeyIDs, sig : KeyIDs])
  BY <1>2, <1>4, <1>6 DEF Cached
<1>8. z \in Cached([sig : KeyIDs, ttl : ZoneTTLs])
  BY <1>3, <1>4, <1>5 DEF Cached
<1>9. cache' = [cache EXCEPT !.dnskey = d, !.zone = z]
  BY DEF Serve, LeftBehind
<1>10. /\ keys' = ks /\ zoneTTL' = ttl /\ secondary' = sec
       /\ lag' = 0 \/ lag' = lag
  BY DEF Serve
<1> HIDE DEF d, z
<1>11. cache' \in [dnskey : Cached([keys : KeyIDs, sig : KeyIDs]),
                   zone : Cached([sig : KeyIDs, ttl : ZoneTTLs]),
                   ds : Cached(KeyIDs)]
  BY <1>7, <1>8, <1>9 DEF ServedType
<1>12. lag' \in 0..ServerLag
  BY <1>10, WorldAssumptions DEF ServedType
<1> QED BY <1>10, <1>11, <1>12 DEF ServedType

ParentType ==
  parent \in [fast : KeyIDs, slow : KeyIDs, lag : 0..ParentLag, delegated : BOOLEAN]
RegistrarType ==
  registrar \in [data : KeyIDs,
                 job : {"none", "pending", "done", "failed", "gone"},
                 jobData : KeyIDs]

\* The types of the world in the parts the lemmas are about.
LEMMA WorldParts ==
  /\ WorldTypeOK <=> ServedType /\ ParentType /\ RegistrarType
  /\ WorldTypeOK' <=> ServedType' /\ ParentType' /\ RegistrarType'
  BY DEF WorldTypeOK, ServedType, ParentType, RegistrarType

\* Publishing a DS set keeps the world well typed.
LEMMA ServeDSType ==
  ASSUME ServedType, ParentType, NEW fast \in KeyIDs, NEW slow \in KeyIDs, ServeDS(fast, slow),
         UNCHANGED <<keys, zoneTTL, secondary, lag>>
  PROVE  ServedType' /\ ParentType'
<1> DEFINE d == {e \in cache.ds : e.version \notin {fast, slow}}
                  \cup {[version |-> v, left |-> DSTTL] :
                          v \in {parent.fast, parent.slow} \ {fast, slow}}
<1>1. /\ parent.fast \in KeyIDs /\ parent.slow \in KeyIDs /\ parent.lag \in 0..ParentLag
      /\ parent.delegated \in BOOLEAN
  BY DEF ParentType
<1>2. d \in Cached(KeyIDs)
  BY <1>1, WorldAssumptions DEF ServedType, Cached
<1>3. cache' = [cache EXCEPT !.ds = d]
  BY DEF ServeDS, LeftBehind
<1> HIDE DEF d
<1>4. ServedType'
  BY <1>2, <1>3 DEF ServedType
<1>5. parent' = [fast |-> fast, slow |-> slow,
                 lag |-> IF fast = slow THEN 0 ELSE parent.lag,
                 delegated |-> parent.delegated]
  BY DEF ServeDS
<1>6. 0 \in 0..ParentLag
  BY WorldAssumptions
<1>7. ParentType'
  BY <1>1, <1>5, <1>6 DEF ParentType
<1> QED BY <1>4, <1>7

\* A change of the NS set leaves everything else at the parent alone.
LEMMA RedelegatedLeaves ==
  ASSUME ParentType, Redelegated
  PROVE  /\ ParentType'
         /\ parent'.fast = parent.fast /\ parent'.slow = parent.slow
         /\ parent'.lag = parent.lag
         /\ UNCHANGED <<keys, zoneTTL, secondary, lag, cache, registrar>>
<1>1. PICK d \in Delegations : parent' = [parent EXCEPT !.delegated = d]
  BY DEF Redelegated
<1>2. d \in BOOLEAN
  BY WorldAssumptions
<1> QED BY <1>1, <1>2 DEF Redelegated, ParentType

\* What secondaries, the registrar and the parent do by themselves keeps the
\* world well typed.
LEMMA WorldActionType ==
  ASSUME WorldTypeOK,
         \/ SecondarySync \/ RegistrarApplies \/ RegistrarFails
         \/ RegistrarForgetsJob \/ ParentPublishes \/ ParentSync
         \/ \E floor : ZoneEdited(floor)
         \/ Redelegated
  PROVE  WorldTypeOK'
<1> USE WorldParts
<1>2. CASE SecondarySync
  <2>1. Image(keys, zoneTTL) \in ZoneImage
    BY ImageType DEF ServedType
  <2> QED BY <1>2, <2>1, ServeType
             DEF SecondarySync, ServedType, RegistrarType, ParentType
<1>3. CASE RegistrarApplies \/ RegistrarFails \/ RegistrarForgetsJob
  <2>1. RegistrarType'
    BY <1>3 DEF RegistrarApplies, RegistrarFails, RegistrarForgetsJob, RegistrarType
  <2> QED BY <1>3, <2>1
             DEF RegistrarApplies, RegistrarFails, RegistrarForgetsJob,
                 ServedType, ParentType
<1>4. CASE ParentPublishes
  BY <1>4, ServeDSType DEF ParentPublishes, ParentType, RegistrarType
<1>5. CASE ParentSync
  BY <1>5, ServeDSType DEF ParentSync, ParentType, RegistrarType
<1>6. ASSUME NEW floor, ZoneEdited(floor) PROVE WorldTypeOK'
  BY <1>6, ServeType DEF ZoneEdited, ServedType, ParentType, RegistrarType
<1>7. CASE Redelegated
  <2>1. ParentType' /\ UNCHANGED <<keys, zoneTTL, secondary, lag, cache, registrar>>
    BY <1>7, RedelegatedLeaves
  <2> QED BY <2>1 DEF ServedType, RegistrarType
<1> QED BY <1>2, <1>3, <1>4, <1>5, <1>6, <1>7

\* Time keeps the types: lags stay within their bounds and entries of caches
\* are dropped before their time left becomes zero.
LEMMA WorldElapsesType ==
  ASSUME WorldTypeOK, WorldElapses
  PROVE  WorldTypeOK'
<1> USE WorldParts
<1>1. \A V : \A c \in Cached(V) : Aged(c) \in Cached(V)
  <2> SUFFICES ASSUME NEW V, NEW c \in Cached(V), NEW e \in c, e.left > 1
               PROVE  [e EXCEPT !.left = @ - 1] \in [version : V, left : Nat \ {0}]
    BY DEF Cached, Aged
  <2> QED BY DEF Cached
<1>2. ServedType'
  <2>1. cache' \in [dnskey : Cached([keys : KeyIDs, sig : KeyIDs]),
                    zone : Cached([sig : KeyIDs, ttl : ZoneTTLs]),
                    ds : Cached(KeyIDs)]
    BY <1>1 DEF WorldElapses, ServedType
  <2>2. lag' \in 0..ServerLag
    BY WorldAssumptions DEF WorldElapses, ServedType
  <2> QED BY <2>1, <2>2 DEF WorldElapses, ServedType
<1>3. ParentType'
  <2>1. (IF parent.slow = parent.fast THEN 0 ELSE parent.lag + 1) \in 0..ParentLag
    BY WorldAssumptions DEF WorldElapses, ParentType
  <2> QED BY <2>1 DEF WorldElapses, ParentType
<1>4. RegistrarType'
  BY DEF WorldElapses, RegistrarType
<1> QED BY <1>2, <1>3, <1>4
-----------------------------------------------------------------------------
(* What a step leaves in the caches.                                       *)

\* No entry outlives the TTL of its version.
CacheBounded ==
  /\ \A e \in cache.dnskey : e.left <= DNSKEYTTL
  /\ \A e \in cache.zone : e.left <= e.version.ttl
  /\ \A e \in cache.ds : e.left <= DSTTL

\* Serving something new leaves only withdrawn images behind, with their
\* full TTL.
LEMMA ServeLeaves ==
  ASSUME ServedType, NEW ks, NEW ttl, NEW sec, Serve(ks, ttl, sec)
  PROVE  /\ \A e \in cache'.dnskey :
              \/ e \in cache.dnskey
              \/ \E i \in Served \ {Image(ks, ttl), sec} :
                   e = [version |-> DnskeyRRset(i), left |-> DNSKEYTTL]
         /\ \A e \in cache'.zone :
              \/ e \in cache.zone
              \/ \E i \in Served \ {Image(ks, ttl), sec} :
                   e = [version |-> ZoneRRset(i), left |-> i.ttl]
         /\ cache'.ds = cache.ds
<1> DEFINE now == {Image(ks, ttl), sec}
           d == {e \in cache.dnskey : e.version \notin {DnskeyRRset(i) : i \in now}}
                  \cup {[version |-> v, left |-> DNSKEYTTL] :
                          v \in {DnskeyRRset(i) : i \in Served}
                                  \ {DnskeyRRset(i) : i \in now}}
           z == {e \in cache.zone : e.version \notin {ZoneRRset(i) : i \in now}}
                  \cup {[version |-> v, left |-> v.ttl] :
                          v \in {ZoneRRset(i) : i \in Served}
                                  \ {ZoneRRset(i) : i \in now}}
<1>1. cache' = [cache EXCEPT !.dnskey = d, !.zone = z]
  BY DEF Serve, LeftBehind
<1>2. cache'.dnskey = d /\ cache'.zone = z /\ cache'.ds = cache.ds
  <2> HIDE DEF d, z
  <2> QED BY <1>1 DEF ServedType
<1>3. ASSUME NEW e \in d
      PROVE  e \in cache.dnskey \/ \E i \in Served \ now :
               e = [version |-> DnskeyRRset(i), left |-> DNSKEYTTL]
  BY <1>3
<1>4. ASSUME NEW e \in z
      PROVE  e \in cache.zone \/ \E i \in Served \ now :
               e = [version |-> ZoneRRset(i), left |-> i.ttl]
  BY <1>4 DEF ZoneRRset
<1> QED BY <1>2, <1>3, <1>4

\* The same for DS sets.
LEMMA ServeDSLeaves ==
  ASSUME ServedType, NEW fast, NEW slow, ServeDS(fast, slow)
  PROVE  /\ cache'.dnskey = cache.dnskey /\ cache'.zone = cache.zone
         /\ \A e \in cache'.ds :
              \/ e \in cache.ds
              \/ \E v \in {parent.fast, parent.slow} \ {fast, slow} :
                   e = [version |-> v, left |-> DSTTL]
<1> DEFINE d == {e \in cache.ds : e.version \notin {fast, slow}}
                  \cup {[version |-> v, left |-> DSTTL] :
                          v \in {parent.fast, parent.slow} \ {fast, slow}}
<1>1. cache' = [cache EXCEPT !.ds = d]
  BY DEF ServeDS, LeftBehind
<1>2. cache'.ds = d /\ cache'.dnskey = cache.dnskey /\ cache'.zone = cache.zone
  <2> HIDE DEF d
  <2> QED BY <1>1 DEF ServedType
<1> QED BY <1>2

\* An aged entry is one unit nearer to its end.
LEMMA AgedEntries ==
  ASSUME NEW V, NEW c \in Cached(V), NEW e \in Aged(c)
  PROVE  \E x \in c : x.left \in Nat /\ e.version = x.version /\ e.left = x.left - 1
<1>1. PICK x \in c : x.left > 1 /\ e = [x EXCEPT !.left = @ - 1]
  BY DEF Aged
<1>2. x \in [version : V, left : Nat \ {0}]
  BY DEF Cached
<1> QED BY <1>1, <1>2

\* Time takes one unit from every entry.
LEMMA ElapsedEntries ==
  ASSUME ServedType, WorldElapses
  PROVE  /\ \A e \in cache'.dnskey : \E x \in cache.dnskey :
              x.left \in Nat /\ e.version = x.version /\ e.left = x.left - 1
         /\ \A e \in cache'.zone : \E x \in cache.zone :
              x.left \in Nat /\ e.version = x.version /\ e.left = x.left - 1
         /\ \A e \in cache'.ds : \E x \in cache.ds :
              x.left \in Nat /\ e.version = x.version /\ e.left = x.left - 1
<1>1. /\ cache'.dnskey = Aged(cache.dnskey) /\ cache'.zone = Aged(cache.zone)
      /\ cache'.ds = Aged(cache.ds)
  BY DEF WorldElapses
<1>2. /\ cache.dnskey \in Cached([keys : KeyIDs, sig : KeyIDs])
      /\ cache.zone \in Cached([sig : KeyIDs, ttl : ZoneTTLs])
      /\ cache.ds \in Cached(KeyIDs)
  BY DEF ServedType
<1> QED BY <1>1, <1>2, AgedEntries

\* A withdrawn image does not outlive its TTL.
LEMMA ServeBounded ==
  ASSUME ServedType, CacheBounded, NEW ks \in SUBSET PowerDNSKey,
         NEW ttl \in ZoneTTLs, NEW sec, Serve(ks, ttl, sec)
  PROVE  CacheBounded'
<1>1. \A i \in Served : i.ttl \in Nat /\ ZoneRRset(i).ttl = i.ttl
  BY ImageType, WorldAssumptions DEF Served, ServedType, ZoneImage, ZoneRRset
<1>2. \A e \in cache'.dnskey : e.left <= DNSKEYTTL
  BY ServeLeaves, WorldAssumptions DEF CacheBounded
<1>3. \A e \in cache'.zone : e.left <= e.version.ttl
  BY ServeLeaves, <1>1 DEF CacheBounded
<1>4. \A e \in cache'.ds : e.left <= DSTTL
  BY ServeLeaves DEF CacheBounded
<1> QED BY <1>2, <1>3, <1>4 DEF CacheBounded

\* Publishing a DS set leaves the old ones for no longer than their TTL.
LEMMA ServeDSBounded ==
  ASSUME ServedType, CacheBounded, NEW fast, NEW slow, ServeDS(fast, slow)
  PROVE  CacheBounded'
  BY ServeDSLeaves, WorldAssumptions DEF CacheBounded

\* Time only shortens what is left.
LEMMA ElapseBounded ==
  ASSUME ServedType, CacheBounded, WorldElapses
  PROVE  CacheBounded'
<1>1. \A e \in cache.zone : e.version.ttl \in Nat
  BY WorldAssumptions DEF ServedType, Cached
<1>2. \A e \in cache'.dnskey : e.left <= DNSKEYTTL
  BY ElapsedEntries, WorldAssumptions DEF CacheBounded
<1>3. \A e \in cache'.zone : e.left <= e.version.ttl
  BY ElapsedEntries, <1>1 DEF CacheBounded
<1>4. \A e \in cache'.ds : e.left <= DSTTL
  BY ElapsedEntries, WorldAssumptions DEF CacheBounded
<1> QED BY <1>2, <1>3, <1>4 DEF CacheBounded

=============================================================================
