------------------------------ MODULE DNSWorld ------------------------------
(***************************************************************************)
(* Everything outside the controller that one zone's rotation touches:     *)
(*   - PowerDNS: the key list, the zone it signs, the secondary servers    *)
(*     that copy it within ServerLag;                                      *)
(*   - the registrar: its DNSSEC material and its asynchronous jobs;       *)
(*   - the parent: DS records, most servers first and the rest within      *)
(*     ParentLag, and whether its NS set is the configured one;            *)
(*   - the caches of all resolvers of the world: an RRset version that is  *)
(*     no longer served may be used for its TTL, one that is served can be *)
(*     fetched at any moment.                                              *)
(* The second half states when the probes of internal/dnsprobe succeed.    *)
(* Time is counted in units that are long against a request.               *)
(***************************************************************************)
EXTENDS KeyInventory

CONSTANTS
  DynamicRoles,   \* PowerDNS derives roles from the active keys ?
  DNSKEYTTL,      \* TTL of the DNSKEY RRset
  DSTTL,          \* TTL of the DS RRset
  ZoneTTLs,       \* the values the largest TTL in the zone may take
  ServerLag,      \* how long a secondary may serve an old copy
  ParentLag,      \* how long a parent server may serve an old DS
  Delegations     \* may the NS set be dns.expected_nameservers, or another ?

ASSUME WorldAssumptions ==
  /\ DynamicRoles \in BOOLEAN
  /\ DNSKEYTTL \in Nat \ {0} /\ DSTTL \in Nat \ {0}
  /\ ZoneTTLs \in SUBSET (Nat \ {0}) /\ ZoneTTLs # {}
  /\ ServerLag \in Nat /\ ParentLag \in Nat
  /\ Delegations \in SUBSET BOOLEAN /\ Delegations # {}

VARIABLES
  keys,       \* PowerDNS cryptokeys: id, made, flags, active, published, ...
  zoneTTL,    \* the largest TTL of the zone at PowerDNS
  secondary,  \* the zone image the slowest secondary serves
  lag,        \* for how long that image has been out of date
  cache,      \* RRset versions only caches still have: dnskey, zone and ds
  registrar,  \* material the registrar reports, and its last job
  parent      \* DS at most parent servers (fast), at the slowest, its lag,
              \* and whether the zone is delegated as configured

worldVars == <<keys, zoneTTL, secondary, lag, cache, registrar, parent>>

Algorithm == "ECDSAP256SHA256"

KeyIDs == SUBSET Nat
PowerDNSKey == [id : Nat, made : KeyTypes, flags : {256, 257}, active : BOOLEAN,
                published : BOOLEAN, algorithm : {Algorithm}]
ZoneImage == [keys : KeyIDs, keySig : KeyIDs, zoneSig : KeyIDs, ttl : ZoneTTLs]
Cached(Version) == SUBSET [version : Version, left : Nat \ {0}]

WorldTypeOK ==
  /\ keys \in SUBSET PowerDNSKey
  /\ zoneTTL \in ZoneTTLs
  /\ secondary \in ZoneImage
  /\ lag \in 0..ServerLag
  /\ cache \in [dnskey : Cached([keys : KeyIDs, sig : KeyIDs]),
                zone : Cached([sig : KeyIDs, ttl : ZoneTTLs]),
                ds : Cached(KeyIDs)]
  /\ registrar \in [data : KeyIDs,
                    job : {"none", "pending", "done", "failed", "gone"},
                    jobData : KeyIDs]
  /\ parent \in [fast : KeyIDs, slow : KeyIDs, lag : 0..ParentLag,
                 delegated : BOOLEAN]
-----------------------------------------------------------------------------

NewKey(id, made, active) ==
  [id |-> id, made |-> made, flags |-> flagsOf(made), active |-> active,
   published |-> TRUE, algorithm |-> Algorithm]

\* Are both key roles in use, so that PowerDNS tells KSK from ZSK ?
RolesSplit(ks) ==
  /\ \E k \in ks : k.active /\ k.flags = 257
  /\ \E k \in ks : k.active /\ k.flags = 256

\* The keytype PowerDNS reports, and uses to choose what a key signs.
Role(ks, k) ==
  CASE ~DynamicRoles -> k.made
    [] DynamicRoles /\ ~RolesSplit(ks) -> "csk"
    [] OTHER -> IF k.flags = 257 THEN "ksk" ELSE "zsk"

\* What ListKeys returns.
Listed(ks) ==
  {[id |-> k.id, keytype |-> Role(ks, k), flags |-> k.flags,
    active |-> k.active, published |-> k.published,
    algorithm |-> k.algorithm] : k \in ks}

Signers(ks, roles) == {k.id : k \in {x \in ks : x.active /\ Role(ks, x) \in roles}}

\* The zone as a server answers for it.
Image(ks, ttl) ==
  [keys |-> publishedKeys(ks),
   keySig |-> Signers(ks, {"ksk", "csk"}),
   zoneSig |-> Signers(ks, {"zsk", "csk"}),
   ttl |-> ttl]

DnskeyRRset(image) == [keys |-> image.keys, sig |-> image.keySig]
ZoneRRset(image) == [sig |-> image.zoneSig, ttl |-> image.ttl]

Served == {Image(keys, zoneTTL), secondary}
-----------------------------------------------------------------------------
\* A version that nobody serves any more stays in caches for its TTL.
LeftBehind(cached, before, after, TTL(_)) ==
  {e \in cached : e.version \notin after}
    \cup {[version |-> v, left |-> TTL(v)] : v \in before \ after}

Aged(cached) == {[e EXCEPT !.left = @ - 1] : e \in {x \in cached : x.left > 1}}

\* PowerDNS now has keys ks and largest TTL ttl, the secondary image sec.
Serve(ks, ttl, sec) ==
  LET now == {Image(ks, ttl), sec}
      DnskeyTTL(v) == DNSKEYTTL
      ZoneTTL(v) == v.ttl
  IN /\ keys' = ks
     /\ zoneTTL' = ttl
     /\ secondary' = sec
     /\ lag' = IF sec = Image(ks, ttl) THEN 0 ELSE lag
     /\ cache' = [cache EXCEPT
          !.dnskey = LeftBehind(@, {DnskeyRRset(i) : i \in Served},
                                   {DnskeyRRset(i) : i \in now}, DnskeyTTL),
          !.zone = LeftBehind(@, {ZoneRRset(i) : i \in Served},
                                 {ZoneRRset(i) : i \in now}, ZoneTTL)]

\* The parent servers now have these DS sets.
ServeDS(fast, slow) ==
  LET TTL(v) == DSTTL
  IN /\ parent' = [fast |-> fast, slow |-> slow,
                   lag |-> IF fast = slow THEN 0 ELSE parent.lag,
                   delegated |-> parent.delegated]
     /\ cache' = [cache EXCEPT
          !.ds = LeftBehind(@, {parent.fast, parent.slow}, {fast, slow}, TTL)]

\* A world at rest: everyone serves and announces the same keys.
WorldInit(ks, ds) ==
  /\ keys = ks
  /\ zoneTTL \in ZoneTTLs
  /\ secondary = Image(ks, zoneTTL)
  /\ lag = 0
  /\ cache = [dnskey |-> {}, zone |-> {}, ds |-> {}]
  /\ registrar = [data |-> ds, job |-> "none", jobData |-> {}]
  /\ parent \in [fast : {ds}, slow : {ds}, lag : {0}, delegated : Delegations]

\* A zone transfer or notify brings the secondaries up to date.
SecondarySync ==
  /\ secondary # Image(keys, zoneTTL)
  /\ Serve(keys, zoneTTL, Image(keys, zoneTTL))
  /\ UNCHANGED <<registrar, parent>>

\* The registrar processes its job, or gives it up.
RegistrarApplies ==
  /\ registrar.job = "pending"
  /\ registrar' = [registrar EXCEPT !.job = "done", !.data = registrar.jobData]
  /\ UNCHANGED <<keys, zoneTTL, secondary, lag, cache, parent>>

RegistrarFails ==
  /\ registrar.job = "pending"
  /\ registrar' = [registrar EXCEPT !.job = "failed"]
  /\ UNCHANGED <<keys, zoneTTL, secondary, lag, cache, parent>>

\* A finished job can no longer be queried (autodns.ErrJobUnavailable).
RegistrarForgetsJob ==
  /\ registrar.job \in {"done", "failed"}
  /\ registrar' = [registrar EXCEPT !.job = "gone"]
  /\ UNCHANGED <<keys, zoneTTL, secondary, lag, cache, parent>>

\* The registry provisions the registrar's material ...
ParentPublishes ==
  /\ parent.fast # registrar.data
  /\ ServeDS(registrar.data, parent.slow)
  /\ UNCHANGED <<keys, zoneTTL, secondary, lag, registrar>>

\* ... and its last server follows.
ParentSync ==
  /\ parent.slow # parent.fast
  /\ ServeDS(parent.fast, parent.fast)
  /\ UNCHANGED <<keys, zoneTTL, secondary, lag, registrar>>

\* The parent's NS set is changed or corrected.
Redelegated ==
  /\ \E d \in Delegations :
       d # parent.delegated /\ parent' = [parent EXCEPT !.delegated = d]
  /\ UNCHANGED <<keys, zoneTTL, secondary, lag, cache, registrar>>

\* The operator edits the zone: its largest TTL grows, or falls where that is
\* harmless (see Floor).
ZoneEdited(Floor) ==
  /\ \E ttl \in ZoneTTLs :
       /\ ttl > zoneTTL \/ (ttl < zoneTTL /\ zoneTTL <= Floor)
       /\ Serve(keys, ttl, secondary)
  /\ UNCHANGED <<registrar, parent>>

\* One unit of time.  No server stays behind for longer than its lag.
WorldElapses ==
  /\ secondary # Image(keys, zoneTTL) => lag < ServerLag
  /\ parent.slow # parent.fast => parent.lag < ParentLag
  /\ lag' = IF secondary = Image(keys, zoneTTL) THEN 0 ELSE lag + 1
  /\ parent' = [parent EXCEPT
       !.lag = IF parent.slow = parent.fast THEN 0 ELSE @ + 1]
  /\ cache' = [dnskey |-> Aged(cache.dnskey), zone |-> Aged(cache.zone),
               ds |-> Aged(cache.ds)]
  /\ UNCHANGED <<keys, zoneTTL, secondary, registrar>>
-----------------------------------------------------------------------------
(* internal/dnsprobe.  A probe that fails changes nothing, so only what    *)
(* must be true for it to succeed is stated.                               *)

\* Resolvers set AD only below a signed delegation.
Authenticated == parent.fast # {}

AuthoritativeDNSKEYEvidence(ids) == \A i \in Served : i.keys = ids

DNSKEYEvidence(ids) == AuthoritativeDNSKEYEvidence(ids) /\ Authenticated

AuthoritativeDNSKEYRRSIGBy(id) ==
  \A i \in Served : id \in i.keySig /\ id \in i.keys

DNSKEYRRSIGBy(id) == AuthoritativeDNSKEYRRSIGBy(id) /\ Authenticated

AuthoritativeRRSIGBy(id) == \A i \in Served : id \in i.zoneSig

RRSIGBy(id) == AuthoritativeRRSIGBy(id) /\ Authenticated

\* Two exact answers are enough: a parent server that still has the old DS,
\* or none and cannot be reached by the probe, is passed over.
AuthoritativeDSEvidence(id) == parent.fast = {id}

DSEvidence(id) == parent.fast = {id}

\* A parent server that still or already has a DS refutes the absence.
NoDSEvidence == parent.fast = {} /\ parent.slow = {}

\* The parent's NS set is exactly dns.expected_nameservers.
DelegationEvidence == parent.delegated
-----------------------------------------------------------------------------
(* internal/autodns.                                                       *)

\* The material the registrar reports; none means DNSSEC is not enabled.
DomainDNSSEC == registrar.data

JobStatus == registrar.job
-----------------------------------------------------------------------------
DnskeyVersions ==
  {DnskeyRRset(i) : i \in Served} \cup {e.version : e \in cache.dnskey}

ZoneVersions ==
  {ZoneRRset(i) : i \in Served} \cup {e.version : e \in cache.zone}

DSVersions == {parent.fast, parent.slow} \cup {e.version : e \in cache.ds}

\* A resolver with these three RRsets accepts the zone: it is insecure for
\* want of a DS, or a key of the DS set signed the DNSKEY set it is in, and
\* a key of that set signed the data.
Validates(ds, dnskey, zone) ==
  \/ ds = {}
  \/ /\ ds \cap dnskey.keys \cap dnskey.sig # {}
     /\ zone.sig \cap dnskey.keys # {}

\* Whatever mixture of cached and fresh RRsets a resolver holds, validation
\* of the zone succeeds: no rotation step, lost answer, crash or slow server
\* turns the zone bogus for anybody.
ChainOfTrust ==
  \A ds \in DSVersions, dnskey \in DnskeyVersions, zone \in ZoneVersions :
    Validates(ds, dnskey, zone)
=============================================================================
