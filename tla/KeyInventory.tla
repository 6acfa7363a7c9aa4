---------------------------- MODULE KeyInventory ----------------------------
(***************************************************************************)
(* The pure checks internal/controller makes on the PowerDNS key list      *)
(* before it mutates anything.  A key list is a set of keys with distinct  *)
(* identifiers, a key is what ListKeys returns:                            *)
(*   id, keytype (the role PowerDNS reports), flags (of the DNSKEY),       *)
(*   active, published, algorithm.                                         *)
(* Key material is abstracted: a DNSKEY parses, has protocol 3, and its    *)
(* algorithm number is the one of the algorithm label.                     *)
(* A workflow `w' gives kind, old, new and zsk; identifier 0 is none.      *)
(***************************************************************************)
EXTENDS Naturals, FiniteSets

KeyTypes == {"ksk", "zsk", "csk"}

ActiveOf(keys, typ) == {k \in keys : k.active /\ k.keytype = typ}

exactlyOneActive(keys, typ) == Cardinality(ActiveOf(keys, typ)) = 1

keyScheme(keys) ==
  CASE /\ exactlyOneActive(keys, "ksk")
       /\ exactlyOneActive(keys, "zsk")
       /\ ActiveOf(keys, "csk") = {} -> "split"
    [] /\ exactlyOneActive(keys, "csk")
       /\ ActiveOf(keys, "ksk") \cup ActiveOf(keys, "zsk") = {} -> "csk"
    [] OTHER -> "unknown"

HasKey(keys, id) == \E k \in keys : k.id = id

recordedKeys(keys, oldID, newID) == HasKey(keys, oldID) /\ HasKey(keys, newID)

publishedKeys(keys) == {k.id : k \in {x \in keys : x.published}}

flagsOf(typ) == IF typ = "zsk" THEN 256 ELSE 257

\* DNSKEY flags decide the role; the transitional "csk" label is accepted
\* for the replacement keys of a split migration only.
validatedKeyRole(key, wantType, allowTransitionalCSK) ==
  /\ key.flags = flagsOf(wantType)
  /\ \/ key.keytype = wantType
     \/ /\ allowTransitionalCSK
        /\ key.keytype = "csk"
        /\ wantType \in {"ksk", "zsk"}

\* No key outside `allowed' is active or published.
Closed(keys, allowed) ==
  \A k \in keys : k.active \/ k.published => k.id \in allowed

Companion(kind) == IF kind = "ksk" THEN "zsk" ELSE "ksk"

Distinct(w) ==
  /\ w.old # 0 /\ w.new # 0 /\ w.old # w.new
  /\ w.kind = "split" => w.zsk # 0 /\ w.zsk # w.old /\ w.zsk # w.new

\* The old key is in service, its replacement is published (and active
\* unless it is a ZSK), and there is no other key but the companion.
validatePrepublishInventory(keys, w) ==
  LET split == w.kind = "split"
  IN /\ Distinct(w)
     /\ \E old, new \in keys :
          /\ old.id = w.old /\ new.id = w.new
          /\ validatedKeyRole(old, IF split THEN "csk" ELSE w.kind, FALSE)
          /\ old.active /\ old.published
          /\ validatedKeyRole(new, IF split THEN "ksk" ELSE w.kind, split)
          /\ new.algorithm = old.algorithm
          /\ new.active = (w.kind # "zsk") /\ new.published
          /\ IF split
             THEN \E z \in keys :
                    /\ z.id = w.zsk
                    /\ validatedKeyRole(z, "zsk", TRUE)
                    /\ z.algorithm = old.algorithm
                    /\ ~z.active /\ z.published
                    /\ Closed(keys, {w.old, w.new, w.zsk})
             ELSE /\ exactlyOneActive(keys, Companion(w.kind))
                  /\ \E c \in ActiveOf(keys, Companion(w.kind)) :
                       /\ c.published
                       /\ Closed(keys, {w.old, w.new, c.id})

\* The split inventory after the ZSK was activated; the old CSK is still
\* active before deactivation and inactive but published after it.
validateSplitMutationInventory(keys, w, oldActive) ==
  /\ w.kind = "split"
  /\ Distinct(w)
  /\ \E old, ksk, zsk \in keys :
       /\ old.id = w.old /\ ksk.id = w.new /\ zsk.id = w.zsk
       /\ validatedKeyRole(old, "ksk", TRUE)
       /\ validatedKeyRole(ksk, "ksk", TRUE)
       /\ validatedKeyRole(zsk, "zsk", TRUE)
       /\ old.algorithm = ksk.algorithm /\ old.algorithm = zsk.algorithm
       /\ old.active = oldActive /\ old.published
       /\ ksk.active /\ ksk.published /\ zsk.active /\ zsk.published
  /\ Closed(keys, {w.old, w.new, w.zsk})

validateActiveSplitInventory(keys, w) ==
  validateSplitMutationInventory(keys, w, TRUE)

validateDeactivatedSplitInventory(keys, w) ==
  validateSplitMutationInventory(keys, w, FALSE)

\* The role labels the signer-transition attestation insists on.
ExactSplitLabels(keys, w) ==
  \A k \in keys :
    /\ k.id \in {w.old, w.new} => validatedKeyRole(k, "ksk", FALSE)
    /\ k.id = w.zsk => validatedKeyRole(k, "zsk", FALSE)

\* Ordinary retirement: replacement and companion in service, the old key
\* inactive but published if it still exists, and nothing else.
retirementInventory(keys, w) ==
  /\ w.old > 0 /\ w.new > 0 /\ w.old # w.new
  /\ exactlyOneActive(keys, Companion(w.kind))
  /\ \E new \in keys, c \in ActiveOf(keys, Companion(w.kind)) :
       /\ new.id = w.new /\ new.active /\ new.published
       /\ validatedKeyRole(new, w.kind, FALSE)
       /\ c.published /\ c.id \notin {w.old, w.new}
       /\ validatedKeyRole(c, Companion(w.kind), FALSE)
       /\ \A old \in keys : old.id = w.old =>
            /\ validatedKeyRole(old, w.kind, FALSE)
            /\ ~old.active /\ old.published
            /\ old.algorithm = new.algorithm
       /\ Closed(keys, {w.old, w.new, c.id})

InUse(keys) == {k \in keys : k.active \/ k.published}

\* The keys in use are this KSK and this ZSK, both active and published.  The
\* fingerprint is the pair of identifiers: PowerDNS gives none out twice.
validateEnrollmentInventory(keys, ksk, zsk) ==
  /\ InUse(keys) = {ksk, zsk}
  /\ ksk.active /\ ksk.published /\ validatedKeyRole(ksk, "ksk", FALSE)
  /\ zsk.active /\ zsk.published /\ validatedKeyRole(zsk, "zsk", FALSE)
  /\ ksk.algorithm = zsk.algorithm

\* Mutation: the old key itself may be adopted.
EligibleWithOld(keys, w, active) ==
  {k \in keys : k.active = active /\ k.published}

\* adoptOrCreate looks at the published keys in the wanted state ...
Eligible(keys, w, active) ==
  {k \in keys : k.id # w.old /\ k.active = active /\ k.published}

\* ... adopts among those of the wanted role ...
Candidates(keys, w, typ, active, transitional) ==
  {k \in Eligible(keys, w, active) :
     k.keytype = typ \/ (transitional /\ k.keytype = "csk")}

\* ... and refuses the list when one of them is in the other slot, or has
\* the role by label but not by algorithm and DNSKEY flags, or is not alone.
AdoptRefused(keys, w, typ, active, transitional, otherSlot, algorithm) ==
  LET candidates == Candidates(keys, w, typ, active, transitional)
  IN \/ \E k \in Eligible(keys, w, active) : otherSlot # 0 /\ k.id = otherSlot
     \/ \E k \in candidates :
          \/ k.algorithm # algorithm
          \/ ~validatedKeyRole(k, typ, transitional)
     \/ Cardinality(candidates) > 1
=============================================================================
