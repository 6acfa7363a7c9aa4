# dnssec-keyrotation in TLA+

A verification project for the DNSSEC key-rotation controller in `src/`. The
controller drives PowerDNS and the AutoDNS registrar through key rollovers that
take days, survive restarts, and must never leave a zone bogus for any resolver.
The models are written from the Go source; `PROJECT.json` maps every definition
to the lines it stands for.

## 1. The system

| Part | State | Operations | Interacts with |
|---|---|---|---|
| `internal/state` | one JSON document, a lock file, an in-memory copy | `Open`, `Snapshot`, `Update`, `Close` | everything that persists |
| `internal/controller`: rotation | one `model.Workflow` per zone and kind (`zsk`, `ksk`, `split`) | a handler per phase; `Trigger`, `Resume`, `ReconcileSplitSignerTransition` | store, PowerDNS, registrar, probes |
| `internal/controller`: enrollment | a workflow of kind `enroll`, `EnrollmentArmedAt` | four phase handlers, `bootstrap`, `ArmEnrollment` | the same |
| `internal/controller`: admission | the workflow map, idempotency keys | `Tick`, `reconcileZone`, `bootstrap`, `start`, `Trigger` | all workflows of a zone |
| `internal/controller`: outbox | notifications in the state document | `complete`, `block`, `deliverNotifications` | `internal/lmtp` |
| key inventory checks | none | `validatePrepublishInventory`, `retirementInventory`, ... | rotation handlers |
| `internal/dnsprobe` | none | DNSKEY, DS, RRSIG and no-DS evidence | name servers, resolvers, parent |
| `internal/pdns`, `internal/autodns` | none; the services keep keys and DS material | list, create, set, delete; read, update, job status | the services |
| `internal/app`, `internal/control` | two goroutines, the socket path | `Run`, its hooks, `Prepare`, `Serve`; HTTP over a Unix socket | the controller, other processes |
| `cmd/dnssecctl`, `internal/config` | none | command line, configuration | the control socket |

**What is hard.** Every write to a service can be lost, applied late, or applied
with its answer lost; the process can stop between any two steps; two of the
writes (creating a key, the registrar update) must not be repeated; secondary
servers and parent servers lag; resolvers keep what is no longer served for a
TTL that an operator may raise meanwhile; foreign keys may appear; PowerDNS may
relabel key roles. The store must keep what it acknowledged over crashes and
loss of power, with a second controller started at any time. `Trigger` runs
beside `Tick` without its mutex; a notification can be delivered and not
recorded; the parent's servers change in the middle of a look-up; two processes
share one lock file and one socket path. The `hazards` list
of `PROJECT.json` gives each of these at its line with the properties that cover it.

**What makes each part correct.**

- *Store*: an acknowledged update is never lost or invisible; one writer.
- *Rotation*: any mixture of cached and fresh RRsets validates; no DS before
  its key is usable; each non-repeatable request is sent at most once; a
  finished rotation leaves exactly the new keys; a rotation ends or stops where
  an operator must act.
- *Enrollment*: a zone is announced once in its life, and validates for every
  resolver from then on; an enrollment that ended in success is what a rotation
  may begin from.
- *Admission*: a handler acts only on the one active workflow of its zone; an
  idempotency key acts once and its answer is true; the baseline, ended
  enrollments and the circuit breaker are respected.
- *Outbox*: every event reaches every recipient, and a second copy has a reason.
- *Probes*: a look-up ends, overlooks no contrary answer (the one for the DS
  does, see the disagreements below), and finds a proof that stays available.
- *Life cycle*: the process that serves is reachable and alone; a stop ends.

## 2. Modules

| Module | Models | Form |
|---|---|---|
| `DurableState` | what `internal/state` promises | abstract specification |
| `Store` | `store.go`, step by step, on a file system that may lose power | state machine; implements `DurableState` |
| `KeyInventory` | the pure checks of a PowerDNS key list | operators |
| `DNSWorld` | PowerDNS, secondaries, registrar, parent, caches; when the probes succeed | state and environment actions |
| `Waits` | the configured waits that rotation and enrollment share | operators; extends `DNSWorld` |
| `Rotation` | the `zsk`, `ksk` and `split` workflows of one zone in that world | state machine; extends `Waits` |
| `Enrollment` | the `enroll` workflow of one zone in that world | state machine; extends `Waits` |
| `Admission` | which workflow of which zone may run; idempotency keys | state machine |
| `Outbox` | notifications and the LMTP exchange | state machine |
| `Probe` | the iterative look-ups of `internal/dnsprobe` | state machine |
| `Lifecycle` | processes, lock and control socket | state machine |
| `WorldProofs` | lemmas about `DNSWorld` that the next two share | TLAPS |
| `RotationProofs`, `EnrollmentProofs`, `StoreProofs`, `AdmissionProofs`, `OutboxProofs`, `ProbeProofs`, `LifecycleProofs` | theorems | TLAPS |
| `MC...` | the instances TLC checks | with the `.cfg` files |

A definition that begins with the comment `Mutation:` is not part of a model. It is a
plausible wrong form of the definition after it, and `PROJECT.json` names the
property that TLC finds violated when it takes that definition's place.

### Store

A document is its schema version and the set of updates it contains. The
variable `survivors` holds every document the path may name after a loss of
power: `Rename` adds one, `SyncDir` settles on one, and a rename of a file that
was not flushed would also add an empty document. `mem` and `clone` are
`Store.data` and the clone of `Update`; `stage` is the position in
`writeAtomic`. `WriteFails` lets any step fail, the directory sync after the
rename included, after which disk is ahead of memory. `LingeringHandlers` says
whether a control handler may outlive `Close`; the code allows it after the
ten-second shutdown of `Serve`. Undecodable JSON is left out: the file is only
ever written by this protocol.

### DNSWorld

- `keys` is the PowerDNS key list. `Listed` is what `ListKeys` answers, with the
  role PowerDNS reports: fixed at creation, or (`DynamicRoles`) derived from the
  active keys, where a lone role is reported as `csk`. `docs/spec.md` describes
  the second behaviour, and the transitional `csk` label is why
  `validatedKeyRole` looks at DNSKEY flags.
- `Image` is the zone as a server serves it: published keys, the signers of the
  DNSKEY set and of the data, the largest TTL. All secondaries are represented
  by the slowest, which lags at most `ServerLag`.
- `cache` holds the RRset versions that nobody serves any more but some cache in
  the world may still use, with the time left. A version that is served may be
  fetched at any moment, so it needs no entry.
- The registrar takes an update as a job or applies it at once; a job succeeds,
  fails, and is finally forgotten. The parent servers follow the registrar,
  `fast` first and `slow` within `ParentLag`. `parent.delegated` says whether the
  parent's NS set is the configured one; `Delegations` are the values it may have,
  and `Redelegated` changes it.
- A probe is stated by what must be true when it succeeds. A probe that fails
  changes nothing in the workflow beyond its retry time.

Key material, signatures and message formats are abstracted to key identifiers.

### Rotation

`wf` is the persisted workflow, with times turned into time left (`next`, `age`)
or into whether they are set. A handler that only reads and persists is one
step. A handler that writes to a service is several: intent persisted (`Issue`),
request sent (`Send`), applied (`PowerDNSApplies`, `RegistrarAccepts`) or lost
(`LoseRequest`), answer persisted (`PersistAnswer`). `call` is the only thing
the controller has in memory, so `Abandon` is a crash, a time-out and a failed
`store.Update` alike, and a request already sent goes on travelling, for at most
`RequestLife`. `recordRetry` is not a step: it only delays a handler, and any
handler may be delayed. One record is enough for one zone: `Admission` shows that
a handler never acts beside another active workflow of its zone. `Trigger` stands
for the manual request and for the scheduled start. `ZoneEdited` changes the
largest TTL at any moment, between a handler's read and the arrival of its PUT
too. `InitialZones` says where a run starts: a zone with KSK and ZSK, with one
announced CSK, or with one CSK the parent does not know.

The world and the workflow are one module hierarchy, not a composition by
`INSTANCE`, because each handler reads the world through the probes.

### Enrollment

`wf` is the `enroll` record, `zone` what `ListZones` and the configuration say of
the zone. `bootstrap` makes the candidate, the four phase
handlers take it to `enroll_wait_parent` and `complete`; `ZoneLost` and
`ScopeLost` are the two ways `Tick` blocks a candidate. The registrar PUT is made
in the same steps as in `Rotation`. People may sign the zone with either scheme,
unsign it, create it anew, replace or add a key. They may change the delegation at
any time, and put material into the registrar by hand: anything before the
attempt is recorded, and the zone's KSK also while the PUT is prepared, under way
or of unknown outcome.

### Admission

A step is one `store.Update`, or one read that a later step relies on. `wf` keeps
of each record whether it is absent, idle, active or blocked. `tick` is who
holds `c.mu` and how far it is: `TickBegin`, `ListKeys`, `bootstrap`, `Decide`,
then `Block`, `Start` or `Advance`. `TriggerReads` and `TriggerUpdates` fall
anywhere between them; `Resume`, `ReconcileSplitSignerTransition` and
`ArmEnrollment` hold the mutex. What a handler does is in the two modules
above; here `Advance` lets the workflow stay, make its registrar write, block or
complete. `acted`, `baseline` and `admitted` (the enrollments begun in the last 24
hours, the ended ones included) are history variables. `waits` carries the one
assumption on time: a workflow takes hours, a request seconds, so a workflow does
not complete while a request that is older than it is still under way.

### Outbox

`complete` and `block` put the event into `box` in the `Update` that changes the
workflow. `deliverNotifications` deletes what is older than the retention, then
sends what is due, one LMTP session (`Envelope`, `Data`, `Replies`) for all
recipients, and records the outcome in a second `Update`. A crash, a broken
connection, a refused recipient and a failed `Update` may come between any two
of these. A blocked enrollment has a stable event identifier, and a `Tick` that
finds its zone gone raises it again.

### Probe

`NoDSEvidence`, the parent's part of `DelegationEvidence` and
`AuthoritativeDSEvidence` share one shape: ask every address of a level, collect
referrals and proofs, and succeed when two addresses gave the proof and none
refuted it. They differ in what an answer means (`Verdict`), in the resolvers that
`NoDSEvidence` asks first, and in `StoppedByError`. For the DS an answer with
another RRset refutes nothing: it is an error of that address, and forgotten
when two others gave the proof. `steady` is the set of addresses that have
contradicted the look-up since it began. Addresses may be out of reach
or lame; the registry changes while the parent's servers follow one by one. A
response that fails verification is a response that does not come.

### Lifecycle

One process is its server's progress (`Lstat`, `Remove`, `Listen`, `Chmod`,
`Serve`, `Shutdown`, the last `Remove`) and whether its controller ticks.
`StopHooks` runs when both goroutines are done, and only then closes the store.
`Dies` is a kill and `Run` giving up on its hooks: the kernel releases the
lock, the socket stays at the path.

## 3. Runs

| Run | Question | Distinct states |
|---|---|---|
| `store` | Is anything acknowledged ever lost, and does the protocol implement `DurableState`? | 12,004 |
| `store_lingering` | Is there one writer although a handler outlives `Close`? (no) | - |
| `two_rotations` | Two rotations in a row of a KSK/ZSK zone, or an initial split and a rotation | 610,814 |
| `csk_split` | An announced CSK to KSK/ZSK, fixed roles, a foreign key, a changing TTL | 614,472 |
| `rotation_ends` | Any rotation of any zone, dynamic roles, a changing delegation, two faults: safe, and does it end? | 75,972 |
| `read_failure` | Is a failed read always retried? (no) | - |
| `enrollment` | Is a zone announced once, safely, and does its enrollment end? | 146,522 |
| `admission` | Two clients, two keys, a `Tick`, an arming, a restart | 1,181,418 |
| `admission_enrollment` | Two zones, an arming, a changed scope, the breaker | 3,833,276 |
| `outbox` | Are events delivered, and why twice? | 168,818 |
| `probe` | Three look-ups against a changing parent | 369,811 |
| `lifecycle` | Three processes, one lock, one path | 316 |

The properties:

- `AckedSurvives`, `AckedVisible`, `OneWriter`, `PromiseSpec` for the store.
- `ChainOfTrust`: every DS set, DNSKEY set and zone RRset that any server serves
  or any cache holds validate together.
- `DSAnnouncedWhenUsable`: a DS at the registrar, or in its queue, is for a key
  in every DNSKEY set in use, and that signs it.
- `AtMostOnce`: each key creation and the registrar update leaves the
  controller at most once per workflow.
- `SlotsAreSound`: the three key slots never name one key twice, and name keys
  that exist until they are retired.
- `SettledZone`: an idle zone has exactly its keys in service, a matching DS,
  and no late request that could change them.
- `RotationEnds`, `EnrollmentEnds`: see fairness.
- `OneWrite`, `AnnouncedZoneValidates`, `EnrolledIsProven`: the enrollment's PUT
  is made once and breaks no resolver, and success means that a rotation may
  begin. A job may still run then (the KSK was published by hand while the PUT
  was under way), and brings nothing else.
- `AdvancedAlone`, `KeyActsOnce`, `AnswersHonest`, `BaselineNeverEnrolled`,
  `EndedEnrollmentStays` for admission; `EnrollmentsLimited`: the enrollments that
  run are within the pending limit, those begun within 24 hours, however they have
  ended, within the daily one.
- `NoEventLost`, `CopiesExplained`, `EventDelivered`, `OutboxEmptied`: an event is
  pending or has reached everybody; a recipient has at most one copy of a
  completion more than there were messages taken without a record.
- `LookupEnds`, `ProofFound` for the look-ups; `NothingOverlooked`: when
  `NoDSEvidence` or `DelegationEvidence` succeeds, no address it was referred to and
  could reach has served the contrary all the time. The look-up for the DS is
  not covered, because it does not hold there (see the disagreements below).
- `ServingIsReachable`, `OneController`, `StartNeverFails`, `StopEnds`.

**Bounds.** Two controllers and two updates are what a lost update needs. TTLs
of 1 and 2, lags of 1 and a margin of 1 make a wait longer than each of its
parts, so that forgetting a TTL is visible in `ChainOfTrust` where that wait is
what protects the zone: the DS wait in `two_rotations` and `rotation_ends`, the zone
wait in `csk_split` (zone TTLs 1 and 3 there, because the old key's data outlives
two margins only then). At these bounds not every wait is binding in every run:
while an existing zone is split the old CSK stays in service through the zone
waits that follow, which cover a DS TTL of 2 (not a much longer one).
`MaxRotations = 2` in `two_rotations` lets a late request of one rotation meet the
next. The zone TTL changes in `csk_split` and in `rotation_ends` (1 and 2);
`two_rotations` has one, and has the initial split of a zone nobody announces.
A fault and a foreign key together in `two_rotations` and `csk_split`, and two
faults without a foreign key in `rotation_ends`, allow a lost answer followed by
a lost repetition or by a foreign candidate; a foreign key may keep a rotation
waiting for ever, so the liveness run has none. `AmbiguityLimit = 2` and
`RequestLife = 1` keep the 24-hour limit longer than a request travels, as it is
in the code.

`Delegations` is `{TRUE, FALSE}` in `rotation_ends` and `enrollment`. It is `{TRUE}`
in the other rotation runs: only an attested split looks at it, none can be
attested on a PowerDNS with fixed roles (`two_rotations`, `csk_split`), and the
counterexample of `read_failure` ends before.

Three edits around an enrollment let a zone be signed, unsigned and signed again.
One zone, two clients and two keys in `admission` are what a race for a zone and
a race for a key need; `admission_enrollment` has a second zone instead, because
the breaker counts zones, and three changes, because a zone has to be signed,
removed and signed again to be enrolled twice. Both limits of the breaker are 1
and each binds by itself: an enrollment that ends within its day leaves only the
daily limit to stop the other zone, one that runs into the next day only the
pending limit. The run starts with one zone to be
enrolled and one to be rotated only, and a restart may change either. `MaxBackoff = 4` is reached by two
failures, and two faults and a refusal give a message that is taken and not
recorded, twice. Two parent hosts with two addresses each, one address out of
reach and one lame leave two proofs to be had. `MaxDepth = 3` is one level more
than the look-up needs, so that a circle is walked and cut off. Three processes
and six starts let a third one come while two are stopping. Symmetry is used only
in the two admission runs, which check no liveness.

**Assumptions about the world.** `MarginCoversLag`: no server lags longer than
`controller.propagation_margin`; that is what the margin is configured for, and
nothing in the code checks it. A zone TTL above the floor of `maxTTL` (one day;
`MinimumZoneTTL`) is not lowered during a rotation: what was cached with it would
outlive the waits. A raised TTL needs no assumption: both keys sign from the
activation on, so what is cached with the longer TTL has both signatures.
`GraceCoversZone`: discovery grace and DNSKEY wait together cover the zone's TTLs,
which the enroll handlers never look at. `Unannounced`: nobody replaces or removes
a signing key from the last check of an enrollment on. `MaterialByHand`: nobody
publishes anything but the zone's KSK once the attempt is recorded, which the PUT,
being unconditional, would replace; and the registrar takes no other change of a
domain whose job runs.

**Fairness.** `FairSpec` of `Rotation` and `Enrollment` assumes that `Tick` keeps
running (`Run` calls it at each interval and a failed one does not stop it), so a
handler that stays due with its evidence present acts; that a request is
delivered or lost; that a call whose request is gone ends (both HTTP clients
have a time-out); that servers catch up, the registrar ends its jobs and the
parent publishes; and that time passes. Nothing is assumed of the operator or of
faults. `RotationEnds` then says that a rotation completes, blocks, or stands in
one of five named states that the code retries for ever: a key creation that
never reached PowerDNS (`CreateLost`), a failed job that can no longer be queried
(`JobLost`), an attested split whose delegation is not the configured one
(`AwaitsDelegation`), a signer transition to be attested (`AwaitsAttestation`; an
existing-mode split on a PowerDNS with dynamic roles may not be attested and
stays there), and an attested split whose old key was switched off by a PUT that
had been given up, after `deactivateOld` had gone back for a larger TTL
(`SwitchedOffLate`). `EnrollmentEnds` has `JobLost`, a key set that is never
clean and a delegation that is never right.

`Outbox`: a `Tick` begins, goes on and ends (weak), and time passes between Ticks
again and again (strong, since it waits while one runs). Faults are finite.
`Probe`: the running look-up goes on and a failed one is repeated, servers follow
the registry (weak), a resolver refreshes although a look-up is running now and
then (strong). `Lifecycle`: goroutines go on (weak); a `Tick` whose context was
cancelled ends, since all its calls take the context.

**Disagreements with the documentation.** `docs/spec.md` says "One process-wide
lock prevents concurrent writers"; `Update` does not ask for the lock, and
`store_lingering` shows two writers. It also says "Read failures retry and do
not mutate"; `parentReplace` of an initial split blocks on any error of
`NoDSEvidence`, and `Resume` refuses such a workflow because its CTID is
recorded; `read_failure` shows it.

The models were written to follow the code in these further places, where it
departs from a document; no run is spent on them:

- `enrollParentAdd` asks `NoDSEvidence` before it reads an attempt back: a PUT
  whose answer was lost and whose DS is already visible ends in `blocked`
  (`docs/spec.md`: "An ambiguous outcome is read back without resubmission.").
- `bootstrap` makes an enrollment candidate beside a rotation that is active
  ("Each zone has at most one active workflow."); `AdvancedAlone` shows that
  `reconcileZone` then advances neither.
- `ArmEnrollment` stores its key without looking it up again in the `Update`, so
  the record of a `Trigger` that used the same key meanwhile is replaced
  (`README.md`: "retained keys prevent accidental repetition across process
  restarts"). The runs and the theorem give arming its own keys.
- `AuthoritativeDSEvidence` returns the error of a level before it follows that
  level's referrals: on a host that cannot reach one of the root addresses it
  never succeeds. `ProofFound` therefore asks that every address can be reached
  when the DS is looked up; the other two look-ups need no such condition.
- `AuthoritativeDSEvidence` passes over an address with another DS RRset as soon
  as two addresses have the new one, so that it succeeds while a server serves
  the old DS ("When the authoritative parent first serves exact new-only DS,
  persist its TTL"). `NothingOverlooked` therefore excludes this look-up. No
  resolver suffers: the wait that follows covers the lag (`ParentWait`,
  `MarginCoversLag`), and `DNSWorld` states this probe by the fast servers alone, so
  `ChainOfTrust` is checked and proved with it.
- `NoDSEvidence` counts addresses, and two addresses of one host are two
  (`README.md`: "at least two parent servers").

## 4. Proofs

`StoreProofs`, for any set of processes and updates:

- `TypeCorrect`.
- `AckedUpdatesAreSafe`, `AckedUpdatesAreVisible`, `OnlyOneWriter`, when no
  handler outlives `Close`. The invariant adds
  what the runs only show indirectly: whoever has the store open, or is opening
  it, holds the lock; a document about to be renamed contains every acknowledged
  update and has been flushed; the file is one of its own survivors. Each action
  keeps these, and they imply the three properties.
- `StoreImplementsPromise`: with the same invariant, each step of `Store` is a
  step of `DurableState` or a stutter under the mapping at the end of `Store`.

`RotationProofs`, for all TTLs, waits, lags and bounds allowed by
`WorldAssumptions`, `WaitAssumptions` and `RotationAssumptions`; the last three
also need `MarginCoversLag`:

- `RotationTypeCorrect`. Every handler is first shown to have one of five shapes
  (`Handled`): it persists a workflow with the same attempts, adopts a key,
  issues a repeatable request, records a first attempt, or completes. The type
  argument is then made once per shape, not once per handler.
- `AtMostOnceAlways`. `AtMostOnce` is not inductive: what forbids a second
  request is the attempt that was persisted before the first. `OnceInv` adds that
  a request sent has its attempt on record, and that a request about to be sent
  has its attempt on record and has not been sent.
- `SlotsStaySound`. A key ends by a deletion, and a deletion may travel while the
  workflow that sent it is blocked, resumed or completed and the next one fills
  its slots. `SlotInv` therefore says of every request under way whom it may
  hit: its key is gone already, or it is the old key of a workflow that retires
  it (`RequestsFit`). That a foreign key, which the operator may remove at any
  moment, is never taken for the old key needs more: the zone always has a
  signer of its own that no request is about to switch off (`SomeSigner`), so a
  foreign KSK is never the only one. `PhaseFits` carries what the inventory
  checks have established from phase to phase, `KeyBook` that PowerDNS gives no
  number out twice. A restart needs no case: the invariant says little of
  `call`, and nothing without one.
- `AnnouncedKeysAreUsable`. The property speaks of the registrar alone, but a DS
  is decided on before: by the attempt on disk, the PUT on its way, the queued
  job. `DSInv` takes all four together as `Anchors` and keeps that an anchored
  key signs, is in every served and cached DNSKEY set, and is the target of no
  request that would stop it (`AnchorsHold`). A new key becomes an anchor only in
  `parentReplace`, so `NewHolds` follows it before that: from the first
  evidence of `waitPublish` on, a cached set without the key has no more left
  than the workflow has still to wait. An old key ceases to be one when the new
  key's DS is at the parent: `PutBook` keeps that there is one PUT at most,
  and that a parent with the new DS means a registrar with nothing else, which is
  why `deactivateOld` may trust the evidence of the DNS and why a late PUT of a
  completed workflow does not exist. `Announcing` carries from phase to phase what
  was seen at the parent. The anchors include what the parent serves and caches
  hold, so `Superseded` follows the old DS: when `waitParentReplace` has waited,
  no server and no cache has it, which is what lets `deactivateOld` stop the old
  key. `MarginCoversLag` is used there.
- `RotationKeepsTrust`, that is `ChainOfTrust`. `DSInv` gives its first half: a
  key named by any DS set in use is in, and signs, every DNSKEY set in use. The
  second half is about the zone's signatures, and `ZoneInv` adds it: every version
  of the zone that is served or cached has a signature of a key that everybody
  has and that nothing under way deletes (`ZoneGood`). For a key to be deleted
  this has to hold by another key: `Times` follows the signatures of the new signer
  from the moment they are seen everywhere, through a zone TTL that grows in the
  meantime, to the end of `waitRetire`; `NewPub` and `PubActive` say that a ZSK
  becomes active only when everybody has it, and `Backed` that a key is taken out
  only when another ZSK is active. So that this is not argued once per handler,
  `HandlerStep` says what any handler may do to the workflow (the fifteen
  disjuncts of `Walks`, each with the evidence its transition rests on) and what
  it may send.
- `ZoneSettles`, that is `SettledZone`. What the keys of an idle zone are follows
  from what they were when the rotation ended, and that from the second look of
  `waitPublish` at the inventory, the last one that sees all of it. `Settling`
  says that from then on the zone has the keys of the rotation and at most one
  companion, but for a foreign key. For this to last no creation may still arrive.
  One that was given up may well be on its way when a foreign key has been adopted
  in its place; `LateCreations` compares what it has left with what `waitPublish`
  has still to wait. Hence the first hypothesis of the theorem: `RequestLife <
  PublishWait`. It is about the deployment, where requests end with the timeout of
  the HTTP client and the wait takes a DNSKEY TTL and the margin; without it, and
  with a foreign key, a key can appear after the rotation. The second, `MaxStrays <=
  1`, is about the model, which remembers only the last foreign key as foreign.

`EnrollmentProofs`, for all TTLs, waits, lags and bounds allowed by
`WorldAssumptions`, `WaitAssumptions`, `EnrollmentAssumptions`,
`MarginCoversLag` and `GraceCoversZone`: `EnrollmentTypeCorrect`,
`AtMostOnePut`, `AnnouncedZoneIsValid`, `EnrolledIsComplete`.
The inductive invariant `Inv` has four groups. `Base`: types, key numbers, and
that no cached version outlives its TTL. `Ledger`: what the attempt on disk
allows and forbids, and that the parent and the caches hold only what the
registrar was told. `ZoneTimed`: while the workflow waits, what was cached
before the zone was signed, and what the slowest secondary may still hand out,
lasts no longer than the wait before it; when it proceeds, no unsigned copy is
left. `DSTimed`: the same for caches that remember the absence of a DS, during
the parent wait. The arithmetic of the two timed parts is where the assumptions
on the waits are used, and only there.

`OutboxProofs`, for any events, recipients and bounds: `OutboxTypeCorrect`,
`NoEventIsLost`, `CopiesAreExplained`. The invariant adds that whatever the Tick
or the session still holds is pending (nobody else touches it), that the
server's answers so far are true (`AnswerInv`), and that a completion still to be
sent has no recorded delivery at all (`CopiesInv`), which is what makes the
bound on copies inductive.

`LifecycleProofs`, for any number of processes: `LifecycleTypeCorrect`,
`ServedByTheHolder`, `OnlyTheHolderReconciles`, `PrepareNeverFails`. Whoever is up
holds the lock, so what a process learned about the path (`PathKnown`) stays true
until it acts on it.

`AdmissionProofs`, for any zones, clients and keys: `AdmissionTypeCorrect`,
`AdvancesAlone`, `BaselineStaysOut`, `EndedEnrollmentsStay`, `KeysActOnce`,
`AnswersAreHonest`; the last two if arming has its own keys. `AdvancedAlone`
needs `TickInv`: what the Tick has read is still true when it acts, because
nobody else ends a workflow and `Trigger` starts none in a zone that has one.
`ArmInv` says that no zone has an enroll record before the arming, so the records
the baseline writes replace none. `KeyInv` ties `acted` to the record of the key, and
needs `ClientInv`, that a client under way carries a well-formed request.
`EnrollmentsAreLimited` needs that only `bootstrap` makes an enrollment active,
that it counted all zones in the state it updates, and that whatever was begun
within 24 hours still carries its start; the set of zones must be finite
(`ZonesFinite`).

`ProbeProofs`, for any number of servers, resolvers, levels, failures and
changes: `ProbeTypeCorrect`, `NothingIsOverlooked`. The property speaks of the
end of a look-up for the absence of a DS or for the delegation; on the way it is
kept that no address already asked at this level has served the contrary since
the beginning (`AskedAreClean`), and that those which have still do
(`SteadyContradict`).

Only model-checked: all liveness (`RotationEnds`, `EnrollmentEnds`,
`EventDelivered`, `OutboxEmptied`, `LookupEnds`, `ProofFound`, `StopEnds`), which is
outside the prover's reach, as are ENABLED and induction over data. Every
invariant and action property of a passing run is also a theorem. The
type invariants of `Admission`, `Outbox` and `Lifecycle` are proved and not checked
again.

## 5. Not modelled

Message parsing, signature and NSEC verification, HTTP, JSON, rate limiting of
the registrar client, the read-only handlers of the control API, configuration
and the command line are input and output around the state machines;
`PROJECT.json` lists each with its reason. Observe mode changes no state. In
`Enrollment` a DS TTL that grows during the parent wait is left out.

## 6. Plan

Done: all modules above, their runs and the theorems listed. What is left:

1. An abstract key rollover (which keys are published, signing and anchored, and
   the waits between) that `Rotation` implements.
2. More than one foreign key at a time in `Rotation`, each of which may be removed;
   `ZoneSettles` would then lose its second hypothesis.
