# Conxius platform: a TLA+ verification project

This directory holds TLA+ models of the parts of the repository that keep state
and can get it wrong: what is modelled, the TLC runs that check it on small
instances, and the theorems TLAPS proves for every instance. Paths below are
relative to the root of the repository; library files without a directory are
under `services/admin-dashboard/src/lib/support/`.

1. [The system](#1-the-system) - inventory, interactions, what is hard
2. [The modules](#2-the-modules) - how state and actions correspond to the code
3. [The runs](#3-the-runs) - what each shows, bounds, fairness, disagreements
4. [The proofs](#4-the-proofs)
5. [What is not modelled](#5-what-is-not-modelled)
6. [Plan](#6-plan)

## 1. The system

The repository is a platform monorepo. Its running program is the Next.js
service `services/admin-dashboard`; around it are agent tooling (`scripts/`), a
plugin (`services/elizaos-plugin-conxian`), Python adapters
(`src/conxian_nexus`), specifications (`openspec/`) and deployment files.

### Components

| Component | Code | State | Correct when |
|---|---|---|---|
| M2M service-key registry, file backend | `FileM2MKeyStore` in `m2mKeyStore.ts` | registry file, commit marker, candidate / journal / temporary files, lock file; `recoveryRequired` in memory | one writer; a transaction is committed at one point, survives crashes, is recovered; a reader sees committed documents only |
| M2M service-key registry, Neon backend | `NeonM2MKeyStore` in `m2mKeyStore.ts` | one Postgres row; metrics gauges | the same, with lost connections and late COMMITs |
| M2M key lifecycle | rotate, rollback, validateServiceSecret, findExpiryThresholds of both backends | generation, active and previous hash, deadlines, notification markers | no secret outlives its deadline; no consumer of a valid key is locked out; a crossing is reported once |
| M2M tokens | `m2m.ts`, `apiTokens.ts`, `app/api/v1/m2m/tokens`, the JWT cache of `lib/sidl/gateway.ts` | token store in memory, cached JWT | a revoked token is refused; nobody gets a scope its service does not have; what is sent is accepted |
| ZKCP bridge | `zkcp.ts` | intents, their evidence and generations, queues | verified before paid, each with evidence for exactly that intent; limits hold with calls in flight |
| BitVM2 bridge | `bitvm.ts` | floors, signatures, reserved signers, queues | one attested signature per authorized signer; complete at the threshold |
| BitVM3 orchestrator | `bitvm3.ts` | states, reservations, tombstones, queues | an identifier stays with its request for both lifetimes |
| Verifier contract | `verifier-contract.ts` | none | an answer counts only if it is sound, bound to the request and of an authorized backend |
| Settlement engines | `opVault.ts`, `ctusd.ts`, `ark.ts`, `asyncPayments.ts`, `bitvmx.ts`, `opCat.ts`, `taprootAssets.ts`, `silentPayments.ts`, `musig2.ts` | a Map of records each, in memory | value leaves once, after what it waits for |
| SIDL store | `lib/sidl/stateStore.ts`, the vote and checkout routes | one JSON file | no update lost; tallies and checkouts are what their events say |
| Governance claims ledger | `lib/governance/claims.ts`, the transition route | one JSON file: entries, events, activation | a cap is passed only by what negative claims freed; what is paid was reviewed; the pool is divided once |
| Swarm coordination | `scripts/agent-coordination.ts` | what the caller collected: envelopes, results, snapshots, a lifecycle | order of arrival does not matter; what is over stays over; only trusted context is handed on |
| Agent discovery | `scripts/agent-discovery.ts`, `agent-discovery-contract.ts` | one call's findings | it returns what the repository held |
| Event delivery | `event-bus.ts` | mark and delivery records, in memory | an event is delivered and its record says so |
| Support mail | `imap-worker.ts`, `app/api/support/sync` | flags in the mailbox, suppressed texts | no mail is dropped without an issue |
| Shadow monitor | `src/conxian_nexus/monitoring/shadow.py` | numbers seen, a queue | each block is announced once, with all its transactions |
| Branch promotion | `.github/workflows/auto-promotion.yml`, `branch-promotion-policy.yml`, `scripts/branch_promotion_policy.py`, `validate_staged_dwell.sh` | branches, candidate refs, pull requests | where the policy is required, main takes only what rested on staged |
| Protocol revenue observation | `scripts/protocol-revenue-observation.ts` | none | payouts are enabled only on fresh, unambiguous evidence |
| Metrics | `lib/sidl/observability.ts`; the SIDL routes that count their answers | counters, histograms and gauges in memory | what a scrape shows agrees with itself and with one document of the registry |
| Knowledge base | `scripts/kb/knowledge-store.ts` | one JSON file, a graph of entries | relations lead to entries and back; scripts one after the other lose nothing |
| Not modelled | admin routes, SIDL cart tables, treasury and operators, `src/governance`, support tools, settlement routing and small verifiers, verification scripts, Nexus adapters, ElizaOS plugin, pages, deployment | none that matters | section 5 |

### How they interact

```
 operator / service --HTTP--> routes --call--> key store --files--> directory (lock, marker, ...)
                                  |               |  \--SQL--> Neon row
                                  |               \--record--> metrics gauges
                                  |--> token store; JWT issue / verify
                                  \--> Gateway client --cached JWT--> Gateway
 operator --runbook--> restart a process, remove a stale lock file
 bridge callers --> ZKCP / BitVM2 / BitVM3 --contract--> proof verifiers, signers, payment monitor
 wallet and page callers --> settlement engines (Maps in memory)
 Farcaster / x402 client --HTTP--> cart and vote routes --call--> SIDL store --file-->
 contributors, governance --HTTP--> claims ledger --file-->
 agents --envelopes--> coordination <--discovery, allowlist, anchor--> repository
 mailbox --poll--> mail worker --> issues, answers; Nexus --batches--> event delivery
 rollups --poll--> shadow monitor --queue--> consumer
 push / schedule --> promotion workflow --> candidate refs, pull requests --policy--> staged, main
```

Every dashboard process has its own key store object and its own metrics; the
directory (or the row) is what processes share. The file backend is synchronous
from end to end (`fs.*Sync`, `Atomics.wait` between two attempts at the lock),
so two requests of *one* process never interleave there and the actors are
processes. The Neon backend awaits every statement, so the requests of one
process interleave at each of them.

### What is hard here

The hazards are listed one by one, at their lines, in `PROJECT.json`. In short:

- *The commit is seven file operations* (candidate, journal, marker, promotion,
  unmarking, unlinking, retiring what a recovery left) and a crash can fall between any two. Recovery
  is a commit of its own, so it can be interrupted too.
- *The fast path reads without the lock* and is followed by a lock that may be
  granted much later, to a process whose document is stale by then.
- *Errors after the commit point* are reported as failures, and operators
  retry. The generation precondition is what keeps a retry from committing twice.
- *Locks outlive their owners*: a lock file after a crash, a row lock after a
  lost connection, a lock file whose unlink failed while its owner lives on.
- *Deadlines compose*: grace period, configured expiry, rollback and re-rotation
  of the same secret.
- *The bridges await an adapter in the middle of every operation*, and what they
  looked at before may be gone, changed or replaced when they go on. A queue per
  identifier, a generation and a reservation are what keeps calls apart.
- *Expiry is noticed on access*, in the engines, in the bridges and in the token
  store, so a record is in a state it has outlived until somebody looks.
- *Whole-file saves*: the SIDL store, the claims ledger and the knowledge store overwrite
  what another process wrote.
- *Agents, mail servers, rollups and pull requests are other actors* that are
  late, repeat themselves, or change what was looked at a moment ago.

## 2. The modules

| Module | Models | Uses |
|---|---|---|
| `M2MCommitLog` | what the registry promises, whatever stores it: begun transactions, one append-only log, acknowledgements | - |
| `M2MRegistry` | the file backend | refines `M2MCommitLog` |
| `M2MNeonRegistry` | the Neon backend | refines `M2MCommitLog` |
| `M2MKeyLifecycle` | the key records over time | each step is a transaction of the registry |
| `VerifierContract` | the checks of requests and answers, and the chain of promises that lets one call per identifier in | - |
| `IntentLedger` | what the ZKCP bridge promises of its intents | - |
| `ZkcpBridge` | the ZKCP bridge | `VerifierContract`; refines `IntentLedger` |
| `BitVm2Bridge`, `BitVm3Orchestrator` | the other two bridges | `VerifierContract` |
| `VerifierBridges` | the three bridges, and their properties | the bridges |
| `EngineBounds` | a Map with a capacity, a clock, a chain height | - |
| `OpVaults`, `CtUsdVaults`, `ArkVutxos`, `HoldInvoices`, `BitVmxIntents`, `Covenants`, `TaprootAssets`, `SilentPayments`, `MuSig2Sessions` | one settlement engine each | `EngineBounds` |
| `ClaimsLedger`, `SidlStore` | the two ledgers in files | - |
| `M2MTokens` | API tokens, JWTs, the Gateway's JWT cache, authentication | - |
| `SwarmResults`, `SwarmContext`, `SwarmDelegation`, `DiscoveryTrust` | four parts of `agent-coordination.ts` | - |
| `AgentDiscovery` | repository discovery | - |
| `EventDelivery`, `SupportMail`, `ShadowMonitor` | the daemons | - |
| `SidlMetrics`, `KnowledgeBase` | the metrics store with the routes that feed it; the knowledge store | - |
| `RevenueObservation`, `BranchPromotion` | the validator; the promotion workflow and policy | - |
| `PlatformServices` | the twenty-four services, and their properties | the services |
| `MCVerifierBridges`, `MCPlatformServices` | the same for TLC: a symmetry set, the inputs | |
| `M2MRegistryProofs`, `M2MNeonProofs`, `M2MKeyLifecycleProofs`, `VerifierBridgesProofs`, `EngineProofs`, `ServiceProofs`, `PlatformProofs` | theorems and their proofs; `EngineProofs` has the engines, the gates and the agents, `ServiceProofs` the ledgers and the feeds, and `PlatformProofs` builds on both | |

The registry modules say *that* a transaction happens once and is never lost and
leave the key material out; the lifecycle module says *what* a transaction does
to keys and takes it to be atomic. The commit log is what joins them: it is the
atomicity the lifecycle module relies on, and both backends are shown to have it.

A definition whose comment begins with `Mutant:` is not part of a model. It is
a plausible wrong version of the definition after it, kept to show that the
property named for it in `PROJECT.json` would notice.

### M2MRegistry

A document is known by the number of the transaction that wrote it
(`lastCommitId`), and `docs` keeps the content of each: its predecessor, the
kind of its last audit event, the commit it recovers, the generation and
previous generation of one service, and `audit`, the commits of its audit
events in order. The length of `audit` is the revision.

| Variable | Code |
|---|---|
| `active` | the registry file (0: absent) |
| `marker` | the commit marker file |
| `files` | candidate, journal and temporary marker files |
| `lock` | the lock file: `Free`, a live process, or `Dead` |
| `pc`, `req` | where a request is, and its local variables |
| `latched` | `recoveryRequired` |
| `acked`, `reply`, `floor` | history variables for the properties |
| `mutations`, `faults` | counters for the bounds |

A step is one call that another process can see, or that a crash can separate
from the next one. Reading a file is one step; the candidate and the content it
is written with appear together, since nothing looks at a candidate before
there is a marker. Validation under the lock reads several files in one step:
nobody else writes then, which `OneWriter` checks rather than assumes.

| Actions | Code |
|---|---|
| `Start`, `CheckMarker`, `ReadActive`, `CheckOrphans`, `Proceed` | the lock-free part of `ensureReady`, and what each operation does with its result |
| `AcquireLock`, `LockBusy`, `Release` | `withWriterLock` |
| `BeginCommit` ... `FinishCommit` | `commitDocumentUnderLock`, one action per file operation |
| `FailRecovery`, `PromoteMarked`, `RecoverPromoted`, `RecoverActive`, `DropMarker`, `DropArtifacts` | `recoverMarkerUnderLock` and what it calls |
| `FoundReady`, `StartCleaning`, `RemoveOrphan`, `CleanDone`, `Bootstrap` | the parts of `ensureReady` under the lock without a marker |
| `Rotate`, `Rollback`, `PersistThresholds`, `Refuse`, `NoThresholdLeft` | the operations |
| `FailBeforeLock`, `FailHolding`, `FailBeforeMarker`, `FailAfterMarker`, `FailRelease` | an I/O error, by where it is caught |
| `Crash`, `OperatorRestart`, `OperatorClearsLock` | the process, and `docs/runbooks/M2M_KEY_ROTATION_RUNBOOK.md`, section 7 |

Time is not in this module, so whether there are thresholds to record, and
whether a rollback window is still open, are choices; which of the choices are
possible follows from the generations (a bootstrap key has no deadline).
`Configured` are the processes that have a service key in their environment, which need not be all.

### M2MNeonRegistry

The same documents in one `row`. A statement is *run* by the server in one step
and *answered* to the request in a later one. `inserting` holds bootstrap
INSERTs that are on their way, `txn` the transaction with the row lock: open,
staged (the UPDATE was run) or committing. `ConnectionLost` fails a request at any await and
leaves the server with what it was sent; `ServerEndsSession` and `ServerCommit`
then race. What Postgres does (`ServerInsert`, `ServerCommit`,
`ServerEndsSession`) is marked external. `gauge` is the document whose revision
the metrics export.

### M2MKeyLifecycle

Instants are natural numbers and 0 is null. A secret and its hash are the
number of its minting. `Accepts` is `validateServiceSecret`; `Rotate` and
`Rollback` are the construction of `nextService`; `Watched`, `Crossed` and
`Candidates` are `findExpiryThresholds`; `Evaluate` is the transaction of
`persistExpiryThresholds`. `Crossed` takes the first window of a list in the
order of the list, as `Array.find` does.

Initial secrets need not be distinct between services, since nothing in the
environment import makes them so.

### The bridges

A call of a bridge is a record of where it is and what it has read
(`zkCall`, `b2Call`, `b3Call`). Code between two awaits is one step; awaiting
the queue, the verifier, the signer and the payment monitor are the places
where other calls come in. The queue at the end of `VerifierContract` is `withIntentLock`,
`withAggregationLock` and `withProofLock`: `Line` is the chain of promises,
`LeaveTail` the `finally` that removes the Map entry only if it is still the
call's own. The three bridges share no variable and never call each other, so
`VerifierBridges` is their sum: the initial state chooses the bridge that runs.

`Judge` in `VerifierContract` is what a result is worth, in the order of the
code's checks; requests and answers are records of the features those checks
look at, and the MC module enumerates a sound one and each with one thing
wrong. `Wirings` are the adapters a deployment may configure, the unavailable
one included. Things the model keeps as the code has them: a replay of a
challenged BitVM2 floor answers "verified"; a signature of provenance "test" is
accepted if the floor's own backend made it; a payment without confirmations counts; a
floor may be asked for without a Taproot profile; a BitVM2 floor never becomes terminal (`isTerminalFloorStatus`, bitvm.ts:593), so
its capacity is used up once.

### The engines

Every engine is a Map from identifiers to records and none awaits before its
effects, so an operation is a step and a refused one none. `EngineTtl` is the
lifetime an engine counts from creation; expiry happens when a record is looked
at (`CheckExpiry`, `Purge...`), exactly where the code looks. Heights are
what callers report and may go back.

### The ledgers, the gates, the agents and the feeds

- `ClaimsLedger`: an operation is load, change, save in one synchronous step;
  the file is written in place, so a crash may tear it (`TearFile`); every
  later load throws then, and nothing repairs it. `clTrail` is the part of the event log that
  explains an entry. Multipliers and pool are integers of either sign, since the routes check neither
  (`claims/route.ts:34-35`, `convert/route.ts:18`), or give an infinite award or none at all
  (`number`), which JSON saves as null.
- `SidlStore`: within a process load and save are not separated, between two
  processes anything is; `WorkerSets` has instances of one and of two. A process
  may die at any point.
- `M2MTokens`: a lifetime asked for may be negative, and the token is then over when it is issued; `Authenticated` is the order in which the credentials of a request
  are tried under each configuration mode; signing a JWT awaits, so calls that missed the cache overlap.
- `SwarmResults`, `SwarmContext`, `SwarmDelegation`: the library is pure; what
  the modules keep is what its caller has collected, packaged or accepted so far,
  from a network that loses, repeats and reorders. Digests are the values
  they are taken of.
- `AgentDiscovery`: each inspection and each read is a step, and the repository
  changes between any two. An inspection refuses a path that leads out of the repository; a
  read follows whatever stands there by then (`GivesText`). `DiscoveryTrust` takes a discovery as one step and
  asks what may be used of it later, under another allowlist, discovery or anchor. Its snapshots
  keep one entry per key, whichever wins (`Resolutions`; `SwarmContext` has the order), so a merge may lose a
  source; the snapshot then lists it as missing and is valid all the same, as in
  `mergeContextSnapshots`. `given` remembers all that went in.
- `EventDelivery`, `SupportMail`, `ShadowMonitor`: each call to another server is
  a step that may fail; `smFaults`, `edOverlap` and `shCut` remember that
  something happened after which less can be promised.
- `RevenueObservation`: the document is revised field by field and ages;
  `ValidateObservation` parses and then checks across the parts, in the code's order.
  A beneficiary reference of kind `evidence-id` must name evidence of the document, the other kinds
  (a path of the repository, a governance record, something on a chain) need only be given.
- `BranchPromotion`: commits, branches, candidate refs and pull requests; a run
  of the workflow is taken step by step, people edit, press Update branch and merge (by a merge, squashed
  or rebased). A back-merge brings whatever its author puts there, as the policy looks only at
  the name of the branch. Which branches really require the policy is no part of the code, so it is
  a choice, `bpRules`: each subset of `main`, `staged` and `refs` (the refs `promotion/*` are
  written by the workflow alone) is an initial state. Without them anything lands, `staged`
  may be put anywhere, and candidates are made and moved by hand.

`PlatformServices` is the sum of these: the services share no variable, so its
initial state chooses one, and `While(name, P)` says P of the service that runs.

## 3. The runs

| Run | Instance | Shows |
|---|---|---|
| `registry_safety` | 2 processes, 2 mutating requests, unlimited reads, 2 faults (1.0M states) | the safety of the file backend, and that it implements `M2MCommitLog` |
| `registry_liveness` | 2 processes, one of them without a configured service, 1 mutation, 2 faults (157k states) | recovery completes or refuses and then leaves all as it is; requests return |
| `neon_registry` | 2 requests, 2 mutations, unlimited reads, 1 fault (217k states) | safety, refinement and liveness of the Neon backend |
| `key_lifecycle` | 1 service, 4 generations, 7 instants, 2 grace periods, 3 lifetimes (1.1M states) | which secrets are accepted, and which thresholds reported |
| `verifier_bridges` | 2 overlapping calls, 3 requests in all, 2 identifiers, tables of size 1 or 2 (123k states) | the safety of the three bridges, and that the ZKCP bridge implements `IntentLedger` |
| `verifier_returns` | the same with fewer answers (12k states) | every call returns |
| `platform_services` | one of the 24 services at a time (627k states) | engines, ledgers, gates, agents and feeds |
| `registry_third_crash`, `registry_empty_bootstrap`, `key_thresholds`, `neon_metrics`, `claims_cap` | as below | five disagreements between code and documents |

### Properties

- `OneWriter` (file): a process between the creation of the lock file and its
  unlink is the one the file names, through crashes, failed unlinks and the
  operator's removals.
- `MarkerComplete` (file): a marker never stands on disk without its journal,
  and its document in the registry file, or the predecessor there and the
  candidate beside it.
- `AbandonedMarkerRecoverable` (file): a marker no live process is working on
  is one that recovery accepts.
- `FailsClosed` (file): a directory that recovery refuses is never changed, not
  even by a process that decided to clean or to bootstrap before it waited for
  the lock. Its run has a process without a configured service, where two faults reach
  such a directory (item 2 under the disagreements).
- `OneSuccessPerGeneration` (file), `OneCommitPerGeneration` (Neon): a retry
  with the same expected generation never succeeds twice. For Neon this is said
  of what was *committed*, lost responses included.
- `AckedDurable`, `ReadsCommitted` (both): what was acknowledged stays in the
  registry; an answer comes from a committed document that has everything
  acknowledged before the request began.
- `ImplementsCommitLog` (both): the refinement. The log is the audit trail of
  the last committed document; a transaction is committed when its marker is
  renamed into place (or the server runs COMMIT), once and on top of the last one; an aborted one never comes back.
- `RecoveryCompletes`, `RequestsReturn`: a marker does not stay, as long as none is left that recovery
  refuses (`registry_safety` shows when that is so); every request ends.
- `NoSecretGains`, `RotatedOutRefused`, `SomeConsumerSurvives` (lifecycle):
  whatever sequence of rotations and rollbacks, no secret becomes valid at an
  instant at which it was not going to be; a rotated-out secret is refused from
  the end of its grace period on; some secret that was valid stays valid.
- `OneEventPerCrossing`, `DeadlinesAnnounced` (lifecycle): crossings are
  reported once, and after an evaluation none is missing.
- `EvidenceSound` (bridges): nothing is verified, paid or retained, and nobody
  told so, without a sound answer of an authorized backend for exactly that
  request. `SignaturesSound`: the signatures on a floor are one per authorized
  signer, each attested, complete exactly at the threshold.
- `LinesSound`, `ClaimsHeld` (bridges): one call at a time works on an
  identifier, and what it reserved or read stays its own and is given back.
- `CapacityHeld`, `EvictionSafe`, `IdentityHeld` (bridges): the limits hold with
  calls in flight; nothing in use is dropped; an identifier keeps its request.
- `ImplementsIntentLedger`: the ZKCP bridge refines `IntentLedger`. `CallsReturn`:
  nobody waits for ever.
- `EnginesSound`, `LedgersSound`, `GatesSound`, `AgentsSound`, `FeedsSound`
  (platform): each is the conjunction of what is promised by the services of that
  group, stated in the service's module (`OvSound`, `ClSound`, `SwSound`, ...).
- `PlatformFinal`: no step takes back what is final, in each service's own sense
  (`OvFinal`, `ClFinal`, ...).

What `ClSound` says of the cap is what is left of it (`CapHeld`): a contributor's month exceeds the cap by no more than
what revoked claims of less than nothing had taken off it, hence never where no claim is
negative. That the cap itself holds is `MonthlyCapKept`, and is false (item 5 under the
disagreements). What `BpSound` says depends on the rules in force: where `main` requires the policy, what lands there
brought a merge whose recorded time is past the dwell time; only where `staged`
and the refs are guarded as well was that merge made on `staged`, and
work on `staged` came from `dev` or as a back-merge. `DtSound` says of a snapshot that
can still be used that it has an entry for every key ever given and tells rightly what it
lacks, not that it lacks nothing.

What `LedgersSound` says is what is left when two processes share the SIDL
file: votes *are* lost then, and the file still explains itself
(`SidlTrailExplains`); that nothing acknowledged is lost is stated of one
process (`SidlAckedKept`). In the same way `EdSound` says at most once only while no two
batches overlap, and `SmSound` one issue per mail only without a fault.

### Why these bounds are enough

Two processes are enough for one to act between any two steps of the other; a
third would only wait for the same lock. Two mutations give a conflict, a retry
and a rotation followed by its rollback. Two faults give a crash in a commit and
another one in its recovery, which is where the recovery code branches; what a
third one does is a finding, below. Reads are not bounded. `TypeOK` and the
invariants that are proved do not depend on the bounds at all.

For Neon one fault suffices to leave a transaction without a client while the
operator's retry is on its way. In `M2MKeyLifecycle` the clock passes every
deadline an instance can set; grace 1 and 3 against lifetimes 2 and 5 give a
grace period that ends before, and after, the key's own expiry. `ScaledWindows` is the
order of `EXPIRY_THRESHOLDS` scaled to 4, 3, 2, 1. One service suffices, as the
services do not read each other's records; the proofs are for any set of them.
The lifecycle run stops at the last instant and generation, so its configuration
turns the deadlock check off; so do the three runs of bridges and services,
which stop when their requests and clocks are used up. The others leave it on.

For the bridges two calls are enough for one to come between any two steps of
the other; three requests give a repeat after both. `MaxActive`, `MaxFloors`,
`MaxRetained` and `MaxTombstones` are 1 so that the second identifier meets a
full table, and the clock passes every lifetime. The inputs are a sound request
and answer, and each with one defect: two defects at once are refused at the first of them.

`PlatformServices.cfg` names each bound with its service. Engines have three
identifiers and two places, so that the third is refused; lifetimes and delays
of 0, 1 and 2 against a clock of 1 and heights of 2 give both sides of every
comparison. Two batches, two workers, two pollers, two processes suffice for every
interleaving of two, and a third request, poll or delivery for what a repeat does.
`MaxEntries = 2` claims meet both the cap (28.8 of its 40 units, then 30 more, or the room that a
claim of -28.8 makes) and the duplicate guard; an infinite award takes the whole cap, and that of no
number is left to the proof, which has it. Four
graphs of up to three tasks have a chain, a fork, a cycle and too many retries.
`MaxDiskChanges` and `MaxOverwrites` are 1: a change between any two reads; two
commits of depth are what a promotion needs, `MaxCommits = 5` leaves room for a back-merge.
`MaxActs` bounds, for each set of rules, the runs of the workflow and what is done past the
policy: two where every rule is in force, one elsewhere; work, pull requests, edits and merges are not
counted. Two snapshots (`MaxPackaged`) are what a merge takes, and `Placements` gives two sources under the keys of each
other, so that merging loses one. `MaxRevenueTime = 2` has evidence of day 0 outlive its age limit, and a revised expiry pass.

### Fairness

- *File backend*: weak fairness of each process's steps (it is scheduled), and
  nothing else for `RequestsReturn`. `RecoveryCompletes` has more to assume and
  says so (`Attended`): that an idle process is sent another read (recovery is
  triggered by requests; health checks poll the readiness) and that the operator
  does what the runbook says. No fairness of faults or of mutations.
- *Neon*: weak fairness of each request's continuation (the event loop) and of
  the server, which runs what it was sent and ends sessions that lost their
  client. No fairness of new requests.

- *Bridges*: weak fairness of each call's continuation; the adapters are taken
  to answer or to throw, since the code sets no time limit for them. No fairness of new
  calls, purges or the clock.

`RequestsReturn` of the file backend rests on `LockBusy`: waiting for the lock
file is bounded by `lockWaitMs`, and neither by the owner's progress nor by the
operator's. `CallsReturn` rests on the `finally` of the queues. The services of
`PlatformServices` are checked for safety only: most of them promise nothing
about progress (an event that failed is never retried, a poll happens when a request comes).

### Where code and documents disagree

1. **A recovery that is interrupted once more cannot be resumed**
   (`registry_third_crash`, three faults). Recovery commits a RECOVERED event
   after whatever it promoted. If what it promoted is itself the record of a
   recovery, the marker it writes names a recovery of a recovery, and
   `validateRecoveryDocument` accepts only recoveries of original mutations. The
   registry then refuses every request.
   `registry_safety`, where every process has a service configured, shows that two interruptions are always survived.
2. **An empty registry survives one interruption fewer**
   (`registry_empty_bootstrap`). The audit event of a bootstrap without services
   counts as a mutation only in the revision it wrote, so the recovery of such a
   bootstrap cannot itself be recovered.
3. **Only the widest threshold is recorded** (`key_thresholds`). The windows are
   searched from 30d down, so the first match is always 30d; 7d, 24h and 1h are
   never reported. `DeadlinesAnnounced` states what does hold: some window is
   marked, and expiry is.
4. **The exported revision may never have been committed** (`neon_metrics`). The
   gauges are set before COMMIT and are not reset when COMMIT fails.
5. **A negative claim lifts the monthly cap** (`claims_cap`). The route passes the two multipliers on as any number
   (`claims/route.ts:34-35`) and `proposeClaim` multiplies them unchecked (`claims.ts:264`). A negative award is
   recognized in full and makes room under the cap; when that claim is revoked, what it made room
   for stays, and the live claims of the month are above the cap that `claims.test.ts:126`
   promises ("should cap recognized Claim Units at 40.00 CU per contributor per month").

### Other differences met while modelling

What follows was seen in the code while modelling it. The models have it as
the code does, and the properties are stated so that they hold beside it; no run of its own refutes anything here.

- *Claims*: transitions do not look at the gates of the activation document;
  proposed, disputed, approved skips verification; the challenge window is not
  enforced; `convertedAt` and `settledAt` are never recorded; a pool may be negative, and a total of
  recognized units as well: the conversion refuses only a total of exactly zero.
- *SIDL*: processes lose each other's updates; a retry that was not acknowledged
  counts twice; a challenge reopens a settled checkout, and any payment signature
  settles again; a vote whose fid is not finite is dropped on load while its tally stays.
- *Tokens*: `rotateToken` shortens the old token before issuing the new one, which
  a full store refuses, and may so give a later end to a token that had expired;
  allow lists and rate limits are stored and never passed in.
- *Bridges*: an adapter that never answers blocks its identifier; BitVM2 capacity is used up once.
- *Engines*: ctUSD activates a vault without looking at its ratio again, three
  attestations may be one oracle's, and a begun liquidation is not called off; a
  forfeit is claimable after an unboarding, and without one the exit timelock counts from height 0; an
  invoice with the same preimage replaces one that was settled; cancelling ignores
  expiry; a partial signature of a non-participant counts, a malformed one keeps a
  MuSig2 session from completing, and so do duplicate participants.
- *Swarm*: merging drops the conflicts its inputs carried; a result of another
  graph makes the aggregation throw; a lifecycle report that is lost blocks all
  later ones; a packaged entry's value is never compared with the discovered content (only its path is); a
  merge may lose a required source to another one under the same key, and says so in the
  snapshot without refusing it.
- *Discovery*: hidden context paths are discovered and refused later, by the projection.
- *Feeds*: the mark of the event runtime moves past a failed event, so "retrying"
  is never retried unless batches overlap; the mail suppression lives as long as
  one request, and two workers may file twice; a reorganisation under the same number is
  never announced, and `stop` does not drain (`shadow.py:72` says it does).
- *Revenue*: a source link suffices as evidence of an interface, nothing bounds
  the sum of the two rates, and a beneficiary may be justified by a reference that nothing resolves.
- *Promotion*: a pull request is not checked again when its target moves; older candidates
  stay open when the source advances; a branch named `backmerge/...` brings anything into `dev` and
  `staged`. `.github/BRANCH_PROTECTION_RULESETS.md` has no ruleset for `staged`, does not
  list the promotion policy among the required checks, and wants linear history on
  `main`, where the release policy speaks of merge commits (`RELEASE_POLICY.md:80`).

## 4. The proofs

Seven proof modules prove, for any set of processes, requests, services, calls or
identifiers, any bounds and any number of steps:

| Theorem | Says |
|---|---|
| `M2MRegistryProofs!TypeCorrect` | `Spec => []TypeOK` |
| `M2MRegistryProofs!MutualExclusion` | `Spec => []OneWriter` |
| `M2MRegistryProofs!MarkersComplete` | `Spec => []MarkerComplete` |
| `M2MRegistryProofs!OneSuccess` | `Spec => []OneSuccessPerGeneration` |
| `M2MRegistryProofs!AcknowledgedStays` | `Spec => []AckedDurable` |
| `M2MRegistryProofs!CommittedReads` | `Spec => []ReadsCommitted` |
| `M2MRegistryProofs!RecoveryFailsClosed` | `Spec => FailsClosed` |
| `M2MRegistryProofs!RegistryImplementsCommitLog` | `Spec => ImplementsCommitLog` |
| `M2MNeonProofs!NeonTypeOK` | `Spec => []TypeOK` |
| `M2MNeonProofs!NeonCommitsOnce` | `Spec => []OneCommitPerGeneration` |
| `M2MNeonProofs!NeonAckedDurable` | `Spec => []AckedDurable` |
| `M2MNeonProofs!NeonReadsCommitted` | `Spec => []ReadsCommitted` |
| `M2MNeonProofs!NeonImplementsCommitLog` | `Spec => ImplementsCommitLog` |
| `M2MKeyLifecycleProofs!TypeCorrect` | `Spec => []TypeOK` |
| `M2MKeyLifecycleProofs!SecretsGainNothing` | `Spec => NoSecretGains` |
| `M2MKeyLifecycleProofs!RotatedOutStaysRefused` | `Spec => []RotatedOutRefused` |
| `M2MKeyLifecycleProofs!ConsumersSurvive` | `Spec => SomeConsumerSurvives` |
| `M2MKeyLifecycleProofs!CrossingsReportedOnce` | `Spec => []OneEventPerCrossing` |
| `M2MKeyLifecycleProofs!EvaluationMissesNone` | `Spec => []DeadlinesAnnounced` |
| `VerifierBridgesProofs!BridgesTypeOK`, `BridgesEvidenceSound`, `BridgesSignaturesSound`, `BridgesLinesSound`, `BridgesClaimsHeld`, `BridgesCapacityHeld` | `Spec => []TypeOK`, and in the same way for `EvidenceSound`, `SignaturesSound`, `LinesSound`, `ClaimsHeld`, `CapacityHeld` |
| `VerifierBridgesProofs!BridgesEvictionSafe`, `BridgesIdentityHeld` | `Spec => EvictionSafe`, `Spec => IdentityHeld` |
| `VerifierBridgesProofs!BridgesImplementLedger` | `Spec => ImplementsIntentLedger` |
| `PlatformProofs!PlatformEnginesSound`, `PlatformLedgersSound`, `PlatformGatesSound`, `PlatformAgentsSound`, `PlatformFeedsSound` | `Spec => []EnginesSound` of `PlatformServices`, and in the same way for `LedgersSound`, `GatesSound`, `AgentsSound`, `FeedsSound` |
| `PlatformProofs!PlatformStepsFinal` | `Spec => PlatformFinal` |
| `PlatformProofs!PlatformTypeOK` | `Spec => []TypeOK` of `PlatformServices` |
| `EngineProofs!OpVaultsSound`, `CtUsdSound`, `ArkSound`, `HoldInvoicesSound`, `BitVmxSound`, `CovenantsSound`, `TaprootAssetsSound`, `SilentPaymentsSound`, `MuSig2Sound`, `TokensSound`, `RevenueSound`, `PromotionSound` | the engine or gate alone: `Init /\ [][Next]_vars => []Sound`, in its own names |
| `EngineProofs!OpVaultsFinal`, `CtUsdFinal`, `HoldInvoicesFinal`, `TokensFinal`, `RevenueFinal`, `PromotionFinal` | the same for `[][OvFinal]_ovVars` and so on |
| `EngineProofs!DelegationSound`, `TrustSound`, `ContextSound`, `ResultsSound`, `DiscoverySound` | what agents do, each part alone, in its own names |
| `EngineProofs!DelegationFinal`, `TrustFinal`, `ContextFinal`, `ResultsFinal`, `DiscoveryFinal` | the same for `[][SdFinal]_sdVars` and so on |
| `ServiceProofs!EventsSound`, `MailSound`, `ShadowSound`, `KnowledgeSound`, `ClaimsSound`, `SidlSound`, `MetricsSound` | the service alone, in its own names |
| `ServiceProofs!EventsFinal`, `MailFinal`, `ShadowFinal`, `KnowledgeFinal`, `ClaimsFinal`, `SidlFinal`, `MetricsFinal` | the same for `[][EdFinal]_edVars` and so on |

*Assumptions.* `LockOwners`: the two values of `lock` that are no process differ
from each other and from every process; `NobodyIsNoRequest` and
`QueueAssumption` say the same of the client of a row lock and of the end of a
line. The others give the constants their types and the inputs their fields. In
particular `MaxFaults` is any number: what is proved of the file backend holds
after the third interruption as well; what is lost there is only recovery's
willingness to accept the marker.

*File backend.* None of the invariants is inductive by itself: a commit's marker
is complete because of what its writer did several steps ago, and an answer is
from a committed document because of what was read before. The inductive
invariant is
`IInv == TypeOK /\ OneWriter /\ MarkerComplete /\ Phases /\ Trail`.
`Phases` says for each process what the place it has reached implies about the
directory: a `Prepared` candidate, `Journalled` with the journal on disk,
`Marked` with the marker in place, `Finished` once it is gone, and `Recovering`
for a recovery that has promoted and not yet committed. `OneWriter` is what makes
these facts stable: only the owner of the lock file changes the directory, so
the steps of all other processes leave the phase of the writer alone.
`Trail` is about what the documents say of each other:

- `DocsSound`: a document's audit trail is its predecessor's and itself; every
  commit in it stands where it stood in its own document, with everything before
  it; generations go up along it, and a rotation or rollback is above all before it.
- `AckedSound`: what was acknowledged is in the *registry file*, and does what
  its request asked for. That it is in the marked document as well follows, since
  that one is the file or extends it; that it is not *only* there is what the
  lock-free readers need.
- `RepliesSound`, `RequestsSound`: what a process holds at each place of its
  request, up to the answer, is committed and has all that was acknowledged when
  the request began.
- `RecoveriesSound`: a recovery under way is one of a document recovery accepts.

The proof that `Next` preserves `IInv` groups the actions by what they do to the
directory (begin a commit, take one of its steps, leave it alone) and has a step
per action below. `OneSuccess` follows from the trail: two acknowledged commits
are in one document, and of two rotations in one document the later one is of a
higher generation. For the refinement the log of `M2MCommitLog` is the audit
trail of the durable document. It moves only when a marker is renamed into
place, at most one transaction is on its way because there is one writer
(`OnePending`), and every other step leaves the mapped state as it is.

*Neon.* `NeonInv` has the same two ingredients. `DocsSound` is the trail.
`TxnSound` takes the place of the lock file: the transaction that holds the row
lock extends the row by one commit, and its client waits at one of four places.
`RequestSound` says what each await returns to, with the case that matters: a
request whose COMMIT was sent either still has its transaction at the server, or
that is over *and its result is in the row*. A lost connection separates the two
and no later step of the request can then acknowledge anything. In the refinement
a document is pending while its INSERT or its transaction is at the server, and
never both (`PendingOnce`).

*Lifecycle.* `SecretsGainNothing` and `ConsumersSurvive` are action properties
that follow from `TypeOK` and the arithmetic of deadlines.
`RotatedOutStaysRefused` needs that the bound holds at *every* later instant
and not only now, which `SecretsGainNothing` then carries along.
`CrossingsReportedOnce` needs that every reported crossing is still in the
notification state; `EvaluationMissesNone` that a search which has something to
find finds it, since a set of natural numbers has a least element.

*Bridges.* A queue is a chain of promises, so its proof is about links and not
about numbers: `Lined` says that in each line nobody waits for the last one, no
two wait for the same one, and `NoCircle`: every nonempty part of a line has a
call whose predecessor is not in it. The first call of a line is then unique
(the calls that are not waiting behind it would otherwise contain a circle), and
a call that was let in is alone inside. `ZkSafe`, `B2Safe` and `B3Safe` put the
parts together:

- `ZkSafe`: shapes, lines, `ZkGenerations` (a generation counts the commits of an
  intent) and `ZkOperationsCurrent` (a call that comes back with a current
  operation finds the intent as it left it), from which the refinement of
  `IntentLedger` follows step by step.
- `B2Safe`: `B2Counted`, as many signatures as signers, and `B2MaySign`, a
  signature is with its verifier only while its signer may still sign; together
  they give "complete exactly at the threshold".
- `B3Safe`: `B3Remembered`, what the tables still know of the request an
  identifier was last given to, and `B3MayBind`, that a request with the backend
  is that one or comes after both retentions.

`CapacityHeld` counts, with the theorems on cardinalities. What a recursive
function computes (`SizeUpTo`, the size of an input list) is proved by the least
number for which it would fail.

*Engines.* What each engine promises is a fact about every record, and the
inductive invariant has two parts: the shape of the records (`OvRecord`,
`HiRecord`, ...) and a predicate of one record and the clock (`OvFaithful`,
`HiFaithful`, ...) that says what its state implies about its other fields: an invoice
that is held was held before its expiry, a challenged intent has a round, a
session past the nonce exchange has one well-formed nonce of each participant. `OvInv`,
`HiInv` and so on say it of every record. The proof of a step shows that it
replaces one record by a faithful one. MuSig2 also counts: a session
completes when it has as many partial signatures as participants, which takes
the theorems on cardinalities. Their assumptions (`EngineAssumption`,
`OpVaultAssumption`, `TaprootAssumption`, `CovenantAssumption`) give the constants their types;
capacities, lifetimes and the sets of identifiers are arbitrary.

ctUSD needs two facts of its own. That a filtered list has a price at its middle
(`MedianExists`) is the least price that more than half do not exceed; the list is a
function from the positions that are left to prices, as the order of the list is of no
importance once it is sorted. And the fee of a vault grows with the clock, since
it is that of the moment at which the vault is looked at.

*Gates.* What a gate promises is about the thing it lets through, and the
invariants say what is known of it.
- `TkInv`: a cached JWT was issued at some time `t` for the Gateway and is what
  `Jwt` makes of `t`, and a call that waits for its signature will be back before
  what it signs could have expired (`CallSound`). `GatewayAccepts` is the
  arithmetic: until it expires, every clock within the skew accepts it.
- `BpInv`: of every commit it says what the rules in force guarantee: that its recorded time is the time it
  was made, where others cannot put theirs (`Dated`), and what it brought (`Justified`). A branch, a run or a pull
  request names commits that came onto the branch it is for, as far as the rules see to that (`Came`),
  and an accepted one has a head whose dwell time is over (`PrSound`). Commits never change and the clock
  does not go back, so what was checked when a run started is still true when its merge comes.
- `RoInv`: the fields of the document keep their types through every revision, and the
  last verdict is what the checks say of the document as it stands, at the time it was given.
  `AcceptedJustified` then derives what the reader of a payout relies on from the
  checks alone. `WindowsApart` is its only hard part: adjacent entries of the
  sorted schedule do not overlap, hence no two do, by the least later entry for
  which that would fail.

`TokensAssumption` takes "external" not to be a service and the internal scope to be
one of the Gateway's; `PromotionAssumption` leaves room for the three first commits.

*Ledgers.* The claims ledger is about sums over sets of entries, and the library's
induction theorem for finite sets cannot be used. `EveryPartOf` takes its place: a set of parts that has
the empty one and, with each part, the one with one more element, has the whole. With it come the
sum lemmas (`SumAdd`, `SumRemove`, `SumPart`, ...) for `SumOver`, which both the
ledger and the metrics use.
- `ClInv`: the units of the live claims of a contributor and month, together with the revoked ones below
  zero, are within the cap (`ClCapped`; a revocation takes only what is not below zero out of that sum), no two live claims are of one artifact, the trail of an entry replays to its
  status (`ClTrailed`), and after the conversion what was handed out is the pool (`ClDivided`).
- `SidlInv`: the file, and what each process has loaded, explain themselves
  (`GoodSidl`), whoever wrote last. `SidlAlone` says of a single process that what was
  confirmed is in the file, or in the copy it is about to rename; it is what a crash cannot take away. The
  votes are a function from a vote to how often it was recorded, since nothing depends on their order.
- `KbInv`: every graph, in a process or in the file, is `Linked`; and without an overlap the
  running script holds what the file holds.

*Feeds.* Each promise has a part that holds always and one that holds while no two workers
overlapped or nothing failed; the second is in the invariant under that hypothesis.
`EdAlone`: what is in a batch has not been tried, and the mark is where the
batches so far went. `SmInv` counts, for each mail, the answers sent and under way
against the issues filed; `SmAlone` is that count with one worker. `ShInv` needs no such hypothesis: two
polls never ask for the transactions of one number, because a number is in `shSeen` before the first
of them asks (`EventsGood`). `MxInv`: for every route the failures and the
payments counted are those of its requests (`RoutesAgree`), a histogram counts what the requests
do (`HistogramsAgree`), and the gauges are those of one document (`GaugesShown`), whatever was exported in between.

*Agents.*
- `SdInv`: everything that was ever sent is one history (`OneHistory`), so a report that is late
  or repeated has nothing new to say. Compatibility of versions is proved for all triples of numbers.
- `DtInv`: a snapshot has an entry for every key it was ever given, one that it was given, and
  lists what it lacks (`SnapshotTold`). That a required source was once given follows from its packaging, and is
  kept by merges, which only add to what was given.
- `ScInv`: what a snapshot holds is what its inputs leave when each is judged at one of the moments at which
  it was merged (`SnapshotTrue`): the order and the grouping of merges do not come into it.
- `SwInv` is small; the work is in what the report computes. The states of the tasks are defined by
  induction on the depth that a valid graph has (`Depths`), and "all it rests on" is the least
  set closed under dependence (`Below`); that both agree is proved by the least depth at which they would not.
- `DsInv`: a call that is under way has gathered, phase by phase, what the manifest and the registry it
  has read declare (`GoodCall`), each file as it stood in some disk since the call began
  (`dsPast`); when there was only one, that is the disk described by `Discoverable`.

*The whole.* A step of the platform is a step of the service that runs, and leaves the
choice alone (`ServiceStays`, `OwnSteps`), so `PlatformInv` is the invariant of the service that
runs, and the properties of the groups and `PlatformFinal` follow service by service.
The type invariants ask for more than the properties need (a clock within its bound, a member of
the given sets), so `PlatformTypes` says the rest, and is inductive together with `PlatformInv`.

The assumptions of the services (`MailAssumption`, `KnowledgeAssumption`,
`SwarmDelegationAssumption`, `DiscoveryTrustAssumption`, `CtUsdAssumption`, `MetricsAssumption`,
`HoldInvoicesAssumption`, ...) type the constants: finitely many workers, natural bounds, versions of three
numbers, packages that are finite, manifests and registries whose lists are lists.

*Only model-checked*: all liveness (`RecoveryCompletes`, `RequestsReturn`, `CallsReturn`), which is
beyond the prover's reach. `AbandonedMarkerRecoverable` holds for
two faults and not in general (the first disagreement above), so there is nothing to prove.

## 5. What is not modelled

- *Power loss.* A crash here is the death of a process; the file system keeps
  what it was told. The `fsync` calls, and the one place where two unlinks share
  one (`m2mKeyStore.ts:1531`), concern more than that.
- *File modes, symbolic links, malformed files* of the registry. A file is there or not, and a read of
  it may fail (`FailHolding`). Documents that were not written by the code are not considered.
- *A wall clock that goes back*, and clocks of several machines.
- *Key material and cryptography*: hashing, constant-time comparison, randomness,
  curve arithmetic. A minted secret is new, a digest stands for what it is taken
  of, and what fails a check is one value of a small set.
- *Reasons and texts*: request ids, actors, timestamps in audit events,
  conflict metadata, HTTP statuses, formats of numbers and identifiers.
- *Pool exhaustion* of the Neon client, and its statement timeouts.
- *Adapters that never answer.* The bridges have no time limit, so there is
  nothing to check but that the queue is blocked.
- *The settings of the repository on GitHub.* `bpRules` covers what its documents leave open about the policy
  check and the refs. Taken from `.github/BRANCH_PROTECTION_RULESETS.md` is that nobody forces a push to `main` or `dev`;
  reviews and the other required checks are left out, and so is the policy's check on pull requests into `dev`
  where it is not required. A rebase counts as one squashed commit.
- *Rounding of claims.* Multipliers are whole, amounts are counted in a unit in which they are whole too, and
  sums are exact; what floating point does to fractions is not modelled.
- *Forks, manual dispatch and the one bootstrap exception* of branch promotion;
  request limits and allow lists of API tokens, which no caller passes in.
- *Stateless parts*: admin routes (one call of the key store each), treasury and
  operators (tables and arithmetic), `src/governance` (formulas for display, and a
  copy of the claims ledger for another package that differs from the one modelled in how an entry is
  looked up), `settlement.ts`, `solver.ts`, `frost.ts`, `citrea.ts`, `nwc.ts`,
  `dns-payments.ts`, `bip322.ts` (checks of one request), `kbSentinel.ts`, `submoduleSync.ts`,
  `installer.ts` (reports), the verification scripts, the Nexus adapters, the
  ElizaOS plugin, the pages and the deployment files. None keeps state that a
  second call depends on. The warning and
  breach thresholds of `sla-enforcer.ts` are not above the critical one, so a job card
  before its deadline is always a warning and one at or after it always critical.
- *What the knowledge base scripts fetch and derive*: they read the store and add to it,
  and `KnowledgeBase` takes every sequence of its operations.

## 6. Plan

Done: the service-key registry with both backends and the key lifecycle; the
bridges with their contract and the intent ledger; engines, ledgers, tokens,
swarm, discovery, daemons, revenue and promotion; the theorems of section 4.

Every safety property that a passing run checks is proved for all values of the constants, but for
`AbandonedMarkerRecoverable`, which is not true in general. What could come next:

1. Liveness of the daemons, once the code retries what failed.
2. The parts that section 5 leaves out for reasons of size: power loss in the file backend, and the
   connection pool of the Neon backend.
3. The admin routes as a client of the registry, with the retries that an operator's tooling would make.
