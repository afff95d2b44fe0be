# Verification of the paid short-drama production line

TLA+ models, TLC runs and TLAPS proofs about two parts of this repository. One
spends money: the durable submission of paid video tasks, the batch that drives
it and classifies what went wrong, the runs of the image stage, the settlement of lost
responses, and the reservations that keep an episode under its credit cap. The other changes what a
host runs and knows while production goes on: the upgrade of the engine, the
transfer of learned facts from the devices to the collective service, and the
release and revocation of knowledge bundles back to them.
`PROJECT.json` names, for every definition, the source lines it stands for.

## 1. The system

The line turns source text into published episodes:

    source -> Writer Agent v2 -> shot planner -> keyframe compiler -> paid images
           -> video grouping -> prompt compilers (SD2 / H3) -> paid videos
           -> poll, harvest, media admission -> FFmpeg assembly -> QA and locks
           -> YouTube -> Douyin

`configs/PORTABLE_CORE_MANIFEST.json` lists the authoritative tools. There is no
database and no server: the parts are short-lived processes that interact through
JSON files (transactions, ledgers, reports, queues), `flock`s on some of them, and
the providers' HTTP APIs. A process may die, or be killed by the pipeline's
3600 s timeout, between any two writes.

| component | state | operations | interacts through | hard behaviour |
|---|---|---|---|---|
| paid video submission (`tools/submit_giggle_video_manifest_v2.py`, `video_live_binding.py`, `hopsapi_video_client.py`) | one transaction file per task_key and fingerprint, receipts, per-file `.lock` | `submit_one` on the Giggle and HopsAPI transports | the provider; park directories and status reports of the harvester | crash between intent, POST and bind; lost answers; two processes; recompiled fingerprints of one unit |
| paid video batch (`main`, `giggle_credit_statements.py`) | run-local results and failures, the submit report | dispatch over a thread pool, credit fuse, statement reconciliation, `classify_failures`, offline reconciliation | transaction files, credit statement | completion order, a statement that counts rows, one verdict for many failures, killed runs |
| HopsAPI usage reconciliation (`tools/hopsapi_usage.py`) | decisions in transaction files, evidence log | `reconcile_kind`, `adopt` | transaction files of every episode, billing API | reads long before writes, several reconcilers, adoption of the wrong take |
| paid stage lock and pipeline step (`paid_stage.sh`, `nalu_pipeline.py`) | episode lock, stage state | `paid_step`, retries, kill on timeout | everything above | restarts, timeouts |
| credit ledger and reservations (`nalu_budget_ledger.py`) | append-only ledger | reserve, release, exposure scans, report | transactions, reports | concurrent reservations at the cap, dead owners |
| paid image submission and harvest (`submit_giggle_image_manifest.py`, `hopsapi_image_client.py`, `harvest_giggle_image_batch.py`) | image transactions, the cached health verdict, the submit report | submit, canary rotation, channel health, report, harvest, settle | provider, transaction files, the operator's rewritten prompts | a rejected request looks like an outage; kills; reports and settlements that come late |
| episode parallel batch supervisor | episode state, worker slots | launch, watch, restart, stage gates | child processes | restarts, stale state |
| collective transfer (`tools/collective_learning`: `device_store.py`, `sync_client.py`, `s3_transport.py`, the collector and the service's ingestion) | device outbox, batch and ack objects in the bucket, the service's store | record, claim, put, ingest, ack, settle | the bucket, the service | two uploaders or collectors, deaths between put, ingest, ack and move, regrouped batches, refused revisions |
| knowledge release (`service.py`, `bundles.py`, `object_store.py`, `cli.py`) | channel, history and revocation tables, signed pointer and list, device cache | release, revoke, publish, cycle, pull, select | the service's database, the bucket | two writers of one object, a cycle that read before a release, deaths, the walk over the history |
| StoryClaw upgrade (`storyclaw_install.py`, `storyclaw_upgrade_transaction.py`, `storyclaw_release_discovery.py`, the production barrier) | selectors, release directories, installation record, receipts, discovery state, journal | upgrade, rollback, recovery, discovery, runs | files and one `flock` | raise or death at any of nine places, a discovery that takes no barrier, a death during a recovery |
| journal, dispatchers, liveness probe | task journal, work queue | claim, heartbeat, publish atomically | files | stale leases |
| retry caps and failure policies | attempt counts | gate a reroll | ledgers, reports | off by one at the cap |
| release order, publication | release records | watch the order, preflight, cleanup | platforms | cleanup before the publication is confirmed |
| asset library, owner decisions, reviews | registries | register, decide, consume | files | double consumption |
| provider client, prompt compilers, media tools, QA gates, dashboards | none of their own | text, HTTP and media transformations | - | none a model checker reaches |

What makes each of the modelled parts correct:

* submission: a transaction is charged at most once; a returned row is backed by the
  transaction and a receipt; a bound transaction is never rewritten; a live take of a
  unit is polled, never ordered again under a recompiled fingerprint; every call ends;
* batch: every task has exactly one row in the report; a failed POST is given back for
  a retry only if it was not charged; a run that is not killed reports;
* settlement: a billed take is bound to one transaction, and to its own; a stale
  decision never reopens or rewrites a transaction that has moved on;
* images: no task is ordered again while an earlier order may be charged, also when a
  failed one is retired; the report is true of every task its run tried; rejections alone
  never put a task off, and in the end every image arrives;
* reservations: two racing steps never admit the same headroom, a charge nobody knows
  yet stays reserved, and the episode never owes more than its cap, except for steps whose
  orchestrator ended out of sight of its reservation;
* upgrade: engine, environment and records are those of one release whenever nobody
  holds the barrier and no journal is left; nothing is switched under a run; an
  interrupted upgrade is rolled back; the trusted sequence covers what is installed;
* transfer: a row is settled as delivered only when the service has the item; a fact is
  delivered in the end; a revision is not refused for ever because of a race;
* knowledge release: the channel never names a revoked version, the bucket comes to agree
  with the channel and keeps every revocation, and both reach the device in the end,
  although overlapping syncs may for a while put back what they read earlier.

## 2. Modules

| module | what it is |
|---|---|
| `VideoSubmit` | `submit_one` and the transaction store, with the provider, crashes, polling and parks around it |
| `PaidOnce` | the abstract promise of the store: an item is opened, ordered, and bought once |
| `VideoSubmitProofs` | the inductive invariant of `VideoSubmit`, its theorems, the refinement of `PaidOnce`; the part of the invariant that settlement keeps (`Base`) |
| `VideoBatch` | runs of `main()` over the threads of `VideoSubmit`, the credit statement and the classifier |
| `VideoBatchProofs` | the inductive invariant and the theorems of `VideoBatch` |
| `UsageReconcile` | `reconcile_kind` and `adopt` beside the submitters of `VideoSubmit` |
| `UsageReconcileProofs` | the same for `UsageReconcile`, on top of `VideoSubmitProofs`; the store still implements `PaidOnce` |
| `BudgetReservation` | paid steps, their submitters, and the credit ledger's check, reserve and release |
| `BudgetReservationProofs` | the same for `BudgetReservation` |
| `ImageSubmit` | runs of the image stage over one manifest, with outages, rejections, harvesters and kills |
| `ImageSubmitProofs` | the same for `ImageSubmit` |
| `EngineUpgrade` | upgrade, rollback, recovery and discovery beside production runs |
| `EngineUpgradeProofs` | the same for `EngineUpgrade`, and the refinement of `AtomicUpgrade` |
| `AtomicUpgrade` | the abstract promise of an upgrade: engine and environment change in one step, forward |
| `CollectiveSync` | the outbox of a device, the bucket, the collectors and the service's ingestion |
| `CollectiveSyncProofs` | the same for `CollectiveSync`, and the refinement of `ReliableTransfer` |
| `ReliableTransfer` | the abstract promise of the outbox |
| `KnowledgeRelease` | the service's channel and revocations, the two writers of the bucket, the device's cache |
| `KnowledgeReleaseProofs` | the same for `KnowledgeRelease` |
| `MC...` | instances for TLC |

A definition named "Mutant of X" changes X the way a bug would; no specification
uses it. It is there to show that a property notices that bug.

### VideoSubmit

`Fingerprints` are the keys of transaction files and `UnitOf` their task_key.
`txn[f]` holds the recorded state, the number of the attempt (`attempt_id` is a new
UUID per intent), the bound task id and whether a provider response was recorded.
A task id is a pair of fingerprint and attempt, because each request creates at
most one task. `receipts` are the receipt files: their name is the task_key alone, so there is
one per unit, every fingerprint overwrites it, and `prior_bound` writes it again only when
there is none. `closed` the task ids
`video_live_binding.py` no longer counts as owed (reported as terminally failed, or
bound before the unit's last park), `remote` the provider's truth about each attempt.
`flock`, `pc`, `at` and `outcome` are the threads' own state: only they are lost in
a crash.

One call of `submit_one` is the sequence below; a crash may come between any two
steps, and a request already sent goes on at the provider.

| place | action | code |
|---|---|---|
| waiting | `EnterBound`, `EnterBlocked`, `EnterMayPost` | flock, `prior_bound` |
| prior | `ReturnLiveElsewhere`, `NoLiveElsewhere` | `live_bound_elsewhere` |
| gates | `RefuseBeforeIntent`, `PassGates` | every pre-intent gate; `require_no_silent_resubmission` is a guard of its own |
| ready | `RecordIntent` | `atomic_json(transaction, intent)` |
| intent | `NotSent`, `Post` | the request leaves the host or does not |
| posting | `RecordBound`, `RecordNotCharged`, `RecordNoTaskId`, `RecordLost` | the four ways the code reads an answer |
| bound | `WriteReceipt` | the secondary receipt |

`RecordLost` may happen whatever the provider did, and `RecordNoTaskId` also when
the provider did create the task: the code only sees the text of an answer.
`RecordNotCharged` is the one place that trusts the provider: the HopsAPI client
takes a 4xx (other than 408, 425, 429) or an application code other than 200 without
a task id as a proof that nothing was created, and so does the model.

### VideoBatch

The threads are the workers of `VideoSubmit` and die with the run. `queue` and
`inflight` are the ready iterator and the futures, `own` the tasks bound by this run,
`recovered` those returned from the store, `failure` how each failed task was
reported. `Matched` is `reconcile_rows`: a run with task ids of its own counts their
rows, a run without counts the unclaimed rows of its window (`pay \ earlier`).
The text match of `_provider_declined` is a nondeterministic choice wherever the text
of an error allows both (`MayReadAsDeclined`); the order of completions, the moment a
Pay row becomes visible and the moment the process is killed are free. Only Giggle
tasks are modelled here (assumption `GiggleBatch`); HopsAPI failures are classified
per attempt and settled by `UsageReconcile`.

### UsageReconcile

A `job` is one call of `reconcile_kind`: list the lost transactions, read the billed
rows, drop the rows bound anywhere, decide, write one file after the other. Files are
written minutes after they were read; `_write_transaction` re-reads under the flock
and compares state and `attempt_id`. Clock time is not modelled. What is kept of the
20-minute grace period is what it is for: an attempt is listed only after it has come
to an end at the provider, and was already lost when any job still running began (a
job takes far less than 20 minutes). `before` records which tasks had been billed
when an intent was recorded, which is what the comparison of timestamps decides.

The billing API knows keys and one account. `Elsewhere` are orders of other hosts of the
account, whose files no process here reads; `KeyOf` is the key each POST was made with.
`InScope` is `_key_scope`: the rows of the current key when every entry was posted with it,
the rows of the account otherwise. The sibling row that can prove a key is left out, so the
model widens the query at least as often as the code. `PastLookback` are the lost POSTs
that `decide` no longer counts because they are more than a day older; `LongLost` says whether
a response may stay lost that long.

### BudgetReservation

A step is one orchestrator (`paid_step`): `Check` is the ledger process it runs with
`--check --reserve`, then comes the submitter, its child, then `BudgetRelease` or
`KeepReservation`. The ledger's check reads, in this order and in steps of their own,
the transaction states, the reservation rows, the spend evidence and the liveness of
the owners; the flock of the ledger is held only while a row is written and during the
second scan of `reserve_credits`, which does not look at unresolved transactions.
`since[r]` is the set of tasks whose intent was recorded after reservation `r`, which is
what the comparison of timestamps decides. Each task costs one credit, its planning
price; statements, the Giggle legs, and rows written before owners were recorded are
left out. `Reconcile` and `TerminalFailure` stand for everything that settles a
transaction later. The model reads the spend and writes the row of `reserve_credits` in
one step: a task bound in between is still under the reservation the scan has read.

Orchestrator and submitter die separately: `KillOwner` leaves the submitter running, because
`subprocess.run` ties it to nothing, and an owner may end between the reading of the evidence
and that of the pids. `loose` is a history variable: the steps whose owner ended in one of these
two ways, over a running submitter or over a POST that a scan in progress has missed. An
orchestrator is killed only once it has passed its own check; a death during the check leaves at most
a reservation with nothing submitted under it.

### ImageSubmit

A run (`run`, `pc`, `row`) is a call of `main` by the keyframe stage; `txn` holds the file of
each task, with the settlement harvesters add to it. The phases of a run are those of the code:

| `run.at` | actions | code |
|---|---|---|
| gate, gatechannel | `PassOutageGate`, `OutageInStore`, `OutageGate` | `recent_provider_outage`, `channel_health` in `main` |
| probe | `NextProbe`, `Canary...`, `ProbesExhausted` | the loop of `submit_all`: one task, one `canary_check` |
| channel | `ChannelWorks`, `ChannelBroken` | `channel_health`, asked once per run |
| pool | `PoolDone` | the thread pool over what is left |
| report | `WriteReport` | `hopsapi_credit_summary`, the report; the stage harvests it or stops |
| harvest | `HarvestRead`, `HarvestSettle`, `HarvestDone` | `poll_once` until every row is terminal |

`Thread` is `submit_one`, in the probing loop and in the pool. `Retire` moves a binding that
settled as failed out of the way, which is what reopens a task; `SettleAnyAttempt`, its guard
left out, is a double purchase. The provider answers a request it will not serve with a task
that settles as an uncharged 424, whether its channel is down (`up`) or its content filter
rejects the prompt (`Rejects`), and the code can only tell them apart by other tasks. The
neutral health probe is a task of its own, asked and answered in one step; `proof` and
`broken` are the record of a success and the cached verdict, and their ages are choices
(`PassOutageGate`, `Elapse`). Two harvesters, the stage's and one run by hand, read a status
and write it later (`jobs`). `Reconcile` is `UsageReconcile` in one step, `Rewrite` the
operator's new prompt for a rejected task, with the old fingerprint declared superseded.
Every run submits the whole manifest: the narrowed one of a partial redo, and a manifest of
one task, for which the code probes nothing, are left out, as are receipts and the
`superseded_by` marks on files of earlier fingerprints, which no tool of this path
reads.

### EngineUpgrade

`engine` and `venv` are the two symlinks, `dirs` and `venvs` what is on disk, `current`,
`receipts`, `trusted` and `journal` the four files. The process that holds the barrier
exclusively (an upgrade, or a run that found a journal) is `pc`, `mode`, `job` and
`left`; `run` and `code` are the production runs and the engine each was loaded from.

An upgrade does, in the order of `DoRank`, a step for every write: the release directory,
the environment, the journal (`WritePrepared`), the two selectors, the receipt, the
record of the installation, the discovery state, and the removal of the journal
(`Commit`). `Raise` is an exception at any of them: the handler undoes what its booleans
say was done (`DoneBefore`), in the order of `RollbackRank`. `Die` is the death of the
holder between any two steps, of a rollback or a recovery too; the next upgrade
(`BeginUpgrade`) or run (`BeginRecovery`) undoes everything the journal names, in the order
of `RecoverRank`. Undoing is idempotent in the code, so a step does not depend on whether
its effect ever took place. A run takes the shared lock only without a journal and with the
engine it was loaded from (`MayRun`). The discovery (`BeginDiscovery`, `RecordTrusted`) takes
no barrier: it overwrites `trusted` from what it read before.

Signatures, archives, preflight and safe stops are one refusal (`RefuseUpgrade`). A write
raises before it takes effect: an fsync that fails after its `os.replace` is a disk error, and
disk errors are left out everywhere. `MayRun` compares the engine a run was loaded from as the
runtime does when `NALU_ENGINE_ROOT` is set, which every installed command does
(`bootstrap_storyclaw.py`).

### CollectiveSync

`queue` is the order of the outbox, `outbox` the state of a row, `waiting` the rows in
backoff; `inbox`, `acked` and `stored` are the objects of the bucket. A batch is the set of its
items, because its name is a digest of them. An uploader (`up`) goes through `Claim`,
`ReadAck`, `PutBatch`, then `Quarantine`, `MarkDelivered` and `MarkRetry`, once for the facts
of its claim and once for its revisions; nothing is marked by a claim, so several
uploaders may hold the same rows. A collector (`col`) lists, fetches, ingests, puts the
ack and moves the object. `Ingest` takes each item of a batch or refuses it
(`EVENT_NOT_FOUND`). `RequestLost`, `Defer`, `KillUpload` and `KillCollect` are the faults,
and a lost put may have taken effect. `Move` is copy, head and delete: of two collectors that
move one object, the second fails or, if its copy came first, goes on. Facts are well-formed:
what the service refuses for its content and the quarantine of malformed objects
are left out, and `TransfersReliably` and `FactsDelivered` speak of no others. A batch cut from other rows than the last one is
another object, so an item may be ingested more than once and have several acks.

### KnowledgeRelease

`channel`, `history` and `revoked` are the service's tables, `pointer` and `listed` the two signed
objects of the bucket, `cache` and `copy` the device. `Release` and `Revoke` are transactions;
`Revoke` moves the channel to `Fallback`, the walk of `revoke_bundle` over the history.
The cycle of a collector agent reads the channel table once (`BeginCycle`), then the pointer
(`PointerRead`), publishes each entry that differs by a read and a write of the pointer
(`PublishReads`, `PublishWrites`), removes the entries without a row (`RemovalReads`,
`RemovalWrites`) and copies the revocation table (`RevocationsRead`, `RevocationsWritten`).
Cycles exclude each other by a flock; `publish-channel` (`cli`) releases and then rewrites the
same object without one.

`Syncs` are the processes that run `device-sync` on the device, its agent and a command run by
hand; nothing keeps them apart. A sync (`pull`) reads the pointer (`PullPointer`), admits each
bundle it names by a read and a write of the cache's index around the download
(`AdmitReads`, `AdmitWrites`) or passes it over (`FetchFails`), and then puts the list it reads in
the place of the device's copy, if there is a list (`ListReads`, `ListWrites`). A new run uses
the newest cached version that is not on the copy (`Selected`). One channel and one device are
enough: channels are separate rows and objects, and devices only read.

## 3. Runs

| run | instance | checks |
|---|---|---|
| `submit` | 2 fingerprints of one unit, one per transport, 2 threads, 2 attempts each | `TypeOK`, `PaidAtMostOnce`, `ReturnedRowIsBacked`, `BuysOnce` (refinement), `BoundIsFinal`, `EveryCallReturns` |
| `batch` | 2 tasks, 2 threads, 1 attempt each, any number of runs | `BatchTypeOK`, `OneRowPerTask`, `UnboundRunHidesNoCharge`, `BoundIsFinal`, `EveryRunReports` |
| `batch_charge` | the same | `ChargeNeverHidden` is violated |
| `settle` | 2 tasks in 2 episodes, one of another host with another key, a submitter, 2 reconcilers, the operator | `ReconcileTypeOK`, `TaskBoundOnce`, `WrongPairingNeedsCrash`, `BuysOnce` |
| `budget` | 3 steps, one repeating a task of another, 3 tasks, cap 2 | `BudgetTypeOK`, `CapNeverExceeded`, `InFlightIsReserved` |
| `budget_orphan` | the same | `InFlightNeverSettled` is violated |
| `images` | 3 tasks, 2 of them rejected until rewritten, 2 failed tasks ask for the channel, 3 end the probing, 1 outage, fault or kill, a harvester by hand | `ImageTypeOK`, `ImageBoughtOnce`, `TriedRowsAreTrue`, `DeferredOnlyAfterTrouble`, `EveryImageArrives` |
| `images_deferred` | the same | `DeferredIsUncharged` is violated |
| `upgrade` | 3 releases, one with a new environment and package, 2 runs, 2 deaths of the holder | `UpgradeTypeOK`, `NeverHalfSwitched`, `RunsKeepTheirEngine`, `TrustCoversInstalled`, `UpgradesAtomically` (refinement), `InterruptionRecovered` |
| `upgrade_again` | the same, 1 run, no death | `AvailableIsAuthorized` is violated |
| `sync` | 2 facts, a revision of one, 1 uploader, 2 collectors, batches of 2, 1 fault | `SyncTypeOK`, `DeliveredIsPersisted`, `RefusedOnlyAfterFault`, `TransfersReliably` (refinement), `FactsDelivered` |
| `release` | 2 bundles of a version, 2 agents, 2 overlapping syncs, 4 acts of the publisher and faults | `ReleaseTypeOK`, `ChannelNotRevoked`, `RevocationsOnlyGrow`, `BucketFollows`, `RevokedLeavesDevice`, `DeviceFollows` |

Beside these runs, configurations that settle one question each:

| configuration | instance | outcome |
|---|---|---|
| `MCVideoSubmitSerial` | 2 units of 2 fingerprints, one unit under the request binding policy, one fingerprint declares the other superseded, 1 thread, 3 attempts | `LiveTakeNeverReposted` holds (with and without the policy) |
| `MCVideoSubmitReceipt` | as `submit`, 1 thread | `RecoveryRestoresReceipt` is violated |
| `MCUsageForeign` | as `settle`, 1 attempt each, no operator | `ForeignRowsBlock` is violated |
| `MCUsageLookback` | the 2 tasks of `settle`, 1 attempt each, no operator, `LongLost` | `TaskBoundOnce` is violated |
| `MCUsageAdopt` | the 2 tasks, 1 attempt each, the operator | `TaskBoundOnce` is violated |
| `MCKnowledgeSyncs` | 1 bundle of 2 versions, 1 agent, 2 syncs, 2 history rows, 2 revocations, no fault | `RevokedLeavesDevice`, `DeviceFollows` hold |
| `MCKnowledgeOverlap` | the same | `RevokedStaysUnselected` is violated |
| `MCKnowledgeRollback` | the same, 1 sync, no revocation | `PointingBackRollsBack` is violated |
| `MCKnowledgeFallback` | 1 bundle of 4 versions, 5 history rows, 3 revocations, no agent or sync | `FallsBackToValid` is violated |

Bounds. `MaxAttempts` limits the POSTs per file (guard of `PassGates`). Two attempts
are what a double purchase needs, three let a take be superseded and retried. Two
threads are enough to race on one file and on two files of one unit, since a step
depends on one file, its flock and the files of its unit. The batch needs two tasks to
have one bound and one lost, and one attempt suffices because its properties are about
what one run reports and gives back. Two reconcilers, two episodes and two tasks are
the least in which one job can act on what another has changed; one order of another host is
what the account scope adds to them. Three steps let one be
settled by the second and counted by the third; cap 2 of 3 tasks makes the last credit the
contested one. Two rejected tasks of three are a whole run of 424s that is no outage, with a
third task to be held up by it; `Needed` is the code's 2, and `ProbeCap` 3 instead of 5 is
reached when a real outage takes the third. One trouble in `images` is an outage, a lost or
refused answer, a failed task, a misread probe or a kill; what rejections alone do needs none,
and neither does the late settlement. Two deaths let the recovery of an interrupted upgrade die as well; three
releases let one be skipped. Two collectors race on one object; a fault is what turns a
revision aside. `MaxHistory` and `MaxRevoked` bound the publisher: two releases and a revocation let a cycle
carry an entry that has moved or gone since it read the table, two revocations let one sync
write back a list that lacks the second, and two bundles share the pointer, the list and the
index of the cache, which is what two writers of one object need to lose an update. That a
bundle has several versions matters to the walk over the history and to what a device
selects: `MCKnowledgeSyncs` and `MCKnowledgeFallback` have them.

Four runs have a state constraint, each an operator of the MC module:
`Small` (`settle`) explores retries and the operator's hand on one task and two
tasks without them (`OneTaskRetried`), and the order of another host once, beside one
reconciler at work and tasks that are ordered once (`ForeignOnce`);
`OneLoose` (`budget`) lets one step become loose, the one with two tasks, and only the repeated
task fail after it was bound; `TwoRows` (`sync`) records a fact and its revision, or two facts,
never all three; `FewActs` (`release`) allows four acts and faults in all, and the second agent
only beside the first: they are alike and exclude each other, so it matters only when they
overlap. `OneUnitAtATime` (`MCVideoSubmitSerial`) keeps the two units apart, which share no file.
`FactsDelivered` is checked under `TwoRows`: the constraint cuts only the
recording of a third item, which no fairness asks for, so it cuts no fair behaviour of the
rows that are there. Symmetry is used only over reconcilers (`settle`), where no liveness
property is checked, and in its variants.

Deadlock checking is off where everything may come to an end: the steps of `budget`, a
settled outbox with an empty inbox in `sync`, a manifest
with every image there in `images`, and a publisher at its bounds with nothing
else running in `MCKnowledgeFallback`. The other instances of `KnowledgeRelease` have it off as
well, although their cycles never end.

Fairness. In `VideoSubmit`, `WF(Step(w))` (a live thread keeps running and its POST
returns at the latest by the client's timeout) and `SF(Enter(w))` (the kernel queues
flock waiters, so a caller is not passed over for ever). A crash is never required and
never excluded: a crashed thread is back at "idle", which is why `EveryCallReturns`
asks only for the end of the call. In `VideoBatch` the main thread and its pool have
weak fairness; nothing is assumed of the provider or of the statement, and the code
needs nothing because it reads the statement at most seven times. In `ImageSubmit` threads, runs, the stage's
harvest and the provider go on (`WF`), an outage ends, a cached verdict grows old, the stage is
run again while an image is missing, as its report and the comments ask, and the operator
rewrites a prompt that keeps being rejected (`SF(Rewrite(t))`, since a run may always be on);
nothing is asked of the reconciliation, so a charge may stay unknown. In `EngineUpgrade` the
holder of the barrier works on (`WF`), the heartbeat keeps starting processes that end or
are refused (`WF`), and one of them that has found a journal does not lose the race for the
exclusive lock for ever (`SF(BeginRecovery)`; the lock is tried without waiting, but the
heartbeat comes again); upgrades, discoveries and releases owe nothing. In `CollectiveSync`
uploader and collector are agents that run every few minutes and a backoff is capped (`WF`);
in `KnowledgeRelease` the cycle and a command that was started go on, some sync begins again
and again, and each that has begun goes on (`WF`); a sync run by hand owes nothing.
Deaths and faults are never required; `MaxDeaths` and `MaxFaults` make them finite, without
which no delivery could be promised.

## 4. Where code and documents disagree

The violated runs:

* `batch_charge`: in a run that bound something, only the rows of the bound ids count;
  the charged row of a lost answer is filed as foreign, and the charged attempt
  becomes retryable. A run that bound nothing has no such gap
  (`UnboundRunHidesNoCharge`).
* `budget_orphan`: an orchestrator is killed alone, a later check finds nothing in flight and
  settles its reservation, and its submitter posts on; `nalu_budget_ledger.py:1022` says that
  everything the step submitted is then bound, reconciled or blocking. `CapNeverExceeded` and
  `InFlightIsReserved` say that this, and an end between the two readings of a scan, is all that
  can go wrong, and that it concerns the tasks of that step alone.
* `images_deferred`: a run stopped by the outage gate reports
  `NOT_CHARGED_NO_INTENT_RECORDED` for every task of its manifest, those bound by earlier
  runs included, although `submit_all` says of deferred rows that no intent was recorded
  for them. `TriedRowsAreTrue` is about the other rows.
* `upgrade_again`: a discovery takes the candidate the last one found as its baseline, and
  the updater accepts a candidate only when that baseline is the installed release: one
  that was found twice, because the host was busy in between, is refused by every upgrade.

The other configurations in which a property is violated:

* `MCVideoSubmitReceipt`: with another fingerprint's receipt in the file of the unit, a bound row
  whose call died before its receipt comes back with the other one's, although `prior_bound`
  (`submit_giggle_video_manifest_v2.py:1154`) says that a lost receipt is recovered. The
  transaction itself holds the answer (`ReturnedRowIsBacked`).
* `MCUsageForeign`: a lost response posted with another key widens the query to the account, and
  the one unattributed row, a take another host ordered, is adopted for it;
  `hopsapi_usage.py:33` says that foreign rows then block as unattributed.
* `MCUsageLookback`: a lost POST more than a day older than the window is not counted by the
  settlement of a later one, but is still settled by its own episode: both adopt the one row,
  which is then bound twice (`hopsapi_usage.py:18`).
* `MCUsageAdopt`: `adopt` looks at the bound ids before it takes its flock, and a
  reconciliation of another episode binds the same id in between (`hopsapi_usage.py:454`).
* `MCKnowledgeOverlap`: the slower of two syncs puts an older list over a newer copy, and a version
  the device knew to be revoked is selected again, until the next sync
  (`DEPLOYMENT_OPERATIONS.md:109`: a revoked digest is never selected).
* `MCKnowledgeRollback`: a channel that is pointed back to an older version does not take the newer
  one from a device, which selects the newest of its cache; `DEPLOYMENT_OPERATIONS.md:206`
  names this as a way to roll back.
* `MCKnowledgeFallback`: the walk over the history goes back by the latest row of each
  revoked version and stops when it meets a version again. After releases 1, 2, 2, 3 and
  the revocations of 2 and 3 the channel is left empty although 1 is valid; `service.py:21`
  says that it moves back to the newest earlier version that is not revoked.

Gaps the models contain and no run asks about, because nothing in the repository says
otherwise, or because the property is stated with a condition that excludes them:

* `UnboundRunHidesNoCharge` is about statements that show every row. With one that lags, a
  charge can be missed by any run, as the comment in `classify_failures` says. A known
  count of 0 is falsy, so the offline reconciliation of a report takes its count of
  submitted rows, recovered ones included.
* A killed run leaves intents without a failure; their rows fall into the window of no
  report, or of a later one.
* A submission that crashed after its POST is not a lost POST, so its billed take can be
  adopted for another task's lost response: `WrongPairingNeedsCrash` says that, of the takes of
  this store, nothing less than such a crash mixes up two.
* `canary_check` says that an unreadable status is `OTHER`, but at its deadline the code
  returns `HEALTHY`; a health probe that cannot be read therefore counts as a healthy channel.
* The stage harvests only a batch without failures, so the images of a batch with one
  rejected or blocked task are settled only when that one has been resolved, or by hand.
* `prior_submission_result` marks files of earlier fingerprints as superseded by reading and
  rewriting them without their locks: a settlement written in between would be undone.
* After one lost request for a fact, the revision of the same claim is sent on, may be
  refused, and is quarantined for good; `RefusedOnlyAfterFault` says that this needs a fault.
* A death after a release directory is staged and before the journal leaves its name taken,
  and that release cannot be installed again by the updater.
* After an upgrade without a new package the second discovery is blocked as well, since
  `CURRENT` replaced `APPLIED`.

## 5. Proofs

TLC checks the instances of section 3; the theorems below hold for every value of the
constants, under the `ASSUME`s of the modules (named there, evaluated by TLC in every run)
and the hypotheses a theorem states. Each proof module states an inductive invariant and
its parts, one lemma per step of a process or per conjunct, and under it a step per action.

| module | theorem | statement |
|---|---|---|
| `VideoSubmitProofs` | `Invariance` | `Spec => []IInv` |
| | `TypeCorrect`, `NeverBoughtTwice`, `ReturnedRowsBacked` | `TypeOK`, `PaidAtMostOnce`, `ReturnedRowIsBacked` are invariants |
| | `BoundStaysBound` | `Spec => BoundIsFinal` |
| | `LiveTakeStaysAlone` | `Spec /\ []OneCallPerUnit => LiveTakeNeverReposted` |
| | `Refinement` | `Spec => BuysOnce`: the store implements `PaidOnce` |
| `VideoBatchProofs` | `BatchInvariant`, `BatchTypeCorrect`, `EveryTaskHasOneRow` | `IInv`, `BatchTypeOK`, `OneRowPerTask` are invariants |
| | `BatchKeepsBound`, `UnboundRunSettlesTruly` | `BoundIsFinal`, `UnboundRunHidesNoCharge` hold of every step |
| `UsageReconcileProofs` | `ReconcileInvariant`, `ReconcileTypeCorrect`, `NeverBoughtTwiceWhenSettled` | `RInv`, `ReconcileTypeOK`, `PaidAtMostOnce` are invariants |
| | `ReconcileRefinement` | `ReconcileSpec => BuysOnce` |
| | `BoundToOneTransaction`, `WrongPairingOnlyAfterCrash` | if `OperatorAdopts = FALSE` and `LongLost = FALSE`, `TaskBoundOnce` and `WrongPairingNeedsCrash` are invariants |
| `BudgetReservationProofs` | `BudgetTypeCorrect`, `BudgetInvariant`, `InFlightStaysReserved`, `CapIsKept` | `BudgetTypeOK`, `IInv`, `InFlightIsReserved` and `CapNeverExceeded` are invariants, whichever process is killed when |
| `ImageSubmitProofs` | `ImageInvariant`, `ImageTypeCorrect`, `ImagesAreBoughtOnce`, `TriedRowsStayTrue`, `DeferralNeedsTrouble` | `IInv`, `ImageTypeOK`, `ImageBoughtOnce`, `TriedRowsAreTrue`, `DeferredOnlyAfterTrouble` are invariants |
| `EngineUpgradeProofs` | `UpgradeInvariant`, `UpgradeTypeCorrect`, `UpgradeNeverHalfSwitches`, `UpgradeSparesRuns`, `TrustNeverFallsBehind` | `IInv`, `UpgradeTypeOK`, `NeverHalfSwitched`, `RunsKeepTheirEngine`, `TrustCoversInstalled` are invariants |
| | `UpgradeIsAtomic` | `UpgradeSpec => UpgradesAtomically`: the upgrade implements `AtomicUpgrade` |
| `CollectiveSyncProofs` | `SyncInvariant`, `SyncTypeCorrect`, `DeliveredWasPersisted`, `RefusalNeedsFault` | `IInv`, `SyncTypeOK`, `DeliveredIsPersisted`, `RefusedOnlyAfterFault` are invariants |
| | `SyncTransfersReliably` | `SyncSpec => TransfersReliably`: the transfer implements `ReliableTransfer` |
| `KnowledgeReleaseProofs` | `ReleaseInvariant`, `ReleaseTypeCorrect`, `ChannelsAreValid` | `IInv`, `ReleaseTypeOK`, `ChannelNotRevoked` are invariants |
| | `RevocationsStay` | `RevocationsOnlyGrow` holds of every step |

Few of the properties are inductive. What the invariants add is what the code relies on
without saying so.

**VideoSubmit.** `LockInv`: a thread past `prior_bound` holds the flock of its transaction.
`PlaceInv`: what the file says at each place of the call - it may be posted for before the
intent, holds the intent while the request is out, the binding after it. `AttemptInv`:
attempts after the recorded one have never been sent, and attempts before it can no longer
be charged; the recorded one cannot either when the file may be posted for. This is what
makes a retry safe, and what a lost answer settled as zero would break. `BoundInv`: a bound
file names its own latest attempt and carries its response, so a lost receipt can be written
again, and `ReceiptInv`: the file of a unit holds the answer for a bound take of the unit. `PaidAtMostOnce` follows from `AttemptInv`; the refinement follows because every step
changes one file and one remote attempt. `LockInv`, `PlaceInv`, `AttemptInv` and the types
(`Base`) also hold when others write settled files, and the settlement proofs start from
them. `LiveTakeStaysAlone` needs a hypothesis, `OneCallPerUnit`: `live_bound_elsewhere`
looks at files whose locks it does not hold, so two calls for two fingerprints of one unit
that overlap past their locks may both post. With one call per unit at a time, as
`MCVideoSubmitSerial` has it, `AloneInv` says that what `live_bound_elsewhere` and the
supersedes gate have seen is still true when the request leaves.

**VideoBatch** (assumptions `GiggleBatch`, `FiniteManifest`). The classifier writes files
without their flocks, so the invariant has to say that no thread is in a file by then:
`PoolInv` (threads run while the run dispatches, a slot is collected before it is used
again), `HoldInv` (a thread past its lock holds it and may write), `RowsInv` (a task is
queued, in flight, or has one row), `FreshInv` (a task reported as failed was posted for by
this run, so its attempt is in the window of the statement), `CountInv` (a run without rows
of its own counts 0). `UnboundRunHidesNoCharge` counts: if one failed attempt is charged,
a complete statement has an unclaimed row, and every POST stays unresolved.

**UsageReconcile** (assumption `FiniteStore`). `RInv` is about what a job may still believe
minutes after it has read it. `EndedInv`: what is lost, billed or listed has ended - no
thread will record an answer to it. `BindInv`: a file bound to another order's take has no
charge of its own. `JobInv`: a listed attempt is final at the provider; its own take is
among the rows of the job as long as it is lost; and a decision to adopt was taken when
nothing else was lost, but for responses beyond the lookback whose takes the job has not seen.
Then a stale
decision can neither reopen nor rewrite a file (`PaidAtMostOnce`, the refinement). Without
the operator's `adopt` and responses lost beyond the lookback, `OwnInv` adds that the rows of a
job, those of other hosts included, stay unbound while one of its entries is lost (`Unshared`),
and that a take adopted for another order is that of another host or the last attempt
of a file that still says intent, which only a call that died between its POST and its
record leaves behind (`PairInv`). The two hypotheses are needed: `MCUsageAdopt` and
`MCUsageLookback` violate the theorems without them.

**BudgetReservation.** `LockInv`: during the scan under the flock the ledger does not change,
so the scan accounts for every reservation. `OwnerInv`, `PostInv`, `SettledInv`: a submitter
runs under the reservation of a living owner unless its step is loose, an unanswered post
belongs to one submitter, and what a scan settles has no owner. `CoverInv`: what is in flight,
the tasks of loose steps aside, is under a reservation that no scan has condemned (found
ownerless, with nothing in flight, but not settled yet; `Covered`). A step becomes loose at
the two deaths that would break exactly this. `ExposureInv` counts what may be charged once
the living owners have posted their whole plans: an admission checks this number
against the cap.

**ImageSubmit.** `FileInv`: a task without a live file is not charged for, and a settlement
is the provider's last word on the attempt it names. `JobInv` says the same of what a
harvester has read and not yet written, as long as the file has not made room for another
attempt; `PlaceInv` and `RowInv` relate threads and rows to files; `TroubleInv`: the channel
looks broken only after a trouble, so rejections alone defer nothing.

**EngineUpgrade** (assumption `NoneAssumption`: "no record" is not a record). `Between`:
whatever a transaction has done and undone, every part is as it was before or as the
transaction wants it. `DoneInv` says which at each place of an upgrade, `UndoInv` at each
stage of a rollback or recovery, where the journal is removed when nothing it names is
left. `RestInv`: with no transaction the installation is consistent. `RunInv` keeps runs and
upgrades apart, `TrustInv` covers the baseline of a discovery in progress, which takes no
barrier. In the refinement a step maps to the switch of `AtomicUpgrade` only when it
commits; a rolled back upgrade is a stutter.

**CollectiveSync.** `AckInv` and `CollectInv`: an ack, written or about to be, reports what
the service has, and an object is moved only after its facts are there. `QueueInv`: the row of
a fact is older than those of its revisions. `InOrderInv` is the long one: without a fault
a revision follows the fact it cites from the claim through the inbox and the list of every
collector, which is why a refusal needs a fault.

**KnowledgeRelease.** `HistoryInv`: the rows of a history form a chain that ends at the
channel. `ListInv`: copy of the device, list of the bucket and table of the service are
included in one another, as are the lists that cycles and syncs are about to write: a cycle's
is never older than the one it replaces, which is not true of a sync's. `OneCycle` is the flock. `Fallback` is defined by quantifiers over the
rows of the walk (`Before`, `WalksTo`), not by recursion; that the channel is never at a
revoked version needs only that its result is valid or none.

Only model-checked:

* liveness (`EveryCallReturns`, `EveryRunReports`, `EveryImageArrives`,
  `InterruptionRecovered`, `FactsDelivered`, `BucketFollows`, `RevokedLeavesDevice`,
  `DeviceFollows`): fairness means `ENABLED`, which TLAPS does not reason about;
* the properties of section 4 that are violated, which are false;
* `TaskBoundOnce` and `WrongPairingNeedsCrash` together with `adopt`: the run `settle` checks
  them with the operator's hand on one task. With it on two, or with a response lost beyond the
  lookback, the first is false (section 4);
* that `Fallback` finds the valid version the walk ought to find: it does not
  (`MCKnowledgeFallback`).

## 6. Not modelled, and the plan

In the modelled parts: the Giggle leg of images, their polling and reference isolation tools,
are left out; manifest validation, prompt gates, uploads and digests are one refusal before
the intent. The credit precheck and the mixed Giggle and HopsAPI report
are left out, and so are a clock (see `UsageReconcile`), corrupt
JSON and disk errors. Of the host, the first installation, signatures and archives, and the
sync daemons (loops around the client that is modelled) are left out; of collective
learning, the life cycle of candidates and their evidence, the HTTP transport, adoption
receipts, the locks of runs on their bundles, and what is refused or quarantined for its
content.

Not modelled at all: the writers, planners, prompt compilers, media tools, QA gates,
dashboards and per-episode scripts, most of the repository by lines. They transform text and
media, keep no protocol state, and have nothing for a model checker to reach. The asset
library and the owner's decisions are registries written by one process at a time.

Order of further work:

1. `PaidStage`: the episode lock of `paid_stage.sh` (a `mkdir` lock with a pid file and
   reclaiming of stale locks) around the steps of `BudgetReservation`.
2. `BatchSupervisor`, the journal, the release order; retry caps as pure operators.
3. Proofs. Every safety property, action property and refinement that a passing run checks
   is a theorem now. What is left: a condition under which `TaskBoundOnce` survives the
   operator's `adopt` and its proof; that `Selected` never goes back while syncs of a
   device do not overlap; and the theorems of the modules above.
