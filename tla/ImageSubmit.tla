----------------------------- MODULE ImageSubmit -----------------------------
(***************************************************************************)
(* The HopsAPI image path of tools/submit_giggle_image_manifest.py: runs   *)
(* of the keyframe stage over one manifest of several tasks.  A run looks  *)
(* for an outage in the store, POSTs tasks one at a time until the first   *)
(* new binding proves the channel (the canary), and the rest in a pool; a  *)
(* batch without failures is harvested.  A run may be killed at any step.  *)
(*                                                                         *)
(* The provider answers a request it cannot or will not serve with a task  *)
(* that settles as an uncharged 424: every request while its channel is    *)
(* down, and for ever the requests its content filter rejects.             *)
(*                                                                         *)
(* The windows of the code (cooldown, recent success, cached probe) are    *)
(* nondeterministic choices and Elapse; the reference overlap of           *)
(* _next_probe is a free choice among equals.  A file is the one of the    *)
(* task's present fingerprint; receipts and the superseded_by marks left   *)
(* on files of earlier fingerprints, which this path never reads, are left *)
(* out.                                                                    *)
(***************************************************************************)
EXTENDS Naturals, FiniteSets

CONSTANTS
    Tasks,        \* the tasks of the manifest, more than one
    Rejects,      \* those the content filter rejects until they are rewritten
    Needed,       \* OUTAGE_MIN_DISTINCT_TASKS
    ProbeCap,     \* MAX_REJECTED_PROBES
    MaxTroubles,  \* bound on outages, lost answers, refusals, failures and kills
    None

ASSUME ImageAssumption ==
    /\ Rejects \subseteq Tasks
    /\ {Needed, ProbeCap, MaxTroubles} \subseteq Nat
    /\ None \notin Tasks

VARIABLES
    txn,       \* the transaction file of each task
    bad,       \* the tasks with a recorded 424, retired records included
    proof,     \* whether a completed task or a healthy probe is on record
    broken,    \* whether the cached verdict of the health probe is not healthy
    remote,    \* the provider's view of each task's last attempt
    up,        \* whether the provider's channel works
    rewritten, \* the rejected tasks whose prompt has been rewritten
    pc,        \* where the thread of each task is in submit_one
    row,       \* what the run, or the last report, says of each task
    run,       \* the run of the stage
    jobs,      \* the terminal statuses harvesters have read and not yet written
    troubles   \* how many outages and faults there have been

store    == <<txn, bad, proof, broken>>
provider == <<remote, up, rewritten>>
process  == <<pc, row, run>>
imgvars  == <<store, provider, process, jobs, troubles>>

ABSENT      == "ABSENT"
INTENT      == "INTENT_RECORDED"
BOUND       == "SUBMITTED_TASK_ID_BOUND"
LOST        == "RESPONSE_LOST_PENDING_LEDGER_RECONCILIATION"
NOT_CHARGED == "NOT_CHARGED_RETRYABLE"
ZERO_REMOTE == "VERIFIED_ZERO_NO_REMOTE_TASK"

NoFile    == [state |-> ABSENT, settled |-> "no"]
NoRun     == [at |-> "idle", task |-> None, channel |-> "unchecked", prior |-> {}]
MayCharge == {"running", "completed"}
Terminal  == {"completed", "rejected", "failed"}
Harvesters == {"stage", "hand"}

Rejectable(t) == t \in Rejects \ rewritten
Rows(kinds)   == {t \in Tasks : row[t] \in kinds}
Pending       == Rows({"pending"})
Trouble       == troubles < MaxTroubles /\ troubles' = troubles + 1

\* Mutant of TerminalFailed: a failed image task stays bound.
NeverTerminal(t) == FALSE

\* terminal_failed_binding: bound, and settled as failed or as the uncharged 424.
TerminalFailed(t) == txn[t].state = BOUND /\ txn[t].settled \in {"rejected", "failed"}

MayPost(t) == txn[t].state \in {ABSENT, NOT_CHARGED, ZERO_REMOTE} \/ TerminalFailed(t)

ImageInit ==
    /\ txn = [t \in Tasks |-> NoFile]
    /\ bad = {} /\ proof = FALSE /\ broken = FALSE
    /\ remote = [t \in Tasks |-> "none"]
    /\ up = TRUE /\ rewritten = {}
    /\ pc = [t \in Tasks |-> "out"]
    /\ row = [t \in Tasks |-> "none"]
    /\ run = NoRun
    /\ jobs = {}
    /\ troubles = 0

-----------------------------------------------------------------------------
(* record_settlement, under the flock of the file. *)

Locked(t) == pc[t] \in {"intent", "posting"}

\* A new fingerprint or attempt takes the place of the one harvesters have read.
Outdated(t) == {IF j.task = t THEN [j EXCEPT !.current = FALSE] ELSE j : j \in jobs}

\* Mutant of Settle: the settlement of an earlier attempt is taken for the file's.
SettleAnyAttempt(t, current, status) ==
    IF txn[t].state = BOUND
    THEN /\ txn' = [txn EXCEPT ![t].settled = status]
         /\ bad' = IF status = "rejected" THEN bad \cup {t} ELSE bad
         /\ proof' = (proof \/ status = "completed")
    ELSE UNCHANGED <<txn, bad, proof>>

\* Only the file bound to this very task id is touched.
Settle(t, current, status) ==
    IF txn[t].state = BOUND /\ current
    THEN /\ txn' = [txn EXCEPT ![t].settled = status]
         /\ bad' = IF status = "rejected" THEN bad \cup {t} ELSE bad
         /\ proof' = (proof \/ status = "completed")
    ELSE UNCHANGED <<txn, bad, proof>>

-----------------------------------------------------------------------------
(* The threads: submit_one, _submit_one_locked and _submit_one_hopsapi. *)

\* submit_one returns a row or raises.
Return(t, result) ==
    /\ pc' = [pc EXCEPT ![t] = "out"]
    /\ row' = [row EXCEPT ![t] = result]
    /\ UNCHANGED run

Goto(t, place) == pc' = [pc EXCEPT ![t] = place] /\ UNCHANGED <<row, run>>

SetState(t, s) == txn' = [txn EXCEPT ![t].state = s] /\ UNCHANGED <<bad, proof, broken>>

\* retire_terminal_failed: a terminally failed binding is moved aside.
Retire(t) ==
    /\ pc[t] = "enter" /\ TerminalFailed(t)
    /\ txn' = [txn EXCEPT ![t] = NoFile]
    /\ jobs' = Outdated(t)
    /\ UNCHANGED <<bad, proof, broken, provider, process, troubles>>

Recover(t) ==
    /\ pc[t] = "enter" /\ txn[t].state = BOUND /\ ~TerminalFailed(t)
    /\ Return(t, "recovered")
    /\ UNCHANGED <<store, provider, jobs, troubles>>

Blocked(t) ==
    /\ pc[t] = "enter" /\ txn[t].state \in {INTENT, LOST}
    /\ Return(t, "failed")
    /\ UNCHANGED <<store, provider, jobs, troubles>>

NothingPrior(t) == pc[t] = "enter" /\ txn[t].state \in {ABSENT, NOT_CHARGED, ZERO_REMOTE}

\* The gates before the intent, and the upload of the references.
RefuseBeforeIntent(t) ==
    /\ NothingPrior(t) /\ Trouble
    /\ Return(t, "failed")
    /\ UNCHANGED <<store, provider, jobs>>

RecordIntent(t) ==
    /\ NothingPrior(t)
    /\ txn' = [txn EXCEPT ![t] = [state |-> INTENT, settled |-> "no"]]
    /\ Goto(t, "intent")
    /\ UNCHANGED <<bad, proof, broken, provider, jobs, troubles>>

\* HopsapiNotCharged: not sent at all.
NotSent(t) ==
    /\ pc[t] = "intent" /\ Trouble
    /\ SetState(t, NOT_CHARGED)
    /\ Return(t, "failed")
    /\ UNCHANGED <<provider, jobs>>

\* The provider creates a task, or (a fault) none: it refuses, or never hears.
Post(t) ==
    /\ pc[t] = "intent"
    /\ \/ remote' = [remote EXCEPT ![t] = "running"] /\ UNCHANGED troubles
       \/ remote' = [remote EXCEPT ![t] = "refused"] /\ Trouble
    /\ Goto(t, "posting")
    /\ UNCHANGED <<store, up, rewritten, jobs>>

RecordBound(t) ==
    /\ pc[t] = "posting" /\ remote[t] \in {"running"} \cup Terminal
    /\ SetState(t, BOUND)
    /\ Return(t, "submitted")
    /\ UNCHANGED <<provider, jobs, troubles>>

\* HopsapiNotCharged: an explicit refusal without a task id.
RecordNotCharged(t) ==
    /\ pc[t] = "posting" /\ remote[t] = "refused"
    /\ SetState(t, NOT_CHARGED)
    /\ Return(t, "failed")
    /\ UNCHANGED <<provider, jobs, troubles>>

\* Any other exception, whatever became of the request.
RecordLost(t) ==
    /\ pc[t] = "posting" /\ Trouble
    /\ SetState(t, LOST)
    /\ Return(t, "failed")
    /\ UNCHANGED <<provider, jobs>>

Thread(t) ==
    \/ Retire(t) \/ Recover(t) \/ Blocked(t)
    \/ RefuseBeforeIntent(t) \/ RecordIntent(t) \/ NotSent(t) \/ Post(t)
    \/ RecordBound(t) \/ RecordNotCharged(t) \/ RecordLost(t)

-----------------------------------------------------------------------------
(* A run: main, submit_all and channel_health. *)

\* The stage runs again while an image is missing (keyframe_needs_post).
Arrived(t) == txn[t].state = BOUND /\ txn[t].settled = "completed"

StartRun ==
    /\ run.at = "idle" /\ \E t \in Tasks : ~Arrived(t)
    /\ run' = [NoRun EXCEPT !.at = "gate"]
    /\ row' = [t \in Tasks |-> "pending"]
    /\ UNCHANGED <<store, provider, pc, jobs, troubles>>

\* submit_all takes over; the tasks with an earlier 424 will be probed last.
Submit == run' = [run EXCEPT !.at = "probe", !.prior = bad]

\* No unbroken run of 424s in the store, or it has cooled down.
PassOutageGate ==
    /\ run.at = "gate"
    /\ Submit
    /\ UNCHANGED <<store, provider, pc, row, jobs, troubles>>

\* recent_provider_outage: 424s of different tasks, the probe's own among them.
OutageInStore ==
    /\ run.at = "gate" /\ Cardinality(bad) + 1 >= Needed
    /\ run' = [run EXCEPT !.at = "gatechannel"]
    /\ UNCHANGED <<store, provider, pc, row, jobs, troubles>>

\* recent_successful_task or a cached verdict, if recent enough.
HealthyByRecord(healthy) ==
    /\ IF healthy THEN proof ELSE broken
    /\ UNCHANGED <<store, troubles>>

\* run_health_probe: one neutral task of its own; a lost, unsent or interrupted
\* one reads as not healthy, one whose status cannot be read as healthy.
HealthyByProbe(healthy) ==
    /\ ~broken
    /\ \/ healthy = up /\ UNCHANGED troubles
       \/ healthy # up /\ Trouble
    /\ broken' = ~healthy
    /\ proof' = (proof \/ healthy)
    /\ UNCHANGED <<txn, bad>>

\* Mutant of ChannelHealth: failures of different tasks alone make an outage.
NoChannelHealth(healthy) == ~healthy /\ UNCHANGED <<store, troubles>>

ChannelHealth(healthy) == HealthyByRecord(healthy) \/ HealthyByProbe(healthy)

OutageGate ==
    /\ run.at = "gatechannel"
    /\ \/ ChannelHealth(TRUE) /\ Submit /\ UNCHANGED row
       \/ /\ ChannelHealth(FALSE)
          /\ run' = [run EXCEPT !.at = "report"]
          /\ row' = [t \in Tasks |-> "deferred"]
    /\ UNCHANGED <<provider, pc, jobs>>

Rejected == Rows({"rejected"})

\* The task probed last came back without a new binding, or was rejected.
Probed ==
    /\ run.at = "probe"
    /\ run.task # None => pc[run.task] = "out" /\ row[run.task] # "submitted"

NextProbe ==
    LET candidates == IF Pending \subseteq run.prior THEN Pending ELSE Pending \ run.prior
    IN  /\ Probed
        /\ \E t \in candidates :
             /\ run' = [run EXCEPT !.task = t]
             /\ pc' = [pc EXCEPT ![t] = "enter"]
        /\ UNCHANGED <<store, provider, row, jobs, troubles>>

\* The batch is released: what was rejected is those tasks' own.
Release ==
    /\ run' = [run EXCEPT !.at = "pool", !.task = None]
    /\ pc' = [t \in Tasks |-> IF t \in Pending THEN "enter" ELSE pc[t]]

RefuseRejected == [t \in Tasks |-> IF t \in Rejected THEN "refused" ELSE row[t]]

Canary == run.at = "probe" /\ run.task # None /\ pc[run.task] = "out" /\ row[run.task] = "submitted"

\* Completed, still running after the wait, or (a fault) never readable.
CanaryHealthy ==
    /\ Canary
    /\ \/ remote[run.task] \in {"running", "completed"} /\ UNCHANGED troubles
       \/ remote[run.task] \in {"rejected", "failed"} /\ Trouble
    /\ Release /\ row' = RefuseRejected
    /\ UNCHANGED <<store, provider, jobs>>

\* Another terminal failure: no sign of an outage.
CanaryOther ==
    /\ Canary /\ remote[run.task] = "failed"
    /\ Settle(run.task, TRUE, "failed")
    /\ Release /\ row' = RefuseRejected
    /\ UNCHANGED <<broken, provider, jobs, troubles>>

\* The uncharged 424: rotate to another task, after a look at the channel once
\* enough different tasks have failed, or stop probing.
CanaryRejected ==
    /\ Canary /\ remote[run.task] = "rejected"
    /\ Settle(run.task, TRUE, "rejected")
    /\ LET count == Cardinality(Rejected) + 1 IN
         IF run.channel = "unchecked" /\ count >= Needed
         THEN /\ run' = [run EXCEPT !.at = "channel"]
              /\ row' = [row EXCEPT ![run.task] = "rejected"]
              /\ UNCHANGED pc
         ELSE IF run.channel = "healthy" /\ count >= ProbeCap
         THEN Release /\ row' = [RefuseRejected EXCEPT ![run.task] = "refused"]
         ELSE /\ row' = [row EXCEPT ![run.task] = "rejected"]
              /\ UNCHANGED <<pc, run>>
    /\ UNCHANGED <<broken, provider, jobs, troubles>>

\* The channel works: keep rotating, or stop probing at the cap.
ChannelWorks ==
    /\ run.at = "channel" /\ ChannelHealth(TRUE)
    /\ IF Cardinality(Rejected) >= ProbeCap
       THEN Release /\ row' = RefuseRejected
       ELSE /\ run' = [run EXCEPT !.at = "probe", !.channel = "healthy"]
            /\ UNCHANGED <<pc, row>>
    /\ UNCHANGED <<provider, jobs>>

\* PROVIDER_OUTAGE: the rejected rows stay submitted, the rest is not POSTed.
ChannelBroken ==
    /\ run.at = "channel" /\ ChannelHealth(FALSE)
    /\ run' = [run EXCEPT !.at = "report", !.task = None]
    /\ row' = [t \in Tasks |-> IF t \in Rejected THEN "submitted"
                               ELSE IF t \in Pending THEN "deferred" ELSE row[t]]
    /\ UNCHANGED <<provider, pc, jobs>>

\* Nothing is left to probe: the rejected ones are their own fault only if the
\* channel is known to work (else UNDECIDED_SINGLE_TASK_424).
ProbesExhausted ==
    /\ Probed /\ Pending = {}
    /\ run' = [run EXCEPT !.at = "report", !.task = None]
    /\ row' = IF run.channel = "healthy" THEN RefuseRejected
              ELSE [t \in Tasks |-> IF t \in Rejected THEN "submitted" ELSE row[t]]
    /\ UNCHANGED <<store, provider, pc, jobs, troubles>>

\* Mutant of PoolDone: the report does not wait for the pool.
PoolLeft ==
    /\ run.at = "pool" /\ \E t \in Tasks : pc[t] = "out"
    /\ run' = [run EXCEPT !.at = "report"]
    /\ UNCHANGED <<store, provider, pc, row, jobs, troubles>>

PoolDone ==
    /\ run.at = "pool" /\ \A t \in Tasks : pc[t] = "out"
    /\ run' = [run EXCEPT !.at = "report"]
    /\ UNCHANGED <<store, provider, pc, row, jobs, troubles>>

\* Mutant of ReportedRow: a lost answer is reported as not charged.
ReportedRowLost(t) ==
    IF row[t] # "failed" THEN row[t]
    ELSE CASE txn[t].state = ABSENT -> "before_intent"
           [] txn[t].state = INTENT -> "quarantined"
           [] OTHER                 -> "not_charged"

\* hopsapi_credit_summary: a failure is reported as its file stands now.
ReportedRow(t) ==
    IF row[t] # "failed" THEN row[t]
    ELSE CASE txn[t].state = ABSENT      -> "before_intent"
           [] txn[t].state = NOT_CHARGED -> "not_charged"
           [] OTHER                      -> "quarantined"

Harvested == {t \in Tasks : row[t] \in {"submitted", "recovered"}}

\* The report; the stage harvests a batch that passed and stops at any other.
WriteReport ==
    /\ run.at = "report"
    /\ row' = [t \in Tasks |-> ReportedRow(t)]
    /\ run' = IF Harvested = Tasks THEN [NoRun EXCEPT !.at = "harvest"] ELSE NoRun
    /\ UNCHANGED <<store, provider, pc, jobs, troubles>>

HarvestDone ==
    /\ run.at = "harvest" /\ jobs = {} /\ \A t \in Tasks : txn[t].settled # "no"
    /\ run' = NoRun
    /\ UNCHANGED <<store, provider, pc, row, jobs, troubles>>

\* The submitter, or the stage, is killed.
Kill ==
    /\ run.at # "idle" /\ Trouble
    /\ run' = NoRun
    /\ pc' = [t \in Tasks |-> "out"]
    /\ row' = [t \in Tasks |-> "none"]
    /\ UNCHANGED <<store, provider, jobs>>

RunStep ==
    \/ PassOutageGate \/ OutageInStore \/ OutageGate \/ NextProbe
    \/ CanaryHealthy \/ CanaryOther \/ CanaryRejected
    \/ ChannelWorks \/ ChannelBroken \/ ProbesExhausted
    \/ PoolDone \/ WriteReport \/ HarvestDone

-----------------------------------------------------------------------------
(* Harvesters, the reconciliation and the operator. *)

\* harvest_giggle_image_batch.py reads the status of a row of the last report, for
\* the stage, or by hand; a row it has settled already it would only write again.
HarvestRead(t, by) ==
    /\ run.at = "harvest" \/ (run.at = "idle" /\ by = "hand")
    /\ t \in Harvested
    /\ by = "hand" => \A j \in jobs : j.by # "hand"
    /\ txn[t].state = BOUND /\ txn[t].settled = "no" /\ remote[t] \in Terminal
    /\ jobs' = jobs \cup {[task |-> t, by |-> by, current |-> TRUE, seen |-> remote[t]]}
    /\ UNCHANGED <<store, provider, process, troubles>>

HarvestSettle(j) ==
    /\ ~Locked(j.task)
    /\ Settle(j.task, j.current, j.seen)
    /\ jobs' = jobs \ {j}
    /\ UNCHANGED <<broken, provider, process, troubles>>

\* hopsapi_usage.py (see UsageReconcile): a lost create is adopted or proved void.
Reconcile(t) ==
    /\ txn[t].state = LOST /\ ~Locked(t)
    /\ remote[t] # "running"
    /\ SetState(t, IF remote[t] = "completed" THEN BOUND ELSE ZERO_REMOTE)
    /\ UNCHANGED <<provider, process, jobs, troubles>>

\* The operator rewrites a prompt whose task came back rejected: a new fingerprint.
Rewrite(t) ==
    /\ run.at = "idle" /\ Rejectable(t)
    /\ TerminalFailed(t) /\ txn[t].settled = "rejected"
    /\ rewritten' = rewritten \cup {t}
    /\ txn' = [txn EXCEPT ![t] = NoFile]
    /\ jobs' = Outdated(t)
    /\ UNCHANGED <<bad, proof, broken, remote, up, process, troubles>>

\* The cached verdict of the health probe grows old.
Elapse ==
    /\ broken
    /\ broken' = FALSE
    /\ UNCHANGED <<txn, bad, proof, provider, process, jobs, troubles>>

-----------------------------------------------------------------------------
(* The provider. *)

Becomes(t, status) ==
    /\ remote' = [remote EXCEPT ![t] = status]
    /\ UNCHANGED <<store, up, rewritten, process, jobs>>

Render(t) == remote[t] = "running" /\ up /\ ~Rejectable(t) /\ Becomes(t, "completed") /\ UNCHANGED troubles
Reject(t) == remote[t] = "running" /\ (~up \/ Rejectable(t)) /\ Becomes(t, "rejected") /\ UNCHANGED troubles
Fail(t)   == remote[t] = "running" /\ Becomes(t, "failed") /\ Trouble
Serve(t)  == Render(t) \/ Reject(t)

OutageBegins ==
    /\ up /\ Trouble
    /\ up' = FALSE
    /\ UNCHANGED <<store, remote, rewritten, process, jobs>>

OutageEnds ==
    /\ ~up
    /\ up' = TRUE
    /\ UNCHANGED <<store, remote, rewritten, process, jobs, troubles>>

ImageNext ==
    \/ \E t \in Tasks :
         \/ Thread(t) \/ (\E by \in Harvesters : HarvestRead(t, by)) \/ Reconcile(t) \/ Rewrite(t)
         \/ Serve(t) \/ Fail(t)
    \/ StartRun \/ RunStep \/ Kill
    \/ \E j \in jobs : HarvestSettle(j)
    \/ Elapse \/ OutageBegins \/ OutageEnds

Harvest ==
    \/ \E t \in Tasks : HarvestRead(t, "stage")
    \/ \E j \in jobs : HarvestSettle(j)

\* A blocked stage is run again after the cooldown, as its report asks, and a
\* rejected prompt is rewritten; processes and the provider make progress.
ImageFairness ==
    /\ WF_imgvars(StartRun) /\ WF_imgvars(RunStep) /\ WF_imgvars(Harvest)
    /\ WF_imgvars(Elapse) /\ WF_imgvars(OutageEnds)
    /\ \A t \in Tasks : WF_imgvars(Thread(t)) /\ WF_imgvars(Serve(t)) /\ SF_imgvars(Rewrite(t))

ImageSpec == ImageInit /\ [][ImageNext]_imgvars /\ ImageFairness

-----------------------------------------------------------------------------
(* Properties. *)

ImageTypeOK ==
    /\ txn \in [Tasks -> [state : {ABSENT, INTENT, BOUND, LOST, NOT_CHARGED, ZERO_REMOTE},
                          settled : {"no"} \cup Terminal]]
    /\ bad \subseteq Tasks
    /\ {proof, broken, up} \subseteq BOOLEAN
    /\ remote \in [Tasks -> {"none", "refused"} \cup MayCharge \cup Terminal]
    /\ rewritten \subseteq Rejects
    /\ pc \in [Tasks -> {"out", "enter", "intent", "posting"}]
    /\ row \in [Tasks -> {"none", "pending", "submitted", "recovered", "failed", "rejected", "refused",
                          "deferred", "before_intent", "not_charged", "quarantined"}]
    /\ run.at \in {"idle", "gate", "gatechannel", "probe", "channel", "pool", "report", "harvest"}
    /\ \A t \in Tasks : pc[t] # "out" => run.at \in {"probe", "pool"}
    /\ jobs \subseteq [task : Tasks, by : Harvesters, current : BOOLEAN, seen : Terminal]

\* "ONE create POST" (submit_giggle_image_manifest.py:600): whatever is killed,
\* lost, rejected or settled late, no task may be ordered again while an image of
\* it may be charged.
ImageBoughtOnce == \A t \in Tasks : MayPost(t) => remote[t] \notin MayCharge

\* What a report says of the tasks its run tried is so when it is read, however their
\* files changed meanwhile: a submitted or recovered row is bound (unless its prompt
\* was rewritten since), and nothing may be charged for a row of no credit.
TriedRowsAreTrue ==
    run.at = "idle" =>
        \A t \in Tasks :
            /\ row[t] \in {"submitted", "recovered"} => txn[t].state = BOUND \/ t \in rewritten
            /\ row[t] \in {"refused", "before_intent", "not_charged"} => remote[t] \notin MayCharge

\* Tasks are put off for an outage only when there was one, or a fault that looks
\* like one: content rejections alone never do, over any number of runs ("every
\* pending task is POSTed once per run unless the channel is down",
\* submit_giggle_image_manifest.py:793).
DeferredOnlyAfterTrouble == \A t \in Tasks : row[t] = "deferred" => troubles > 0

\* "credit 0, never a failure: no intent was recorded for them"
\* (submit_giggle_image_manifest.py:791): nothing may be charged for a task the
\* report puts off.  Violated: the rows are written without a look at the files, so
\* that a task bound and charged by an earlier run is reported as not charged.
DeferredIsUncharged ==
    run.at = "idle" => \A t \in Tasks : row[t] = "deferred" => remote[t] \notin MayCharge

\* hopsapi_image_client.py:519 tells of 35 keyframes that "waited forever" behind a
\* rejected one: all images arrive in the end, through rejections, an outage and
\* the reruns they ask for, unless the charge of one stays unknown.
Stuck(t) == txn[t].state \in {INTENT, LOST}

EveryImageArrives == <>[]((\A t \in Tasks : Arrived(t)) \/ \E t \in Tasks : Stuck(t))
=============================================================================
