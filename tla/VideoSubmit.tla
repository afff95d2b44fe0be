----------------------------- MODULE VideoSubmit -----------------------------
(***************************************************************************)
(* The paid video submitter of tools/submit_giggle_video_manifest_v2.py:   *)
(* submit_one and the durable transaction store it writes.                 *)
(*                                                                         *)
(* A transaction file is keyed by task_key + submission fingerprint; the   *)
(* model's Fingerprints are those keys, and UnitOf gives the task_key.     *)
(* Callers are threads of submitter processes.  Each call of submit_one    *)
(* holds the flock of its own transaction file, and may stop between any   *)
(* two of its durable writes: a crash loses the thread and its flock and   *)
(* nothing else, and a request already sent may still reach the provider.  *)
(* The provider is external: a request becomes a remote task, is refused,  *)
(* or is dropped, and a remote task finishes or fails.                     *)
(***************************************************************************)
EXTENDS Naturals, FiniteSets

CONSTANTS
    Fingerprints,     \* transaction keys: task_key + submission fingerprint
    Units,            \* task_keys
    UnitOf,           \* the task_key of each fingerprint
    Hopsapi,          \* the fingerprints sent through the HopsAPI router
    BindingRequired,  \* the units under the request binding policy
    Supersedes,       \* supersedes_submission_fingerprints of each task
    Workers,          \* threads that call submit_one
    MaxAttempts,      \* bound on the POSTs per transaction file
    None

TaskIds == Fingerprints \X (1 .. MaxAttempts)

ASSUME ConstantsAssumption ==
    /\ UnitOf \in [Fingerprints -> Units]
    /\ Hopsapi \subseteq Fingerprints
    /\ BindingRequired \subseteq Units
    /\ Supersedes \in [Fingerprints -> SUBSET Fingerprints]
    /\ MaxAttempts \in Nat
    /\ None \notin Workers
    /\ None \notin Fingerprints
    /\ None \notin TaskIds

VARIABLES
    txn,      \* the transaction files
    receipts, \* the task whose response each unit's one receipt file holds
    closed,   \* task ids no longer live: reported failed, or bound before a park
    remote,   \* the provider's view of each attempt
    flock,    \* the holder of each transaction's .lock file
    pc,       \* where each worker is in submit_one
    at,       \* the fingerprint each worker was called with
    outcome   \* what the last call of each worker returned

store == <<txn, receipts, closed>>
local == <<flock, pc, at, outcome>>
vars  == <<store, remote, local>>

-----------------------------------------------------------------------------
\* The transaction states the video stores hold.

ABSENT       == "ABSENT"                 \* no transaction file
INTENT       == "INTENT_RECORDED"
BOUND        == "SUBMITTED_TASK_ID_BOUND"
LOST         == "RESPONSE_LOST_PENDING_LEDGER_RECONCILIATION"
NO_TASK_ID   == "PROVIDER_RESPONSE_NO_TASK_ID_PENDING_CLASSIFICATION"
INSUFFICIENT == "PROVIDER_INSUFFICIENT_CREDITS_BLOCKED"
ZERO_RETRY   == "VERIFIED_ZERO_RETRYABLE"
ZERO_REMOTE  == "VERIFIED_ZERO_NO_REMOTE_TASK"

VerifiedZero == {ZERO_RETRY, ZERO_REMOTE}
SubmitStates ==
    {ABSENT, INTENT, BOUND, LOST, NO_TASK_ID, INSUFFICIENT, ZERO_RETRY}

RemoteStates == {"none", "sent", "dropped", "refused", "running", "finished", "failed"}

\* An attempt the provider may charge for, now or later.
MayCharge == {"sent", "running", "finished"}
Created   == {"running", "finished", "failed"}

Places   == {"idle", "waiting", "prior", "gates", "ready", "intent", "posting", "bound"}
Outcomes == {"none", "submitted", "recovered", "recovered_elsewhere", "blocked",
             "refused", "failed", "no_credits"}

Attempt(f) == <<f, txn[f].attempt>>
Siblings(f) == {g \in Fingerprints \ {f} : UnitOf[g] = UnitOf[f]}

\* Mutants of MayPost: a guard on bound files only, and one that forgets them.
MayPostUnlessBound(f)  == txn[f].state # BOUND
MayPostUnlessIntent(f) == txn[f].state \notin {INTENT, LOST, NO_TASK_ID, INSUFFICIENT}

\* prior_bound lets a call POST for a transaction file in one of these states.
MayPost(f) == txn[f].state \in {ABSENT} \cup VerifiedZero

\* live_bindings: the takes of f's unit that are paid for and still owed, under
\* a fingerprint that f does not declare superseded.
LiveElsewhere(f) ==
    {g \in Siblings(f) \ Supersedes[f] : txn[g].state = BOUND /\ txn[g].task \notin closed}

\* bound_under_other_fingerprint, less the declared ones.
BoundElsewhere(f) ==
    {g \in Siblings(f) \ Supersedes[f] : txn[g].state = BOUND \/ txn[g].task # None}

Init ==
    /\ txn = [f \in Fingerprints |->
                [state |-> ABSENT, attempt |-> 0, task |-> None, response |-> FALSE]]
    /\ receipts = [u \in Units |-> None]
    /\ closed = {}
    /\ remote = [t \in TaskIds |-> "none"]
    /\ flock = [f \in Fingerprints |-> None]
    /\ pc = [w \in Workers |-> "idle"]
    /\ at = [w \in Workers |-> None]
    /\ outcome = [w \in Workers |-> "none"]

-----------------------------------------------------------------------------
(* Steps of one call of submit_one. *)

\* The thread moves on, keeping its flock.
Goto(w, place) ==
    /\ pc' = [pc EXCEPT ![w] = place]
    /\ UNCHANGED <<flock, at, outcome>>

\* Mutant of Return: a lock that outlives the call.
ReturnKeepingFlock(w, result) ==
    /\ pc' = [pc EXCEPT ![w] = "idle"]
    /\ outcome' = [outcome EXCEPT ![w] = result]
    /\ UNCHANGED <<flock, at>>

\* submit_one returns or raises: the flock goes with the file handle.
Return(w, result) ==
    /\ pc' = [pc EXCEPT ![w] = "idle"]
    /\ outcome' = [outcome EXCEPT ![w] = result]
    /\ flock' = [f \in Fingerprints |-> IF flock[f] = w THEN None ELSE flock[f]]
    /\ UNCHANGED at

SetState(f, s) == txn' = [txn EXCEPT ![f].state = s]

\* The state is written together with the provider's response.
SetAnswer(f, s) == txn' = [txn EXCEPT ![f].state = s, ![f].response = TRUE]

Call(w, f) ==
    /\ pc[w] = "idle"
    /\ pc' = [pc EXCEPT ![w] = "waiting"]
    /\ at' = [at EXCEPT ![w] = f]
    /\ outcome' = [outcome EXCEPT ![w] = "none"]
    /\ UNCHANGED <<store, remote, flock>>

\* Mutant of EnterBound: the missing receipt is not rewritten.
EnterBoundAsIs(w) ==
    /\ pc[w] = "waiting" /\ flock[at[w]] = None
    /\ txn[at[w]].state = BOUND
    /\ Return(w, "recovered")
    /\ UNCHANGED <<store, remote>>

\* The flock is free and prior_bound reads the file.  A bound row is returned
\* at once.  The receipt file is named after the task_key alone: it is written
\* from the recorded response when the unit has none, and one that another
\* fingerprint left there is taken for this row's.  A task id adopted from the
\* usage API comes with neither receipt nor response.
EnterBound(w) ==
    /\ pc[w] = "waiting" /\ flock[at[w]] = None
    /\ txn[at[w]].state = BOUND
    /\ receipts' = IF txn[at[w]].response /\ receipts[UnitOf[at[w]]] = None
                     THEN [receipts EXCEPT ![UnitOf[at[w]]] = txn[at[w]].task] ELSE receipts
    /\ Return(w, "recovered")
    /\ UNCHANGED <<txn, closed, remote>>

\* Any state that is neither bound nor verified zero blocks the task.
EnterBlocked(w) ==
    /\ pc[w] = "waiting" /\ flock[at[w]] = None
    /\ ~MayPost(at[w]) /\ txn[at[w]].state # BOUND
    /\ Return(w, "blocked")
    /\ UNCHANGED <<store, remote>>

EnterMayPost(w) ==
    /\ pc[w] = "waiting" /\ flock[at[w]] = None
    /\ MayPost(at[w])
    /\ flock' = [flock EXCEPT ![at[w]] = w]
    /\ pc' = [pc EXCEPT ![w] = "prior"]
    /\ UNCHANGED <<store, remote, at, outcome>>

Enter(w) == EnterBound(w) \/ EnterBlocked(w) \/ EnterMayPost(w)

\* live_bound_elsewhere: a live take under another fingerprint is polled instead.
ReturnLiveElsewhere(w) ==
    /\ pc[w] = "prior"
    /\ LiveElsewhere(at[w]) # {}
    /\ Return(w, "recovered_elsewhere")
    /\ UNCHANGED <<store, remote>>

NoLiveElsewhere(w) ==
    /\ pc[w] = "prior"
    /\ LiveElsewhere(at[w]) = {}
    /\ Goto(w, "gates")
    /\ UNCHANGED <<store, remote>>

\* A pre-intent gate refuses (batch registration, prompt or reference hash,
\* prompt scope, reviewed request, upload, knowledge lock): nothing is written.
RefuseBeforeIntent(w) ==
    /\ pc[w] = "gates"
    /\ Return(w, "refused")
    /\ UNCHANGED <<store, remote>>

\* All gates pass, require_no_silent_resubmission among them.
PassGates(w) ==
    /\ pc[w] = "gates"
    /\ UnitOf[at[w]] \in BindingRequired => BoundElsewhere(at[w]) = {}
    /\ txn[at[w]].attempt < MaxAttempts    \* bound of the model
    /\ Goto(w, "ready")
    /\ UNCHANGED <<store, remote>>

RecordIntent(w) ==
    /\ pc[w] = "ready"
    /\ txn' = [txn EXCEPT ![at[w]] =
                 [state |-> INTENT, attempt |-> @.attempt + 1, task |-> None, response |-> FALSE]]
    /\ Goto(w, "intent")
    /\ UNCHANGED <<receipts, closed, remote>>

\* The request fails before it leaves the host.  HopsAPI proves that case
\* (HopsapiNotSent); the Giggle client reports any exception as a lost response.
NotSent(w) ==
    /\ pc[w] = "intent"
    /\ SetState(at[w], IF at[w] \in Hopsapi THEN ZERO_RETRY ELSE LOST)
    /\ Return(w, "failed")
    /\ UNCHANGED <<receipts, closed, remote>>

Post(w) ==
    /\ pc[w] = "intent"
    /\ remote' = [remote EXCEPT ![Attempt(at[w])] = "sent"]
    /\ Goto(w, "posting")
    /\ UNCHANGED store

\* The response carries the task id: it is bound before anything else.
RecordBound(w) ==
    /\ pc[w] = "posting"
    /\ remote[Attempt(at[w])] \in Created
    /\ txn' = [txn EXCEPT ![at[w]].state = BOUND, ![at[w]].task = Attempt(at[w]),
                          ![at[w]].response = TRUE]
    /\ Goto(w, "bound")
    /\ UNCHANGED <<receipts, closed, remote>>

\* Mutant of RecordNotCharged: any error answer is taken for a refusal.
RecordNotChargedOnAnyError(w) ==
    /\ pc[w] = "posting" /\ at[w] \in Hopsapi
    /\ remote[Attempt(at[w])] \in {"sent", "refused"}
    /\ SetAnswer(at[w], ZERO_RETRY)
    /\ Return(w, "failed")
    /\ UNCHANGED <<receipts, closed, remote>>

\* A HopsAPI 4xx or code # 200 without a task id: provably nothing was created.
RecordNotCharged(w) ==
    /\ pc[w] = "posting" /\ at[w] \in Hopsapi
    /\ remote[Attempt(at[w])] = "refused"
    /\ SetAnswer(at[w], ZERO_RETRY)
    /\ \E result \in {"failed", "no_credits"} : Return(w, result)
    /\ UNCHANGED <<receipts, closed, remote>>

\* A Giggle response without a task id is only classified by its text; whether a
\* task was created is not known.
RecordNoTaskId(w) ==
    /\ pc[w] = "posting" /\ at[w] \notin Hopsapi
    /\ \/ /\ remote[Attempt(at[w])] = "refused"
          /\ SetAnswer(at[w], INSUFFICIENT)
          /\ Return(w, "no_credits")
       \/ /\ remote[Attempt(at[w])] \in {"refused"} \cup Created
          /\ SetAnswer(at[w], NO_TASK_ID)
          /\ Return(w, "failed")
    /\ UNCHANGED <<receipts, closed, remote>>

\* Mutant of RecordLost: a lost response settled as if nothing was created.
RecordLostAsZero(w) ==
    /\ pc[w] = "posting"
    /\ SetState(at[w], ZERO_REMOTE)
    /\ Return(w, "failed")
    /\ UNCHANGED <<receipts, closed, remote>>

\* Timeout, reset, 5xx or an unreadable answer, whatever the provider did.
RecordLost(w) ==
    /\ pc[w] = "posting"
    /\ SetState(at[w], LOST)
    /\ Return(w, "failed")
    /\ UNCHANGED <<receipts, closed, remote>>

\* The receipt of the unit, whichever fingerprint's response it held before.
WriteReceipt(w) ==
    /\ pc[w] = "bound"
    /\ receipts' = [receipts EXCEPT ![UnitOf[at[w]]] = txn[at[w]].task]
    /\ Return(w, "submitted")
    /\ UNCHANGED <<txn, closed, remote>>

\* The process dies, or the pipeline's 3600 s timeout kills it.
Crash(w) ==
    /\ pc[w] # "idle"
    /\ Return(w, "none")
    /\ UNCHANGED <<store, remote>>

Step(w) ==
    \/ ReturnLiveElsewhere(w) \/ NoLiveElsewhere(w)
    \/ RefuseBeforeIntent(w) \/ PassGates(w)
    \/ RecordIntent(w) \/ NotSent(w) \/ Post(w)
    \/ RecordBound(w) \/ RecordNotCharged(w) \/ RecordNoTaskId(w) \/ RecordLost(w)
    \/ WriteReceipt(w)

Worker(w) == (\E f \in Fingerprints : Call(w, f)) \/ Enter(w) \/ Step(w) \/ Crash(w)

-----------------------------------------------------------------------------
(* The provider, and what the rest of the line records about its takes. *)

Advance(t, from, to) ==
    /\ remote[t] = from
    /\ remote' = [remote EXCEPT ![t] = to]
    /\ UNCHANGED <<store, local>>

Provider(t) ==
    \/ Advance(t, "sent", "running")
    \/ Advance(t, "sent", "refused")
    \/ Advance(t, "sent", "dropped")
    \/ Advance(t, "running", "finished")
    \/ Advance(t, "running", "failed")

Bindings(u) == {txn[f].task : f \in {g \in Fingerprints : UnitOf[g] = u /\ txn[g].state = BOUND}}

\* The poller reports a bound take as terminally failed.
ReportFailed(t) ==
    /\ \E f \in Fingerprints : txn[f].state = BOUND /\ txn[f].task = t
    /\ remote[t] = "failed"
    /\ closed' = closed \cup {t}
    /\ UNCHANGED <<txn, receipts, remote, local>>

\* A harvested clip is moved into a park directory for a redo: every take of the
\* unit bound until then is no longer owed.
Park(u) ==
    /\ \E t \in Bindings(u) : remote[t] = "finished"
    /\ closed' = closed \cup Bindings(u)
    /\ UNCHANGED <<txn, receipts, remote, local>>

Environment ==
    \/ \E t \in TaskIds : Provider(t) \/ ReportFailed(t)
    \/ \E u \in Units : Park(u)

Next == (\E w \in Workers : Worker(w)) \/ Environment

\* A live thread keeps running, its POST returns at the latest by the client's
\* timeout, and flock queues its waiters.
Fairness == \A w \in Workers : WF_vars(Step(w)) /\ SF_vars(Enter(w))

Spec == Init /\ [][Next]_vars /\ Fairness

-----------------------------------------------------------------------------
(* Properties. *)

TxnRecords ==
    [state : SubmitStates, attempt : 0 .. MaxAttempts, task : TaskIds \cup {None},
     response : BOOLEAN]

\* Every variable keeps its type; a worker inside submit_one has a task.
TypeOK ==
    /\ txn \in [Fingerprints -> TxnRecords]
    /\ receipts \in [Units -> TaskIds \cup {None}]
    /\ closed \subseteq TaskIds
    /\ remote \in [TaskIds -> RemoteStates]
    /\ flock \in [Fingerprints -> Workers \cup {None}]
    /\ pc \in [Workers -> Places]
    /\ at \in [Workers -> Fingerprints \cup {None}]
    /\ outcome \in [Workers -> Outcomes]
    /\ \A w \in Workers : pc[w] # "idle" => at[w] \in Fingerprints

\* paid_stage.sh:25, "a task fingerprint is never POSTed twice": whatever the
\* crashes, lost answers and repeated calls, at most one attempt of a
\* transaction may ever be charged.
PaidAtMostOnce ==
    \A t1, t2 \in TaskIds :
        /\ t1[1] = t2[1]
        /\ remote[t1] \in MayCharge
        /\ remote[t2] \in MayCharge
        => t1 = t2

\* "Every returned task ID is bound": when a call has returned a row of its own
\* transaction, the row names the attempt that was bought, and the receipt file it
\* points to is on disk even if the process that bound it died before writing it.
\* The file answers for a bound take of the unit: the row's own, unless another
\* fingerprint of the unit is bound too.
ReturnedRowIsBacked ==
    \A w \in Workers :
        pc[w] = "idle" /\ outcome[w] \in {"submitted", "recovered"} =>
            /\ txn[at[w]].state = BOUND
            /\ txn[at[w]].task = Attempt(at[w])
            /\ receipts[UnitOf[at[w]]] \in Bindings(UnitOf[at[w]])

\* "Recover a failed secondary receipt write without another paid POST"
\* (submit_giggle_video_manifest_v2.py:1154): a live take that was bound by a call
\* that died before its receipt is returned with its own receipt on disk.
RecoveryRestoresReceipt ==
    [][\A w \in Workers :
         /\ outcome[w] # "recovered" /\ outcome'[w] = "recovered"
         /\ txn[at[w]].response /\ txn[at[w]].task \notin closed
         => receipts'[UnitOf[at[w]]] = txn[at[w]].task]_vars

\* A bound transaction is final: no later call, crash or park rewrites it.
BoundIsFinal ==
    [][\A f \in Fingerprints : txn[f].state = BOUND => txn'[f] = txn[f]]_vars

\* The store's promise, PaidOnce: a transaction is reopened for a new POST only
\* when no earlier attempt of it can be charged, and is never bought twice.
Phase(f) == IF MayPost(f) THEN "open" ELSE IF txn[f].state = BOUND THEN "owned" ELSE "pending"
Live(f)  == {n \in 1 .. MaxAttempts : remote[<<f, n>>] \in MayCharge}

Store == INSTANCE PaidOnce WITH
    Items  <- Fingerprints,
    Orders <- 1 .. MaxAttempts,
    phase  <- [f \in Fingerprints |-> Phase(f)],
    live   <- [f \in Fingerprints |-> Live(f)]

BuysOnce == Store!Spec

Sent(f) == \E n \in 1 .. MaxAttempts : remote[<<f, n>>] = "none" /\ remote'[<<f, n>>] = "sent"

\* video_live_binding.py:25: while a live binding of the unit exists, no request
\* leaves under another fingerprint of it unless it declares the live one; and,
\* provider_request_digest.py:392, "a task_key already bound elsewhere needs an
\* explicit supersede": under the binding policy not even where that take has
\* failed or is parked.
LiveTakeNeverReposted ==
    [][\A f \in Fingerprints : Sent(f) =>
         /\ LiveElsewhere(f) = {}
         /\ UnitOf[f] \in BindingRequired => BoundElsewhere(f) = {}]_vars

\* A task queued behind another process's flock is answered: no interleaving of
\* crashes and slow POSTs leaves a caller waiting for ever.
EveryCallReturns == \A w \in Workers : pc[w] = "waiting" ~> pc[w] = "idle"
=============================================================================
