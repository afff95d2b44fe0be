------------------------------ MODULE VideoBatch ------------------------------
(***************************************************************************)
(* One run after another of main() of submit_giggle_video_manifest_v2.py   *)
(* over a manifest of Giggle tasks: a bounded ready queue over a pool of   *)
(* submit threads, the insufficient-credits fuse, the credit statement     *)
(* read, classify_failures, and the offline --reconcile-unresolved-report. *)
(*                                                                         *)
(* The threads are the Workers of VideoSubmit; they live and die with the  *)
(* run.  One run of an episode exists at a time (paid_stage.sh holds the   *)
(* episode lock).  The credit statement is external: a Pay row of a remote *)
(* task becomes visible some time after the task was created.              *)
(***************************************************************************)
EXTENDS VideoSubmit

ASSUME GiggleBatch == Hopsapi = {}

ASSUME FiniteManifest == IsFiniteSet(Fingerprints)

VARIABLES
    phase,     \* "off", "dispatch", "ledger", "classify", "reported"
    queue,     \* tasks no slot was given to yet
    inflight,  \* threads whose future is not collected
    own,       \* tasks bound by this run
    recovered, \* tasks returned from the durable store
    failure,   \* how each failed task was reported
    fuse,      \* credit_fuse_tripped
    verdict,   \* the state classify_failures writes
    pending,   \* failures whose transaction is still to be written
    known,     \* the known task id count the report carries
    pay,       \* tasks whose Pay row is visible on the statement
    earlier    \* tasks created before the run's window opened

batch  == <<phase, queue, inflight, own, recovered, failure, fuse, verdict, pending, known>>
ledger == <<pay, earlier>>
allvars == <<vars, batch, ledger>>

CHARGED    == "CHARGED_TASK_ID_MISSING"
UNRESOLVED == "CHARGE_STATE_UNRESOLVED_BATCH"

Failures == {f \in Fingerprints : failure[f] # "none"}
Results  == own \cup recovered

BatchInit ==
    /\ Init
    /\ phase = "off"
    /\ queue = {} /\ inflight = {} /\ own = {} /\ recovered = {} /\ pending = {}
    /\ failure = [f \in Fingerprints |-> "none"]
    /\ fuse = FALSE /\ verdict = "none" /\ known = 0
    /\ pay = {} /\ earlier = {}

-----------------------------------------------------------------------------
(* Dispatch. *)

StartRun ==
    /\ phase \in {"off", "reported"}
    /\ phase' = "dispatch"
    /\ queue' = Fingerprints
    /\ inflight' = {} /\ own' = {} /\ recovered' = {} /\ pending' = {}
    /\ failure' = [f \in Fingerprints |-> "none"]
    /\ fuse' = FALSE /\ verdict' = "none" /\ known' = 0
    /\ earlier' = {t \in TaskIds : remote[t] \in Created}
    /\ UNCHANGED <<vars, pay>>

\* A free slot takes the next ready task.
Dispatch(w) ==
    /\ phase = "dispatch" /\ ~fuse
    /\ w \notin inflight
    /\ \E f \in queue : Call(w, f) /\ queue' = queue \ {f}
    /\ inflight' = inflight \cup {w}
    /\ UNCHANGED <<phase, own, recovered, failure, fuse, verdict, pending, known, ledger>>

\* The main thread takes a completed future, once no free slot has a task to take.
Done(w) ==
    /\ phase = "dispatch" /\ ~fuse
    /\ w \in inflight /\ pc[w] = "idle"
    /\ queue = {} \/ inflight = Workers
    /\ inflight' = inflight \ {w}
    /\ UNCHANGED <<vars, phase, queue, verdict, pending, known, ledger>>

CollectRow(w) ==
    /\ Done(w)
    /\ \/ /\ outcome[w] = "submitted"
          /\ own' = own \cup {at[w]}
          /\ UNCHANGED recovered
       \/ /\ outcome[w] \in {"recovered", "recovered_elsewhere"}
          /\ recovered' = recovered \cup {at[w]}
          /\ UNCHANGED own
    /\ UNCHANGED <<failure, fuse>>

\* A prompt-scope refusal is told apart from every other exception.
CollectFailure(w) ==
    /\ Done(w)
    /\ \/ outcome[w] \in {"blocked", "refused", "failed"} /\ failure' = [failure EXCEPT ![at[w]] = outcome[w]]
       \/ outcome[w] = "refused" /\ failure' = [failure EXCEPT ![at[w]] = "before_intent"]
    /\ UNCHANGED <<own, recovered, fuse>>

CollectNoCredits(w) ==
    /\ Done(w)
    /\ outcome[w] = "no_credits"
    /\ failure' = [failure EXCEPT ![at[w]] = "no_credits"]
    /\ fuse' = TRUE
    /\ UNCHANGED <<own, recovered>>

\* Mutants of LeavePool: the fuse is not an exit, and tasks left out of the report.
LeavePoolWhenDrained ==
    /\ phase = "dispatch" /\ queue = {} /\ inflight = {}
    /\ \A w \in Workers : pc[w] = "idle"
    /\ phase' = "ledger" /\ fuse' = FALSE
    /\ UNCHANGED <<vars, queue, inflight, own, recovered, failure, verdict, pending, known, ledger>>

LeavePoolUnreported ==
    /\ phase = "dispatch"
    /\ \A w \in Workers : pc[w] = "idle"
    /\ fuse \/ (queue = {} /\ inflight = {})
    /\ phase' = "ledger"
    /\ inflight' = {} /\ fuse' = FALSE
    /\ UNCHANGED <<vars, queue, own, recovered, failure, verdict, pending, known, ledger>>

\* The loop ends; leaving the pool waits for every thread.  After the fuse each
\* task without a row is reported as not submitted.
LeavePool ==
    /\ phase = "dispatch"
    /\ \A w \in Workers : pc[w] = "idle"
    /\ fuse \/ (queue = {} /\ inflight = {})
    /\ failure' = [f \in Fingerprints |->
                     IF failure[f] = "none" /\ f \notin Results THEN "not_submitted" ELSE failure[f]]
    /\ phase' = "ledger"
    /\ inflight' = {} /\ fuse' = FALSE
    /\ UNCHANGED <<vars, queue, own, recovered, verdict, pending, known, ledger>>

-----------------------------------------------------------------------------
(* Reading the statement and classifying. *)

Bound(S) == {txn[f].task : f \in S} \ {None}

\* Mutant of Matched: only rows of known task ids are ever counted.
MatchedByIdOnly == Cardinality(Bound(own) \cap pay)

\* reconcile_rows: with task ids of its own a run counts only their rows; without
\* any it counts the rows of its window that no transaction has claimed.
Matched ==
    IF own # {}
    THEN Cardinality(Bound(own) \cap pay)
    ELSE Cardinality((pay \ earlier) \ Bound(Fingerprints))

Attempted == {f \in Failures : failure[f] # "before_intent"}

\* _provider_declined looks at the recorded response, else at the error text;
\* a timeout, a reset or a 5xx counts, a quarantined or skipped task does not.
MayReadAsDeclined(f) ==
    \/ failure[f] \in {"failed", "refused", "no_credits"}
    \/ failure[f] \in {"blocked", "not_submitted"} /\ txn[f].response

AllDeclined == {d \in BOOLEAN :
    /\ d => \A f \in Attempted : MayReadAsDeclined(f)
    /\ Attempted = {} => d}

\* Mutant of Verdict: the verified-zero state of the usage reconciliation.
VerdictNoRemote(count, matched, declined) ==
    CASE Cardinality(Attempted) = 1 /\ matched = count + 1 -> CHARGED
      [] matched = count /\ declined -> ZERO_REMOTE
      [] OTHER -> UNRESOLVED

Verdict(count, matched, declined) ==
    CASE Cardinality(Attempted) = 1 /\ matched = count + 1 -> CHARGED
      [] matched = count /\ declined -> ZERO_RETRY
      [] OTHER -> UNRESOLVED

Classify(count, matched) ==
    /\ \E d \in AllDeclined : verdict' = Verdict(count, matched, d)
    /\ pending' = Failures
    /\ phase' = "classify"

ReadStatement ==
    /\ phase = "ledger"
    /\ LET newly   == Cardinality(own)
           maximum == newly + Cardinality(Attempted)
           matched == IF maximum = 0 THEN 0 ELSE Matched
       IN  /\ Classify(newly, matched)
           /\ known' = IF newly > 0 /\ newly <= matched /\ matched <= maximum
                       THEN newly ELSE Cardinality(Results)
    /\ UNCHANGED <<vars, queue, inflight, own, recovered, failure, fuse, ledger>>

\* Mutant of WriteVerdict: a row bound behind the fuse is not skipped.
WriteVerdictAnyway(f) ==
    /\ phase = "classify" /\ f \in pending
    /\ pending' = pending \ {f}
    /\ IF txn[f].state = ABSENT THEN UNCHANGED txn ELSE SetState(f, verdict)
    /\ UNCHANGED <<receipts, closed, remote, local>>
    /\ UNCHANGED <<phase, queue, inflight, own, recovered, failure, fuse, verdict, known, ledger>>

\* classify_failures writes one transaction after the other, without its flock:
\* a task without a file stays as it is, and so does a bound row.
WriteVerdict(f) ==
    /\ phase = "classify" /\ f \in pending
    /\ pending' = pending \ {f}
    /\ IF txn[f].state \in {ABSENT, BOUND} THEN UNCHANGED txn ELSE SetState(f, verdict)
    /\ UNCHANGED <<receipts, closed, remote, local>>
    /\ UNCHANGED <<phase, queue, inflight, own, recovered, failure, fuse, verdict, known, ledger>>

WriteReport ==
    /\ phase = "classify" /\ pending = {}
    /\ phase' = "reported"
    /\ verdict' = "none"
    /\ UNCHANGED <<vars, queue, inflight, own, recovered, failure, fuse, pending, known, ledger>>

\* --reconcile-unresolved-report: the same window and classifier, read again.
ReclassifyReport ==
    /\ phase = "reported"
    /\ Failures # {}
    /\ Classify(known, Matched)
    /\ UNCHANGED <<vars, queue, inflight, own, recovered, failure, fuse, known, ledger>>

-----------------------------------------------------------------------------

\* The process dies with all its threads; no report is written.
KillRun ==
    /\ phase \in {"dispatch", "ledger", "classify"}
    /\ phase' = "off"
    /\ pc' = [w \in Workers |-> "idle"]
    /\ outcome' = [w \in Workers |-> "none"]
    /\ flock' = [f \in Fingerprints |-> None]
    /\ queue' = {} /\ inflight' = {} /\ own' = {} /\ recovered' = {} /\ pending' = {}
    /\ failure' = [f \in Fingerprints |-> "none"]
    /\ fuse' = FALSE /\ verdict' = "none" /\ known' = 0
    /\ UNCHANGED <<store, remote, at, ledger>>

\* A Pay row appears on the statement.
PayRow(t) ==
    /\ remote[t] \in Created /\ t \notin pay
    /\ pay' = pay \cup {t}
    /\ UNCHANGED <<vars, batch, earlier>>

Thread(w) == (Enter(w) \/ Step(w)) /\ UNCHANGED <<batch, ledger>>

Main ==
    \/ \E w \in Workers : Dispatch(w) \/ CollectRow(w) \/ CollectFailure(w) \/ CollectNoCredits(w)
    \/ LeavePool \/ ReadStatement \/ WriteReport
    \/ \E f \in Fingerprints : WriteVerdict(f)

BatchNext ==
    \/ StartRun \/ Main \/ ReclassifyReport \/ KillRun
    \/ \E w \in Workers : Thread(w)
    \/ \E t \in TaskIds : PayRow(t) \/ (Provider(t) /\ UNCHANGED <<batch, ledger>>)

\* The main thread and its pool run until the process dies; the statement is
\* read at most seven times, so the run does not wait for the ledger.
BatchSpec ==
    /\ BatchInit /\ [][BatchNext]_allvars
    /\ WF_allvars(Main)
    /\ \A w \in Workers : WF_allvars(Thread(w))

-----------------------------------------------------------------------------
(* Properties. *)

BatchTypeOK ==
    /\ phase \in {"off", "dispatch", "ledger", "classify", "reported"}
    /\ queue \subseteq Fingerprints /\ pending \subseteq Fingerprints
    /\ own \subseteq Fingerprints /\ recovered \subseteq Fingerprints
    /\ inflight \subseteq Workers
    /\ failure \in [Fingerprints -> {"none", "blocked", "refused", "failed", "before_intent",
                                     "no_credits", "not_submitted"}]
    /\ fuse \in BOOLEAN
    /\ verdict \in {"none", ZERO_RETRY, CHARGED, UNRESOLVED}
    /\ known \in 0 .. Cardinality(Fingerprints)
    /\ pay \subseteq TaskIds /\ earlier \subseteq TaskIds

\* "results/failures keep one row per task and the report keeps one entry per
\* task_key": whatever the order of completions and of the fuse, the rows that
\* are reconciled account for every task exactly once.
OneRowPerTask ==
    phase \in {"ledger", "classify", "reported"} =>
        /\ own \cap recovered = {} /\ Results \cap Failures = {}
        /\ Results \cup Failures = Fingerprints

\* No POST of this run that failed is charged, now or later.
NothingPostedIsCharged ==
    \A f \in Failures : failure[f] \in {"failed", "no_credits"} => remote[Attempt(f)] \notin MayCharge

\* The statement does not lag: no POST is under way and every row is visible.
StatementComplete ==
    \A t \in TaskIds : remote[t] # "sent" /\ (remote[t] \in Created => t \in pay)

\* A classification against a complete statement gives the failures back.
GivesBack ==
    /\ phase # "classify" /\ phase' = "classify" /\ verdict' = ZERO_RETRY
    /\ StatementComplete

\* A run that bound nothing, reading a complete statement, gives a POST back for
\* a retry only if it was not charged, when it settles and, if it recovered nothing
\* either, when it is reconciled again: it counts every unclaimed row of its window.
UnboundRunHidesNoCharge ==
    [][GivesBack /\ own = {} /\ (phase = "ledger" \/ recovered = {})
         => NothingPostedIsCharged]_allvars

\* submit_giggle_video_manifest_v2.py:1641, "retryable is still asserted against
\* the ledger, never against the error text": the same for every run.
ChargeNeverHidden == [][GivesBack /\ phase = "ledger" => NothingPostedIsCharged]_allvars

\* A run that is not killed reaches its report: the fuse, a slow POST or a late
\* statement never leaves it waiting.
EveryRunReports == phase = "dispatch" ~> phase \in {"reported", "off"}
=============================================================================
