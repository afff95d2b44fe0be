---------------------------- MODULE UsageReconcile ----------------------------
(***************************************************************************)
(* Settlement of lost HopsAPI creates against the billing usage API, of    *)
(* tools/hopsapi_usage.py: reconcile_kind, run by the pipeline or by hand, *)
(* and the operator's adopt.  Both run beside the submit threads of        *)
(* VideoSubmit and beside each other; only _write_transaction takes the    *)
(* flock of a transaction, and it writes what was decided before.          *)
(*                                                                         *)
(* Time is abstracted to what the grace period (20 minutes after the intent *)
(* of a request the client waits two for) promises: an entry is listed only *)
(* after its own attempt has come to an end at the provider, and it was     *)
(* already lost when any reconciliation still running began.               *)
(*                                                                         *)
(* The billing API lists the takes of the whole account.  Elsewhere are    *)
(* the orders of its other hosts, whose files are in stores of their own:  *)
(* this store has the files of Local, and looks at no others.              *)
(***************************************************************************)
EXTENDS VideoSubmit

CONSTANTS
    Episodes, EpisodeOf,  \* the episode of each fingerprint
    Reconcilers,          \* processes that may run reconcile_kind
    OperatorAdopts,       \* whether the operator uses the adopt sub-command
    Elsewhere,            \* the orders of the account's other hosts
    Keys, KeyOf,          \* the API key each attempt is made with
    LongLost              \* whether a response may stay lost for more than a day

VARIABLES
    job,    \* each reconciler's reconcile_kind call
    hand,   \* the transaction and task of the operator's adopt, or None
    before  \* the attempts that had ended when each fingerprint's intent was recorded

settling == <<job, hand, before>>
allvars  == <<vars, settling>>

MANUAL == "NEEDS_MANUAL_ATTRIBUTION"
RECONCILABLE_STATES == {LOST, MANUAL}

ASSUME FiniteStore == IsFiniteSet(Fingerprints)

ASSUME AccountAssumption ==
    /\ Elsewhere \subseteq Fingerprints
    /\ KeyOf \in [TaskIds -> Keys]
    /\ OperatorAdopts \in BOOLEAN /\ LongLost \in BOOLEAN

Local == Fingerprints \ Elsewhere

NoJob == [step |-> "off", entries |-> {}, rows |-> {}, decision |-> "none", lostThen |-> {}]

\* What a request that has come to its end is at the provider.
Ends == {"dropped", "refused", "finished", "failed"}

\* What the usage API lists for the account: takes that have finished.
Billed == {t \in TaskIds : t[1] \in Hopsapi /\ remote[t] = "finished"}

\* lost_transactions and bound_task_ids, over every episode of this store.
Lost(f) == f \in Local \cap Hopsapi /\ txn[f].state \in RECONCILABLE_STATES /\ txn[f].task = None
LostAttempts(S) == {Attempt(f) : f \in {g \in S : Lost(g)}}
BoundTaskIds == {txn[f].task : f \in Local} \ {None}

ReconcileInit ==
    /\ Init
    /\ job = [r \in Reconcilers |-> NoJob]
    /\ hand = None
    /\ before = [f \in Fingerprints |-> {}]

-----------------------------------------------------------------------------
(* reconcile_kind. *)

\* The newest intent of the group is past its grace period.
ListLost(r, e) ==
    LET entries == LostAttempts({f \in Local : EpisodeOf[f] = e})
    IN  /\ job[r].step = "off"
        /\ entries # {}
        /\ \A t \in entries : remote[t] \notin {"sent", "running"}
        /\ \A q \in Reconcilers : job[q].step # "off" => entries \subseteq job[q].lostThen
        /\ job' = [job EXCEPT ![r] = [NoJob EXCEPT !.step = "listed", !.entries = entries,
                                                    !.lostThen = LostAttempts(Local)]]
        /\ UNCHANGED <<vars, hand, before>>

\* _key_scope: the rows of the current key if every entry was posted with it, or
\* else those of the account, the takes of other hosts included.
InScope(entries, key) ==
    IF \A g \in entries : KeyOf[g] = key THEN {t \in Billed : KeyOf[t] = key} ELSE Billed

\* The billed rows from a minute before the group's first intent.
ReadUsage(r) ==
    LET old == {t \in Billed : \A g \in job[r].entries : t \in before[g[1]]}
    IN  /\ job[r].step = "listed"
        /\ \E key \in Keys, lead \in SUBSET old :
             job' = [job EXCEPT ![r].step = "rows",
                                ![r].rows = InScope(job[r].entries, key) \ (old \ lead)]
        /\ UNCHANGED <<vars, hand, before>>

\* usage_get gives up, or the process dies: nothing is changed.
Abandon(r) ==
    /\ job[r].step # "off"
    /\ job' = [job EXCEPT ![r] = NoJob]
    /\ UNCHANGED <<vars, hand, before>>

DropBoundRows(r) ==
    /\ job[r].step = "rows"
    /\ job' = [job EXCEPT ![r].step = "unattributed", ![r].rows = @ \ BoundTaskIds]
    /\ UNCHANGED <<vars, hand, before>>

\* Mutant of MayAdopt: lost POSTs of other episodes are not looked for.
MayAdoptAlone(entries, rows, gone) ==
    /\ Cardinality(entries) = 1 /\ Cardinality(rows) = 1
    /\ \A g \in entries, t \in rows : t \notin before[g[1]]

\* One lost POST, one row billed after its intent, and no other lost POST but
\* those whose intents are past the lookback.
MayAdopt(entries, rows, gone) ==
    /\ Cardinality(entries) = 1 /\ Cardinality(rows) = 1
    /\ LostAttempts(Local) \ gone \subseteq entries
    /\ \A g \in entries, t \in rows : t \notin before[g[1]]

\* An intent a day older than those of the entries: its request had long ended.
PastLookback(entries) ==
    {t \in LostAttempts(Local) : LongLost /\ \A g \in entries : t \in before[g[1]]}

\* Mutant of Decide: a pairing that is not certain leaves the group as it was.
DecideOrLeave(r) ==
    /\ job[r].step = "unattributed"
    /\ \E gone \in SUBSET PastLookback(job[r].entries) :
         job' = [job EXCEPT ![r].step = "decided",
                            ![r].decision = IF job[r].rows = {} THEN ZERO_REMOTE
                                            ELSE IF MayAdopt(job[r].entries, job[r].rows, gone) THEN BOUND
                                            ELSE LOST]
    /\ UNCHANGED <<vars, hand, before>>

Decide(r) ==
    /\ job[r].step = "unattributed"
    /\ \E gone \in SUBSET PastLookback(job[r].entries) :
         job' = [job EXCEPT ![r].step = "decided",
                            ![r].decision = IF job[r].rows = {} THEN ZERO_REMOTE
                                            ELSE IF MayAdopt(job[r].entries, job[r].rows, gone) THEN BOUND
                                            ELSE MANUAL]
    /\ UNCHANGED <<vars, hand, before>>

\* Mutant of WriteTransaction: only the state of the file is read again.
WriteAnyAttempt(t, decision, task) ==
    /\ flock[t[1]] = None
    /\ IF Lost(t[1])
       THEN txn' = [txn EXCEPT ![t[1]].state = decision, ![t[1]].task = task]
       ELSE UNCHANGED txn
    /\ UNCHANGED <<receipts, closed, remote, local>>

\* _write_transaction: under the flock, only if the file is still that attempt.
WriteTransaction(t, decision, task) ==
    /\ flock[t[1]] = None
    /\ IF Lost(t[1]) /\ Attempt(t[1]) = t
       THEN txn' = [txn EXCEPT ![t[1]].state = decision, ![t[1]].task = task]
       ELSE UNCHANGED txn
    /\ UNCHANGED <<receipts, closed, remote, local>>

WriteDecision(r) ==
    LET left(t) == job[r].entries \ {t}
    IN  /\ job[r].step = "decided"
        /\ \E t \in job[r].entries :
             /\ IF job[r].decision = BOUND
                THEN \E row \in job[r].rows : WriteTransaction(t, BOUND, row)
                ELSE WriteTransaction(t, job[r].decision, None)
             /\ job' = [job EXCEPT ![r] = IF left(t) = {} THEN NoJob ELSE [@ EXCEPT !.entries = left(t)]]
        /\ UNCHANGED <<hand, before>>

Reconcile(r) ==
    \/ \E e \in Episodes : ListLost(r, e)
    \/ ReadUsage(r) \/ DropBoundRows(r) \/ Decide(r) \/ WriteDecision(r) \/ Abandon(r)

-----------------------------------------------------------------------------
(* adopt: the operator pairs a transaction with its own take. *)

AdoptCheck(f) ==
    /\ OperatorAdopts /\ hand = None
    /\ Lost(f)
    /\ Attempt(f) \in Billed \ BoundTaskIds
    /\ hand' = Attempt(f)
    /\ UNCHANGED <<vars, job, before>>

AdoptWrite ==
    /\ hand # None
    /\ WriteTransaction(hand, BOUND, hand)
    /\ hand' = None
    /\ UNCHANGED <<job, before>>

-----------------------------------------------------------------------------

\* No task is billed while its own POST is still unanswered: a take renders for
\* minutes, the client waits two.
Rendered(t) ==
    /\ \A w \in Workers : ~(pc[w] = "posting" /\ Attempt(at[w]) = t)
    /\ Advance(t, "running", "finished")

Remote(t) ==
    \/ Advance(t, "sent", "running") \/ Advance(t, "sent", "refused")
    \/ Advance(t, "sent", "dropped") \/ Advance(t, "running", "failed")
    \/ Rendered(t)

Submitter(w) ==
    /\ Worker(w)
    /\ before' = [f \in Fingerprints |-> IF txn'[f].attempt # txn[f].attempt
                                         THEN {t \in TaskIds : remote[t] \in Ends} ELSE before[f]]
    /\ UNCHANGED <<job, hand>>

ReconcileNext ==
    \/ \E w \in Workers : Submitter(w)
    \/ \E t \in TaskIds : Remote(t) /\ UNCHANGED settling
    \/ \E r \in Reconcilers : Reconcile(r)
    \/ \E f \in Fingerprints : AdoptCheck(f)
    \/ AdoptWrite

ReconcileSpec == ReconcileInit /\ [][ReconcileNext]_allvars

-----------------------------------------------------------------------------
(* Properties. *)

ReconcileTypeOK ==
    /\ \A f \in Fingerprints : txn[f].state \in SubmitStates \cup {ZERO_REMOTE, MANUAL}
    /\ job \in [Reconcilers ->
                  [step : {"off", "listed", "rows", "unattributed", "decided"},
                   entries : SUBSET TaskIds, rows : SUBSET TaskIds,
                   decision : {"none", ZERO_REMOTE, BOUND, MANUAL}, lostThen : SUBSET TaskIds]]
    /\ hand \in TaskIds \cup {None}
    /\ before \in [Fingerprints -> SUBSET TaskIds]

\* "bound to NO transaction anywhere" (hopsapi_usage.py:18): however reconcilers of
\* several episodes and submitters overlap, no billed take is bound to two
\* transactions of the store.  (A response that stays lost beyond the lookback, and an
\* adopt that overlaps a reconciliation of another task, break it.)
TaskBoundOnce ==
    \A f, g \in Local : txn[f].task # None /\ txn[f].task = txn[g].task => f = g

\* Of the takes ordered from this store, one is adopted for another order only when
\* the call that ordered it crashed between its POST and its record, which
\* lost_transactions does not list (hopsapi_usage.py:28, "a wrong pairing would
\* harvest one unit's paid clip under another unit").
WrongPairingNeedsCrash ==
    \A f \in Local : txn[f].task # None =>
        LET g == txn[f].task[1] IN g = f \/ g \in Elsewhere \/ txn[g].state = INTENT

\* "foreign rows then block as unattributed" (hopsapi_usage.py:33): a take that another
\* host of the account ordered is never adopted here.
ForeignRowsBlock ==
    \A f \in Local : txn[f].task # None => txn[f].task[1] \notin Elsewhere
=============================================================================
