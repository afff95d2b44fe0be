-------------------------- MODULE BudgetReservation --------------------------
(***************************************************************************)
(* The per-episode credit cap: the reservations of nalu_budget_ledger.py   *)
(* around the paid steps of nalu_pipeline.py.                              *)
(*                                                                         *)
(* A paid step is one orchestrator process.  It runs the ledger's check    *)
(* with --reserve, then the submitter as a child process, and releases its *)
(* reservation only when the submitter exits 0.  The reservations a step   *)
(* leaves behind are settled by later checks.  Nothing keeps two steps of  *)
(* an episode apart here but the reservation itself.                       *)
(*                                                                         *)
(* A task costs one credit, the planning price, and only the HopsAPI leg   *)
(* of the ledger is modelled: a bound task counts at its planning price    *)
(* until it has failed.  The transactions are those of VideoSubmit.        *)
(***************************************************************************)
EXTENDS Naturals, FiniteSets

CONSTANTS
    Steps,    \* paid steps, each an orchestrator process
    Tasks,
    Plan,     \* the tasks each step submits
    Cap

ASSUME BudgetAssumption ==
    /\ IsFiniteSet(Steps) /\ IsFiniteSet(Tasks)
    /\ Plan \in [Steps -> SUBSET Tasks]
    /\ Cap \in Nat

VARIABLES
    txn,       \* the state of each task's transaction file
    reserved,  \* steps with a reserve row and no release row
    since,     \* for each reservation, the tasks whose intent came after it
    alive,     \* steps whose orchestrator is running
    loose,     \* steps ended in a way that their reservation cannot see: history
    pc,        \* where each orchestrator is
    child,     \* its submitter: "none", "running", or how it exited
    posting,   \* the tasks its submitter has recorded an intent for, unanswered
    scan,      \* what its ledger check has read
    lock       \* the holder of the reservation ledger's .lock, or none

files == <<txn, reserved, since>>
owners == <<alive, loose>>
child_vars == <<child, posting>>
procs == <<owners, pc, child_vars, scan, lock>>
vars  == <<files, procs>>

TxnStates == {"ABSENT", "INTENT", "BOUND", "LOST", "MANUAL", "ZERO", "FAILED"}

\* UNRESOLVED_TRANSACTION_STATES block a check; IN_FLIGHT_TRANSACTION_STATES
\* keep a reservation.
Unresolved == {t \in Tasks : txn[t] \in {"LOST", "MANUAL"}}
InFlight   == {t \in Tasks : txn[t] = "INTENT"} \cup Unresolved

\* scan_hopsapi_spend: settled credits and pending exposure.
Counted == Cardinality({t \in Tasks : txn[t] = "BOUND"})

\* The credits reserved by a set of steps, one element each.
Claims(S) == {c \in S \X Tasks : c[2] \in Plan[c[1]]}

NoScan == [rows |-> {}, inflight |-> [s \in Steps |-> {}], held |-> {}, settled |-> {},
           blocked |-> FALSE]

Init ==
    /\ txn = [t \in Tasks |-> "ABSENT"]
    /\ reserved = {}
    /\ since = [s \in Steps |-> {}]
    /\ alive = Steps
    /\ loose = {}
    /\ pc = [s \in Steps |-> "check"]
    /\ child = [s \in Steps |-> "none"]
    /\ posting = [s \in Steps |-> {}]
    /\ scan = [s \in Steps |-> NoScan]
    /\ lock = {}

-----------------------------------------------------------------------------
(* build_report, and reserve_credits inside the flock. *)

Goto(s, place) == pc' = [pc EXCEPT ![s] = place]

Locked(s) == lock = {s}

\* The ledger's process ends.
Forget(s) == scan' = [scan EXCEPT ![s] = NoScan]

\* build_report reads the transaction states first.
ReadTransactions(s) ==
    /\ pc[s] = "check"
    /\ scan' = [scan EXCEPT ![s] = [NoScan EXCEPT !.blocked = Unresolved # {}]]
    /\ Goto(s, "rows")
    /\ UNCHANGED <<files, owners, child_vars, lock>>

\* scan_reservations: the ledger's rows, then the spend evidence, then the owners.
ReadRows(s) ==
    /\ pc[s] = "rows"
    /\ scan' = [scan EXCEPT ![s].rows = reserved]
    /\ Goto(s, "evidence")
    /\ UNCHANGED <<files, owners, child_vars, lock>>

ReadEvidence(s) ==
    /\ pc[s] = "evidence"
    /\ scan' = [scan EXCEPT ![s].inflight =
                   [r \in Steps |-> IF r \in scan[s].rows THEN since[r] \cap InFlight ELSE {}]]
    /\ Goto(s, "owners")
    /\ UNCHANGED <<files, owners, child_vars, lock>>

\* Mutant of OwnerEnded: what is in flight is not looked at.
OwnerGone(s, r) == r \notin alive

\* A reservation of an ended owner is settled when nothing since is in flight.
OwnerEnded(s, r) == r \notin alive /\ scan[s].inflight[r] = {}

JudgeOwners(s) ==
    LET settled == {r \in scan[s].rows : OwnerEnded(s, r)}
    IN  /\ pc[s] = "owners"
        /\ scan' = [scan EXCEPT ![s] = [NoScan EXCEPT !.held = scan[s].rows \ settled,
                                                      !.settled = settled,
                                                      !.blocked = scan[s].blocked]]
        /\ Goto(s, IF Locked(s) THEN "admit" ELSE "settle")
        /\ UNCHANGED <<files, owners, child_vars, lock>>

\* build_report appends a release row for each settled reservation, under the flock.
ReleaseSettled(s) ==
    /\ pc[s] = "settle" /\ lock = {}
    /\ \E r \in scan[s].settled :
          /\ reserved' = reserved \ {r}
          /\ scan' = [scan EXCEPT ![s].settled = @ \ {r}]
    /\ UNCHANGED <<txn, since, owners, pc, child_vars, lock>>

\* Mutant of Projected: the tasks bound already are not added.
ProjectedReserved(s) == Cardinality(Claims(scan[s].held)) + Cardinality(Plan[s])

Projected(s) == Counted + Cardinality(Claims(scan[s].held)) + Cardinality(Plan[s])

CheckPasses(s) ==
    /\ pc[s] = "settle" /\ scan[s].settled = {}
    /\ ~scan[s].blocked /\ Projected(s) <= Cap
    /\ Goto(s, "lock")
    /\ UNCHANGED <<files, owners, child_vars, scan, lock>>

\* The check exits 2: HARD_STOP, no POST.
CheckRefuses(s) ==
    /\ pc[s] = "settle" /\ scan[s].settled = {}
    /\ scan[s].blocked \/ Projected(s) > Cap
    /\ Goto(s, "stopped")
    /\ Forget(s)
    /\ UNCHANGED <<files, owners, child_vars, lock>>

\* reserve_credits scans again under the flock.
TakeLock(s) ==
    /\ pc[s] = "lock" /\ lock = {}
    /\ lock' = {s}
    /\ Goto(s, "rows")
    /\ UNCHANGED <<files, owners, child_vars, scan>>

Reserve(s) ==
    /\ pc[s] = "admit"
    /\ Projected(s) <= Cap
    /\ reserved' = reserved \cup {s}
    /\ lock' = {}
    /\ Goto(s, "submit")
    /\ Forget(s)
    /\ UNCHANGED <<txn, since, owners, child_vars>>

ReserveRefuses(s) ==
    /\ pc[s] = "admit"
    /\ Projected(s) > Cap
    /\ lock' = {}
    /\ Goto(s, "stopped")
    /\ Forget(s)
    /\ UNCHANGED <<files, owners, child_vars>>

Check(s) ==
    \/ ReadTransactions(s) \/ ReadRows(s) \/ ReadEvidence(s) \/ JudgeOwners(s)
    \/ ReleaseSettled(s) \/ CheckPasses(s) \/ CheckRefuses(s)
    \/ TakeLock(s) \/ Reserve(s) \/ ReserveRefuses(s)

-----------------------------------------------------------------------------
(* The submitter, a child of the orchestrator. *)

StartChild(s) ==
    /\ pc[s] = "submit"
    /\ child' = [child EXCEPT ![s] = "running"]
    /\ Goto(s, "wait")
    /\ UNCHANGED <<files, owners, posting, scan, lock>>

\* The intent is written before the POST; it is "since" every reservation made so far.
RecordIntent(s, t) ==
    /\ child[s] = "running"
    /\ t \in Plan[s] /\ txn[t] \in {"ABSENT", "ZERO"}
    /\ txn' = [txn EXCEPT ![t] = "INTENT"]
    /\ since' = [r \in Steps |-> IF r \in reserved THEN since[r] \cup {t} ELSE since[r]]
    /\ posting' = [posting EXCEPT ![s] = @ \cup {t}]
    /\ UNCHANGED <<reserved, owners, pc, child, scan, lock>>

\* The answer binds the task, refuses it at no charge, or is lost.
Answer(s, t) ==
    /\ t \in posting[s]
    /\ \E outcome \in {"BOUND", "ZERO", "LOST"} : txn' = [txn EXCEPT ![t] = outcome]
    /\ posting' = [posting EXCEPT ![s] = @ \ {t}]
    /\ UNCHANGED <<reserved, since, owners, pc, child, scan, lock>>

\* Mutant of EndChild: the submitter does not wait for its open posts.
EndChildEarly(s) ==
    /\ child[s] = "running"
    /\ child' = [child EXCEPT ![s] = "failed"]
    /\ UNCHANGED <<files, owners, pc, posting, scan, lock>>

\* The submitter exits 0 when every task of the step is bound.
EndChild(s) ==
    /\ child[s] = "running" /\ posting[s] = {}
    /\ child' = [child EXCEPT ![s] =
          IF \A t \in Plan[s] : txn[t] \in {"BOUND", "FAILED"} THEN "ok" ELSE "failed"]
    /\ UNCHANGED <<files, owners, pc, posting, scan, lock>>

\* subprocess.run kills the submitter at the step's timeout, or it dies by itself:
\* its intents stay.
KillChild(s) ==
    /\ child[s] = "running"
    /\ child' = [child EXCEPT ![s] = "failed"]
    /\ posting' = [posting EXCEPT ![s] = {}]
    /\ UNCHANGED <<files, owners, pc, scan, lock>>

-----------------------------------------------------------------------------
(* The rest of paid_step, and the end of its process. *)

\* budget_release, only after exit 0.
BudgetRelease(s) ==
    /\ pc[s] = "wait" /\ child[s] = "ok" /\ lock = {}
    /\ reserved' = reserved \ {s}
    /\ Goto(s, "stopped")
    /\ UNCHANGED <<txn, since, owners, child_vars, scan, lock>>

\* KEEP_UNTIL_LEDGER_RECONCILIATION.
KeepReservation(s) ==
    /\ pc[s] = "wait" /\ child[s] = "failed"
    /\ Goto(s, "stopped")
    /\ UNCHANGED <<files, owners, child_vars, scan, lock>>

\* The end of an owner that a scan cannot judge: its submitter runs on, or a scan
\* that has already read its evidence missed what is in flight since.
Loosens(s) ==
    \/ child[s] = "running"
    \/ /\ since[s] \cap InFlight # {}
       /\ \E q \in Steps : pc[q] = "owners" /\ s \in scan[q].rows /\ scan[q].inflight[s] = {}

OwnerEnds(s) ==
    /\ s \in alive
    /\ alive' = alive \ {s}
    /\ loose' = IF Loosens(s) THEN loose \cup {s} ELSE loose

EndOwner(s) ==
    /\ pc[s] = "stopped"
    /\ OwnerEnds(s)
    /\ UNCHANGED <<files, pc, child_vars, scan, lock>>

\* The orchestrator is killed.  Nothing ties its submitter to it: subprocess.run
\* sets no process group and no parent-death signal.
KillOwner(s) ==
    /\ pc[s] \in {"submit", "wait"}
    /\ OwnerEnds(s)
    /\ Goto(s, "stopped")
    /\ UNCHANGED <<files, child_vars, scan, lock>>

-----------------------------------------------------------------------------
(* What settles a transaction later: hopsapi_usage.py, an operator, the poller. *)

Reconcile(t) ==
    /\ \/ txn[t] = "LOST" /\ txn' \in {[txn EXCEPT ![t] = x] : x \in {"BOUND", "ZERO", "MANUAL"}}
       \/ txn[t] = "MANUAL" /\ txn' \in {[txn EXCEPT ![t] = x] : x \in {"BOUND", "ZERO"}}
    /\ UNCHANGED <<reserved, since, procs>>

TerminalFailure(t) ==
    /\ txn[t] = "BOUND"
    /\ txn' = [txn EXCEPT ![t] = "FAILED"]
    /\ UNCHANGED <<reserved, since, procs>>

Next ==
    \/ \E s \in Steps :
          \/ Check(s) \/ StartChild(s) \/ EndChild(s) \/ KillChild(s)
          \/ BudgetRelease(s) \/ KeepReservation(s) \/ EndOwner(s) \/ KillOwner(s)
          \/ \E t \in Tasks : RecordIntent(s, t) \/ Answer(s, t)
    \/ \E t \in Tasks : Reconcile(t) \/ TerminalFailure(t)

Spec == Init /\ [][Next]_vars

-----------------------------------------------------------------------------
(* Properties. *)

\* Types of the files, the processes and the scans.  Only a running submitter has
\* posts out, and the flock has one holder.
BudgetTypeOK ==
    /\ txn \in [Tasks -> TxnStates]
    /\ reserved \subseteq Steps
    /\ since \in [Steps -> SUBSET Tasks]
    /\ alive \subseteq Steps
    /\ loose \subseteq Steps
    /\ pc \in [Steps -> {"check", "rows", "evidence", "owners", "settle", "lock", "admit",
                         "submit", "wait", "stopped"}]
    /\ child \in [Steps -> {"none", "running", "ok", "failed"}]
    /\ posting \in [Steps -> SUBSET Tasks]
    /\ scan \in [Steps -> [rows : SUBSET Steps, inflight : [Steps -> SUBSET Tasks],
                           held : SUBSET Steps, settled : SUBSET Steps, blocked : BOOLEAN]]
    /\ \A s \in Steps : posting[s] # {} => child[s] = "running"
    /\ lock \in {{}} \cup {{s} : s \in Steps}

\* The tasks of the steps no reservation can vouch for.
LooseTasks == UNION {Plan[s] : s \in loose}

\* What the provider can charge for the episode never exceeds the cap, beside the
\* tasks of loose steps: tasks bound, posted without an answer, lost, or waiting
\* for an operator.
CapNeverExceeded ==
    Cardinality(({t \in Tasks : txn[t] = "BOUND"} \cup InFlight) \ LooseTasks) <= Cap

\* A task whose charge is unknown stays under a reservation made for it before its
\* intent, which no check and no exit releases while it is unknown: with no
\* exception but the tasks of a step whose orchestrator was killed over a running
\* submitter, or ended between the two readings of a scan.
InFlightIsReserved ==
    \A t \in InFlight : \/ \E r \in reserved : t \in Plan[r] \cap since[r]
                        \/ \E s \in loose : t \in Plan[s]

\* The same without the exception, which is what the code says of itself: a
\* reservation whose window holds a transaction in flight is never treated as
\* settled, and everything a settled step has submitted is bound, reconciled or
\* unresolved.  A submitter that outlives its orchestrator violates it.
InFlightNeverSettled ==
    \A t \in InFlight : \E r \in reserved : t \in Plan[r] \cap since[r]

=============================================================================
