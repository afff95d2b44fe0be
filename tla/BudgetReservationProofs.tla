------------------------ MODULE BudgetReservationProofs ------------------------
(***************************************************************************)
(* Theorems of BudgetReservation, for any finite sets of steps and tasks,  *)
(* any plans, overlapping or not, and any cap.                             *)
(***************************************************************************)
EXTENDS BudgetReservation, FiniteSetTheorems, TLAPS

Places == {"check", "rows", "evidence", "owners", "settle", "lock", "admit", "submit", "wait", "stopped"}
Scans == [rows : SUBSET Steps, inflight : [Steps -> SUBSET Tasks],
          held : SUBSET Steps, settled : SUBSET Steps, blocked : BOOLEAN]

\* The flock is held for the second scan of a check only, during which the ledger
\* does not change: the scan accounts for every reservation.
LockInv == \A s \in Steps :
    /\ lock = {s} => pc[s] \in {"rows", "evidence", "owners", "admit"}
    /\ pc[s] = "admit" => lock = {s} /\ reserved \subseteq scan[s].held \cup scan[s].settled
    /\ lock = {s} /\ pc[s] \in {"evidence", "owners"} => reserved \subseteq scan[s].rows

\* A submitter runs for a living owner, under its reservation, or its step is loose; an
\* owner that is gone does nothing more.
OwnerInv == \A s \in Steps :
    /\ s \notin alive => pc[s] = "stopped"
    /\ pc[s] \in {"submit", "wait"} => s \in reserved
    /\ child[s] = "running" => pc[s] = "wait" \/ s \in loose
    /\ child[s] = "ok" => \A t \in Plan[s] : txn[t] \in {"BOUND", "FAILED"}

\* An unanswered post belongs to one submitter.
PostInv == \A s \in Steps : \A t \in posting[s] :
    /\ txn[t] = "INTENT"
    /\ \A q \in Steps \ {s} : t \notin posting[q]

\* What a scan is about to settle has no owner any more.
SettledInv == \A q \in Steps : \A r \in scan[q].settled : r \notin alive

\* A scan that found r's owner gone and nothing of r in flight settles it, or will.
Condemned(q, r) ==
    \/ r \in scan[q].settled
    \/ pc[q] = "owners" /\ r \in scan[q].rows /\ OwnerEnded(q, r)

\* A task in flight is under a reservation that no scan is about to settle, or its
\* step is loose.
Covered(t) == \E r \in reserved :
    t \in Plan[r] \cap since[r] /\ \A q \in Steps : ~Condemned(q, r)

CoverInv == \A t \in InFlight \ LooseTasks : Covered(t)

\* What may be charged now, or once the living owners of reservations have posted
\* all of their plans, loose steps aside.
Exposed == {t \in Tasks \ LooseTasks : \/ txn[t] = "BOUND"
                                       \/ t \in InFlight
                                       \/ \E r \in reserved \cap alive : t \in Plan[r]}

ExposureInv == Cardinality(Exposed) <= Cap

IInv ==
    /\ BudgetTypeOK /\ LockInv /\ OwnerInv /\ PostInv /\ SettledInv
    /\ CoverInv /\ ExposureInv

USE BudgetAssumption

-----------------------------------------------------------------------------
(* What the actions write. *)

LEMMA NoScanType ==
    /\ NoScan \in Scans
    /\ NoScan.rows = {} /\ NoScan.held = {} /\ NoScan.settled = {}
  BY DEF NoScan, Scans

LEMMA Kept ==
    /\ UNCHANGED files => UNCHANGED <<txn, reserved, since>>
    /\ UNCHANGED child_vars => UNCHANGED <<child, posting>>
    /\ UNCHANGED owners => UNCHANGED <<alive, loose>>
    /\ UNCHANGED procs => UNCHANGED <<alive, loose, pc, child, posting, scan, lock>>
    /\ UNCHANGED vars => UNCHANGED <<txn, reserved, since, alive, loose, pc, child, posting, scan, lock>>
  BY DEF files, owners, child_vars, procs, vars

LEMMA TypeParts ==
  BudgetTypeOK =>
    /\ txn \in [Tasks -> TxnStates] /\ reserved \subseteq Steps /\ since \in [Steps -> SUBSET Tasks]
    /\ alive \subseteq Steps /\ loose \subseteq Steps /\ pc \in [Steps -> Places]
    /\ child \in [Steps -> {"none", "running", "ok", "failed"}]
    /\ posting \in [Steps -> SUBSET Tasks] /\ scan \in [Steps -> Scans]
    /\ lock \in {{}} \cup {{s} : s \in Steps}
    /\ \A s \in Steps : posting[s] # {} => child[s] = "running"
  BY DEF BudgetTypeOK, Places, Scans

LEMMA Going ==
  ASSUME BudgetTypeOK, NEW s \in Steps, NEW place \in Places, Goto(s, place)
  PROVE  /\ pc' \in [Steps -> Places] /\ pc'[s] = place
         /\ \A q \in Steps \ {s} : pc'[q] = pc[q]
<1>1. pc \in [Steps -> Places]
  BY TypeParts
<1>2. QED
  BY <1>1 DEF Goto

LEMMA Forgetting ==
  ASSUME BudgetTypeOK, NEW s \in Steps, Forget(s)
  PROVE  /\ scan' \in [Steps -> Scans] /\ scan'[s].settled = {}
         /\ \A q \in Steps \ {s} : scan'[q] = scan[q]
<1>1. scan \in [Steps -> Scans]
  BY TypeParts
<1>2. QED
  BY <1>1, NoScanType DEF Forget

\* Writes of one part of a scan.
LEMMA ScanWrites ==
  ASSUME NEW x \in Scans, NEW S \in SUBSET Steps, NEW f \in [Steps -> SUBSET Tasks]
  PROVE  /\ [x EXCEPT !.rows = S] \in Scans
         /\ [x EXCEPT !.rows = S].rows = S
         /\ [x EXCEPT !.rows = S].settled = x.settled
         /\ [x EXCEPT !.settled = S] \in Scans
         /\ [x EXCEPT !.settled = S].settled = S
         /\ [x EXCEPT !.inflight = f] \in Scans
         /\ [x EXCEPT !.inflight = f].inflight = f
         /\ [x EXCEPT !.inflight = f].settled = x.settled
         /\ [x EXCEPT !.inflight = f].rows = x.rows
  BY DEF Scans

\* The two writes that take a set of steps, for any such set.
LEMMA ScanSets ==
  ASSUME NEW x \in Scans, NEW S \in SUBSET Steps
  PROVE  /\ [x EXCEPT !.settled = S] \in Scans /\ [x EXCEPT !.settled = S].settled = S
         /\ [x EXCEPT !.rows = S] \in Scans /\ [x EXCEPT !.rows = S].settled = x.settled
  BY DEF Scans

LEMMA ReadTransactionsEffect ==
  ASSUME BudgetTypeOK, NEW s \in Steps, ReadTransactions(s)
  PROVE  /\ scan' \in [Steps -> Scans] /\ scan'[s].settled = {}
         /\ \A q \in Steps \ {s} : scan'[q] = scan[q]
<1> DEFINE new == [NoScan EXCEPT !.blocked = Unresolved # {}]
<1>1. scan \in [Steps -> Scans]
  BY TypeParts
<1>2. new \in Scans /\ new.settled = {}
  BY NoScanType DEF Scans
<1>3. scan' = [scan EXCEPT ![s] = new]
  BY DEF ReadTransactions
<1> HIDE DEF new
<1>4. QED
  BY <1>1, <1>2, <1>3

LEMMA ReadRowsEffect ==
  ASSUME BudgetTypeOK, NEW s \in Steps, ReadRows(s)
  PROVE  /\ scan' \in [Steps -> Scans] /\ scan'[s].rows = reserved /\ scan'[s].settled = scan[s].settled
         /\ \A q \in Steps \ {s} : scan'[q] = scan[q]
<1>1. scan \in [Steps -> Scans] /\ reserved \subseteq Steps
  BY TypeParts
<1> DEFINE new == [scan[s] EXCEPT !.rows = reserved]
<1>2. scan' = [scan EXCEPT ![s] = new]
  BY <1>1 DEF ReadRows
<1>3. new \in Scans /\ new.rows = reserved /\ new.settled = scan[s].settled
  <2>1. scan[s] \in Scans /\ reserved \in SUBSET Steps
    BY <1>1
  <2>2. QED
    BY <2>1, ScanWrites
<1> HIDE DEF new
<1>4. QED
  BY <1>1, <1>2, <1>3

LEMMA ReadEvidenceEffect ==
  ASSUME BudgetTypeOK, NEW s \in Steps, ReadEvidence(s)
  PROVE  /\ scan' \in [Steps -> Scans] /\ scan'[s].rows = scan[s].rows /\ scan'[s].settled = scan[s].settled
         /\ \A r \in scan[s].rows : scan'[s].inflight[r] = since[r] \cap InFlight
         /\ \A q \in Steps \ {s} : scan'[q] = scan[q]
<1> DEFINE new == [r \in Steps |-> IF r \in scan[s].rows THEN since[r] \cap InFlight ELSE {}]
<1>1. scan \in [Steps -> Scans] /\ since \in [Steps -> SUBSET Tasks]
  BY TypeParts
<1>2. new \in [Steps -> SUBSET Tasks] /\ scan[s].rows \subseteq Steps
  BY <1>1 DEF Scans
<1>3. \A r \in scan[s].rows : new[r] = since[r] \cap InFlight
  BY <1>2
<1> DEFINE read == [scan[s] EXCEPT !.inflight = new]
<1>4. scan' = [scan EXCEPT ![s] = read]
  BY <1>1 DEF ReadEvidence
<1> HIDE DEF new
<1>5. /\ read \in Scans /\ read.rows = scan[s].rows /\ read.settled = scan[s].settled
      /\ read.inflight = new
  <2>1. scan[s] \in Scans
    BY <1>1
  <2>2. QED
    BY <2>1, <1>2 DEF Scans
<1> HIDE DEF read
<1>6. QED
  BY <1>1, <1>3, <1>4, <1>5

LEMMA JudgeOwnersEffect ==
  ASSUME BudgetTypeOK, NEW s \in Steps, JudgeOwners(s)
  PROVE  /\ scan' \in [Steps -> Scans]
         /\ scan'[s].settled = {r \in scan[s].rows : OwnerEnded(s, r)}
         /\ scan'[s].held = scan[s].rows \ scan'[s].settled
         /\ \A q \in Steps \ {s} : scan'[q] = scan[q]
<1> DEFINE gone == {r \in scan[s].rows : OwnerEnded(s, r)}
           new == [NoScan EXCEPT !.held = scan[s].rows \ gone, !.settled = gone, !.blocked = scan[s].blocked]
<1>1. scan \in [Steps -> Scans]
  BY TypeParts
<1>2. scan' = [scan EXCEPT ![s] = new]
  BY DEF JudgeOwners
<1>3. gone \subseteq Steps /\ scan[s].rows \ gone \subseteq Steps /\ scan[s].blocked \in BOOLEAN
  BY <1>1 DEF Scans
<1> HIDE DEF gone
<1>4. new \in Scans /\ new.settled = gone /\ new.held = scan[s].rows \ gone
  BY <1>3, NoScanType DEF Scans
<1> HIDE DEF new
<1>5. QED
  BY <1>1, <1>2, <1>4 DEF gone

LEMMA ReleaseSettledEffect ==
  ASSUME BudgetTypeOK, NEW s \in Steps, ReleaseSettled(s)
  PROVE  \E r \in scan[s].settled :
            /\ reserved' = reserved \ {r}
            /\ scan' \in [Steps -> Scans] /\ scan'[s].settled = scan[s].settled \ {r}
            /\ \A q \in Steps \ {s} : scan'[q] = scan[q]
<1>1. scan \in [Steps -> Scans]
  BY TypeParts
<1>2. PICK r \in scan[s].settled :
         reserved' = reserved \ {r} /\ scan' = [scan EXCEPT ![s].settled = @ \ {r}]
  BY DEF ReleaseSettled
<1> DEFINE new == [scan[s] EXCEPT !.settled = scan[s].settled \ {r}]
<1>3. scan' = [scan EXCEPT ![s] = new]
  BY <1>1, <1>2
<1>4. new \in Scans /\ new.settled = scan[s].settled \ {r}
  <2>1. scan[s] \in Scans /\ scan[s].settled \ {r} \in SUBSET Steps
    BY <1>1 DEF Scans
  <2>2. QED
    BY <2>1, ScanSets
<1> HIDE DEF new
<1>5. QED
  BY <1>1, <1>2, <1>3, <1>4

\* The steps of the system, one disjunct per action.
LEMMA StepCases ==
  ASSUME [Next]_vars
  PROVE  \/ \E s \in Steps : Check(s) \/ StartChild(s) \/ EndChild(s) \/ KillChild(s)
                             \/ BudgetRelease(s) \/ KeepReservation(s) \/ EndOwner(s) \/ KillOwner(s)
         \/ \E s \in Steps, t \in Tasks : RecordIntent(s, t) \/ Answer(s, t)
         \/ \E t \in Tasks : Reconcile(t) \/ TerminalFailure(t)
         \/ UNCHANGED vars
  BY DEF Next

-----------------------------------------------------------------------------
(* Type correctness. *)

LEMMA InitType == Init => BudgetTypeOK
<1> SUFFICES ASSUME Init PROVE BudgetTypeOK
  OBVIOUS
<1>1. scan \in [Steps -> Scans]
  BY NoScanType DEF Init
<1>2. QED
  BY <1>1 DEF Init, BudgetTypeOK, TxnStates, Scans

LEMMA TypeStep == BudgetTypeOK /\ [Next]_vars => BudgetTypeOK'
<1> SUFFICES ASSUME BudgetTypeOK, [Next]_vars PROVE BudgetTypeOK'
  OBVIOUS
<1> DEFINE Children == [Steps -> {"none", "running", "ok", "failed"}]
           Locks == {{}} \cup {{s} : s \in Steps}
<1>a. /\ txn \in [Tasks -> TxnStates] /\ reserved \subseteq Steps /\ since \in [Steps -> SUBSET Tasks]
      /\ alive \subseteq Steps /\ loose \subseteq Steps /\ pc \in [Steps -> Places] /\ child \in Children
      /\ posting \in [Steps -> SUBSET Tasks] /\ scan \in [Steps -> Scans] /\ lock \in Locks
      /\ \A s \in Steps : posting[s] # {} => child[s] = "running"
  BY TypeParts
<1>p. ASSUME txn' \in [Tasks -> TxnStates], reserved' \subseteq Steps, since' \in [Steps -> SUBSET Tasks],
             alive' \subseteq Steps, loose' \subseteq Steps, pc' \in [Steps -> Places], child' \in Children,
             posting' \in [Steps -> SUBSET Tasks], scan' \in [Steps -> Scans], lock' \in Locks,
             \A s \in Steps : posting'[s] # {} => child'[s] = "running"
      PROVE  BudgetTypeOK'
  BY <1>p DEF BudgetTypeOK, Places, Scans
<1> HIDE DEF Children, Locks
<1>g. \A s \in Steps, place \in Places : Goto(s, place) => pc' \in [Steps -> Places]
  BY Going
<1>c. ASSUME NEW s \in Steps, UNCHANGED <<txn, since, alive, loose, child, posting>>,
             reserved' \subseteq Steps, NEW place \in Places, Goto(s, place),
             scan' \in [Steps -> Scans], lock' \in {lock, {}, {s}}
      PROVE  BudgetTypeOK'
  <2>1. lock' \in Locks
    BY <1>c, <1>a DEF Locks
  <2>2. QED
    BY <1>c, <1>a, <1>g, <1>p, <2>1
<1> USE Kept
<1>1. ASSUME NEW s \in Steps, Check(s) PROVE BudgetTypeOK'
  <2>1. CASE ReadTransactions(s)
    BY <2>1, <1>a, <1>c, ReadTransactionsEffect DEF ReadTransactions, Places
  <2>2. CASE ReadRows(s)
    BY <2>2, <1>a, <1>c, ReadRowsEffect DEF ReadRows, Places
  <2>3. CASE ReadEvidence(s)
    BY <2>3, <1>a, <1>c, ReadEvidenceEffect DEF ReadEvidence, Places
  <2>4. CASE JudgeOwners(s)
    <3>1. PICK place \in {"admit", "settle"} : Goto(s, place)
      BY <2>4 DEF JudgeOwners
    <3>2. scan' \in [Steps -> Scans]
      BY <2>4, JudgeOwnersEffect
    <3>3. QED
      BY <2>4, <3>1, <3>2, <1>a, <1>c DEF JudgeOwners, Places
  <2>5. CASE ReleaseSettled(s)
    <3>1. reserved' \subseteq Steps /\ scan' \in [Steps -> Scans]
      BY <2>5, <1>a, ReleaseSettledEffect
    <3>2. QED
      BY <2>5, <3>1, <1>a, <1>p DEF ReleaseSettled
  <2>6. CASE CheckPasses(s)
    BY <2>6, <1>a, <1>c DEF CheckPasses, Places
  <2>7. CASE CheckRefuses(s)
    BY <2>7, <1>a, <1>c, Forgetting DEF CheckRefuses, Places
  <2>8. CASE TakeLock(s)
    BY <2>8, <1>a, <1>c DEF TakeLock, Places
  <2>9. CASE Reserve(s)
    BY <2>9, <1>a, <1>c, Forgetting DEF Reserve, Places
  <2>10. CASE ReserveRefuses(s)
    BY <2>10, <1>a, <1>c, Forgetting DEF ReserveRefuses, Places
  <2>11. QED
    BY <1>1, <2>1, <2>2, <2>3, <2>4, <2>5, <2>6, <2>7, <2>8, <2>9, <2>10 DEF Check
<1>2. ASSUME NEW s \in Steps, StartChild(s) PROVE BudgetTypeOK'
  <2>1. child' \in Children /\ \A q \in Steps : posting[q] # {} => child'[q] = "running"
    BY <1>2, <1>a DEF StartChild, Children
  <2>2. QED
    BY <1>2, <1>a, <1>g, <1>p, <2>1 DEF StartChild, Places
<1>3. ASSUME NEW s \in Steps, EndChild(s) PROVE BudgetTypeOK'
  <2>1. child' \in Children /\ \A q \in Steps : posting[q] # {} => child'[q] = "running"
    BY <1>3, <1>a DEF EndChild, Children
  <2>2. QED
    BY <1>3, <1>a, <1>p, <2>1 DEF EndChild
<1>4. ASSUME NEW s \in Steps, KillChild(s) PROVE BudgetTypeOK'
  <2>1. /\ child' \in Children /\ posting' \in [Steps -> SUBSET Tasks]
        /\ \A q \in Steps : posting'[q] # {} => child'[q] = "running"
    BY <1>4, <1>a DEF KillChild, Children
  <2>2. QED
    BY <1>4, <1>a, <1>p, <2>1 DEF KillChild
<1>5. ASSUME NEW s \in Steps, BudgetRelease(s) \/ KeepReservation(s) PROVE BudgetTypeOK'
  BY <1>5, <1>a, <1>c DEF BudgetRelease, KeepReservation, Places
<1>6. ASSUME NEW s \in Steps, EndOwner(s) PROVE BudgetTypeOK'
  BY <1>6, <1>a, <1>p DEF EndOwner, OwnerEnds
<1>7. ASSUME NEW s \in Steps, KillOwner(s) PROVE BudgetTypeOK'
  BY <1>7, <1>a, <1>g, <1>p DEF KillOwner, OwnerEnds, Places
<1>8. ASSUME NEW s \in Steps, NEW t \in Tasks, RecordIntent(s, t) PROVE BudgetTypeOK'
  <2>1. txn' \in [Tasks -> TxnStates]
    BY <1>8, <1>a DEF RecordIntent, TxnStates
  <2>2. since' \in [Steps -> SUBSET Tasks]
    BY <1>8, <1>a DEF RecordIntent
  <2>3. posting' \in [Steps -> SUBSET Tasks] /\ \A q \in Steps : posting'[q] # {} => child[q] = "running"
    BY <1>8, <1>a DEF RecordIntent
  <2>4. QED
    BY <1>8, <1>a, <1>p, <2>1, <2>2, <2>3 DEF RecordIntent
<1>9. ASSUME NEW s \in Steps, NEW t \in Tasks, Answer(s, t) PROVE BudgetTypeOK'
  <2>1. txn' \in [Tasks -> TxnStates]
    BY <1>9, <1>a DEF Answer, TxnStates
  <2>2. posting' \in [Steps -> SUBSET Tasks] /\ \A q \in Steps : posting'[q] # {} => child[q] = "running"
    BY <1>9, <1>a DEF Answer
  <2>3. QED
    BY <1>9, <1>a, <1>p, <2>1, <2>2 DEF Answer
<1>10. ASSUME NEW t \in Tasks, Reconcile(t) \/ TerminalFailure(t) PROVE BudgetTypeOK'
  <2>1. txn' \in [Tasks -> TxnStates]
    BY <1>10, <1>a DEF Reconcile, TerminalFailure, TxnStates
  <2>2. UNCHANGED <<reserved, since, alive, loose, pc, child, posting, scan, lock>>
    BY <1>10 DEF Reconcile, TerminalFailure
  <2>3. QED
    BY <1>a, <1>p, <2>1, <2>2
<1>11. CASE UNCHANGED vars
  BY <1>11, <1>a, <1>p
<1>12. QED
  BY StepCases, <1>1, <1>2, <1>3, <1>4, <1>5, <1>6, <1>7, <1>8, <1>9, <1>10, <1>11

\* Type correctness of the reservations (BudgetTypeOK).
THEOREM BudgetTypeCorrect == Spec => []BudgetTypeOK
<1>1. QED
  BY InitType, TypeStep, PTL DEF Spec

-----------------------------------------------------------------------------
(* The check, step by step. *)

LEMMA CheckEffect ==
  ASSUME BudgetTypeOK, NEW s \in Steps, Check(s)
  PROVE  /\ UNCHANGED <<txn, since, alive, loose, child, posting>>
         /\ \A q \in Steps \ {s} : pc'[q] = pc[q] /\ scan'[q] = scan[q]
         /\ \/ /\ pc[s] = "check" /\ pc'[s] = "rows" /\ UNCHANGED <<reserved, lock>>
               /\ scan'[s].settled = {}
            \/ /\ pc[s] = "rows" /\ pc'[s] = "evidence" /\ UNCHANGED <<reserved, lock>>
               /\ scan'[s].rows = reserved /\ scan'[s].settled = scan[s].settled
            \/ /\ pc[s] = "evidence" /\ pc'[s] = "owners" /\ UNCHANGED <<reserved, lock>>
               /\ scan'[s].rows = scan[s].rows /\ scan'[s].settled = scan[s].settled
               /\ \A r \in scan[s].rows : scan'[s].inflight[r] = since[r] \cap InFlight
            \/ /\ pc[s] = "owners" /\ pc'[s] = (IF lock = {s} THEN "admit" ELSE "settle")
               /\ UNCHANGED <<reserved, lock>>
               /\ scan'[s].settled = {r \in scan[s].rows : OwnerEnded(s, r)}
               /\ scan'[s].held = scan[s].rows \ scan'[s].settled
            \/ /\ pc[s] = "settle" /\ pc'[s] = "settle" /\ lock = {} /\ lock' = lock
               /\ \E r \in scan[s].settled : /\ reserved' = reserved \ {r}
                                             /\ scan'[s].settled = scan[s].settled \ {r}
            \/ /\ pc[s] = "settle" /\ pc'[s] = "lock" /\ UNCHANGED <<reserved, lock>> /\ scan' = scan
            \/ /\ pc[s] = "settle" /\ pc'[s] = "stopped" /\ UNCHANGED <<reserved, lock>>
               /\ scan'[s].settled = {}
            \/ /\ pc[s] = "lock" /\ pc'[s] = "rows" /\ reserved' = reserved /\ scan' = scan
               /\ lock = {} /\ lock' = {s}
            \/ /\ pc[s] = "admit" /\ pc'[s] = "submit" /\ Projected(s) <= Cap
               /\ reserved' = reserved \cup {s} /\ lock' = {} /\ scan'[s].settled = {}
            \/ /\ pc[s] = "admit" /\ pc'[s] = "stopped"
               /\ reserved' = reserved /\ lock' = {} /\ scan'[s].settled = {}
<1> USE Kept
<1>1. CASE ReadTransactions(s)
  BY <1>1, Going, ReadTransactionsEffect DEF ReadTransactions, Places
<1>2. CASE ReadRows(s)
  BY <1>2, Going, ReadRowsEffect DEF ReadRows, Places
<1>3. CASE ReadEvidence(s)
  BY <1>3, Going, ReadEvidenceEffect DEF ReadEvidence, Places
<1>4. CASE JudgeOwners(s)
  <2> DEFINE place == IF lock = {s} THEN "admit" ELSE "settle"
  <2>1. Goto(s, place) /\ place \in Places
    BY <1>4 DEF JudgeOwners, Locked, Places
  <2>2. pc'[s] = place /\ \A q \in Steps \ {s} : pc'[q] = pc[q]
    BY <2>1, Going
  <2>3. QED
    BY <1>4, <2>2, JudgeOwnersEffect DEF JudgeOwners
<1>5. CASE ReleaseSettled(s)
  BY <1>5, ReleaseSettledEffect DEF ReleaseSettled
<1>6. CASE CheckPasses(s)
  BY <1>6, Going DEF CheckPasses, Places
<1>7. CASE CheckRefuses(s)
  BY <1>7, Going, Forgetting DEF CheckRefuses, Places
<1>8. CASE TakeLock(s)
  BY <1>8, Going DEF TakeLock, Places
<1>9. CASE Reserve(s)
  BY <1>9, Going, Forgetting DEF Reserve, Places
<1>10. CASE ReserveRefuses(s)
  BY <1>10, Going, Forgetting DEF ReserveRefuses, Places
<1>11. QED
  BY <1>1, <1>2, <1>3, <1>4, <1>5, <1>6, <1>7, <1>8, <1>9, <1>10 DEF Check

\* The steps that are no check leave the flock and the scans alone.
LEMMA OtherEffect ==
  ASSUME BudgetTypeOK, NEW s \in Steps,
         \/ StartChild(s) \/ EndChild(s) \/ KillChild(s)
         \/ BudgetRelease(s) \/ KeepReservation(s) \/ EndOwner(s) \/ KillOwner(s)
  PROVE  /\ UNCHANGED <<txn, since, scan, lock>>
         /\ \A q \in Steps \ {s} : /\ pc'[q] = pc[q] /\ child'[q] = child[q] /\ posting'[q] = posting[q]
                                   /\ (q \in alive' <=> q \in alive) /\ (q \in reserved' <=> q \in reserved)
         /\ posting'[s] \subseteq posting[s]
         /\ reserved' \subseteq reserved /\ alive' \subseteq alive /\ loose \subseteq loose'
         /\ \/ /\ pc[s] = "submit" /\ pc'[s] = "wait" /\ child'[s] = "running"
               /\ UNCHANGED <<reserved, alive, loose>>
            \/ /\ child[s] = "running" /\ pc'[s] = pc[s] /\ UNCHANGED <<reserved, alive, loose>>
               /\ child'[s] = "failed" \/ (child'[s] = "ok" /\ \A t \in Plan[s] : txn[t] \in {"BOUND", "FAILED"})
            \/ /\ pc[s] = "wait" /\ pc'[s] = "stopped" /\ UNCHANGED <<alive, loose>> /\ child'[s] = child[s]
               /\ \/ child[s] = "ok" /\ lock = {} /\ reserved' = reserved \ {s}
                  \/ child[s] = "failed" /\ reserved' = reserved
            \/ /\ pc[s] \in {"stopped", "submit", "wait"} /\ pc'[s] = "stopped" /\ child'[s] = child[s]
               /\ alive' = alive \ {s} /\ reserved' = reserved
               /\ loose' = IF Loosens(s) THEN loose \cup {s} ELSE loose
<1> USE Kept
<1>a. /\ child \in [Steps -> {"none", "running", "ok", "failed"}]
      /\ posting \in [Steps -> SUBSET Tasks] /\ pc \in [Steps -> Places]
  BY TypeParts
<1>1. CASE StartChild(s)
  <2>1. pc'[s] = "wait" /\ \A q \in Steps \ {s} : pc'[q] = pc[q]
    BY <1>1, Going DEF StartChild, Places
  <2>2. child'[s] = "running" /\ \A q \in Steps \ {s} : child'[q] = child[q]
    BY <1>1, <1>a DEF StartChild
  <2>3. QED
    BY <1>1, <2>1, <2>2 DEF StartChild
<1>2. CASE EndChild(s)
  <2>1. \A q \in Steps \ {s} : child'[q] = child[q]
    BY <1>2, <1>a DEF EndChild
  <2>2. child'[s] = "failed" \/ (child'[s] = "ok" /\ \A t \in Plan[s] : txn[t] \in {"BOUND", "FAILED"})
    BY <1>2, <1>a DEF EndChild
  <2>3. QED
    BY <1>2, <2>1, <2>2 DEF EndChild
<1>3. CASE KillChild(s)
  <2>1. /\ child'[s] = "failed" /\ posting'[s] = {}
        /\ \A q \in Steps \ {s} : child'[q] = child[q] /\ posting'[q] = posting[q]
    BY <1>3, <1>a DEF KillChild
  <2>2. QED
    BY <1>3, <2>1 DEF KillChild
<1>4. CASE BudgetRelease(s) \/ KeepReservation(s)
  <2>1. pc'[s] = "stopped" /\ \A q \in Steps \ {s} : pc'[q] = pc[q]
    BY <1>4, Going DEF BudgetRelease, KeepReservation, Places
  <2>2. QED
    BY <1>4, <2>1 DEF BudgetRelease, KeepReservation
<1>5. CASE EndOwner(s)
  BY <1>5 DEF EndOwner, OwnerEnds
<1>6. CASE KillOwner(s)
  <2>1. pc'[s] = "stopped" /\ \A q \in Steps \ {s} : pc'[q] = pc[q]
    BY <1>6, Going DEF KillOwner, Places
  <2>2. QED
    BY <1>6, <2>1 DEF KillOwner, OwnerEnds
<1>7. QED
  BY <1>1, <1>2, <1>3, <1>4, <1>5, <1>6

\* The steps on the transactions: an intent, and what becomes of it.
LEMMA FileEffect ==
  ASSUME BudgetTypeOK, NEW t \in Tasks,
         Reconcile(t) \/ TerminalFailure(t) \/ \E s \in Steps : RecordIntent(s, t) \/ Answer(s, t)
  PROVE  /\ UNCHANGED <<reserved, alive, loose, pc, child, scan, lock>>
         /\ \A x \in Tasks \ {t} : txn'[x] = txn[x]
         /\ \A r \in Steps : since[r] \subseteq since'[r]
         /\ \/ /\ UNCHANGED <<since, posting>>
               /\ \/ txn[t] \in {"LOST", "MANUAL"} /\ txn'[t] \in {"BOUND", "ZERO", "MANUAL"}
                  \/ txn[t] = "BOUND" /\ txn'[t] = "FAILED"
            \/ /\ since' = since /\ txn'[t] \in {"BOUND", "ZERO", "LOST"}
               /\ \E s \in Steps : /\ t \in posting[s] /\ posting'[s] = posting[s] \ {t}
                                   /\ \A q \in Steps \ {s} : posting'[q] = posting[q]
            \/ /\ txn[t] \in {"ABSENT", "ZERO"} /\ txn'[t] = "INTENT"
               /\ \E s \in Steps : /\ child[s] = "running" /\ t \in Plan[s]
                                   /\ s \in reserved => t \in since'[s]
                                   /\ posting'[s] = posting[s] \cup {t}
                                   /\ \A q \in Steps \ {s} : posting'[q] = posting[q]
<1>a. /\ txn \in [Tasks -> TxnStates] /\ since \in [Steps -> SUBSET Tasks]
      /\ posting \in [Steps -> SUBSET Tasks]
  BY TypeParts
<1>1. CASE Reconcile(t) \/ TerminalFailure(t)
  <2>1. UNCHANGED <<reserved, alive, loose, pc, child, scan, lock, since, posting>>
    BY <1>1, Kept DEF Reconcile, TerminalFailure
  <2>2. /\ \A x \in Tasks \ {t} : txn'[x] = txn[x]
        /\ \/ txn[t] \in {"LOST", "MANUAL"} /\ txn'[t] \in {"BOUND", "ZERO", "MANUAL"}
           \/ txn[t] = "BOUND" /\ txn'[t] = "FAILED"
    BY <1>1, <1>a DEF Reconcile, TerminalFailure
  <2>3. QED
    BY <2>1, <2>2
<1>2. ASSUME NEW s \in Steps, Answer(s, t)
      PROVE  /\ UNCHANGED <<reserved, alive, loose, pc, child, scan, lock, since>>
             /\ \A x \in Tasks \ {t} : txn'[x] = txn[x]
             /\ txn'[t] \in {"BOUND", "ZERO", "LOST"}
             /\ t \in posting[s] /\ posting'[s] = posting[s] \ {t}
             /\ \A q \in Steps \ {s} : posting'[q] = posting[q]
  BY <1>2, <1>a DEF Answer, owners
<1>3. ASSUME NEW s \in Steps, RecordIntent(s, t)
      PROVE  /\ UNCHANGED <<reserved, alive, loose, pc, child, scan, lock>>
             /\ \A x \in Tasks \ {t} : txn'[x] = txn[x]
             /\ \A r \in Steps : since[r] \subseteq since'[r]
             /\ txn[t] \in {"ABSENT", "ZERO"} /\ txn'[t] = "INTENT"
             /\ child[s] = "running" /\ t \in Plan[s] /\ (s \in reserved => t \in since'[s])
             /\ posting'[s] = posting[s] \cup {t}
             /\ \A q \in Steps \ {s} : posting'[q] = posting[q]
  <2>1. \A r \in Steps : since'[r] = IF r \in reserved THEN since[r] \cup {t} ELSE since[r]
    BY <1>3 DEF RecordIntent
  <2>2. QED
    BY <1>3, <1>a, <2>1 DEF RecordIntent, owners
<1>4. QED
  BY <1>1, <1>2, <1>3

-----------------------------------------------------------------------------
(* The parts of the inductive invariant. *)

LEMMA InitInv == Init => IInv
<1> SUFFICES ASSUME Init PROVE IInv
  OBVIOUS
<1>1. BudgetTypeOK
  BY InitType
<1>2. /\ \A s \in Steps : pc[s] = "check" /\ child[s] = "none" /\ posting[s] = {} /\ scan[s] = NoScan
      /\ alive = Steps /\ reserved = {} /\ lock = {} /\ \A t \in Tasks : txn[t] = "ABSENT"
  BY DEF Init
<1>3. LockInv /\ OwnerInv /\ PostInv /\ SettledInv
  BY <1>2, NoScanType DEF LockInv, OwnerInv, PostInv, SettledInv
<1>4. InFlight = {} /\ Exposed = {}
  BY <1>2 DEF InFlight, Unresolved, Exposed
<1>5. CoverInv
  BY <1>4 DEF CoverInv
<1>6. ExposureInv
  BY <1>4, FS_EmptySet DEF ExposureInv
<1>7. QED
  BY <1>1, <1>3, <1>5, <1>6 DEF IInv

\* Who has the flock is in the second half of a check.
LEMMA LockStep == IInv /\ [Next]_vars => LockInv'
<1> SUFFICES ASSUME IInv, [Next]_vars PROVE LockInv'
  OBVIOUS
<1>a. BudgetTypeOK /\ LockInv /\ lock \in {{}} \cup {{s} : s \in Steps}
  BY TypeParts DEF IInv
<1>1. ASSUME NEW s \in Steps, Check(s) PROVE LockInv'
  <2>1. \A q \in Steps \ {s} : pc'[q] = pc[q] /\ scan'[q] = scan[q] /\ (lock = {s} => lock # {q})
    BY <1>1, <1>a, CheckEffect
  <2>2. CASE /\ pc[s] = "check" /\ pc'[s] = "rows" /\ UNCHANGED <<reserved, lock>>
    BY <2>2, <2>1, <1>a DEF LockInv
  <2>3. CASE /\ pc[s] = "rows" /\ pc'[s] = "evidence" /\ UNCHANGED <<reserved, lock>>
             /\ scan'[s].rows = reserved
    BY <2>3, <2>1, <1>a DEF LockInv
  <2>4. CASE /\ pc[s] = "evidence" /\ pc'[s] = "owners" /\ UNCHANGED <<reserved, lock>>
             /\ scan'[s].rows = scan[s].rows
    BY <2>4, <2>1, <1>a DEF LockInv
  <2>5. CASE /\ pc[s] = "owners" /\ pc'[s] = (IF lock = {s} THEN "admit" ELSE "settle")
             /\ UNCHANGED <<reserved, lock>> /\ scan'[s].held = scan[s].rows \ scan'[s].settled
    BY <2>5, <2>1, <1>a DEF LockInv
  <2>6. CASE /\ pc[s] = "settle" /\ pc'[s] = "settle" /\ lock = {} /\ lock' = lock
    <3>1. \A q \in Steps : lock # {q} /\ pc[q] # "admit"
      BY <2>6, <1>a DEF LockInv
    <3>2. QED
      BY <2>6, <2>1, <3>1 DEF LockInv
  <2>7. CASE /\ pc[s] = "settle" /\ pc'[s] \in {"lock", "stopped"} /\ UNCHANGED <<reserved, lock>>
    BY <2>7, <2>1, <1>a DEF LockInv
  <2>8. CASE /\ pc[s] = "lock" /\ pc'[s] = "rows" /\ reserved' = reserved /\ lock = {} /\ lock' = {s}
    <3>1. \A q \in Steps : lock # {q} /\ pc[q] # "admit"
      BY <2>8, <1>a DEF LockInv
    <3>2. QED
      BY <2>8, <2>1, <3>1 DEF LockInv
  <2>9. CASE pc[s] = "admit" /\ pc'[s] \in {"submit", "stopped"} /\ lock' = {}
    <3>1. \A q \in Steps \ {s} : pc[q] # "admit"
      BY <2>9, <2>1, <1>a DEF LockInv
    <3>2. QED
      BY <2>9, <2>1, <3>1 DEF LockInv
  <2>10. QED
    BY <1>1, <1>a, CheckEffect, <2>2, <2>3, <2>4, <2>5, <2>6, <2>7, <2>8, <2>9
<1>2. ASSUME NEW s \in Steps, \/ StartChild(s) \/ EndChild(s) \/ KillChild(s)
                              \/ BudgetRelease(s) \/ KeepReservation(s) \/ EndOwner(s) \/ KillOwner(s)
      PROVE  LockInv'
  <2>1. UNCHANGED <<scan, lock>> /\ reserved' \subseteq reserved
    BY <1>2, <1>a, OtherEffect
  <2>2. \A q \in Steps : pc'[q] = pc[q] \/ (pc[q] \in {"submit", "wait", "stopped"}
                                            /\ pc'[q] \in {"submit", "wait", "stopped"})
    BY <1>2, <1>a, OtherEffect
  <2>3. QED
    BY <2>1, <2>2, <1>a DEF LockInv
<1>3. ASSUME NEW t \in Tasks,
             Reconcile(t) \/ TerminalFailure(t) \/ \E s \in Steps : RecordIntent(s, t) \/ Answer(s, t)
      PROVE  LockInv'
  <2>1. UNCHANGED <<scan, lock, reserved, pc>>
    BY <1>3, <1>a, FileEffect
  <2>2. QED
    BY <2>1, <1>a DEF LockInv
<1>4. CASE UNCHANGED vars
  BY <1>4, <1>a, Kept DEF LockInv
<1>5. QED
  BY StepCases, <1>1, <1>2, <1>3, <1>4

LEMMA OwnerStep == IInv /\ [Next]_vars => OwnerInv' /\ SettledInv'
<1> SUFFICES ASSUME IInv, [Next]_vars PROVE OwnerInv' /\ SettledInv'
  OBVIOUS
<1>a. BudgetTypeOK /\ OwnerInv /\ SettledInv /\ PostInv /\ reserved \subseteq Steps
  BY TypeParts DEF IInv
<1>1. ASSUME NEW s \in Steps, Check(s) PROVE OwnerInv' /\ SettledInv'
  <2>1. /\ UNCHANGED <<txn, alive, loose, child>>
        /\ \A q \in Steps \ {s} : pc'[q] = pc[q] /\ scan'[q] = scan[q]
    BY <1>1, <1>a, CheckEffect
  <2>2. s \in alive /\ (child[s] = "running" => s \in loose)
    BY <1>1, <1>a, CheckEffect DEF OwnerInv
  <2>3. scan'[s].settled \subseteq scan[s].settled \/ \A r \in scan'[s].settled : r \notin alive
    BY <1>1, <1>a, CheckEffect DEF OwnerEnded
  <2>4. SettledInv'
    BY <2>1, <2>3, <1>a DEF SettledInv
  <2>5. /\ \A r \in reserved : r \in alive => r \in reserved'
        /\ pc'[s] = "submit" => s \in reserved'
        /\ pc'[s] # "wait"
    <3>1. CASE \E r \in scan[s].settled : reserved' = reserved \ {r} /\ pc'[s] = "settle"
      BY <3>1, <1>a DEF SettledInv
    <3>2. CASE reserved' = reserved \cup {s} /\ pc'[s] = "submit"
      BY <3>2
    <3>3. CASE reserved' = reserved /\ pc'[s] \notin {"submit", "wait"}
      BY <3>3
    <3>4. QED
      BY <1>1, <1>a, CheckEffect, <3>1, <3>2, <3>3
  <2>6. \A q \in Steps : /\ q \notin alive' => pc'[q] = "stopped"
                         /\ pc'[q] \in {"submit", "wait"} => q \in reserved'
                         /\ child'[q] = "running" => pc'[q] = "wait" \/ q \in loose'
                         /\ child'[q] = "ok" => \A t \in Plan[q] : txn'[t] \in {"BOUND", "FAILED"}
    BY <2>1, <2>2, <2>5, <1>a DEF OwnerInv
  <2>7. QED
    BY <2>4, <2>6 DEF OwnerInv
<1>2. ASSUME NEW s \in Steps, \/ StartChild(s) \/ EndChild(s) \/ KillChild(s)
                              \/ BudgetRelease(s) \/ KeepReservation(s) \/ EndOwner(s) \/ KillOwner(s)
      PROVE  OwnerInv' /\ SettledInv'
  <2>1. /\ UNCHANGED <<txn, scan>> /\ alive' \subseteq alive /\ loose \subseteq loose'
        /\ \A q \in Steps \ {s} : /\ pc'[q] = pc[q] /\ child'[q] = child[q]
                                  /\ (q \in alive' <=> q \in alive) /\ (q \in reserved' <=> q \in reserved)
    BY <1>2, <1>a, OtherEffect
  <2>2. /\ s \notin alive' => pc'[s] = "stopped"
        /\ pc'[s] \in {"submit", "wait"} => s \in reserved'
        /\ child'[s] = "running" => pc'[s] = "wait" \/ s \in loose'
        /\ child'[s] = "ok" => \A t \in Plan[s] : txn'[t] \in {"BOUND", "FAILED"}
    BY <1>2, <1>a, <2>1, OtherEffect DEF OwnerInv, Loosens
  <2>3. QED
    BY <2>1, <2>2, <1>a DEF OwnerInv, SettledInv
<1>3. ASSUME NEW t \in Tasks,
             Reconcile(t) \/ TerminalFailure(t) \/ \E s \in Steps : RecordIntent(s, t) \/ Answer(s, t)
      PROVE  OwnerInv' /\ SettledInv'
  <2>1. UNCHANGED <<reserved, alive, loose, pc, child, scan>> /\ \A x \in Tasks \ {t} : txn'[x] = txn[x]
    BY <1>3, <1>a, FileEffect
  <2>2. txn[t] \in {"BOUND", "FAILED"} => txn'[t] \in {"BOUND", "FAILED"}
    BY <1>3, <1>a, FileEffect DEF PostInv
  <2>3. \A s \in Steps : Plan[s] \subseteq Tasks
    OBVIOUS
  <2>4. QED
    BY <2>1, <2>2, <2>3, <1>a DEF OwnerInv, SettledInv
<1>4. CASE UNCHANGED vars
  BY <1>4, <1>a, Kept DEF OwnerInv, SettledInv
<1>5. QED
  BY StepCases, <1>1, <1>2, <1>3, <1>4

LEMMA PostStep == IInv /\ [Next]_vars => PostInv'
<1> SUFFICES ASSUME IInv, [Next]_vars PROVE PostInv'
  OBVIOUS
<1>a. BudgetTypeOK /\ PostInv /\ posting \in [Steps -> SUBSET Tasks]
  BY TypeParts DEF IInv
<1>1. ASSUME NEW s \in Steps, Check(s) PROVE PostInv'
  <2>1. UNCHANGED <<txn, posting>>
    BY <1>1, <1>a, CheckEffect
  <2>2. QED
    BY <2>1, <1>a DEF PostInv
<1>2. ASSUME NEW s \in Steps, \/ StartChild(s) \/ EndChild(s) \/ KillChild(s)
                              \/ BudgetRelease(s) \/ KeepReservation(s) \/ EndOwner(s) \/ KillOwner(s)
      PROVE  PostInv'
  <2>1. txn' = txn /\ \A q \in Steps : posting'[q] \subseteq posting[q]
    BY <1>2, <1>a, OtherEffect
  <2>2. QED
    BY <2>1, <1>a DEF PostInv
<1>3. ASSUME NEW t \in Tasks,
             Reconcile(t) \/ TerminalFailure(t) \/ \E s \in Steps : RecordIntent(s, t) \/ Answer(s, t)
      PROVE  PostInv'
  <2>1. \A x \in Tasks \ {t} : txn'[x] = txn[x]
    BY <1>3, <1>a, FileEffect
  <2>2. CASE posting' = posting /\ txn[t] # "INTENT"
    BY <2>1, <2>2, <1>a DEF PostInv
  <2>3. CASE \E s \in Steps : /\ t \in posting[s] /\ posting'[s] = posting[s] \ {t}
                              /\ \A q \in Steps \ {s} : posting'[q] = posting[q]
    <3>1. PICK s \in Steps : /\ t \in posting[s] /\ posting'[s] = posting[s] \ {t}
                             /\ \A q \in Steps \ {s} : posting'[q] = posting[q]
      BY <2>3
    <3>2. \A q \in Steps : t \notin posting'[q]
      BY <3>1, <1>a DEF PostInv
    <3>3. \A q \in Steps : posting'[q] \subseteq posting[q]
      BY <3>1
    <3>4. QED
      BY <2>1, <3>2, <3>3, <1>a DEF PostInv
  <2>4. CASE /\ txn[t] \in {"ABSENT", "ZERO"} /\ txn'[t] = "INTENT"
             /\ \E s \in Steps : /\ posting'[s] = posting[s] \cup {t}
                                 /\ \A q \in Steps \ {s} : posting'[q] = posting[q]
    <3>1. \A q \in Steps : t \notin posting[q]
      BY <2>4, <1>a DEF PostInv
    <3>2. QED
      BY <2>1, <2>4, <3>1, <1>a DEF PostInv
  <2>5. QED
    BY <1>3, <1>a, FileEffect, <2>2, <2>3, <2>4
<1>4. CASE UNCHANGED vars
  BY <1>4, <1>a, Kept DEF PostInv
<1>5. QED
  BY StepCases, <1>1, <1>2, <1>3, <1>4

\* The tasks of loose steps only grow with them.
LEMMA LooseGrows ==
  /\ \A t : t \in LooseTasks <=> \E s \in loose : t \in Plan[s]
  /\ \A t : t \in LooseTasks' <=> \E s \in loose' : t \in Plan[s]
  /\ loose \subseteq loose' => LooseTasks \subseteq LooseTasks'
  /\ loose' = loose => LooseTasks' = LooseTasks
  BY DEF LooseTasks

\* A task in flight keeps a cover that nobody is about to settle.
LEMMA CoverStep ==
  IInv /\ [Next]_vars => CoverInv'
<1> SUFFICES ASSUME IInv, [Next]_vars PROVE CoverInv'
  OBVIOUS
<1> DEFINE Covers(r, t) == /\ r \in reserved /\ t \in Plan[r] \cap since[r]
                           /\ \A q \in Steps : ~Condemned(q, r)
<1>a. /\ BudgetTypeOK /\ OwnerInv /\ SettledInv /\ PostInv /\ reserved \subseteq Steps
      /\ InFlight \subseteq Tasks /\ \A s \in Steps : Plan[s] \subseteq Tasks
  BY TypeParts DEF IInv, InFlight, Unresolved
<1>b. \A t \in InFlight \ LooseTasks : \E r \in Steps : Covers(r, t)
  BY <1>a DEF IInv, CoverInv, Covered
<1>c. ASSUME \A t \in InFlight' \ LooseTasks' : \E r \in Steps : Covers(r, t)' PROVE CoverInv'
  BY <1>c DEF CoverInv, Covered
<1>f. \A t \in Tasks : t \in InFlight <=> txn[t] \in {"INTENT", "LOST", "MANUAL"}
  BY DEF InFlight, Unresolved
<1>g. \A t \in InFlight' : t \in Tasks /\ txn'[t] \in {"INTENT", "LOST", "MANUAL"}
  BY DEF InFlight, Unresolved
<1>1. ASSUME NEW s \in Steps, Check(s) PROVE CoverInv'
  <2>1. /\ UNCHANGED <<txn, since, alive, loose>>
        /\ \A q \in Steps \ {s} : pc'[q] = pc[q] /\ scan'[q] = scan[q]
    BY <1>1, <1>a, CheckEffect
  <2>2. InFlight' = InFlight
    BY <2>1 DEF InFlight, Unresolved
  <2>3. ASSUME NEW t \in InFlight, NEW r \in Steps, Covers(r, t) PROVE Covers(r, t)'
    <3>1. r \in reserved'
      BY <1>1, <1>a, <2>3, CheckEffect DEF Condemned
    <3>2. \A q \in Steps \ {s} : ~Condemned(q, r)'
      BY <2>1, <2>3 DEF Condemned, OwnerEnded
    <3>3. ~Condemned(s, r)'
      <4>1. CASE pc[s] = "owners" /\ pc'[s] # "owners"
                 /\ scan'[s].settled = {x \in scan[s].rows : OwnerEnded(s, x)}
        BY <4>1, <2>3 DEF Condemned
      <4>2. CASE /\ pc'[s] = "owners" /\ scan'[s].rows = scan[s].rows /\ scan'[s].settled = scan[s].settled
                 /\ \A x \in scan[s].rows : scan'[s].inflight[x] = since[x] \cap InFlight
        <5>1. r \in scan'[s].rows => t \in scan'[s].inflight[r]
          BY <4>2, <2>3
        <5>2. r \notin scan'[s].settled
          BY <4>2, <2>3 DEF Condemned
        <5>3. QED
          BY <5>1, <5>2 DEF Condemned, OwnerEnded
      <4>3. CASE pc'[s] # "owners" /\ scan'[s].settled \subseteq scan[s].settled
        BY <4>3, <2>3 DEF Condemned
      <4>4. QED
        BY <1>1, <1>a, CheckEffect, <4>1, <4>2, <4>3
    <3>4. QED
      BY <2>1, <2>3, <3>1, <3>2, <3>3
  <2>4. QED
    BY <1>b, <1>c, <2>1, <2>2, <2>3, LooseGrows
<1>2. ASSUME NEW s \in Steps, \/ StartChild(s) \/ EndChild(s) \/ KillChild(s)
                              \/ BudgetRelease(s) \/ KeepReservation(s) \/ EndOwner(s) \/ KillOwner(s)
      PROVE  CoverInv'
  <2>1. /\ UNCHANGED <<txn, since, scan>> /\ loose \subseteq loose'
        /\ \A q \in Steps \ {s} : pc'[q] = pc[q] /\ (q \in alive' <=> q \in alive) /\ (q \in reserved' <=> q \in reserved)
    BY <1>2, <1>a, OtherEffect
  <2>2. InFlight' = InFlight
    BY <2>1 DEF InFlight, Unresolved
  <2>3. ASSUME NEW t \in InFlight, NEW r \in Steps, Covers(r, t), t \notin LooseTasks'
        PROVE  Covers(r, t)'
    <3>1. txn[t] \in {"INTENT", "LOST", "MANUAL"}
      BY <1>a, <1>f
    <3>2. r \in reserved'
      <4>1. CASE r # s
        BY <2>1, <2>3, <4>1
      <4>2. CASE r = s
        <5>1. child[s] # "ok"
          BY <2>3, <3>1, <4>2, <1>a DEF OwnerInv
        <5>2. QED
          BY <1>2, <1>a, <2>3, <4>2, <5>1, OtherEffect
      <4>3. QED
        BY <4>1, <4>2
    <3>3. \A q \in Steps : pc'[q] = "owners" => pc[q] = "owners"
      BY <1>2, <1>a, <2>1, OtherEffect
    <3>4. ASSUME r \in alive, r \notin alive', NEW q \in Steps, pc[q] = "owners", r \in scan[q].rows,
                 scan[q].inflight[r] = {}
          PROVE  FALSE
      <4>1. r = s /\ loose' = IF Loosens(s) THEN loose \cup {s} ELSE loose
        BY <1>2, <1>a, <3>4, OtherEffect
      <4>2. Loosens(s)
        BY <2>3, <3>4, <4>1 DEF Loosens
      <4>3. QED
        BY <2>3, <4>1, <4>2, LooseGrows
    <3>5. \A q \in Steps : ~Condemned(q, r)'
      BY <2>1, <2>3, <3>3, <3>4 DEF Condemned, OwnerEnded
    <3>6. QED
      BY <2>1, <2>3, <3>2, <3>5
  <2>4. QED
    BY <1>b, <1>c, <2>1, <2>2, <2>3, LooseGrows
<1>3. ASSUME NEW t \in Tasks,
             Reconcile(t) \/ TerminalFailure(t) \/ \E s \in Steps : RecordIntent(s, t) \/ Answer(s, t)
      PROVE  CoverInv'
  <2>1. /\ UNCHANGED <<reserved, alive, loose, pc, scan>>
        /\ \A x \in Tasks \ {t} : txn'[x] = txn[x] /\ \A r \in Steps : since[r] \subseteq since'[r]
        /\ \A r \in Steps : since[r] \subseteq since'[r]
    BY <1>3, <1>a, FileEffect
  <2>2. \A r \in Steps, q \in Steps : Condemned(q, r)' <=> Condemned(q, r)
    BY <2>1 DEF Condemned, OwnerEnded
  <2>3. ASSUME NEW x \in InFlight \ LooseTasks PROVE \E r \in Steps : Covers(r, x)'
    BY <1>b, <2>1, <2>2
  <2>4. ASSUME t \in InFlight', t \notin InFlight, t \notin LooseTasks PROVE \E r \in Steps : Covers(r, t)'
    <3>1. txn'[t] \in {"INTENT", "LOST", "MANUAL"} /\ txn[t] \notin {"INTENT", "LOST", "MANUAL"}
      BY <2>4, <1>f, <1>g
    <3>2. \E s \in Steps : child[s] = "running" /\ t \in Plan[s] /\ (s \in reserved => t \in since'[s])
      BY <1>3, <1>a, <3>1, FileEffect DEF PostInv
    <3>3. PICK s \in Steps : child[s] = "running" /\ t \in Plan[s] /\ (s \in reserved => t \in since'[s])
      BY <3>2
    <3>4. s \in reserved /\ s \in alive
      BY <2>4, <3>3, <1>a, LooseGrows DEF OwnerInv
    <3>5. \A q \in Steps : ~Condemned(q, s)
      BY <3>4, <1>a DEF Condemned, OwnerEnded, SettledInv
    <3>6. QED
      BY <2>1, <2>2, <3>3, <3>4, <3>5
  <2>5. \A x \in InFlight' : x # t => x \in InFlight
    BY <2>1, <1>f, <1>g
  <2>6. QED
    BY <1>c, <2>1, <2>3, <2>4, <2>5, LooseGrows
<1>4. CASE UNCHANGED vars
  <2>1. UNCHANGED <<txn, reserved, since, alive, loose, pc, scan>>
    BY <1>4, Kept
  <2>2. InFlight' = InFlight /\ \A q, r \in Steps : Condemned(q, r)' <=> Condemned(q, r)
    BY <2>1 DEF InFlight, Unresolved, Condemned, OwnerEnded
  <2>3. QED
    BY <1>b, <1>c, <2>1, <2>2, LooseGrows
<1>5. QED
  BY StepCases, <1>1, <1>2, <1>3, <1>4

-----------------------------------------------------------------------------
(* The cap. *)

\* The tasks of a set of steps are at most as many as the credits they claim.
LEMMA ClaimsCover ==
  ASSUME NEW S \in SUBSET Steps
  PROVE  LET planned == {t \in Tasks : \E r \in S : t \in Plan[r]}
         IN  /\ IsFiniteSet(Claims(S)) /\ IsFiniteSet(planned)
             /\ Cardinality(planned) <= Cardinality(Claims(S))
<1> DEFINE planned == {t \in Tasks : \E r \in S : t \in Plan[r]}
           Image == {c[2] : c \in Claims(S)}
<1>1. IsFiniteSet(Claims(S))
  <2>1. IsFiniteSet(S) /\ IsFiniteSet(Tasks)
    BY FS_Subset
  <2>2. IsFiniteSet(S \X Tasks)
    BY <2>1, FS_Product
  <2>3. QED
    BY <2>2, FS_Subset DEF Claims
<1>2. planned \subseteq Image
  <2>1. ASSUME NEW t \in planned PROVE t \in Image
    <3>1. PICK r \in S : t \in Plan[r]
      OBVIOUS
    <3>2. <<r, t>> \in Claims(S) /\ <<r, t>>[2] = t
      BY <3>1 DEF Claims
    <3>3. QED
      BY <3>2
  <2>2. QED
    BY <2>1
<1>3. IsFiniteSet(Image) /\ Cardinality(Image) <= Cardinality(Claims(S))
  <2>1. DEFINE f == [c \in Claims(S) |-> c[2]]
  <2>2. f \in Surjection(Claims(S), Image)
    BY DEF Surjection, f, Image
  <2>3. QED
    BY <1>1, <2>2, FS_Surjection
<1>4. IsFiniteSet(planned) /\ Cardinality(planned) <= Cardinality(Image)
  BY <1>2, <1>3, FS_Subset
<1>5. /\ Cardinality(planned) \in Nat /\ Cardinality(Image) \in Nat /\ Cardinality(Claims(S)) \in Nat
  BY <1>1, <1>3, <1>4, FS_CardinalityType
<1> HIDE DEF planned, Image
<1>6. Cardinality(planned) <= Cardinality(Claims(S))
  BY <1>3, <1>4, <1>5
<1>7. QED
  BY <1>1, <1>4, <1>6 DEF planned

LEMMA Exposure ==
  /\ IsFiniteSet(Exposed) /\ Cardinality(Exposed) \in Nat
  /\ \A S : S \subseteq Exposed => IsFiniteSet(S) /\ Cardinality(S) \in Nat /\ Cardinality(S) <= Cardinality(Exposed)
<1>1. IsFiniteSet(Exposed)
  BY FS_Subset DEF Exposed
<1>2. QED
  BY <1>1, FS_Subset, FS_CardinalityType

\* Only an admission can add to what may be charged.
LEMMA ExposureShrinks ==
  ASSUME ExposureInv, Exposed' \subseteq Exposed
  PROVE  ExposureInv'
<1>1. Cardinality(Exposed) \in Nat /\ Cardinality(Exposed') \in Nat /\ Cardinality(Exposed') <= Cardinality(Exposed)
  BY Exposure
<1>2. QED
  BY <1>1 DEF ExposureInv

\* An admission counts every task it can add to, at least once.
LEMMA Admission ==
  ASSUME IInv, NEW s \in Steps, Reserve(s)
  PROVE  ExposureInv'
<1> DEFINE bound == {t \in Tasks : txn[t] = "BOUND"}
           held == scan[s].held
           planned == {t \in Tasks : \E r \in held : t \in Plan[r]}
<1>a. /\ BudgetTypeOK /\ LockInv /\ SettledInv /\ CoverInv /\ reserved \subseteq Steps
      /\ \A r \in Steps : Plan[r] \subseteq Tasks
  BY TypeParts DEF IInv
<1>1. /\ UNCHANGED <<txn, alive, loose>> /\ reserved' = reserved \cup {s}
      /\ Projected(s) <= Cap /\ pc[s] = "admit"
  BY DEF Reserve, owners
<1>2. reserved \subseteq held \cup scan[s].settled
  BY <1>1, <1>a DEF LockInv
<1>3. held \in SUBSET Steps
  BY <1>a, TypeParts DEF Scans
<1>4. \A t \in InFlight \ LooseTasks : t \in planned
  BY <1>2, <1>a DEF CoverInv, Covered, Condemned, InFlight, Unresolved
<1>5. \A r \in reserved \cap alive : r \in held
  BY <1>2, <1>a DEF SettledInv
<1>6. Exposed' \subseteq bound \cup planned \cup Plan[s]
  <2>1. InFlight' = InFlight
    BY <1>1 DEF InFlight, Unresolved
  <2>2. ASSUME NEW t \in Exposed' PROVE t \in bound \cup planned \cup Plan[s]
    <3>1. t \in Tasks \ LooseTasks /\ (txn[t] = "BOUND" \/ t \in InFlight \/ \E r \in (reserved \cup {s}) \cap alive : t \in Plan[r])
      BY <1>1, <2>1, LooseGrows DEF Exposed
    <3>2. QED
      BY <3>1, <1>4, <1>5
  <2>3. QED
    BY <2>2
<1>7. /\ IsFiniteSet(bound) /\ IsFiniteSet(Plan[s])
      /\ Cardinality(bound) \in Nat /\ Cardinality(Plan[s]) \in Nat
  BY <1>a, FS_Subset, FS_CardinalityType
<1>8. /\ IsFiniteSet(planned) /\ Cardinality(planned) \in Nat /\ Cardinality(Claims(held)) \in Nat
      /\ Cardinality(planned) <= Cardinality(Claims(held))
  BY <1>3, ClaimsCover, FS_CardinalityType
<1>9. Cardinality(bound) + Cardinality(Claims(held)) + Cardinality(Plan[s]) <= Cap
  BY <1>1 DEF Projected, Counted
<1> HIDE DEF bound, held, planned
<1>10. ASSUME NEW S, NEW T, IsFiniteSet(S), IsFiniteSet(T)
       PROVE  /\ IsFiniteSet(S \cup T) /\ Cardinality(S \cup T) \in Nat
              /\ Cardinality(S) \in Nat /\ Cardinality(T) \in Nat
              /\ Cardinality(S \cup T) <= Cardinality(S) + Cardinality(T)
  <2>1. IsFiniteSet(S \cup T) /\ Cardinality(S \cup T) = Cardinality(S) + Cardinality(T) - Cardinality(S \cap T)
    BY <1>10, FS_Union
  <2>2. IsFiniteSet(S \cap T)
    BY <1>10, FS_Subset
  <2>3. /\ Cardinality(S) \in Nat /\ Cardinality(T) \in Nat
        /\ Cardinality(S \cap T) \in Nat /\ Cardinality(S \cup T) \in Nat
    BY <1>10, <2>1, <2>2, FS_CardinalityType
  <2>4. QED
    BY <2>1, <2>3
<1>11. /\ IsFiniteSet(bound \cup planned) /\ Cardinality(bound \cup planned) \in Nat
       /\ Cardinality(bound \cup planned) <= Cardinality(bound) + Cardinality(planned)
  BY <1>7, <1>8, <1>10
<1>12. /\ IsFiniteSet((bound \cup planned) \cup Plan[s]) /\ Cardinality((bound \cup planned) \cup Plan[s]) \in Nat
       /\ Cardinality((bound \cup planned) \cup Plan[s]) <= Cardinality(bound \cup planned) + Cardinality(Plan[s])
  BY <1>7, <1>11, <1>10
<1>13. Cardinality((bound \cup planned) \cup Plan[s]) <= Cap
  BY <1>7, <1>8, <1>9, <1>11, <1>12
<1>14. Cardinality(Exposed') <= Cardinality((bound \cup planned) \cup Plan[s]) /\ Cardinality(Exposed') \in Nat
  BY <1>6, <1>12, FS_Subset, FS_CardinalityType
<1>15. Cardinality(Exposed') <= Cap
  BY <1>12, <1>13, <1>14
<1>16. QED
  BY <1>15 DEF ExposureInv

LEMMA ExposureStep ==
  IInv /\ [Next]_vars => ExposureInv'
<1> SUFFICES ASSUME IInv, [Next]_vars PROVE ExposureInv'
  OBVIOUS
<1>a. /\ BudgetTypeOK /\ OwnerInv /\ PostInv /\ CoverInv /\ ExposureInv /\ reserved \subseteq Steps
      /\ InFlight \subseteq Tasks /\ \A s \in Steps : Plan[s] \subseteq Tasks
  BY TypeParts DEF IInv, InFlight, Unresolved
<1>f. \A t \in Tasks : t \in InFlight <=> txn[t] \in {"INTENT", "LOST", "MANUAL"}
  BY DEF InFlight, Unresolved
<1>g. \A t \in InFlight' : t \in Tasks /\ txn'[t] \in {"INTENT", "LOST", "MANUAL"}
  BY DEF InFlight, Unresolved
<1>e. \A t \in Tasks \ LooseTasks : t \in Exposed <=>
         \/ txn[t] \in {"BOUND", "INTENT", "LOST", "MANUAL"}
         \/ \E r \in reserved \cap alive : t \in Plan[r]
  BY <1>f DEF Exposed
<1>h. ASSUME UNCHANGED txn, reserved' \subseteq reserved, alive' \subseteq alive, loose \subseteq loose'
      PROVE  ExposureInv'
  <2>1. InFlight' = InFlight
    BY <1>h DEF InFlight, Unresolved
  <2>2. Exposed' \subseteq Exposed
    BY <1>h, <2>1, LooseGrows DEF Exposed
  <2>3. QED
    BY <2>2, <1>a, ExposureShrinks
<1>1. ASSUME NEW s \in Steps, Check(s) PROVE ExposureInv'
  <2>1. CASE Reserve(s)
    BY <2>1, Admission
  <2>2. CASE ~Reserve(s)
    <3>1. UNCHANGED <<txn, alive, loose>>
      BY <1>1, <1>a, CheckEffect
    <3>2. reserved' \subseteq reserved
      BY <1>1, <2>2 DEF Check, ReadTransactions, ReadRows, ReadEvidence, JudgeOwners, ReleaseSettled,
         CheckPasses, CheckRefuses, TakeLock, ReserveRefuses, files
    <3>3. QED
      BY <3>1, <3>2, <1>h
  <2>3. QED
    BY <2>1, <2>2
<1>2. ASSUME NEW s \in Steps, \/ StartChild(s) \/ EndChild(s) \/ KillChild(s)
                              \/ BudgetRelease(s) \/ KeepReservation(s) \/ EndOwner(s) \/ KillOwner(s)
      PROVE  ExposureInv'
  BY <1>2, <1>a, <1>h, OtherEffect
<1>3. ASSUME NEW t \in Tasks,
             Reconcile(t) \/ TerminalFailure(t) \/ \E s \in Steps : RecordIntent(s, t) \/ Answer(s, t)
      PROVE  ExposureInv'
  <2>1. UNCHANGED <<reserved, alive, loose>> /\ \A x \in Tasks \ {t} : txn'[x] = txn[x]
    BY <1>3, <1>a, FileEffect
  <2>2. txn'[t] \in {"BOUND", "INTENT", "LOST", "MANUAL"} /\ t \notin LooseTasks => t \in Exposed
    <3> SUFFICES ASSUME t \notin LooseTasks, txn'[t] \in {"BOUND", "INTENT", "LOST", "MANUAL"}
                 PROVE  t \in Exposed
      OBVIOUS
    <3>1. CASE txn[t] \in {"BOUND", "INTENT", "LOST", "MANUAL"}
      BY <3>1, <1>e
    <3>2. CASE txn[t] \notin {"BOUND", "INTENT", "LOST", "MANUAL"}
      <4>1. \E s \in Steps : child[s] = "running" /\ t \in Plan[s]
        BY <1>3, <1>a, <3>2, FileEffect DEF PostInv
      <4>2. \E s \in reserved \cap alive : t \in Plan[s]
        BY <4>1, <1>a, LooseGrows DEF OwnerInv
      <4>3. QED
        BY <4>2, <1>e
    <3>3. QED
      BY <3>1, <3>2
  <2>3. ASSUME NEW x \in Exposed' PROVE x \in Exposed
    <3>1. /\ x \in Tasks \ LooseTasks
          /\ \/ txn'[x] \in {"BOUND", "INTENT", "LOST", "MANUAL"}
             \/ \E r \in reserved \cap alive : x \in Plan[r]
      BY <2>1, <1>g, LooseGrows DEF Exposed
    <3>2. QED
      BY <3>1, <2>1, <2>2, <1>e
  <2>4. QED
    BY <2>3, <1>a, ExposureShrinks
<1>4. CASE UNCHANGED vars
  BY <1>4, <1>h, Kept
<1>5. QED
  BY StepCases, <1>1, <1>2, <1>3, <1>4

-----------------------------------------------------------------------------

LEMMA StepInv == IInv /\ [Next]_vars => IInv'
<1> SUFFICES ASSUME IInv, [Next]_vars PROVE IInv'
  OBVIOUS
<1>1. BudgetTypeOK'
  BY TypeStep DEF IInv
<1>2. QED
  BY <1>1, LockStep, OwnerStep, PostStep, CoverStep, ExposureStep DEF IInv

\* The inductive invariant of the reservations, whichever process is killed when.
THEOREM BudgetInvariant == Spec => []IInv
<1>1. IInv /\ [Next]_vars => IInv'
  BY StepInv
<1>2. QED
  BY <1>1, InitInv, PTL DEF Spec

\* A task whose charge is unknown stays under a reservation made for it
\* (IN_FLIGHT_TRANSACTION_STATES, nalu_budget_ledger.py), unless its step ended over
\* a running submitter or between the two readings of a scan.
THEOREM InFlightStaysReserved == Spec => []InFlightIsReserved
<1>1. IInv => InFlightIsReserved
  BY LooseGrows DEF IInv, CoverInv, Covered, InFlightIsReserved
<1>2. QED
  BY <1>1, BudgetInvariant, PTL

\* What may be charged for the episode is within the cap, whatever the plans, the
\* tasks of such steps aside.
THEOREM CapIsKept == Spec => []CapNeverExceeded
<1>1. IInv => CapNeverExceeded
  <2> SUFFICES ASSUME IInv PROVE CapNeverExceeded
    OBVIOUS
  <2> DEFINE charged == ({t \in Tasks : txn[t] = "BOUND"} \cup InFlight) \ LooseTasks
  <2>1. charged \subseteq Exposed
    BY DEF Exposed, InFlight, Unresolved
  <2>2. /\ Cardinality(charged) \in Nat /\ Cardinality(Exposed) \in Nat
        /\ Cardinality(charged) <= Cardinality(Exposed) /\ Cardinality(Exposed) <= Cap
    BY <2>1, Exposure DEF IInv, ExposureInv
  <2> HIDE DEF charged
  <2>3. Cardinality(charged) <= Cap
    BY <2>2
  <2>4. QED
    BY <2>3 DEF CapNeverExceeded, charged
<1>2. QED
  BY <1>1, BudgetInvariant, PTL
================================================================================
