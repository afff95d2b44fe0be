---------------------------- MODULE ImageSubmitProofs ----------------------------
(***************************************************************************)
(* Theorems of ImageSubmit, for any set of tasks, any of them rejected by  *)
(* the content filter, any thresholds of the outage detector and any bound *)
(* on the troubles.                                                        *)
(***************************************************************************)
EXTENDS ImageSubmit, TLAPS

Files == [state : {ABSENT, INTENT, BOUND, LOST, NOT_CHARGED, ZERO_REMOTE},
          settled : {"no"} \cup Terminal]
RunStates == [at : {"idle", "gate", "gatechannel", "probe", "channel", "pool", "report", "harvest"},
              task : Tasks \cup {None}, channel : {"unchecked", "healthy"}, prior : SUBSET Tasks]
Jobs == [task : Tasks, by : Harvesters, current : BOOLEAN, seen : Terminal]

\* A task without a live file is not charged for, and a settlement is the
\* provider's last word on the attempt it is written for.
FileAt(t) ==
    /\ txn[t].state \in {ABSENT, NOT_CHARGED, ZERO_REMOTE} => remote[t] \notin MayCharge
    /\ txn[t].state \in {INTENT, LOST} => txn[t].settled = "no"
    /\ txn[t].state = BOUND /\ txn[t].settled # "no" => remote[t] = txn[t].settled
FileInv == \A t \in Tasks : FileAt(t)

\* The thread of a task and its file.
PlaceAt(t) ==
    /\ pc[t] \in {"intent", "posting"} => txn[t].state = INTENT
    /\ pc[t] = "intent" => remote[t] \notin MayCharge
    /\ pc[t] # "out" => row[t] = "pending"
    /\ pc[t] # "out" /\ run.at = "probe" => t = run.task
PlaceInv == \A t \in Tasks : PlaceAt(t)

\* What a harvester has read is the last word on the attempt the file is bound to,
\* until the file makes room for another.
JobInv == \A j \in jobs : j.current => txn[j.task].state = BOUND /\ remote[j.task] = j.seen

\* The rows of a run, and those of the last report.
RowAt(t) ==
    /\ row[t] \in {"submitted", "recovered"} =>
         txn[t].state = BOUND \/ (run.at = "idle" /\ t \in rewritten)
    /\ row[t] = "rejected" =>
         run.at \in {"probe", "channel"} /\ txn[t].state = BOUND /\ remote[t] = "rejected"
    /\ row[t] \in {"refused", "before_intent", "not_charged"} => remote[t] \notin MayCharge
RowInv == \A t \in Tasks : RowAt(t)

\* The channel looks broken only after a trouble.
TroubleInv ==
    /\ troubles \in Nat
    /\ broken \/ ~up \/ (\E t \in Tasks : row[t] = "deferred") => troubles > 0

IInv ==
    /\ ImageTypeOK /\ run \in RunStates
    /\ FileInv /\ PlaceInv /\ JobInv /\ RowInv /\ TroubleInv

States == {ABSENT, INTENT, BOUND, LOST, NOT_CHARGED, ZERO_REMOTE}
RowKinds == {"none", "pending", "submitted", "recovered", "failed", "rejected", "refused",
             "deferred", "before_intent", "not_charged", "quarantined"}

USE ImageAssumption

-----------------------------------------------------------------------------

LEMMA StateNames ==
    /\ ABSENT = "ABSENT" /\ INTENT = "INTENT_RECORDED" /\ BOUND = "SUBMITTED_TASK_ID_BOUND"
    /\ LOST = "RESPONSE_LOST_PENDING_LEDGER_RECONCILIATION" /\ NOT_CHARGED = "NOT_CHARGED_RETRYABLE"
    /\ ZERO_REMOTE = "VERIFIED_ZERO_NO_REMOTE_TASK"
  BY DEF ABSENT, INTENT, BOUND, LOST, NOT_CHARGED, ZERO_REMOTE

LEMMA FileTypes ==
  ASSUME ImageTypeOK, run \in RunStates
  PROVE  /\ txn \in [Tasks -> Files] /\ jobs \subseteq Jobs
         /\ \A t \in Tasks : txn[t].state \in States /\ txn[t].settled \in {"no"} \cup Terminal
         /\ \A j \in jobs : j.task \in Tasks /\ j.seen \in Terminal /\ j.current \in BOOLEAN
         /\ run.task \in Tasks \cup {None}
<1>1. txn \in [Tasks -> Files] /\ jobs \subseteq Jobs
  BY DEF ImageTypeOK, Files, Jobs
<1>2. QED
  BY <1>1 DEF Files, Jobs, States, RunStates

\* Writes of a transaction file keep its type.
LEMMA FileWrites ==
  ASSUME ImageTypeOK, run \in RunStates, NEW t \in Tasks
  PROVE  /\ \A s \in States : SetState(t, s) =>
              /\ txn' \in [Tasks -> Files] /\ UNCHANGED <<bad, proof, broken>>
              /\ txn'[t].state = s /\ txn'[t].settled = txn[t].settled
              /\ \A x \in Tasks \ {t} : txn'[x] = txn[x]
         /\ \A status \in Terminal : \A current : Settle(t, current, status) =>
              /\ txn' \in [Tasks -> Files] /\ bad' \subseteq Tasks
              /\ txn' = txn \/ (txn[t].state = BOUND /\ current
                                /\ txn'[t].state = BOUND /\ txn'[t].settled = status)
              /\ \A x \in Tasks \ {t} : txn'[x] = txn[x]
<1>1. txn \in [Tasks -> Files] /\ bad \subseteq Tasks
  BY FileTypes DEF ImageTypeOK
<1>2. ASSUME NEW s \in States, SetState(t, s)
      PROVE  /\ txn' \in [Tasks -> Files] /\ UNCHANGED <<bad, proof, broken>>
             /\ txn'[t].state = s /\ txn'[t].settled = txn[t].settled
             /\ \A x \in Tasks \ {t} : txn'[x] = txn[x]
  BY <1>1, <1>2 DEF SetState, Files, States
<1>3. ASSUME NEW status \in Terminal, NEW current, Settle(t, current, status)
      PROVE  /\ txn' \in [Tasks -> Files] /\ bad' \subseteq Tasks
             /\ txn' = txn \/ (txn[t].state = BOUND /\ current
                               /\ txn'[t].state = BOUND /\ txn'[t].settled = status)
             /\ \A x \in Tasks \ {t} : txn'[x] = txn[x]
  <2>1. CASE txn[t].state = BOUND /\ current
    BY <1>1, <1>3, <2>1 DEF Settle, Files
  <2>2. CASE ~(txn[t].state = BOUND /\ current)
    BY <1>1, <1>3, <2>2 DEF Settle
  <2>3. QED
    BY <2>1, <2>2
<1>4. QED
  BY <1>2, <1>3

\* A settlement keeps the proof a Boolean.
LEMMA ProofType ==
  ASSUME ImageTypeOK, NEW t, NEW current, NEW status, Settle(t, current, status)
  PROVE  proof' \in BOOLEAN
  BY DEF ImageTypeOK, Settle

LEMMA InitInv == ImageInit => IInv
<1> SUFFICES ASSUME ImageInit PROVE IInv
  OBVIOUS
<1>1. ImageTypeOK /\ run \in RunStates
  BY DEF ImageInit, ImageTypeOK, RunStates, NoFile, NoRun
<1>2. FileInv /\ PlaceInv /\ JobInv /\ RowInv /\ TroubleInv
  BY StateNames DEF ImageInit, FileInv, FileAt, PlaceInv, PlaceAt, JobInv, RowInv, RowAt,
     TroubleInv, NoFile, NoRun, MayCharge
<1>3. QED
  BY <1>1, <1>2 DEF IInv

LEMMA JobsOutdated ==
  ASSUME ImageTypeOK, run \in RunStates, NEW t \in Tasks
  PROVE  /\ Outdated(t) \subseteq Jobs
         /\ \A j \in Outdated(t) : j.current => j \in jobs /\ j.task # t
<1>1. ASSUME NEW j \in jobs
      PROVE  [j EXCEPT !.current = FALSE] \in Jobs /\ [j EXCEPT !.current = FALSE].current = FALSE
  <2>1. j \in Jobs
    BY FileTypes
  <2>2. QED
    BY <2>1 DEF Jobs
<1>2. QED
  BY <1>1, FileTypes DEF Outdated

\* Where a thread goes and what it returns.
LEMMA ThreadMoves ==
  ASSUME ImageTypeOK, NEW t \in Tasks
  PROVE  /\ \A result \in RowKinds : Return(t, result) =>
              /\ pc' \in [Tasks -> {"out", "enter", "intent", "posting"}] /\ row' \in [Tasks -> RowKinds]
              /\ pc'[t] = "out" /\ row'[t] = result /\ run' = run
              /\ \A x \in Tasks \ {t} : pc'[x] = pc[x] /\ row'[x] = row[x]
         /\ \A place \in {"out", "enter", "intent", "posting"} : Goto(t, place) =>
              /\ pc' \in [Tasks -> {"out", "enter", "intent", "posting"}]
              /\ pc'[t] = place /\ row' = row /\ run' = run
              /\ \A x \in Tasks \ {t} : pc'[x] = pc[x]
<1>1. pc \in [Tasks -> {"out", "enter", "intent", "posting"}] /\ row \in [Tasks -> RowKinds]
  BY DEF ImageTypeOK, RowKinds
<1>2. ASSUME NEW result \in RowKinds, Return(t, result)
      PROVE  /\ pc' \in [Tasks -> {"out", "enter", "intent", "posting"}] /\ row' \in [Tasks -> RowKinds]
             /\ pc'[t] = "out" /\ row'[t] = result /\ run' = run
             /\ \A x \in Tasks \ {t} : pc'[x] = pc[x] /\ row'[x] = row[x]
  BY <1>1, <1>2 DEF Return
<1>3. ASSUME NEW place \in {"out", "enter", "intent", "posting"}, Goto(t, place)
      PROVE  /\ pc' \in [Tasks -> {"out", "enter", "intent", "posting"}]
             /\ pc'[t] = place /\ row' = row /\ run' = run
             /\ \A x \in Tasks \ {t} : pc'[x] = pc[x]
  BY <1>1, <1>3 DEF Goto
<1>4. QED
  BY <1>2, <1>3

\* The steps, one disjunct per handler.
LEMMA StepCases ==
  ASSUME [ImageNext]_imgvars
  PROVE  \/ \E t \in Tasks : Thread(t)
         \/ \E t \in Tasks, by \in Harvesters : HarvestRead(t, by)
         \/ \E t \in Tasks : Reconcile(t)
         \/ \E t \in Tasks : Rewrite(t)
         \/ \E t \in Tasks : Serve(t) \/ Fail(t)
         \/ StartRun \/ RunStep \/ Kill
         \/ \E j \in jobs : HarvestSettle(j)
         \/ Elapse \/ OutageBegins \/ OutageEnds
         \/ UNCHANGED imgvars
  BY DEF ImageNext

LEMMA TypeParts == ImageTypeOK <=>
    /\ txn \in [Tasks -> Files] /\ bad \subseteq Tasks
    /\ proof \in BOOLEAN /\ broken \in BOOLEAN /\ up \in BOOLEAN
    /\ remote \in [Tasks -> {"none", "refused"} \cup MayCharge \cup Terminal]
    /\ rewritten \subseteq Rejects
    /\ pc \in [Tasks -> {"out", "enter", "intent", "posting"}] /\ row \in [Tasks -> RowKinds]
    /\ run.at \in {"idle", "gate", "gatechannel", "probe", "channel", "pool", "report", "harvest"}
    /\ \A t \in Tasks : pc[t] # "out" => run.at \in {"probe", "pool"}
    /\ jobs \subseteq Jobs
  BY DEF ImageTypeOK, Files, RowKinds, Jobs

LEMMA ThreadType ==
  ASSUME ImageTypeOK, run \in RunStates, NEW t \in Tasks, Thread(t)
  PROVE  ImageTypeOK' /\ run' \in RunStates
<1> USE TypeParts
<1> DEFINE Placed == /\ pc' \in [Tasks -> {"out", "enter", "intent", "posting"}]
                     /\ row' \in [Tasks -> RowKinds] /\ run' = run
                     /\ \A x \in Tasks \ {t} : pc'[x] = pc[x]
<1>1. \A result \in RowKinds : Return(t, result) => Placed /\ pc'[t] = "out"
  BY ThreadMoves
<1>2. \A place \in {"out", "enter", "intent", "posting"} : Goto(t, place) => Placed
  BY ThreadMoves
<1>3. \A s \in States : SetState(t, s) => txn' \in [Tasks -> Files] /\ UNCHANGED <<bad, proof, broken>>
  BY FileWrites
<1>4. pc[t] # "out"
  BY DEF Thread, Retire, Recover, Blocked, RefuseBeforeIntent, RecordIntent, NotSent, Post,
         RecordBound, RecordNotCharged, RecordLost, NothingPrior
<1> HIDE DEF Placed
<1>p. ASSUME Placed, txn' \in [Tasks -> Files], UNCHANGED <<bad, proof, broken, up, rewritten, jobs>>,
             remote' \in [Tasks -> {"none", "refused"} \cup MayCharge \cup Terminal]
      PROVE  ImageTypeOK' /\ run' \in RunStates
  BY <1>p, <1>4 DEF Placed, ImageTypeOK, Files, RowKinds, Jobs
<1>5. CASE Retire(t)
  <2>1. txn' \in [Tasks -> Files] /\ jobs' \subseteq Jobs
    BY <1>5, JobsOutdated DEF Retire, NoFile, Files
  <2>2. UNCHANGED <<bad, proof, broken, remote, up, rewritten, pc, row, run>>
    BY <1>5 DEF Retire, provider, process
  <2>3. QED
    BY <2>1, <2>2 DEF ImageTypeOK, Files, RowKinds, Jobs
<1>6. CASE Recover(t) \/ Blocked(t) \/ RefuseBeforeIntent(t)
  BY <1>6, <1>1, <1>p DEF Recover, Blocked, RefuseBeforeIntent, RowKinds, store, provider
<1>7. CASE RecordIntent(t)
  BY <1>7, <1>2, <1>p DEF RecordIntent, Files, provider
<1>8. CASE NotSent(t)
  BY <1>8, <1>1, <1>3, <1>p DEF NotSent, RowKinds, States, provider
<1>9. CASE RecordNotCharged(t)
  BY <1>9, <1>1, <1>3, <1>p DEF RecordNotCharged, RowKinds, States, provider
<1>10. CASE RecordBound(t)
  BY <1>10, <1>1, <1>3, <1>p DEF RecordBound, RowKinds, States, provider
<1>11. CASE RecordLost(t)
  BY <1>11, <1>1, <1>3, <1>p DEF RecordLost, RowKinds, States, provider
<1>12. CASE Post(t)
  BY <1>12, <1>2, <1>p DEF Post, store, MayCharge
<1>13. QED
  BY <1>5, <1>6, <1>7, <1>8, <1>9, <1>10, <1>11, <1>12 DEF Thread

\* The typed parts of a run step: what each writes.
LEMMA RowSets ==
  ASSUME ImageTypeOK, run \in RunStates
  PROVE  /\ RefuseRejected \in [Tasks -> RowKinds]
         /\ [t \in Tasks |-> IF t \in Rejected THEN "submitted"
                             ELSE IF t \in Pending THEN "deferred" ELSE row[t]] \in [Tasks -> RowKinds]
         /\ [t \in Tasks |-> IF t \in Rejected THEN "submitted" ELSE row[t]] \in [Tasks -> RowKinds]
         /\ [t \in Tasks |-> ReportedRow(t)] \in [Tasks -> RowKinds]
         /\ \A k \in RowKinds : [t \in Tasks |-> k] \in [Tasks -> RowKinds]
         /\ \A t \in Tasks, k \in RowKinds : /\ [row EXCEPT ![t] = k] \in [Tasks -> RowKinds]
                                             /\ [RefuseRejected EXCEPT ![t] = k] \in [Tasks -> RowKinds]
<1>1. row \in [Tasks -> RowKinds]
  BY DEF ImageTypeOK, RowKinds
<1>2. \A t \in Tasks : ReportedRow(t) \in RowKinds
  BY <1>1 DEF ReportedRow, RowKinds
<1>3. RefuseRejected \in [Tasks -> RowKinds]
  BY <1>1 DEF RefuseRejected, RowKinds
<1>4. QED
  BY <1>1, <1>2, <1>3 DEF RowKinds

LEMMA ReleaseEffect ==
  ASSUME ImageTypeOK, run \in RunStates, Release
  PROVE  /\ run' \in RunStates /\ run'.at = "pool"
         /\ pc' \in [Tasks -> {"out", "enter", "intent", "posting"}]
         /\ \A t \in Tasks : pc'[t] = IF row[t] = "pending" THEN "enter" ELSE pc[t]
<1>1. pc \in [Tasks -> {"out", "enter", "intent", "posting"}]
  BY DEF ImageTypeOK
<1>2. \A t \in Tasks : t \in Pending <=> row[t] = "pending"
  BY DEF Pending, Rows
<1>3. QED
  BY <1>1, <1>2 DEF Release, RunStates

\* Runs change at and task only in ways their type allows.
LEMMA RunMoves ==
  ASSUME run \in RunStates, bad \subseteq Tasks
  PROVE  /\ NoRun \in RunStates /\ NoRun.at = "idle"
         /\ Submit => run' \in RunStates /\ run'.at = "probe" /\ run'.task = run.task
         /\ \A a \in {"idle", "gate", "gatechannel", "probe", "channel", "pool", "report", "harvest"} :
              /\ [NoRun EXCEPT !.at = a] \in RunStates /\ [NoRun EXCEPT !.at = a].at = a
              /\ [run EXCEPT !.at = a] \in RunStates /\ [run EXCEPT !.at = a].at = a
              /\ [run EXCEPT !.at = a, !.task = None] \in RunStates
              /\ [run EXCEPT !.at = a, !.task = None].at = a
              /\ [run EXCEPT !.at = a, !.channel = "healthy"] \in RunStates
              /\ [run EXCEPT !.at = a, !.channel = "healthy"].at = a
              /\ [run EXCEPT !.at = a, !.channel = "healthy"].task = run.task
         /\ \A t \in Tasks : /\ [run EXCEPT !.task = t] \in RunStates
                             /\ [run EXCEPT !.task = t].at = run.at
                             /\ [run EXCEPT !.task = t].task = t
  BY DEF RunStates, NoRun, Submit

\* The look at the channel.
LEMMA ChannelTypes ==
  ASSUME ImageTypeOK, NEW healthy \in BOOLEAN, ChannelHealth(healthy)
  PROVE  /\ txn' = txn /\ bad' = bad /\ proof' \in BOOLEAN /\ broken' \in BOOLEAN
<1>1. CASE HealthyByRecord(healthy)
  BY <1>1 DEF HealthyByRecord, ImageTypeOK, store
<1>2. CASE HealthyByProbe(healthy)
  BY <1>2 DEF HealthyByProbe, ImageTypeOK
<1>3. QED
  BY <1>1, <1>2 DEF ChannelHealth

\* The steps of a run move no transaction but the canary's.
LEMMA RunType ==
  ASSUME ImageTypeOK, run \in RunStates, PlaceInv, StartRun \/ RunStep \/ Kill
  PROVE  ImageTypeOK' /\ run' \in RunStates
<1> USE TypeParts
<1> DEFINE Pcs == [Tasks -> {"out", "enter", "intent", "posting"}]
<1>p. ASSUME UNCHANGED <<remote, up, rewritten, jobs>>, txn' \in [Tasks -> Files], bad' \subseteq Tasks,
             proof' \in BOOLEAN, broken' \in BOOLEAN,
             pc' \in Pcs, row' \in [Tasks -> RowKinds], run' \in RunStates,
             \/ run'.at \in {"probe", "pool"}
             \/ \A t \in Tasks : pc'[t] = "out"
      PROVE  ImageTypeOK' /\ run' \in RunStates
  <2>1. run'.at \in {"idle", "gate", "gatechannel", "probe", "channel", "pool", "report", "harvest"}
    BY <1>p DEF RunStates
  <2>2. QED
    BY <1>p, <2>1 DEF ImageTypeOK, Files, RowKinds, Jobs
<1>s. /\ store' = store => txn' = txn /\ bad' = bad /\ proof' = proof /\ broken' = broken
      /\ provider' = provider => remote' = remote /\ up' = up /\ rewritten' = rewritten
  BY DEF store, provider
<1>o. run.at \notin {"probe", "pool"} => \A t \in Tasks : pc[t] = "out"
  OBVIOUS
<1> HIDE DEF Pcs
<1>r. pc \in Pcs /\ row \in [Tasks -> RowKinds] /\ bad \subseteq Tasks
  BY DEF Pcs
<1>1. CASE StartRun
  <2>1. run' \in RunStates /\ row' \in [Tasks -> RowKinds]
    BY <1>1, RunMoves, RowSets DEF StartRun, RowKinds
  <2>2. QED
    BY <1>1, <2>1, <1>p, <1>s, <1>o, <1>r DEF StartRun
<1>2. CASE PassOutageGate
  BY <1>2, RunMoves, <1>p, <1>s, <1>r DEF PassOutageGate
<1>3. CASE OutageInStore
  BY <1>3, RunMoves, <1>p, <1>s, <1>o, <1>r DEF OutageInStore
<1>4. CASE OutageGate
  <2>1. txn' = txn /\ bad' = bad /\ proof' \in BOOLEAN /\ broken' \in BOOLEAN
    BY <1>4, ChannelTypes DEF OutageGate
  <2>2. run' \in RunStates /\ row' \in [Tasks -> RowKinds]
    <3>1. CASE Submit /\ row' = row
      BY <3>1, RunMoves, <1>r
    <3>2. CASE run' = [run EXCEPT !.at = "report"] /\ row' = [t \in Tasks |-> "deferred"]
      BY <3>2, RunMoves, RowSets DEF RowKinds
    <3>3. QED
      BY <1>4, <3>1, <3>2 DEF OutageGate
  <2>3. QED
    BY <1>4, <2>1, <2>2, <1>p, <1>s, <1>o, <1>r DEF OutageGate
<1>5. CASE NextProbe
  <2>1. PICK t \in Tasks : run' = [run EXCEPT !.task = t] /\ pc' = [pc EXCEPT ![t] = "enter"]
    BY <1>5 DEF NextProbe, Pending, Rows
  <2>2. run' \in RunStates /\ run'.at = "probe" /\ pc' \in Pcs
    BY <1>5, <2>1, RunMoves, <1>r DEF NextProbe, Probed, Pcs
  <2>3. QED
    BY <1>5, <2>2, <1>p, <1>s, <1>r DEF NextProbe
<1>6. CASE CanaryHealthy
  BY <1>6, ReleaseEffect, RowSets, <1>p, <1>s, <1>r DEF CanaryHealthy, Pcs
<1>7. ASSUME Canary, NEW status \in Terminal, Settle(run.task, TRUE, status)
      PROVE  txn' \in [Tasks -> Files] /\ bad' \subseteq Tasks /\ proof' \in BOOLEAN
  <2>1. run.task \in Tasks
    BY <1>7, FileTypes DEF Canary
  <2>2. QED
    BY <1>7, <2>1, FileWrites, ProofType
<1>8. CASE CanaryOther
  <2>1. txn' \in [Tasks -> Files] /\ bad' \subseteq Tasks /\ proof' \in BOOLEAN
    BY <1>8, <1>7 DEF CanaryOther, Terminal
  <2>2. QED
    BY <1>8, <2>1, ReleaseEffect, RowSets, <1>p, <1>s DEF CanaryOther, Pcs
<1>9. CASE CanaryRejected
  <2>1. txn' \in [Tasks -> Files] /\ bad' \subseteq Tasks /\ proof' \in BOOLEAN
    BY <1>9, <1>7 DEF CanaryRejected, Terminal
  <2>2. run.task \in Tasks /\ run.at = "probe" /\ pc[run.task] = "out"
    BY <1>9, FileTypes DEF CanaryRejected, Canary
  <2>3. \A t \in Tasks : pc[t] = "out"
    BY <2>2 DEF PlaceInv, PlaceAt
  <2>4. row' \in [Tasks -> RowKinds]
    BY <1>9, <2>2, RowSets DEF CanaryRejected, RowKinds
  <2>5. run' \in RunStates /\ pc' \in Pcs /\ (run'.at \in {"probe", "pool"} \/ \A t \in Tasks : pc'[t] = "out")
    <3>1. CASE Release
      BY <3>1, ReleaseEffect DEF Pcs
    <3>2. CASE ~Release
      BY <1>9, <3>2, <2>2, <2>3, RunMoves, <1>r DEF CanaryRejected
    <3>3. QED
      BY <3>1, <3>2
  <2>6. QED
    BY <1>9, <2>1, <2>4, <2>5, <1>p, <1>s DEF CanaryRejected
<1>10. CASE ChannelWorks
  <2>1. txn' = txn /\ bad' = bad /\ proof' \in BOOLEAN /\ broken' \in BOOLEAN
    BY <1>10, ChannelTypes DEF ChannelWorks
  <2>2. row' \in [Tasks -> RowKinds] /\ run' \in RunStates /\ run'.at \in {"probe", "pool"} /\ pc' \in Pcs
    <3>1. CASE Release /\ row' = RefuseRejected
      BY <3>1, ReleaseEffect, RowSets DEF Pcs
    <3>2. CASE run' = [run EXCEPT !.at = "probe", !.channel = "healthy"] /\ UNCHANGED <<pc, row>>
      BY <3>2, RunMoves, <1>r
    <3>3. QED
      BY <1>10, <3>1, <3>2 DEF ChannelWorks
  <2>3. QED
    BY <1>10, <2>1, <2>2, <1>p, <1>s DEF ChannelWorks
<1>11. CASE ChannelBroken
  <2>1. txn' = txn /\ bad' = bad /\ proof' \in BOOLEAN /\ broken' \in BOOLEAN
    BY <1>11, ChannelTypes DEF ChannelBroken
  <2>2. run' \in RunStates /\ row' \in [Tasks -> RowKinds]
    BY <1>11, RunMoves, RowSets, <1>r DEF ChannelBroken
  <2>3. QED
    BY <1>11, <2>1, <2>2, <1>p, <1>s, <1>o, <1>r DEF ChannelBroken
<1>12. CASE ProbesExhausted
  <2>1. run' \in RunStates /\ row' \in [Tasks -> RowKinds]
    BY <1>12, RunMoves, RowSets, <1>r DEF ProbesExhausted
  <2>2. \A t \in Tasks : pc[t] = "out"
    BY <1>12 DEF ProbesExhausted, Probed, PlaceInv, PlaceAt
  <2>3. QED
    BY <1>12, <2>1, <2>2, <1>p, <1>s, <1>r DEF ProbesExhausted
<1>13. CASE PoolDone
  BY <1>13, RunMoves, <1>p, <1>s, <1>r DEF PoolDone
<1>14. CASE WriteReport
  <2>1. run' \in RunStates /\ row' \in [Tasks -> RowKinds]
    BY <1>14, RunMoves, RowSets, <1>r DEF WriteReport
  <2>2. QED
    BY <1>14, <2>1, <1>p, <1>s, <1>o, <1>r DEF WriteReport
<1>15. CASE HarvestDone
  BY <1>15, RunMoves, <1>p, <1>s, <1>o, <1>r DEF HarvestDone
<1>16. CASE Kill
  <2>1. pc' \in Pcs /\ \A t \in Tasks : pc'[t] = "out"
    BY <1>16 DEF Kill, Pcs
  <2>2. QED
    BY <1>16, <2>1, RunMoves, RowSets, <1>p, <1>s, <1>r DEF Kill, RowKinds
<1>17. QED
  BY <1>1, <1>2, <1>3, <1>4, <1>5, <1>6, <1>8, <1>9, <1>10, <1>11, <1>12, <1>13, <1>14, <1>15, <1>16 DEF RunStep

LEMMA SettleType ==
  ASSUME ImageTypeOK, run \in RunStates, NEW j \in jobs, HarvestSettle(j)
  PROVE  ImageTypeOK' /\ run' \in RunStates
<1>1. j.task \in Tasks /\ j.seen \in Terminal
  BY FileTypes
<1>2. txn' \in [Tasks -> Files] /\ bad' \subseteq Tasks /\ proof' \in BOOLEAN
  BY <1>1, FileWrites, ProofType DEF HarvestSettle
<1>3. QED
  BY <1>2 DEF HarvestSettle, ImageTypeOK, Files, provider, process

LEMMA ReadType ==
  ASSUME ImageTypeOK, run \in RunStates, NEW t \in Tasks, NEW by \in Harvesters, HarvestRead(t, by)
  PROVE  ImageTypeOK' /\ run' \in RunStates
<1>1. jobs' \subseteq Jobs
  <2>1. [task |-> t, by |-> by, current |-> TRUE, seen |-> remote[t]] \in Jobs
    BY DEF HarvestRead, Jobs
  <2>2. QED
    BY <2>1, FileTypes DEF HarvestRead
<1>2. QED
  BY <1>1 DEF HarvestRead, ImageTypeOK, Jobs, store, provider, process

LEMMA OutsideType ==
  ASSUME ImageTypeOK, run \in RunStates,
         \/ \E t \in Tasks : Reconcile(t) \/ Rewrite(t) \/ Serve(t) \/ Fail(t)
         \/ Elapse \/ OutageBegins \/ OutageEnds \/ UNCHANGED imgvars
  PROVE  ImageTypeOK' /\ run' \in RunStates
<1>1. ASSUME NEW t \in Tasks, Reconcile(t) PROVE ImageTypeOK' /\ run' \in RunStates
  <2>1. txn' \in [Tasks -> Files] /\ UNCHANGED <<bad, proof, broken>>
    BY <1>1, FileWrites DEF Reconcile, States
  <2>2. QED
    BY <1>1, <2>1 DEF Reconcile, ImageTypeOK, Files, provider, process
<1>2. ASSUME NEW t \in Tasks, Rewrite(t) PROVE ImageTypeOK' /\ run' \in RunStates
  <2>1. txn' \in [Tasks -> Files] /\ jobs' \subseteq Jobs
    BY <1>2, FileTypes, JobsOutdated DEF Rewrite, NoFile, Files
  <2>2. rewritten' \subseteq Rejects
    BY <1>2 DEF Rewrite, Rejectable, ImageTypeOK
  <2>3. QED
    BY <1>2, <2>1, <2>2 DEF Rewrite, ImageTypeOK, Files, Jobs, process
<1>3. ASSUME NEW t \in Tasks, Serve(t) \/ Fail(t) PROVE ImageTypeOK' /\ run' \in RunStates
  <2>1. remote' \in [Tasks -> {"none", "refused"} \cup MayCharge \cup Terminal]
    BY <1>3 DEF Serve, Fail, Render, Reject, Becomes, ImageTypeOK, Terminal
  <2>2. UNCHANGED <<store, up, rewritten, process, jobs>>
    BY <1>3 DEF Serve, Fail, Render, Reject, Becomes
  <2>3. QED
    BY <2>1, <2>2 DEF ImageTypeOK, store, process
<1>4. CASE Elapse
  BY <1>4 DEF Elapse, ImageTypeOK, provider, process
<1>5. CASE OutageBegins \/ OutageEnds
  BY <1>5 DEF OutageBegins, OutageEnds, ImageTypeOK, store, process
<1>6. CASE UNCHANGED imgvars
  BY <1>6 DEF imgvars, ImageTypeOK, store, provider, process
<1>7. QED
  BY <1>1, <1>2, <1>3, <1>4, <1>5, <1>6

LEMMA TypeStep == IInv /\ [ImageNext]_imgvars => ImageTypeOK' /\ run' \in RunStates
<1> SUFFICES ASSUME IInv, [ImageNext]_imgvars PROVE ImageTypeOK' /\ run' \in RunStates
  OBVIOUS
<1>1. ImageTypeOK /\ run \in RunStates /\ PlaceInv
  BY DEF IInv
<1>2. QED
  BY <1>1, StepCases, ThreadType, RunType, SettleType, ReadType, OutsideType

-----------------------------------------------------------------------------
(* The safety invariants, for steps that touch one task. *)

\* A step at one task t keeps the invariants if it keeps those of t.
LEMMA StepAt ==
  ASSUME IInv, NEW t \in Tasks, run' = run, rewritten' = rewritten,
         \A x \in Tasks \ {t} : /\ txn'[x] = txn[x] /\ remote'[x] = remote[x]
                                /\ pc'[x] = pc[x] /\ row'[x] = row[x],
         FileAt(t)', PlaceAt(t)', RowAt(t)',
         \A j \in jobs' : j.current => j \in jobs,
         \A j \in jobs' : j.current /\ j.task = t => txn'[t].state = BOUND /\ remote'[t] = j.seen
  PROVE  FileInv' /\ PlaceInv' /\ JobInv' /\ RowInv'
<1>1. ImageTypeOK /\ run \in RunStates /\ FileInv /\ PlaceInv /\ JobInv /\ RowInv
  BY DEF IInv
<1>2. ASSUME NEW x \in Tasks \ {t} PROVE FileAt(x)' /\ PlaceAt(x)' /\ RowAt(x)'
  BY <1>1, <1>2 DEF FileInv, FileAt, PlaceInv, PlaceAt, RowInv, RowAt
<1>3. FileInv' /\ PlaceInv' /\ RowInv'
  BY <1>2 DEF FileInv, PlaceInv, RowInv
<1>4. JobInv'
  BY <1>1, FileTypes DEF JobInv
<1>5. QED
  BY <1>3, <1>4

\* What the invariants say of the task a step is about.
LEMMA AtTask ==
  ASSUME IInv, NEW t \in Tasks
  PROVE  /\ ImageTypeOK /\ run \in RunStates
         /\ FileAt(t) /\ PlaceAt(t) /\ RowAt(t)
         /\ \A j \in jobs : j.current => j \in jobs
         /\ \A j \in jobs : j.current /\ j.task = t => txn[t].state = BOUND /\ remote[t] = j.seen
  BY DEF IInv, FileInv, PlaceInv, RowInv, JobInv

LEMMA ThreadInv ==
  ASSUME IInv, NEW t \in Tasks, Thread(t)
  PROVE  FileInv' /\ PlaceInv' /\ JobInv' /\ RowInv'
<1> USE StateNames DEF MayCharge
<1>a. /\ ImageTypeOK /\ run \in RunStates
      /\ FileAt(t) /\ PlaceAt(t) /\ RowAt(t)
      /\ \A j \in jobs : j.current /\ j.task = t => txn[t].state = BOUND /\ remote[t] = j.seen
  BY AtTask
<1>1. run' = run /\ rewritten' = rewritten
  BY DEF Thread, Retire, Recover, Blocked, RefuseBeforeIntent, RecordIntent, NotSent, Post,
         RecordBound, RecordNotCharged, RecordLost, provider, process, Return, Goto
<1>r. ASSUME NEW result \in RowKinds, Return(t, result)
      PROVE  /\ pc'[t] = "out" /\ row'[t] = result
             /\ \A x \in Tasks \ {t} : pc'[x] = pc[x] /\ row'[x] = row[x]
  BY <1>a, <1>r, ThreadMoves
<1>g. ASSUME NEW place \in {"out", "enter", "intent", "posting"}, Goto(t, place)
      PROVE  pc'[t] = place /\ row' = row /\ \A x \in Tasks \ {t} : pc'[x] = pc[x]
  BY <1>a, <1>g, ThreadMoves
<1>w. ASSUME NEW s \in States, SetState(t, s)
      PROVE  /\ txn'[t].state = s /\ txn'[t].settled = txn[t].settled
             /\ \A x \in Tasks \ {t} : txn'[x] = txn[x]
  BY <1>a, <1>w, FileWrites
<1>2. CASE Retire(t)
  <2>1. txn'[t] = NoFile /\ \A x \in Tasks \ {t} : txn'[x] = txn[x]
    BY <1>2, <1>a, FileTypes DEF Retire
  <2>2. UNCHANGED <<remote, pc, row>>
    BY <1>2 DEF Retire, provider, process
  <2>3. \A j \in jobs' : j.current => j \in jobs /\ j.task # t
    BY <1>2, <1>a, JobsOutdated DEF Retire
  <2>4. FileAt(t)' /\ PlaceAt(t)' /\ RowAt(t)'
    BY <1>2, <1>a, <2>1, <2>2, <1>1 DEF Retire, TerminalFailed, NoFile, FileAt, PlaceAt, RowAt
  <2>5. QED
    BY <1>1, <2>1, <2>2, <2>3, <2>4, StepAt
<1>3. CASE Recover(t) \/ Blocked(t) \/ RefuseBeforeIntent(t)
  <2>1. UNCHANGED <<txn, remote, jobs>>
    BY <1>3 DEF Recover, Blocked, RefuseBeforeIntent, store, provider
  <2>2. /\ pc'[t] = "out" /\ (row'[t] = "failed" \/ (row'[t] = "recovered" /\ txn[t].state = BOUND))
        /\ \A x \in Tasks \ {t} : pc'[x] = pc[x] /\ row'[x] = row[x]
    BY <1>3, <1>r DEF Recover, Blocked, RefuseBeforeIntent, RowKinds
  <2>3. FileAt(t)' /\ PlaceAt(t)' /\ RowAt(t)'
    BY <1>a, <2>1, <2>2, <1>1 DEF FileAt, PlaceAt, RowAt
  <2>4. QED
    BY <1>1, <1>a, <2>1, <2>2, <2>3, StepAt
<1>4. CASE RecordIntent(t)
  <2>1. txn'[t] = [state |-> INTENT, settled |-> "no"] /\ \A x \in Tasks \ {t} : txn'[x] = txn[x]
    BY <1>4, <1>a, FileTypes DEF RecordIntent
  <2>2. UNCHANGED <<remote, jobs, row>> /\ pc'[t] = "intent" /\ \A x \in Tasks \ {t} : pc'[x] = pc[x]
    BY <1>4, <1>g DEF RecordIntent, provider
  <2>3. txn[t].state # BOUND /\ remote[t] \notin MayCharge /\ pc[t] = "enter"
    BY <1>4, <1>a DEF RecordIntent, NothingPrior, FileAt
  <2>4. FileAt(t)' /\ PlaceAt(t)' /\ RowAt(t)'
    BY <1>a, <2>1, <2>2, <2>3, <1>1 DEF FileAt, PlaceAt, RowAt
  <2>5. QED
    BY <1>1, <1>a, <2>1, <2>2, <2>3, <2>4, StepAt
<1>5. CASE Post(t)
  <2>1. UNCHANGED <<txn, jobs, row>> /\ pc'[t] = "posting" /\ \A x \in Tasks \ {t} : pc'[x] = pc[x]
    BY <1>5, <1>g DEF Post, store
  <2>2. \A x \in Tasks \ {t} : remote'[x] = remote[x]
    BY <1>5, <1>a DEF Post, ImageTypeOK
  <2>3. txn[t].state = INTENT /\ pc[t] = "intent" /\ row[t] = "pending"
    BY <1>5, <1>a DEF Post, PlaceAt
  <2>4. FileAt(t)' /\ PlaceAt(t)' /\ RowAt(t)'
    BY <1>a, <2>1, <2>3, <1>1 DEF FileAt, PlaceAt, RowAt
  <2>5. QED
    BY <1>1, <1>a, <2>1, <2>2, <2>3, <2>4, StepAt
<1>6. ASSUME NEW s \in States, SetState(t, s), NEW result \in {"failed", "submitted"}, Return(t, result),
             UNCHANGED <<remote, jobs>>, pc[t] \in {"intent", "posting"},
             s \in {BOUND, LOST} \/ (s = NOT_CHARGED /\ remote[t] \notin MayCharge),
             result = "submitted" => s = BOUND
      PROVE  FileInv' /\ PlaceInv' /\ JobInv' /\ RowInv'
  <2>1. /\ txn'[t].state = s /\ txn'[t].settled = txn[t].settled
        /\ \A x \in Tasks \ {t} : txn'[x] = txn[x]
    BY <1>6, <1>w
  <2>2. /\ pc'[t] = "out" /\ row'[t] = result
        /\ \A x \in Tasks \ {t} : pc'[x] = pc[x] /\ row'[x] = row[x]
    BY <1>6, <1>r DEF RowKinds
  <2>3. txn[t].state = INTENT /\ txn[t].settled = "no"
    BY <1>6, <1>a DEF PlaceAt, FileAt
  <2>4. FileAt(t)' /\ PlaceAt(t)' /\ RowAt(t)'
    BY <1>a, <1>6, <2>1, <2>2, <2>3, <1>1 DEF FileAt, PlaceAt, RowAt
  <2>5. QED
    BY <1>1, <1>a, <1>6, <2>1, <2>2, <2>3, <2>4, StepAt
<1>7. CASE NotSent(t)
  BY <1>7, <1>6, <1>a DEF NotSent, PlaceAt, States, provider
<1>8. CASE RecordBound(t)
  BY <1>8, <1>6 DEF RecordBound, States, provider
<1>9. CASE RecordNotCharged(t)
  BY <1>9, <1>6 DEF RecordNotCharged, States, provider
<1>10. CASE RecordLost(t)
  BY <1>10, <1>6 DEF RecordLost, States, provider
<1>11. QED
  BY <1>2, <1>3, <1>4, <1>5, <1>7, <1>8, <1>9, <1>10 DEF Thread

LEMMA OutsideInv ==
  ASSUME IInv, NEW t \in Tasks, Reconcile(t) \/ Rewrite(t) \/ Serve(t) \/ Fail(t)
  PROVE  FileInv' /\ PlaceInv' /\ JobInv' /\ RowInv'
<1> USE StateNames DEF MayCharge
<1>a. /\ ImageTypeOK /\ run \in RunStates
      /\ FileAt(t) /\ PlaceAt(t) /\ RowAt(t)
      /\ \A j \in jobs : j.current /\ j.task = t => txn[t].state = BOUND /\ remote[t] = j.seen
  BY AtTask
<1>1. CASE Reconcile(t)
  <2>1. UNCHANGED <<remote, rewritten, pc, row, run, jobs>>
    BY <1>1 DEF Reconcile, provider, process
  <2>2. /\ txn'[t].settled = "no" /\ txn'[t].state = IF remote[t] = "completed" THEN BOUND ELSE ZERO_REMOTE
        /\ \A x \in Tasks \ {t} : txn'[x] = txn[x]
    <3>1. txn[t].settled = "no"
      BY <1>1, <1>a DEF Reconcile, FileAt
    <3>2. QED
      BY <1>1, <1>a, <3>1, FileWrites DEF Reconcile, States
  <2>3. txn[t].state = LOST /\ remote[t] # "running" /\ pc[t] \notin {"intent", "posting"}
    BY <1>1 DEF Reconcile, Locked
  <2>4. FileAt(t)' /\ PlaceAt(t)' /\ RowAt(t)'
    BY <1>a, <2>1, <2>2, <2>3 DEF FileAt, PlaceAt, RowAt
  <2>5. QED
    BY <1>a, <2>1, <2>2, <2>3, <2>4, StepAt
<1>2. CASE Rewrite(t)
  <2>1. txn'[t] = NoFile /\ \A x \in Tasks \ {t} : txn'[x] = txn[x]
    BY <1>2, <1>a, FileTypes DEF Rewrite
  <2>2. UNCHANGED <<remote, pc, row, run>> /\ rewritten' = rewritten \cup {t}
    BY <1>2 DEF Rewrite, process
  <2>3. \A j \in jobs' : j.current => j \in jobs /\ j.task # t
    BY <1>2, <1>a, JobsOutdated DEF Rewrite
  <2>4. remote[t] = "rejected" /\ run.at = "idle" /\ pc[t] = "out"
    BY <1>2, <1>a DEF Rewrite, TerminalFailed, FileAt, ImageTypeOK
  <2>5. FileAt(t)' /\ PlaceAt(t)' /\ RowAt(t)'
    BY <1>a, <2>1, <2>2, <2>4 DEF NoFile, FileAt, PlaceAt, RowAt
  <2>6. ASSUME NEW x \in Tasks \ {t} PROVE FileAt(x)' /\ PlaceAt(x)' /\ RowAt(x)'
    <3>1. FileAt(x) /\ PlaceAt(x) /\ RowAt(x)
      BY AtTask
    <3>2. QED
      BY <2>1, <2>2, <3>1 DEF FileAt, PlaceAt, RowAt
  <2>7. FileInv' /\ PlaceInv' /\ RowInv'
    BY <2>5, <2>6 DEF FileInv, PlaceInv, RowInv
  <2>8. JobInv'
    <3>1. JobInv /\ \A j \in jobs : j.task \in Tasks
      BY <1>a, FileTypes DEF IInv
    <3>2. QED
      BY <2>1, <2>2, <2>3, <3>1 DEF JobInv
  <2>9. QED
    BY <2>7, <2>8
<1>3. CASE Serve(t) \/ Fail(t)
  <2>1. UNCHANGED <<txn, rewritten, pc, row, run, jobs>> /\ remote[t] = "running"
    BY <1>3 DEF Serve, Fail, Render, Reject, Becomes, store, process
  <2>2. \A x \in Tasks \ {t} : remote'[x] = remote[x]
    BY <1>3, <1>a DEF Serve, Fail, Render, Reject, Becomes, ImageTypeOK
  <2>3. \A j \in jobs : ~(j.current /\ j.task = t)
    BY <1>a, <2>1, FileTypes DEF Terminal
  <2>4. txn[t].settled = "no" \/ txn[t].state # BOUND
    BY <1>a, <2>1, FileTypes DEF FileAt, Terminal
  <2>5. FileAt(t)' /\ PlaceAt(t)' /\ RowAt(t)'
    BY <1>a, <2>1, <2>4 DEF FileAt, PlaceAt, RowAt
  <2>6. QED
    BY <1>a, <2>1, <2>2, <2>3, <2>5, StepAt
<1>4. QED
  BY <1>1, <1>2, <1>3

LEMMA HarvestInv ==
  ASSUME IInv,
         \/ \E t \in Tasks, by \in Harvesters : HarvestRead(t, by)
         \/ \E j \in jobs : HarvestSettle(j)
  PROVE  FileInv' /\ PlaceInv' /\ JobInv' /\ RowInv'
<1> USE StateNames DEF MayCharge
<1>1. ASSUME NEW t \in Tasks, NEW by \in Harvesters, HarvestRead(t, by)
      PROVE  FileInv' /\ PlaceInv' /\ JobInv' /\ RowInv'
  <2>1. UNCHANGED <<txn, remote, rewritten, pc, row, run>>
    BY <1>1 DEF HarvestRead, store, provider, process
  <2>2. FileInv' /\ PlaceInv' /\ RowInv'
    BY <2>1 DEF IInv, FileInv, FileAt, PlaceInv, PlaceAt, RowInv, RowAt
  <2>3. JobInv'
    BY <1>1, <2>1 DEF IInv, JobInv, HarvestRead
  <2>4. QED
    BY <2>2, <2>3
<1>2. ASSUME NEW j \in jobs, HarvestSettle(j)
      PROVE  FileInv' /\ PlaceInv' /\ JobInv' /\ RowInv'
  <2> DEFINE t == j.task
  <2>1. /\ ImageTypeOK /\ run \in RunStates
        /\ t \in Tasks /\ j.seen \in Terminal /\ (j.current => txn[t].state = BOUND /\ remote[t] = j.seen)
    BY FileTypes DEF IInv, JobInv
  <2>2. UNCHANGED <<remote, rewritten, pc, row, run>> /\ jobs' \subseteq jobs
    BY <1>2 DEF HarvestSettle, provider, process
  <2>3. /\ txn' = txn \/ (txn[t].state = BOUND /\ j.current
                          /\ txn'[t].state = BOUND /\ txn'[t].settled = j.seen)
        /\ \A x \in Tasks \ {t} : txn'[x] = txn[x]
    BY <1>2, <2>1, FileWrites DEF HarvestSettle
  <2> HIDE DEF t
  <2>4. /\ FileAt(t) /\ PlaceAt(t) /\ RowAt(t)
        /\ \A i \in jobs : i.current /\ i.task = t => txn[t].state = BOUND /\ remote[t] = i.seen
    BY <2>1, AtTask
  <2>5. txn'[t].state = txn[t].state /\ (txn' = txn \/ txn'[t].settled = remote[t])
    BY <2>1, <2>3 DEF t
  <2>6. FileAt(t)' /\ PlaceAt(t)' /\ RowAt(t)'
    <3>1. CASE txn' = txn
      BY <3>1, <2>2, <2>4 DEF FileAt, PlaceAt, RowAt
    <3>2. CASE txn' # txn
      BY <3>2, <2>2, <2>3, <2>4, <2>5 DEF FileAt, PlaceAt, RowAt
    <3>3. QED
      BY <3>1, <3>2
  <2>7. QED
    BY <2>1, <2>2, <2>3, <2>4, <2>5, <2>6, StepAt
<1>3. QED
  BY <1>1, <1>2

-----------------------------------------------------------------------------
(* The safety invariants, for the steps of a run. *)

\* A run writes at most the canary's settlement, sends threads to the door of
\* submit_one, and keeps the invariants if its rows do.
LEMMA RunPart ==
  ASSUME IInv, UNCHANGED <<remote, rewritten, jobs>>,
         \A t \in Tasks : txn'[t].state = txn[t].state /\ (txn'[t] = txn[t] \/ txn'[t].settled = remote[t]),
         \A t \in Tasks : pc'[t] # "out" =>
            /\ pc'[t] = "enter" \/ pc'[t] = pc[t]
            /\ row'[t] = "pending"
            /\ run'.at = "probe" => t = run'.task,
         \A t \in Tasks : txn'[t] # txn[t] => txn[t].state = BOUND,
         RowInv'
  PROVE  FileInv' /\ PlaceInv' /\ JobInv' /\ RowInv'
<1> USE StateNames
<1>1. ASSUME NEW t \in Tasks PROVE FileAt(t)' /\ PlaceAt(t)'
  <2>1. FileAt(t) /\ PlaceAt(t)
    BY AtTask
  <2>2. FileAt(t)'
    BY <2>1 DEF FileAt
  <2>3. PlaceAt(t)'
    BY <2>1 DEF PlaceAt
  <2>4. QED
    BY <2>2, <2>3
<1>2. JobInv'
  BY FileTypes DEF IInv, JobInv
<1>3. QED
  BY <1>1, <1>2 DEF FileInv, PlaceInv

\* The rows of a run stay true under the ways a run rewrites them.
LEMMA RowsKept ==
  ASSUME IInv, UNCHANGED <<remote, rewritten>>,
         \A t \in Tasks : txn'[t].state = txn[t].state,
         run.at # "idle",
         \A t \in Tasks :
            \/ row'[t] = row[t] /\ (row[t] = "rejected" => run'.at \in {"probe", "channel"})
            \/ row'[t] \in {"none", "pending", "failed", "deferred", "quarantined"}
            \/ row'[t] = "submitted" /\ txn[t].state = BOUND
            \/ row'[t] = "rejected" /\ txn[t].state = BOUND /\ remote[t] = "rejected"
               /\ run'.at \in {"probe", "channel"}
            \/ row'[t] \in {"refused", "before_intent", "not_charged"} /\ remote[t] \notin MayCharge
  PROVE  RowInv'
<1>1. ASSUME NEW t \in Tasks PROVE RowAt(t)'
  <2>1. RowAt(t)
    BY AtTask
  <2>2. QED
    BY <2>1 DEF RowAt
<1>2. QED
  BY <1>1 DEF RowInv

\* The rows a batch is released or reported with.
LEMMA RowValues ==
  ASSUME IInv
  PROVE  /\ \A t \in Tasks : RefuseRejected[t] = IF row[t] = "rejected" THEN "refused" ELSE row[t]
         /\ \A t \in Tasks : t \in Rejected <=> row[t] = "rejected"
         /\ \A t \in Tasks : t \in Pending <=> row[t] = "pending"
         /\ \A t \in Tasks : row[t] = "rejected" =>
               txn[t].state = BOUND /\ remote[t] = "rejected" /\ remote[t] \notin MayCharge
<1>1. \A t \in Tasks : RowAt(t)
  BY AtTask
<1>2. QED
  BY <1>1 DEF RowAt, RefuseRejected, Rejected, Pending, Rows, MayCharge

\* A step that leaves the files alone, sends no thread anywhere and leaves no
\* rejected row behind.
LEMMA QuietRun ==
  ASSUME IInv, UNCHANGED <<txn, remote, rewritten, jobs, pc>>,
         run.at # "idle", \A t \in Tasks : pc[t] = "out", RowInv'
  PROVE  FileInv' /\ PlaceInv' /\ JobInv' /\ RowInv'
  BY RunPart

LEMMA ReleaseInv ==
  ASSUME IInv, Release, UNCHANGED <<remote, rewritten, jobs>>, run.at \in {"probe", "channel"},
         \A t \in Tasks : txn'[t].state = txn[t].state /\ (txn'[t] = txn[t] \/ txn'[t].settled = remote[t]),
         \A t \in Tasks : txn'[t] # txn[t] => txn[t].state = BOUND,
         \A t \in Tasks : \/ row'[t] = IF row[t] = "rejected" THEN "refused" ELSE row[t]
                          \/ row[t] # "pending" /\ row'[t] = "refused" /\ remote[t] \notin MayCharge
  PROVE  FileInv' /\ PlaceInv' /\ JobInv' /\ RowInv'
<1>1. /\ run'.at = "pool"
      /\ \A t \in Tasks : pc'[t] = IF row[t] = "pending" THEN "enter" ELSE pc[t]
  BY ReleaseEffect DEF IInv
<1>2. \A t \in Tasks : pc[t] # "out" => row[t] = "pending"
  BY DEF IInv, PlaceInv, PlaceAt
<1>3. RowInv'
  BY RowsKept, RowValues
<1>4. QED
  BY <1>1, <1>2, <1>3, RunPart

\* What the canary's settlement does.
LEMMA CanarySettle ==
  ASSUME IInv, Canary, NEW status \in Terminal, remote[run.task] = status, Settle(run.task, TRUE, status)
  PROVE  /\ run.task \in Tasks /\ run.at = "probe" /\ row[run.task] = "submitted"
         /\ txn[run.task].state = BOUND
         /\ \A t \in Tasks : pc[t] = "out"
         /\ \A t \in Tasks : /\ txn'[t].state = txn[t].state
                             /\ txn'[t] = txn[t] \/ txn'[t].settled = remote[t]
                             /\ txn'[t] # txn[t] => txn[t].state = BOUND
<1>1. run.task \in Tasks /\ run.at = "probe" /\ row[run.task] = "submitted" /\ pc[run.task] = "out"
  BY FileTypes DEF IInv, Canary
<1>2. /\ FileAt(run.task) /\ RowAt(run.task) /\ ImageTypeOK /\ run \in RunStates
      /\ \A t \in Tasks : PlaceAt(t)
  BY <1>1, AtTask
<1>3. txn[run.task].state = BOUND /\ \A t \in Tasks : pc[t] = "out"
  BY <1>1, <1>2 DEF PlaceAt, RowAt
<1>4. /\ txn' = txn \/ (txn'[run.task].state = BOUND /\ txn'[run.task].settled = status)
      /\ \A x \in Tasks \ {run.task} : txn'[x] = txn[x]
  BY <1>1, <1>2, FileWrites
<1>5. QED
  BY <1>1, <1>3, <1>4

LEMMA RunInv ==
  ASSUME IInv, StartRun \/ RunStep \/ Kill
  PROVE  FileInv' /\ PlaceInv' /\ JobInv' /\ RowInv'
<1> USE StateNames
<1>a. /\ ImageTypeOK /\ run \in RunStates /\ bad \subseteq Tasks
      /\ \A t \in Tasks : PlaceAt(t)
      /\ run.at \notin {"probe", "pool"} => \A t \in Tasks : pc[t] = "out"
      /\ run.at \notin {"probe", "channel"} => \A t \in Tasks : row[t] # "rejected"
  BY AtTask DEF IInv, ImageTypeOK, RowInv, RowAt
<1>s. /\ store' = store => txn' = txn
      /\ provider' = provider => remote' = remote /\ rewritten' = rewritten
  BY DEF store, provider
<1>h. ASSUME NEW healthy \in BOOLEAN, ChannelHealth(healthy) PROVE txn' = txn
  BY <1>h, <1>a, ChannelTypes
<1>1. CASE StartRun
  <2>1. RowInv'
    BY <1>1 DEF StartRun, RowInv, RowAt
  <2>2. QED
    BY <1>1, <1>a, <1>s, <2>1, RunPart DEF StartRun
<1>2. CASE PassOutageGate \/ OutageInStore
  <2>1. UNCHANGED <<txn, remote, rewritten, jobs, pc, row>> /\ run.at = "gate"
    BY <1>2, <1>s DEF PassOutageGate, OutageInStore
  <2>2. QED
    BY <1>a, <2>1, RowsKept, QuietRun
<1>3. CASE OutageGate
  <2>1. UNCHANGED <<txn, remote, rewritten, jobs, pc>> /\ run.at = "gatechannel"
    BY <1>3, <1>s, <1>h DEF OutageGate
  <2>2. \A t \in Tasks : row'[t] \in {row[t], "deferred"}
    BY <1>3 DEF OutageGate
  <2>3. QED
    BY <1>a, <2>1, <2>2, RowsKept, QuietRun
<1>4. CASE NextProbe
  <2>1. PICK t \in Tasks : /\ run' = [run EXCEPT !.task = t] /\ pc' = [pc EXCEPT ![t] = "enter"]
                           /\ row[t] = "pending"
    BY <1>4 DEF NextProbe, Pending, Rows
  <2>2. UNCHANGED <<txn, remote, rewritten, jobs, row>> /\ run.at = "probe"
    BY <1>4, <1>s DEF NextProbe, Probed
  <2>3. run'.at = "probe" /\ run'.task = t
    BY <1>a, <2>1, <2>2, RunMoves
  <2>4. pc'[t] = "enter" /\ \A x \in Tasks \ {t} : pc'[x] = "out"
    BY <1>4, <1>a, <2>1 DEF NextProbe, Probed, PlaceAt, ImageTypeOK
  <2>5. RowInv'
    BY <2>2, <2>3, RowsKept
  <2>6. QED
    BY <2>1, <2>2, <2>3, <2>4, <2>5, RunPart
<1>5. CASE CanaryHealthy
  BY <1>5, <1>s, RowValues, ReleaseInv DEF CanaryHealthy, Canary
<1>6. CASE CanaryOther
  <2>1. Canary /\ remote[run.task] = "failed" /\ Settle(run.task, TRUE, "failed") /\ "failed" \in Terminal
    BY <1>6 DEF CanaryOther, Terminal
  <2>2. /\ Release /\ row' = RefuseRejected /\ UNCHANGED <<remote, rewritten, jobs>>
    BY <1>6, <1>s DEF CanaryOther
  <2>3. QED
    BY <2>1, <2>2, CanarySettle, RowValues, ReleaseInv
<1>7. CASE CanaryRejected
  <2>1. Canary /\ remote[run.task] = "rejected" /\ Settle(run.task, TRUE, "rejected") /\ "rejected" \in Terminal
    BY <1>7 DEF CanaryRejected, Terminal
  <2>2. UNCHANGED <<remote, rewritten, jobs>>
    BY <1>7, <1>s DEF CanaryRejected
  <2>3. /\ run.task \in Tasks /\ run.at = "probe" /\ row[run.task] = "submitted"
        /\ txn[run.task].state = BOUND /\ remote[run.task] \notin MayCharge
        /\ \A t \in Tasks : pc[t] = "out"
        /\ \A t \in Tasks : /\ txn'[t].state = txn[t].state
                            /\ txn'[t] = txn[t] \/ txn'[t].settled = remote[t]
                            /\ txn'[t] # txn[t] => txn[t].state = BOUND
    BY <2>1, CanarySettle DEF MayCharge
  <2>4. row \in [Tasks -> RowKinds] /\ RefuseRejected \in [Tasks -> RowKinds]
    BY <1>a, RowSets DEF ImageTypeOK, RowKinds
  <2>5. CASE Release /\ row' = [RefuseRejected EXCEPT ![run.task] = "refused"]
    <3>1. \A t \in Tasks : row'[t] = IF t = run.task THEN "refused" ELSE RefuseRejected[t]
      BY <2>4, <2>5
    <3>2. QED
      BY <2>2, <2>3, <2>5, <3>1, RowValues, ReleaseInv
  <2>6. CASE /\ run' = run \/ run' = [run EXCEPT !.at = "channel"]
             /\ row' = [row EXCEPT ![run.task] = "rejected"] /\ pc' = pc
    <3>1. \A t \in Tasks : row'[t] = IF t = run.task THEN "rejected" ELSE row[t]
      BY <2>4, <2>6
    <3>2. run'.at \in {"probe", "channel"}
      <4>1. CASE run' = run
        BY <2>3, <4>1
      <4>2. CASE run' = [run EXCEPT !.at = "channel"]
        BY <1>a, <4>2, RunMoves
      <4>3. QED
        BY <2>6, <4>1, <4>2
    <3>3. RowInv'
      BY <2>1, <2>2, <2>3, <3>1, <3>2, RowsKept
    <3>4. QED
      BY <2>2, <2>3, <2>6, <3>3, RunPart
  <2>7. QED
    BY <1>7, <2>5, <2>6 DEF CanaryRejected
<1>8. CASE ChannelWorks
  <2>1. UNCHANGED <<txn, remote, rewritten, jobs>> /\ run.at = "channel"
    BY <1>8, <1>s, <1>h DEF ChannelWorks
  <2>2. CASE Release /\ row' = RefuseRejected
    BY <2>1, <2>2, RowValues, ReleaseInv
  <2>3. CASE run' = [run EXCEPT !.at = "probe", !.channel = "healthy"] /\ UNCHANGED <<pc, row>>
    <3>1. run'.at = "probe"
      BY <1>a, <2>3, RunMoves
    <3>2. RowInv'
      BY <2>1, <2>3, <3>1, RowsKept
    <3>3. QED
      BY <1>a, <2>1, <2>3, <3>2, QuietRun
  <2>4. QED
    BY <1>8, <2>2, <2>3 DEF ChannelWorks
<1>9. CASE ChannelBroken
  <2>1. UNCHANGED <<txn, remote, rewritten, jobs, pc>> /\ run.at = "channel"
    BY <1>9, <1>s, <1>h DEF ChannelBroken
  <2>2. \A t \in Tasks : row'[t] = IF t \in Rejected THEN "submitted"
                                   ELSE IF t \in Pending THEN "deferred" ELSE row[t]
    BY <1>9 DEF ChannelBroken
  <2>3. RowInv'
    BY <2>1, <2>2, RowValues, RowsKept
  <2>4. QED
    BY <1>a, <2>1, <2>3, QuietRun
<1>10. CASE ProbesExhausted
  <2>1. UNCHANGED <<txn, remote, rewritten, jobs, pc>> /\ run.at = "probe"
    BY <1>10, <1>s DEF ProbesExhausted, Probed
  <2>2. \A t \in Tasks : pc[t] = "out"
    BY <1>10, <1>a DEF ProbesExhausted, Probed, PlaceAt
  <2>3. \/ \A t \in Tasks : row'[t] = IF row[t] = "rejected" THEN "refused" ELSE row[t]
        \/ \A t \in Tasks : row'[t] = IF row[t] = "rejected" THEN "submitted" ELSE row[t]
    BY <1>10, RowValues DEF ProbesExhausted
  <2>4. RowInv'
    BY <2>1, <2>3, RowValues, RowsKept
  <2>5. QED
    BY <2>1, <2>2, <2>4, QuietRun
<1>11. CASE PoolDone \/ HarvestDone
  <2>1. /\ UNCHANGED <<txn, remote, rewritten, jobs, pc, row>> /\ run.at \in {"pool", "harvest"}
        /\ \A t \in Tasks : pc[t] = "out"
    BY <1>11, <1>a, <1>s DEF PoolDone, HarvestDone
  <2>2. QED
    BY <1>a, <2>1, RowsKept, QuietRun
<1>12. CASE WriteReport
  <2>1. UNCHANGED <<txn, remote, rewritten, jobs, pc>> /\ run.at = "report"
    BY <1>12, <1>s DEF WriteReport
  <2>2. \A t \in Tasks : \/ row'[t] = row[t]
                         \/ row'[t] = "quarantined"
                         \/ row'[t] = "before_intent" /\ txn[t].state = ABSENT
                         \/ row'[t] = "not_charged" /\ txn[t].state = NOT_CHARGED
    BY <1>12 DEF WriteReport, ReportedRow
  <2>3. \A t \in Tasks : txn[t].state \in {ABSENT, NOT_CHARGED} => remote[t] \notin MayCharge
    BY AtTask DEF FileAt
  <2>4. RowInv'
    BY <1>a, <2>1, <2>2, <2>3, RowsKept
  <2>5. QED
    BY <1>a, <2>1, <2>4, QuietRun
<1>13. CASE Kill
  <2>1. UNCHANGED <<txn, remote, rewritten, jobs>> /\ \A t \in Tasks : pc'[t] = "out" /\ row'[t] = "none"
    BY <1>13, <1>s DEF Kill
  <2>2. RowInv'
    BY <2>1 DEF RowInv, RowAt
  <2>3. QED
    BY <2>1, <2>2, RunPart
<1>14. QED
  BY <1>1, <1>2, <1>3, <1>4, <1>5, <1>6, <1>7, <1>8, <1>9, <1>10, <1>11, <1>12, <1>13 DEF RunStep

\* Nobody looks at a working channel and finds it broken without a trouble.
LEMMA BrokenNeedsTrouble ==
  ASSUME ImageTypeOK, TroubleInv, ChannelHealth(FALSE)
  PROVE  troubles' \in Nat /\ troubles' > 0 /\ troubles' >= troubles
<1>1. troubles \in Nat /\ (broken \/ ~up => troubles > 0) /\ broken \in BOOLEAN /\ up \in BOOLEAN
  BY DEF TroubleInv, ImageTypeOK
<1>2. CASE HealthyByRecord(FALSE)
  BY <1>1, <1>2 DEF HealthyByRecord
<1>3. CASE HealthyByProbe(FALSE)
  <2>1. CASE Trouble
    BY <1>1, <2>1 DEF Trouble
  <2>2. CASE FALSE = up /\ UNCHANGED troubles
    BY <1>1, <2>2
  <2>3. QED
    BY <1>3, <2>1, <2>2 DEF HealthyByProbe
<1>4. QED
  BY <1>2, <1>3 DEF ChannelHealth

\* A look that finds the channel working leaves no broken verdict behind.
LEMMA WorkingLeavesNoVerdict ==
  ASSUME ImageTypeOK, TroubleInv, ChannelHealth(TRUE)
  PROVE  /\ troubles' \in Nat /\ troubles' >= troubles
         /\ broken' => broken
<1>1. troubles \in Nat
  BY DEF TroubleInv
<1>2. CASE HealthyByRecord(TRUE)
  BY <1>1, <1>2 DEF HealthyByRecord, store
<1>3. CASE HealthyByProbe(TRUE)
  <2>1. broken' = FALSE
    BY <1>3 DEF HealthyByProbe
  <2>2. troubles' = troubles \/ troubles' = troubles + 1
    BY <1>3 DEF HealthyByProbe, Trouble
  <2>3. QED
    BY <1>1, <2>1, <2>2
<1>4. QED
  BY <1>2, <1>3 DEF ChannelHealth

LEMMA TroubleStep == IInv /\ [ImageNext]_imgvars => TroubleInv'
<1> SUFFICES ASSUME IInv, [ImageNext]_imgvars PROVE TroubleInv'
  OBVIOUS
<1>a. ImageTypeOK /\ run \in RunStates /\ TroubleInv /\ troubles \in Nat
  BY DEF IInv, TroubleInv
<1> DEFINE Deferred == \E t \in Tasks : row[t] = "deferred"
<1>b. (broken \/ ~up \/ Deferred) => troubles > 0
  BY <1>a DEF TroubleInv
<1>1. ASSUME troubles' \in Nat, troubles' >= troubles,
             \/ troubles' > troubles
             \/ (broken' => broken) /\ (~up' => ~up) /\ (\A t \in Tasks : row'[t] = "deferred" => row[t] = "deferred")
      PROVE  TroubleInv'
  <2>1. CASE troubles' > 0
    BY <1>1, <2>1 DEF TroubleInv
  <2>2. CASE ~(troubles' > 0)
    <3>1. troubles = 0 /\ ~(troubles' > troubles)
      BY <1>a, <1>1, <2>2
    <3>2. ~broken /\ up /\ ~Deferred
      BY <1>b, <3>1
    <3>3. ~broken' /\ up' /\ ~Deferred'
      BY <1>1, <3>1, <3>2
    <3>4. QED
      BY <1>1, <3>3 DEF TroubleInv
  <2>3. QED
    BY <2>1, <2>2
<1> HIDE DEF Deferred
<1>t. Trouble => troubles' \in Nat /\ troubles' > troubles /\ troubles' >= troubles
  BY <1>a DEF Trouble
<1>u. troubles' = troubles => troubles' \in Nat /\ troubles' >= troubles
  BY <1>a
<1>2. ASSUME NEW t \in Tasks, Thread(t) PROVE TroubleInv'
  <2>1. broken' = broken /\ up' = up /\ (troubles' = troubles \/ Trouble)
    BY <1>2 DEF Thread, Retire, Recover, Blocked, RefuseBeforeIntent, RecordIntent, NotSent, Post,
       RecordBound, RecordNotCharged, RecordLost, store, provider, SetState
  <2>2. (\E result \in {"recovered", "failed", "submitted"} : Return(t, result)) \/ row' = row
    BY <1>2 DEF Thread, Retire, Recover, Blocked, RefuseBeforeIntent, RecordIntent, NotSent, Post,
       RecordBound, RecordNotCharged, RecordLost, process, Goto
  <2>3. \A x \in Tasks : row'[x] = "deferred" => row[x] = "deferred"
    BY <1>a, <2>2, ThreadMoves DEF RowKinds
  <2>4. QED
    BY <2>1, <2>3, <1>1, <1>t, <1>u
<1>3. CASE \/ \E t \in Tasks, by \in Harvesters : HarvestRead(t, by)
           \/ \E t \in Tasks : Reconcile(t) \/ Rewrite(t) \/ Serve(t) \/ Fail(t)
           \/ \E j \in jobs : HarvestSettle(j)
  <2>1. broken' = broken /\ up' = up /\ row' = row /\ (troubles' = troubles \/ Trouble)
    BY <1>3 DEF HarvestRead, Reconcile, Rewrite, Serve, Fail, Render, Reject, Becomes, HarvestSettle,
       SetState, store, provider, process
  <2>2. QED
    BY <2>1, <1>1, <1>t, <1>u
<1>4. CASE Elapse \/ OutageEnds \/ UNCHANGED imgvars
  <2>1. (broken' => broken) /\ (~up' => ~up) /\ row' = row /\ troubles' = troubles
    BY <1>4 DEF Elapse, OutageEnds, imgvars, store, provider, process
  <2>2. QED
    BY <2>1, <1>1, <1>u
<1>5. CASE OutageBegins
  BY <1>5, <1>1, <1>t DEF OutageBegins
<1>6. CASE StartRun \/ Kill
  <2>1. broken' = broken /\ up' = up /\ (troubles' = troubles \/ Trouble)
    BY <1>6 DEF StartRun, Kill, store, provider
  <2>2. \A t \in Tasks : row'[t] # "deferred"
    BY <1>6 DEF StartRun, Kill
  <2>3. QED
    BY <2>1, <2>2, <1>1, <1>t, <1>u
<1>7. CASE RunStep
  <2>1. up' = up
    BY <1>7 DEF RunStep, PassOutageGate, OutageInStore, OutageGate, NextProbe, CanaryHealthy, CanaryOther,
       CanaryRejected, ChannelWorks, ChannelBroken, ProbesExhausted, PoolDone, WriteReport, HarvestDone, provider
  <2>2. CASE ChannelHealth(FALSE)
    <3>1. troubles' \in Nat /\ troubles' > 0 /\ troubles' >= troubles
      BY <1>a, <2>2, BrokenNeedsTrouble
    <3>2. QED
      BY <3>1 DEF TroubleInv
  <2>3. CASE ~ChannelHealth(FALSE)
    <3>1. \/ ChannelHealth(TRUE)
          \/ broken' = broken /\ (troubles' = troubles \/ Trouble)
      BY <1>7, <2>3 DEF RunStep, PassOutageGate, OutageInStore, OutageGate, NextProbe, CanaryHealthy,
         CanaryOther, CanaryRejected, ChannelWorks, ChannelBroken, ProbesExhausted, PoolDone, WriteReport,
         HarvestDone, store
    <3>2. \A t \in Tasks : row'[t] = "deferred" => row[t] = "deferred"
      <4>1. row \in [Tasks -> RowKinds] /\ RefuseRejected \in [Tasks -> RowKinds]
        BY <1>a, RowSets DEF ImageTypeOK, RowKinds
      <4>2. \/ row' = row \/ row' = RefuseRejected
            \/ row' = [t \in Tasks |-> ReportedRow(t)]
            \/ row' = [t \in Tasks |-> IF t \in Rejected THEN "submitted" ELSE row[t]]
            \/ row' = [row EXCEPT ![run.task] = "rejected"]
            \/ row' = [RefuseRejected EXCEPT ![run.task] = "refused"]
        BY <1>7, <2>3 DEF RunStep, PassOutageGate, OutageInStore, OutageGate, NextProbe, CanaryHealthy,
           CanaryOther, CanaryRejected, ChannelWorks, ChannelBroken, ProbesExhausted, PoolDone, WriteReport,
           HarvestDone
      <4>3. \A t \in Tasks : RefuseRejected[t] = "deferred" => row[t] = "deferred"
        BY DEF RefuseRejected
      <4>4. \A t \in Tasks : ReportedRow(t) = "deferred" => row[t] = "deferred"
        BY DEF ReportedRow
      <4>5. QED
        BY <4>1, <4>2, <4>3, <4>4
    <3>3. (broken' => broken) /\ (troubles' \in Nat /\ troubles' >= troubles)
      <4>1. CASE ChannelHealth(TRUE)
        BY <1>a, <4>1, WorkingLeavesNoVerdict
      <4>2. CASE broken' = broken /\ (troubles' = troubles \/ Trouble)
        BY <4>2, <1>t, <1>u
      <4>3. QED
        BY <3>1, <4>1, <4>2
    <3>4. QED
      BY <2>1, <3>2, <3>3, <1>1
  <2>4. QED
    BY <2>2, <2>3
<1>8. QED
  BY StepCases, <1>2, <1>3, <1>4, <1>5, <1>6, <1>7

-----------------------------------------------------------------------------

LEMMA StepInv == IInv /\ [ImageNext]_imgvars => IInv'
<1> SUFFICES ASSUME IInv, [ImageNext]_imgvars PROVE IInv'
  OBVIOUS
<1>1. ImageTypeOK' /\ run' \in RunStates /\ TroubleInv'
  BY TypeStep, TroubleStep
<1>2. CASE \/ Elapse \/ OutageBegins \/ OutageEnds \/ UNCHANGED imgvars
  <2>1. UNCHANGED <<txn, remote, rewritten, pc, row, run, jobs>>
    BY <1>2 DEF Elapse, OutageBegins, OutageEnds, imgvars, store, provider, process
  <2>2. QED
    BY <1>1, <2>1 DEF IInv, FileInv, FileAt, PlaceInv, PlaceAt, JobInv, RowInv, RowAt
<1>3. CASE ~(\/ Elapse \/ OutageBegins \/ OutageEnds \/ UNCHANGED imgvars)
  <2>1. FileInv' /\ PlaceInv' /\ JobInv' /\ RowInv'
    BY <1>3, StepCases, ThreadInv, HarvestInv, OutsideInv, RunInv
  <2>2. QED
    BY <1>1, <2>1 DEF IInv
<1>4. QED
  BY <1>2, <1>3

\* The inductive invariant of the image path.
THEOREM ImageInvariant == ImageSpec => []IInv
<1>1. QED
  BY InitInv, StepInv, PTL DEF ImageSpec

\* Type correctness of the image path (ImageTypeOK).
THEOREM ImageTypeCorrect == ImageSpec => []ImageTypeOK
<1>1. IInv => ImageTypeOK
  BY DEF IInv
<1>2. QED
  BY <1>1, ImageInvariant, PTL

\* "ONE create POST" (submit_giggle_image_manifest.py:600): a task that may be
\* ordered again has no image that may be charged.
THEOREM ImagesAreBoughtOnce == ImageSpec => []ImageBoughtOnce
<1>1. IInv => ImageBoughtOnce
  <2> SUFFICES ASSUME IInv, NEW t \in Tasks, MayPost(t) PROVE remote[t] \notin MayCharge
    BY DEF ImageBoughtOnce
  <2>1. FileAt(t)
    BY AtTask
  <2>2. QED
    BY <2>1, StateNames DEF MayPost, TerminalFailed, FileAt, MayCharge
<1>2. QED
  BY <1>1, ImageInvariant, PTL

\* What a report says of the tasks its run tried is so when it is read
\* (hopsapi_credit_summary, submit_giggle_image_manifest.py).
THEOREM TriedRowsStayTrue == ImageSpec => []TriedRowsAreTrue
<1>1. IInv => TriedRowsAreTrue
  <2> SUFFICES ASSUME IInv, run.at = "idle", NEW t \in Tasks
               PROVE  /\ row[t] \in {"submitted", "recovered"} => txn[t].state = BOUND \/ t \in rewritten
                      /\ row[t] \in {"refused", "before_intent", "not_charged"} => remote[t] \notin MayCharge
    BY DEF TriedRowsAreTrue
  <2>1. RowAt(t)
    BY AtTask DEF IInv
  <2>2. QED
    BY <2>1 DEF RowAt
<1>2. QED
  BY <1>1, ImageInvariant, PTL

\* Content rejections alone never put a task off for an outage (channel_health,
\* submit_giggle_image_manifest.py).
THEOREM DeferralNeedsTrouble == ImageSpec => []DeferredOnlyAfterTrouble
<1>1. IInv => DeferredOnlyAfterTrouble
  BY AtTask DEF IInv, TroubleInv, DeferredOnlyAfterTrouble
<1>2. QED
  BY <1>1, ImageInvariant, PTL
================================================================================
