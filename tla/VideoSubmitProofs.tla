-------------------------- MODULE VideoSubmitProofs --------------------------
(***************************************************************************)
(* Theorems of VideoSubmit, for any set of fingerprints, any transport of  *)
(* each, any supersedes declarations, any number of concurrent callers and *)
(* any bound on the attempts.                                              *)
(***************************************************************************)
EXTENDS VideoSubmit, TLAPS

\* The shape of the state, with the two states of a file that submit_one never
\* writes: the settlement of lost answers does.
FileStates == SubmitStates \cup {ZERO_REMOTE, "NEEDS_MANUAL_ATTRIBUTION"}

Files ==
    [state : FileStates, attempt : 0 .. MaxAttempts, task : TaskIds \cup {None}, response : BOOLEAN]

Shape ==
    /\ txn \in [Fingerprints -> Files]
    /\ remote \in [TaskIds -> RemoteStates]
    /\ flock \in [Fingerprints -> Workers \cup {None}]
    /\ pc \in [Workers -> Places]
    /\ at \in [Workers -> Fingerprints \cup {None}]
    /\ outcome \in [Workers -> Outcomes]
    /\ \A w \in Workers : pc[w] # "idle" => at[w] \in Fingerprints

InCall(w) == pc[w] \notin {"idle", "waiting"}

\* A call past prior_bound holds the flock of its own transaction.
LockInv == \A w \in Workers : InCall(w) => flock[at[w]] = w

\* What a call may rely on at each place, because it holds that flock.
AtPlace(w) ==
    /\ pc[w] \in {"prior", "gates", "ready"} => MayPost(at[w])
    /\ pc[w] = "ready" => txn[at[w]].attempt < MaxAttempts
    /\ pc[w] = "intent" =>
          /\ txn[at[w]].state = INTENT
          /\ Attempt(at[w]) \in TaskIds
          /\ remote[Attempt(at[w])] = "none"
    /\ pc[w] = "posting" =>
          /\ txn[at[w]].state = INTENT
          /\ Attempt(at[w]) \in TaskIds
          /\ remote[Attempt(at[w])] # "none"
    /\ pc[w] = "bound" => txn[at[w]].state = BOUND

PlaceInv == \A w \in Workers : AtPlace(w)

\* Attempts after the current one have not been made, and those before it can no
\* longer be charged; nor can the current one once a new POST is allowed.
AttemptInv == \A f \in Fingerprints, n \in 1 .. MaxAttempts :
    /\ n > txn[f].attempt => remote[<<f, n>>] = "none"
    /\ n < txn[f].attempt => remote[<<f, n>>] \notin MayCharge
    /\ n = txn[f].attempt /\ MayPost(f) => remote[<<f, n>>] \notin MayCharge

\* What the calls themselves rely on, whatever else is done to settled files.
Base == Shape /\ LockInv /\ PlaceInv /\ AttemptInv

\* A bound row names its own current attempt.
BoundInv == \A f \in Fingerprints : txn[f].state = BOUND =>
    txn[f].task = Attempt(f) /\ Attempt(f) \in TaskIds /\ txn[f].response

\* A unit's receipt file answers for a bound take of the unit.
ReceiptInv == \A u \in Units : receipts[u] # None => receipts[u] \in Bindings(u)

\* A thread that has returned a row was called for a task.
CalledInv == \A w \in Workers :
    pc[w] = "idle" /\ outcome[w] \in {"submitted", "recovered"} => at[w] \in Fingerprints

IInv == /\ TypeOK /\ LockInv /\ PlaceInv /\ AttemptInv /\ BoundInv
        /\ ReceiptInv /\ CalledInv /\ ReturnedRowIsBacked

USE ConstantsAssumption

-----------------------------------------------------------------------------

LEMMA InitInv == Init => IInv
<1> SUFFICES ASSUME Init PROVE IInv
  OBVIOUS
<1>1. TypeOK
  BY DEF Init, TypeOK, TxnRecords, SubmitStates, ABSENT, RemoteStates, Places, Outcomes
<1>2. LockInv /\ PlaceInv
  BY DEF Init, LockInv, InCall, PlaceInv, AtPlace
<1>3. AttemptInv
  BY DEF Init, AttemptInv, MayCharge, TaskIds
<1>4. BoundInv /\ ReceiptInv /\ CalledInv /\ ReturnedRowIsBacked
  BY DEF Init, BoundInv, ReceiptInv, CalledInv, ReturnedRowIsBacked, ABSENT, BOUND
<1>5. QED
  BY <1>1, <1>2, <1>3, <1>4 DEF IInv

\* The states submit_one writes.
LEMMA States ==
    /\ {INTENT, BOUND, LOST, NO_TASK_ID, INSUFFICIENT, ZERO_RETRY} \subseteq SubmitStates
    /\ SubmitStates \subseteq FileStates
  BY DEF SubmitStates, FileStates, INTENT, BOUND, LOST, NO_TASK_ID, INSUFFICIENT, ZERO_RETRY

LEMMA InvBase == IInv => Base
<1>1. TxnRecords \subseteq Files
  BY States DEF TxnRecords, Files
<1>2. TypeOK => Shape
  BY <1>1 DEF TypeOK, Shape
<1>3. QED
  BY <1>2 DEF IInv, Base

\* Leaving submit_one, and moving on inside it, keep the types of the local part.
LEMMA ReturnType ==
  ASSUME Shape, NEW w \in Workers, NEW result \in Outcomes, Return(w, result)
  PROVE  /\ flock' \in [Fingerprints -> Workers \cup {None}]
         /\ pc' \in [Workers -> Places]
         /\ at' \in [Workers -> Fingerprints \cup {None}]
         /\ outcome' \in [Workers -> Outcomes]
         /\ \A v \in Workers : pc'[v] # "idle" => at'[v] \in Fingerprints
  BY DEF Shape, Return, Places

LEMMA GotoType ==
  ASSUME Shape, NEW w \in Workers, NEW place \in Places, pc[w] # "idle", Goto(w, place)
  PROVE  /\ flock' \in [Fingerprints -> Workers \cup {None}]
         /\ pc' \in [Workers -> Places]
         /\ at' \in [Workers -> Fingerprints \cup {None}]
         /\ outcome' \in [Workers -> Outcomes]
         /\ \A v \in Workers : pc'[v] # "idle" => at'[v] \in Fingerprints
  BY DEF Shape, Goto

\* The two in-place writes of a transaction file keep its type.
LEMMA WriteType ==
  ASSUME Shape, NEW f \in Fingerprints, NEW s \in FileStates, SetState(f, s) \/ SetAnswer(f, s)
  PROVE  txn' \in [Fingerprints -> Files]
<1>1. txn[f] \in Files
  BY DEF Shape
<1>2. [txn[f] EXCEPT !.state = s] \in Files
  BY <1>1 DEF Files
<1>3. [txn[f] EXCEPT !.state = s, !.response = TRUE] \in Files
  BY <1>1 DEF Files
<1>4. QED
  BY <1>1, <1>2, <1>3 DEF Shape, SetState, SetAnswer

\* Types are kept by every step.
LEMMA ShapeStep == Base /\ [Next]_vars => Shape'
<1> SUFFICES ASSUME Base, [Next]_vars PROVE Shape'
  OBVIOUS
<1>t. Shape /\ PlaceInv
  BY DEF Base
<1>1. ASSUME NEW w \in Workers, NEW f \in Fingerprints, Call(w, f) PROVE Shape'
  BY <1>1, <1>t DEF Call, Shape, store, Places, Outcomes
<1>2. ASSUME NEW w \in Workers, Enter(w) PROVE Shape'
  <2>1. CASE EnterBound(w)
    BY <2>1, <1>t, ReturnType DEF EnterBound, Shape, Outcomes
  <2>2. CASE EnterBlocked(w)
    BY <2>2, <1>t, ReturnType DEF EnterBlocked, Shape, store, Outcomes
  <2>3. CASE EnterMayPost(w)
    BY <2>3, <1>t DEF EnterMayPost, Shape, store, Places
  <2>4. QED
    BY <1>2, <2>1, <2>2, <2>3 DEF Enter
<1>3. ASSUME NEW w \in Workers, Step(w) PROVE Shape'
  <2>w. pc[w] # "idle" /\ at[w] \in Fingerprints
    BY <1>3, <1>t DEF Shape, Step, ReturnLiveElsewhere, NoLiveElsewhere, RefuseBeforeIntent,
       PassGates, RecordIntent, NotSent, Post, RecordBound, RecordNotCharged, RecordNoTaskId,
       RecordLost, WriteReceipt
  <2>1. CASE ReturnLiveElsewhere(w)
    BY <2>1, <1>t, ReturnType DEF ReturnLiveElsewhere, Shape, store, Outcomes
  <2>2. CASE NoLiveElsewhere(w)
    BY <2>2, <2>w, <1>t, GotoType DEF NoLiveElsewhere, Shape, store, Places
  <2>3. CASE RefuseBeforeIntent(w)
    BY <2>3, <1>t, ReturnType DEF RefuseBeforeIntent, Shape, store, Outcomes
  <2>4. CASE PassGates(w)
    BY <2>4, <2>w, <1>t, GotoType DEF PassGates, Shape, store, Places
  <2>5. CASE RecordIntent(w)
    <3>1. txn[at[w]].attempt + 1 \in 0 .. MaxAttempts
      BY <2>5, <2>w, <1>t DEF RecordIntent, PlaceInv, AtPlace, Shape, Files
    <3>2. txn' \in [Fingerprints -> Files]
      BY <2>5, <2>w, <3>1, <1>t, States DEF RecordIntent, Shape, Files
    <3>3. QED
      BY <2>5, <2>w, <3>2, <1>t, GotoType DEF RecordIntent, Shape, Places
  <2>6. CASE NotSent(w)
    <3> DEFINE s == IF at[w] \in Hopsapi THEN ZERO_RETRY ELSE LOST
    <3>1. s \in FileStates
      BY States
    <3>2. SetState(at[w], s)
      BY <2>6 DEF NotSent
    <3>3. txn' \in [Fingerprints -> Files]
      <4> HIDE DEF s
      <4> QED  BY <2>w, <1>t, <3>1, <3>2, WriteType
    <3>4. QED
      BY <2>6, <3>3, <1>t, ReturnType DEF NotSent, Shape, Outcomes
  <2>7. CASE Post(w)
    BY <2>7, <2>w, <1>t, GotoType DEF Post, Shape, store, Places, RemoteStates
  <2>8. CASE RecordBound(w)
    <3>1. Attempt(at[w]) \in TaskIds
      BY <2>8, <1>t DEF RecordBound, PlaceInv, AtPlace
    <3>2. txn[at[w]] \in Files /\ BOUND \in FileStates
      BY <2>w, <1>t, States DEF Shape
    <3>3. [txn[at[w]] EXCEPT !.state = BOUND, !.task = Attempt(at[w]), !.response = TRUE]
              \in Files
      BY <3>1, <3>2 DEF Files
    <3>4. txn' \in [Fingerprints -> Files]
      BY <2>8, <2>w, <3>3, <1>t DEF RecordBound, Shape
    <3>5. QED
      BY <2>8, <2>w, <3>4, <1>t, GotoType DEF RecordBound, Shape, Places
  <2>9. CASE RecordNotCharged(w)
    <3>1. txn' \in [Fingerprints -> Files]
      BY <2>9, <2>w, <1>t, WriteType, States DEF RecordNotCharged
    <3>2. QED
      BY <2>9, <3>1, <1>t, ReturnType DEF RecordNotCharged, Shape, Outcomes
  <2>10. CASE RecordNoTaskId(w)
    <3>1. txn' \in [Fingerprints -> Files]
      BY <2>10, <2>w, <1>t, WriteType, States DEF RecordNoTaskId
    <3>2. QED
      BY <2>10, <3>1, <1>t, ReturnType DEF RecordNoTaskId, Shape, Outcomes
  <2>11. CASE RecordLost(w)
    <3>1. txn' \in [Fingerprints -> Files]
      BY <2>11, <2>w, <1>t, WriteType, States DEF RecordLost
    <3>2. QED
      BY <2>11, <3>1, <1>t, ReturnType DEF RecordLost, Shape, Outcomes
  <2>12. CASE WriteReceipt(w)
    BY <2>12, <2>w, <1>t, ReturnType DEF WriteReceipt, Shape, Outcomes
  <2>13. QED
    BY <1>3, <2>1, <2>2, <2>3, <2>4, <2>5, <2>6, <2>7, <2>8, <2>9, <2>10, <2>11, <2>12 DEF Step
<1>4. ASSUME NEW w \in Workers, Crash(w) PROVE Shape'
  BY <1>4, <1>t, ReturnType DEF Crash, Shape, store, Outcomes
<1>5. ASSUME NEW t \in TaskIds, Provider(t) PROVE Shape'
  BY <1>5, <1>t DEF Provider, Advance, Shape, store, local, RemoteStates
<1>6. CASE (\E t \in TaskIds : ReportFailed(t)) \/ (\E u \in Units : Park(u)) \/ UNCHANGED vars
  BY <1>6, <1>t DEF ReportFailed, Park, vars, store, local, Shape
<1>7. QED
  BY <1>1, <1>2, <1>3, <1>4, <1>5, <1>6 DEF Next, Worker, Environment

\* A receipt file is written by a recovery or by the call that bound the take.
LEMMA ReceiptFrame ==
  ASSUME [Next]_vars
  PROVE  receipts' = receipts \/ \E w \in Workers : EnterBound(w) \/ WriteReceipt(w)
  BY DEF Next, Worker, Call, Enter, EnterBlocked, EnterMayPost, Crash, Step,
     ReturnLiveElsewhere, NoLiveElsewhere, RefuseBeforeIntent, PassGates, RecordIntent, NotSent, Post,
     RecordBound, RecordNotCharged, RecordNoTaskId, RecordLost, Environment, Provider,
     Advance, ReportFailed, Park, vars, store

\* Of the types, submit_one writes only its own states and closes only tasks.
LEMMA TypeStep == IInv /\ [Next]_vars => TypeOK'
<1> SUFFICES ASSUME IInv, [Next]_vars PROVE TypeOK'
  OBVIOUS
<1>t. TypeOK /\ Shape /\ BoundInv /\ Shape'
  BY InvBase, ShapeStep DEF IInv, Base
<1>1. \A f \in Fingerprints : txn'[f].state \in SubmitStates
  <2>1. \A f \in Fingerprints : txn[f] \in TxnRecords /\ txn[f].state \in SubmitStates
    BY <1>t DEF TypeOK, TxnRecords
  <2>2. ASSUME NEW w \in Workers, Step(w) PROVE \A f \in Fingerprints : txn'[f].state \in SubmitStates
    <3>1. CASE RecordIntent(w) \/ RecordBound(w)
      BY <3>1, <2>1, <1>t, States DEF RecordIntent, RecordBound, Shape, Files
    <3>2. CASE NotSent(w) \/ RecordNotCharged(w) \/ RecordNoTaskId(w) \/ RecordLost(w)
      BY <3>2, <2>1, <1>t, States DEF NotSent, RecordNotCharged, RecordNoTaskId, RecordLost, SetState,
         SetAnswer, Shape, Files
    <3>3. CASE ReturnLiveElsewhere(w) \/ NoLiveElsewhere(w) \/ RefuseBeforeIntent(w) \/ PassGates(w)
               \/ Post(w) \/ WriteReceipt(w)
      BY <3>3, <2>1 DEF ReturnLiveElsewhere, NoLiveElsewhere, RefuseBeforeIntent, PassGates, Post,
         WriteReceipt, store
    <3>4. QED
      BY <2>2, <3>1, <3>2, <3>3 DEF Step
  <2>3. CASE \E w \in Workers : (\E g \in Fingerprints : Call(w, g)) \/ Enter(w) \/ Crash(w)
    BY <2>3, <2>1 DEF Call, Enter, EnterBound, EnterBlocked, EnterMayPost, Crash, store
  <2>4. CASE Environment \/ UNCHANGED vars
    BY <2>4, <2>1 DEF Environment, Provider, Advance, ReportFailed, Park, vars, store
  <2>5. QED
    BY <2>2, <2>3, <2>4 DEF Next, Worker
<1>2. receipts' \in [Units -> TaskIds \cup {None}]
  <2>1. ASSUME NEW w \in Workers, EnterBound(w) \/ WriteReceipt(w)
        PROVE  receipts' \in [Units -> TaskIds \cup {None}]
    <3>1. at[w] \in Fingerprints
      BY <2>1, <1>t DEF Shape, EnterBound, WriteReceipt
    <3>2. txn[at[w]].task \in TaskIds \cup {None}
      BY <3>1, <1>t DEF TypeOK, TxnRecords
    <3>3. QED
      BY <2>1, <3>2, <1>t DEF TypeOK, EnterBound, WriteReceipt
  <2>2. receipts' = receipts \/ \E w \in Workers : EnterBound(w) \/ WriteReceipt(w)
    BY ReceiptFrame
  <2>3. QED
    BY <2>1, <2>2, <1>t DEF TypeOK
<1>3. closed' \subseteq TaskIds
  <2>1. CASE \E u \in Units : Park(u)
    <3>1. \A u \in Units : Bindings(u) \subseteq TaskIds
      BY <1>t DEF Bindings, BoundInv
    <3>2. QED
      BY <2>1, <3>1, <1>t DEF Park, TypeOK
  <2>2. CASE \E t \in TaskIds : ReportFailed(t)
    BY <2>2, <1>t DEF ReportFailed, TypeOK
  <2>3. CASE ~(\E u \in Units : Park(u)) /\ ~(\E t \in TaskIds : ReportFailed(t))
    BY <2>3, <1>t DEF TypeOK, Next, Worker, Call, Enter, EnterBound, EnterBlocked, EnterMayPost, Crash,
       Step, ReturnLiveElsewhere, NoLiveElsewhere, RefuseBeforeIntent, PassGates, RecordIntent, NotSent,
       Post, RecordBound, RecordNotCharged, RecordNoTaskId, RecordLost, WriteReceipt, Environment,
       Provider, Advance, vars, store
  <2>4. QED
    BY <2>1, <2>2, <2>3
<1>4. txn' \in [Fingerprints -> TxnRecords]
  BY <1>t, <1>1 DEF Shape, Files, TxnRecords
<1>5. QED
  BY <1>t, <1>2, <1>3, <1>4 DEF TypeOK, Shape

-----------------------------------------------------------------------------

\* Two calls inside submit_one work on different transactions.
LEMMA Exclusion ==
  ASSUME LockInv, NEW v \in Workers, NEW w \in Workers, v # w, InCall(v), InCall(w)
  PROVE  at[v] # at[w]
  BY DEF LockInv

\* The flock discipline survives every step.
LEMMA LockStep == Base /\ [Next]_vars => LockInv'
<1> SUFFICES ASSUME Base, [Next]_vars PROVE LockInv'
  OBVIOUS
<1>t. Shape /\ LockInv
  BY DEF Base
<1>r. ASSUME NEW w \in Workers, NEW result, Return(w, result) PROVE LockInv'
  BY <1>r, <1>t DEF Return, LockInv, InCall, Shape
<1>g. ASSUME NEW w \in Workers, NEW place, InCall(w), Goto(w, place) PROVE LockInv'
  BY <1>g, <1>t DEF Goto, LockInv, InCall, Shape
<1>1. ASSUME NEW w \in Workers, NEW f \in Fingerprints, Call(w, f) PROVE LockInv'
  BY <1>1, <1>t DEF Call, LockInv, InCall, Shape
<1>2. ASSUME NEW w \in Workers, Enter(w) PROVE LockInv'
  <2>1. CASE EnterBound(w) \/ EnterBlocked(w)
    BY <2>1, <1>r DEF EnterBound, EnterBlocked
  <2>2. CASE EnterMayPost(w)
    BY <2>2, <1>t DEF EnterMayPost, LockInv, InCall, Shape
  <2>3. QED
    BY <1>2, <2>1, <2>2 DEF Enter
<1>3. ASSUME NEW w \in Workers, Step(w) PROVE LockInv'
  <2>1. CASE ReturnLiveElsewhere(w) \/ RefuseBeforeIntent(w) \/ NotSent(w) \/ RecordNotCharged(w)
             \/ RecordNoTaskId(w) \/ RecordLost(w) \/ WriteReceipt(w)
    BY <2>1, <1>r DEF ReturnLiveElsewhere, RefuseBeforeIntent, NotSent, RecordNotCharged,
       RecordNoTaskId, RecordLost, WriteReceipt
  <2>2. CASE NoLiveElsewhere(w) \/ PassGates(w) \/ RecordIntent(w) \/ Post(w) \/ RecordBound(w)
    BY <2>2, <1>g DEF NoLiveElsewhere, PassGates, RecordIntent, Post, RecordBound, InCall
  <2>3. QED
    BY <1>3, <2>1, <2>2 DEF Step
<1>4. ASSUME NEW w \in Workers, Crash(w) PROVE LockInv'
  BY <1>4, <1>r DEF Crash
<1>5. CASE Environment \/ UNCHANGED vars
  BY <1>5, <1>t DEF Environment, Provider, Advance, ReportFailed, Park, vars, local, LockInv, InCall
<1>6. QED
  BY <1>1, <1>2, <1>3, <1>4, <1>5 DEF Next, Worker

-----------------------------------------------------------------------------

\* A call keeps what it relies on while nobody touches its transaction.
LEMMA Frame ==
  ASSUME NEW v \in Workers, AtPlace(v), pc'[v] = pc[v], at'[v] = at[v],
         InCall(v) => /\ txn'[at[v]] = txn[at[v]]
                      /\ remote'[Attempt(at[v])] = remote[Attempt(at[v])]
  PROVE  AtPlace(v)'
  BY DEF AtPlace, InCall, MayPost, Attempt

\* A step of w that writes only its own transaction and its own attempt leaves
\* every other call undisturbed.
LEMMA OthersUndisturbed ==
  ASSUME Base, NEW w \in Workers, NEW place, InCall(w),
         pc' = [pc EXCEPT ![w] = place], UNCHANGED at,
         \A f \in Fingerprints \ {at[w]} : txn'[f] = txn[f],
         \A t \in TaskIds : t[1] # at[w] => remote'[t] = remote[t],
         NEW v \in Workers \ {w}
  PROVE  AtPlace(v)'
<1>1. Shape /\ LockInv /\ AtPlace(v)
  BY DEF Base, PlaceInv
<1>2. pc'[v] = pc[v] /\ at'[v] = at[v]
  BY <1>1 DEF Shape
<1>3. InCall(v) => at[v] \in Fingerprints \ {at[w]}
  BY <1>1, Exclusion DEF Shape, InCall
<1>4. InCall(v) => txn'[at[v]] = txn[at[v]]
  BY <1>3
<1>5. CASE pc[v] \in {"intent", "posting"}
  <2>1. Attempt(at[v]) \in TaskIds /\ Attempt(at[v])[1] = at[v]
    BY <1>1, <1>5 DEF AtPlace, Attempt
  <2>2. remote'[Attempt(at[v])] = remote[Attempt(at[v])]
    BY <2>1, <1>3, <1>5 DEF InCall
  <2>3. QED
    BY <1>1, <1>2, <1>4, <2>2, Frame
<1>6. CASE pc[v] \notin {"intent", "posting"}
  BY <1>1, <1>2, <1>4, <1>6 DEF AtPlace, InCall, MayPost, Attempt
<1>7. QED
  BY <1>5, <1>6

\* What a call relies on is preserved by every step.
LEMMA PlaceStep == Base /\ [Next]_vars => PlaceInv'
<1> SUFFICES ASSUME Base, [Next]_vars, NEW v \in Workers PROVE AtPlace(v)'
  BY DEF PlaceInv
<1>t. Shape /\ LockInv /\ AtPlace(v) /\ PlaceInv
  BY DEF Base, PlaceInv
<1>1. ASSUME NEW w \in Workers, NEW f \in Fingerprints, Call(w, f) PROVE AtPlace(v)'
  BY <1>1, <1>t DEF Call, store, Shape, AtPlace, MayPost, Attempt
<1>2. ASSUME NEW w \in Workers, Enter(w) PROVE AtPlace(v)'
  <2>1. txn' = txn /\ remote' = remote /\ at' = at
    BY <1>2 DEF Enter, EnterBound, EnterBlocked, EnterMayPost, Return, store
  <2>2. pc'[v] = pc[v] \/ pc'[v] = "idle" \/ (v = w /\ pc'[v] = "prior" /\ MayPost(at[w]))
    BY <1>2, <1>t DEF Enter, EnterBound, EnterBlocked, EnterMayPost, Return, Shape
  <2>3. QED
    BY <2>1, <2>2, <1>t DEF AtPlace, MayPost, Attempt
<1>3. ASSUME NEW w \in Workers, Step(w) PROVE AtPlace(v)'
  <2>w. InCall(w) /\ at[w] \in Fingerprints
    BY <1>3, <1>t DEF InCall, Shape, Step, ReturnLiveElsewhere, NoLiveElsewhere, RefuseBeforeIntent,
       PassGates, RecordIntent, NotSent, Post, RecordBound, RecordNotCharged, RecordNoTaskId,
       RecordLost, WriteReceipt
  <2>1. CASE v # w
    <3>1. \E place : pc' = [pc EXCEPT ![w] = place]
      BY <1>3 DEF Step, ReturnLiveElsewhere, NoLiveElsewhere, RefuseBeforeIntent, PassGates,
         RecordIntent, NotSent, Post, RecordBound, RecordNotCharged, RecordNoTaskId, RecordLost,
         WriteReceipt, Return, Goto
    <3>2. UNCHANGED at
      BY <1>3 DEF Step, ReturnLiveElsewhere, NoLiveElsewhere, RefuseBeforeIntent, PassGates,
         RecordIntent, NotSent, Post, RecordBound, RecordNotCharged, RecordNoTaskId, RecordLost,
         WriteReceipt, Return, Goto
    <3>3. \A f \in Fingerprints \ {at[w]} : txn'[f] = txn[f]
      BY <1>3, <1>t DEF Shape, Step, ReturnLiveElsewhere, NoLiveElsewhere, RefuseBeforeIntent,
         PassGates, RecordIntent, NotSent, Post, RecordBound, RecordNotCharged, RecordNoTaskId,
         RecordLost, WriteReceipt, SetState, SetAnswer, store
    <3>4. \A t \in TaskIds : t[1] # at[w] => remote'[t] = remote[t]
      BY <1>3, <1>t DEF Shape, Step, ReturnLiveElsewhere, NoLiveElsewhere, RefuseBeforeIntent,
         PassGates, RecordIntent, NotSent, Post, RecordBound, RecordNotCharged, RecordNoTaskId,
         RecordLost, WriteReceipt, Attempt, store
    <3>5. QED
      BY <2>1, <2>w, <3>1, <3>2, <3>3, <3>4, OthersUndisturbed
  <2>2. CASE v = w
    <3>r. ASSUME NEW result, Return(w, result) PROVE AtPlace(v)'
      BY <3>r, <2>2, <1>t DEF Return, AtPlace, Shape
    <3>1. CASE ReturnLiveElsewhere(w) \/ RefuseBeforeIntent(w) \/ NotSent(w) \/ RecordNotCharged(w)
               \/ RecordNoTaskId(w) \/ RecordLost(w) \/ WriteReceipt(w)
      BY <3>1, <3>r DEF ReturnLiveElsewhere, RefuseBeforeIntent, NotSent, RecordNotCharged,
         RecordNoTaskId, RecordLost, WriteReceipt
    <3>2. CASE NoLiveElsewhere(w) \/ PassGates(w)
      BY <3>2, <2>2, <1>t DEF NoLiveElsewhere, PassGates, Goto, store, AtPlace, MayPost, Shape
    <3>3. CASE RecordIntent(w)
      <4>1. txn[at[w]].attempt \in 0 .. MaxAttempts /\ txn[at[w]].attempt < MaxAttempts
        BY <3>3, <2>2, <2>w, <1>t DEF RecordIntent, AtPlace, Shape, Files
      <4>2. txn'[at[w]].attempt = txn[at[w]].attempt + 1 /\ txn'[at[w]].state = INTENT
        BY <3>3, <2>w, <1>t DEF RecordIntent, Shape
      <4>3. remote[<<at[w], txn[at[w]].attempt + 1>>] = "none"
        BY <4>1, <2>w DEF Base, AttemptInv
      <4>4. <<at[w], txn[at[w]].attempt + 1>> \in TaskIds
        BY <4>1, <2>w DEF TaskIds
      <4>5. pc'[v] = "intent" /\ at' = at /\ remote' = remote
        BY <3>3, <2>2, <1>t DEF RecordIntent, Goto, Shape
      <4>6. QED
        BY <4>2, <4>3, <4>4, <4>5, <2>2 DEF AtPlace, Attempt
    <3>4. CASE Post(w)
      BY <3>4, <2>2, <1>t DEF Post, Goto, store, AtPlace, Attempt, Shape
    <3>5. CASE RecordBound(w)
      BY <3>5, <2>2, <2>w, <1>t DEF RecordBound, Goto, AtPlace, Shape, Files
    <3>6. QED
      BY <1>3, <3>1, <3>2, <3>3, <3>4, <3>5 DEF Step
  <2>3. QED
    BY <2>1, <2>2
<1>4. ASSUME NEW w \in Workers, Crash(w) PROVE AtPlace(v)'
  BY <1>4, <1>t DEF Crash, Return, store, Shape, AtPlace, MayPost, Attempt
<1>5. ASSUME NEW t \in TaskIds, Provider(t) PROVE AtPlace(v)'
  BY <1>5, <1>t DEF Provider, Advance, store, local, AtPlace, MayPost, Attempt, Shape
<1>6. CASE (\E t \in TaskIds : ReportFailed(t)) \/ (\E u \in Units : Park(u)) \/ UNCHANGED vars
  BY <1>6, <1>t DEF ReportFailed, Park, vars, store, local, AtPlace, MayPost, Attempt
<1>7. QED
  BY <1>1, <1>2, <1>3, <1>4, <1>5, <1>6 DEF Next, Worker, Environment

-----------------------------------------------------------------------------

\* No step makes an earlier attempt chargeable again, and none allows a new POST
\* while the current attempt may be charged.
LEMMA AttemptStep == Base /\ [Next]_vars => AttemptInv'
<1> SUFFICES ASSUME Base, [Next]_vars, NEW f \in Fingerprints, NEW n \in 1 .. MaxAttempts
             PROVE  /\ n > txn'[f].attempt => remote'[<<f, n>>] = "none"
                    /\ n < txn'[f].attempt => remote'[<<f, n>>] \notin MayCharge
                    /\ n = txn'[f].attempt /\ MayPost(f)' => remote'[<<f, n>>] \notin MayCharge
  BY DEF AttemptInv
<1> DEFINE Holds == /\ n > txn'[f].attempt => remote'[<<f, n>>] = "none"
                    /\ n < txn'[f].attempt => remote'[<<f, n>>] \notin MayCharge
                    /\ n = txn'[f].attempt /\ MayPost(f)' => remote'[<<f, n>>] \notin MayCharge
<1>t. /\ Shape /\ PlaceInv /\ <<f, n>> \in TaskIds
      /\ n > txn[f].attempt => remote[<<f, n>>] = "none"
      /\ n < txn[f].attempt => remote[<<f, n>>] \notin MayCharge
      /\ n = txn[f].attempt /\ MayPost(f) => remote[<<f, n>>] \notin MayCharge
      /\ txn[f].attempt \in 0 .. MaxAttempts
  BY DEF Base, AttemptInv, TaskIds, Shape, Files
<1>s. ASSUME txn'[f] = txn[f], remote'[<<f, n>>] = remote[<<f, n>>] PROVE Holds
  BY <1>s, <1>t DEF MayPost
<1>1. ASSUME NEW w \in Workers, Step(w) PROVE Holds
  <2>w. at[w] \in Fingerprints /\ AtPlace(w)
    BY <1>1, <1>t DEF PlaceInv, Shape, Step, ReturnLiveElsewhere, NoLiveElsewhere, RefuseBeforeIntent,
       PassGates, RecordIntent, NotSent, Post, RecordBound, RecordNotCharged, RecordNoTaskId,
       RecordLost, WriteReceipt
  <2>1. CASE f # at[w]
    <3>1. txn'[f] = txn[f]
      BY <1>1, <2>1, <1>t DEF Shape, Step, ReturnLiveElsewhere, NoLiveElsewhere, RefuseBeforeIntent,
         PassGates, RecordIntent, NotSent, Post, RecordBound, RecordNotCharged, RecordNoTaskId,
         RecordLost, WriteReceipt, SetState, SetAnswer, store
    <3>2. remote'[<<f, n>>] = remote[<<f, n>>]
      BY <1>1, <2>1, <1>t DEF Shape, Step, ReturnLiveElsewhere, NoLiveElsewhere, RefuseBeforeIntent,
         PassGates, RecordIntent, NotSent, Post, RecordBound, RecordNotCharged, RecordNoTaskId,
         RecordLost, WriteReceipt, Attempt, store
    <3>3. QED
      BY <3>1, <3>2, <1>s
  <2>2. CASE f = at[w]
    <3>1. CASE ReturnLiveElsewhere(w) \/ NoLiveElsewhere(w) \/ RefuseBeforeIntent(w) \/ PassGates(w)
               \/ WriteReceipt(w)
      BY <3>1, <1>s DEF ReturnLiveElsewhere, NoLiveElsewhere, RefuseBeforeIntent, PassGates,
         WriteReceipt, store
    <3>2. CASE RecordIntent(w)
      <4>1. MayPost(f)
        BY <3>2, <2>2, <2>w DEF RecordIntent, AtPlace
      <4>2. txn'[f].attempt = txn[f].attempt + 1 /\ ~MayPost(f)' /\ remote' = remote
        BY <3>2, <2>2, <2>w, <1>t DEF RecordIntent, Shape, MayPost, VerifiedZero, INTENT, ABSENT,
           ZERO_RETRY, ZERO_REMOTE
      <4>3. QED
        BY <4>1, <4>2, <1>t
    <3>3. CASE Post(w)
      <4>1. txn' = txn /\ ~MayPost(f)'
        BY <3>3, <2>2, <2>w, <1>t DEF Post, store, AtPlace, MayPost, VerifiedZero, INTENT, ABSENT,
           ZERO_RETRY, ZERO_REMOTE
      <4>2. n # txn[f].attempt => remote'[<<f, n>>] = remote[<<f, n>>]
        BY <3>3, <2>2, <1>t DEF Post, Attempt, Shape
      <4>3. QED
        BY <4>1, <4>2, <1>t
    <3>4. CASE NotSent(w)
      <4>1. txn'[f].attempt = txn[f].attempt /\ remote' = remote
        BY <3>4, <2>2, <2>w, <1>t DEF NotSent, SetState, Shape, Files
      <4>2. remote[<<f, txn[f].attempt>>] \notin MayCharge
        BY <3>4, <2>2, <2>w DEF NotSent, AtPlace, Attempt, MayCharge
      <4>3. QED
        BY <4>1, <4>2, <1>t
    <3>5. CASE RecordNotCharged(w)
      <4>1. txn'[f].attempt = txn[f].attempt /\ remote' = remote
        BY <3>5, <2>2, <2>w, <1>t DEF RecordNotCharged, SetAnswer, Shape, Files
      <4>2. remote[<<f, txn[f].attempt>>] \notin MayCharge
        BY <3>5, <2>2 DEF RecordNotCharged, Attempt, MayCharge
      <4>3. QED
        BY <4>1, <4>2, <1>t
    <3>6. CASE RecordBound(w) \/ RecordNoTaskId(w) \/ RecordLost(w)
      <4>1. txn'[f].attempt = txn[f].attempt /\ remote' = remote
        BY <3>6, <2>2, <2>w, <1>t DEF RecordBound, RecordNoTaskId, RecordLost, SetState, SetAnswer,
           Shape, Files
      <4>2. ~MayPost(f)'
        BY <3>6, <2>2, <2>w, <1>t DEF RecordBound, RecordNoTaskId, RecordLost, SetState, SetAnswer,
           Shape, Files, MayPost, VerifiedZero, ABSENT, BOUND, LOST, NO_TASK_ID, INSUFFICIENT,
           ZERO_RETRY, ZERO_REMOTE
      <4>3. QED
        BY <4>1, <4>2, <1>t
    <3>7. QED
      BY <1>1, <3>1, <3>2, <3>3, <3>4, <3>5, <3>6 DEF Step
  <2>3. QED
    BY <2>1, <2>2
<1>2. ASSUME NEW t \in TaskIds, Provider(t) PROVE Holds
  <2>1. txn' = txn /\ MayPost(f)' = MayPost(f)
    BY <1>2 DEF Provider, Advance, store, MayPost
  <2>2. CASE t = <<f, n>>
    <3>1. remote[<<f, n>>] \in MayCharge /\ remote[<<f, n>>] # "none"
      BY <1>2, <2>2 DEF Provider, Advance, MayCharge
    <3>2. QED
      BY <2>1, <3>1, <1>t
  <2>3. CASE t # <<f, n>>
    BY <1>2, <2>1, <2>3, <1>s, <1>t DEF Provider, Advance, Shape
  <2>4. QED
    BY <2>2, <2>3
<1>3. CASE \E w \in Workers : (\E g \in Fingerprints : Call(w, g)) \/ Enter(w) \/ Crash(w)
  BY <1>3, <1>s DEF Call, Enter, EnterBound, EnterBlocked, EnterMayPost, Crash, store
<1>4. CASE (\E t \in TaskIds : ReportFailed(t)) \/ (\E u \in Units : Park(u)) \/ UNCHANGED vars
  BY <1>4, <1>s DEF ReportFailed, Park, vars, store
<1>5. QED
  BY <1>1, <1>2, <1>3, <1>4 DEF Next, Worker, Environment

\* A bound transaction is never rewritten by a step.
LEMMA FinalStep ==
  ASSUME Base, [Next]_vars, NEW f \in Fingerprints, txn[f].state = BOUND
  PROVE  txn'[f] = txn[f]
<1>t. Shape /\ PlaceInv
  BY DEF Base
<1>1. ASSUME NEW w \in Workers, Step(w) PROVE txn'[f] = txn[f]
  <2>1. CASE ReturnLiveElsewhere(w) \/ NoLiveElsewhere(w) \/ RefuseBeforeIntent(w) \/ PassGates(w)
             \/ Post(w) \/ WriteReceipt(w)
    BY <2>1 DEF ReturnLiveElsewhere, NoLiveElsewhere, RefuseBeforeIntent, PassGates, Post,
       WriteReceipt, store
  <2>2. CASE RecordIntent(w)
    <3>1. at[w] # f
      BY <2>2, <1>t DEF RecordIntent, PlaceInv, AtPlace, MayPost, VerifiedZero, BOUND, ABSENT,
         ZERO_RETRY, ZERO_REMOTE
    <3>2. QED
      BY <2>2, <3>1, <1>t DEF RecordIntent, Shape
  <2>3. CASE NotSent(w) \/ RecordBound(w) \/ RecordNotCharged(w) \/ RecordNoTaskId(w) \/ RecordLost(w)
    <3>1. at[w] # f
      BY <2>3, <1>t DEF NotSent, RecordBound, RecordNotCharged, RecordNoTaskId, RecordLost,
         PlaceInv, AtPlace, BOUND, INTENT
    <3>2. QED
      BY <2>3, <3>1, <1>t DEF NotSent, RecordBound, RecordNotCharged, RecordNoTaskId, RecordLost,
         SetState, SetAnswer, Shape
  <2>4. QED
    BY <1>1, <2>1, <2>2, <2>3 DEF Step
<1>2. CASE \E w \in Workers : (\E g \in Fingerprints : Call(w, g)) \/ Enter(w) \/ Crash(w)
  BY <1>2 DEF Call, Enter, EnterBound, EnterBlocked, EnterMayPost, Crash, store
<1>3. CASE Environment \/ UNCHANGED vars
  BY <1>3 DEF Environment, Provider, Advance, ReportFailed, Park, vars, store
<1>4. QED
  BY <1>1, <1>2, <1>3 DEF Next, Worker

\* A row becomes bound only to the attempt that its own call made.
LEMMA BoundStep == IInv /\ [Next]_vars => BoundInv'
<1> SUFFICES ASSUME IInv, [Next]_vars, NEW f \in Fingerprints, txn'[f].state = BOUND
             PROVE  txn'[f].task = Attempt(f)' /\ Attempt(f)' \in TaskIds /\ txn'[f].response
  BY DEF BoundInv
<1>t. TypeOK /\ PlaceInv /\ BoundInv
  BY DEF IInv
<1>s. CASE txn'[f] = txn[f]
  BY <1>s, <1>t DEF BoundInv, Attempt
<1>b. ASSUME NEW w \in Workers, RecordBound(w), at[w] = f
      PROVE  txn'[f].task = Attempt(f)' /\ Attempt(f)' \in TaskIds /\ txn'[f].response
  <2>1. txn[f] \in TxnRecords /\ Attempt(f) \in TaskIds
    BY <1>b, <1>t DEF TypeOK, RecordBound, PlaceInv, AtPlace
  <2>2. txn'[f] = [txn[f] EXCEPT !.state = BOUND, !.task = Attempt(f), !.response = TRUE]
    BY <1>b, <1>t DEF RecordBound, TypeOK
  <2>3. txn'[f].task = Attempt(f) /\ txn'[f].attempt = txn[f].attempt /\ txn'[f].response
    BY <2>1, <2>2 DEF TxnRecords
  <2>4. QED
    BY <2>1, <2>3 DEF Attempt
<1>1. ASSUME NEW w \in Workers, Step(w), txn'[f] # txn[f] PROVE RecordBound(w) /\ at[w] = f
  <2>1. at[w] = f
    BY <1>1, <1>t DEF TypeOK, Step, ReturnLiveElsewhere, NoLiveElsewhere, RefuseBeforeIntent,
       PassGates, RecordIntent, NotSent, Post, RecordBound, RecordNotCharged, RecordNoTaskId,
       RecordLost, WriteReceipt, SetState, SetAnswer, store
  <2>2. ~(ReturnLiveElsewhere(w) \/ NoLiveElsewhere(w) \/ RefuseBeforeIntent(w) \/ PassGates(w)
          \/ Post(w) \/ WriteReceipt(w))
    BY <1>1 DEF ReturnLiveElsewhere, NoLiveElsewhere, RefuseBeforeIntent, PassGates, Post,
       WriteReceipt, store
  <2>3. ~(RecordIntent(w) \/ NotSent(w) \/ RecordNotCharged(w) \/ RecordNoTaskId(w) \/ RecordLost(w))
    BY <2>1, <1>t DEF RecordIntent, NotSent, RecordNotCharged, RecordNoTaskId, RecordLost, SetState,
       SetAnswer, TypeOK, TxnRecords, BOUND, INTENT, LOST, NO_TASK_ID, INSUFFICIENT, ZERO_RETRY
  <2>4. QED
    BY <1>1, <2>1, <2>2, <2>3 DEF Step
<1>2. CASE \E w \in Workers : (\E g \in Fingerprints : Call(w, g)) \/ Enter(w) \/ Crash(w)
  BY <1>2, <1>s DEF Call, Enter, EnterBound, EnterBlocked, EnterMayPost, Crash, store
<1>3. CASE Environment \/ UNCHANGED vars
  BY <1>3, <1>s DEF Environment, Provider, Advance, ReportFailed, Park, vars, store
<1>4. QED
  BY <1>1, <1>b, <1>s, <1>2, <1>3 DEF Next, Worker

\* What a bound file says, a recovery or the binding call copies to the receipt.
LEMMA ReceiptWritten ==
  ASSUME IInv, NEW w \in Workers, EnterBound(w) \/ WriteReceipt(w)
  PROVE  /\ at[w] \in Fingerprints /\ txn[at[w]].state = BOUND /\ txn' = txn
         /\ txn[at[w]].task \in Bindings(UnitOf[at[w]])
         /\ \/ receipts' = [receipts EXCEPT ![UnitOf[at[w]]] = txn[at[w]].task]
            \/ receipts' = receipts /\ receipts[UnitOf[at[w]]] # None
<1>1. at[w] \in Fingerprints /\ txn[at[w]].state = BOUND /\ txn' = txn
  BY DEF IInv, TypeOK, PlaceInv, AtPlace, EnterBound, WriteReceipt
<1>2. txn[at[w]].response
  BY <1>1 DEF IInv, BoundInv
<1>3. txn[at[w]].task \in Bindings(UnitOf[at[w]])
  BY <1>1 DEF Bindings
<1>4. QED
  BY <1>1, <1>2, <1>3 DEF EnterBound, WriteReceipt

\* The bindings of a unit only grow.
LEMMA BindingsGrow ==
  ASSUME IInv, [Next]_vars, NEW u \in Units
  PROVE  Bindings(u) \subseteq Bindings(u)'
<1>1. \A f \in Fingerprints : txn[f].state = BOUND => txn'[f] = txn[f]
  BY FinalStep, InvBase
<1>2. QED
  BY <1>1 DEF Bindings

\* A receipt names a bound take of its unit, after every step.
LEMMA ReceiptStep == IInv /\ [Next]_vars => ReceiptInv'
<1> SUFFICES ASSUME IInv, [Next]_vars, NEW u \in Units, receipts'[u] # None
             PROVE  receipts'[u] \in Bindings(u)'
  BY DEF ReceiptInv
<1>g. Bindings(u) \subseteq Bindings(u)' /\ TypeOK /\ ReceiptInv
  BY BindingsGrow DEF IInv
<1>1. CASE receipts'[u] = receipts[u]
  BY <1>1, <1>g DEF ReceiptInv
<1>2. CASE receipts'[u] # receipts[u]
  <2>1. PICK w \in Workers : EnterBound(w) \/ WriteReceipt(w)
    BY <1>2, ReceiptFrame
  <2>2. UnitOf[at[w]] = u /\ receipts'[u] = txn[at[w]].task
    BY <1>2, <1>g, <2>1, ReceiptWritten DEF TypeOK
  <2>3. QED
    BY <1>g, <2>1, <2>2, ReceiptWritten
<1>3. QED
  BY <1>1, <1>2

\* What a call returned stays on disk.
LEMMA ReturnedStep == IInv /\ [Next]_vars => CalledInv' /\ ReturnedRowIsBacked'
<1> SUFFICES ASSUME IInv, [Next]_vars, NEW v \in Workers,
                    pc'[v] = "idle", outcome'[v] \in {"submitted", "recovered"}
             PROVE  /\ txn'[at'[v]].state = BOUND
                    /\ txn'[at'[v]].task = Attempt(at[v])'
                    /\ receipts'[UnitOf[at'[v]]] \in Bindings(UnitOf[at[v]])'
                    /\ at'[v] \in Fingerprints
  BY DEF ReturnedRowIsBacked, CalledInv
<1> SUFFICES /\ txn'[at'[v]].state = BOUND
             /\ txn'[at'[v]].task = Attempt(at[v])'
             /\ receipts'[UnitOf[at'[v]]] # None /\ at'[v] \in Fingerprints
  BY ReceiptStep DEF ReceiptInv
<1>t. TypeOK /\ PlaceInv /\ BoundInv /\ CalledInv /\ ReturnedRowIsBacked
  BY DEF IInv
<1>n. ASSUME NEW u \in Units, receipts[u] # None PROVE receipts'[u] # None
  <2>1. CASE receipts'[u] = receipts[u]
    BY <1>n, <2>1
  <2>2. CASE receipts'[u] # receipts[u]
    <3>1. PICK w \in Workers : EnterBound(w) \/ WriteReceipt(w)
      BY <2>2, ReceiptFrame
    <3>2. receipts'[u] = txn[at[w]].task /\ at[w] \in Fingerprints /\ txn[at[w]].state = BOUND
      BY <2>2, <3>1, <1>t, ReceiptWritten DEF TypeOK
    <3>3. txn[at[w]].task \in TaskIds
      BY <3>2, <1>t DEF BoundInv
    <3>4. QED
      BY <3>2, <3>3
  <2>3. QED
    BY <2>1, <2>2
<1>k. ASSUME pc[v] = "idle", outcome'[v] = outcome[v], at'[v] = at[v]
      PROVE  /\ txn'[at'[v]].state = BOUND
             /\ txn'[at'[v]].task = Attempt(at[v])'
             /\ receipts'[UnitOf[at'[v]]] # None /\ at'[v] \in Fingerprints
  <2>1. /\ txn[at[v]].state = BOUND /\ txn[at[v]].task = Attempt(at[v])
        /\ receipts[UnitOf[at[v]]] \in Bindings(UnitOf[at[v]])
    BY <1>k, <1>t DEF ReturnedRowIsBacked
  <2>2. at[v] \in Fingerprints /\ UnitOf[at[v]] \in Units
    BY <1>k, <1>t DEF CalledInv
  <2>3. txn'[at[v]] = txn[at[v]]
    BY <2>1, <2>2, FinalStep, InvBase
  <2>4. receipts[UnitOf[at[v]]] # None
    BY <2>1, <1>t DEF Bindings, BoundInv
  <2>5. QED
    BY <1>k, <1>n, <2>1, <2>2, <2>3, <2>4 DEF Attempt
<1>1. ASSUME NEW w \in Workers, w # v, Worker(w)
      PROVE  pc[v] = "idle" /\ outcome'[v] = outcome[v] /\ at'[v] = at[v]
  <2>1. CASE (\E f \in Fingerprints : Call(w, f)) \/ Enter(w) \/ Crash(w)
    BY <1>1, <2>1, <1>t DEF Call, Enter, EnterBound, EnterBlocked, EnterMayPost, Crash, Return, store,
       TypeOK
  <2>2. CASE Step(w)
    BY <1>1, <2>2, <1>t DEF TypeOK, Step, ReturnLiveElsewhere, NoLiveElsewhere, RefuseBeforeIntent,
       PassGates, RecordIntent, NotSent, Post, RecordBound, RecordNotCharged, RecordNoTaskId,
       RecordLost, WriteReceipt, Return, Goto, store
  <2>3. QED
    BY <1>1, <2>1, <2>2 DEF Worker
<1>2. ASSUME Worker(v) PROVE EnterBound(v) \/ WriteReceipt(v)
  <2>r. ASSUME NEW result, Return(v, result) PROVE result \in {"submitted", "recovered"}
    BY <2>r, <1>t DEF Return, TypeOK
  <2>g. ASSUME NEW place \in Places \ {"idle"}, Goto(v, place) PROVE FALSE
    BY <2>g, <1>t DEF Goto, TypeOK
  <2>1. CASE (\E f \in Fingerprints : Call(v, f)) \/ EnterMayPost(v)
    BY <2>1, <1>t DEF Call, EnterMayPost, TypeOK
  <2>2. CASE Crash(v) \/ EnterBlocked(v)
    BY <2>2, <2>r DEF Crash, EnterBlocked
  <2>3. CASE ReturnLiveElsewhere(v) \/ RefuseBeforeIntent(v) \/ NotSent(v) \/ RecordNotCharged(v)
             \/ RecordNoTaskId(v) \/ RecordLost(v)
    BY <2>3, <2>r DEF ReturnLiveElsewhere, RefuseBeforeIntent, NotSent, RecordNotCharged,
       RecordNoTaskId, RecordLost
  <2>4. CASE NoLiveElsewhere(v) \/ PassGates(v) \/ RecordIntent(v) \/ Post(v) \/ RecordBound(v)
    BY <2>4, <2>g DEF NoLiveElsewhere, PassGates, RecordIntent, Post, RecordBound, Places
  <2>5. QED
    BY <1>2, <2>1, <2>2, <2>3, <2>4 DEF Worker, Enter, Step
<1>3. CASE EnterBound(v) \/ WriteReceipt(v)
  <2>1. /\ at[v] \in Fingerprints /\ txn[at[v]].state = BOUND /\ txn' = txn /\ at' = at
        /\ \/ receipts' = [receipts EXCEPT ![UnitOf[at[v]]] = txn[at[v]].task]
           \/ receipts' = receipts /\ receipts[UnitOf[at[v]]] # None
    BY <1>3, ReceiptWritten DEF EnterBound, WriteReceipt, Return
  <2>2. txn[at[v]].task \in TaskIds /\ txn[at[v]].task = Attempt(at[v])
    BY <2>1, <1>t DEF BoundInv
  <2>3. receipts'[UnitOf[at[v]]] # None
    BY <2>1, <2>2, <1>t DEF TypeOK
  <2>4. QED
    BY <2>1, <2>2, <2>3 DEF Attempt
<1>5. CASE Environment \/ UNCHANGED vars
  BY <1>5, <1>k DEF Environment, Provider, Advance, ReportFailed, Park, vars, store, local
<1>6. QED
  BY <1>1, <1>k, <1>2, <1>3, <1>5 DEF Next

-----------------------------------------------------------------------------

\* The strengthened invariant holds in every reachable state.
THEOREM Invariance == Spec => []IInv
<1>1. Init => IInv
  BY InitInv
<1>2. IInv /\ [Next]_vars => IInv'
  BY TypeStep, LockStep, PlaceStep, AttemptStep, BoundStep, ReceiptStep, ReturnedStep,
     InvBase DEF IInv
<1>3. QED
  BY <1>1, <1>2, PTL DEF Spec

\* Types: every file, flock and thread keeps its shape.
THEOREM TypeCorrect == Spec => []TypeOK
<1>1. IInv => TypeOK
  BY DEF IInv
<1>2. QED
  BY <1>1, Invariance, PTL

\* Two attempts that may be charged are both the current one of their file.
LEMMA BaseImpliesPaidAtMostOnce == Base => PaidAtMostOnce
<1> SUFFICES ASSUME Base, NEW t1 \in TaskIds, NEW t2 \in TaskIds, t1[1] = t2[1],
                    remote[t1] \in MayCharge, remote[t2] \in MayCharge
             PROVE  t1 = t2
  BY DEF PaidAtMostOnce
<1>1. ASSUME NEW t \in TaskIds, remote[t] \in MayCharge PROVE t[2] = txn[t[1]].attempt
  <2>1. t[1] \in Fingerprints /\ t[2] \in 1 .. MaxAttempts /\ t = <<t[1], t[2]>>
    BY DEF TaskIds
  <2>2. txn[t[1]].attempt \in 0 .. MaxAttempts
    BY <2>1 DEF Base, Shape, Files
  <2>3. ~(t[2] > txn[t[1]].attempt) /\ ~(t[2] < txn[t[1]].attempt)
    BY <1>1, <2>1 DEF Base, AttemptInv, MayCharge
  <2>4. QED
    BY <2>1, <2>2, <2>3
<1>2. t1[2] = t2[2]
  BY <1>1
<1>3. QED
  BY <1>2 DEF TaskIds

\* A task fingerprint is never bought twice: at no time can two attempts of one
\* transaction be charged.
THEOREM NeverBoughtTwice == Spec => []PaidAtMostOnce
  BY Invariance, InvBase, BaseImpliesPaidAtMostOnce, PTL

\* A row that submit_one returned is bound to the attempt it bought and its
\* receipt is on disk, across crashes of any process.
THEOREM ReturnedRowsBacked == Spec => []ReturnedRowIsBacked
<1>1. IInv => ReturnedRowIsBacked
  BY DEF IInv
<1>2. QED
  BY <1>1, Invariance, PTL

\* A bound transaction is never rewritten.
THEOREM BoundStaysBound == Spec => BoundIsFinal
<1>1. IInv /\ [Next]_vars => [\A f \in Fingerprints : txn[f].state = BOUND => txn'[f] = txn[f]]_vars
  BY FinalStep, InvBase
<1>2. QED
  BY <1>1, Invariance, PTL DEF Spec, BoundIsFinal

-----------------------------------------------------------------------------
(* VideoSubmit implements PaidOnce. *)

phaseOf == [f \in Fingerprints |-> Phase(f)]
liveOf  == [f \in Fingerprints |-> Live(f)]

\* A file that is not rewritten keeps its phase.
LEMMA PhaseFrame ==
  ASSUME NEW f \in Fingerprints, txn'[f] = txn[f]
  PROVE  Phase(f)' = Phase(f)
  BY DEF Phase, MayPost

\* An action that rewrites one file only moves the phase of that item.
LEMMA PhaseUpdate ==
  ASSUME NEW f \in Fingerprints, NEW p, Phase(f)' = p,
         \A g \in Fingerprints \ {f} : txn'[g] = txn[g]
  PROVE  phaseOf' = [phaseOf EXCEPT ![f] = p]
<1>1. \A g \in Fingerprints \ {f} : Phase(g)' = Phase(g)
  BY PhaseFrame
<1>2. QED
  BY <1>1 DEF phaseOf

\* While nothing of an item may be charged, its set of live orders is empty.
LEMMA NothingLive ==
  ASSUME Base, NEW f \in Fingerprints,
         \A n \in 1 .. MaxAttempts : n = txn[f].attempt => remote[<<f, n>>] \notin MayCharge
  PROVE  Live(f) = {}
<1>1. txn[f].attempt \in 0 .. MaxAttempts
  BY DEF Base, Shape, Files
<1>2. ASSUME NEW n \in 1 .. MaxAttempts PROVE remote[<<f, n>>] \notin MayCharge
  <2>1. CASE n = txn[f].attempt
    BY <2>1
  <2>2. CASE n > txn[f].attempt
    BY <2>2 DEF Base, AttemptInv, MayCharge
  <2>3. CASE n < txn[f].attempt
    BY <2>3 DEF Base, AttemptInv
  <2>4. QED
    BY <1>1, <2>1, <2>2, <2>3
<1>3. QED
  BY <1>2 DEF Live

\* The live orders are a function of the provider's view alone.
LEMMA LiveFrame == remote' = remote => liveOf' = liveOf
  BY DEF liveOf, Live

LEMMA RefineInit == Init => Store!Init
<1> SUFFICES ASSUME Init PROVE Store!Init
  OBVIOUS
<1>1. \A f \in Fingerprints : Phase(f) = "open"
  BY DEF Init, Phase, MayPost
<1>2. \A f \in Fingerprints : Live(f) = {}
  BY DEF Init, Live, MayCharge, TaskIds
<1>3. QED
  BY <1>1, <1>2 DEF Store!Init

\* Every step of a call is a step or a stutter of PaidOnce.
LEMMA RefineCall ==
  ASSUME Base, NEW w \in Workers, Step(w), NEW f \in Fingerprints, at[w] = f
  PROVE  Store!Next \/ UNCHANGED <<phaseOf, liveOf>>
<1>t. Shape /\ PlaceInv /\ AtPlace(w)
  BY DEF Base, PlaceInv
<1>w. f \in Fingerprints /\ at[w] = f
  OBVIOUS
<1>o. \A g \in Fingerprints \ {f} : txn'[g] = txn[g]
  BY <1>t, <1>w DEF Shape, Step, ReturnLiveElsewhere, NoLiveElsewhere, RefuseBeforeIntent,
     PassGates, RecordIntent, NotSent, Post, RecordBound, RecordNotCharged, RecordNoTaskId,
     RecordLost, WriteReceipt, SetState, SetAnswer, store
<1>p. ASSUME txn[f].state = INTENT PROVE Phase(f) = "pending"
  BY <1>p DEF Phase, MayPost, VerifiedZero, ABSENT, INTENT, BOUND, ZERO_RETRY, ZERO_REMOTE
<1>s. ASSUME NEW s, txn'[f].state = s PROVE
        /\ s = ZERO_RETRY => Phase(f)' = "open"
        /\ s = BOUND => Phase(f)' = "owned"
        /\ s \in {INTENT, LOST, NO_TASK_ID, INSUFFICIENT} => Phase(f)' = "pending"
  BY <1>s DEF Phase, MayPost, VerifiedZero, ABSENT, INTENT, BOUND, LOST, NO_TASK_ID, INSUFFICIENT,
     ZERO_RETRY, ZERO_REMOTE
<1>1. CASE ReturnLiveElsewhere(w) \/ NoLiveElsewhere(w) \/ RefuseBeforeIntent(w) \/ PassGates(w)
           \/ WriteReceipt(w)
  <2>1. txn' = txn /\ remote' = remote
    BY <1>1 DEF ReturnLiveElsewhere, NoLiveElsewhere, RefuseBeforeIntent, PassGates, WriteReceipt, store
  <2>2. QED
    BY <2>1, PhaseFrame, LiveFrame DEF phaseOf
<1>2. CASE RecordIntent(w)
  <2>1. Phase(f) = "open" /\ Live(f) = {}
    BY <1>2, <1>t, <1>w, NothingLive DEF RecordIntent, AtPlace, Phase, Base, AttemptInv
  <2>2. Phase(f)' = "pending" /\ remote' = remote
    BY <1>2, <1>t, <1>w, <1>s DEF RecordIntent, Shape
  <2>3. phaseOf' = [phaseOf EXCEPT ![f] = "pending"] /\ liveOf' = liveOf
    BY <2>2, <1>w, <1>o, PhaseUpdate, LiveFrame
  <2>4. Store!OpenPurchase(f)
    BY <2>1, <2>3, <1>w DEF Store!OpenPurchase, phaseOf, liveOf
  <2>5. QED
    BY <2>4, <1>w DEF Store!Next
<1>3. CASE Post(w)
  <2>1. Phase(f) = "pending"
    BY <1>3, <1>t, <1>w, <1>p DEF Post, AtPlace
  <2>2. Live(f) = {}
    BY <1>3, <1>t, <1>w, NothingLive DEF Post, AtPlace, Attempt, MayCharge
  <2>3. phaseOf' = phaseOf
    BY <1>3, PhaseFrame DEF Post, store, phaseOf
  <2>4. /\ Attempt(f) \in TaskIds /\ txn[f].attempt \in 1 .. MaxAttempts
        /\ remote' = [remote EXCEPT ![Attempt(f)] = "sent"]
    BY <1>3, <1>t, <1>w DEF Post, AtPlace, Attempt, TaskIds
  <2>5. Live(f)' = {txn[f].attempt}
    <3>1. ASSUME NEW n \in 1 .. MaxAttempts, n # txn[f].attempt
          PROVE  remote'[<<f, n>>] = remote[<<f, n>>] /\ remote[<<f, n>>] \notin MayCharge
      BY <3>1, <2>2, <2>4, <1>t DEF Attempt, Shape, Live
    <3>2. remote'[<<f, txn[f].attempt>>] \in MayCharge
      BY <2>4, <1>t DEF Attempt, Shape, MayCharge
    <3>3. Live(f)' = {n \in 1 .. MaxAttempts : remote'[<<f, n>>] \in MayCharge}
      BY <1>3 DEF Live, Post, Goto, MayCharge
    <3>4. QED
      BY <3>1, <3>2, <3>3, <2>4
  <2>6. ASSUME NEW g \in Fingerprints \ {f} PROVE Live(g)' = Live(g)
    BY <2>4, <1>t DEF Live, Attempt, Shape, MayCharge
  <2>7. liveOf' = [liveOf EXCEPT ![f] = {txn[f].attempt}]
    BY <2>5, <2>6 DEF liveOf
  <2>8. Store!Order(f, txn[f].attempt)
    BY <2>1, <2>2, <2>3, <2>7, <1>w DEF Store!Order, phaseOf, liveOf
  <2>9. QED
    BY <2>8, <2>4, <1>w DEF Store!Next
<1>4. ASSUME txn[f].state = INTENT, txn'[f].state = ZERO_RETRY, remote' = remote,
             remote[Attempt(f)] \notin MayCharge
      PROVE  Store!Next
  <2>1. Phase(f) = "pending" /\ Phase(f)' = "open" /\ Live(f) = {}
    BY <1>4, <1>p, <1>s, <1>w, NothingLive DEF Attempt
  <2>2. phaseOf' = [phaseOf EXCEPT ![f] = "open"] /\ liveOf' = liveOf
    BY <2>1, <1>4, <1>w, <1>o, PhaseUpdate, LiveFrame
  <2>3. Store!Reopen(f)
    BY <2>1, <2>2, <1>w DEF Store!Reopen, phaseOf, liveOf
  <2>4. QED
    BY <2>3, <1>w DEF Store!Next
<1>5. ASSUME txn[f].state = INTENT, txn'[f].state \in {LOST, NO_TASK_ID, INSUFFICIENT}, remote' = remote
      PROVE  UNCHANGED <<phaseOf, liveOf>>
  <2>1. Phase(f)' = Phase(f)
    BY <1>5, <1>p, <1>s
  <2>2. QED
    BY <2>1, <1>5, <1>o, PhaseFrame, LiveFrame DEF phaseOf
<1>6. CASE NotSent(w)
  <2>1. txn[f].state = INTENT /\ remote' = remote /\ remote[Attempt(f)] \notin MayCharge
    BY <1>6, <1>t, <1>w DEF NotSent, AtPlace, MayCharge
  <2>2. txn'[f].state \in {ZERO_RETRY, LOST}
    BY <1>6, <1>t, <1>w DEF NotSent, SetState, Shape, Files
  <2>3. QED
    BY <2>1, <2>2, <1>4, <1>5
<1>7. CASE RecordBound(w)
  <2>1. txn[f].state = INTENT /\ txn'[f].state = BOUND /\ remote' = remote
    BY <1>7, <1>t, <1>w DEF RecordBound, AtPlace, Shape, Files
  <2>2. Phase(f) = "pending" /\ Phase(f)' = "owned"
    BY <2>1, <1>p, <1>s
  <2>3. phaseOf' = [phaseOf EXCEPT ![f] = "owned"] /\ liveOf' = liveOf
    BY <2>1, <2>2, <1>w, <1>o, PhaseUpdate, LiveFrame
  <2>4. Store!TakeOwnership(f)
    BY <2>2, <2>3, <1>w DEF Store!TakeOwnership, phaseOf, liveOf
  <2>5. QED
    BY <2>4, <1>w DEF Store!Next
<1>8. CASE RecordNotCharged(w)
  <2>1. txn[f].state = INTENT /\ remote' = remote /\ remote[Attempt(f)] \notin MayCharge
    BY <1>8, <1>t, <1>w DEF RecordNotCharged, AtPlace, MayCharge
  <2>2. txn'[f].state = ZERO_RETRY
    BY <1>8, <1>t, <1>w DEF RecordNotCharged, SetAnswer, Shape, Files
  <2>3. QED
    BY <2>1, <2>2, <1>4
<1>9. CASE RecordNoTaskId(w) \/ RecordLost(w)
  <2>1. txn[f].state = INTENT /\ remote' = remote
    BY <1>9, <1>t, <1>w DEF RecordNoTaskId, RecordLost, AtPlace
  <2>2. txn'[f].state \in {LOST, NO_TASK_ID, INSUFFICIENT}
    BY <1>9, <1>t, <1>w DEF RecordNoTaskId, RecordLost, SetState, SetAnswer, Shape, Files
  <2>3. QED
    BY <2>1, <2>2, <1>5
<1>10. QED
  BY <1>1, <1>2, <1>3, <1>6, <1>7, <1>8, <1>9 DEF Step

\* The provider accepting, finishing or dropping a request is a stutter or voids
\* the one live order of the item.
LEMMA RefineProvider ==
  ASSUME Base, NEW t \in TaskIds, Provider(t)
  PROVE  Store!Next \/ UNCHANGED <<phaseOf, liveOf>>
<1> DEFINE f == t[1]
           k == t[2]
<1>t. /\ Shape /\ txn' = txn
      /\ f \in Fingerprints /\ k \in 1 .. MaxAttempts /\ t = <<f, k>>
  BY DEF Base, Provider, Advance, store, TaskIds
<1>p. phaseOf' = phaseOf
  BY <1>t, PhaseFrame DEF phaseOf
<1>1. remote[t] \in MayCharge
  BY DEF Provider, Advance, MayCharge
<1>2. Live(f) = {k}
  BY <1>1, <1>t, BaseImpliesPaidAtMostOnce DEF PaidAtMostOnce, Live, TaskIds
<1>3. ASSUME NEW g \in Fingerprints, NEW n \in 1 .. MaxAttempts, <<g, n>> # t
      PROVE  remote'[<<g, n>>] = remote[<<g, n>>]
  BY <1>3, <1>t DEF Provider, Advance, Shape, TaskIds
<1>4. ASSUME NEW g \in Fingerprints \ {f} PROVE Live(g)' = Live(g)
  BY <1>3, <1>t DEF Live, MayCharge
<1>5. CASE remote'[t] \in MayCharge
  <2>1. Live(f)' = Live(f)
    BY <1>2, <1>3, <1>5, <1>t DEF Live, MayCharge
  <2>2. QED
    BY <2>1, <1>4, <1>p DEF liveOf
<1>6. CASE remote'[t] \notin MayCharge
  <2>1. Live(f)' = {}
    BY <1>2, <1>3, <1>6, <1>t DEF Live, MayCharge
  <2>2. liveOf' = [liveOf EXCEPT ![f] = {}]
    BY <2>1, <1>4 DEF liveOf
  <2>3. Store!Void(f)
    BY <1>2, <1>p, <2>2, <1>t DEF Store!Void, phaseOf, liveOf
  <2>4. QED
    BY <2>3, <1>t DEF Store!Next
<1>7. QED
  BY <1>5, <1>6

\* Every step of the submitter is a step or a stutter of PaidOnce.
LEMMA RefineStep == Base /\ [Next]_vars => [Store!Next]_(Store!vars)
<1> SUFFICES ASSUME Base, [Next]_vars PROVE Store!Next \/ UNCHANGED <<phaseOf, liveOf>>
  BY DEF Store!vars, phaseOf, liveOf
<1>1. ASSUME txn' = txn, remote' = remote PROVE UNCHANGED <<phaseOf, liveOf>>
  BY <1>1, PhaseFrame, LiveFrame DEF phaseOf
<1>2. CASE \E w \in Workers : (\E g \in Fingerprints : Call(w, g)) \/ Enter(w) \/ Crash(w)
  BY <1>2, <1>1 DEF Call, Enter, EnterBound, EnterBlocked, EnterMayPost, Crash, store
<1>3. CASE (\E t \in TaskIds : ReportFailed(t)) \/ (\E u \in Units : Park(u)) \/ UNCHANGED vars
  BY <1>3, <1>1 DEF ReportFailed, Park, vars, store
<1>4. ASSUME NEW w \in Workers, Step(w) PROVE at[w] \in Fingerprints
  BY <1>4 DEF Base, Shape, Step, ReturnLiveElsewhere, NoLiveElsewhere, RefuseBeforeIntent,
     PassGates, RecordIntent, NotSent, Post, RecordBound, RecordNotCharged, RecordNoTaskId,
     RecordLost, WriteReceipt
<1>5. QED
  BY <1>2, <1>3, <1>4, RefineCall, RefineProvider DEF Next, Worker, Environment

\* The transaction store keeps the promise of PaidOnce under any interleaving of
\* callers, crashes and provider answers.
THEOREM Refinement == Spec => BuysOnce
<1>1. Init => Store!Init
  BY RefineInit
<1>2. IInv /\ [Next]_vars => [Store!Next]_(Store!vars)
  BY RefineStep, InvBase
<1>3. QED
  BY <1>1, <1>2, Invariance, PTL DEF Spec, BuysOnce, Store!Spec

-----------------------------------------------------------------------------
(* No request leaves beside a live take of its unit, while a unit is in one call. *)

\* Two threads are never past their locks for fingerprints of one unit, which have locks
\* of their own.
OneCallPerUnit == \A v, w \in Workers :
    v # w /\ InCall(v) /\ InCall(w) => UnitOf[at[v]] # UnitOf[at[w]]

\* What a call has found about the other fingerprints of its unit still holds when it posts.
AloneAt(w) ==
    /\ pc[w] \in {"gates", "ready", "intent"} => LiveElsewhere(at[w]) = {}
    /\ pc[w] \in {"ready", "intent"} /\ UnitOf[at[w]] \in BindingRequired => BoundElsewhere(at[w]) = {}

AloneInv == \A w \in Workers : AloneAt(w)

\* A file is written only by the call that holds its flock.
LEMMA OnlyOwnFile ==
  ASSUME Base, NEW w \in Workers, Worker(w), NEW g \in Fingerprints, txn'[g] # txn[g]
  PROVE  InCall(w) /\ at[w] = g
<1>t. Shape
  BY DEF Base
<1>1. CASE (\E f \in Fingerprints : Call(w, f)) \/ Enter(w) \/ Crash(w)
  BY <1>1 DEF Call, Enter, EnterBound, EnterBlocked, EnterMayPost, Crash, store
<1>2. CASE ReturnLiveElsewhere(w) \/ NoLiveElsewhere(w) \/ RefuseBeforeIntent(w) \/ PassGates(w)
           \/ Post(w) \/ WriteReceipt(w)
  BY <1>2 DEF ReturnLiveElsewhere, NoLiveElsewhere, RefuseBeforeIntent, PassGates, Post, WriteReceipt, store
<1>3. CASE RecordIntent(w) \/ RecordBound(w)
  BY <1>3, <1>t DEF RecordIntent, RecordBound, Shape, InCall
<1>4. CASE NotSent(w) \/ RecordNotCharged(w) \/ RecordNoTaskId(w) \/ RecordLost(w)
  BY <1>4, <1>t DEF NotSent, RecordNotCharged, RecordNoTaskId, RecordLost, SetState, SetAnswer, Shape, InCall
<1>5. QED
  BY <1>1, <1>2, <1>3, <1>4 DEF Worker, Step

\* Takes that are closed stay closed.
LEMMA ClosedGrows == [Next]_vars => closed \subseteq closed'
  BY DEF Next, Worker, Environment, Step, Call, Enter, EnterBound, EnterBlocked, EnterMayPost, Crash,
     ReturnLiveElsewhere, NoLiveElsewhere, RefuseBeforeIntent, PassGates, RecordIntent, NotSent, Post,
     RecordBound, RecordNotCharged, RecordNoTaskId, RecordLost, WriteReceipt, Provider, Advance,
     ReportFailed, Park, vars, store

\* While the other files of the unit are not written, nothing of it comes to life.
LEMMA ElsewhereFrame ==
  ASSUME NEW f \in Fingerprints, closed \subseteq closed', \A g \in Siblings(f) : txn'[g] = txn[g]
  PROVE  /\ LiveElsewhere(f) = {} => LiveElsewhere(f)' = {}
         /\ BoundElsewhere(f) = {} => BoundElsewhere(f)' = {}
  BY DEF LiveElsewhere, BoundElsewhere

LEMMA AloneStep == IInv /\ OneCallPerUnit /\ AloneInv /\ [Next]_vars => AloneInv'
<1> SUFFICES ASSUME IInv, OneCallPerUnit, AloneInv, [Next]_vars, NEW v \in Workers PROVE AloneAt(v)'
  BY DEF AloneInv
<1>t. Base /\ Shape /\ AloneAt(v)
  BY InvBase DEF Base, AloneInv
<1>1. closed \subseteq closed'
  BY ClosedGrows
<1>2. ASSUME InCall(v), NEW g \in Siblings(at[v]) PROVE txn'[g] = txn[g]
  <2>1. at[v] \in Fingerprints /\ g \in Fingerprints /\ g # at[v] /\ UnitOf[g] = UnitOf[at[v]]
    BY <1>2, <1>t DEF Siblings, InCall, Shape
  <2>2. ASSUME NEW w \in Workers, Worker(w), txn'[g] # txn[g] PROVE FALSE
    <3>1. InCall(w) /\ at[w] = g
      BY <1>t, <2>1, <2>2, OnlyOwnFile
    <3>2. QED
      BY <1>2, <2>1, <3>1 DEF OneCallPerUnit
  <2>3. (\A w \in Workers : ~Worker(w)) => txn' = txn
    BY DEF Next, Environment, Provider, Advance, ReportFailed, Park, vars, store
  <2>4. QED
    BY <2>2, <2>3
<1>3. ASSUME pc'[v] \in {"gates", "ready", "intent"}
      PROVE  /\ InCall(v) /\ at'[v] = at[v] /\ LiveElsewhere(at[v]) = {}
             /\ pc'[v] \in {"ready", "intent"} /\ UnitOf[at[v]] \in BindingRequired =>
                  BoundElsewhere(at[v]) = {}
  <2>1. CASE pc'[v] = pc[v] /\ at'[v] = at[v]
    BY <1>3, <1>t, <2>1 DEF AloneAt, InCall
  <2>2. CASE Worker(v)
    <3>1. CASE (\E f \in Fingerprints : Call(v, f)) \/ Enter(v) \/ Crash(v)
      BY <1>3, <1>t, <3>1 DEF Call, Enter, EnterBound, EnterBlocked, EnterMayPost, Crash, Return, Shape
    <3>2. CASE NoLiveElsewhere(v)
      BY <1>t, <3>2 DEF NoLiveElsewhere, Goto, Shape, InCall
    <3>3. CASE PassGates(v)
      BY <1>t, <3>3 DEF PassGates, Goto, AloneAt, InCall
    <3>4. CASE RecordIntent(v)
      BY <1>t, <3>4 DEF RecordIntent, Goto, AloneAt, InCall
    <3>5. CASE ReturnLiveElsewhere(v) \/ RefuseBeforeIntent(v) \/ NotSent(v) \/ RecordNotCharged(v)
               \/ RecordNoTaskId(v) \/ RecordLost(v) \/ WriteReceipt(v)
      BY <1>3, <1>t, <3>5 DEF ReturnLiveElsewhere, RefuseBeforeIntent, NotSent, RecordNotCharged,
         RecordNoTaskId, RecordLost, WriteReceipt, Return, Shape
    <3>6. CASE Post(v) \/ RecordBound(v)
      BY <1>3, <1>t, <3>6 DEF Post, RecordBound, Goto, Shape
    <3>7. QED
      BY <2>2, <3>1, <3>2, <3>3, <3>4, <3>5, <3>6 DEF Worker, Step
  <2>3. ASSUME NEW w \in Workers \ {v}, Worker(w) PROVE pc'[v] = pc[v] /\ at'[v] = at[v]
    BY <2>3, <1>t DEF Shape, Worker, Call, Enter, EnterBound, EnterBlocked, EnterMayPost, Crash, Step,
       ReturnLiveElsewhere, NoLiveElsewhere, RefuseBeforeIntent, PassGates, RecordIntent, NotSent, Post,
       RecordBound, RecordNotCharged, RecordNoTaskId, RecordLost, WriteReceipt, Return, Goto
  <2>4. CASE Environment \/ UNCHANGED vars
    BY <2>1, <2>4 DEF Environment, Provider, Advance, ReportFailed, Park, vars, local
  <2>5. QED
    BY <2>1, <2>2, <2>3, <2>4 DEF Next
<1>4. CASE pc'[v] \in {"gates", "ready", "intent"}
  <2>1. PICK f \in Fingerprints : f = at[v] /\ at'[v] = f
    BY <1>3, <1>4, <1>t DEF InCall, Shape
  <2>2. /\ LiveElsewhere(f)' = {}
        /\ pc'[v] \in {"ready", "intent"} /\ UnitOf[f] \in BindingRequired => BoundElsewhere(f)' = {}
    BY <1>1, <1>2, <1>3, <1>4, <2>1, ElsewhereFrame
  <2>3. QED
    BY <2>1, <2>2 DEF AloneAt, LiveElsewhere, BoundElsewhere, Siblings
<1>5. QED
  BY <1>4 DEF AloneAt

\* A request is out for a file only by its own call.
LEMMA SentByCall ==
  ASSUME Base, [Next]_vars, NEW f \in Fingerprints, Sent(f)
  PROVE  \E w \in Workers : pc[w] = "intent" /\ at[w] = f
<1>t. Shape /\ PlaceInv
  BY DEF Base
<1>1. PICK n \in 1 .. MaxAttempts : remote[<<f, n>>] = "none" /\ remote'[<<f, n>>] = "sent"
  BY DEF Sent
<1>2. <<f, n>> \in TaskIds
  BY DEF TaskIds
<1>3. ASSUME NEW w \in Workers, Worker(w) PROVE pc[w] = "intent" /\ at[w] = f
  <2>1. Post(w) \/ remote' = remote
    BY <1>3 DEF Worker, Call, Enter, EnterBound, EnterBlocked, EnterMayPost, Crash, Step,
       ReturnLiveElsewhere, NoLiveElsewhere, RefuseBeforeIntent, PassGates, RecordIntent, NotSent,
       RecordBound, RecordNotCharged, RecordNoTaskId, RecordLost, WriteReceipt
  <2>2. Post(w)
    BY <1>1, <2>1
  <2>3. Attempt(at[w]) = <<f, n>>
    BY <1>1, <1>2, <1>t, <2>2 DEF Post, Shape
  <2>4. QED
    BY <2>2, <2>3 DEF Post, Attempt
<1>4. ASSUME Environment \/ UNCHANGED vars PROVE FALSE
  BY <1>1, <1>2, <1>4, <1>t DEF Environment, Provider, Advance, ReportFailed, Park, vars, Shape
<1>5. QED
  BY <1>3, <1>4 DEF Next

\* While the calls for one unit do not overlap, no request leaves under another fingerprint
\* of a unit with a live take, nor, under the binding policy, of a unit ever bound
\* (video_live_binding.py:25, provider_request_digest.py:392).
THEOREM LiveTakeStaysAlone == Spec /\ []OneCallPerUnit => LiveTakeNeverReposted
<1>1. Init => AloneInv
  BY DEF Init, AloneInv, AloneAt
<1>2. IInv /\ OneCallPerUnit /\ AloneInv /\ [Next]_vars => AloneInv'
  BY AloneStep
<1>3. IInv /\ AloneInv /\ [Next]_vars =>
        [\A f \in Fingerprints : Sent(f) =>
           /\ LiveElsewhere(f) = {}
           /\ UnitOf[f] \in BindingRequired => BoundElsewhere(f) = {}]_vars
  BY SentByCall, InvBase DEF AloneInv, AloneAt
<1>4. QED
  BY <1>1, <1>2, <1>3, Invariance, PTL DEF Spec, LiveTakeNeverReposted
================================================================================
