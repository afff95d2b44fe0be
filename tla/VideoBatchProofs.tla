--------------------------- MODULE VideoBatchProofs ---------------------------
(***************************************************************************)
(* Theorems of VideoBatch, for any manifest of Giggle tasks, any pool of   *)
(* threads and any bound on the attempts.                                  *)
(***************************************************************************)
EXTENDS VideoBatch, FiniteSetTheorems, TLAPS

Files ==
    [state : SubmitStates \cup {CHARGED, UNRESOLVED}, attempt : 0 .. MaxAttempts,
     task : TaskIds \cup {None}, response : BOOLEAN]

\* The types of VideoSubmit, with the states the classifier writes.
ThreadType ==
    /\ txn \in [Fingerprints -> Files]
    /\ remote \in [TaskIds -> RemoteStates]
    /\ flock \in [Fingerprints -> Workers \cup {None}]
    /\ pc \in [Workers -> Places]
    /\ at \in [Workers -> Fingerprints \cup {None}]
    /\ outcome \in [Workers -> Outcomes]
    /\ \A w \in Workers : pc[w] # "idle" => at[w] \in Fingerprints

\* Threads only run while their run dispatches; a slot whose future is not collected
\* is given no other task.
PoolInv ==
    /\ \A w \in Workers : pc[w] # "idle" => phase = "dispatch" /\ w \in inflight
    /\ phase # "dispatch" => inflight = {}
    /\ phase = "classify" => verdict # "none"

\* A thread past prior_bound holds the flock of a file it may write.
HoldInv == \A w \in Workers :
    /\ pc[w] \notin {"idle", "waiting"} => flock[at[w]] = w
    /\ pc[w] \in {"prior", "gates", "ready"} => MayPost(at[w])
    /\ pc[w] = "ready" => txn[at[w]].attempt < MaxAttempts
    /\ pc[w] \in {"intent", "posting"} => txn[at[w]].state = INTENT /\ Attempt(at[w]) \in TaskIds

\* A task is queued, in flight, or has one row.
RowsInv ==
    /\ own \cap recovered = {} /\ Results \cap Failures = {}
    /\ phase = "dispatch" =>
         /\ queue \cap (Results \cup Failures) = {}
         /\ \A w \in inflight : at[w] \in Fingerprints \ (queue \cup Results \cup Failures)
         /\ \A v, w \in inflight : at[v] = at[w] => v = w

\* What a failed POST of this run left in its file: no binding, and an attempt that was
\* not there when the run began.
Posted(f) == Attempt(f) \in TaskIds \ earlier /\ txn[f].task = None

FreshInv ==
    /\ \A t \in TaskIds : t[2] > txn[t[1]].attempt => remote[t] = "none"
    /\ \A t \in earlier : t[2] <= txn[t[1]].attempt
    /\ \A f \in Fingerprints : txn[f].task # None => txn[f].task[1] = f
    /\ \A w \in Workers : pc[w] \in {"intent", "posting"} => Posted(at[w])
    /\ \A w \in inflight : pc[w] = "idle" /\ outcome[w] \in {"failed", "no_credits"} => Posted(at[w])
    /\ \A f \in Fingerprints : failure[f] \in {"failed", "no_credits"} => Posted(f)

\* The count a report carries is 0 when the run has no row to count.
CountInv == phase \in {"classify", "reported"} /\ own = {} /\ recovered = {} => known = 0

IInv ==
    /\ BatchTypeOK /\ ThreadType /\ PoolInv /\ HoldInv /\ RowsInv
    /\ FreshInv /\ CountInv /\ OneRowPerTask

USE ConstantsAssumption, GiggleBatch, FiniteManifest

-----------------------------------------------------------------------------
(* One step of a thread. *)

\* Leaving submit_one, moving on inside it, and writing the state of a file.
LEMMA Returning ==
  ASSUME ThreadType, NEW w \in Workers, NEW result \in Outcomes, Return(w, result)
  PROVE  /\ flock' \in [Fingerprints -> Workers \cup {None}]
         /\ pc' \in [Workers -> Places] /\ at' = at
         /\ outcome' \in [Workers -> Outcomes]
         /\ pc'[w] = "idle" /\ outcome'[w] = result
         /\ \A v \in Workers \ {w} : pc'[v] = pc[v] /\ outcome'[v] = outcome[v]
         /\ \A f \in Fingerprints, v \in Workers \ {w} : flock[f] = v => flock'[f] = v
  BY DEF ThreadType, Return, Places

LEMMA Going ==
  ASSUME ThreadType, NEW w \in Workers, NEW place \in Places, Goto(w, place)
  PROVE  /\ flock' = flock /\ at' = at /\ outcome' = outcome
         /\ pc' \in [Workers -> Places] /\ pc'[w] = place
         /\ \A v \in Workers \ {w} : pc'[v] = pc[v]
  BY DEF ThreadType, Goto

LEMMA Writing ==
  ASSUME ThreadType, NEW f \in Fingerprints, NEW s \in SubmitStates \cup {CHARGED, UNRESOLVED},
         SetState(f, s) \/ SetAnswer(f, s)
  PROVE  /\ txn' \in [Fingerprints -> Files]
         /\ txn'[f].state = s /\ txn'[f].attempt = txn[f].attempt /\ txn'[f].task = txn[f].task
         /\ \A g \in Fingerprints \ {f} : txn'[g] = txn[g]
<1> DEFINE r == [txn[f] EXCEPT !.state = s]
           q == [txn[f] EXCEPT !.state = s, !.response = TRUE]
<1>1. txn[f] \in Files /\ txn \in [Fingerprints -> Files]
  BY DEF ThreadType
<1>2. /\ r \in Files /\ r.state = s /\ r.attempt = txn[f].attempt /\ r.task = txn[f].task
      /\ q \in Files /\ q.state = s /\ q.attempt = txn[f].attempt /\ q.task = txn[f].task
  BY <1>1 DEF Files
<1>3. txn' = [txn EXCEPT ![f] = r] \/ txn' = [txn EXCEPT ![f] = q]
  BY DEF SetState, SetAnswer
<1> HIDE DEF r, q
<1>4. QED
  BY <1>1, <1>2, <1>3

\* The states a thread writes.
LEMMA States ==
    /\ {INTENT, BOUND, LOST, NO_TASK_ID, INSUFFICIENT, ZERO_RETRY} \subseteq SubmitStates
    /\ BOUND \notin {ABSENT} \cup VerifiedZero /\ INTENT # BOUND
    /\ ZERO_RETRY # CHARGED /\ ZERO_RETRY # UNRESOLVED
  BY DEF SubmitStates, INTENT, BOUND, LOST, NO_TASK_ID, INSUFFICIENT, ZERO_RETRY, ABSENT, VerifiedZero,
     ZERO_REMOTE, CHARGED, UNRESOLVED

\* A thread that runs is at its task, touches no other file and no other thread.
LEMMA ThreadStays ==
  ASSUME ThreadType, NEW w \in Workers, Enter(w) \/ Step(w)
  PROVE  /\ pc[w] # "idle" /\ at[w] \in Fingerprints /\ at' = at
         /\ \A v \in Workers \ {w} : pc'[v] = pc[v] /\ outcome'[v] = outcome[v]
         /\ \A f \in Fingerprints, v \in Workers \ {w} : flock[f] = v => flock'[f] = v
         /\ \A f \in Fingerprints \ {at[w]} : txn'[f] = txn[f]
         /\ \A t \in TaskIds : remote'[t] = remote[t] \/ (pc[w] = "intent" /\ t = Attempt(at[w]))
<1>1. pc[w] # "idle" /\ at[w] \in Fingerprints
  BY DEF ThreadType, Enter, EnterBound, EnterBlocked, EnterMayPost, Step, ReturnLiveElsewhere,
     NoLiveElsewhere, RefuseBeforeIntent, PassGates, RecordIntent, NotSent, Post, RecordBound,
     RecordNotCharged, RecordNoTaskId, RecordLost, WriteReceipt
<1>2. at' = at
  BY DEF Enter, EnterBound, EnterBlocked, EnterMayPost, Step, ReturnLiveElsewhere, NoLiveElsewhere,
     RefuseBeforeIntent, PassGates, RecordIntent, NotSent, Post, RecordBound, RecordNotCharged,
     RecordNoTaskId, RecordLost, WriteReceipt, Return, Goto
<1>3. \A v \in Workers \ {w} : pc'[v] = pc[v] /\ outcome'[v] = outcome[v]
  BY DEF ThreadType, Enter, EnterBound, EnterBlocked, EnterMayPost, Step, ReturnLiveElsewhere,
     NoLiveElsewhere, RefuseBeforeIntent, PassGates, RecordIntent, NotSent, Post, RecordBound,
     RecordNotCharged, RecordNoTaskId, RecordLost, WriteReceipt, Return, Goto
<1>4. \A f \in Fingerprints, v \in Workers \ {w} : flock[f] = v => flock'[f] = v
  BY DEF ThreadType, Enter, EnterBound, EnterBlocked, EnterMayPost, Step, ReturnLiveElsewhere,
     NoLiveElsewhere, RefuseBeforeIntent, PassGates, RecordIntent, NotSent, Post, RecordBound,
     RecordNotCharged, RecordNoTaskId, RecordLost, WriteReceipt, Return, Goto
<1>5. \A f \in Fingerprints \ {at[w]} : txn'[f] = txn[f]
  BY DEF ThreadType, Enter, EnterBound, EnterBlocked, EnterMayPost, Step, ReturnLiveElsewhere,
     NoLiveElsewhere, RefuseBeforeIntent, PassGates, RecordIntent, NotSent, Post, RecordBound,
     RecordNotCharged, RecordNoTaskId, RecordLost, WriteReceipt, SetState, SetAnswer, store
<1>6. \A t \in TaskIds : remote'[t] = remote[t] \/ (pc[w] = "intent" /\ t = Attempt(at[w]))
  <2>1. CASE Post(w)
    BY <2>1 DEF Post, ThreadType
  <2>2. CASE ~Post(w)
    BY <2>2 DEF Enter, EnterBound, EnterBlocked, EnterMayPost, Step, ReturnLiveElsewhere,
       NoLiveElsewhere, RefuseBeforeIntent, PassGates, RecordIntent, NotSent, RecordBound,
       RecordNotCharged, RecordNoTaskId, RecordLost, WriteReceipt, store
  <2>3. QED
    BY <2>1, <2>2
<1>7. QED
  BY <1>1, <1>2, <1>3, <1>4, <1>5, <1>6

\* What thread w is allowed at its place.
Holds(w) ==
    /\ pc[w] \notin {"idle", "waiting"} => flock[at[w]] = w
    /\ pc[w] \in {"prior", "gates", "ready"} => MayPost(at[w])
    /\ pc[w] = "ready" => txn[at[w]].attempt < MaxAttempts
    /\ pc[w] \in {"intent", "posting"} => txn[at[w]].state = INTENT /\ Attempt(at[w]) \in TaskIds

\* What a step of w makes of its own place and file.
ThreadWrites(w) ==
    /\ flock' \in [Fingerprints -> Workers \cup {None}] /\ pc' \in [Workers -> Places]
    /\ outcome' \in [Workers -> Outcomes] /\ txn' \in [Fingerprints -> Files]
    /\ remote' \in [TaskIds -> RemoteStates]
    /\ Holds(w)'
    /\ \/ txn' = txn
       \/ /\ pc[w] = "ready" /\ pc'[w] = "intent" /\ txn[at[w]].state # BOUND
          /\ txn'[at[w]].attempt = txn[at[w]].attempt + 1 /\ txn'[at[w]].task = None
          /\ Attempt(at[w])' \in TaskIds
       \/ /\ pc[w] \in {"intent", "posting"} /\ pc'[w] \notin {"intent", "posting"} /\ txn[at[w]].state # BOUND
          /\ txn'[at[w]].attempt = txn[at[w]].attempt
          /\ \/ txn'[at[w]].task = txn[at[w]].task
             \/ pc'[w] # "idle" /\ txn'[at[w]].task = Attempt(at[w])
    /\ pc'[w] = "intent" => txn' # txn
    /\ pc'[w] = "posting" => pc[w] = "intent" /\ txn' = txn
    /\ pc'[w] = "idle" /\ outcome'[w] \in {"failed", "no_credits"} => pc[w] \in {"intent", "posting"}

LEMMA ThreadEffect ==
  ASSUME ThreadType, HoldInv, NEW w \in Workers, Enter(w) \/ Step(w)
  PROVE  ThreadWrites(w)
<1>w. at[w] \in Fingerprints /\ at' = at /\ txn[at[w]] \in Files /\ Holds(w)
  BY ThreadStays DEF ThreadType, HoldInv, Holds
<1>t. /\ flock \in [Fingerprints -> Workers \cup {None}] /\ pc \in [Workers -> Places]
      /\ outcome \in [Workers -> Outcomes] /\ txn \in [Fingerprints -> Files]
      /\ remote \in [TaskIds -> RemoteStates]
  BY DEF ThreadType
<1>n. txn[at[w]].attempt \in 0 .. MaxAttempts
  BY <1>w DEF Files
\* A call that ends.
<1>r. ASSUME NEW result \in Outcomes, Return(w, result),
             remote' = remote, txn' = txn,
             result \in {"failed", "no_credits"} => pc[w] \in {"intent", "posting"}
      PROVE  ThreadWrites(w)
  BY <1>r, <1>t, Returning DEF ThreadWrites, Holds
\* A call that ends with an answer written to the file.
<1>a. ASSUME NEW result \in Outcomes, Return(w, result), remote' = remote,
             NEW s \in SubmitStates, SetState(at[w], s) \/ SetAnswer(at[w], s),
             pc[w] \in {"intent", "posting"}
      PROVE  ThreadWrites(w)
  <2>1. txn[at[w]].state # BOUND
    BY <1>a, <1>w, States DEF Holds
  <2>2. /\ pc'[w] = "idle" /\ flock' \in [Fingerprints -> Workers \cup {None}]
        /\ pc' \in [Workers -> Places] /\ outcome' \in [Workers -> Outcomes]
    BY <1>a, Returning
  <2>3. /\ txn' \in [Fingerprints -> Files] /\ txn'[at[w]].attempt = txn[at[w]].attempt
        /\ txn'[at[w]].task = txn[at[w]].task
    BY <1>a, <1>w, Writing
  <2>4. QED
    BY <1>a, <1>t, <2>1, <2>2, <2>3 DEF ThreadWrites, Holds
<1>1. CASE EnterBound(w) \/ EnterBlocked(w)
  BY <1>1, <1>r DEF EnterBound, EnterBlocked, store, Outcomes
<1>2. CASE EnterMayPost(w)
  <2>1. /\ flock' = [flock EXCEPT ![at[w]] = w] /\ pc' = [pc EXCEPT ![w] = "prior"]
        /\ txn' = txn /\ remote' = remote /\ outcome' = outcome /\ MayPost(at[w])
    BY <1>2 DEF EnterMayPost, store
  <2>2. pc' \in [Workers -> Places] /\ pc'[w] = "prior"
    BY <2>1, <1>t DEF Places
  <2>3. QED
    BY <2>1, <2>2, <1>t, <1>w DEF ThreadWrites, Holds, MayPost
<1>3. CASE ReturnLiveElsewhere(w) \/ RefuseBeforeIntent(w) \/ WriteReceipt(w)
  BY <1>3, <1>r DEF ReturnLiveElsewhere, RefuseBeforeIntent, WriteReceipt, store, Outcomes
<1>4. CASE NoLiveElsewhere(w) \/ PassGates(w)
  <2>1. \E place \in {"gates", "ready"} : Goto(w, place) /\ (place = "ready" => txn[at[w]].attempt < MaxAttempts)
    BY <1>4 DEF NoLiveElsewhere, PassGates
  <2>2. pc[w] \in {"prior", "gates"} /\ txn' = txn /\ remote' = remote
    BY <1>4 DEF NoLiveElsewhere, PassGates, store
  <2>3. QED
    BY <2>1, <2>2, <1>t, <1>w, Going DEF ThreadWrites, Holds, MayPost, Places
<1>5. CASE RecordIntent(w)
  <2> DEFINE r == [state |-> INTENT, attempt |-> txn[at[w]].attempt + 1, task |-> None, response |-> FALSE]
  <2>1. /\ txn' = [txn EXCEPT ![at[w]] = r] /\ Goto(w, "intent") /\ remote' = remote /\ pc[w] = "ready"
    BY <1>5 DEF RecordIntent
  <2>2. txn[at[w]].attempt + 1 \in 1 .. MaxAttempts
    BY <2>1, <1>w, <1>n DEF Holds
  <2>3. r \in Files
    BY <2>2, States DEF Files
  <2>4. txn' \in [Fingerprints -> Files] /\ txn'[at[w]] = r
    BY <2>1, <2>3, <1>t, <1>w
  <2>5. Attempt(at[w])' \in TaskIds
    BY <2>2, <2>4, <1>w DEF Attempt, TaskIds
  <2>6. txn[at[w]].state # BOUND
    BY <2>1, <1>w, States DEF Holds, MayPost
  <2>7. pc'[w] = "intent" /\ flock' = flock /\ outcome' = outcome /\ pc' \in [Workers -> Places]
    BY <2>1, Going DEF Places
  <2>8. Holds(w)'
    BY <2>1, <2>4, <2>5, <2>7, <1>w DEF Holds
  <2>9. txn' # txn
    BY <2>4, <1>n
  <2>10. QED
    BY <2>1, <2>2, <2>4, <2>5, <2>6, <2>7, <2>8, <2>9, <1>t, <1>w DEF ThreadWrites
<1>6. CASE NotSent(w)
  <2> DEFINE s == IF at[w] \in Hopsapi THEN ZERO_RETRY ELSE LOST
  <2>1. s \in SubmitStates
    BY States
  <2>2. SetState(at[w], s) /\ Return(w, "failed") /\ remote' = remote /\ pc[w] = "intent"
    BY <1>6 DEF NotSent
  <2> HIDE DEF s
  <2>3. QED
    BY <2>1, <2>2, <1>a DEF Outcomes
<1>7. CASE Post(w)
  <2>1. /\ remote' = [remote EXCEPT ![Attempt(at[w])] = "sent"] /\ Goto(w, "posting")
        /\ txn' = txn /\ pc[w] = "intent"
    BY <1>7 DEF Post, store
  <2>2. remote' \in [TaskIds -> RemoteStates]
    BY <2>1, <1>t DEF RemoteStates
  <2>3. pc'[w] = "posting" /\ flock' = flock /\ outcome' = outcome /\ pc' \in [Workers -> Places]
    BY <2>1, Going DEF Places
  <2>4. Holds(w)'
    BY <2>1, <2>3, <1>w DEF Holds, Attempt
  <2>5. QED
    BY <2>1, <2>2, <2>3, <2>4, <1>t DEF ThreadWrites
<1>8. CASE RecordBound(w)
  <2> DEFINE r == [txn[at[w]] EXCEPT !.state = BOUND, !.task = Attempt(at[w]), !.response = TRUE]
  <2>1. /\ txn' = [txn EXCEPT ![at[w]] = r] /\ Goto(w, "bound") /\ remote' = remote /\ pc[w] = "posting"
    BY <1>8, <1>t, <1>w DEF RecordBound
  <2>2. Attempt(at[w]) \in TaskIds /\ txn[at[w]].state # BOUND
    BY <2>1, <1>w, States DEF Holds
  <2>3. r \in Files /\ r.attempt = txn[at[w]].attempt /\ r.task = Attempt(at[w])
    BY <2>2, <1>w, States DEF Files
  <2> HIDE DEF r
  <2>4. txn' \in [Fingerprints -> Files] /\ txn'[at[w]] = r
    BY <2>1, <2>3, <1>t, <1>w
  <2>5. pc'[w] = "bound" /\ flock' = flock /\ outcome' = outcome /\ pc' \in [Workers -> Places]
    BY <2>1, Going DEF Places
  <2>6. Holds(w)'
    BY <2>1, <2>5, <1>w DEF Holds
  <2>7. QED
    BY <2>1, <2>2, <2>3, <2>4, <2>5, <2>6, <1>t DEF ThreadWrites
<1>9. CASE RecordNotCharged(w)
  <2>1. \E result \in {"failed", "no_credits"} : Return(w, result)
    BY <1>9 DEF RecordNotCharged
  <2>2. SetAnswer(at[w], ZERO_RETRY) /\ remote' = remote /\ pc[w] = "posting"
    BY <1>9 DEF RecordNotCharged
  <2>3. QED
    BY <2>1, <2>2, <1>a, States DEF Outcomes
<1>10. CASE RecordNoTaskId(w) \/ RecordLost(w)
  <2>1. \E result \in {"failed", "no_credits"}, s \in {INSUFFICIENT, NO_TASK_ID, LOST} :
          Return(w, result) /\ (SetState(at[w], s) \/ SetAnswer(at[w], s))
    BY <1>10 DEF RecordNoTaskId, RecordLost
  <2>2. remote' = remote /\ pc[w] = "posting"
    BY <1>10 DEF RecordNoTaskId, RecordLost
  <2>3. QED
    BY <2>1, <2>2, <1>a, States DEF Outcomes
<1>11. QED
  BY <1>1, <1>2, <1>3, <1>4, <1>5, <1>6, <1>7, <1>8, <1>9, <1>10 DEF Enter, Step

-----------------------------------------------------------------------------
(* A thread keeps the invariant. *)

\* Threads at work hold different tasks.
LEMMA Apart ==
  ASSUME PoolInv, RowsInv, NEW v \in Workers, NEW w \in Workers, v # w, pc[v] # "idle", pc[w] # "idle"
  PROVE  at[v] # at[w]
  BY DEF PoolInv, RowsInv

LEMMA AttemptNumbers ==
  ASSUME ThreadType, NEW t \in TaskIds
  PROVE  /\ t[1] \in Fingerprints /\ t[2] \in 1 .. MaxAttempts /\ t = <<t[1], t[2]>>
         /\ txn[t[1]].attempt \in 0 .. MaxAttempts
  BY DEF ThreadType, TaskIds, Files

\* What a failed POST left stays as long as nobody writes its file.
LEMMA PostedKept ==
  ASSUME NEW f, txn'[f].attempt = txn[f].attempt, txn'[f].task = txn[f].task, earlier' = earlier, Posted(f)
  PROVE  Posted(f)'
  BY DEF Posted, Attempt

LEMMA ThreadFresh ==
  ASSUME IInv, NEW w \in Workers, Enter(w) \/ Step(w), UNCHANGED <<batch, ledger>>
  PROVE  FreshInv'
<1> USE DEF IInv
<1>1. /\ pc[w] # "idle" /\ at[w] \in Fingerprints /\ at' = at
      /\ \A v \in Workers \ {w} : pc'[v] = pc[v] /\ outcome'[v] = outcome[v]
      /\ \A f \in Fingerprints \ {at[w]} : txn'[f] = txn[f]
      /\ \A t \in TaskIds : remote'[t] = remote[t] \/ (pc[w] = "intent" /\ t = Attempt(at[w]))
  BY ThreadStays
<1>2. ThreadWrites(w)
  BY ThreadEffect
<1>3. UNCHANGED <<phase, inflight, failure, earlier>>
  BY DEF batch, ledger
<1>4. phase = "dispatch" /\ w \in inflight
  BY <1>1 DEF PoolInv
<1>5. txn'[at[w]].attempt \in {txn[at[w]].attempt, txn[at[w]].attempt + 1}
  BY <1>2 DEF ThreadWrites
<1>6. \A f \in Fingerprints : txn[f].attempt \in 0 .. MaxAttempts
  BY DEF ThreadType, Files
<1>7. \A t \in TaskIds : t[2] > txn'[t[1]].attempt => remote'[t] = "none"
  <2>1. SUFFICES ASSUME NEW t \in TaskIds, t[2] > txn'[t[1]].attempt PROVE remote'[t] = "none"
    OBVIOUS
  <2>2. /\ t[1] \in Fingerprints /\ t[2] \in 1 .. MaxAttempts
        /\ txn[t[1]].attempt \in 0 .. MaxAttempts
    BY AttemptNumbers
  <2>3. txn'[t[1]].attempt \in {txn[t[1]].attempt, txn[t[1]].attempt + 1}
    BY <1>1, <1>5, <2>2
  <2>4. t[2] > txn[t[1]].attempt
    BY <2>1, <2>2, <2>3
  <2>5. remote[t] = "none"
    BY <2>4 DEF FreshInv
  <2>6. t # Attempt(at[w])
    BY <2>2, <2>4 DEF Attempt
  <2>7. QED
    BY <1>1, <2>5, <2>6
<1>8. \A t \in earlier' : t[2] <= txn'[t[1]].attempt
  <2>1. SUFFICES ASSUME NEW t \in earlier PROVE t[2] <= txn'[t[1]].attempt
    BY <1>3
  <2>2. t \in TaskIds
    BY DEF BatchTypeOK
  <2>3. /\ t[1] \in Fingerprints /\ t[2] \in 1 .. MaxAttempts
        /\ txn[t[1]].attempt \in 0 .. MaxAttempts
    BY <2>2, AttemptNumbers
  <2>4. txn'[t[1]].attempt \in {txn[t[1]].attempt, txn[t[1]].attempt + 1}
    BY <1>1, <1>5, <2>3
  <2>5. t[2] <= txn[t[1]].attempt
    BY DEF FreshInv
  <2>6. QED
    BY <2>3, <2>4, <2>5
<1>9. \A f \in Fingerprints : txn'[f].task # None => txn'[f].task[1] = f
  <2>1. txn'[at[w]].task \in {txn[at[w]].task, None, Attempt(at[w])}
    BY <1>2 DEF ThreadWrites
  <2>2. Attempt(at[w])[1] = at[w]
    BY DEF Attempt
  <2>3. QED
    BY <1>1, <2>1, <2>2 DEF FreshInv
\* The file of w after the step.
<1>10. ASSUME Posted(at[w]), txn'[at[w]].attempt = txn[at[w]].attempt, txn'[at[w]].task = txn[at[w]].task
       PROVE  Posted(at[w])'
  BY <1>10, <1>1, <1>3, PostedKept
<1>11. pc'[w] \in {"intent", "posting"} => Posted(at[w])'
  <2>1. CASE pc'[w] = "intent"
    <3>1. /\ txn'[at[w]].attempt = txn[at[w]].attempt + 1 /\ txn'[at[w]].task = None
          /\ Attempt(at[w])' \in TaskIds
      BY <2>1, <1>2 DEF ThreadWrites
    <3>2. Attempt(at[w])' = <<at[w], txn[at[w]].attempt + 1>>
      BY <3>1, <1>1 DEF Attempt
    <3>3. <<at[w], txn[at[w]].attempt + 1>> \notin earlier
      <4>1. ~(txn[at[w]].attempt + 1 <= txn[at[w]].attempt)
        BY <1>1, <1>6
      <4>2. QED
        BY <4>1 DEF FreshInv
    <3>4. QED
      BY <3>1, <3>2, <3>3, <1>3, <1>1 DEF Posted
  <2>2. CASE pc'[w] = "posting"
    <3>1. pc[w] = "intent" /\ txn' = txn
      BY <2>2, <1>2 DEF ThreadWrites
    <3>2. QED
      BY <3>1, <1>10 DEF FreshInv
  <2>3. QED
    BY <2>1, <2>2
<1>12. pc'[w] = "idle" /\ outcome'[w] \in {"failed", "no_credits"} => Posted(at[w])'
  <2>1. SUFFICES ASSUME pc'[w] = "idle", outcome'[w] \in {"failed", "no_credits"} PROVE Posted(at[w])'
    OBVIOUS
  <2>2. /\ pc[w] \in {"intent", "posting"}
        /\ txn'[at[w]].attempt = txn[at[w]].attempt /\ txn'[at[w]].task = txn[at[w]].task
    BY <2>1, <1>2 DEF ThreadWrites
  <2>3. QED
    BY <2>2, <1>10 DEF FreshInv
\* The files of others.
<1>13. ASSUME NEW f \in Fingerprints \ {at[w]}, Posted(f) PROVE Posted(f)'
  BY <1>13, <1>1, <1>3, PostedKept
<1>14. \A v \in Workers : pc'[v] \in {"intent", "posting"} => Posted(at[v])'
  <2>1. SUFFICES ASSUME NEW v \in Workers \ {w}, pc'[v] \in {"intent", "posting"} PROVE Posted(at[v])'
    BY <1>11, <1>1
  <2>2. pc[v] \in {"intent", "posting"} /\ at[v] \in Fingerprints \ {at[w]}
    BY <2>1, <1>1, Apart DEF ThreadType
  <2>3. Posted(at[v])
    BY <2>2 DEF FreshInv
  <2>4. QED
    BY <2>2, <2>3, <1>13, <1>1
<1>15. \A v \in inflight' : pc'[v] = "idle" /\ outcome'[v] \in {"failed", "no_credits"} => Posted(at[v])'
  <2>1. SUFFICES ASSUME NEW v \in inflight \ {w}, pc'[v] = "idle", outcome'[v] \in {"failed", "no_credits"}
                 PROVE  Posted(at[v])'
    BY <1>12, <1>1, <1>3
  <2>2. v \in Workers
    BY DEF BatchTypeOK
  <2>3. pc[v] = "idle" /\ outcome[v] \in {"failed", "no_credits"} /\ at[v] \in Fingerprints \ {at[w]}
    BY <2>1, <2>2, <1>1, <1>4 DEF RowsInv
  <2>4. Posted(at[v])
    BY <2>3 DEF FreshInv
  <2>5. QED
    BY <2>3, <2>4, <1>13, <1>1
<1>16. \A f \in Fingerprints : failure'[f] \in {"failed", "no_credits"} => Posted(f)'
  <2>1. SUFFICES ASSUME NEW f \in Fingerprints, failure[f] \in {"failed", "no_credits"} PROVE Posted(f)'
    BY <1>3
  <2>2. f # at[w]
    BY <2>1, <1>4 DEF RowsInv, Failures
  <2>3. QED
    BY <2>1, <2>2, <1>13 DEF FreshInv
<1>17. QED
  BY <1>1, <1>7, <1>8, <1>9, <1>14, <1>15, <1>16 DEF FreshInv

LEMMA ThreadKeeps ==
  ASSUME IInv, NEW w \in Workers, Thread(w)
  PROVE  IInv'
<1> USE DEF IInv
<1>1. (Enter(w) \/ Step(w)) /\ UNCHANGED <<batch, ledger>>
  BY DEF Thread
<1>2. /\ UNCHANGED <<phase, queue, inflight, own, recovered, failure, fuse, verdict, pending, known>>
      /\ UNCHANGED <<pay, earlier>>
  BY <1>1 DEF batch, ledger
<1>3. /\ pc[w] # "idle" /\ at[w] \in Fingerprints /\ at' = at
      /\ \A v \in Workers \ {w} : pc'[v] = pc[v] /\ outcome'[v] = outcome[v]
      /\ \A f \in Fingerprints, v \in Workers \ {w} : flock[f] = v => flock'[f] = v
      /\ \A f \in Fingerprints \ {at[w]} : txn'[f] = txn[f]
  BY <1>1, ThreadStays
<1>4. ThreadWrites(w)
  BY <1>1, ThreadEffect
<1>5. phase = "dispatch" /\ w \in inflight
  BY <1>3 DEF PoolInv
<1>6. ThreadType'
  BY <1>3, <1>4 DEF ThreadWrites, ThreadType
<1>7. HoldInv'
  <2>1. SUFFICES ASSUME NEW v \in Workers \ {w} PROVE Holds(v)'
    BY <1>4 DEF HoldInv, Holds, ThreadWrites
  <2>2. Holds(v) /\ pc'[v] = pc[v]
    BY <1>3 DEF HoldInv, Holds
  <2>3. CASE pc[v] = "idle"
    BY <2>2, <2>3 DEF Holds
  <2>4. CASE pc[v] # "idle"
    <3>1. at[v] \in Fingerprints \ {at[w]}
      BY <2>4, <1>3, Apart DEF ThreadType
    <3>2. txn'[at[v]] = txn[at[v]] /\ (flock[at[v]] = v => flock'[at[v]] = v)
      BY <3>1, <1>3
    <3>3. QED
      BY <2>2, <3>2, <1>3 DEF Holds, MayPost, Attempt
  <2>5. QED
    BY <2>3, <2>4
<1>8. BatchTypeOK'
  BY <1>2 DEF BatchTypeOK
<1>9. PoolInv' /\ RowsInv' /\ CountInv' /\ OneRowPerTask'
  BY <1>2, <1>3, <1>5 DEF PoolInv, RowsInv, CountInv, OneRowPerTask, Results, Failures
<1>10. FreshInv'
  BY <1>1, ThreadFresh
<1>11. QED
  BY <1>6, <1>7, <1>8, <1>9, <1>10

-----------------------------------------------------------------------------
(* The main thread keeps the invariant. *)

\* Outside dispatch every thread is idle.
LEMMA Resting ==
  ASSUME PoolInv, phase # "dispatch"
  PROVE  inflight = {} /\ \A w \in Workers : pc[w] = "idle"
  BY DEF PoolInv

\* What a step that leaves threads and files alone leaves true of them.
LEMMA Untouched ==
  ASSUME IInv, UNCHANGED vars
  PROVE  /\ ThreadType' /\ HoldInv'
         /\ UNCHANGED <<txn, receipts, closed, remote, flock, pc, at, outcome>>
         /\ \A t \in TaskIds : t[2] > txn'[t[1]].attempt => remote'[t] = "none"
         /\ \A f \in Fingerprints : txn'[f].task # None => txn'[f].task[1] = f
         /\ earlier' = earlier => \A f : Posted(f)' = Posted(f)
<1>1. UNCHANGED <<txn, receipts, closed, remote, flock, pc, at, outcome>>
  BY DEF vars, store, local
<1>2. ThreadType'
  BY <1>1 DEF IInv, ThreadType
<1>3. HoldInv'
  BY <1>1 DEF IInv, HoldInv, MayPost, Attempt
<1>4. /\ \A t \in TaskIds : t[2] > txn'[t[1]].attempt => remote'[t] = "none"
      /\ \A f \in Fingerprints : txn'[f].task # None => txn'[f].task[1] = f
  BY <1>1 DEF IInv, FreshInv
<1>5. earlier' = earlier => \A f : Posted(f)' = Posted(f)
  BY <1>1 DEF Posted, Attempt
<1>6. QED
  BY <1>1, <1>2, <1>3, <1>4, <1>5

LEMMA StartKeeps ==
  ASSUME IInv, StartRun
  PROVE  IInv'
<1> USE DEF IInv
<1>1. /\ UNCHANGED vars /\ pay' = pay /\ phase \in {"off", "reported"} /\ phase' = "dispatch"
      /\ queue' = Fingerprints /\ inflight' = {} /\ own' = {} /\ recovered' = {} /\ pending' = {}
      /\ failure' = [f \in Fingerprints |-> "none"]
      /\ fuse' = FALSE /\ verdict' = "none" /\ known' = 0
      /\ earlier' = {t \in TaskIds : remote[t] \in Created}
  BY DEF StartRun
<1>2. \A w \in Workers : pc[w] = "idle" /\ pc'[w] = "idle"
  BY <1>1, Resting, Untouched
<1>3. BatchTypeOK'
  <2>1. 0 \in 0 .. Cardinality(Fingerprints)
    BY FS_CardinalityType
  <2>2. QED
    BY <1>1, <2>1 DEF BatchTypeOK
<1>4. \A t \in earlier' : t[2] <= txn'[t[1]].attempt
  <2>1. SUFFICES ASSUME NEW t \in TaskIds, remote[t] \in Created PROVE t[2] <= txn[t[1]].attempt
    BY <1>1, Untouched
  <2>2. ~(t[2] > txn[t[1]].attempt)
    BY <2>1 DEF FreshInv, Created
  <2>3. QED
    BY <2>2, AttemptNumbers
<1>5. FreshInv'
  BY <1>1, <1>2, <1>4, Untouched DEF FreshInv
<1>6. PoolInv' /\ RowsInv' /\ CountInv' /\ OneRowPerTask'
  BY <1>1, <1>2 DEF PoolInv, RowsInv, CountInv, OneRowPerTask, Results, Failures
<1>7. QED
  BY <1>1, <1>3, <1>5, <1>6, Untouched

LEMMA DispatchKeeps ==
  ASSUME IInv, NEW w \in Workers, Dispatch(w)
  PROVE  IInv'
<1> USE DEF IInv
<1>1. PICK f \in queue : Call(w, f) /\ queue' = queue \ {f}
  BY DEF Dispatch
<1>2. /\ phase = "dispatch" /\ w \notin inflight /\ inflight' = inflight \cup {w}
      /\ UNCHANGED <<phase, own, recovered, failure, fuse, verdict, pending, known, pay, earlier>>
  BY DEF Dispatch, ledger
<1>3. /\ pc' = [pc EXCEPT ![w] = "waiting"] /\ at' = [at EXCEPT ![w] = f]
      /\ outcome' = [outcome EXCEPT ![w] = "none"]
      /\ UNCHANGED <<txn, remote, flock>>
  BY <1>1 DEF Call, store
<1>4. f \in Fingerprints
  BY DEF BatchTypeOK
<1>5. /\ pc'[w] = "waiting" /\ at'[w] = f /\ outcome'[w] = "none"
      /\ \A v \in Workers \ {w} : pc'[v] = pc[v] /\ at'[v] = at[v] /\ outcome'[v] = outcome[v]
      /\ pc' \in [Workers -> Places] /\ at' \in [Workers -> Fingerprints \cup {None}]
      /\ outcome' \in [Workers -> Outcomes]
  BY <1>3, <1>4 DEF ThreadType, Places, Outcomes
<1>6. ThreadType'
  BY <1>3, <1>4, <1>5 DEF ThreadType
<1>7. BatchTypeOK'
  BY <1>1, <1>2 DEF BatchTypeOK
<1>8. HoldInv'
  BY <1>3, <1>5 DEF HoldInv, MayPost, Attempt
<1>9. PoolInv' /\ CountInv' /\ OneRowPerTask'
  BY <1>2, <1>5 DEF PoolInv, CountInv, OneRowPerTask
<1>10. RowsInv'
  <2>1. inflight \subseteq Workers
    BY DEF BatchTypeOK
  <2>2. \A v \in inflight : at'[v] = at[v] /\ at[v] # f
    BY <1>2, <1>5, <2>1 DEF RowsInv
  <2>3. QED
    BY <1>1, <1>2, <1>4, <1>5, <2>2 DEF RowsInv, Results, Failures
<1>11. FreshInv'
  <2>1. inflight \subseteq Workers
    BY DEF BatchTypeOK
  <2>2. \A g : Posted(g)' = Posted(g)
    BY <1>2, <1>3 DEF Posted, Attempt
  <2>3. \A v \in Workers : pc'[v] \in {"intent", "posting"} => Posted(at'[v])
    BY <1>5 DEF FreshInv
  <2>4. \A v \in inflight' : pc'[v] = "idle" /\ outcome'[v] \in {"failed", "no_credits"} => Posted(at'[v])
    BY <1>2, <1>5, <2>1 DEF FreshInv
  <2>5. \A g \in Fingerprints : failure'[g] \in {"failed", "no_credits"} => Posted(g)
    BY <1>2 DEF FreshInv
  <2>6. /\ \A v \in Workers : pc'[v] \in {"intent", "posting"} => Posted(at[v])'
        /\ \A v \in inflight' : pc'[v] = "idle" /\ outcome'[v] \in {"failed", "no_credits"} => Posted(at[v])'
        /\ \A g \in Fingerprints : failure'[g] \in {"failed", "no_credits"} => Posted(g)'
    BY <2>3, <2>4, <2>5, <1>2, <1>3 DEF Posted, Attempt
  <2>7. QED
    BY <1>2, <1>3, <2>6 DEF FreshInv
<1>12. QED
  BY <1>6, <1>7, <1>8, <1>9, <1>10, <1>11

\* A completed future becomes one row.
LEMMA CollectKeeps ==
  ASSUME IInv, NEW w \in Workers, CollectRow(w) \/ CollectFailure(w) \/ CollectNoCredits(w)
  PROVE  IInv'
<1> USE DEF IInv
<1>1. /\ phase = "dispatch" /\ w \in inflight /\ pc[w] = "idle" /\ inflight' = inflight \ {w}
      /\ UNCHANGED vars /\ UNCHANGED <<phase, queue, verdict, pending, known, pay, earlier>>
  BY DEF CollectRow, CollectFailure, CollectNoCredits, Done, ledger
<1> DEFINE f == at[w]
           kinds == {"blocked", "refused", "failed", "before_intent", "no_credits"}
<1>2. /\ f \in Fingerprints \ (queue \cup Results \cup Failures)
      /\ \A v \in inflight' : v \in Workers /\ at[v] # f
      /\ \A v \in inflight' : at[v] \in Fingerprints \ (queue \cup Results \cup Failures)
  BY <1>1 DEF RowsInv, BatchTypeOK
<1>3. \/ own' = own \cup {f} /\ UNCHANGED <<recovered, failure>>
      \/ recovered' = recovered \cup {f} /\ UNCHANGED <<own, failure>>
      \/ /\ \E k \in kinds : /\ failure' = [failure EXCEPT ![f] = k]
                             /\ k \in {"failed", "no_credits"} => outcome[w] \in {"failed", "no_credits"}
         /\ UNCHANGED <<own, recovered>>
  <2>1. CASE CollectRow(w)
    BY <2>1 DEF CollectRow
  <2>2. CASE CollectFailure(w)
    BY <2>2 DEF CollectFailure
  <2>3. CASE CollectNoCredits(w)
    BY <2>3 DEF CollectNoCredits
  <2>4. QED
    BY <2>1, <2>2, <2>3
<1>4. fuse' \in BOOLEAN
  BY DEF CollectRow, CollectFailure, CollectNoCredits, BatchTypeOK
<1>5. /\ failure' \in [Fingerprints -> {"none"} \cup kinds \cup {"not_submitted"}]
      /\ \A g \in Fingerprints \ {f} : failure'[g] = failure[g]
      /\ failure'[f] = failure[f] \/ failure'[f] \in kinds
      /\ failure'[f] \in {"failed", "no_credits"} =>
           failure[f] \in {"failed", "no_credits"} \/ outcome[w] \in {"failed", "no_credits"}
  BY <1>2, <1>3 DEF BatchTypeOK
<1>6. own' \subseteq Fingerprints /\ recovered' \subseteq Fingerprints
  BY <1>2, <1>3 DEF BatchTypeOK
<1>7. BatchTypeOK'
  BY <1>1, <1>4, <1>5, <1>6 DEF BatchTypeOK
<1>8. /\ Results' \subseteq Results \cup {f} /\ Failures' \subseteq Failures \cup {f}
      /\ own' \cap recovered' = {} /\ Results' \cap Failures' = {}
  <2>1. failure'[f] # "none" => Results' = Results
    BY <1>2, <1>3 DEF Results, Failures
  <2>2. Failures' \subseteq Failures \cup {f}
    BY <1>5 DEF Failures
  <2>3. Results' \subseteq Results \cup {f} /\ own' \cap recovered' = {}
    BY <1>2, <1>3 DEF Results, RowsInv
  <2>4. Results' \cap Failures' = {}
    <3>1. CASE failure'[f] # "none"
      BY <3>1, <2>1, <2>2, <1>2 DEF RowsInv
    <3>2. CASE failure'[f] = "none"
      <4>1. f \notin Failures' /\ Failures' \subseteq Failures
        BY <3>2, <2>2 DEF Failures
      <4>2. QED
        BY <4>1, <2>3 DEF RowsInv
    <3>3. QED
      BY <3>1, <3>2
  <2>5. QED
    BY <2>2, <2>3, <2>4
<1>9. UNCHANGED <<txn, remote, flock, pc, at, outcome>>
  BY <1>1, Untouched
<1>10. RowsInv'
  <2>1. queue' \cap (Results' \cup Failures') = {}
    BY <1>1, <1>2, <1>8 DEF RowsInv
  <2>2. \A v \in inflight' : at'[v] \in Fingerprints \ (queue' \cup Results' \cup Failures')
    BY <1>1, <1>2, <1>8, <1>9
  <2>3. \A u, v \in inflight' : at'[u] = at'[v] => u = v
    BY <1>1, <1>9 DEF RowsInv
  <2>4. QED
    BY <1>8, <2>1, <2>2, <2>3 DEF RowsInv
<1>11. PoolInv' /\ CountInv' /\ OneRowPerTask'
  BY <1>1, <1>9 DEF PoolInv, CountInv, OneRowPerTask
<1>12. FreshInv'
  <2>1. \A g : Posted(g)' = Posted(g)
    BY <1>1, Untouched
  <2>2. \A g \in Fingerprints : failure'[g] \in {"failed", "no_credits"} => Posted(g)
    BY <1>1, <1>5 DEF FreshInv
  <2>3. \A g \in Fingerprints : failure'[g] \in {"failed", "no_credits"} => Posted(g)'
    BY <2>1, <2>2
  <2>4. /\ \A v \in Workers : pc'[v] \in {"intent", "posting"} => Posted(at[v])'
        /\ \A v \in inflight' : pc'[v] = "idle" /\ outcome'[v] \in {"failed", "no_credits"} => Posted(at[v])'
    BY <1>1, <1>9 DEF FreshInv, Posted, Attempt
  <2>5. QED
    BY <1>1, <1>9, <2>3, <2>4, Untouched DEF FreshInv
<1>13. QED
  BY <1>1, <1>7, <1>10, <1>11, <1>12, Untouched

LEMMA LeaveKeeps ==
  ASSUME IInv, LeavePool
  PROVE  IInv'
<1> USE DEF IInv
<1>1. /\ phase = "dispatch" /\ phase' = "ledger" /\ inflight' = {} /\ fuse' = FALSE
      /\ \A w \in Workers : pc[w] = "idle"
      /\ failure' = [f \in Fingerprints |->
                     IF failure[f] = "none" /\ f \notin Results THEN "not_submitted" ELSE failure[f]]
      /\ UNCHANGED vars /\ UNCHANGED <<queue, own, recovered, verdict, pending, known, pay, earlier>>
  BY DEF LeavePool, ledger
<1>2. UNCHANGED <<txn, remote, flock, pc, at, outcome>>
  BY <1>1, Untouched
<1>3. BatchTypeOK'
  BY <1>1 DEF BatchTypeOK
<1>4. Results' = Results /\ Failures' = Fingerprints \ Results
  <2>1. Results' = Results
    BY <1>1 DEF Results
  <2>2. \A f \in Fingerprints : failure'[f] # "none" <=> f \notin Results
    BY <1>1 DEF RowsInv, Failures
  <2>3. QED
    BY <2>1, <2>2 DEF Failures
<1>5. RowsInv' /\ OneRowPerTask'
  <2>1. own \cap recovered = {} /\ Results \subseteq Fingerprints
    BY DEF RowsInv, BatchTypeOK, Results
  <2>2. QED
    BY <1>1, <1>4, <2>1 DEF RowsInv, OneRowPerTask
<1>6. PoolInv' /\ CountInv'
  BY <1>1, <1>2 DEF PoolInv, CountInv
<1>7. FreshInv'
  <2>1. \A f \in Fingerprints : failure'[f] \in {"failed", "no_credits"} => failure[f] \in {"failed", "no_credits"}
    BY <1>1
  <2>2. \A f \in Fingerprints : failure'[f] \in {"failed", "no_credits"} => Posted(f)'
    BY <2>1, <1>1, Untouched DEF FreshInv
  <2>3. QED
    BY <1>1, <1>2, <2>2, Untouched DEF FreshInv
<1>8. QED
  BY <1>1, <1>3, <1>5, <1>6, <1>7, Untouched

-----------------------------------------------------------------------------
(* Reading the statement and classifying keep the invariant. *)

LEMMA Counted ==
  ASSUME NEW S \in SUBSET Fingerprints
  PROVE  /\ IsFiniteSet(S) /\ Cardinality(S) \in 0 .. Cardinality(Fingerprints)
         /\ Cardinality(S) = 0 <=> S = {}
<1>1. IsFiniteSet(S) /\ Cardinality(S) <= Cardinality(Fingerprints)
  BY FS_Subset
<1>2. Cardinality(S) \in Nat /\ Cardinality(Fingerprints) \in Nat
  BY <1>1, FS_CardinalityType
<1>3. Cardinality(S) = 0 <=> S = {}
  BY <1>1, FS_EmptySet
<1>4. QED
  BY <1>1, <1>2, <1>3

LEMMA Verdicts ==
  ASSUME NEW count, NEW matched, NEW declined
  PROVE  Verdict(count, matched, declined) \in {ZERO_RETRY, CHARGED, UNRESOLVED}
  BY DEF Verdict

\* A step to the classification that leaves the rows alone.
LEMMA ClassifyKeeps ==
  ASSUME IInv, phase \in {"ledger", "reported"}, NEW count, NEW matched, Classify(count, matched),
         UNCHANGED <<vars, queue, inflight, own, recovered, failure, fuse, ledger>>,
         known' \in 0 .. Cardinality(Fingerprints), own = {} /\ recovered = {} => known' = 0
  PROVE  IInv'
<1> USE DEF IInv
<1>1. /\ phase' = "classify" /\ verdict' \in {ZERO_RETRY, CHARGED, UNRESOLVED} /\ pending' = Failures
      /\ UNCHANGED vars /\ UNCHANGED <<queue, inflight, own, recovered, failure, fuse, pay, earlier>>
  BY Verdicts DEF Classify, ledger
<1>2. \A w \in Workers : pc'[w] = "idle"
  BY <1>1, Resting, Untouched
<1>3. BatchTypeOK'
  <2>1. Failures \subseteq Fingerprints
    BY DEF Failures
  <2>2. QED
    BY <1>1, <2>1 DEF BatchTypeOK
<1>4. PoolInv'
  BY <1>1, <1>2, Resting DEF PoolInv, ZERO_RETRY, CHARGED, UNRESOLVED
<1>5. RowsInv' /\ CountInv' /\ OneRowPerTask'
  BY <1>1 DEF RowsInv, CountInv, OneRowPerTask, Results, Failures
<1>6. FreshInv'
  <2>1. \A f : Posted(f)' = Posted(f)
    BY <1>1, Untouched
  <2>2. inflight' = {}
    BY <1>1, Resting
  <2>3. QED
    BY <1>1, <1>2, <2>1, <2>2, Untouched DEF FreshInv
<1>7. QED
  BY <1>3, <1>4, <1>5, <1>6, Untouched

LEMMA ReadKeeps ==
  ASSUME IInv, ReadStatement
  PROVE  IInv'
<1> DEFINE newly   == Cardinality(own)
           maximum == newly + Cardinality(Attempted)
           matched == IF maximum = 0 THEN 0 ELSE Matched
<1>1. /\ phase = "ledger" /\ Classify(newly, matched)
      /\ known' = newly \/ known' = Cardinality(Results)
      /\ UNCHANGED <<vars, queue, inflight, own, recovered, failure, fuse, ledger>>
  BY DEF ReadStatement
<1>2. own \subseteq Fingerprints /\ recovered \subseteq Fingerprints
  BY DEF IInv, BatchTypeOK
<1>3. Results \subseteq Fingerprints /\ (own = {} /\ recovered = {} => Results = {})
  BY <1>2 DEF Results
<1>4. /\ known' \in 0 .. Cardinality(Fingerprints)
      /\ own = {} /\ recovered = {} => known' = 0
  BY <1>1, <1>2, <1>3, Counted
<1> HIDE DEF newly, matched
<1>5. QED
  BY <1>1, <1>4, ClassifyKeeps

LEMMA ReclassifyKeeps ==
  ASSUME IInv, ReclassifyReport
  PROVE  IInv'
<1>1. /\ phase = "reported" /\ Classify(known, Matched) /\ known' = known
      /\ UNCHANGED <<vars, queue, inflight, own, recovered, failure, fuse, ledger>>
  BY DEF ReclassifyReport
<1>2. /\ known' \in 0 .. Cardinality(Fingerprints)
      /\ own = {} /\ recovered = {} => known' = 0
  BY <1>1 DEF IInv, BatchTypeOK, CountInv
<1>3. QED
  BY <1>1, <1>2, ClassifyKeeps

\* The classifier writes the state of a file that no thread holds, and no more.
LEMMA VerdictWrites ==
  ASSUME IInv, NEW f \in Fingerprints, WriteVerdict(f)
  PROVE  /\ txn' \in [Fingerprints -> Files]
         /\ \A g \in Fingerprints : /\ txn'[g].attempt = txn[g].attempt /\ txn'[g].task = txn[g].task
                                    /\ txn[g].state = BOUND => txn'[g] = txn[g]
<1>1. phase = "classify" /\ (txn' = txn \/ (txn[f].state # BOUND /\ SetState(f, verdict)))
  BY DEF WriteVerdict
<1>2. verdict \in SubmitStates \cup {CHARGED, UNRESOLVED}
  <2>1. verdict \in {ZERO_RETRY, CHARGED, UNRESOLVED}
    BY <1>1 DEF IInv, BatchTypeOK, PoolInv
  <2>2. QED
    BY <2>1, States
<1>3. CASE txn' = txn
  BY <1>3 DEF IInv, ThreadType
<1>4. CASE txn[f].state # BOUND /\ SetState(f, verdict)
  <2>1. /\ txn' \in [Fingerprints -> Files]
        /\ txn'[f].attempt = txn[f].attempt /\ txn'[f].task = txn[f].task
        /\ \A g \in Fingerprints \ {f} : txn'[g] = txn[g]
    BY <1>2, <1>4, Writing DEF IInv
  <2>2. QED
    BY <1>4, <2>1
<1>5. QED
  BY <1>1, <1>3, <1>4

LEMMA WriteVerdictKeeps ==
  ASSUME IInv, NEW f \in Fingerprints, WriteVerdict(f)
  PROVE  IInv'
<1> USE DEF IInv
<1>1. /\ phase = "classify" /\ pending' = pending \ {f}
      /\ UNCHANGED <<receipts, closed, remote, flock, pc, at, outcome>>
      /\ UNCHANGED <<phase, queue, inflight, own, recovered, failure, fuse, verdict, known, pay, earlier>>
  BY DEF WriteVerdict, ledger, local
<1>2. inflight' = {} /\ \A w \in Workers : pc'[w] = "idle"
  BY <1>1, Resting
<1>3. /\ txn' \in [Fingerprints -> Files]
      /\ \A g \in Fingerprints : txn'[g].attempt = txn[g].attempt /\ txn'[g].task = txn[g].task
  BY VerdictWrites
<1>4. BatchTypeOK'
  BY <1>1 DEF BatchTypeOK
<1>5. ThreadType'
  BY <1>1, <1>3 DEF ThreadType
<1>6. HoldInv'
  BY <1>2 DEF HoldInv
<1>7. PoolInv' /\ RowsInv' /\ CountInv' /\ OneRowPerTask'
  BY <1>1, <1>2 DEF PoolInv, RowsInv, CountInv, OneRowPerTask, Results, Failures
<1>8. FreshInv'
  <2>1. \A t \in TaskIds : t[1] \in Fingerprints /\ txn'[t[1]].attempt = txn[t[1]].attempt
    BY <1>3, AttemptNumbers
  <2>2. earlier \subseteq TaskIds
    BY DEF BatchTypeOK
  <2>3. /\ \A t \in TaskIds : t[2] > txn'[t[1]].attempt => remote'[t] = "none"
        /\ \A t \in earlier' : t[2] <= txn'[t[1]].attempt
    BY <1>1, <2>1, <2>2 DEF FreshInv
  <2>4. \A g \in Fingerprints : txn'[g].task # None => txn'[g].task[1] = g
    BY <1>3 DEF FreshInv
  <2>5. \A g \in Fingerprints : failure'[g] \in {"failed", "no_credits"} => Posted(g)'
    <3>1. SUFFICES ASSUME NEW g \in Fingerprints, failure[g] \in {"failed", "no_credits"} PROVE Posted(g)'
      BY <1>1
    <3>2. Posted(g)
      BY <3>1 DEF FreshInv
    <3>3. txn'[g].attempt = txn[g].attempt /\ txn'[g].task = txn[g].task
      BY <1>3
    <3>4. QED
      BY <3>2, <3>3, <1>1, PostedKept
  <2>6. QED
    BY <1>2, <2>3, <2>4, <2>5 DEF FreshInv
<1>9. QED
  BY <1>4, <1>5, <1>6, <1>7, <1>8

LEMMA WriteReportKeeps ==
  ASSUME IInv, WriteReport
  PROVE  IInv'
<1> USE DEF IInv
<1>1. /\ phase = "classify" /\ phase' = "reported" /\ verdict' = "none" /\ UNCHANGED vars
      /\ UNCHANGED <<queue, inflight, own, recovered, failure, fuse, pending, known, pay, earlier>>
  BY DEF WriteReport, ledger
<1>2. inflight' = {} /\ \A w \in Workers : pc'[w] = "idle"
  BY <1>1, Resting, Untouched
<1>3. BatchTypeOK'
  BY <1>1 DEF BatchTypeOK
<1>4. PoolInv' /\ RowsInv' /\ CountInv' /\ OneRowPerTask'
  BY <1>1, <1>2 DEF PoolInv, RowsInv, CountInv, OneRowPerTask, Results, Failures
<1>5. FreshInv'
  <2>1. \A f \in Fingerprints : failure'[f] \in {"failed", "no_credits"} => Posted(f)'
    BY <1>1, Untouched DEF FreshInv
  <2>2. /\ \A t \in TaskIds : t[2] > txn'[t[1]].attempt => remote'[t] = "none"
        /\ \A t \in earlier' : t[2] <= txn'[t[1]].attempt
        /\ \A f \in Fingerprints : txn'[f].task # None => txn'[f].task[1] = f
    BY <1>1, Untouched DEF FreshInv
  <2>3. /\ \A w \in Workers : pc'[w] \in {"intent", "posting"} => Posted(at[w])'
        /\ \A w \in inflight' : pc'[w] = "idle" /\ outcome'[w] \in {"failed", "no_credits"} => Posted(at[w])'
    BY <1>2
  <2>4. QED
    BY <2>1, <2>2, <2>3 DEF FreshInv
<1>6. QED
  BY <1>1, <1>3, <1>4, <1>5, Untouched

-----------------------------------------------------------------------------
(* The death of the run, the statement and the provider keep the invariant. *)

LEMMA KillKeeps ==
  ASSUME IInv, KillRun
  PROVE  IInv'
<1> USE DEF IInv
<1>1. /\ phase' = "off" /\ queue' = {} /\ inflight' = {} /\ own' = {} /\ recovered' = {} /\ pending' = {}
      /\ failure' = [f \in Fingerprints |-> "none"] /\ fuse' = FALSE /\ verdict' = "none" /\ known' = 0
      /\ pc' = [w \in Workers |-> "idle"] /\ outcome' = [w \in Workers |-> "none"]
      /\ flock' = [f \in Fingerprints |-> None]
      /\ UNCHANGED <<txn, remote, at, pay, earlier>>
  BY DEF KillRun, store, ledger
<1>2. \A w \in Workers : pc'[w] = "idle"
  BY <1>1
<1>3. ThreadType'
  BY <1>1 DEF ThreadType, Places, Outcomes
<1>4. BatchTypeOK'
  <2>1. 0 \in 0 .. Cardinality(Fingerprints)
    BY FS_CardinalityType
  <2>2. QED
    BY <1>1, <2>1 DEF BatchTypeOK
<1>5. PoolInv' /\ HoldInv' /\ RowsInv' /\ CountInv' /\ OneRowPerTask'
  BY <1>1, <1>2 DEF PoolInv, HoldInv, RowsInv, CountInv, OneRowPerTask, Results, Failures
<1>6. FreshInv'
  BY <1>1, <1>2 DEF FreshInv
<1>7. QED
  BY <1>3, <1>4, <1>5, <1>6

LEMMA PayKeeps ==
  ASSUME IInv, NEW t \in TaskIds, PayRow(t)
  PROVE  IInv'
<1> USE DEF IInv
<1>1. /\ pay' = pay \cup {t} /\ UNCHANGED vars
      /\ UNCHANGED <<phase, queue, inflight, own, recovered, failure, fuse, verdict, pending, known, earlier>>
  BY DEF PayRow, batch
<1>2. UNCHANGED <<txn, remote, flock, pc, at, outcome>>
  BY <1>1, Untouched
<1>3. BatchTypeOK'
  BY <1>1 DEF BatchTypeOK
<1>4. PoolInv' /\ RowsInv' /\ CountInv' /\ OneRowPerTask'
  BY <1>1, <1>2 DEF PoolInv, RowsInv, CountInv, OneRowPerTask, Results, Failures
<1>5. FreshInv'
  <2>1. \A f : Posted(f)' = Posted(f)
    BY <1>1, Untouched
  <2>2. /\ \A f \in Fingerprints : failure'[f] \in {"failed", "no_credits"} => Posted(f)'
        /\ \A u \in earlier' : u[2] <= txn'[u[1]].attempt
    BY <1>1, <1>2, <2>1 DEF FreshInv
  <2>3. /\ \A w \in Workers : pc'[w] \in {"intent", "posting"} => Posted(at[w])'
        /\ \A w \in inflight' : pc'[w] = "idle" /\ outcome'[w] \in {"failed", "no_credits"} => Posted(at[w])'
    BY <1>1, <1>2 DEF FreshInv, Posted, Attempt
  <2>4. /\ \A u \in TaskIds : u[2] > txn'[u[1]].attempt => remote'[u] = "none"
        /\ \A f \in Fingerprints : txn'[f].task # None => txn'[f].task[1] = f
    BY <1>1, Untouched
  <2>5. QED
    BY <2>2, <2>3, <2>4 DEF FreshInv
<1>6. QED
  BY <1>1, <1>3, <1>4, <1>5, Untouched

LEMMA ProviderKeeps ==
  ASSUME IInv, NEW t \in TaskIds, Provider(t), UNCHANGED <<batch, ledger>>
  PROVE  IInv'
<1> USE DEF IInv
<1>1. \E s \in RemoteStates : remote[t] # "none" /\ remote' = [remote EXCEPT ![t] = s]
  BY DEF Provider, Advance, RemoteStates
<1>2. /\ UNCHANGED <<txn, flock, pc, at, outcome>>
      /\ UNCHANGED <<phase, queue, inflight, own, recovered, failure, fuse, verdict, pending, known, pay, earlier>>
  BY DEF Provider, Advance, store, local, batch, ledger
<1>3. ThreadType'
  <2>1. remote' \in [TaskIds -> RemoteStates]
    BY <1>1 DEF ThreadType
  <2>2. QED
    BY <1>2, <2>1 DEF ThreadType
<1>4. BatchTypeOK'
  BY <1>2 DEF BatchTypeOK
<1>5. PoolInv' /\ RowsInv' /\ CountInv' /\ OneRowPerTask'
  BY <1>2 DEF PoolInv, RowsInv, CountInv, OneRowPerTask, Results, Failures
<1>6. HoldInv'
  BY <1>2 DEF HoldInv, MayPost, Attempt
<1>7. FreshInv'
  <2>1. \A u \in TaskIds : u[2] > txn'[u[1]].attempt => remote'[u] = "none"
    BY <1>1, <1>2 DEF FreshInv, ThreadType
  <2>2. QED
    BY <1>2, <2>1 DEF FreshInv, Posted, Attempt
<1>8. QED
  BY <1>3, <1>4, <1>5, <1>6, <1>7

-----------------------------------------------------------------------------
(* The invariant. *)

LEMMA InvInit ==
  ASSUME BatchInit
  PROVE  IInv
<1>1. /\ txn = [f \in Fingerprints |-> [state |-> ABSENT, attempt |-> 0, task |-> None, response |-> FALSE]]
      /\ remote = [t \in TaskIds |-> "none"] /\ flock = [f \in Fingerprints |-> None]
      /\ pc = [w \in Workers |-> "idle"] /\ at = [w \in Workers |-> None]
      /\ outcome = [w \in Workers |-> "none"]
  BY DEF BatchInit, Init
<1>2. /\ phase = "off" /\ queue = {} /\ inflight = {} /\ own = {} /\ recovered = {} /\ pending = {}
      /\ failure = [f \in Fingerprints |-> "none"] /\ fuse = FALSE /\ verdict = "none" /\ known = 0
      /\ pay = {} /\ earlier = {}
  BY DEF BatchInit
<1>3. [state |-> ABSENT, attempt |-> 0, task |-> None, response |-> FALSE] \in Files
  BY DEF Files, SubmitStates
<1>4. ThreadType
  BY <1>1, <1>3 DEF ThreadType, RemoteStates, Places, Outcomes
<1>5. BatchTypeOK
  <2>1. 0 \in 0 .. Cardinality(Fingerprints)
    BY FS_CardinalityType
  <2>2. QED
    BY <1>2, <2>1 DEF BatchTypeOK
<1>6. PoolInv /\ HoldInv /\ RowsInv /\ CountInv /\ OneRowPerTask
  BY <1>1, <1>2 DEF PoolInv, HoldInv, RowsInv, CountInv, OneRowPerTask, Results, Failures
<1>7. FreshInv
  BY <1>1, <1>2 DEF FreshInv
<1>8. QED
  BY <1>4, <1>5, <1>6, <1>7 DEF IInv

LEMMA InvStep ==
  ASSUME IInv, [BatchNext]_allvars
  PROVE  IInv'
<1>1. CASE StartRun \/ LeavePool
  BY <1>1, StartKeeps, LeaveKeeps
<1>2. CASE \E w \in Workers : Dispatch(w) \/ CollectRow(w) \/ CollectFailure(w) \/ CollectNoCredits(w)
  BY <1>2, DispatchKeeps, CollectKeeps
<1>3. CASE ReadStatement \/ WriteReport \/ ReclassifyReport
  BY <1>3, ReadKeeps, WriteReportKeeps, ReclassifyKeeps
<1>4. CASE \E f \in Fingerprints : WriteVerdict(f)
  BY <1>4, WriteVerdictKeeps
<1>5. CASE KillRun
  BY <1>5, KillKeeps
<1>6. CASE \E w \in Workers : Thread(w)
  BY <1>6, ThreadKeeps
<1>7. CASE \E t \in TaskIds : PayRow(t) \/ (Provider(t) /\ UNCHANGED <<batch, ledger>>)
  BY <1>7, PayKeeps, ProviderKeeps
<1>8. CASE UNCHANGED allvars
  <2>1. /\ UNCHANGED <<txn, receipts, closed, remote, flock, pc, at, outcome>>
        /\ UNCHANGED <<phase, queue, inflight, own, recovered, failure, fuse, verdict, pending, known, pay, earlier>>
    BY <1>8 DEF allvars, vars, store, local, batch, ledger
  <2>2. BatchTypeOK' /\ ThreadType' /\ PoolInv' /\ HoldInv'
    BY <2>1 DEF IInv, BatchTypeOK, ThreadType, PoolInv, HoldInv, MayPost, Attempt
  <2>3. RowsInv' /\ CountInv' /\ OneRowPerTask'
    BY <2>1 DEF IInv, RowsInv, CountInv, OneRowPerTask, Results, Failures
  <2>4. FreshInv'
    BY <2>1 DEF IInv, FreshInv, Posted, Attempt
  <2>5. QED
    BY <2>2, <2>3, <2>4 DEF IInv
<1>9. QED
  BY <1>1, <1>2, <1>3, <1>4, <1>5, <1>6, <1>7, <1>8 DEF BatchNext, Main

\* The invariant of a batch run, whatever the threads, the fuse, the deaths of the
\* run and the statement do.
THEOREM BatchInvariant == BatchSpec => []IInv
<1>1. BatchInit => IInv
  BY InvInit
<1>2. IInv /\ [BatchNext]_allvars => IInv'
  BY InvStep
<1>3. QED
  BY <1>1, <1>2, PTL DEF BatchSpec

\* Every variable of a batch run keeps its type.
THEOREM BatchTypeCorrect == BatchSpec => []BatchTypeOK
<1>1. IInv => BatchTypeOK
  BY DEF IInv
<1>2. QED
  BY <1>1, BatchInvariant, PTL

\* From the settling on, the rows of a run account for every task exactly once.
THEOREM EveryTaskHasOneRow == BatchSpec => []OneRowPerTask
<1>1. IInv => OneRowPerTask
  BY DEF IInv
<1>2. QED
  BY <1>1, BatchInvariant, PTL

-----------------------------------------------------------------------------
(* Bound transactions. *)

LEMMA BoundKept ==
  ASSUME IInv, BatchNext, NEW f \in Fingerprints, txn[f].state = BOUND
  PROVE  txn'[f] = txn[f]
<1>1. CASE \E w \in Workers : Thread(w)
  <2>1. PICK w \in Workers : Enter(w) \/ Step(w)
    BY <1>1 DEF Thread
  <2>2. ThreadWrites(w) /\ at[w] \in Fingerprints /\ \A g \in Fingerprints \ {at[w]} : txn'[g] = txn[g]
    BY <2>1, ThreadEffect, ThreadStays DEF IInv
  <2>3. QED
    BY <2>2 DEF ThreadWrites
<1>2. CASE \E g \in Fingerprints : WriteVerdict(g)
  BY <1>2, VerdictWrites
<1>3. CASE \E w \in Workers : Dispatch(w) \/ CollectRow(w) \/ CollectFailure(w) \/ CollectNoCredits(w)
  BY <1>3 DEF Dispatch, Call, CollectRow, CollectFailure, CollectNoCredits, Done, vars, store
<1>4. CASE StartRun \/ LeavePool \/ ReadStatement \/ WriteReport \/ ReclassifyReport \/ KillRun
  BY <1>4 DEF StartRun, LeavePool, ReadStatement, WriteReport, ReclassifyReport, KillRun, vars, store
<1>5. CASE \E t \in TaskIds : PayRow(t) \/ Provider(t)
  BY <1>5 DEF PayRow, Provider, Advance, vars, store
<1>6. QED
  BY <1>1, <1>2, <1>3, <1>4, <1>5 DEF BatchNext, Main

\* A bound transaction is final: neither a thread nor the classifier, which writes
\* without the flock, nor the death of the run rewrites it.
THEOREM BatchKeepsBound == BatchSpec => BoundIsFinal
<1>1. IInv /\ [BatchNext]_allvars => [\A f \in Fingerprints : txn[f].state = BOUND => txn'[f] = txn[f]]_vars
  BY BoundKept DEF allvars
<1>2. QED
  BY <1>1, BatchInvariant, PTL DEF BatchSpec, BoundIsFinal

-----------------------------------------------------------------------------
(* A run without a task id of its own gives back no charged POST. *)

Unclaimed == (pay \ earlier) \ Bound(Fingerprints)

\* A failed POST that is charged is on a complete statement, inside the window, and
\* no transaction claims it.
LEMMA ChargedIsUnclaimed ==
  ASSUME IInv, StatementComplete, NEW f \in Failures, failure[f] \in {"failed", "no_credits"},
         remote[Attempt(f)] \in MayCharge
  PROVE  Attempt(f) \in Unclaimed
<1>1. f \in Fingerprints /\ Attempt(f) \in TaskIds \ earlier /\ txn[f].task = None
  BY DEF Failures, IInv, FreshInv, Posted
<1>2. Attempt(f) \in pay
  BY <1>1 DEF StatementComplete, MayCharge, Created
<1>3. ASSUME NEW g \in Fingerprints, txn[g].task = Attempt(f) PROVE FALSE
  <2>1. txn[g].task # None
    BY <1>1, <1>3
  <2>2. Attempt(f)[1] = g
    BY <1>3, <2>1 DEF IInv, FreshInv
  <2>3. QED
    BY <1>1, <2>1, <2>2 DEF Attempt
<1>4. QED
  BY <1>1, <1>2, <1>3 DEF Unclaimed, Bound

LEMMA UnclaimedIsCounted ==
  ASSUME IInv
  PROVE  Cardinality(Unclaimed) = 0 <=> Unclaimed = {}
<1>1. IsFiniteSet(1 .. MaxAttempts)
  BY FS_Interval DEF ConstantsAssumption
<1>2. IsFiniteSet(TaskIds)
  BY <1>1, FS_Product DEF TaskIds
<1>3. Unclaimed \subseteq TaskIds
  BY DEF Unclaimed, IInv, BatchTypeOK
<1>4. IsFiniteSet(Unclaimed)
  BY <1>2, <1>3, FS_Subset
<1>5. QED
  BY <1>4, FS_EmptySet

\* Zero retryable is a count that adds up.
LEMMA ZeroAddsUp ==
  ASSUME NEW count, NEW matched, NEW declined, Verdict(count, matched, declined) = ZERO_RETRY
  PROVE  matched = count
  BY DEF Verdict, ZERO_RETRY, CHARGED, UNRESOLVED

\* What a run that bound nothing counts when it gives its failures back.
LEMMA NothingCounted ==
  ASSUME IInv, BatchNext, GivesBack, own = {}, phase = "ledger" \/ recovered = {}
  PROVE  Attempted = {} \/ Unclaimed = {}
<1>1. Cardinality(own) = 0
  BY FS_EmptySet
<1>2. Matched = Cardinality(Unclaimed)
  BY DEF Matched, Unclaimed
<1>3. phase # "classify" /\ phase' = "classify" /\ verdict' = ZERO_RETRY
  BY DEF GivesBack
<1>4. CASE ReadStatement
  <2> DEFINE maximum == Cardinality(own) + Cardinality(Attempted)
  <2>1. Classify(Cardinality(own), IF maximum = 0 THEN 0 ELSE Matched)
    BY <1>4 DEF ReadStatement
  <2>2. (IF maximum = 0 THEN 0 ELSE Matched) = Cardinality(own)
    BY <2>1, <1>3, ZeroAddsUp DEF Classify
  <2>3. Attempted \subseteq Fingerprints
    BY DEF Attempted, Failures
  <2>4. CASE maximum = 0
    <3>1. Cardinality(Attempted) = 0
      BY <2>4, <1>1, <2>3, Counted
    <3>2. QED
      BY <3>1, <2>3, Counted
  <2>5. CASE maximum # 0
    <3>1. Cardinality(Unclaimed) = 0
      BY <2>2, <2>5, <1>1, <1>2
    <3>2. QED
      BY <3>1, UnclaimedIsCounted
  <2>6. QED
    BY <2>4, <2>5
<1>5. CASE ReclassifyReport
  <2>1. Classify(known, Matched) /\ phase = "reported"
    BY <1>5 DEF ReclassifyReport
  <2>2. Matched = known
    BY <2>1, <1>3, ZeroAddsUp DEF Classify
  <2>3. known = 0
    BY <2>1 DEF IInv, CountInv
  <2>4. QED
    BY <2>2, <2>3, <1>2, UnclaimedIsCounted
<1>6. CASE ~ReadStatement /\ ~ReclassifyReport
  BY <1>3, <1>6 DEF BatchNext, Main, StartRun, Dispatch, CollectRow, CollectFailure, CollectNoCredits, Done,
     LeavePool, WriteReport, WriteVerdict, KillRun, Thread, PayRow, batch
<1>7. QED
  BY <1>4, <1>5, <1>6

\* A run that bound nothing, reading a complete statement, gives a POST back for a
\* retry only if it was not charged.
THEOREM UnboundRunSettlesTruly == BatchSpec => UnboundRunHidesNoCharge
<1>1. ASSUME IInv, BatchNext, GivesBack, own = {}, phase = "ledger" \/ recovered = {}
      PROVE  NothingPostedIsCharged
  <2>1. SUFFICES ASSUME NEW f \in Failures, failure[f] \in {"failed", "no_credits"},
                        remote[Attempt(f)] \in MayCharge
                 PROVE  FALSE
    BY DEF NothingPostedIsCharged
  <2>2. Attempt(f) \in Unclaimed
    BY <1>1, <2>1, ChargedIsUnclaimed DEF GivesBack
  <2>3. f \in Attempted
    BY <2>1 DEF Attempted
  <2>4. QED
    BY <1>1, <2>2, <2>3, NothingCounted
<1>2. IInv /\ [BatchNext]_allvars =>
        [GivesBack /\ own = {} /\ (phase = "ledger" \/ recovered = {}) => NothingPostedIsCharged]_allvars
  BY <1>1
<1>3. QED
  BY <1>2, BatchInvariant, PTL DEF BatchSpec, UnboundRunHidesNoCharge
================================================================================
