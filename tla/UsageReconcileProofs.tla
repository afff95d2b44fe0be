------------------------- MODULE UsageReconcileProofs -------------------------
(***************************************************************************)
(* Theorems of UsageReconcile, for any set of fingerprints, episodes,      *)
(* submitters and reconcilers and any bound on the attempts.               *)
(***************************************************************************)
EXTENDS UsageReconcile, VideoSubmitProofs, FiniteSetTheorems

\* The attempt a thread has recorded the intent of and not yet the answer.
Requests(w, t) == pc[w] \in {"intent", "posting"} /\ Attempt(at[w]) = t

\* An attempt that is a lost response now, and one that was sent and whose thread has
\* recorded the answer or died: nobody will record an answer to it any more.
Current(t) == Lost(t[1]) /\ Attempt(t[1]) = t
Ended(t)   == remote[t] # "none" /\ \A w \in Workers : ~Requests(w, t)

\* What the state of a file says.
StateInv == \A f \in Fingerprints :
    /\ txn[f].task # None <=> txn[f].state = BOUND
    /\ f \in Hopsapi => txn[f].state \notin {NO_TASK_ID, INSUFFICIENT}
    /\ txn[f].state # ABSENT => Attempt(f) \in TaskIds
    /\ Attempt(f) \notin before[f]

\* What is lost or billed, and what a reconciliation has listed, has ended.
EndedInv ==
    /\ \A t \in TaskIds : Current(t) \/ remote[t] = "finished" => Ended(t)
    /\ \A r \in Reconcilers : \A t \in job[r].entries \cup job[r].lostThen : Ended(t)

\* A file that is bound to the take of another has no charge of its own.
BindInv == \A f \in Fingerprints : txn[f].state = BOUND =>
    /\ Ended(txn[f].task) /\ ~Current(txn[f].task)
    /\ txn[f].task = Attempt(f) \/ remote[Attempt(f)] \notin MayCharge

\* The entries a job may adopt a take for, or would have listed.
Seen(r) == job[r].lostThen \cup job[r].rows \cup UNION {job[q].entries : q \in Reconcilers}

\* A response lost for longer than the lookback, whose take the rows do not hold.
Beyond(e, rows) == LongLost /\ e \notin rows

\* Between its steps a job relies on what cannot change: an entry has come to its end at
\* the provider, its own take is among the rows as long as it is lost, and a decision
\* to adopt was taken when nothing else was lost, or nothing else the rows are takes of.
JobInv(r) ==
    /\ \A e \in job[r].entries : remote[e] \in Ends
    /\ job[r].step \in {"rows", "unattributed", "decided"} =>
         /\ job[r].rows \subseteq Billed
         /\ \A e \in job[r].entries : Current(e) /\ remote[e] = "finished" => e \in job[r].rows
    /\ job[r].step = "decided" =>
         /\ job[r].decision \in {ZERO_REMOTE, BOUND, MANUAL}
         /\ job[r].decision = ZERO_REMOTE => job[r].rows = {}
         /\ job[r].decision = BOUND =>
              /\ \E e, t \in TaskIds : job[r].entries = {e} /\ job[r].rows = {t}
              /\ \A e \in Seen(r) : Current(e) => e \in job[r].entries \/ Beyond(e, job[r].rows)

HandInv == hand # None => OperatorAdopts /\ hand \in Billed

RInv ==
    /\ Base /\ ReconcileTypeOK /\ StateInv /\ EndedInv /\ BindInv
    /\ (\A r \in Reconcilers : JobInv(r)) /\ HandInv

USE ConstantsAssumption, FiniteStore

-----------------------------------------------------------------------------
(* What a submitter does to the files and to the provider. *)

Quiet(w) == txn' = txn /\ remote' = remote /\ ~(pc'[w] \in {"intent", "posting"})

Posts(w) ==
    /\ pc[w] = "intent" /\ pc'[w] = "posting" /\ at' = at /\ txn' = txn
    /\ Attempt(at[w]) \in TaskIds /\ remote[Attempt(at[w])] = "none"
    /\ remote' = [remote EXCEPT ![Attempt(at[w])] = "sent"]

Opens(w) ==
    /\ pc[w] = "ready" /\ pc'[w] = "intent" /\ at' = at /\ remote' = remote
    /\ at[w] \in Fingerprints /\ MayPost(at[w])
    /\ txn'[at[w]].state = INTENT /\ txn'[at[w]].task = None
    /\ txn'[at[w]].attempt = txn[at[w]].attempt + 1 /\ txn'[at[w]].attempt \in 1 .. MaxAttempts
    /\ \A g \in Fingerprints \ {at[w]} : txn'[g] = txn[g]

Answers(w) ==
    /\ pc[w] \in {"intent", "posting"} /\ ~(pc'[w] \in {"intent", "posting"}) /\ at' = at /\ remote' = remote
    /\ at[w] \in Fingerprints /\ txn[at[w]].state = INTENT /\ Attempt(at[w]) \in TaskIds
    /\ txn'[at[w]].attempt = txn[at[w]].attempt
    /\ \A g \in Fingerprints \ {at[w]} : txn'[g] = txn[g]
    /\ \/ /\ pc[w] = "posting" /\ remote[Attempt(at[w])] \in Created
          /\ txn'[at[w]].state = BOUND /\ txn'[at[w]].task = Attempt(at[w])
       \/ /\ txn'[at[w]].state \in {LOST, NO_TASK_ID, INSUFFICIENT, ZERO_RETRY}
          /\ txn'[at[w]].task = txn[at[w]].task
          /\ at[w] \in Hopsapi => /\ txn'[at[w]].state \in {LOST, ZERO_RETRY}
                                  /\ txn'[at[w]].state = LOST => pc[w] = "posting"

LEMMA CallEffect ==
  ASSUME Base, NEW w \in Workers, Worker(w)
  PROVE  /\ \A v \in Workers \ {w} : pc'[v] = pc[v] /\ at'[v] = at[v]
         /\ Quiet(w) \/ Posts(w) \/ Opens(w) \/ Answers(w)
<1>t. Shape /\ AtPlace(w)
  BY DEF Base, PlaceInv
<1>1. \A v \in Workers \ {w} : pc'[v] = pc[v] /\ at'[v] = at[v]
  BY <1>t DEF Shape, Worker, Call, Enter, EnterBound, EnterBlocked, EnterMayPost, Crash, Step,
     ReturnLiveElsewhere, NoLiveElsewhere, RefuseBeforeIntent, PassGates, RecordIntent, NotSent, Post,
     RecordBound, RecordNotCharged, RecordNoTaskId, RecordLost, WriteReceipt, Return, Goto
<1>2. CASE (\E f \in Fingerprints : Call(w, f)) \/ Enter(w) \/ Crash(w)
  BY <1>2, <1>t DEF Shape, Call, Enter, EnterBound, EnterBlocked, EnterMayPost, Crash, Return, store, Quiet
<1>3. CASE ReturnLiveElsewhere(w) \/ NoLiveElsewhere(w) \/ RefuseBeforeIntent(w) \/ PassGates(w)
           \/ WriteReceipt(w)
  BY <1>3, <1>t DEF Shape, ReturnLiveElsewhere, NoLiveElsewhere, RefuseBeforeIntent, PassGates,
     WriteReceipt, Return, Goto, store, Quiet
<1>4. CASE RecordIntent(w)
  <2>1. pc[w] = "ready" /\ at[w] \in Fingerprints /\ txn[at[w]].attempt \in 0 .. MaxAttempts
    BY <1>4, <1>t DEF RecordIntent, Shape, Files
  <2>2. MayPost(at[w]) /\ txn[at[w]].attempt < MaxAttempts
    BY <2>1, <1>t DEF AtPlace
  <2>3. pc'[w] = "intent" /\ at' = at /\ remote' = remote
    BY <1>4, <1>t DEF RecordIntent, Goto, Shape
  <2>4. /\ txn'[at[w]].state = INTENT /\ txn'[at[w]].task = None
        /\ txn'[at[w]].attempt = txn[at[w]].attempt + 1
        /\ \A g \in Fingerprints \ {at[w]} : txn'[g] = txn[g]
    BY <1>4, <2>1, <1>t DEF RecordIntent, Shape
  <2>5. txn[at[w]].attempt + 1 \in 1 .. MaxAttempts
    BY <2>1, <2>2
  <2>6. QED
    BY <1>1, <2>1, <2>2, <2>3, <2>4, <2>5 DEF Opens
<1>5. CASE Post(w)
  BY <1>5, <1>t DEF Post, Goto, store, Shape, AtPlace, Posts
<1>6. CASE RecordBound(w)
  <2>1. /\ pc[w] = "posting" /\ at[w] \in Fingerprints /\ txn[at[w]] \in Files
        /\ txn[at[w]].state = INTENT /\ Attempt(at[w]) \in TaskIds
        /\ remote[Attempt(at[w])] \in Created
    BY <1>6, <1>t DEF RecordBound, Shape, AtPlace
  <2>2. pc'[w] = "bound" /\ at' = at /\ remote' = remote
    BY <1>6, <1>t DEF RecordBound, Goto, Shape
  <2>3. /\ txn'[at[w]].state = BOUND /\ txn'[at[w]].task = Attempt(at[w])
        /\ txn'[at[w]].attempt = txn[at[w]].attempt
        /\ \A g \in Fingerprints \ {at[w]} : txn'[g] = txn[g]
    BY <1>6, <2>1, <1>t DEF RecordBound, Shape, Files
  <2>4. QED
    BY <1>1, <2>1, <2>2, <2>3 DEF Answers
<1>7. CASE NotSent(w) \/ RecordNotCharged(w) \/ RecordNoTaskId(w) \/ RecordLost(w)
  <2>1. /\ pc[w] \in {"intent", "posting"} /\ at[w] \in Fingerprints /\ txn[at[w]] \in Files
        /\ txn[at[w]].state = INTENT /\ Attempt(at[w]) \in TaskIds
    BY <1>7, <1>t DEF NotSent, RecordNotCharged, RecordNoTaskId, RecordLost, Shape, AtPlace
  <2>2. pc'[w] = "idle" /\ at' = at /\ remote' = remote
    BY <1>7, <1>t DEF NotSent, RecordNotCharged, RecordNoTaskId, RecordLost, Return, Shape
  <2>3. PICK s \in {LOST, NO_TASK_ID, INSUFFICIENT, ZERO_RETRY} :
          /\ SetState(at[w], s) \/ SetAnswer(at[w], s)
          /\ at[w] \in Hopsapi => s \in {LOST, ZERO_RETRY} /\ (s = LOST => pc[w] = "posting")
    BY <1>7 DEF NotSent, RecordNotCharged, RecordNoTaskId, RecordLost, LOST, ZERO_RETRY
  <2>4. /\ txn'[at[w]].state = s /\ txn'[at[w]].task = txn[at[w]].task
        /\ txn'[at[w]].attempt = txn[at[w]].attempt
        /\ \A g \in Fingerprints \ {at[w]} : txn'[g] = txn[g]
    BY <2>1, <2>3, <1>t DEF SetState, SetAnswer, Shape, Files
  <2>5. QED
    BY <1>1, <2>1, <2>2, <2>3, <2>4 DEF Answers
<1>8. QED
  BY <1>1, <1>2, <1>3, <1>4, <1>5, <1>6, <1>7 DEF Worker, Step

-----------------------------------------------------------------------------
(* What has ended stays as it is: nobody answers it, nothing loses it again. *)

LEMMA Types ==
  ASSUME RInv
  PROVE  /\ txn \in [Fingerprints -> Files] /\ remote \in [TaskIds -> RemoteStates]
         /\ \A t \in TaskIds : t[1] \in Fingerprints /\ t[2] \in 1 .. MaxAttempts /\ t = <<t[1], t[2]>>
         /\ \A f \in Fingerprints : txn[f].attempt \in 0 .. MaxAttempts /\ txn[f].task \in TaskIds \cup {None}
         /\ \A r \in Reconcilers : /\ job[r].entries \subseteq TaskIds /\ job[r].rows \subseteq TaskIds
                                   /\ job[r].lostThen \subseteq TaskIds
         /\ \A f \in Fingerprints : txn[f].state = BOUND => txn[f].task \in TaskIds
<1>1. txn \in [Fingerprints -> Files] /\ remote \in [TaskIds -> RemoteStates]
  BY DEF RInv, Base, Shape
<1>2. \A f \in Fingerprints : txn[f].attempt \in 0 .. MaxAttempts /\ txn[f].task \in TaskIds \cup {None}
  BY <1>1 DEF Files
<1>3. \A f \in Fingerprints : txn[f].state = BOUND => txn[f].task \in TaskIds
  BY <1>2 DEF RInv, StateInv
<1>4. \A r \in Reconcilers : /\ job[r].entries \subseteq TaskIds /\ job[r].rows \subseteq TaskIds
                             /\ job[r].lostThen \subseteq TaskIds
  BY DEF RInv, ReconcileTypeOK
<1>5. QED
  BY <1>1, <1>2, <1>3, <1>4 DEF TaskIds

\* Two threads never have requests out for one file.
LEMMA OneRequest ==
  ASSUME RInv, NEW v \in Workers, NEW w \in Workers, v # w, pc[v] \in {"intent", "posting"},
         pc[w] \in {"ready", "intent", "posting"}
  PROVE  at[v] # at[w]
  BY Exclusion DEF RInv, Base, InCall

\* A file that is neither recorded nor answered is as it was.
LEMMA CallFrame ==
  ASSUME RInv, NEW w \in Workers, Worker(w), NEW f \in Fingerprints
  PROVE  \/ txn'[f] = txn[f]
         \/ f = at[w] /\ (Opens(w) \/ Answers(w))
  BY CallEffect DEF RInv, Quiet, Posts, Opens, Answers

LEMMA NotYetSent ==
  ASSUME RInv, NEW w \in Workers, Opens(w)
  PROVE  /\ <<at[w], txn[at[w]].attempt + 1>> \in TaskIds
         /\ remote[<<at[w], txn[at[w]].attempt + 1>>] = "none"
         /\ Attempt(at[w])' = <<at[w], txn[at[w]].attempt + 1>>
<1>1. /\ at[w] \in Fingerprints /\ at' = at /\ txn'[at[w]].attempt = txn[at[w]].attempt + 1
      /\ txn[at[w]].attempt + 1 \in 1 .. MaxAttempts
  BY DEF Opens
<1>2. txn[at[w]].attempt \in 0 .. MaxAttempts
  BY <1>1, Types
<1>3. txn[at[w]].attempt + 1 > txn[at[w]].attempt
  BY <1>2
<1>4. remote[<<at[w], txn[at[w]].attempt + 1>>] = "none"
  BY <1>1, <1>3 DEF RInv, Base, AttemptInv
<1>5. QED
  BY <1>1, <1>4 DEF TaskIds, Attempt

LEMMA CallEnded ==
  ASSUME RInv, NEW w \in Workers, Worker(w), NEW t \in TaskIds, Ended(t)
  PROVE  Ended(t)' /\ (Current(t)' => Current(t))
<1>1. /\ \A v \in Workers \ {w} : pc'[v] = pc[v] /\ at'[v] = at[v]
      /\ Quiet(w) \/ Posts(w) \/ Opens(w) \/ Answers(w)
  BY CallEffect DEF RInv
<1>2. remote[t] # "none" /\ \A v \in Workers : ~Requests(v, t)
  BY DEF Ended
<1>3. remote'[t] = remote[t]
  BY <1>1, <1>2, Types DEF Quiet, Posts, Opens, Answers
<1>4. ASSUME NEW v \in Workers \ {w}, Requests(v, t)' PROVE FALSE
  <2>1. pc[v] \in {"intent", "posting"} /\ at'[v] = at[v] /\ Attempt(at[v])' = t
    BY <1>1, <1>4 DEF Requests
  <2>2. at[v] \in Fingerprints
    BY <2>1 DEF RInv, Base, Shape
  <2>3. txn'[at[v]] = txn[at[v]]
    BY <2>1, <2>2, CallFrame, OneRequest DEF Opens, Answers
  <2>4. Requests(v, t)
    BY <2>1, <2>3 DEF Requests, Attempt
  <2>5. QED
    BY <1>2, <2>4
<1>5. ASSUME pc'[w] \in {"intent", "posting"}, <<at'[w], txn'[at'[w]].attempt>> = t PROVE FALSE
  <2>1. at' = at /\ at[w] \in Fingerprints
    BY <1>1, <1>5 DEF Quiet, Posts, Opens, Answers, RInv, Base, Shape
  <2>2. CASE Posts(w)
    <3>1. Requests(w, t)
      BY <1>5, <2>1, <2>2 DEF Posts, Requests, Attempt
    <3>2. QED
      BY <3>1, <1>2
  <2>3. CASE Opens(w)
    <3>1. t = <<at[w], txn[at[w]].attempt + 1>>
      BY <1>5, <2>1, <2>3 DEF Opens
    <3>2. QED
      BY <2>3, <3>1, <1>2, NotYetSent
  <2>4. QED
    BY <1>5, <2>2, <2>3, <1>1 DEF Quiet, Answers
<1>6. ASSUME Current(t)' PROVE Current(t)
  <2>1. t[1] \in Fingerprints /\ t[1] \in Hopsapi /\ txn'[t[1]].state \in {LOST, MANUAL} /\ Attempt(t[1])' = t
    BY <1>6, Types DEF Current, Lost, RECONCILABLE_STATES
  <2>2. CASE txn'[t[1]] = txn[t[1]]
    BY <1>6, <2>2 DEF Current, Lost, Attempt
  <2>3. CASE t[1] = at[w] /\ Opens(w)
    BY <2>1, <2>3 DEF Opens, INTENT, LOST, MANUAL
  <2>4. CASE t[1] = at[w] /\ Answers(w)
    <3>1. pc[w] = "posting"
      BY <2>1, <2>4 DEF Answers, BOUND, LOST, MANUAL, ZERO_RETRY
    <3>2. Attempt(at[w]) = t
      BY <2>1, <2>4 DEF Answers, Attempt
    <3>3. QED
      BY <3>1, <3>2, <1>2 DEF Requests
  <2>5. QED
    BY <2>1, <2>2, <2>3, <2>4, CallFrame
<1>7. ~Requests(w, t)'
  BY <1>5 DEF Requests, Attempt
<1>8. QED
  BY <1>2, <1>3, <1>4, <1>6, <1>7 DEF Ended

\* An answer ends the attempt it answers.
LEMMA AnswerEnds ==
  ASSUME RInv, NEW w \in Workers, Worker(w), Answers(w), pc[w] = "posting",
         NEW t \in TaskIds, t = Attempt(at[w])
  PROVE  Ended(t)'
<1>1. /\ at' = at /\ remote' = remote /\ at[w] \in Fingerprints /\ ~(pc'[w] \in {"intent", "posting"})
      /\ txn'[at[w]].attempt = txn[at[w]].attempt /\ t[1] = at[w]
  BY DEF Answers, Attempt
<1>2. remote'[t] # "none"
  BY <1>1 DEF RInv, Base, PlaceInv, AtPlace
<1>3. \A v \in Workers \ {w} : pc'[v] = pc[v]
  BY CallEffect DEF RInv
<1>4. ASSUME NEW v \in Workers \ {w}, pc'[v] \in {"intent", "posting"}, <<at[v], txn'[at[v]].attempt>> = t PROVE FALSE
  <2>1. at[v] # at[w]
    BY <1>3, <1>4, OneRequest
  <2>2. QED
    BY <1>1, <1>4, <2>1
<1>5. \A v \in Workers : ~Requests(v, t)'
  BY <1>1, <1>4 DEF Requests, Attempt
<1>6. QED
  BY <1>2, <1>5 DEF Ended

\* A lost response has ended, also the one that is recorded just now.
LEMMA CallLost ==
  ASSUME RInv, NEW w \in Workers, Worker(w), NEW t \in TaskIds, Current(t)'
  PROVE  Ended(t)'
<1>1. CASE Current(t)
  BY <1>1, CallEnded DEF RInv, EndedInv
<1>2. CASE ~Current(t)
  <2>1. /\ t[1] \in Fingerprints /\ t[1] \in Hopsapi /\ txn'[t[1]].state \in {LOST, MANUAL}
        /\ <<t[1], txn'[t[1]].attempt>> = t
    BY Types DEF Current, Lost, RECONCILABLE_STATES, Attempt
  <2>2. txn'[t[1]] # txn[t[1]]
    BY <1>2 DEF Current, Lost, Attempt
  <2>3. t[1] = at[w] /\ Answers(w)
    BY <2>1, <2>2, CallFrame DEF Opens, INTENT, LOST, MANUAL
  <2>4. pc[w] = "posting" /\ Attempt(at[w]) = t
    BY <2>1, <2>3 DEF Answers, BOUND, LOST, MANUAL, ZERO_RETRY, Attempt
  <2>5. QED
    BY <2>3, <2>4, AnswerEnds
<1>3. QED
  BY <1>1, <1>2

-----------------------------------------------------------------------------
(* A job that is not moved keeps what it relies on. *)

\* What is listed or found has ended.
LEMMA SeenEnded ==
  ASSUME RInv, NEW r \in Reconcilers, job[r].rows \subseteq Billed, NEW e \in Seen(r)
  PROVE  e \in TaskIds /\ Ended(e)
<1>1. CASE e \in job[r].lostThen
  BY <1>1, Types DEF RInv, EndedInv
<1>2. CASE e \in job[r].rows
  BY <1>2 DEF Billed, RInv, EndedInv
<1>3. ASSUME NEW q \in Reconcilers, e \in job[q].entries PROVE e \in TaskIds /\ Ended(e)
  BY <1>3, Types DEF RInv, EndedInv
<1>4. QED
  BY <1>1, <1>2, <1>3 DEF Seen

\* Nothing that had ended is lost anew or moves at the provider, and what the others
\* list newly was lost when the job began.
Settled ==
    /\ \A t \in TaskIds : Ended(t) => Ended(t)' /\ (Current(t)' => Current(t))
    /\ \A t \in TaskIds : remote[t] \in Ends => remote'[t] = remote[t]

LEMMA JobFrame ==
  ASSUME RInv, Settled, NEW r \in Reconcilers, job'[r] = job[r],
         job[r].step # "off" =>
           \A q \in Reconcilers : job'[q].entries \subseteq job[q].entries \cup job[r].lostThen
  PROVE  JobInv(r)'
<1>1. JobInv(r)
  BY DEF RInv
<1>2. \A e \in job[r].entries : e \in TaskIds /\ Ended(e)
  BY Types DEF RInv, EndedInv
<1>3. \A e \in job'[r].entries : remote'[e] \in Ends
  BY <1>1, <1>2 DEF JobInv, Settled
<1>4. CASE job[r].step \in {"rows", "unattributed", "decided"}
  <2>1. Billed \subseteq Billed'
    BY DEF Billed, Settled, Ends
  <2>2. \A e \in job'[r].entries : Current(e)' /\ remote'[e] = "finished" => e \in job'[r].rows
    BY <1>1, <1>2, <1>4 DEF JobInv, Settled
  <2>3. job'[r].rows \subseteq Billed'
    BY <1>1, <1>4, <2>1 DEF JobInv
  <2>4. CASE job[r].step = "decided" /\ job[r].decision = BOUND
    <3>1. Seen(r)' \subseteq Seen(r)
      BY <2>4 DEF Seen
    <3>2. ASSUME NEW e \in Seen(r)', Current(e)'
          PROVE  e \in job'[r].entries \/ Beyond(e, job'[r].rows)
      <4>1. e \in TaskIds /\ Ended(e)
        BY <3>1, <3>2, <1>1, <1>4, SeenEnded DEF JobInv
      <4>2. Current(e)
        BY <4>1, <3>2 DEF Settled
      <4>3. QED
        BY <4>2, <3>1, <3>2, <1>1, <2>4 DEF JobInv
    <3>3. QED
      BY <1>1, <1>3, <2>2, <2>3, <2>4, <3>2 DEF JobInv
  <2>5. QED
    BY <1>1, <1>3, <2>2, <2>3, <2>4 DEF JobInv
<1>5. QED
  BY <1>1, <1>3, <1>4 DEF JobInv

\* Nor does an operator's hand lose the take it was told of.
LEMMA HandFrame == RInv /\ Settled /\ hand' = hand => HandInv'
  BY DEF RInv, HandInv, Settled, Billed, Ends

-----------------------------------------------------------------------------
(* The steps of a submitter. *)

LEMMA CallSettled ==
  ASSUME RInv, NEW w \in Workers, Worker(w)
  PROVE  Settled
<1>1. \A t \in TaskIds : remote[t] \in Ends => remote'[t] = remote[t]
  BY CallEffect, Types DEF RInv, Quiet, Posts, Opens, Answers, Ends
<1>2. QED
  BY <1>1, CallEnded DEF Settled

LEMMA CallBase ==
  ASSUME RInv, Next
  PROVE  Base'
  BY ShapeStep, LockStep, PlaceStep, AttemptStep DEF RInv, Base

LEMMA CallState ==
  ASSUME RInv, NEW w \in Workers, Submitter(w)
  PROVE  StateInv' /\ ReconcileTypeOK'
<1>b. /\ Worker(w) /\ job' = job /\ hand' = hand
      /\ before' = [f \in Fingerprints |-> IF txn'[f].attempt # txn[f].attempt
                                             THEN {t \in TaskIds : remote[t] \in Ends} ELSE before[f]]
  BY DEF Submitter
<1>1. ASSUME NEW f \in Fingerprints
      PROVE  /\ txn'[f].state \in SubmitStates \cup {ZERO_REMOTE, MANUAL}
             /\ txn'[f].task # None <=> txn'[f].state = BOUND
             /\ f \in Hopsapi => txn'[f].state \notin {NO_TASK_ID, INSUFFICIENT}
             /\ txn'[f].state # ABSENT => <<f, txn'[f].attempt>> \in TaskIds
             /\ <<f, txn'[f].attempt>> \notin before'[f]
  <2>i. /\ txn[f].state \in SubmitStates \cup {ZERO_REMOTE, MANUAL}
        /\ txn[f].task # None <=> txn[f].state = BOUND
        /\ f \in Hopsapi => txn[f].state \notin {NO_TASK_ID, INSUFFICIENT}
        /\ txn[f].state # ABSENT => <<f, txn[f].attempt>> \in TaskIds
        /\ <<f, txn[f].attempt>> \notin before[f]
    BY DEF RInv, StateInv, ReconcileTypeOK, Attempt
  <2>1. CASE txn'[f] = txn[f]
    BY <2>1, <2>i, <1>b
  <2>2. CASE f = at[w] /\ Opens(w)
    <3>1. /\ txn'[f].state = INTENT /\ txn'[f].task = None
          /\ txn'[f].attempt = txn[f].attempt + 1
      BY <2>2 DEF Opens
    <3>2. <<f, txn'[f].attempt>> \in TaskIds /\ remote[<<f, txn'[f].attempt>>] = "none"
      BY <2>2, <3>1, NotYetSent
    <3>3. before'[f] = {t \in TaskIds : remote[t] \in Ends}
      BY <1>b, <3>1, Types
    <3>4. <<f, txn'[f].attempt>> \notin before'[f]
      BY <3>2, <3>3 DEF Ends
    <3>5. INTENT \in SubmitStates /\ INTENT \notin {BOUND, NO_TASK_ID, INSUFFICIENT, ABSENT}
      BY DEF SubmitStates, INTENT, BOUND, NO_TASK_ID, INSUFFICIENT, ABSENT
    <3>6. QED
      BY <3>1, <3>2, <3>4, <3>5
  <2>3. CASE f = at[w] /\ Answers(w)
    <3>1. /\ Attempt(f) \in TaskIds /\ txn[f].state = INTENT /\ txn'[f].attempt = txn[f].attempt
          /\ before'[f] = before[f]
      BY <2>3, <1>b DEF Answers
    <3>2. <<f, txn'[f].attempt>> \in TaskIds /\ <<f, txn'[f].attempt>> \notin before'[f]
      BY <3>1, <2>i DEF Attempt
    <3>3. INTENT # BOUND
      BY DEF INTENT, BOUND
    <3>4. CASE txn'[f].state = BOUND /\ txn'[f].task = Attempt(f)
      <4>1. txn'[f].task # None
        BY <3>1, <3>4
      <4>2. BOUND \in SubmitStates /\ BOUND \notin {NO_TASK_ID, INSUFFICIENT}
        BY DEF SubmitStates, BOUND, NO_TASK_ID, INSUFFICIENT
      <4>3. QED
        BY <3>2, <3>4, <4>1, <4>2
    <3>5. CASE /\ txn'[f].state \in {LOST, NO_TASK_ID, INSUFFICIENT, ZERO_RETRY}
               /\ txn'[f].task = txn[f].task
               /\ f \in Hopsapi => txn'[f].state \in {LOST, ZERO_RETRY}
      <4>1. txn'[f].task = None
        BY <3>1, <3>3, <3>5, <2>i
      <4>2. txn'[f].state \in SubmitStates /\ txn'[f].state # BOUND
        BY <3>5 DEF SubmitStates, BOUND, LOST, NO_TASK_ID, INSUFFICIENT, ZERO_RETRY
      <4>3. f \in Hopsapi => txn'[f].state \notin {NO_TASK_ID, INSUFFICIENT}
        BY <3>5 DEF LOST, NO_TASK_ID, INSUFFICIENT, ZERO_RETRY
      <4>4. QED
        BY <3>2, <4>1, <4>2, <4>3
    <3>6. QED
      BY <2>3, <3>4, <3>5 DEF Answers
  <2>4. QED
    BY <2>1, <2>2, <2>3, <1>b, CallFrame
<1>2. StateInv'
  BY <1>1 DEF StateInv, Attempt
<1>3. before' \in [Fingerprints -> SUBSET TaskIds]
  BY <1>b DEF RInv, ReconcileTypeOK
<1>4. QED
  BY <1>1, <1>2, <1>3, <1>b DEF ReconcileTypeOK, RInv

LEMMA CallEndedInv ==
  ASSUME RInv, NEW w \in Workers, Submitter(w)
  PROVE  EndedInv'
<1>1. ASSUME NEW t \in TaskIds, Current(t)' \/ remote'[t] = "finished" PROVE Ended(t)'
  <2>1. CASE Current(t)'
    BY <2>1, CallLost DEF Submitter
  <2>2. CASE remote'[t] = "finished"
    <3>1. remote[t] = "finished"
      BY <2>2, CallEffect, Types DEF Submitter, RInv, Quiet, Posts, Opens, Answers
    <3>2. QED
      BY <3>1, CallEnded DEF Submitter, RInv, EndedInv
  <2>3. QED
    BY <1>1, <2>1, <2>2
<1>2. ASSUME NEW r \in Reconcilers, NEW t \in job'[r].entries \cup job'[r].lostThen PROVE Ended(t)'
  <2>1. t \in TaskIds /\ Ended(t)
    BY <1>2, Types DEF Submitter, RInv, EndedInv
  <2>2. QED
    BY <2>1, CallEnded DEF Submitter
<1>3. QED
  BY <1>1, <1>2 DEF EndedInv

\* A bound file is settled, and the take it is bound to as well.
LEMMA CallBind ==
  ASSUME RInv, NEW w \in Workers, Submitter(w)
  PROVE  BindInv'
<1>w. Worker(w)
  BY DEF Submitter
<1> SUFFICES ASSUME NEW f \in Fingerprints, txn'[f].state = BOUND
             PROVE  /\ Ended(txn[f].task)' /\ ~Current(txn[f].task)'
                    /\ txn'[f].task = <<f, txn'[f].attempt>> \/ remote'[<<f, txn'[f].attempt>>] \notin MayCharge
  BY DEF BindInv, Attempt
<1>1. CASE txn'[f] = txn[f]
  <2>1. /\ Ended(txn[f].task) /\ ~Current(txn[f].task)
        /\ txn[f].task = <<f, txn[f].attempt>> \/ remote[<<f, txn[f].attempt>>] \notin MayCharge
        /\ <<f, txn[f].attempt>> \in TaskIds /\ txn[f].state = BOUND
    BY <1>1 DEF RInv, BindInv, StateInv, Attempt, BOUND, ABSENT
  <2>2. PICK t \in TaskIds : t = txn[f].task
    BY <1>1, Types
  <2>3. Ended(t)' /\ ~Current(t)'
    BY <1>w, <2>1, <2>2, CallEnded
  <2>4. Ended(txn[f].task)' /\ ~Current(txn[f].task)'
    BY <1>1, <2>2, <2>3 DEF Ended, Requests, Current, Lost
  <2>5. remote'[<<f, txn[f].attempt>>] \in MayCharge => remote[<<f, txn[f].attempt>>] \in MayCharge
    <3>1. Posts(w) => at[w] # f
      BY <2>1 DEF Posts, RInv, Base, PlaceInv, AtPlace, BOUND, INTENT
    <3>2. QED
      BY <3>1, <2>1, <1>w, CallEffect, Types DEF RInv, Quiet, Posts, Opens, Answers, Attempt
  <2>6. QED
    BY <1>1, <2>1, <2>4, <2>5
<1>2. CASE f = at[w] /\ Answers(w)
  <2>1. /\ pc[w] = "posting" /\ txn'[f].task = Attempt(f) /\ Attempt(f) \in TaskIds
        /\ txn'[f].attempt = txn[f].attempt
    BY <1>2 DEF Answers, BOUND, LOST, NO_TASK_ID, INSUFFICIENT, ZERO_RETRY
  <2>2. PICK t \in TaskIds : t = Attempt(f) /\ t[1] = f
    BY <2>1 DEF Attempt
  <2>3. Ended(t)'
    BY <1>w, <1>2, <2>1, <2>2, AnswerEnds
  <2>4. ~Current(t)'
    BY <2>2 DEF Current, Lost, RECONCILABLE_STATES, BOUND, LOST, MANUAL
  <2>5. Ended(txn[f].task)' /\ ~Current(txn[f].task)'
    BY <2>1, <2>2, <2>3, <2>4 DEF Ended, Requests, Current, Lost
  <2>6. QED
    BY <2>1, <2>5 DEF Attempt
<1>3. CASE f = at[w] /\ Opens(w)
  BY <1>3 DEF Opens, INTENT, BOUND
<1>4. QED
  BY <1>w, <1>1, <1>2, <1>3, CallFrame

LEMMA CallStep ==
  ASSUME RInv, NEW w \in Workers, Submitter(w)
  PROVE  RInv'
<1>1. Next /\ Worker(w) /\ job' = job /\ hand' = hand
  BY DEF Submitter, Next
<1>2. Settled
  BY <1>1, CallSettled
<1>3. \A r \in Reconcilers : JobInv(r)'
  BY <1>1, <1>2, JobFrame
<1>4. QED
  BY <1>1, <1>2, <1>3, CallBase, CallState, CallEndedInv, CallBind, HandFrame DEF RInv

-----------------------------------------------------------------------------
(* The steps of the provider. *)

LEMMA RemoteStep ==
  ASSUME RInv, NEW t \in TaskIds, Remote(t), UNCHANGED settling
  PROVE  RInv'
<1>1. /\ txn' = txn /\ pc' = pc /\ at' = at /\ job' = job /\ hand' = hand /\ before' = before
      /\ Provider(t)
  BY DEF Remote, Rendered, Advance, Provider, settling, store, local
<1>2. PICK s \in {"running", "refused", "dropped", "failed", "finished"} :
         /\ remote[t] \in {"sent", "running"} /\ remote' = [remote EXCEPT ![t] = s]
         /\ s = "finished" => remote[t] = "running" /\ \A w \in Workers : ~(pc[w] = "posting" /\ Attempt(at[w]) = t)
  BY DEF Remote, Rendered, Advance
<1>3. Base'
  BY <1>1, CallBase DEF Next, Environment
<1>4. \A u \in TaskIds : remote'[u] # "none" <=> remote[u] # "none"
  BY <1>2, Types
<1>5. /\ \A u \in TaskIds : Ended(u)' <=> Ended(u)
      /\ \A u \in TaskIds : Current(u)' <=> Current(u)
  BY <1>1, <1>4 DEF Ended, Requests, Current, Lost, Attempt
<1>6. Settled
  BY <1>2, <1>5, Types DEF Settled, Ends
<1>7. ReconcileTypeOK' /\ StateInv'
  BY <1>1 DEF RInv, ReconcileTypeOK, StateInv, Attempt
<1>8. EndedInv'
  <2>1. ASSUME NEW u \in TaskIds, remote'[u] = "finished" PROVE Ended(u)'
    <3>1. CASE remote[u] = "finished"
      BY <3>1, <1>5 DEF RInv, EndedInv
    <3>2. CASE u = t /\ s = "finished"
      <4>1. \A w \in Workers : pc[w] = "intent" => Attempt(at[w]) # t
        BY <3>2, <1>2 DEF RInv, Base, PlaceInv, AtPlace
      <4>2. Ended(u)
        BY <3>2, <4>1, <1>2 DEF Ended, Requests
      <4>3. QED
        BY <4>2, <1>5
    <3>3. QED
      BY <2>1, <3>1, <3>2, <1>2, Types
  <2>2. \A u \in TaskIds : Current(u)' => Ended(u)'
    BY <1>5 DEF RInv, EndedInv
  <2>3. \A r \in Reconcilers : \A u \in job'[r].entries \cup job'[r].lostThen : Ended(u)'
    BY <1>1, <1>5, Types DEF RInv, EndedInv
  <2>4. QED
    BY <2>1, <2>2, <2>3 DEF EndedInv
<1>9. BindInv'
  <2> SUFFICES ASSUME NEW f \in Fingerprints, txn'[f].state = BOUND
               PROVE  /\ Ended(txn[f].task)' /\ ~Current(txn[f].task)'
                      /\ txn'[f].task = <<f, txn'[f].attempt>> \/ remote'[<<f, txn'[f].attempt>>] \notin MayCharge
    BY DEF BindInv, Attempt
  <2>1. /\ Ended(txn[f].task) /\ ~Current(txn[f].task) /\ txn[f].task \in TaskIds
        /\ txn[f].task = <<f, txn[f].attempt>> \/ remote[<<f, txn[f].attempt>>] \notin MayCharge
        /\ <<f, txn[f].attempt>> \in TaskIds
    BY <1>1, Types DEF RInv, BindInv, StateInv, Attempt, BOUND, ABSENT
  <2>2. Ended(txn[f].task)' /\ ~Current(txn[f].task)'
    BY <1>1, <1>4, <2>1 DEF Ended, Requests, Current, Lost, Attempt
  <2>3. remote[<<f, txn[f].attempt>>] \notin MayCharge => remote'[<<f, txn[f].attempt>>] \notin MayCharge
    BY <1>2, <2>1, Types DEF MayCharge
  <2>4. QED
    BY <1>1, <2>1, <2>2, <2>3
<1>10. \A r \in Reconcilers : JobInv(r)'
  BY <1>1, <1>6, JobFrame
<1>11. QED
  BY <1>1, <1>3, <1>6, <1>7, <1>8, <1>9, <1>10, HandFrame DEF RInv

-----------------------------------------------------------------------------
(* The steps of a reconciliation that only move a job. *)

\* When nothing but the jobs moves, all the rest is kept.
LEMMA JobStep ==
  ASSUME RInv, UNCHANGED <<vars, before>>, ReconcileTypeOK', HandInv',
         \A r \in Reconcilers : JobInv(r)',
         \A r \in Reconcilers : \A u \in job'[r].entries \cup job'[r].lostThen : Ended(u)
  PROVE  RInv'
<1>1. /\ txn' = txn /\ remote' = remote /\ pc' = pc /\ at' = at /\ flock' = flock /\ outcome' = outcome
      /\ before' = before
  BY DEF vars, store, local
<1>2. Base'
  BY <1>1 DEF RInv, Base, Shape, LockInv, InCall, PlaceInv, AtPlace, AttemptInv, MayPost, Attempt
<1>3. StateInv' /\ BindInv' /\ EndedInv'
  BY <1>1 DEF RInv, StateInv, BindInv, EndedInv, Ended, Requests, Current, Lost, Attempt
<1>4. QED
  BY <1>2, <1>3 DEF RInv

LEMMA StillSettled ==
  ASSUME UNCHANGED vars
  PROVE  Settled /\ \A t \in TaskIds : Current(t)' <=> Current(t)
  BY DEF vars, store, local, Settled, Ended, Requests, Current, Lost, Attempt

Jobs == [step : {"off", "listed", "rows", "unattributed", "decided"},
         entries : SUBSET TaskIds, rows : SUBSET TaskIds,
         decision : {"none", ZERO_REMOTE, BOUND, MANUAL}, lostThen : SUBSET TaskIds]

\* One job moves: what has to be shown of it.
LEMMA MoveJob ==
  ASSUME RInv, UNCHANGED <<vars, hand, before>>, NEW r \in Reconcilers,
         NEW j \in Jobs, job' = [job EXCEPT ![r] = j],
         j.entries \subseteq job[r].entries
           \/ \A q \in Reconcilers : job[q].step # "off" => j.entries \subseteq job[q].lostThen,
         \A u \in j.entries \cup j.lostThen : Ended(u),
         JobInv(r)'
  PROVE  RInv'
<1>1. job \in [Reconcilers -> Jobs]
  BY DEF RInv, ReconcileTypeOK, Jobs
<1>2. ReconcileTypeOK'
  BY <1>1 DEF RInv, ReconcileTypeOK, Jobs, vars, store
<1>3. UNCHANGED vars /\ hand' = hand /\ before' = before
  OBVIOUS
<1>4. Settled /\ HandInv'
  BY <1>3, StillSettled, HandFrame
<1>5. ASSUME NEW q \in Reconcilers \ {r} PROVE JobInv(q)'
  <2>1. job'[q] = job[q]
    BY <1>1
  <2>2. job[q].step # "off" =>
          \A p \in Reconcilers : job'[p].entries \subseteq job[p].entries \cup job[q].lostThen
    BY <1>1
  <2>3. QED
    BY <1>4, <2>1, <2>2, JobFrame
<1>6. \A q \in Reconcilers : \A u \in job'[q].entries \cup job'[q].lostThen : Ended(u)
  BY <1>1 DEF RInv, EndedInv
<1>7. QED
  BY <1>2, <1>3, <1>4, <1>5, <1>6, JobStep

LEMMA NoJobType == NoJob \in Jobs
  BY DEF NoJob, Jobs

LEMMA NoJobRelies ==
  ASSUME NEW r \in Reconcilers, job'[r] = NoJob
  PROVE  JobInv(r)'
  BY DEF JobInv, NoJob

LEMMA AbandonStep ==
  ASSUME RInv, NEW r \in Reconcilers, Abandon(r)
  PROVE  RInv'
<1>1. job \in [Reconcilers -> Jobs] /\ UNCHANGED <<vars, hand, before>> /\ job' = [job EXCEPT ![r] = NoJob]
  BY DEF RInv, ReconcileTypeOK, Jobs, Abandon
<1>2. JobInv(r)'
  BY <1>1, NoJobRelies
<1>3. NoJob.entries = {} /\ NoJob.lostThen = {}
  BY DEF NoJob
<1>4. QED
  BY <1>1, <1>2, <1>3, NoJobType, MoveJob

\* Lost responses are attempts of their files, and have ended.
LEMMA LostHaveEnded ==
  ASSUME RInv, NEW S \in SUBSET Fingerprints, NEW t \in LostAttempts(S)
  PROVE  t \in TaskIds /\ Current(t) /\ Ended(t)
<1>1. PICK f \in S : Lost(f) /\ t = Attempt(f)
  BY DEF LostAttempts
<1>2. txn[f].state # ABSENT
  BY <1>1 DEF Lost, RECONCILABLE_STATES, LOST, MANUAL, ABSENT
<1>3. t \in TaskIds /\ t[1] = f
  BY <1>1, <1>2 DEF RInv, StateInv, Attempt
<1>4. Current(t)
  BY <1>1, <1>3 DEF Current
<1>5. QED
  BY <1>3, <1>4 DEF RInv, EndedInv

\* An entry is listed after its request has come to its end at the provider.
LEMMA ListStep ==
  ASSUME RInv, NEW r \in Reconcilers, NEW e \in Episodes, ListLost(r, e)
  PROVE  RInv'
<1> DEFINE S == {f \in Local : EpisodeOf[f] = e}
           j == [NoJob EXCEPT !.step = "listed", !.entries = LostAttempts(S),
                              !.lostThen = LostAttempts(Local)]
<1>1. /\ \A t \in LostAttempts(S) : remote[t] \notin {"sent", "running"}
      /\ \A q \in Reconcilers : job[q].step # "off" => LostAttempts(S) \subseteq job[q].lostThen
      /\ job' = [job EXCEPT ![r] = j] /\ UNCHANGED <<vars, hand, before>>
  BY DEF ListLost
<1>2. /\ \A t \in LostAttempts(S) : t \in TaskIds /\ Current(t) /\ Ended(t)
      /\ \A t \in LostAttempts(Local) : t \in TaskIds /\ Ended(t)
  BY LostHaveEnded DEF Local
<1>3. /\ j \in Jobs /\ j.entries = LostAttempts(S) /\ j.lostThen = LostAttempts(Local)
      /\ j.step = "listed"
  BY <1>2, NoJobType DEF Jobs
<1>4. \A t \in LostAttempts(S) : remote[t] \in Ends
  BY <1>1, <1>2, Types DEF Ended, RemoteStates, Ends
<1> HIDE DEF j, S
<1>5. job'[r] = j /\ remote' = remote
  BY <1>1 DEF RInv, ReconcileTypeOK, vars
<1>6. JobInv(r)'
  BY <1>3, <1>4, <1>5 DEF JobInv
<1>7. QED
  BY <1>1, <1>2, <1>3, <1>6, MoveJob

\* The rows a reconciliation reads contain the takes of its own entries, which were
\* billed after their intents.
LEMMA ReadStep ==
  ASSUME RInv, NEW r \in Reconcilers, ReadUsage(r)
  PROVE  RInv'
<1> DEFINE old == {t \in Billed : \A g \in job[r].entries : t \in before[g[1]]}
<1>1. /\ job[r] \in Jobs /\ job \in [Reconcilers -> Jobs]
  BY DEF RInv, ReconcileTypeOK, Jobs
<1>2. PICK key \in Keys, lead \in SUBSET old :
         job' = [job EXCEPT ![r].step = "rows", ![r].rows = InScope(job[r].entries, key) \ (old \ lead)]
  BY DEF ReadUsage
<1> DEFINE rows == InScope(job[r].entries, key) \ (old \ lead)
           j == [job[r] EXCEPT !.step = "rows", !.rows = rows]
<1>3. rows \subseteq Billed /\ Billed \subseteq TaskIds
  BY DEF Billed, InScope
<1>4. /\ j \in Jobs /\ j.entries = job[r].entries /\ j.lostThen = job[r].lostThen
      /\ j.step = "rows" /\ j.rows = rows
  BY <1>1, <1>3 DEF Jobs
<1>5. ASSUME NEW e \in job[r].entries, Current(e), remote[e] = "finished" PROVE e \in rows
  <2>1. e \in TaskIds /\ e[1] \in Hopsapi /\ e = Attempt(e[1]) /\ e[1] \in Fingerprints
    BY <1>5, Types DEF Current, Lost
  <2>2. e \in Billed /\ e \notin before[e[1]]
    BY <1>5, <2>1 DEF Billed, RInv, StateInv
  <2>3. e \in InScope(job[r].entries, key)
    BY <1>5, <2>2 DEF InScope
  <2>4. QED
    BY <1>5, <2>2, <2>3
<1> HIDE DEF rows, old
<1>6. job' = [job EXCEPT ![r] = j]
  BY <1>1, <1>2 DEF rows
<1> HIDE DEF j
<1>7. /\ UNCHANGED <<vars, hand, before>> /\ job'[r] = j /\ remote' = remote
      /\ Billed' = Billed /\ \A t \in TaskIds : Current(t)' <=> Current(t)
  BY <1>1, <1>6, StillSettled DEF ReadUsage, vars, Billed
<1>8. \A e \in j.entries : e \in TaskIds /\ Ended(e) /\ remote[e] \in Ends
  BY <1>4, Types DEF RInv, EndedInv, JobInv
<1>9. JobInv(r)'
  BY <1>3, <1>4, <1>5, <1>7, <1>8 DEF JobInv
<1>10. \A u \in j.entries \cup j.lostThen : Ended(u)
  BY <1>4 DEF RInv, EndedInv
<1>11. QED
  BY <1>4, <1>6, <1>7, <1>9, <1>10, MoveJob

\* The take of an entry that is still lost is bound to no transaction: it is not dropped.
LEMMA DropStep ==
  ASSUME RInv, NEW r \in Reconcilers, DropBoundRows(r)
  PROVE  RInv'
<1>1. /\ job[r] \in Jobs /\ job \in [Reconcilers -> Jobs] /\ job[r].step = "rows" /\ JobInv(r)
  BY DEF RInv, ReconcileTypeOK, Jobs, DropBoundRows
<1> DEFINE j == [job[r] EXCEPT !.step = "unattributed", !.rows = job[r].rows \ BoundTaskIds]
<1>4. /\ j \in Jobs /\ j.entries = job[r].entries /\ j.lostThen = job[r].lostThen
      /\ j.step = "unattributed" /\ j.rows = job[r].rows \ BoundTaskIds
  BY <1>1 DEF Jobs
<1>5. ASSUME NEW e \in TaskIds, Current(e) PROVE e \notin BoundTaskIds
  <2>1. ASSUME NEW f \in Fingerprints, txn[f].task = e PROVE FALSE
    BY <1>5, <2>1 DEF RInv, StateInv, BindInv
  <2>2. QED
    BY <2>1 DEF BoundTaskIds, Local
<1>6. job' = [job EXCEPT ![r] = j]
  BY <1>1 DEF DropBoundRows
<1> HIDE DEF j
<1>7. /\ UNCHANGED <<vars, hand, before>> /\ job'[r] = j /\ remote' = remote
      /\ Billed' = Billed /\ \A t \in TaskIds : Current(t)' <=> Current(t)
  BY <1>1, <1>6, StillSettled DEF DropBoundRows, vars, Billed
<1>8. \A e \in j.entries : e \in TaskIds
  BY <1>4, Types
<1>9. JobInv(r)'
  BY <1>1, <1>4, <1>5, <1>7, <1>8 DEF JobInv
<1>10. \A u \in j.entries \cup j.lostThen : Ended(u)
  BY <1>4 DEF RInv, EndedInv
<1>11. QED
  BY <1>4, <1>6, <1>7, <1>9, <1>10, MoveJob

\* An adoption is decided when the entry is the only lost response but those beyond the
\* lookback, and the row, which is the only one, is the take of none of these.
LEMMA AdoptsOnlyEntry ==
  ASSUME RInv, NEW r \in Reconcilers,
         NEW gone \in SUBSET PastLookback(job[r].entries), MayAdopt(job[r].entries, job[r].rows, gone)
  PROVE  /\ \E e, t \in TaskIds : job[r].entries = {e} /\ job[r].rows = {t}
         /\ \A e \in TaskIds : Current(e) => e \in job[r].entries \/ Beyond(e, job[r].rows)
<1>1. IsFiniteSet(TaskIds)
  <2>1. IsFiniteSet(1 .. MaxAttempts)
    BY FS_Interval
  <2>2. QED
    BY <2>1, FS_Product DEF TaskIds
<1>2. job[r].entries \subseteq TaskIds /\ job[r].rows \subseteq TaskIds
  BY Types
<1>3. IsFiniteSet(job[r].entries) /\ IsFiniteSet(job[r].rows)
  BY <1>1, <1>2, FS_Subset
<1>4. (\E e : job[r].entries = {e}) /\ (\E t : job[r].rows = {t})
  BY <1>3, FS_Singleton DEF MayAdopt
<1>5. \A e \in TaskIds : Current(e) => e \in LostAttempts(Local)
  BY DEF Current, LostAttempts, Lost
<1>6. ASSUME NEW e \in gone PROVE Beyond(e, job[r].rows)
  BY <1>4 DEF PastLookback, MayAdopt, Beyond
<1>7. \A e \in TaskIds : Current(e) => e \in job[r].entries \/ Beyond(e, job[r].rows)
  BY <1>5, <1>6 DEF MayAdopt
<1>8. QED
  BY <1>2, <1>4, <1>7

LEMMA DecideStep ==
  ASSUME RInv, NEW r \in Reconcilers, Decide(r)
  PROVE  RInv'
<1>1. /\ job[r] \in Jobs /\ job \in [Reconcilers -> Jobs] /\ job[r].step = "unattributed" /\ JobInv(r)
  BY DEF RInv, ReconcileTypeOK, Jobs, Decide
<1>g. PICK gone \in SUBSET PastLookback(job[r].entries) :
         job' = [job EXCEPT ![r].step = "decided",
                            ![r].decision = IF job[r].rows = {} THEN ZERO_REMOTE
                                            ELSE IF MayAdopt(job[r].entries, job[r].rows, gone) THEN BOUND
                                            ELSE MANUAL]
  BY DEF Decide
<1> DEFINE d == IF job[r].rows = {} THEN ZERO_REMOTE
                ELSE IF MayAdopt(job[r].entries, job[r].rows, gone) THEN BOUND ELSE MANUAL
           j == [job[r] EXCEPT !.step = "decided", !.decision = d]
<1>2. d \in {ZERO_REMOTE, BOUND, MANUAL}
  OBVIOUS
<1>3. d = ZERO_REMOTE => job[r].rows = {}
  BY DEF ZERO_REMOTE, BOUND, MANUAL
<1>4. d = BOUND => MayAdopt(job[r].entries, job[r].rows, gone)
  BY DEF ZERO_REMOTE, BOUND, MANUAL
<1>5. job' = [job EXCEPT ![r] = j]
  BY <1>1, <1>g
<1> HIDE DEF d
<1>6. /\ j \in Jobs /\ j.entries = job[r].entries /\ j.lostThen = job[r].lostThen
      /\ j.step = "decided" /\ j.rows = job[r].rows /\ j.decision = d
  BY <1>1, <1>2 DEF Jobs
<1> HIDE DEF j
<1>7. /\ UNCHANGED <<vars, hand, before>> /\ job'[r] = j /\ remote' = remote
      /\ Billed' = Billed /\ \A t \in TaskIds : Current(t)' <=> Current(t)
  BY <1>1, <1>5, StillSettled DEF Decide, vars, Billed
<1>8. \A e \in j.entries : e \in TaskIds
  BY <1>6, Types
<1>9. ASSUME d = BOUND
      PROVE  /\ \E e, t \in TaskIds : j.entries = {e} /\ j.rows = {t}
             /\ \A e \in Seen(r)' : Current(e)' => e \in j.entries \/ Beyond(e, j.rows)
  <2>1. /\ \E e, t \in TaskIds : j.entries = {e} /\ j.rows = {t}
        /\ \A e \in TaskIds : Current(e) => e \in j.entries \/ Beyond(e, j.rows)
    <3>1. /\ \E e, t \in TaskIds : job[r].entries = {e} /\ job[r].rows = {t}
          /\ \A e \in TaskIds : Current(e) => e \in job[r].entries \/ Beyond(e, job[r].rows)
      BY <1>4, <1>9, AdoptsOnlyEntry
    <3>2. QED
      BY <3>1, <1>6
  <2>2. Seen(r)' \subseteq Seen(r)
    BY <1>1, <1>5, <1>6, <1>7 DEF Seen
  <2>3. \A e \in Seen(r) : e \in TaskIds
    BY Types DEF Seen
  <2>4. QED
    BY <2>1, <2>2, <2>3, <1>7
<1>10. JobInv(r)'
  BY <1>1, <1>2, <1>3, <1>6, <1>7, <1>8, <1>9 DEF JobInv
<1>11. \A u \in j.entries \cup j.lostThen : Ended(u)
  BY <1>6 DEF RInv, EndedInv
<1>12. QED
  BY <1>5, <1>6, <1>7, <1>10, <1>11, MoveJob

-----------------------------------------------------------------------------
(* The settlement of one transaction under its flock. *)

\* What a write has to be for the file it changes: a verified zero was not charged, and a
\* take is adopted that is billed and is the file's own if that can be charged.
Sound(t, d, task) ==
    /\ d = ZERO_REMOTE => remote[t] \notin MayCharge
    /\ d # BOUND => task = None
    /\ d = BOUND => /\ task \in Billed
                    /\ Current(task) => task = t
                    /\ task = t \/ remote[t] \notin MayCharge

\* The change of a settlement: the file of a lost attempt, or nothing.
LEMMA SettleEffect ==
  ASSUME RInv, NEW t \in TaskIds, NEW d \in {ZERO_REMOTE, BOUND, MANUAL}, NEW task \in TaskIds \cup {None},
         WriteTransaction(t, d, task)
  PROVE  /\ remote' = remote /\ flock' = flock /\ pc' = pc /\ at' = at /\ outcome' = outcome
         /\ txn' \in [Fingerprints -> Files]
         /\ \A f \in Fingerprints : txn'[f].attempt = txn[f].attempt
         /\ \A f \in Fingerprints \ {t[1]} : txn'[f] = txn[f]
         /\ \/ txn' = txn
            \/ /\ Current(t) /\ txn'[t[1]].state = d /\ txn'[t[1]].task = task
               /\ flock[t[1]] = None /\ t = <<t[1], txn[t[1]].attempt>> /\ t[1] \in Fingerprints
               /\ t[1] \in Hopsapi /\ txn[t[1]].state \in {LOST, MANUAL}
<1>1. /\ remote' = remote /\ flock' = flock /\ pc' = pc /\ at' = at /\ outcome' = outcome
  BY DEF WriteTransaction, local
<1>2. txn \in [Fingerprints -> Files] /\ t[1] \in Fingerprints
  BY Types
<1>3. CASE txn' = txn
  BY <1>1, <1>2, <1>3
<1>4. CASE Current(t) /\ txn' = [txn EXCEPT ![t[1]].state = d, ![t[1]].task = task]
  <2> DEFINE old == txn[t[1]]
             r == [old EXCEPT !.state = d, !.task = task]
  <2>1. d \in FileStates /\ old \in Files
    BY <1>2 DEF FileStates, SubmitStates, ZERO_REMOTE, BOUND, MANUAL
  <2>3. txn' = [txn EXCEPT ![t[1]] = r]
    BY <1>2, <1>4
  <2>a. old.attempt = txn[t[1]].attempt
    OBVIOUS
  <2> HIDE DEF old
  <2>2. r \in Files /\ r.state = d /\ r.task = task /\ r.attempt = old.attempt
    BY <2>1 DEF Files
  <2> HIDE DEF r
  <2>4. /\ txn' \in [Fingerprints -> Files] /\ txn'[t[1]] = r
        /\ \A f \in Fingerprints \ {t[1]} : txn'[f] = txn[f]
    BY <1>2, <2>2, <2>3
  <2>5. /\ flock[t[1]] = None /\ t = <<t[1], txn[t[1]].attempt>>
        /\ t[1] \in Hopsapi /\ txn[t[1]].state \in {LOST, MANUAL}
    BY <1>4 DEF WriteTransaction, Current, Lost, Attempt, RECONCILABLE_STATES
  <2>6. QED
    BY <1>1, <1>2, <1>4, <2>a, <2>2, <2>4, <2>5
<1>5. QED
  BY <1>3, <1>4 DEF WriteTransaction, Current

\* It settles under the flock, so no call is at work on the file it changes.
LEMMA SettleBase ==
  ASSUME RInv, NEW t \in TaskIds, NEW d \in {ZERO_REMOTE, BOUND, MANUAL}, NEW task \in TaskIds \cup {None},
         WriteTransaction(t, d, task), Current(t) => Sound(t, d, task)
  PROVE  Base'
<1>1. /\ remote' = remote /\ flock' = flock /\ pc' = pc /\ at' = at /\ outcome' = outcome
      /\ txn' \in [Fingerprints -> Files]
      /\ \A f \in Fingerprints : txn'[f].attempt = txn[f].attempt
      /\ \A f \in Fingerprints \ {t[1]} : txn'[f] = txn[f]
  BY SettleEffect
<1>2. Shape' /\ LockInv'
  BY <1>1 DEF RInv, Base, Shape, LockInv, InCall
<1>3. ASSUME NEW w \in Workers PROVE AtPlace(w)'
  <2>1. InCall(w) => txn'[at[w]] = txn[at[w]]
    <3>1. InCall(w) => flock[at[w]] = w /\ at[w] \in Fingerprints
      BY DEF RInv, Base, LockInv, Shape, InCall
    <3>2. QED
      BY <3>1, SettleEffect
  <2>2. QED
    BY <2>1, <1>1, Frame DEF RInv, Base, PlaceInv
<1>4. ASSUME NEW f \in Fingerprints, MayPost(f)', txn[f].attempt \in 1 .. MaxAttempts
      PROVE  remote[<<f, txn[f].attempt>>] \notin MayCharge
  <2>1. CASE txn'[f] = txn[f]
    BY <1>4, <2>1 DEF RInv, Base, AttemptInv, MayPost
  <2>2. CASE f = t[1] /\ Current(t) /\ txn'[f].state = d /\ t = <<f, txn[f].attempt>>
    <3>1. d = ZERO_REMOTE
      BY <1>4, <2>2 DEF MayPost, VerifiedZero, ABSENT, ZERO_RETRY, ZERO_REMOTE, BOUND, MANUAL
    <3>2. QED
      BY <2>2, <3>1 DEF Sound
  <2>3. QED
    BY <2>1, <2>2, SettleEffect
<1>5. AttemptInv'
  <2>1. ASSUME NEW f \in Fingerprints, NEW n \in 1 .. MaxAttempts
        PROVE  /\ n > txn'[f].attempt => remote'[<<f, n>>] = "none"
               /\ n < txn'[f].attempt => remote'[<<f, n>>] \notin MayCharge
               /\ n = txn'[f].attempt /\ MayPost(f)' => remote'[<<f, n>>] \notin MayCharge
    BY <1>1, <1>4 DEF RInv, Base, AttemptInv
  <2>2. QED
    BY <2>1 DEF AttemptInv
<1>6. QED
  BY <1>2, <1>3, <1>5 DEF Base, PlaceInv

LEMMA SettleSettled ==
  ASSUME RInv, NEW t \in TaskIds, NEW d \in {ZERO_REMOTE, BOUND, MANUAL}, NEW task \in TaskIds \cup {None},
         WriteTransaction(t, d, task)
  PROVE  /\ \A u \in TaskIds : Ended(u)' <=> Ended(u)
         /\ \A u \in TaskIds : Current(u)' => Current(u)
         /\ Settled
<1>1. /\ remote' = remote /\ pc' = pc /\ at' = at
      /\ \A f \in Fingerprints : txn'[f].attempt = txn[f].attempt
      /\ \A f \in Fingerprints \ {t[1]} : txn'[f] = txn[f]
  BY SettleEffect
<1>2. \A u \in TaskIds, w \in Workers : Requests(w, u)' <=> Requests(w, u)
  <2>1. \A w \in Workers : pc[w] \in {"intent", "posting"} => at[w] \in Fingerprints
    BY DEF RInv, Base, Shape
  <2>2. QED
    BY <1>1, <2>1 DEF Requests, Attempt
<1>3. \A u \in TaskIds : Ended(u)' <=> Ended(u)
  BY <1>1, <1>2 DEF Ended
<1>4. ASSUME NEW u \in TaskIds, Current(u)' PROVE Current(u)
  <2>1. /\ u[1] \in Fingerprints /\ u[1] \in Local \cap Hopsapi /\ txn'[u[1]].state \in RECONCILABLE_STATES
        /\ txn'[u[1]].task = None /\ <<u[1], txn'[u[1]].attempt>> = u
    BY <1>4, Types DEF Current, Lost, Attempt
  <2>2. CASE txn'[u[1]] = txn[u[1]]
    BY <2>1, <2>2 DEF Current, Lost, Attempt
  <2>3. CASE u[1] = t[1] /\ Current(t)
    <3>1. t = <<t[1], txn[t[1]].attempt>> /\ Lost(t[1])
      BY <2>3 DEF Current, Attempt
    <3>2. u = t
      BY <1>1, <2>1, <2>3, <3>1
    <3>3. QED
      BY <2>3, <3>2
  <2>4. QED
    BY <2>1, <2>2, <2>3, SettleEffect
<1>5. QED
  BY <1>1, <1>3, <1>4 DEF Settled

LEMMA SettleKeeps ==
  ASSUME RInv, NEW t \in TaskIds, NEW d \in {ZERO_REMOTE, BOUND, MANUAL}, NEW task \in TaskIds \cup {None},
         WriteTransaction(t, d, task), before' = before, Current(t) => Sound(t, d, task)
  PROVE  /\ StateInv' /\ BindInv'
         /\ \A f \in Fingerprints : txn'[f].state \in SubmitStates \cup {ZERO_REMOTE, MANUAL}
<1>1. /\ remote' = remote /\ \A f \in Fingerprints : txn'[f].attempt = txn[f].attempt
  BY SettleEffect
<1>2. /\ \A u \in TaskIds : Ended(u)' <=> Ended(u)
      /\ \A u \in TaskIds : Current(u)' => Current(u)
  BY SettleSettled
<1>3. ASSUME NEW f \in Fingerprints
      PROVE  /\ txn'[f].state \in SubmitStates \cup {ZERO_REMOTE, MANUAL}
             /\ txn'[f].task # None <=> txn'[f].state = BOUND
             /\ f \in Hopsapi => txn'[f].state \notin {NO_TASK_ID, INSUFFICIENT}
             /\ txn'[f].state # ABSENT => <<f, txn'[f].attempt>> \in TaskIds
             /\ <<f, txn'[f].attempt>> \notin before'[f]
  <2>i. /\ txn[f].state \in SubmitStates \cup {ZERO_REMOTE, MANUAL}
        /\ txn[f].task # None <=> txn[f].state = BOUND
        /\ f \in Hopsapi => txn[f].state \notin {NO_TASK_ID, INSUFFICIENT}
        /\ txn[f].state # ABSENT => <<f, txn[f].attempt>> \in TaskIds
        /\ <<f, txn[f].attempt>> \notin before[f]
    BY DEF RInv, StateInv, ReconcileTypeOK, Attempt
  <2>1. CASE txn'[f] = txn[f]
    BY <2>1, <2>i
  <2>2. CASE /\ f = t[1] /\ Current(t) /\ txn'[f].state = d /\ txn'[f].task = task
             /\ t = <<f, txn[f].attempt>>
    <3>1. BOUND \in SubmitStates /\ d \in SubmitStates \cup {ZERO_REMOTE, MANUAL}
      BY DEF SubmitStates, BOUND
    <3>2. d \notin {NO_TASK_ID, INSUFFICIENT}
      BY DEF NO_TASK_ID, INSUFFICIENT, ZERO_REMOTE, BOUND, MANUAL
    <3>3. task # None <=> d = BOUND
      BY <2>2 DEF Sound, Billed
    <3>4. QED
      BY <2>2, <2>i, <1>1, <3>1, <3>2, <3>3
  <2>3. QED
    BY <2>1, <2>2, SettleEffect
<1>4. StateInv'
  BY <1>3 DEF StateInv, Attempt
<1>5. ASSUME NEW f \in Fingerprints, txn'[f].state = BOUND
      PROVE  /\ Ended(txn[f].task)' /\ ~Current(txn[f].task)'
             /\ txn'[f].task = <<f, txn'[f].attempt>> \/ remote'[<<f, txn'[f].attempt>>] \notin MayCharge
  <2>1. CASE txn'[f] = txn[f]
    <3>1. PICK u \in TaskIds : u = txn[f].task
      BY <1>5, <2>1, Types
    <3>2. /\ Ended(u) /\ ~Current(u)
          /\ u = <<f, txn[f].attempt>> \/ remote[<<f, txn[f].attempt>>] \notin MayCharge
      BY <1>5, <2>1, <3>1 DEF RInv, BindInv, Attempt
    <3>3. Ended(u)' /\ ~Current(u)'
      BY <1>2, <3>2
    <3>4. QED
      BY <1>1, <2>1, <3>1, <3>2, <3>3 DEF Ended, Requests, Current, Lost
  <2>2. CASE /\ f = t[1] /\ Current(t) /\ txn'[f].state = d /\ txn'[f].task = task
             /\ t = <<f, txn[f].attempt>>
    <3>1. d = BOUND
      BY <1>5, <2>2
    <3>2. PICK u \in TaskIds : u = task /\ remote[u] = "finished"
      BY <2>2, <3>1 DEF Sound, Billed
    <3>3. Ended(u)'
      BY <3>2, <1>2 DEF RInv, EndedInv
    <3>4. ~Current(u)'
      <4>1. SUFFICES ASSUME Current(u)' PROVE FALSE
        OBVIOUS
      <4>2. u = t
        BY <1>2, <4>1, <2>2, <3>1, <3>2 DEF Sound
      <4>3. txn'[f].state \in RECONCILABLE_STATES
        BY <4>1, <4>2, <2>2 DEF Current, Lost
      <4>4. QED
        BY <1>5, <4>3 DEF RECONCILABLE_STATES, BOUND, LOST, MANUAL
    <3>5. task = t \/ remote[t] \notin MayCharge
      BY <2>2, <3>1 DEF Sound
    <3>6. QED
      BY <1>1, <2>2, <3>2, <3>3, <3>4, <3>5 DEF Ended, Requests, Current, Lost
  <2>3. QED
    BY <2>1, <2>2, SettleEffect
<1>6. BindInv'
  BY <1>5 DEF BindInv, Attempt
<1>7. QED
  BY <1>3, <1>4, <1>6

\* What a job writes for one of its entries is sound.
LEMMA DecisionSound ==
  ASSUME RInv, NEW r \in Reconcilers, job[r].step = "decided", NEW t \in job[r].entries, Current(t)
  PROVE  /\ job[r].decision # BOUND => Sound(t, job[r].decision, None)
         /\ job[r].decision = BOUND => \A row \in job[r].rows : Sound(t, BOUND, row)
<1>1. JobInv(r) /\ job[r].entries \subseteq TaskIds /\ job[r].rows \subseteq Billed
  BY Types DEF RInv, JobInv
<1>2. remote[t] \in MayCharge => t \in job[r].rows
  BY <1>1 DEF JobInv, Ends, MayCharge
<1>3. CASE job[r].decision # BOUND
  BY <1>1, <1>2, <1>3 DEF JobInv, Sound
<1>4. CASE job[r].decision = BOUND
  <2>1. PICK e \in TaskIds, u \in TaskIds : job[r].entries = {e} /\ job[r].rows = {u}
    BY <1>1, <1>4 DEF JobInv
  <2>2. Current(u) => u = e
    BY <1>1, <1>4, <2>1 DEF JobInv, Seen, Beyond
  <2>3. QED
    BY <1>1, <1>2, <1>4, <2>1, <2>2 DEF Sound, BOUND, ZERO_REMOTE
<1>5. QED
  BY <1>3, <1>4

LEMMA WriteStep ==
  ASSUME RInv, NEW r \in Reconcilers, WriteDecision(r)
  PROVE  RInv'
<1>1. /\ job[r] \in Jobs /\ job \in [Reconcilers -> Jobs] /\ job[r].step = "decided" /\ JobInv(r)
      /\ hand' = hand /\ before' = before
  BY DEF RInv, ReconcileTypeOK, Jobs, WriteDecision
<1>2. PICK t \in job[r].entries :
         /\ IF job[r].decision = BOUND
            THEN \E row \in job[r].rows : WriteTransaction(t, BOUND, row)
            ELSE WriteTransaction(t, job[r].decision, None)
         /\ job' = [job EXCEPT ![r] = IF job[r].entries \ {t} = {} THEN NoJob
                                      ELSE [@ EXCEPT !.entries = job[r].entries \ {t}]]
  BY DEF WriteDecision
<1>3. t \in TaskIds
  BY <1>2, Types
<1>4. PICK d \in {ZERO_REMOTE, BOUND, MANUAL}, task \in TaskIds \cup {None} :
         /\ WriteTransaction(t, d, task)
         /\ Current(t) => Sound(t, d, task)
  <2>1. CASE job[r].decision = BOUND
    <3>1. PICK row \in job[r].rows : WriteTransaction(t, BOUND, row)
      BY <1>2, <2>1
    <3>2. row \in TaskIds
      BY Types
    <3>3. QED
      BY <1>1, <2>1, <3>1, <3>2, DecisionSound
  <2>2. CASE job[r].decision # BOUND
    <3>1. WriteTransaction(t, job[r].decision, None) /\ job[r].decision \in {ZERO_REMOTE, BOUND, MANUAL}
      BY <1>1, <1>2, <2>2 DEF JobInv
    <3>2. QED
      BY <1>1, <2>2, <3>1, DecisionSound
  <2>3. QED
    BY <2>1, <2>2
<1>5. /\ Base' /\ StateInv' /\ BindInv' /\ Settled
      /\ \A u \in TaskIds : Ended(u)' <=> Ended(u)
      /\ \A u \in TaskIds : Current(u)' => Current(u)
      /\ \A f \in Fingerprints : txn'[f].state \in SubmitStates \cup {ZERO_REMOTE, MANUAL}
      /\ remote' = remote
  BY <1>1, <1>3, <1>4, SettleBase, SettleKeeps, SettleSettled, SettleEffect
<1>6. HandInv'
  BY <1>1, <1>5, HandFrame
<1> DEFINE rest == [job[r] EXCEPT !.entries = job[r].entries \ {t}]
           j == IF job[r].entries \ {t} = {} THEN NoJob ELSE rest
<1>7. /\ rest \in Jobs /\ rest.entries = job[r].entries \ {t} /\ rest.step = "decided"
      /\ rest.rows = job[r].rows /\ rest.decision = job[r].decision /\ rest.lostThen = job[r].lostThen
  BY <1>1 DEF Jobs
<1>8. job' = [job EXCEPT ![r] = j]
  BY <1>1, <1>2
<1> HIDE DEF rest
<1>9. j \in Jobs /\ j.entries \subseteq job[r].entries /\ j.lostThen \subseteq job[r].lostThen
  BY <1>7, NoJobType DEF NoJob
<1>10. j = NoJob \/ (j = rest /\ job[r].entries \ {t} # {})
  OBVIOUS
<1> HIDE DEF j
<1>11. /\ job' \in [Reconcilers -> Jobs] /\ job'[r] = j
       /\ \A q \in Reconcilers : job'[q].entries \subseteq job[q].entries
       /\ \A q \in Reconcilers : job'[q].lostThen \subseteq job[q].lostThen
       /\ \A q \in Reconcilers \ {r} : job'[q] = job[q]
  BY <1>1, <1>8, <1>9
<1>12. \A q \in Reconcilers \ {r} : JobInv(q)'
  BY <1>5, <1>11, JobFrame
<1>13. JobInv(r)'
  <2>1. CASE j = NoJob
    BY <2>1, <1>11, NoJobRelies
  <2>2. CASE j = rest /\ job[r].entries \ {t} # {}
    <3>1. job[r].decision # BOUND
      BY <1>1, <2>2 DEF JobInv
    <3>2. Billed' = Billed /\ \A e \in job[r].entries : e \in TaskIds
      BY <1>5, Types DEF Billed
    <3>3. QED
      BY <1>1, <1>5, <1>7, <1>11, <2>2, <3>1, <3>2 DEF JobInv
  <2>3. QED
    BY <2>1, <2>2, <1>10
<1>14. EndedInv'
  <2>1. \A u \in TaskIds : Current(u)' \/ remote'[u] = "finished" => Ended(u)'
    BY <1>5 DEF RInv, EndedInv
  <2>2. \A q \in Reconcilers : \A u \in job'[q].entries \cup job'[q].lostThen : u \in TaskIds /\ Ended(u)
    BY <1>11, Types DEF RInv, EndedInv
  <2>3. QED
    BY <1>5, <2>1, <2>2 DEF EndedInv
<1>15. ReconcileTypeOK'
  BY <1>1, <1>5, <1>11 DEF RInv, ReconcileTypeOK, Jobs
<1>16. QED
  BY <1>5, <1>6, <1>12, <1>13, <1>14, <1>15 DEF RInv

-----------------------------------------------------------------------------
(* The operator's adopt. *)

LEMMA AdoptCheckStep ==
  ASSUME RInv, NEW f \in Fingerprints, AdoptCheck(f)
  PROVE  RInv'
<1>1. /\ UNCHANGED <<vars, before>> /\ job' = job /\ hand' = Attempt(f) /\ OperatorAdopts /\ Attempt(f) \in Billed
  BY DEF AdoptCheck
<1>2. Attempt(f) \in TaskIds /\ UNCHANGED vars /\ before' = before /\ Billed' = Billed /\ txn' = txn
  BY <1>1 DEF Billed, vars, store
<1>3. ReconcileTypeOK'
  BY <1>1, <1>2 DEF RInv, ReconcileTypeOK
<1>4. HandInv'
  BY <1>1, <1>2 DEF HandInv
<1>5. \A r \in Reconcilers : JobInv(r)'
  BY <1>1, <1>2, StillSettled, JobFrame
<1>6. \A r \in Reconcilers : \A u \in job'[r].entries \cup job'[r].lostThen : Ended(u)
  BY <1>1 DEF RInv, EndedInv
<1>7. QED
  BY <1>1, <1>2, <1>3, <1>4, <1>5, <1>6, JobStep

LEMMA AdoptWriteStep ==
  ASSUME RInv, AdoptWrite
  PROVE  RInv'
<1>1. /\ hand # None /\ WriteTransaction(hand, BOUND, hand) /\ hand' = None /\ job' = job /\ before' = before
  BY DEF AdoptWrite
<1>2. hand \in Billed /\ hand \in TaskIds
  BY <1>1 DEF RInv, HandInv, Billed
<1>3. PICK t \in TaskIds : t = hand
  BY <1>2
<1>4. WriteTransaction(t, BOUND, t) /\ Sound(t, BOUND, t)
  BY <1>1, <1>2, <1>3 DEF Sound, BOUND, ZERO_REMOTE
<1>5. /\ Base' /\ StateInv' /\ BindInv' /\ Settled
      /\ \A u \in TaskIds : Ended(u)' <=> Ended(u)
      /\ \A u \in TaskIds : Current(u)' => Current(u)
      /\ \A f \in Fingerprints : txn'[f].state \in SubmitStates \cup {ZERO_REMOTE, MANUAL}
      /\ remote' = remote
  BY <1>1, <1>3, <1>4, SettleBase, SettleKeeps, SettleSettled, SettleEffect
<1>6. HandInv' /\ ReconcileTypeOK'
  BY <1>1, <1>5 DEF RInv, HandInv, ReconcileTypeOK
<1>7. \A r \in Reconcilers : JobInv(r)'
  BY <1>1, <1>5, JobFrame
<1>8. EndedInv'
  <2>1. \A u \in TaskIds : Current(u)' \/ remote'[u] = "finished" => Ended(u)'
    BY <1>5 DEF RInv, EndedInv
  <2>2. \A q \in Reconcilers : \A u \in job'[q].entries \cup job'[q].lostThen : Ended(u)'
    BY <1>1, <1>5, Types DEF RInv, EndedInv
  <2>3. QED
    BY <2>1, <2>2 DEF EndedInv
<1>9. QED
  BY <1>5, <1>6, <1>7, <1>8 DEF RInv

-----------------------------------------------------------------------------
(* The invariant. *)

LEMMA ReconcileInitInv == ReconcileInit => RInv
<1> SUFFICES ASSUME ReconcileInit PROVE RInv
  OBVIOUS
<1>1. Base /\ Init
  BY InitInv, InvBase DEF ReconcileInit
<1>2. /\ \A f \in Fingerprints : txn[f].state = ABSENT /\ txn[f].task = None /\ before[f] = {}
      /\ \A t \in TaskIds : remote[t] = "none"
      /\ \A r \in Reconcilers : job[r] = NoJob
      /\ hand = None
  BY DEF ReconcileInit, Init
<1>3. ReconcileTypeOK
  <2>1. job \in [Reconcilers -> Jobs]
    BY NoJobType DEF ReconcileInit
  <2>2. ABSENT \in SubmitStates
    BY DEF SubmitStates
  <2>3. before \in [Fingerprints -> SUBSET TaskIds]
    BY DEF ReconcileInit
  <2>4. QED
    BY <1>2, <2>1, <2>2, <2>3 DEF ReconcileTypeOK, Jobs
<1>4. StateInv
  BY <1>2 DEF StateInv, ABSENT, BOUND, NO_TASK_ID, INSUFFICIENT
<1>5. EndedInv
  <2>1. \A f \in Fingerprints : ~Lost(f)
    BY <1>2 DEF Lost, RECONCILABLE_STATES, ABSENT, LOST, MANUAL
  <2>2. \A t \in TaskIds : ~Current(t) /\ remote[t] # "finished"
    BY <1>2, <2>1 DEF Current, TaskIds
  <2>3. \A r \in Reconcilers : job[r].entries \cup job[r].lostThen = {}
    BY <1>2 DEF NoJob
  <2>4. QED
    BY <2>2, <2>3 DEF EndedInv
<1>6. BindInv
  BY <1>2 DEF BindInv, ABSENT, BOUND
<1>7. (\A r \in Reconcilers : JobInv(r)) /\ HandInv
  BY <1>2 DEF JobInv, NoJob, HandInv
<1>8. QED
  BY <1>1, <1>3, <1>4, <1>5, <1>6, <1>7 DEF RInv

LEMMA ReconcileStutter == RInv /\ UNCHANGED allvars => RInv'
<1> SUFFICES ASSUME RInv, UNCHANGED allvars PROVE RInv'
  OBVIOUS
<1>1. UNCHANGED <<vars, before>> /\ job' = job /\ hand' = hand /\ UNCHANGED vars /\ txn' = txn
      /\ before' = before
  BY DEF allvars, settling, vars, store
<1>2. ReconcileTypeOK'
  BY <1>1 DEF RInv, ReconcileTypeOK
<1>3. HandInv' /\ \A r \in Reconcilers : JobInv(r)'
  BY <1>1, StillSettled, JobFrame, HandFrame
<1>4. \A r \in Reconcilers : \A u \in job'[r].entries \cup job'[r].lostThen : Ended(u)
  BY <1>1 DEF RInv, EndedInv
<1>5. QED
  BY <1>1, <1>2, <1>3, <1>4, JobStep

LEMMA ReconcileStep == RInv /\ [ReconcileNext]_allvars => RInv'
<1> SUFFICES ASSUME RInv, [ReconcileNext]_allvars PROVE RInv'
  OBVIOUS
<1>1. ASSUME NEW r \in Reconcilers, Reconcile(r) PROVE RInv'
  BY <1>1, ListStep, ReadStep, DropStep, DecideStep, WriteStep, AbandonStep DEF Reconcile
<1>2. QED
  BY <1>1, CallStep, RemoteStep, AdoptCheckStep, AdoptWriteStep, ReconcileStutter DEF ReconcileNext

\* What reconciliations rely on between their steps holds always, however submitters,
\* reconcilers of several episodes, the operator and the provider interleave.
THEOREM ReconcileInvariant == ReconcileSpec => []RInv
  BY ReconcileInitInv, ReconcileStep, PTL DEF ReconcileSpec

\* The files, jobs and records of the billing history keep their types.
THEOREM ReconcileTypeCorrect == ReconcileSpec => []ReconcileTypeOK
<1>1. RInv => ReconcileTypeOK
  BY DEF RInv
<1>2. QED
  BY <1>1, ReconcileInvariant, PTL

\* paid_stage.sh:25 with the settlement of lost answers running beside the calls: still at
\* most one attempt of a transaction may ever be charged.
THEOREM NeverBoughtTwiceWhenSettled == ReconcileSpec => []PaidAtMostOnce
<1>1. RInv => PaidAtMostOnce
  BY BaseImpliesPaidAtMostOnce DEF RInv
<1>2. QED
  BY <1>1, ReconcileInvariant, PTL

-----------------------------------------------------------------------------
(* The store implements PaidOnce also when lost answers are settled in it. *)

\* Settling is a stutter, a reopening or an acquisition.
LEMMA RefineSettle ==
  ASSUME RInv, NEW t \in TaskIds, NEW d \in {ZERO_REMOTE, BOUND, MANUAL}, NEW task \in TaskIds \cup {None},
         WriteTransaction(t, d, task), Current(t) => Sound(t, d, task)
  PROVE  Store!Next \/ UNCHANGED <<phaseOf, liveOf>>
<1> DEFINE f == t[1]
<1>1. liveOf' = liveOf
  BY SettleEffect, LiveFrame
<1>2. CASE txn' = txn
  BY <1>1, <1>2, PhaseFrame DEF phaseOf
<1>3. CASE /\ Current(t) /\ txn'[f].state = d /\ f \in Fingerprints /\ t = <<f, txn[f].attempt>>
           /\ txn[f].state \in {LOST, MANUAL}
  <2>1. Phase(f) = "pending"
    BY <1>3 DEF Phase, MayPost, VerifiedZero, ABSENT, ZERO_RETRY, ZERO_REMOTE, BOUND, LOST, MANUAL
  <2>2. \A g \in Fingerprints \ {f} : txn'[g] = txn[g]
    BY SettleEffect
  <2>3. CASE d = MANUAL
    <3>1. Phase(f)' = "pending"
      BY <1>3, <2>3 DEF Phase, MayPost, VerifiedZero, ABSENT, ZERO_RETRY, ZERO_REMOTE, BOUND, MANUAL
    <3>2. phaseOf' = phaseOf
      BY <1>3, <2>1, <2>2, <3>1, PhaseFrame DEF phaseOf
    <3>3. QED
      BY <1>1, <3>2
  <2>4. CASE d = ZERO_REMOTE
    <3>1. Phase(f)' = "open"
      BY <1>3, <2>4 DEF Phase, MayPost, VerifiedZero
    <3>2. Live(f) = {}
      BY <1>3, <2>4, NothingLive DEF RInv, Sound
    <3>3. phaseOf' = [phaseOf EXCEPT ![f] = "open"]
      BY <1>3, <2>2, <3>1, PhaseUpdate
    <3>4. Store!Reopen(f)
      BY <1>1, <1>3, <2>1, <3>2, <3>3 DEF Store!Reopen, phaseOf, liveOf
    <3>5. QED
      BY <1>3, <3>4 DEF Store!Next
  <2>5. CASE d = BOUND
    <3>1. Phase(f)' = "owned"
      BY <1>3, <2>5 DEF Phase, MayPost, VerifiedZero, ABSENT, ZERO_RETRY, ZERO_REMOTE, BOUND
    <3>2. phaseOf' = [phaseOf EXCEPT ![f] = "owned"]
      BY <1>3, <2>2, <3>1, PhaseUpdate
    <3>3. Store!TakeOwnership(f)
      BY <1>1, <1>3, <2>1, <3>2 DEF Store!TakeOwnership, phaseOf, liveOf
    <3>4. QED
      BY <1>3, <3>3 DEF Store!Next
  <2>6. QED
    BY <2>3, <2>4, <2>5
<1>4. QED
  BY <1>2, <1>3, SettleEffect

LEMMA RefineReconcileStep == RInv /\ [ReconcileNext]_allvars => [Store!Next]_(Store!vars)
<1> SUFFICES ASSUME RInv, [ReconcileNext]_allvars PROVE Store!Next \/ UNCHANGED <<phaseOf, liveOf>>
  BY DEF Store!vars, phaseOf, liveOf
<1>1. ASSUME [Next]_vars PROVE Store!Next \/ UNCHANGED <<phaseOf, liveOf>>
  BY <1>1, RefineStep DEF RInv, Store!vars, phaseOf, liveOf
<1>2. ASSUME NEW w \in Workers, Submitter(w) PROVE [Next]_vars
  BY <1>2 DEF Submitter, Next
<1>3. ASSUME NEW t \in TaskIds, Remote(t) PROVE [Next]_vars
  BY <1>3 DEF Remote, Rendered, Provider, Environment, Next
<1>4. ASSUME NEW r \in Reconcilers, WriteDecision(r) PROVE Store!Next \/ UNCHANGED <<phaseOf, liveOf>>
  <2>1. /\ job[r].step = "decided" /\ JobInv(r)
        /\ \E t \in job[r].entries :
             IF job[r].decision = BOUND
             THEN \E row \in job[r].rows : WriteTransaction(t, BOUND, row)
             ELSE WriteTransaction(t, job[r].decision, None)
    BY <1>4 DEF WriteDecision, RInv
  <2>2. PICK t \in job[r].entries :
             IF job[r].decision = BOUND
             THEN \E row \in job[r].rows : WriteTransaction(t, BOUND, row)
             ELSE WriteTransaction(t, job[r].decision, None)
    BY <2>1
  <2>3. t \in TaskIds /\ job[r].rows \subseteq TaskIds
    BY <2>2, Types
  <2>4. CASE job[r].decision = BOUND
    <3>1. PICK row \in job[r].rows : WriteTransaction(t, BOUND, row)
      BY <2>2, <2>4
    <3>2. Current(t) => Sound(t, BOUND, row)
      BY <2>1, <2>4, <3>1, DecisionSound
    <3>3. QED
      BY <2>3, <3>1, <3>2, RefineSettle
  <2>5. CASE job[r].decision # BOUND
    <3>1. WriteTransaction(t, job[r].decision, None) /\ job[r].decision \in {ZERO_REMOTE, BOUND, MANUAL}
      BY <2>1, <2>2, <2>5 DEF JobInv
    <3>2. Current(t) => Sound(t, job[r].decision, None)
      BY <2>1, <2>5, DecisionSound
    <3>3. QED
      BY <2>3, <3>1, <3>2, RefineSettle
  <2>6. QED
    BY <2>4, <2>5
<1>5. ASSUME AdoptWrite PROVE Store!Next \/ UNCHANGED <<phaseOf, liveOf>>
  <2>1. PICK t \in TaskIds : t = hand /\ t \in Billed
    BY <1>5 DEF AdoptWrite, RInv, HandInv, Billed
  <2>2. WriteTransaction(t, BOUND, t) /\ Sound(t, BOUND, t)
    BY <1>5, <2>1 DEF AdoptWrite, Sound, BOUND, ZERO_REMOTE
  <2>3. QED
    BY <2>2, RefineSettle
<1>6. ASSUME NEW r \in Reconcilers, Reconcile(r), ~WriteDecision(r) PROVE [Next]_vars
  BY <1>6 DEF Reconcile, ListLost, ReadUsage, DropBoundRows, Decide, Abandon
<1>7. ASSUME NEW f \in Fingerprints, AdoptCheck(f) PROVE [Next]_vars
  BY <1>7 DEF AdoptCheck
<1>8. UNCHANGED allvars => [Next]_vars
  BY DEF allvars
<1>9. QED
  BY <1>1, <1>2, <1>3, <1>4, <1>5, <1>6, <1>7, <1>8 DEF ReconcileNext

\* Settling lost answers keeps the store's promise: a transaction is reopened only when no
\* attempt of it can be charged, and it is never bought twice.
THEOREM ReconcileRefinement == ReconcileSpec => BuysOnce
<1>1. ReconcileInit => Store!Init
  BY RefineInit DEF ReconcileInit
<1>2. QED
  BY <1>1, RefineReconcileStep, ReconcileInvariant, PTL DEF ReconcileSpec, BuysOnce, Store!Spec

-----------------------------------------------------------------------------
(* Who owns a take, while the operator's adopt is not used. *)

\* The rows of a job that has dropped the bound ones stay unbound as long as one of its
\* entries is lost, and the files of this store that ordered them are not bound either.
Unshared(r) ==
    job[r].step \in {"unattributed", "decided"} /\ (\E e \in job[r].entries : Current(e)) =>
        \A t \in job[r].rows : t \notin BoundTaskIds /\ (t[1] \in Local => txn[t[1]].state # BOUND)

\* A take that another order has adopted is the last attempt of a file whose call died
\* between the request and the record.
PairInv == \A f \in Local : txn[f].task # None =>
    \/ txn[f].task[1] = f
    \/ txn[f].task[1] \in Elsewhere
    \/ txn[txn[f].task[1]].state = INTENT /\ txn[f].task = Attempt(txn[f].task[1])

OwnInv == (\A r \in Reconcilers : Unshared(r)) /\ PairInv /\ TaskBoundOnce

LEMMA LocalFiles == Local \subseteq Fingerprints /\ \A f \in Fingerprints : f \in Local \/ f \in Elsewhere
  BY DEF Local

\* A finished take is the last attempt of its file, and the file is not open.
LEMMA BilledIsLast ==
  ASSUME RInv, NEW t \in Billed
  PROVE  /\ t \in TaskIds /\ t[1] \in Fingerprints /\ t[1] \in Hopsapi /\ t = <<t[1], txn[t[1]].attempt>>
         /\ remote[t] = "finished" /\ ~MayPost(t[1]) /\ Ended(t)
<1>1. /\ t \in TaskIds /\ t[1] \in Hopsapi /\ remote[t] = "finished" /\ Ended(t)
      /\ t[1] \in Fingerprints /\ t[2] \in 1 .. MaxAttempts /\ t = <<t[1], t[2]>>
      /\ txn[t[1]].attempt \in 0 .. MaxAttempts
  BY Types DEF Billed, RInv, EndedInv
<1>2. /\ t[2] > txn[t[1]].attempt => remote[t] = "none"
      /\ t[2] < txn[t[1]].attempt => remote[t] \notin MayCharge
      /\ t[2] = txn[t[1]].attempt /\ MayPost(t[1]) => remote[t] \notin MayCharge
  BY <1>1 DEF RInv, Base, AttemptInv
<1>3. t[2] = txn[t[1]].attempt
  BY <1>1, <1>2 DEF MayCharge
<1>4. QED
  BY <1>1, <1>2, <1>3 DEF MayCharge

\* The task of a file that names one has ended.
LEMMA BoundTask ==
  ASSUME RInv, NEW f \in Fingerprints, txn[f].task # None
  PROVE  /\ txn[f].state = BOUND /\ txn[f].task \in TaskIds
         /\ f \in Local => txn[f].task \in BoundTaskIds
         /\ Ended(txn[f].task) /\ ~Current(txn[f].task)
  BY Types DEF RInv, StateInv, BindInv, BoundTaskIds

LEMMA OwnInit == ReconcileInit => OwnInv
<1> SUFFICES ASSUME ReconcileInit PROVE OwnInv
  OBVIOUS
<1>1. /\ \A f \in Local : txn[f].task = None
      /\ \A r \in Reconcilers : job[r].step = "off"
  BY LocalFiles DEF ReconcileInit, Init, NoJob
<1>2. QED
  BY <1>1 DEF OwnInv, Unshared, PairInv, TaskBoundOnce

\* A call binds only the attempt it is waiting for, which no file and no job can hold.
LEMMA OwnCall ==
  ASSUME RInv, OwnInv, NEW w \in Workers, Submitter(w)
  PROVE  OwnInv'
<1>w. Worker(w) /\ job' = job
  BY DEF Submitter
<1>1. ASSUME NEW f \in Fingerprints, txn'[f].task # None, txn'[f] # txn[f]
      PROVE  /\ f = at[w] /\ txn'[f].task \in TaskIds /\ txn'[f].task[1] = f
             /\ ~Ended(txn'[f].task)
  <2>1. f = at[w] /\ Answers(w)
    BY <1>w, <1>1, CallFrame DEF Opens
  <2>2. txn[f].task = None
    BY <2>1 DEF Answers, RInv, StateInv, INTENT, BOUND
  <2>3. txn'[f].task = Attempt(f) /\ Attempt(f) \in TaskIds /\ pc[w] \in {"intent", "posting"}
    BY <1>1, <2>1, <2>2 DEF Answers
  <2>4. Requests(w, Attempt(f))
    BY <2>1, <2>3 DEF Requests
  <2>5. QED
    BY <2>1, <2>3, <2>4 DEF Ended, Attempt
<1>2. TaskBoundOnce'
  <2> SUFFICES ASSUME NEW f \in Local, NEW g \in Local,
                      txn'[f].task # None, txn'[f].task = txn'[g].task
               PROVE  f = g
    BY DEF TaskBoundOnce
  <2>f. f \in Fingerprints /\ g \in Fingerprints
    BY LocalFiles
  <2>1. CASE txn'[f] = txn[f] /\ txn'[g] = txn[g]
    BY <2>1 DEF OwnInv, TaskBoundOnce
  <2>2. CASE txn'[f] # txn[f] /\ txn'[g] # txn[g]
    BY <2>f, <2>2, <1>1
  <2>3. CASE txn'[f] # txn[f] /\ txn'[g] = txn[g]
    BY <2>f, <2>3, <1>1, BoundTask
  <2>4. CASE txn'[f] = txn[f] /\ txn'[g] # txn[g]
    BY <2>f, <2>4, <1>1, BoundTask
  <2>5. QED
    BY <2>1, <2>2, <2>3, <2>4
<1>3. PairInv'
  <2> SUFFICES ASSUME NEW f \in Local, txn'[f].task # None
               PROVE  \/ txn'[f].task[1] = f
                      \/ txn'[f].task[1] \in Elsewhere
                      \/ /\ txn'[txn'[f].task[1]].state = INTENT
                         /\ txn'[f].task = <<txn'[f].task[1], txn'[txn'[f].task[1]].attempt>>
    BY DEF PairInv, Attempt
  <2>f. f \in Fingerprints
    BY LocalFiles
  <2>1. CASE txn'[f] # txn[f]
    BY <2>f, <2>1, <1>1
  <2>2. CASE txn'[f] = txn[f] /\ txn[f].task[1] # f /\ txn[f].task[1] \notin Elsewhere
    <3>1. PICK u \in TaskIds : u = txn[f].task /\ Ended(u) /\ u[1] \in Fingerprints
      BY <2>f, <2>2, BoundTask, Types
    <3>2. txn[u[1]].state = INTENT /\ u = Attempt(u[1])
      BY <2>2, <3>1 DEF OwnInv, PairInv
    <3>3. ~(u[1] = at[w] /\ Opens(w))
      BY <3>2 DEF Opens, MayPost, VerifiedZero, INTENT, ABSENT, ZERO_RETRY, ZERO_REMOTE
    <3>4. ~(u[1] = at[w] /\ Answers(w))
      BY <3>1, <3>2 DEF Answers, Ended, Requests
    <3>5. txn'[u[1]] = txn[u[1]]
      BY <1>w, <3>1, <3>3, <3>4, CallFrame
    <3>6. QED
      BY <2>2, <3>1, <3>2, <3>5 DEF Attempt
  <2>3. QED
    BY <2>1, <2>2
<1>4. ASSUME NEW r \in Reconcilers, job[r].step \in {"unattributed", "decided"},
             NEW e \in job[r].entries, Current(e)', NEW t \in job[r].rows
      PROVE  t \notin BoundTaskIds' /\ (t[1] \in Local => txn'[t[1]].state # BOUND)
  <2>1. e \in TaskIds /\ Ended(e) /\ t \in Billed
    BY <1>4, Types DEF RInv, EndedInv, JobInv
  <2>2. Current(e)
    BY <1>w, <1>4, <2>1, CallSettled DEF Settled
  <2>3. t \notin BoundTaskIds /\ (t[1] \in Local => txn[t[1]].state # BOUND)
    BY <1>4, <2>2 DEF OwnInv, Unshared
  <2>4. t[1] \in Fingerprints /\ t = <<t[1], txn[t[1]].attempt>> /\ Ended(t) /\ t \in TaskIds
    BY <2>1, BilledIsLast
  <2>5. ASSUME NEW g \in Local, txn'[g].task = t PROVE FALSE
    <3>g. g \in Fingerprints /\ t # None
      BY <2>4, LocalFiles
    <3>1. CASE txn'[g] = txn[g]
      BY <2>3, <2>5, <3>g, <3>1 DEF BoundTaskIds
    <3>2. CASE txn'[g] # txn[g]
      BY <2>4, <2>5, <3>g, <3>2, <1>1
    <3>3. QED
      BY <3>1, <3>2
  <2>6. ASSUME t[1] \in Local, txn'[t[1]].state = BOUND PROVE FALSE
    <3>1. txn'[t[1]] # txn[t[1]]
      BY <2>3, <2>6
    <3>2. t[1] = at[w] /\ Answers(w)
      BY <1>w, <2>4, <2>6, <3>1, CallFrame DEF Opens, INTENT, BOUND
    <3>3. pc[w] \in {"intent", "posting"} /\ Attempt(at[w]) = t
      BY <2>4, <3>2 DEF Answers, Attempt
    <3>4. QED
      BY <2>4, <3>3 DEF Ended, Requests
  <2>7. QED
    BY <2>5, <2>6 DEF BoundTaskIds
<1>5. \A r \in Reconcilers : Unshared(r)'
  BY <1>w, <1>4 DEF Unshared
<1>6. QED
  BY <1>2, <1>3, <1>5 DEF OwnInv

\* Where no file is written, only the rows and the steps of a job matter.
LEMMA OwnFrame ==
  ASSUME OwnInv, txn' = txn, \A r \in Reconcilers : Unshared(r)'
  PROVE  OwnInv'
  BY DEF OwnInv, PairInv, TaskBoundOnce, Attempt

\* A job that is not moved, or that comes to none of the two steps, keeps its rows.
LEMMA UnsharedFrame ==
  ASSUME OwnInv, txn' = txn, NEW r \in Reconcilers,
         \/ job'[r] = job[r]
         \/ job'[r].step \notin {"unattributed", "decided"}
         \/ /\ job[r].step = "unattributed"
            /\ job'[r].entries = job[r].entries /\ job'[r].rows = job[r].rows
  PROVE  Unshared(r)'
<1>1. BoundTaskIds' = BoundTaskIds /\ \A e \in job[r].entries : Current(e)' <=> Current(e)
  BY DEF BoundTaskIds, Current, Lost, Attempt
<1>2. QED
  BY <1>1 DEF OwnInv, Unshared

\* A row that is not bound was not ordered by a bound file of this store.
LEMMA OwnDrop ==
  ASSUME RInv, OwnInv, NEW r \in Reconcilers, DropBoundRows(r)
  PROVE  OwnInv'
<1>1. /\ job[r] \in Jobs /\ job \in [Reconcilers -> Jobs] /\ JobInv(r) /\ job[r].step = "rows"
      /\ txn' = txn
  BY DEF RInv, ReconcileTypeOK, Jobs, DropBoundRows, vars, store
<1>2. /\ job'[r].rows = job[r].rows \ BoundTaskIds
      /\ \A q \in Reconcilers \ {r} : job'[q] = job[q]
  <2> DEFINE j == [job[r] EXCEPT !.step = "unattributed", !.rows = job[r].rows \ BoundTaskIds]
  <2>1. job' = [job EXCEPT ![r] = j]
    BY <1>1 DEF DropBoundRows
  <2>2. j.rows = job[r].rows \ BoundTaskIds
    BY <1>1 DEF Jobs
  <2> HIDE DEF j
  <2>3. QED
    BY <1>1, <2>1, <2>2
<1>3. ASSUME NEW t \in job[r].rows, t \notin BoundTaskIds, t[1] \in Local PROVE txn[t[1]].state # BOUND
  <2> SUFFICES ASSUME txn[t[1]].state = BOUND PROVE FALSE
    OBVIOUS
  <2>1. t[1] \in Fingerprints /\ t = Attempt(t[1]) /\ remote[t] = "finished"
    BY <1>1, BilledIsLast DEF JobInv, Attempt
  <2>2. txn[t[1]].task = t
    BY <2>1 DEF RInv, BindInv, MayCharge
  <2>3. txn[t[1]].task # None
    BY <2>1 DEF RInv, StateInv
  <2>4. QED
    BY <1>3, <2>1, <2>2, <2>3 DEF BoundTaskIds
<1>4. BoundTaskIds' = BoundTaskIds
  BY <1>1 DEF BoundTaskIds
<1>5. Unshared(r)'
  BY <1>1, <1>2, <1>3, <1>4 DEF Unshared
<1>6. QED
  BY <1>1, <1>2, <1>5, OwnFrame, UnsharedFrame

\* The take of a billed row whose file is neither bound nor lost: its call died after the
\* request and before the record.
LEMMA UnrecordedTake ==
  ASSUME RInv, NEW t \in Billed, t[1] \in Local, txn[t[1]].state # BOUND, ~Current(t)
  PROVE  txn[t[1]].state = INTENT
<1>1. t[1] \in Fingerprints /\ t[1] \in Hopsapi /\ t = Attempt(t[1]) /\ ~MayPost(t[1])
  BY BilledIsLast DEF Attempt
<1>2. txn[t[1]].task = None /\ txn[t[1]].state \notin {NO_TASK_ID, INSUFFICIENT}
      /\ txn[t[1]].state \in SubmitStates \cup {ZERO_REMOTE, MANUAL}
  BY <1>1 DEF RInv, StateInv, ReconcileTypeOK
<1>3. txn[t[1]].state \notin {LOST, MANUAL}
  BY <1>1, <1>2 DEF Current, Lost, RECONCILABLE_STATES
<1>4. QED
  BY <1>1, <1>2, <1>3 DEF MayPost, VerifiedZero, SubmitStates

\* An adoption takes a row that nothing is bound to, and leaves no lost entry to a job
\* that might want it too.
LEMMA OwnWrite ==
  ASSUME RInv, OwnInv, LongLost = FALSE, NEW r \in Reconcilers, WriteDecision(r)
  PROVE  OwnInv'
<1>1. job[r] \in Jobs /\ job \in [Reconcilers -> Jobs] /\ job[r].step = "decided" /\ JobInv(r)
  BY DEF RInv, ReconcileTypeOK, Jobs, WriteDecision
<1>2. PICK t \in job[r].entries :
         /\ IF job[r].decision = BOUND
            THEN \E row \in job[r].rows : WriteTransaction(t, BOUND, row)
            ELSE WriteTransaction(t, job[r].decision, None)
         /\ job' = [job EXCEPT ![r] = IF job[r].entries \ {t} = {} THEN NoJob
                                      ELSE [@ EXCEPT !.entries = job[r].entries \ {t}]]
  BY DEF WriteDecision
<1>3. t \in TaskIds
  BY <1>2, Types
<1> DEFINE rest == [job[r] EXCEPT !.entries = job[r].entries \ {t}]
<1>4. /\ rest.entries = job[r].entries \ {t} /\ rest.rows = job[r].rows
  BY <1>1 DEF Jobs
<1>5. job' = [job EXCEPT ![r] = IF job[r].entries \ {t} = {} THEN NoJob ELSE rest]
  BY <1>1, <1>2
<1> HIDE DEF rest
<1>6. /\ \A q \in Reconcilers \ {r} : job'[q] = job[q]
      /\ \/ job[r].entries = {t} /\ job'[r] = NoJob
         \/ job'[r].entries \subseteq job[r].entries /\ job'[r].rows = job[r].rows
                /\ job[r].entries # {t}
  BY <1>1, <1>2, <1>4, <1>5
<1>7. CASE txn' = txn
  <2>1. BoundTaskIds' = BoundTaskIds /\ \A e \in TaskIds : Current(e)' <=> Current(e)
    BY <1>7 DEF BoundTaskIds, Current, Lost, Attempt
  <2>2. ASSUME NEW q \in Reconcilers PROVE Unshared(q)'
    <3>1. CASE q # r
      BY <1>6, <1>7, <3>1, UnsharedFrame
    <3>2. CASE q = r /\ job'[r] = NoJob
      BY <3>2 DEF Unshared, NoJob
    <3>3. CASE q = r /\ job'[r].entries \subseteq job[r].entries /\ job'[r].rows = job[r].rows
      BY <1>1, <1>7, <2>1, <3>3, Types DEF OwnInv, Unshared
    <3>4. QED
      BY <1>6, <3>1, <3>2, <3>3
  <2>3. QED
    BY <1>7, <2>2, OwnFrame
<1>8. CASE job[r].decision # BOUND /\ txn' # txn
  <2>1. PICK d \in {ZERO_REMOTE, MANUAL} : WriteTransaction(t, d, None)
    BY <1>1, <1>2, <1>8 DEF JobInv
  <2>2. /\ Current(t) /\ txn'[t[1]].state = d /\ txn'[t[1]].task = None
        /\ \A f \in Fingerprints : txn'[f].attempt = txn[f].attempt
        /\ \A f \in Fingerprints \ {t[1]} : txn'[f] = txn[f]
        /\ txn[t[1]].state \in {LOST, MANUAL} /\ d # BOUND
    BY <1>3, <1>8, <2>1, SettleEffect DEF BOUND, ZERO_REMOTE, MANUAL
  <2>3. \A u \in TaskIds : Current(u)' => Current(u)
    BY <1>3, <2>1, SettleSettled
  <2>4. TaskBoundOnce'
    BY <2>2, LocalFiles DEF OwnInv, TaskBoundOnce
  <2>5. ASSUME NEW f \in Local, txn'[f].task # None
        PROVE  \/ txn'[f].task[1] = f
               \/ txn'[f].task[1] \in Elsewhere
               \/ /\ txn'[txn'[f].task[1]].state = INTENT
                  /\ txn'[f].task = <<txn'[f].task[1], txn'[txn'[f].task[1]].attempt>>
    <3>1. txn'[f] = txn[f] /\ f \in Fingerprints
      BY <2>2, <2>5, LocalFiles
    <3>2. PICK u \in TaskIds : u = txn[f].task /\ u[1] \in Fingerprints
      BY <2>5, <3>1, BoundTask, Types
    <3>3. u[1] = f \/ u[1] \in Elsewhere \/ (txn[u[1]].state = INTENT /\ u = Attempt(u[1]))
      BY <2>5, <3>1, <3>2 DEF OwnInv, PairInv
    <3>4. txn[u[1]].state = INTENT => u[1] # t[1]
      BY <2>2 DEF INTENT, LOST, MANUAL
    <3>5. QED
      BY <2>2, <3>1, <3>2, <3>3, <3>4 DEF Attempt
  <2>6. PairInv'
    BY <2>5 DEF PairInv, Attempt
  <2>7. BoundTaskIds' \subseteq BoundTaskIds
    BY <2>2, LocalFiles DEF BoundTaskIds
  <2>8. \A f \in Fingerprints : txn'[f].state = BOUND => txn[f].state = BOUND
    BY <2>2
  <2>9. ASSUME NEW q \in Reconcilers PROVE Unshared(q)'
    <3>1. \A u \in job[q].rows : u[1] \in Fingerprints
      BY Types
    <3>2. CASE job'[q] = job[q] \/ (/\ q = r /\ job'[r].entries \subseteq job[r].entries
                                    /\ job'[r].rows = job[r].rows)
      BY <1>1, <2>3, <2>7, <2>8, <3>1, <3>2, Types DEF OwnInv, Unshared
    <3>3. CASE job'[q] = NoJob
      BY <3>3 DEF Unshared, NoJob
    <3>4. QED
      BY <1>6, <3>2, <3>3
  <2>10. QED
    BY <2>4, <2>6, <2>9 DEF OwnInv
<1>9. CASE job[r].decision = BOUND /\ txn' # txn
  <2> DEFINE f == t[1]
  <2>1. PICK row \in job[r].rows : WriteTransaction(t, BOUND, row)
    BY <1>2, <1>9
  <2>2. row \in TaskIds /\ row \in Billed
    BY <1>1, <1>9, <2>1, Types DEF JobInv
  <2>3. /\ Current(t) /\ txn'[f].state = BOUND /\ txn'[f].task = row /\ f \in Fingerprints /\ f \in Local
        /\ \A g \in Fingerprints : txn'[g].attempt = txn[g].attempt
        /\ \A g \in Fingerprints \ {f} : txn'[g] = txn[g]
        /\ txn[f].state \in {LOST, MANUAL}
    BY <1>3, <1>9, <2>1, <2>2, SettleEffect DEF Current, Lost
  <2>4. /\ job[r].entries = {t} /\ \A e \in Seen(r) : Current(e) => e = t
        /\ job'[r] = NoJob
    <3>1. PICK e \in TaskIds : job[r].entries = {e}
      BY <1>1, <1>9 DEF JobInv
    <3>2. QED
      BY <1>1, <1>6, <1>9, <3>1 DEF JobInv, Beyond
  <2>5. row \notin BoundTaskIds /\ (row[1] \in Local => txn[row[1]].state # BOUND)
    BY <1>1, <2>1, <2>3 DEF OwnInv, Unshared
  <2>6. \A u \in TaskIds : Current(u)' => Current(u) /\ u # t
    <3>1. \A u \in TaskIds : Current(u)' => Current(u)
      BY <1>3, <2>1, <2>2, SettleSettled
    <3>2. ~Current(t)'
      BY <2>3 DEF Current, Lost, RECONCILABLE_STATES, BOUND, LOST, MANUAL
    <3>3. QED
      BY <3>1, <3>2
  <2>7. TaskBoundOnce'
    <3>1. \A g \in Local : txn[g].task # row
      BY <2>2, <2>5 DEF BoundTaskIds
    <3>2. QED
      BY <2>3, <3>1, LocalFiles DEF OwnInv, TaskBoundOnce
  <2>8. row[1] = f \/ row[1] \in Elsewhere \/ (txn[row[1]].state = INTENT /\ row = Attempt(row[1]) /\ row[1] \in Fingerprints)
    <3>1. CASE Current(row)
      <4>1. row \in Seen(r)
        BY <2>1 DEF Seen
      <4>2. row = t
        BY <2>4, <3>1, <4>1
      <4>3. QED
        BY <4>2
    <3>2. CASE ~Current(row)
      BY <2>2, <2>5, <3>2, UnrecordedTake, BilledIsLast, LocalFiles DEF Attempt
    <3>3. QED
      BY <3>1, <3>2
  <2>9. ASSUME NEW g \in Local, txn'[g].task # None
        PROVE  \/ txn'[g].task[1] = g
               \/ txn'[g].task[1] \in Elsewhere
               \/ /\ txn'[txn'[g].task[1]].state = INTENT
                  /\ txn'[g].task = <<txn'[g].task[1], txn'[txn'[g].task[1]].attempt>>
    <3>1. CASE g = f
      BY <2>3, <2>8, <3>1 DEF Attempt
    <3>2. CASE g # f
      <4>1. PICK u \in TaskIds : u = txn[g].task /\ txn'[g] = txn[g] /\ u[1] \in Fingerprints
        BY <2>3, <2>9, <3>2, LocalFiles, BoundTask, Types
      <4>2. u[1] = g \/ u[1] \in Elsewhere \/ (txn[u[1]].state = INTENT /\ u = Attempt(u[1]))
        BY <2>9, <4>1 DEF OwnInv, PairInv
      <4>3. txn[u[1]].state = INTENT => u[1] # f
        BY <2>3 DEF INTENT, LOST, MANUAL
      <4>4. QED
        BY <2>3, <4>1, <4>2, <4>3 DEF Attempt
    <3>3. QED
      BY <3>1, <3>2
  <2>10. PairInv'
    BY <2>9 DEF PairInv, Attempt
  <2>11. ASSUME NEW q \in Reconcilers PROVE Unshared(q)'
    <3>1. CASE q = r
      BY <2>4, <3>1 DEF Unshared, NoJob
    <3>2. CASE q # r
      <4>1. job'[q] = job[q]
        BY <1>6, <3>2
      <4>2. \A e \in job[q].entries : e \in TaskIds /\ e \in Seen(r)
        BY Types DEF Seen
      <4>3. \A e \in job[q].entries : ~Current(e)'
        BY <2>4, <2>6, <4>2
      <4>4. QED
        BY <4>1, <4>3 DEF Unshared
    <3>3. QED
      BY <3>1, <3>2
  <2>12. QED
    BY <2>7, <2>10, <2>11 DEF OwnInv
<1>10. QED
  BY <1>7, <1>8, <1>9

LEMMA OwnStep ==
  RInv /\ OwnInv /\ OperatorAdopts = FALSE /\ LongLost = FALSE /\ [ReconcileNext]_allvars => OwnInv'
<1> SUFFICES ASSUME RInv, OwnInv, OperatorAdopts = FALSE, LongLost = FALSE, [ReconcileNext]_allvars PROVE OwnInv'
  OBVIOUS
<1>1. ASSUME txn' = txn, job' = job PROVE OwnInv'
  BY <1>1, UnsharedFrame, OwnFrame
<1>2. ASSUME NEW t \in TaskIds, Remote(t), UNCHANGED settling PROVE OwnInv'
  BY <1>1, <1>2 DEF Remote, Rendered, Advance, store, settling
<1>3. ASSUME NEW r \in Reconcilers, ReadUsage(r) \/ Abandon(r) \/ \E e \in Episodes : ListLost(r, e)
      PROVE  OwnInv'
  <2>1. txn' = txn /\ job \in [Reconcilers -> Jobs]
    BY <1>3 DEF ReadUsage, Abandon, ListLost, vars, store, RInv, ReconcileTypeOK, Jobs
  <2>2. \A q \in Reconcilers \ {r} : job'[q] = job[q]
    BY <1>3, <2>1 DEF ReadUsage, Abandon, ListLost
  <2>3. job'[r].step \in {"off", "listed", "rows"}
    <3>1. CASE Abandon(r)
      BY <2>1, <3>1 DEF Abandon, NoJob
    <3>2. CASE \E e \in Episodes : ListLost(r, e)
      BY <2>1, <3>2, NoJobType DEF ListLost, Jobs
    <3>3. CASE ReadUsage(r)
      BY <2>1, <3>3 DEF ReadUsage, Jobs
    <3>4. QED
      BY <1>3, <3>1, <3>2, <3>3
  <2>4. \A q \in Reconcilers : Unshared(q)'
    BY <2>1, <2>2, <2>3, UnsharedFrame
  <2>5. QED
    BY <2>1, <2>4, OwnFrame
<1>4. ASSUME NEW r \in Reconcilers, Decide(r) PROVE OwnInv'
  <2>1. txn' = txn /\ job \in [Reconcilers -> Jobs] /\ job[r].step = "unattributed"
    BY <1>4 DEF Decide, vars, store, RInv, ReconcileTypeOK, Jobs
  <2>2. PICK d : job' = [job EXCEPT ![r] = [@ EXCEPT !.step = "decided", !.decision = d]]
    BY <1>4, <2>1 DEF Decide
  <2>3. \A q \in Reconcilers \ {r} : job'[q] = job[q]
    BY <2>1, <2>2
  <2>4. job'[r].entries = job[r].entries /\ job'[r].rows = job[r].rows
    BY <2>1, <2>2 DEF Jobs
  <2>5. \A q \in Reconcilers : Unshared(q)'
    BY <2>1, <2>3, <2>4, UnsharedFrame
  <2>6. QED
    BY <2>1, <2>5, OwnFrame
<1>5. ASSUME hand # None PROVE FALSE
  BY <1>5 DEF RInv, HandInv
<1>6. CASE UNCHANGED allvars
  BY <1>1, <1>6 DEF allvars, settling, vars, store
<1>7. QED
  BY <1>2, <1>3, <1>4, <1>5, <1>6, OwnCall, OwnDrop, OwnWrite
     DEF ReconcileNext, Reconcile, AdoptCheck, AdoptWrite

\* Without the operator's adopt and without a response lost for longer than the lookback,
\* a billed take, be it another host's, is bound to one transaction of the store, however the
\* reconcilers of several episodes and the submitters overlap (hopsapi_usage.py:18).
THEOREM BoundToOneTransaction ==
  ASSUME OperatorAdopts = FALSE, LongLost = FALSE
  PROVE  ReconcileSpec => []TaskBoundOnce
<1>1. RInv /\ OwnInv /\ [ReconcileNext]_allvars => OwnInv'
  BY OwnStep
<1>2. OwnInv => TaskBoundOnce
  BY DEF OwnInv
<1>3. QED
  BY <1>1, <1>2, OwnInit, ReconcileInvariant, PTL DEF ReconcileSpec

\* Without the operator's adopt and without a response lost for longer than the lookback,
\* a take ordered from this store is adopted for another order only when the call that
\* ordered it died between its POST and its record (hopsapi_usage.py:28).
THEOREM WrongPairingOnlyAfterCrash ==
  ASSUME OperatorAdopts = FALSE, LongLost = FALSE
  PROVE  ReconcileSpec => []WrongPairingNeedsCrash
<1>1. RInv /\ OwnInv /\ [ReconcileNext]_allvars => OwnInv'
  BY OwnStep
<1>2. OwnInv => WrongPairingNeedsCrash
  BY DEF OwnInv, PairInv, WrongPairingNeedsCrash
<1>3. QED
  BY <1>1, <1>2, OwnInit, ReconcileInvariant, PTL DEF ReconcileSpec
================================================================================
