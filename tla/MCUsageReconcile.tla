--------------------------- MODULE MCUsageReconcile ---------------------------
(* Two HopsAPI tasks of a unit and an episode each, and one of another host of *)
(* the account, ordered with another key.                                      *)
EXTENDS UsageReconcile, TLC

CONSTANTS a, b, c, r1, r2, w1, ours, theirs

TwoTasks   == {a, b}
AndForeign == {a, b, c}
Foreign    == {c}
OwnUnit    == [f \in Fingerprints |-> f]
Nobody     == {}
NoSupersedes == [f \in Fingerprints |-> {}]
TwoKeys    == {ours, theirs}
KeyOfHost  == [t \in TaskIds |-> IF t[1] = c THEN theirs ELSE ours]

(* Retries and the operator's hand are explored on one task, two tasks without. *)
OneTaskRetried == txn[b].attempt > 0 => hand = None /\ \A f \in Fingerprints : txn[f].attempt <= 1

(* The foreign take is ordered once, with one reconciler, beside tasks that are ordered *)
(* once and not called again when settled.  Its call stays at its intent (its own host's *)
(* settlement is not this store's), and a take that fails is not told from one dropped.  *)
ForeignOnce ==
    txn[c].attempt > 0 =>
        /\ hand = None
        /\ \A f \in Fingerprints : txn[f].attempt <= 1 /\ remote[<<f, 1>>] \notin {"refused", "failed"}
        /\ txn[c].state = INTENT /\ remote[<<c, 1>>] # "dropped"
        /\ \A w \in Workers : outcome[w] \in {"none", "submitted", "failed"}
        /\ \E r \in Reconcilers : job[r] = NoJob

Small == OneTaskRetried /\ ForeignOnce

Reconcilers2 == Permutations(Reconcilers)
=============================================================================
