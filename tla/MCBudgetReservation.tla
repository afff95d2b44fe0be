------------------------ MODULE MCBudgetReservation ------------------------
(* Paid steps of one episode.  Overlap: a later step repeats a task of an   *)
(* earlier one, as a resumed stage does, and a third one is apart.          *)
EXTENDS BudgetReservation, TLC

CONSTANTS s1, s2, s3, a, b, c

Overlap == s1 :> {a, b} @@ s2 :> {b} @@ s3 :> {c}

\* Bounds: only the first step ends beyond the sight of its reservation, and only the
\* repeated task fails after it was bound.
OneLoose ==
    /\ loose \subseteq {s1}
    /\ \A t \in {a, c} : txn[t] # "FAILED"

============================================================================
