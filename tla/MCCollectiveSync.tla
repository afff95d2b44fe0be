--------------------------- MODULE MCCollectiveSync ---------------------------
(* Two facts and a revision of the first.                                      *)
EXTENDS CollectiveSync

CONSTANTS e1, e2, r1, u1, c1, c2

TwoEvents  == {e1, e2}
OneReview  == {r1}
OfTheFirst == [r \in OneReview |-> e1]

(* Bound: a fact and its revision, or two facts that share a batch.             *)
TwoRows == Len(queue) <= 2
===============================================================================
