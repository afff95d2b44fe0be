---------------------------- MODULE MCVideoBatch ----------------------------
(* Two Giggle tasks, a unit each, over a pool of two threads.               *)
EXTENDS VideoBatch

CONSTANTS t1, t2, w1, w2

TwoTasks     == {t1, t2}
OwnUnit      == [f \in TwoTasks |-> f]
Nobody       == {}
NoSupersedes == [f \in TwoTasks |-> {}]

==============================================================================
