---------------------------- MODULE MCVideoSubmit ----------------------------
(* Two compiled fingerprints of a unit, or of two units of which one is under *)
(* the request binding policy.                                               *)
EXTENDS VideoSubmit, TLC

CONSTANTS fp1, fp2, fp3, fp4, unit, strict, w1, w2

TwoFingerprints == {fp1, fp2}
OneUnit         == {unit}
SameUnit        == [f \in TwoFingerprints |-> unit]
OnlyFirst       == {fp1}
Nobody          == {}
NoSupersedes    == [f \in TwoFingerprints |-> {}]

FourFingerprints == {fp1, fp2, fp3, fp4}
TwoUnits         == {unit, strict}
TwoEach          == [f \in FourFingerprints |-> IF f \in {fp1, fp2} THEN unit ELSE strict]
OneOfEach        == {fp1, fp3}
OnlyStrict       == {strict}
LaterSupersede   == [f \in FourFingerprints |-> IF f = fp2 THEN {fp1} ELSE IF f = fp4 THEN {fp3} ELSE {}]

(* Units share nothing: the pairs of fingerprints are explored one at a time. *)
Ordered  == {f \in Fingerprints : txn[f].attempt > 0 \/ \E w \in Workers : at[w] = f}
OneUnitAtATime == \A f, g \in Ordered : UnitOf[f] = UnitOf[g]

WorkerSymmetry  == Permutations(Workers)
==============================================================================
