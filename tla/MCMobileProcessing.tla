------------------------- MODULE MCMobileProcessing -------------------------
(* Instances of MobileProcessing for TLC: three jobs, two of one target.   *)
EXTENDS MobileProcessing, TLC

CONSTANTS j1, j2, j3, t1, t2, p1

ThreeJobs    == {j1, j2, j3}
TwoTargets   == {t1, t2}
ThreeTargets == j1 :> t1 @@ j2 :> t1 @@ j3 :> t2
OneProject   == t1 :> p1 @@ t2 :> p1
TwoJobs      == {j1, j2}
TwoOfOne     == j1 :> t1 @@ j2 :> t1
OneTarget    == {t1}
ItsProject   == t1 :> p1

(* The two jobs of t1 differ in nothing. *)
Symmetry == Permutations({j1, j2})
=============================================================================
