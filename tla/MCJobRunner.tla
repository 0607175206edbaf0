---------------------------- MODULE MCJobRunner -----------------------------
(* Instances of JobRunner for TLC.                                         *)
EXTENDS JobRunner, TLC

CONSTANTS j1, j2, j3, p1, p2, r1, r2

(* An import of p1 that makes two jobs in one commit. *)
ImportPlan    == r1 :> << <<j1, j2>> >>
ImportProject == (j1 :> p1) @@ (j2 :> p1)
ImportType    == (j1 :> "stems") @@ (j2 :> "chords")

(* Two conversion batches over p1 and p2. *)
ConvPlan    == (r1 :> << <<j1>> >>) @@ (r2 :> << <<j2>>, <<j3>> >>)
ConvProject == (j1 :> p1) @@ (j2 :> p1) @@ (j3 :> p2)
ConvType    == [j \in {j1, j2, j3} |-> "convert_audio"]
=============================================================================
