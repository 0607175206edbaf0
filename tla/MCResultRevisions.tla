------------------------- MODULE MCResultRevisions -------------------------
(***************************************************************************)
(* Instances of ResultRevisions for TLC.                                   *)
(***************************************************************************)
EXTENDS ResultRevisions, TLC

\* No definition tells one content from another but by their being different.
Alike == Permutations(Contents)

=============================================================================
