-------------------------------- MODULE Lists --------------------------------
(***************************************************************************)
(* A fold over a list whose step is a function, and the filter of a list   *)
(* by a set: recursive functions, so that their results can be proved.     *)
(***************************************************************************)
EXTENDS Naturals, Sequences, Functions

FoldBy(fn, base, s) == LET acc[n \in 0..Len(s)] == IF n = 0 THEN base ELSE fn[<<acc[n - 1], s[n]>>]
                       IN acc[Len(s)]

\* What the list keeps that is in X, in order.
Keep(s, X) == FoldBy([at \in Seq(Range(s)) \X Range(s) |->
                        IF at[2] \in X THEN Append(at[1], at[2]) ELSE at[1]], <<>>, s)
=============================================================================
