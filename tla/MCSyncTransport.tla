-------------------------- MODULE MCSyncTransport --------------------------
(* Two projects with one content in common, one deletion, a lane that     *)
(* holds one task, and an artifact that fits the budget only alone.        *)
EXTENDS SyncTransport

CONSTANTS p1, p2, d1, a1, a2, a3, common, other

TwoProjects == <<p1, p2>>
OneDeletion == <<d1>>
RoundRobin  == <<a1, a3, a2>>
OwnerOf     == a1 :> p1 @@ a2 :> p1 @@ a3 :> p2
ContentOf   == a1 :> common @@ a2 :> other @@ a3 :> common
\* In the second sizing, one artifact never fits the budget.
Fitting     == a1 :> 1 @@ a2 :> 2 @@ a3 :> 1
TooLarge    == a1 :> 1 @@ a2 :> 4 @@ a3 :> 1
\* Staged is nothing, or the common content for the second project.
Nothing     == common :> {} @@ other :> {}
ForSecond   == common :> {a3} @@ other :> {}
MCStarts    == {[role |-> "initiator", size |-> Fitting, staged |-> Nothing],
                [role |-> "initiator", size |-> Fitting, staged |-> ForSecond],
                [role |-> "responder", size |-> Fitting, staged |-> ForSecond],
                [role |-> "responder", size |-> TooLarge, staged |-> ForSecond]}
=============================================================================
