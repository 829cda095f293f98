-------------------------- MODULE MCStandalonePins --------------------------
(***************************************************************************)
(* Instances of StandalonePins for TLC: no pin, the branch, a tag on its   *)
(* first commit, the first commit itself, and a ref that does not resolve. *)
(***************************************************************************)
EXTENDS StandalonePins

BranchRef == [kind |-> "branch", at |-> None]
TagRef == [kind |-> "tag", at |-> OnTrunk(1)]
UnknownRef == [kind |-> "unknown", at |-> None]

MCAnyRefs == {None, BranchRef, TagRef, UnknownRef}
=============================================================================
