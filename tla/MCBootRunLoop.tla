--------------------------- MODULE MCBootRunLoop ---------------------------
(* TLC instances of BootRunLoop. *)
EXTENDS BootRunLoop, TLC

CONSTANTS c1, c2, v0, v1

OneCaller == {c1}
TwoCallers == {c1, c2}
OneMember == {v0}
TwoMembers == {v0, v1}
LoopSymmetry == Permutations(TwoCallers)
=============================================================================
