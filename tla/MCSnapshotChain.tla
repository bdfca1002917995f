-------------------------- MODULE MCSnapshotChain --------------------------
(* Instances of SnapshotChain for TLC.                                       *)
EXTENDS SnapshotChain, TLC

CONSTANTS s1, s2, p1, p2, a, b

MemberSymmetry == Permutations(Members)
FileSymmetry == Permutations(Slots) \cup Permutations(Pages)

=============================================================================
