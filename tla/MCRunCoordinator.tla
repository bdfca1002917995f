-------------------------- MODULE MCRunCoordinator --------------------------
(* TLC instances of RunCoordinator. *)
EXTENDS RunCoordinator, TLC

CONSTANTS r1, r2, own

TwoRequesters == {r1, r2}
OneRequester == {r1}
RequesterSymmetry == Permutations(TwoRequesters)
=============================================================================
