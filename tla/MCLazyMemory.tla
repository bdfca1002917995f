---------------------------- MODULE MCLazyMemory ----------------------------
(* Finite instances of LazyMemory.                                           *)
EXTENDS LazyMemory

CONSTANTS server, v1, rm

=============================================================================
