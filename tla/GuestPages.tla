----------------------------- MODULE GuestPages -----------------------------
(* The pages of guest memory that dirty tracking and snapshots speak of.     *)
EXTENDS Integers, FiniteSets

CONSTANTS
    Pages,   \* pages that may ever be guest memory
    Values,  \* what the bytes of a page may be
    Zero     \* the bytes of a fresh page

ASSUME PageConstants == Zero \in Values

ZeroBytes == [p \in Pages |-> Zero]

=============================================================================
