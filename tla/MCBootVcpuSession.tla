-------------------------- MODULE MCBootVcpuSession --------------------------
(* TLC instances of BootVcpuSession. *)
EXTENDS BootVcpuSession, TLC

CONSTANTS r1, r2, own

TwoRequesters == {r1, r2}
OneRequester == {r1}
=============================================================================
