------------------------------ MODULE PsciPower ------------------------------
(***************************************************************************)
(* The PSCI CPU power coordinator of crates/hvf/src/psci.rs.               *)
(*                                                                         *)
(* Each CPU has a power state and at most one transaction of each kind:    *)
(* CPU_ON (as its target), CPU_OFF and CPU_SUSPEND (as their caller).  The *)
(* methods are functions from coordinator state to coordinator state, so a *)
(* caller that makes several of them without giving up control composes    *)
(* them.  A transaction's token is the transaction itself: a method called *)
(* with a stale token fails without a change, as the code's does.          *)
(***************************************************************************)
EXTENDS Integers, FiniteSets

CONSTANTS
    Cpu,        \* the topology's CPUs
    PrimaryCpu  \* the CPU that is on at reset

VARIABLE cpus   \* PsciCpuPowerCoordinator.cpus

PowerState == {"Off", "OnPending", "On"}
OnPhase == {"None", "AwaitingTargetSetup", "AwaitingCaller",
            "AwaitingCallerFailed", "CallerCompleted", "CallerAbandoned"}
CpuState == [power : PowerState, on : OnPhase, off : BOOLEAN, suspend : BOOLEAN]

Powered(p) == [power |-> p, on |-> "None", off |-> FALSE, suspend |-> FALSE]
Untouched(c) == c.on = "None" /\ ~c.off /\ ~c.suspend
OnCpus(p) == {j \in Cpu : p[j].power = "On"}

-----------------------------------------------------------------------------
(* CPU_ON.  valid: the target is a CPU and the entry point is acceptable.  *)

CpuOnResponse(p, t, valid) ==
    CASE ~valid -> "InvalidParameters"
      [] p[t].power = "On" -> "AlreadyOn"
      [] p[t].power = "OnPending" -> "OnPending"
      [] ~Untouched(p[t]) -> "InternalFailure"
      [] OTHER -> "Pending"

begin_cpu_on(p, t, valid) ==
    IF CpuOnResponse(p, t, valid) # "Pending" THEN p
    ELSE [p EXCEPT ![t].power = "OnPending", ![t].on = "AwaitingTargetSetup"]

\* Mutant: a setup that failed leaves the target pending.
finish_target_setup_pending(p, t, configured) ==
    IF p[t].on # "AwaitingTargetSetup" THEN p
    ELSE [p EXCEPT ![t].on = IF configured THEN "AwaitingCaller" ELSE "AwaitingCallerFailed"]

finish_target_setup(p, t, configured) ==
    IF p[t].on # "AwaitingTargetSetup" THEN p
    ELSE IF configured THEN [p EXCEPT ![t].on = "AwaitingCaller"]
    ELSE [p EXCEPT ![t].power = "Off", ![t].on = "AwaitingCallerFailed"]

commit_caller_completion(p, t) ==
    CASE p[t].on = "AwaitingCaller" -> [p EXCEPT ![t].on = "CallerCompleted"]
      [] p[t].on = "AwaitingCallerFailed" -> [p EXCEPT ![t].on = "None"]
      [] OTHER -> p

abandon_caller_completion(p, t) ==
    CASE p[t].on = "AwaitingTargetSetup" ->
            [p EXCEPT ![t].power = "Off", ![t].on = "None"]
      [] p[t].on = "AwaitingCaller" -> [p EXCEPT ![t].on = "CallerAbandoned"]
      [] p[t].on = "AwaitingCallerFailed" -> [p EXCEPT ![t].on = "None"]
      [] OTHER -> p

\* Mutant: the entered target keeps its transaction.
mark_target_entered_open(p, t) ==
    IF p[t].on \notin {"CallerCompleted", "CallerAbandoned"} THEN p
    ELSE [p EXCEPT ![t].power = "On"]

mark_target_entered(p, t) ==
    IF p[t].on \notin {"CallerCompleted", "CallerAbandoned"} THEN p
    ELSE [p EXCEPT ![t].power = "On", ![t].on = "None"]

-----------------------------------------------------------------------------
(* CPU_OFF and CPU_SUSPEND.                                                *)

\* Mutant: the last powered CPU may leave.
CpuOffResponseUndenied(p, i) ==
    CASE p[i].power # "On" \/ ~Untouched(p[i]) -> "InternalFailure"
      [] OTHER -> "Pending"

CpuOffResponse(p, i) ==
    CASE p[i].power # "On" \/ ~Untouched(p[i]) -> "InternalFailure"
      [] Cardinality(OnCpus(p)) <= 1 -> "Denied"
      [] OTHER -> "Pending"

begin_cpu_off(p, i) ==
    IF CpuOffResponse(p, i) # "Pending" THEN p ELSE [p EXCEPT ![i].off = TRUE]

abort_cpu_off(p, i) == [p EXCEPT ![i].off = FALSE]

commit_cpu_off(p, i) ==
    IF p[i].off THEN [p EXCEPT ![i].power = "Off", ![i].off = FALSE] ELSE p

CanSuspend(p, i) == p[i].power = "On" /\ Untouched(p[i])

begin_cpu_suspend(p, i) ==
    IF CanSuspend(p, i) THEN [p EXCEPT ![i].suspend = TRUE] ELSE p

abort_cpu_suspend(p, i) == [p EXCEPT ![i].suspend = FALSE]

commit_cpu_suspend(p, i) == [p EXCEPT ![i].suspend = FALSE]

-----------------------------------------------------------------------------
(* The coordinator on its own: any method may be called in any order.      *)

\* new, or from_stable_paused_topology after a snapshot was loaded.
Init ==
    \/ cpus = [i \in Cpu |-> Powered(IF i = PrimaryCpu THEN "On" ELSE "Off")]
    \/ /\ cpus \in [Cpu -> {Powered("Off"), Powered("On"),
                            [Powered("On") EXCEPT !.suspend = TRUE]}]
       /\ cpus[PrimaryCpu].power = "On"

CpuOnCall(t) ==
    \/ \E valid \in BOOLEAN : cpus' = begin_cpu_on(cpus, t, valid)
    \/ \E configured \in BOOLEAN : cpus' = finish_target_setup(cpus, t, configured)
    \/ cpus' = commit_caller_completion(cpus, t)
    \/ cpus' = abandon_caller_completion(cpus, t)
    \/ cpus' = mark_target_entered(cpus, t)

CpuOffCall(i) ==
    \/ cpus' = begin_cpu_off(cpus, i)
    \/ cpus' = abort_cpu_off(cpus, i)
    \/ cpus' = commit_cpu_off(cpus, i)

CpuSuspendCall(i) ==
    \/ cpus' = begin_cpu_suspend(cpus, i)
    \/ cpus' = abort_cpu_suspend(cpus, i)
    \/ cpus' = commit_cpu_suspend(cpus, i)

Next == \E i \in Cpu : CpuOnCall(i) \/ CpuOffCall(i) \/ CpuSuspendCall(i)

Spec == Init /\ [][Next]_cpus

-----------------------------------------------------------------------------
(* Properties.                                                             *)

\* Every CPU record keeps its type.
TypeOK == cpus \in [Cpu -> CpuState]

\* Power state and transactions agree, whatever order the methods are called
\* in and however often stale tokens are used: a CPU is OnPending exactly
\* while a CPU_ON transaction can still start it, a failed setup leaves it
\* Off, and only a powered CPU is leaving or suspended, never both.
PowerAgreement ==
    \A i \in Cpu : LET c == cpus[i] IN
        /\ c.power = "OnPending" <=> c.on \notin {"None", "AwaitingCallerFailed"}
        /\ c.on = "AwaitingCallerFailed" => c.power = "Off"
        /\ c.off \/ c.suspend => c.power = "On" /\ c.on = "None"
        /\ ~(c.off /\ c.suspend)

\* Once a CPU_ON target has been configured and admitted it never falls back
\* to Off before it entered the guest, not even when its caller is abandoned.
ConfiguredTargetEnters ==
    [][\A t \in Cpu :
          cpus[t].on \in {"AwaitingCaller", "CallerCompleted", "CallerAbandoned"} =>
              cpus'[t].power # "Off"]_cpus

=============================================================================
