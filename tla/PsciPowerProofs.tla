-------------------------- MODULE PsciPowerProofs --------------------------
(***************************************************************************)
(* Proofs about PsciPower, for every set of CPUs.                          *)
(***************************************************************************)
EXTENDS PsciPower, TLAPS

\* What one CPU record must satisfy for PowerAgreement.
Agrees(c) ==
    /\ c \in CpuState
    /\ c.power = "OnPending" <=> c.on \notin {"None", "AwaitingCallerFailed"}
    /\ c.on = "AwaitingCallerFailed" => c.power = "Off"
    /\ c.off \/ c.suspend => c.power = "On" /\ c.on = "None"
    /\ ~(c.off /\ c.suspend)

\* The inductive invariant: TypeOK and PowerAgreement record by record.
Inv == cpus \in [Cpu -> CpuState] /\ \A i \in Cpu : Agrees(cpus[i])

USE DEF PowerState, OnPhase, CpuState

\* A method only changes the record of the CPU it is called for, so it keeps
\* the invariant if that record still agrees.
LEMMA OneRecord ==
    ASSUME Inv, NEW i \in Cpu, NEW c \in CpuState, Agrees(c),
           cpus' = [cpus EXCEPT ![i] = c]
    PROVE  Inv'
BY DEF Inv, Agrees

\* Every initial topology, fresh or imported from a snapshot, agrees.
LEMMA InitAgrees == Init => Inv
<1> SUFFICES ASSUME Init PROVE Inv
  OBVIOUS
<1>1. \A p \in PowerState : Powered(p) \in CpuState
  BY DEF Powered
<1>2. CASE cpus = [i \in Cpu |-> Powered(IF i = PrimaryCpu THEN "On" ELSE "Off")]
  BY <1>1, <1>2 DEF Inv, Agrees, Powered
<1>3. CASE cpus \in [Cpu -> {Powered("Off"), Powered("On"),
                             [Powered("On") EXCEPT !.suspend = TRUE]}]
  <2>1. /\ Agrees(Powered("Off")) /\ Agrees(Powered("On"))
        /\ Agrees([Powered("On") EXCEPT !.suspend = TRUE])
    BY DEF Agrees, Powered
  <2>2. \A i \in Cpu : Agrees(cpus[i])
    BY <1>3, <2>1
  <2>3. \A i \in Cpu : cpus[i] \in CpuState
    BY <2>2 DEF Agrees
  <2> QED
    BY <1>3, <2>2, <2>3 DEF Inv
<1> QED
  BY <1>2, <1>3 DEF Init

\* Each CPU_ON method keeps the target's record in agreement.
LEMMA CpuOnKeeps ==
    ASSUME Inv, NEW t \in Cpu, CpuOnCall(t)
    PROVE  Inv'
<1> DEFINE c == cpus[t]
<1>0. c \in CpuState /\ Agrees(c)
  BY DEF Inv
<1>1. ASSUME NEW valid \in BOOLEAN, cpus' = begin_cpu_on(cpus, t, valid)
      PROVE  Inv'
  <2>1. CASE CpuOnResponse(cpus, t, valid) # "Pending"
    BY <1>1, <2>1 DEF begin_cpu_on, Inv, Agrees
  <2>2. CASE CpuOnResponse(cpus, t, valid) = "Pending"
    BY <1>0, <1>1, <2>2 DEF begin_cpu_on, CpuOnResponse, Untouched, Inv, Agrees
  <2> QED
    BY <2>1, <2>2
<1>2. ASSUME NEW configured \in BOOLEAN, cpus' = finish_target_setup(cpus, t, configured)
      PROVE  Inv'
  BY <1>0, <1>2 DEF finish_target_setup, Inv, Agrees
<1>3. CASE cpus' = commit_caller_completion(cpus, t)
  BY <1>0, <1>3 DEF commit_caller_completion, Inv, Agrees
<1>4. CASE cpus' = abandon_caller_completion(cpus, t)
  BY <1>0, <1>4 DEF abandon_caller_completion, Inv, Agrees
<1>5. CASE cpus' = mark_target_entered(cpus, t)
  BY <1>0, <1>5 DEF mark_target_entered, Inv, Agrees
<1> QED
  BY <1>1, <1>2, <1>3, <1>4, <1>5 DEF CpuOnCall

\* So does each CPU_OFF method for its caller's record.
LEMMA CpuOffKeeps ==
    ASSUME Inv, NEW i \in Cpu, CpuOffCall(i)
    PROVE  Inv'
<1>0. cpus[i] \in CpuState /\ Agrees(cpus[i])
  BY DEF Inv
<1>1. CASE cpus' = begin_cpu_off(cpus, i)
  BY <1>0, <1>1 DEF begin_cpu_off, CpuOffResponse, Untouched, Inv, Agrees
<1>2. CASE cpus' = abort_cpu_off(cpus, i)
  BY <1>0, <1>2 DEF abort_cpu_off, Inv, Agrees
<1>3. CASE cpus' = commit_cpu_off(cpus, i)
  BY <1>0, <1>3 DEF commit_cpu_off, Inv, Agrees
<1> QED
  BY <1>1, <1>2, <1>3 DEF CpuOffCall

\* And each CPU_SUSPEND method.
LEMMA CpuSuspendKeeps ==
    ASSUME Inv, NEW i \in Cpu, CpuSuspendCall(i)
    PROVE  Inv'
<1>0. cpus[i] \in CpuState /\ Agrees(cpus[i])
  BY DEF Inv
<1>1. CASE cpus' = begin_cpu_suspend(cpus, i)
  BY <1>0, <1>1 DEF begin_cpu_suspend, CanSuspend, Untouched, Inv, Agrees
<1>2. CASE cpus' = abort_cpu_suspend(cpus, i) \/ cpus' = commit_cpu_suspend(cpus, i)
  <2> DEFINE c == [cpus[i] EXCEPT !.suspend = FALSE]
  <2>1. c \in CpuState /\ Agrees(c)
    BY <1>0 DEF Agrees
  <2>2. cpus' = [cpus EXCEPT ![i] = c]
    BY <1>2 DEF abort_cpu_suspend, commit_cpu_suspend, Inv
  <2> QED
    BY <2>1, <2>2, OneRecord
<1> QED
  BY <1>1, <1>2 DEF CpuSuspendCall

(* Every PSCI call, on, off or suspend, committed or aborted, keeps the   *)
(* power table well typed and its transactions in agreement with power.   *)
LEMMA NextKeeps == Inv /\ [Next]_cpus => Inv'
<1> SUFFICES ASSUME Inv, [Next]_cpus PROVE Inv'
  OBVIOUS
<1>1. CASE UNCHANGED cpus
  BY <1>1 DEF Inv, Agrees
<1>2. CASE Next
  BY <1>2, CpuOnKeeps, CpuOffKeeps, CpuSuspendKeeps DEF Next
<1> QED
  BY <1>1, <1>2

\* Power state and transactions of every CPU agree in every state, for any
\* number of CPUs and any order of method calls.
THEOREM PowerAlwaysAgrees == Spec => [](TypeOK /\ PowerAgreement)
<1>1. Inv => TypeOK /\ PowerAgreement
  BY DEF Inv, Agrees, TypeOK, PowerAgreement
<1> QED
  BY <1>1, InitAgrees, NextKeeps, PTL DEF Spec

\* A configured CPU_ON target never falls back to Off before it entered.
THEOREM ConfiguredTargetsEnter == Spec => ConfiguredTargetEnters
<1> DEFINE Kept == \A t \in Cpu :
          cpus[t].on \in {"AwaitingCaller", "CallerCompleted", "CallerAbandoned"} =>
              cpus'[t].power # "Off"
<1>1. Inv /\ [Next]_cpus => [Kept]_cpus
  <2> SUFFICES ASSUME Inv, Next, NEW t \in Cpu,
                      cpus[t].on \in {"AwaitingCaller", "CallerCompleted", "CallerAbandoned"}
               PROVE  cpus'[t].power # "Off"
    OBVIOUS
  <2>0. cpus[t].power = "OnPending" /\ cpus[t] \in CpuState /\ ~cpus[t].off /\ ~cpus[t].suspend
    BY DEF Inv, Agrees
  <2>1. PICK i \in Cpu : CpuOnCall(i) \/ CpuOffCall(i) \/ CpuSuspendCall(i)
    BY DEF Next
  <2>2. CASE CpuOnCall(i)
    <3>0. cpus \in [Cpu -> CpuState]
      BY DEF Inv
    <3>1. ASSUME NEW valid \in BOOLEAN, cpus' = begin_cpu_on(cpus, i, valid)
          PROVE  cpus'[t].power # "Off"
      BY ONLY <2>0, <3>0, <3>1 DEF begin_cpu_on, CpuState
    <3>2. ASSUME NEW configured \in BOOLEAN, cpus' = finish_target_setup(cpus, i, configured)
          PROVE  cpus'[t].power # "Off"
      BY <2>0, <3>0, <3>2 DEF finish_target_setup
    <3>3. CASE cpus' = commit_caller_completion(cpus, i)
      BY <2>0, <3>0, <3>3 DEF commit_caller_completion
    <3>4. CASE cpus' = abandon_caller_completion(cpus, i)
      BY <2>0, <3>0, <3>4 DEF abandon_caller_completion
    <3>5. CASE cpus' = mark_target_entered(cpus, i)
      BY <2>0, <3>0, <3>5 DEF mark_target_entered
    <3> QED
      BY <2>2, <3>1, <3>2, <3>3, <3>4, <3>5, Zenon DEF CpuOnCall
  <2>3. CASE CpuOffCall(i)
    BY <2>0, <2>3 DEF CpuOffCall, begin_cpu_off, abort_cpu_off, commit_cpu_off, Inv
  <2>4. CASE CpuSuspendCall(i)
    BY <2>0, <2>4 DEF CpuSuspendCall, begin_cpu_suspend, abort_cpu_suspend,
       commit_cpu_suspend, Inv
  <2> QED
    BY <2>1, <2>2, <2>3, <2>4
<1> QED
  BY <1>1, InitAgrees, NextKeeps, PTL DEF Spec, ConfiguredTargetEnters

=============================================================================
