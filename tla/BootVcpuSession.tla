-------------------------- MODULE BootVcpuSession --------------------------
(***************************************************************************)
(* The boot session's vCPU owner (crates/hvf/src/session_vcpu.rs) composed *)
(* with the run coordinator and the PSCI power coordinator, driven by the  *)
(* boot run loop of crates/hvf/src/startup.rs.                             *)
(*                                                                         *)
(* The run loop calls run_step; a step dispatches every idle online member,*)
(* receives one event, translates each member result of it into one step   *)
(* (answering PSCI calls on the way) and returns the steps one by one.     *)
(* Each call into the coordinator takes its mutex once, so a control       *)
(* request of another thread fits between any two of them: that is where   *)
(* the actions below are cut.                                              *)
(***************************************************************************)
EXTENDS RunCoordinator

VARIABLES
    cpus,     \* the power coordinator's state
    sess,     \* where the run loop is
    inbox,    \* member results of the event still to be translated
    steps,    \* pending_steps
    job,      \* the PSCI call being processed
    parked,   \* members with a pending_cpu_suspends entry
    stop      \* HvfArm64BootRunLoopStopToken

svars == <<cpus, sess, inbox, steps, job, parked, stop>>
allVars == <<vars, svars>>

Power == INSTANCE PsciPower WITH Cpu <- Member, PrimaryCpu <- 0

NoJob == [at |-> "none", i |-> 0, t |-> 0]
Job == [at : {"none", "activate", "admit", "refuse", "offline", "wake"},
        i : Member, t : Member]
Step == [index : Member, out : Outcome \cup {"Hvc", "Error"}, why : Error]

-----------------------------------------------------------------------------
(* The run loop: run_boot_session_loop_with_observer_inner.                *)

CheckStop ==
    /\ sess = "loop"
    /\ sess' = CASE stop -> "ended"
                 [] ~stop /\ steps # <<>> -> "pop"
                 [] OTHER -> "ready"
    /\ UNCHANGED <<vars, cpus, inbox, steps, job, parked, stop>>

\* run_step with no step left: dispatch_online, then receive_event.
run_step ==
    /\ sess = "ready"
    /\ dispatch_online
    /\ sess' = "run"
    /\ UNCHANGED <<cpus, inbox, steps, job, parked, stop>>

RunStepFails ==
    /\ sess = "run" /\ err # "None"
    /\ sess' = "ended"
    /\ UNCHANGED <<vars, cpus, inbox, steps, job, parked, stop>>

\* The first pending step is returned.  An error or a terminal outcome ends
\* the run loop; everything else only reaches devices.
PopStep ==
    /\ sess = "pop"
    /\ LET s == Head(steps) IN
        /\ err' = s.why
        /\ sess' = IF s.out = "Error" \/ IsTerminal(s.out) THEN "ended" ELSE "loop"
    /\ steps' = Tail(steps)
    /\ UNCHANGED <<phase, drainVars, pending, memberVars, runnerVars, chan,
                   requestVars, owner, task, ctx, todo, event>>
    /\ UNCHANGED <<cpus, inbox, job, parked, stop>>

\* VtimerActivated: handle_run_loop_virtual_timer sets the timer PPI pending
\* on the idle member, a coordinator call that needs Running or Paused.
PopVtimerStep ==
    /\ sess = "pop" /\ Head(steps).out = "Handled"
    /\ err' = OperationError(Head(steps).index, FALSE)
    /\ sess' = IF err' = "None" THEN "loop" ELSE "ended"
    /\ steps' = Tail(steps)
    /\ UNCHANGED <<phase, drainVars, pending, memberVars, runnerVars, chan,
                   requestVars, owner, task, ctx, todo, event>>
    /\ UNCHANGED <<cpus, inbox, job, parked, stop>>

-----------------------------------------------------------------------------
(* enqueue_event and process_member.                                       *)

IsCanceled(c) == c.out \in {"Canceled", "WaitCanceled"}
HasWork(c) == c.out \in Psci \cup {"TimerPending"}

\* barrier_cpu_on_admission, and TRUE for a member event.
CpuOnAdmission ==
    event.kind = "Member" \/ (event.kind = "Barrier" /\ event.reason = "Wakeup")

\* Mutant: no barrier answers PSCI calls.
TranslatedWithoutWork(e) ==
    CASE e.kind = "Member" -> e.results
      [] e.kind = "Barrier" -> {c \in e.results : ~IsCanceled(c) /\ ~HasWork(c)}
      [] OTHER ->
            {c \in e.results : \/ c.index = e.primary
                               \/ ~IsCanceled(c) /\ ~IsTerminal(c.out) /\ ~HasWork(c)}

\* The results an event leaves to translate.  A stop barrier and a terminal
\* report answer no PSCI call; a terminal report keeps only its primary
\* among the terminal results.
Translated(e) ==
    CASE e.kind = "Member" -> e.results
      [] e.kind = "Barrier" ->
            {c \in e.results : ~IsCanceled(c)
                               /\ (e.reason \in {"Stop", "Shutdown"} => ~HasWork(c))}
      [] OTHER ->
            {c \in e.results : \/ c.index = e.primary
                               \/ ~IsCanceled(c) /\ ~IsTerminal(c.out) /\ ~HasWork(c)}

enqueue_event ==
    /\ sess = "run" /\ owner = "out" /\ err = "None"
    /\ inbox' = Translated(event)
    /\ sess' = "translate"
    /\ UNCHANGED <<vars, cpus, steps, job, parked, stop>>

\* Ascending member order, the primary of a terminal report last.
IsNext(c) ==
    \A d \in inbox : LET rank(x) == IF event.kind = "Terminal" /\ x.index = event.primary
                                    THEN N ELSE x.index
                     IN rank(c) <= rank(d)

Translating(c) == sess = "translate" /\ job = NoJob /\ c \in inbox /\ IsNext(c)

\* The member result of index i has become a step.
Pushes(i, out, e) ==
    /\ steps' = Append(steps, [index |-> i, out |-> IF e = "None" THEN out ELSE "Error",
                               why |-> e])
    /\ inbox' = {c \in inbox : c.index # i}
    /\ job' = NoJob
    /\ UNCHANGED <<sess, stop>>

\* What a session action leaves of the coordinator's variables.
CoordinatorKeeps ==
    UNCHANGED <<phase, drainVars, pending, active, nextGen, debt, run, token,
                signal, exits, chan, requestVars, owner, task, ctx, todo, event>>

TranslatePlain(c) ==
    /\ Translating(c) /\ ~HasWork(c)
    /\ Pushes(c.index, c.out, IF c.out = "Err" THEN "Member" ELSE "None")
    /\ UNCHANGED <<vars, cpus, parked>>

\* A barrier ends with a Canceled sentinel step of its last acknowledgement.
SentinelIndex ==
    IF event.results = {} THEN 0
    ELSE CHOOSE i \in Member : /\ \E c \in event.results : c.index = i
                               /\ \A c \in event.results : c.index <= i

TranslateDone ==
    /\ sess = "translate" /\ job = NoJob /\ inbox = {}
    /\ steps' = IF event.kind = "Barrier"
                THEN Append(steps, [index |-> SentinelIndex, out |-> "Canceled",
                                    why |-> "None"])
                ELSE steps
    /\ sess' = "pop"
    /\ UNCHANGED <<vars, cpus, inbox, job, parked, stop>>

\* complete_caller of member i; the power state becomes done if the
\* coordinator allows it and undone if it does not.
complete_caller(i, done, undone) ==
    LET e == OperationError(i, TRUE) IN
    /\ call' = IF e = "None" THEN [call EXCEPT ![i] = "None"] ELSE call
    /\ cpus' = IF e = "None" THEN done ELSE undone
    /\ Pushes(i, "Hvc", e)
    /\ CoordinatorKeeps /\ UNCHANGED <<online, dispatch, err, parked>>

process_affinity_info(c) ==
    /\ Translating(c) /\ c.out = "AffinityInfo"
    /\ complete_caller(c.index, cpus, cpus)

-----------------------------------------------------------------------------
(* process_cpu_on.                                                         *)

\* begin_cpu_on and the target's register configuration, which needs an idle
\* target in a Running or Paused topology.  A call that is complete at once
\* is only answered.
process_cpu_on(c, t, valid) ==
    LET i == c.index
        pending_on == Power!CpuOnResponse(cpus, t, valid) = "Pending"
        configured == CpuOnAdmission /\ OperationError(t, FALSE) = "None"
    IN /\ Translating(c) /\ c.out = "CpuOn"
       /\ \/ ~pending_on /\ complete_caller(i, cpus, cpus)
          \/ /\ pending_on
             /\ cpus' = Power!begin_cpu_on(cpus, t, valid)
             /\ \/ configured /\ job' = [at |-> "activate", i |-> i, t |-> t]
                \/ /\ ~configured \/ "run" \in Faults
                   /\ job' = [at |-> "refuse", i |-> i, t |-> t]
             /\ UNCHANGED <<vars, sess, inbox, steps, parked, stop>>

ActivateTarget ==
    /\ job.at = "activate"
    /\ activate_and_dispatch_member(job.t)
    /\ job' = [job EXCEPT !.at = "admit"]
    /\ UNCHANGED <<cpus, sess, inbox, steps, parked, stop>>

\* The activation failed: the call is left unanswered, its transaction open.
ActivationFails ==
    /\ job.at = "admit" /\ owner = "out" /\ err # "None"
    /\ err' = "None"
    /\ Pushes(job.i, "Hvc", err)
    /\ CoordinatorKeeps /\ UNCHANGED <<online, dispatch, call, cpus, parked>>

\* Mutant: an admitted target is taken for a lost one.
ActivationForgotten ==
    /\ job.at = "admit" /\ owner = "out" /\ err = "None"
    /\ job' = [job EXCEPT !.at = "refuse"]
    /\ UNCHANGED <<vars, cpus, sess, inbox, steps, parked, stop>>

\* A control won before the activation: the target was not submitted.
ActivationLost ==
    /\ job.at = "admit" /\ owner = "out" /\ err = "None"
    /\ active[job.t] = NoGen
    /\ job' = [job EXCEPT !.at = "refuse"]
    /\ UNCHANGED <<vars, cpus, sess, inbox, steps, parked, stop>>

\* The power state of an admitted target whose caller was answered, and of
\* one whose caller could not be (cleanup_admitted_cpu_on).
Admitted(p, t) ==
    Power!mark_target_entered(
        Power!commit_caller_completion(Power!finish_target_setup(p, t, TRUE), t), t)

cleanup_admitted_cpu_on(p, t) ==
    Power!mark_target_entered(
        Power!abandon_caller_completion(Power!finish_target_setup(p, t, TRUE), t), t)

TargetAdmitted ==
    /\ job.at = "admit" /\ owner = "out" /\ err = "None"
    /\ active[job.t] # NoGen
    /\ complete_caller(job.i, Admitted(cpus, job.t),
                       cleanup_admitted_cpu_on(cpus, job.t))

complete_failed_cpu_on ==
    LET failed == Power!finish_target_setup(cpus, job.t, FALSE) IN
    /\ job.at = "refuse"
    /\ complete_caller(job.i, Power!commit_caller_completion(failed, job.t),
                       Power!abandon_caller_completion(failed, job.t))

-----------------------------------------------------------------------------
(* process_cpu_off.  The runner's call is consumed first, scheduling ends  *)
(* second, the power state is committed last.                              *)

process_cpu_off(c) ==
    LET i == c.index
        e == OperationError(i, TRUE)
    IN /\ Translating(c) /\ c.out = "CpuOff"
       /\ \/ /\ Power!CpuOffResponse(cpus, i) # "Pending"
             /\ complete_caller(i, cpus, cpus)
          \/ /\ Power!CpuOffResponse(cpus, i) = "Pending" /\ e = "None"
             /\ call' = [call EXCEPT ![i] = "None"]
             /\ cpus' = Power!begin_cpu_off(cpus, i)
             /\ job' = [at |-> "offline", i |-> i, t |-> i]
             /\ CoordinatorKeeps
             /\ UNCHANGED <<online, dispatch, err, parked, sess, inbox, steps, stop>>
          \/ /\ Power!CpuOffResponse(cpus, i) = "Pending" /\ e # "None"
             /\ Pushes(i, "CpuOff", e)
             /\ UNCHANGED <<vars, cpus, parked>>

RemoveFromScheduling ==
    LET i == job.i
        e == SetOnlineError(i, FALSE)
    IN /\ job.at = "offline"
       /\ online' = IF e = "None" THEN [online EXCEPT ![i] = FALSE] ELSE online
       /\ cpus' = IF e = "None" THEN Power!commit_cpu_off(cpus, i)
                                ELSE Power!abort_cpu_off(cpus, i)
       /\ Pushes(i, "CpuOff", e)
       /\ CoordinatorKeeps /\ UNCHANGED <<dispatch, call, err, parked>>

-----------------------------------------------------------------------------
(* process_cpu_suspend and process_cpu_suspend_wakeup.                     *)

process_cpu_suspend(c) ==
    LET i == c.index
        e == IF i \in parked \/ ~Power!CanSuspend(cpus, i) THEN "Power"
             ELSE SuspendError(i)
    IN /\ Translating(c) /\ c.out = "CpuSuspend"
       /\ IF e = "None"
          THEN /\ dispatch' = [dispatch EXCEPT ![i] = "Suspended"]
               /\ cpus' = Power!begin_cpu_suspend(cpus, i)
               /\ parked' = parked \cup {i}
          ELSE UNCHANGED <<dispatch, cpus, parked>>
       /\ Pushes(i, "CpuSuspend", e)
       /\ CoordinatorKeeps /\ UNCHANGED <<online, call, err>>

process_cpu_suspend_wakeup(c) ==
    LET i == c.index
        e == IF i \notin parked \/ ~cpus[i].suspend THEN "Power"
             ELSE ResumeSuspendedError(i)
    IN /\ Translating(c) /\ c.out = "TimerPending"
       /\ IF e = "None"
          THEN /\ dispatch' = [dispatch EXCEPT ![i] = "Runnable"]
               /\ job' = [at |-> "wake", i |-> i, t |-> i]
               /\ UNCHANGED <<sess, inbox, steps, stop>>
          ELSE Pushes(i, "Hvc", e) /\ UNCHANGED dispatch
       /\ CoordinatorKeeps /\ UNCHANGED <<online, call, err, cpus, parked>>

\* The caller's completion; if it fails the member is suspended again.
CompleteWakeup ==
    LET i == job.i
        e == OperationError(i, TRUE)
    IN /\ job.at = "wake"
       /\ IF e = "None"
          THEN /\ call' = [call EXCEPT ![i] = "None"]
               /\ cpus' = Power!commit_cpu_suspend(cpus, i)
               /\ parked' = parked \ {i}
               /\ UNCHANGED dispatch
          ELSE /\ dispatch' = IF SuspendError(i) = "None"
                              THEN [dispatch EXCEPT ![i] = "Suspended"] ELSE dispatch
               /\ UNCHANGED <<call, cpus, parked>>
       /\ Pushes(i, "Hvc", e)
       /\ CoordinatorKeeps /\ UNCHANGED <<online, err>>

-----------------------------------------------------------------------------
\* request_stop of the run-loop control sets the token, then asks the
\* coordinator.
RequestStop(w) ==
    \/ /\ ~stop /\ asked[w] = "None"
       /\ stop' = TRUE
       /\ UNCHANGED <<vars, cpus, sess, inbox, steps, job, parked>>
    \/ stop /\ Request(w, "Stop") /\ UNCHANGED svars

\* After the run loop ended, the session is dropped.
SessionEnds == sess = "ended" /\ Shutdown /\ UNCHANGED svars

SessionInit ==
    /\ Init /\ phase = "Running"
    /\ cpus = [i \in Member |-> Power!Powered(IF online[i] THEN "On" ELSE "Off")]
    /\ sess = "loop" /\ inbox = {} /\ steps = <<>> /\ job = NoJob
    /\ parked = {} /\ stop = FALSE

SessionStep ==
    \/ CheckStop \/ run_step \/ RunStepFails \/ PopStep \/ PopVtimerStep
    \/ enqueue_event \/ TranslateDone
    \/ \E c \in inbox :
          \/ TranslatePlain(c) \/ process_affinity_info(c)
          \/ \E t \in Member, valid \in BOOLEAN : process_cpu_on(c, t, valid)
          \/ process_cpu_off(c) \/ process_cpu_suspend(c)
          \/ process_cpu_suspend_wakeup(c)
    \/ ActivateTarget \/ ActivationFails \/ ActivationLost \/ TargetAdmitted
    \/ complete_failed_cpu_on \/ RemoveFromScheduling \/ CompleteWakeup
    \/ SessionEnds

SessionNext ==
    \/ SessionStep
    \/ \E i \in Member : Runner(i) /\ UNCHANGED svars
    \/ OwnerGoesOn /\ UNCHANGED svars
    \/ \E w \in Requester : \/ \E r \in Reasons \ {"Stop"} : Request(w, r) /\ UNCHANGED svars
                            \/ "Stop" \in Reasons /\ RequestStop(w)
    \/ Closed /\ UNCHANGED svars

SessionSpec == SessionInit /\ [][SessionNext]_allVars

\* The run loop's thread and the runner threads are scheduled.
SessionFairness ==
    /\ WF_allVars(SessionStep)
    /\ WF_allVars(OwnerGoesOn /\ UNCHANGED svars)
    /\ \A i \in Member :
          WF_allVars((EnterGuest(i) \/ ExitCanceled(i) \/ WaitReturns(i))
                     /\ UNCHANGED svars)

FairSessionSpec == SessionSpec /\ SessionFairness

-----------------------------------------------------------------------------
(* Properties.                                                             *)

\* Every session variable keeps its type.
SessionTypeOK ==
    /\ cpus \in [Member -> Power!CpuState]
    /\ sess \in {"loop", "ready", "run", "translate", "pop", "ended"}
    /\ inbox \subseteq Result /\ steps \in Seq(Step) /\ job \in Job
    /\ parked \subseteq Member /\ stop \in BOOLEAN

NoErrorYet ==
    err = "None" /\ \A k \in 1 .. Len(steps) : steps[k].out # "Error"

\* The coordinator, the power coordinator and the session agree on every
\* member whenever no PSCI call is being processed: what
\* capture_stable_member_disposition checks before a snapshot ("member
\* lifecycle agreement") holds for every reachable topology.
LifecycleAgreement ==
    job = NoJob /\ NoErrorYet =>
        \A i \in Member :
            /\ online[i] <=> cpus[i].power = "On"
            /\ i \in parked <=> dispatch[i] = "Suspended"
            /\ i \in parked <=> cpus[i].suspend
            /\ cpus[i].on = "None" /\ ~cpus[i].off

\* CPU_OFF never powers the last CPU off, also when a CPU_OFF has to be
\* rolled back after its call was consumed.
SomeCpuOn == Power!OnCpus(cpus) # {}

\* The session makes its power calls in an order that keeps the coordinator's
\* transactions in agreement with power: whatever fails between them, no CPU
\* is left OnPending with nobody to start it, and none leaves or suspends
\* while a CPU_ON of it is open.
PowerAgreement == Power!PowerAgreement

\* No guest code runs on a CPU whose power state is Off: a CPU_ON target is
\* submitted only while its transaction is open, and a CPU that left is
\* never dispatched again.
NoRunWhileOff ==
    \A i \in Member : run[i] \in {"queued", "guest", "wait"} => cpus[i].power # "Off"

\* Every PSCI call of a member has been answered, or is retained by a parked
\* CPU_SUSPEND, before the run loop dispatches again: a runner with a pending
\* call refuses an ordinary run and the whole topology would fail.
NoLostCall ==
    sess \in {"loop", "ready"} /\ NoErrorYet /\ phase # "Stopped" =>
        \A i \in Member : call[i] # "None" /\ active[i] = NoGen => i \in parked

\* A control request that is no stop does not end the run loop: "Request an
\* ordinary non-terminal wakeup barrier" (coordinator.rs, request_wakeup),
\* "Wake the boot run loop without requesting guest shutdown" (startup.rs).
\* GenerationExhausted is the model's bound on runs.
WakeupIsNonTerminal ==
    Reasons = {"Wakeup"} /\ Faults = {} => err \in {"None", "GenerationExhausted"}

\* A PSCI call is answered, or its CPU_SUSPEND parked, unless the run loop
\* ends.
PsciCallsAreAnswered ==
    \A i \in Member : call[i] # "None" ~> (call[i] = "None" \/ i \in parked \/ sess = "ended")

=============================================================================
