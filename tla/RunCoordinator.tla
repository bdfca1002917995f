--------------------------- MODULE RunCoordinator ---------------------------
(***************************************************************************)
(* The concurrent vCPU run coordinator of crates/hvf/src/coordinator.rs.   *)
(*                                                                         *)
(* One coordinator owns an ordered topology of vCPU members.  Its owning   *)
(* thread (the boot run loop) submits one bounded run per online member    *)
(* and collects completions; each member's runner thread executes the run  *)
(* in Hypervisor.framework (HVF); any thread may request a control barrier *)
(* (wakeup, pause, stop) that freezes submission, cancels exactly the runs *)
(* active at that moment, and is answered when all of them have responded. *)
(*                                                                         *)
(* Every critical section of the coordinator's state mutex is one action.  *)
(* Where a method releases the mutex and takes it again, the owner thread  *)
(* has an intermediate control state, so requests interleave there.        *)
(***************************************************************************)
EXTENDS Integers, Sequences, FiniteSets

CONSTANTS
    N,              \* number of vCPU members; indexes are 0 .. N-1
    MaxGeneration,  \* stands for u64::MAX, the last run generation
    Requester,      \* control requests made by other threads, one use each
    Owner,          \* the owner thread's own requests (pause, shutdown)
    Reasons,        \* control reasons the other threads may request
    Faults,         \* external failures that may happen, see FaultKind
    Natural,        \* outcomes a guest may cause, see GuestOutcome
    Online0,        \* members online when the coordinator is built
    LimitParks      \* may a step limit end the run loop with runs active, and
                    \* a snapshot pause be commanded then?

Reason == {"Wakeup", "Pause", "Stop", "Shutdown"}
FaultKind == {"submit", "cancel", "run", "topology"}
Psci == {"CpuOn", "CpuOff", "CpuSuspend", "AffinityInfo"}
GuestOutcome == {"Handled", "Unknown", "GuestReset", "GuestShutdown"} \cup Psci
Outcome == GuestOutcome \cup {"Canceled", "WaitCanceled", "TimerPending", "Err"}

ASSUME SizeAssumption == N \in Nat \ {0} /\ MaxGeneration \in Nat \ {0}
ASSUME InputAssumption ==
    /\ LimitParks \in BOOLEAN
    /\ Reasons \subseteq Reason \ {"Shutdown"}
    /\ Faults \subseteq FaultKind
    /\ Natural \subseteq GuestOutcome
    /\ Owner \notin Requester

Member == 0 .. N - 1
Waiter == Requester \cup {Owner}
Generation == 0 .. MaxGeneration    \* 0 stands for None
NoGen == 0

ASSUME OnlineAssumption == Online0 \subseteq Member

VARIABLES
    phase,      \* CoordinatorState.phase, the drain's fields kept apart
    kind,       \* DrainState.reason: its variant, "None" outside Draining
    reason,     \* DrainState.reason: the control reason it carries
    remaining,  \* DrainState.remaining: tokens still to respond
    acks,       \* DrainState.acknowledgements
    waiters,    \* DrainState.waiters
    pending,    \* CoordinatorState.pending_events: barriers without acks
    online, dispatch, active, nextGen, debt,   \* MemberState, per member
    run,        \* what the runner thread does with its command
    token,      \* generation of the run the runner thread executes
    signal,     \* RetainedVtimerWaitSignal of the runner
    exits,      \* members for which HVF holds a pending next-run exit
    call,       \* RunnerHandleState.pending_psci_call
    chan,       \* the completion channel
    answer, asked, snap,   \* each requester: its waiter's result, its
                           \* reason, the tokens its barrier waits for
    owner,      \* control state of the owner thread
    task,       \* the operation the owner thread is in
    ctx, todo,  \* the caller of submit_indexes and its indexes
    event,      \* the last event receive_event returned
    err         \* the error the owner's operation returned

drainVars == <<kind, reason, remaining, acks, waiters>>
memberVars == <<online, dispatch, active, nextGen, debt>>
runnerVars == <<run, token, signal, exits, call>>
requestVars == <<answer, asked, snap>>
ownerVars == <<owner, task, ctx, todo, event, err>>
vars == <<phase, drainVars, pending, memberVars, runnerVars, chan,
          requestVars, ownerVars>>

Phase == {"Running", "Draining", "Paused", "Stopped", "Failed", "ShutDown"}
DrainKind == {"None", "Control", "Terminal", "Superseded", "Submission"}
Token == Member \X Generation
Result == [index : Member, gen : Generation, out : Outcome]
EventKind == {"None", "Member", "Barrier", "Terminal"}
NoEvent == [kind |-> "None", reason |-> "None", results |-> {}, primary |-> -1]
Error == {"None", "RunningPhaseRequired", "PausedPhaseRequired",
          "CompletionIdentity", "DispatchMismatch", "ActiveMemberState",
          "GenerationExhausted", "Submission", "BatchCancel", "NotIdle",
          "OfflineDebt", "NotRunnable", "UnexpectedDrain", "Snapshot",
          "PsciToken", "Topology", "Member", "Power"}

-----------------------------------------------------------------------------
(* Control reasons and results.                                            *)

priority == [r \in Reason |-> CASE r = "Wakeup" -> 0 [] r = "Pause" -> 1
                                [] r = "Stop" -> 2 [] OTHER -> 3]

\* Mutant: the later reason replaces the earlier one.
max_latest(a, b) == b

max(a, b) == IF priority[a] >= priority[b] THEN a ELSE b

phase_after_control(r) == CASE r = "Wakeup" -> "Running"
                            [] r = "Pause" -> "Paused"
                            [] OTHER -> "Stopped"

\* A result that ends the topology, and how the primary one is chosen.
terminal_priority(out) == CASE out = "Err" -> 0
                            [] out = "Unknown" -> 1
                            [] out = "GuestReset" -> 2
                            [] out = "GuestShutdown" -> 3
                            [] OTHER -> 4

IsTerminal(out) == out \in {"Err", "Unknown", "GuestReset", "GuestShutdown"}

\* Mutant: a cancellation settles only debts of earlier generations.
acknowledges_only_older_debt(c, d) ==
    \/ c.out = "Canceled" /\ d < c.gen
    \/ c.out = "WaitCanceled" /\ d = c.gen

\* A canceled HVF run settles any debt up to its own generation; a canceled
\* retained wait settles only the debt of that very wait.
acknowledges_cancellation_debt(c, d) ==
    \/ c.out = "Canceled" /\ d <= c.gen
    \/ c.out = "WaitCanceled" /\ d = c.gen

\* The terminal result with the least (priority, index).
terminal_report(rs) ==
    (CHOOSE p \in rs :
        /\ IsTerminal(p.out)
        /\ \A q \in rs : IsTerminal(q.out) =>
              \/ terminal_priority(p.out) < terminal_priority(q.out)
              \/ /\ terminal_priority(p.out) = terminal_priority(q.out)
                 /\ p.index <= q.index).index

active_tokens == {<<i, active[i]>> : i \in {j \in Member : active[j] # NoGen}}
ActiveMembers == {i \in Member : active[i] # NoGen}

-----------------------------------------------------------------------------
(* Cancellation: record_cancellation_debts and the batch exit of           *)
(* cancel_vcpu_run_batch_with, applied to the runs r with signals sg.      *)

DebtsFor(S, act) ==
    [i \in Member |-> IF i \in S /\ debt[i] = NoGen THEN act[i] ELSE debt[i]]

\* Mutant: a run still queued in its runner gets no exit.
NeedsExitInGuest(S, r, sg) == {i \in S : r[i] = "guest" \/ sg[i] = "TimerWon"}

\* A retained wait is canceled through its signal; every other member, and a
\* wait whose timer has won, needs the HVF exit.
NeedsExit(S, r, sg) == {i \in S : r[i] # "wait" \/ sg[i] = "TimerWon"}

CanceledSignals(S, r, sg) ==
    [i \in Member |-> IF i \in S /\ r[i] = "wait" /\ sg[i] = "Pending"
                      THEN "Canceled" ELSE sg[i]]

BatchCancel(S, r, sg) ==
    /\ exits' = exits \cup NeedsExit(S, r, sg)
    /\ signal' = CanceledSignals(S, r, sg)

\* hv_vcpus_exit itself fails; the signals were already changed.
BatchCancelFails(S, r, sg) ==
    /\ "cancel" \in Faults
    /\ NeedsExit(S, r, sg) # {}
    /\ signal' = CanceledSignals(S, r, sg)
    /\ UNCHANGED exits

StartDrain(k, rsn, toks, as, ws) ==
    /\ phase' = "Draining"
    /\ kind' = k /\ reason' = rsn
    /\ remaining' = toks /\ acks' = as /\ waiters' = ws

EndDrain(p) ==
    /\ phase' = p
    /\ kind' = "None" /\ reason' = "Wakeup"
    /\ remaining' = {} /\ acks' = {} /\ waiters' = {}

-----------------------------------------------------------------------------
(* HvfVcpuRunControl::request, one disjunct per path through it.           *)

Asks(w, r, toks, a) ==
    /\ asked' = [asked EXCEPT ![w] = r]
    /\ snap' = [snap EXCEPT ![w] = toks]
    /\ answer' = [answer EXCEPT ![w] = a]

\* An undelivered barrier absorbs the request.
RequestCoalesces(w, r) ==
    /\ phase \in {"Running", "Paused", "Stopped"}
    /\ pending # <<>>
    /\ LET m == max(pending[Len(pending)], r) IN
         /\ pending' = [pending EXCEPT ![Len(pending)] = m]
         /\ phase' = phase_after_control(m)
    /\ Asks(w, r, {}, "Ok")
    /\ UNCHANGED <<drainVars, debt, signal, exits>>

\* Mutant: a request joining a drain is acknowledged at once.
RequestJoinsAnswered(w, r) ==
    /\ phase = "Draining" /\ kind = "Control"
    /\ reason' = max(reason, r)
    /\ waiters' = waiters \cup {w}
    /\ Asks(w, r, remaining, "Ok")
    /\ UNCHANGED <<phase, kind, remaining, acks, pending, debt, signal, exits>>

RequestJoinsDrain(w, r) ==
    /\ phase = "Draining" /\ kind = "Control"
    /\ reason' = max(reason, r)
    /\ waiters' = waiters \cup {w}
    /\ Asks(w, r, remaining, "Waiting")
    /\ UNCHANGED <<phase, kind, remaining, acks, pending, debt, signal, exits>>

RequestWhileQuiet(w, r) ==
    /\ pending = <<>>
    /\ \/ phase = "Paused"
       \/ phase = "Stopped" /\ r \in {"Stop", "Shutdown"}
    /\ phase' = IF r \in {"Stop", "Shutdown"} THEN "Stopped" ELSE phase
    /\ Asks(w, r, {}, "Ok")
    /\ UNCHANGED <<drainVars, pending, debt, signal, exits>>

RequestRejected(w, r) ==
    /\ \/ phase = "Draining" /\ kind # "Control"
       \/ phase = "Stopped" /\ pending = <<>> /\ r \in {"Wakeup", "Pause"}
       \/ phase \in {"Failed", "ShutDown"}
    /\ Asks(w, r, {}, "Err")
    /\ UNCHANGED <<phase, drainVars, pending, debt, signal, exits>>

RequestFindsNoRun(w, r) ==
    /\ phase = "Running" /\ pending = <<>> /\ active_tokens = {}
    /\ phase' = phase_after_control(r)
    /\ pending' = Append(pending, r)
    /\ Asks(w, r, {}, "Ok")
    /\ UNCHANGED <<drainVars, debt, signal, exits>>

RequestStartsDrain(w, r) ==
    /\ phase = "Running" /\ pending = <<>> /\ active_tokens # {}
    /\ debt' = DebtsFor(ActiveMembers, active)
    /\ \/ /\ BatchCancel(ActiveMembers, run, signal)
          /\ StartDrain("Control", r, active_tokens, {}, {w})
          /\ Asks(w, r, active_tokens, "Waiting")
       \/ /\ BatchCancelFails(ActiveMembers, run, signal)
          /\ EndDrain("Failed")
          /\ Asks(w, r, active_tokens, "Err")
    /\ UNCHANGED pending

request(w, r) ==
    /\ \/ RequestCoalesces(w, r)
       \/ RequestJoinsDrain(w, r)
       \/ RequestWhileQuiet(w, r)
       \/ RequestRejected(w, r)
       \/ RequestFindsNoRun(w, r)
       \/ RequestStartsDrain(w, r)
    /\ UNCHANGED <<online, dispatch, active, nextGen, run, token, call, chan>>

\* request_wakeup, request_pause and request_stop from another thread.
Request(w, r) ==
    /\ asked[w] = "None"
    /\ request(w, r)
    /\ UNCHANGED ownerVars

-----------------------------------------------------------------------------
(* The runner threads and HVF.                                             *)

Completes(i, out) ==
    /\ run' = [run EXCEPT ![i] = "idle"]
    /\ chan' = Append(chan, [index |-> i, gen |-> token[i], out |-> out])
    /\ UNCHANGED <<phase, drainVars, pending, memberVars, token, requestVars,
                   ownerVars>>

\* hv_vcpu_run enters the guest unless an exit is already pending.
EnterGuest(i) ==
    /\ run[i] = "queued" /\ i \notin exits
    /\ run' = [run EXCEPT ![i] = "guest"]
    /\ UNCHANGED <<phase, drainVars, pending, memberVars, token, signal, exits,
                   call, chan, requestVars, ownerVars>>

\* HVF consumes the pending exit: it is a flag, not a counter.
ExitCanceled(i) ==
    /\ run[i] \in {"queued", "guest"} /\ i \in exits
    /\ exits' = exits \ {i}
    /\ Completes(i, "Canceled")
    /\ UNCHANGED <<signal, call>>

\* A guest exit; it may win against an exit request, which then stays
\* pending for the member's next run.  A PSCI call for the coordinator stays
\* recorded in the runner (record_coordinated_psci_pending).
ExitNaturally(i, out) ==
    /\ run[i] = "guest"
    /\ call' = IF out \in Psci THEN [call EXCEPT ![i] = out] ELSE call
    /\ Completes(i, out)
    /\ UNCHANGED <<signal, exits>>

RunFails(i) ==
    /\ "run" \in Faults
    /\ run[i] \in {"queued", "guest", "wait"}
    /\ signal' = [signal EXCEPT ![i] = "None"]
    /\ Completes(i, "Err")
    /\ UNCHANGED <<exits, call>>

\* wait_for_retained_vtimer_on_runner_thread: the deadline is due while the
\* signal is still pending.
TimerDue(i) ==
    /\ run[i] = "wait" /\ signal[i] = "Pending"
    /\ signal' = [signal EXCEPT ![i] = "TimerWon"]
    /\ UNCHANGED <<phase, drainVars, pending, memberVars, run, token, exits,
                   call, chan, requestVars, ownerVars>>

WaitReturns(i) ==
    /\ run[i] = "wait" /\ signal[i] \in {"Canceled", "TimerWon"}
    /\ signal' = [signal EXCEPT ![i] = "None"]
    /\ Completes(i, IF signal[i] = "Canceled" THEN "WaitCanceled"
                                              ELSE "TimerPending")
    /\ UNCHANGED <<exits, call>>

-----------------------------------------------------------------------------
(* The owner thread: submission.  owner is "out" between operations,       *)
(* "submit" before the second lock of a submitting method, "recv" and      *)
(* "blocked" inside receive_event, "pausing" before request_pause,         *)
(* "paused" from a snapshot pause (or a restore) until resume, "closing"   *)
(* and "topology" inside shutdown.                                         *)

IdleOnline == {i \in Member : online[i] /\ active[i] = NoGen}

\* An error a run step returns ends the run loop: the owner then only shuts
\* down.  After a failed snapshot pause the caller still resumes the source,
\* and shutdown goes on to the runner topology.
OwnerFails(e) ==
    /\ owner' = CASE task = "step" -> "out"
                  [] task = "snapshot" -> "paused"
                  [] OTHER -> "topology"
    /\ err' = IF task = "step" THEN e ELSE err

dispatch_online ==
    /\ owner = "out" /\ err = "None"
    /\ task' = "step" /\ ctx' = "dispatch"
    /\ \/ /\ pending # <<>>
          /\ owner' = "recv"
          /\ UNCHANGED <<todo, err>>
       \/ /\ pending = <<>> /\ phase = "Running"
          /\ todo' = IdleOnline
          /\ owner' = "submit"
          /\ UNCHANGED err
       \/ /\ pending = <<>> /\ phase # "Running"
          /\ err' = "RunningPhaseRequired"
          /\ UNCHANGED <<owner, todo>>
    /\ UNCHANGED <<phase, drainVars, pending, memberVars, runnerVars, chan,
                   requestVars, event>>

\* An empty wakeup barrier is consumed here.  The queue never holds a second
\* event (BarrierQueueBound), so one pop is the whole loop.
prepare_snapshot_pause ==
    /\ owner = "out" /\ err = "None"
    /\ task' = "snapshot" /\ ctx' = "prepare"
    /\ LET drops == phase = "Running" /\ pending # <<>> /\ Head(pending) = "Wakeup"
           rest == IF drops THEN Tail(pending) ELSE pending
           clean == \A i \in Member : active[i] = NoGen /\ debt[i] = NoGen
       IN /\ pending' = rest
          /\ todo' = {i \in IdleOnline : debt[i] # NoGen}
          /\ owner' = CASE rest = <<>> /\ phase = "Running" -> "submit"
                        [] rest = <<>> /\ phase = "Paused" /\ clean -> "pausing"
                        [] OTHER -> "paused"
    /\ UNCHANGED <<phase, drainVars, memberVars, runnerVars, chan, requestVars,
                   event, err>>

activate_and_dispatch_member(i) ==
    /\ owner = "out" /\ err = "None"
    /\ task' = "step" /\ ctx' = "activate" /\ todo' = {i} /\ owner' = "submit"
    /\ UNCHANGED <<phase, drainVars, pending, memberVars, runnerVars, chan,
                   requestVars, event, err>>

(* submit_indexes.  The indexes are taken in ascending order under one     *)
(* lock; the first that cannot be submitted ends the loop.                 *)

Activating(i) == ctx = "activate" /\ ~online[i]

Submittable(i) ==
    /\ online[i] \/ Activating(i)
    /\ active[i] = NoGen
    /\ ctx = "activate" => Activating(i) /\ dispatch[i] = "Runnable"

\* A runner with a pending PSCI call refuses an ordinary run, and starts a
\* retained wait only for that call.
Accepts(i) == call[i] = IF dispatch[i] = "Runnable" THEN "None" ELSE "CpuSuspend"

Ready(i) == Submittable(i) /\ nextGen[i] < MaxGeneration /\ Accepts(i)

RunOf(S) == [i \in Member |-> IF i \notin S THEN run[i]
                              ELSE IF dispatch[i] = "Runnable" THEN "queued"
                              ELSE "wait"]
SignalOf(S) == [i \in Member |-> IF i \in S /\ dispatch[i] # "Runnable"
                                 THEN "Pending" ELSE signal[i]]
ActiveOf(S) == [i \in Member |-> IF i \in S THEN nextGen[i] ELSE active[i]]

\* Mutant: the runner is handed the previous generation.
SubmitsStaleToken(S) ==
    /\ active' = ActiveOf(S)
    /\ nextGen' = [i \in Member |-> IF i \in S THEN nextGen[i] + 1 ELSE nextGen[i]]
    /\ online' = [i \in Member |-> IF i \in S THEN TRUE ELSE online[i]]
    /\ token' = [i \in Member |-> IF i \in S THEN nextGen[i] - 1 ELSE token[i]]
    /\ run' = RunOf(S)

Submits(S) ==
    /\ active' = ActiveOf(S)
    /\ nextGen' = [i \in Member |-> IF i \in S THEN nextGen[i] + 1 ELSE nextGen[i]]
    /\ online' = [i \in Member |-> IF i \in S THEN TRUE ELSE online[i]]
    /\ token' = [i \in Member |-> IF i \in S THEN nextGen[i] ELSE token[i]]
    /\ run' = RunOf(S)

Before(k) == {j \in todo : j < k}

\* Where the owner goes on after submit_indexes returned normally; all says
\* whether it admitted every index.
AfterSubmit(all) ==
    CASE ctx \in {"dispatch", "resubmit"} -> "recv"
      [] ctx = "prepare" -> IF all THEN "pausing" ELSE "paused"
      [] OTHER -> "out"

\* An undelivered barrier, or a control that won before an activation.
SubmitSkips ==
    /\ owner = "submit"
    /\ pending # <<>> \/ (phase # "Running" /\ ctx = "activate")
    /\ owner' = AfterSubmit(todo = {})
    /\ UNCHANGED <<phase, drainVars, pending, memberVars, runnerVars, chan,
                   requestVars, task, ctx, todo, event, err>>

SubmitNotRunning ==
    /\ owner = "submit" /\ pending = <<>>
    /\ phase # "Running" /\ ctx # "activate"
    /\ OwnerFails("RunningPhaseRequired")
    /\ UNCHANGED <<phase, drainVars, pending, memberVars, runnerVars, chan,
                   requestVars, task, ctx, todo, event>>

SubmitAll ==
    /\ owner = "submit" /\ pending = <<>> /\ phase = "Running"
    /\ \A i \in todo : Ready(i)
    /\ Submits(todo)
    /\ signal' = SignalOf(todo)
    /\ owner' = AfterSubmit(TRUE)
    /\ UNCHANGED <<phase, drainVars, pending, dispatch, debt, exits, call, chan,
                   requestVars, task, ctx, todo, event, err>>

\* Member k cannot be submitted at all: the error returns at once and the
\* members before it stay submitted.
SubmitInvalid(k) ==
    /\ owner = "submit" /\ pending = <<>> /\ phase = "Running"
    /\ \A i \in Before(k) : Ready(i)
    /\ ~Submittable(k) \/ nextGen[k] >= MaxGeneration
    /\ Submits(Before(k))
    /\ signal' = SignalOf(Before(k))
    /\ OwnerFails(IF ~Submittable(k) THEN "ActiveMemberState"
                                     ELSE "GenerationExhausted")
    /\ UNCHANGED <<phase, drainVars, pending, dispatch, debt, exits, call, chan,
                   requestVars, task, ctx, todo, event>>

\* The runner of member k refuses: begin_submission_drain cancels every
\* active run, then submit_indexes collects them through receive_event.
SubmitRefused(k) ==
    LET S == Before(k)
        act == ActiveOf(S)
        toks == {<<i, act[i]>> : i \in {j \in Member : act[j] # NoGen}}
        live == {i \in Member : act[i] # NoGen}
    IN /\ owner = "submit" /\ pending = <<>> /\ phase = "Running"
       /\ \A i \in S : Ready(i)
       /\ Submittable(k) /\ nextGen[k] < MaxGeneration
       /\ ~Accepts(k) \/ "submit" \in Faults
       /\ Submits(S)
       /\ \/ /\ live = {}
             /\ EndDrain("Failed")
             /\ signal' = SignalOf(S)
             /\ OwnerFails("Submission")
             /\ UNCHANGED <<debt, exits>>
          \/ /\ live # {}
             /\ debt' = DebtsFor(live, act)
             /\ BatchCancel(live, RunOf(S), SignalOf(S))
             /\ StartDrain("Submission", "Wakeup", toks, {}, {})
             /\ owner' = "recv"
             /\ UNCHANGED err
          \/ /\ live # {}
             /\ debt' = DebtsFor(live, act)
             /\ BatchCancelFails(live, RunOf(S), SignalOf(S))
             /\ EndDrain("Failed")
             /\ OwnerFails("Submission")
       /\ UNCHANGED <<pending, dispatch, call, chan, requestVars, task, ctx,
                      todo, event>>

submit_indexes ==
    \/ SubmitSkips
    \/ SubmitNotRunning
    \/ SubmitAll
    \/ \E k \in todo : SubmitInvalid(k) \/ SubmitRefused(k)

-----------------------------------------------------------------------------
(* The owner thread: receive_event and process_completion.                 *)

\* Where an event leaves the owner: a run step returns it, a snapshot pause
\* collects until its barrier (or a failed member), shutdown looks at its
\* waiter again.
Delivers(e) ==
    /\ event' = e
    /\ owner' = CASE task = "step" -> "out"
                  [] task = "snapshot" ->
                       IF e.kind = "Barrier"
                          \/ \E c \in e.results : c.out = "Err" /\ e.kind = "Terminal"
                       THEN "paused" ELSE "recv"
                  [] OTHER -> IF e.kind = "Member" THEN "topology" ELSE "closing"
    /\ err' = IF task = "shutdown" /\ e.kind = "Member" THEN "UnexpectedDrain"
                                                        ELSE err

PopPending ==
    /\ owner = "recv" /\ pending # <<>>
    /\ pending' = Tail(pending)
    /\ Delivers([kind |-> "Barrier", reason |-> Head(pending), results |-> {},
                 primary |-> -1])
    /\ UNCHANGED <<phase, drainVars, memberVars, runnerVars, chan, requestVars,
                   task, ctx, todo>>

\* Mutant: the owner blocks without looking at the queued barrier.
BlockUnchecked ==
    /\ owner = "recv"
    /\ owner' = "blocked"
    /\ UNCHANGED <<phase, drainVars, pending, memberVars, runnerVars, chan,
                   requestVars, task, ctx, todo, event, err>>

\* The lock is released before the owner blocks on the completion channel.
Block ==
    /\ owner = "recv" /\ pending = <<>>
    /\ owner' = "blocked"
    /\ UNCHANGED <<phase, drainVars, pending, memberVars, runnerVars, chan,
                   requestVars, task, ctx, todo, event, err>>

IdentityMatches(c) == active[c.index] = c.gen

DispatchMatches(c) ==
    \/ c.out = "Err"
    \/ (c.out \in {"WaitCanceled", "TimerPending"}) = (dispatch[c.index] = "Suspended")

Absorbs(c) ==
    /\ debt[c.index] # NoGen
    /\ acknowledges_cancellation_debt(c, debt[c.index])

Takes(c) ==
    /\ chan' = Tail(chan)
    /\ UNCHANGED <<pending, online, dispatch, nextGen, run, token, call, task>>

\* The completion is not of an active run of this dispatch: nothing changes.
CompletionMismatch(c) ==
    /\ Takes(c)
    /\ ~IdentityMatches(c) \/ ~DispatchMatches(c)
    /\ OwnerFails(IF ~IdentityMatches(c) THEN "CompletionIdentity"
                                         ELSE "DispatchMismatch")
    /\ UNCHANGED <<phase, drainVars, active, debt, signal, exits, requestVars,
                   ctx, todo, event>>

Accepted(c) ==
    /\ Takes(c)
    /\ IdentityMatches(c) /\ DispatchMatches(c)
    /\ active' = [active EXCEPT ![c.index] = NoGen]

Settles(c) ==
    debt' = IF Absorbs(c) THEN [debt EXCEPT ![c.index] = NoGen] ELSE debt

CompletionMember(c) ==
    /\ Accepted(c) /\ phase = "Running"
    /\ ~IsTerminal(c.out) /\ ~Absorbs(c)
    /\ Settles(c)
    /\ Delivers([kind |-> "Member", reason |-> "None", results |-> {c},
                 primary |-> -1])
    /\ UNCHANGED <<phase, drainVars, signal, exits, requestVars, ctx, todo>>

\* An absorbed cancellation reports nothing; the member is submitted again
\* after the lock was released.
CompletionAbsorbed(c) ==
    /\ Accepted(c) /\ phase = "Running"
    /\ ~IsTerminal(c.out) /\ Absorbs(c)
    /\ Settles(c)
    /\ owner' = "submit" /\ ctx' = "resubmit" /\ todo' = {c.index}
    /\ UNCHANGED <<phase, drainVars, signal, exits, requestVars, event, err>>

\* begin_terminal_drain
CompletionTerminal(c) ==
    LET live == ActiveMembers \ {c.index}
        toks == active_tokens \ {<<c.index, active[c.index]>>}
    IN /\ Accepted(c) /\ phase = "Running" /\ IsTerminal(c.out)
       /\ \/ /\ live = {}
             /\ EndDrain("Stopped")
             /\ Delivers([kind |-> "Terminal", reason |-> "None",
                          results |-> {c}, primary |-> c.index])
             /\ UNCHANGED <<debt, signal, exits>>
          \/ /\ live # {}
             /\ debt' = DebtsFor(live, active)
             /\ BatchCancel(live, run, signal)
             /\ StartDrain("Terminal", "Wakeup", toks, {c}, {})
             /\ owner' = "recv"
             /\ UNCHANGED <<event, err>>
          \/ /\ live # {}
             /\ debt' = DebtsFor(live, active)
             /\ BatchCancelFails(live, run, signal)
             /\ EndDrain("Failed")
             /\ OwnerFails("BatchCancel")
             /\ UNCHANGED event
       /\ UNCHANGED <<requestVars, ctx, todo>>

\* Mutant: a terminal result does not supersede a control.
KindKept(c) == kind

\* The drain reason after acknowledgement c: a terminal result supersedes a
\* control, never a submission failure.
KindAfter(c) == IF IsTerminal(c.out) /\ kind = "Control" THEN "Superseded" ELSE kind

Tok(c) == <<c.index, c.gen>>

CompletionAcked(c) ==
    /\ Accepted(c) /\ phase = "Draining"
    /\ Tok(c) \in remaining /\ remaining # {Tok(c)}
    /\ Settles(c)
    /\ remaining' = remaining \ {Tok(c)}
    /\ acks' = acks \cup {c}
    /\ kind' = KindAfter(c)
    /\ owner' = "recv"
    /\ UNCHANGED <<phase, reason, waiters, signal, exits, requestVars, ctx,
                   todo, event, err>>

\* Mutant: every requester that ever asked is answered again.
AnswersEveryone(a) ==
    answer' = [w \in Waiter |-> IF answer[w] # "None" THEN a ELSE answer[w]]

AnswersWaiters(a) ==
    answer' = [w \in Waiter |-> IF w \in waiters THEN a ELSE answer[w]]

\* Mutant: the first response ends the drain.
CompletionFinishesEarly(c) ==
    LET all == acks \cup {c} IN
    /\ Accepted(c) /\ phase = "Draining" /\ Tok(c) \in remaining
    /\ Settles(c)
    /\ \/ /\ KindAfter(c) = "Control"
          /\ AnswersWaiters("Ok")
          /\ EndDrain(phase_after_control(reason))
          /\ Delivers([kind |-> "Barrier", reason |-> reason, results |-> all,
                       primary |-> -1])
       \/ /\ KindAfter(c) \in {"Terminal", "Superseded"}
          /\ AnswersWaiters("Err")
          /\ EndDrain("Stopped")
          /\ Delivers([kind |-> "Terminal", reason |-> "None", results |-> all,
                       primary |-> terminal_report(all)])
       \/ /\ KindAfter(c) = "Submission"
          /\ EndDrain("Failed")
          /\ OwnerFails("Submission")
          /\ UNCHANGED <<answer, event>>
    /\ UNCHANGED <<signal, exits, asked, snap, ctx, todo>>

\* finish_drain
CompletionFinishes(c) ==
    LET all == acks \cup {c} IN
    /\ Accepted(c) /\ phase = "Draining" /\ remaining = {Tok(c)}
    /\ Settles(c)
    /\ \/ /\ KindAfter(c) = "Control"
          /\ AnswersWaiters("Ok")
          /\ EndDrain(phase_after_control(reason))
          /\ Delivers([kind |-> "Barrier", reason |-> reason, results |-> all,
                       primary |-> -1])
       \/ /\ KindAfter(c) \in {"Terminal", "Superseded"}
          /\ AnswersWaiters("Err")
          /\ EndDrain("Stopped")
          /\ Delivers([kind |-> "Terminal", reason |-> "None", results |-> all,
                       primary |-> terminal_report(all)])
       \/ /\ KindAfter(c) = "Submission"
          /\ EndDrain("Failed")
          /\ OwnerFails("Submission")
          /\ UNCHANGED <<answer, event>>
    /\ UNCHANGED <<signal, exits, asked, snap, ctx, todo>>

\* A late completion of a failed topology: the run is retired, the owner
\* gets an error.
CompletionUnexpected(c) ==
    /\ Accepted(c)
    /\ \/ phase \in {"Paused", "Stopped", "Failed", "ShutDown"}
       \/ phase = "Draining" /\ Tok(c) \notin remaining
    /\ Settles(c)
    /\ OwnerFails("CompletionIdentity")
    /\ UNCHANGED <<phase, drainVars, signal, exits, requestVars, ctx, todo, event>>

process_completion ==
    /\ owner = "blocked" /\ chan # <<>>
    /\ LET c == Head(chan) IN
        \/ CompletionMismatch(c) \/ CompletionMember(c) \/ CompletionAbsorbed(c)
        \/ CompletionTerminal(c) \/ CompletionAcked(c) \/ CompletionFinishes(c)
        \/ CompletionUnexpected(c)

receive_event == PopPending \/ Block \/ process_completion

-----------------------------------------------------------------------------
(* The owner thread: member and topology operations, each one lock.        *)

\* Member operations are called between run steps, and by a snapshot pause
\* that translates the results of its barrier.
MemberCalls == {"out", "paused"}

OwnerCalls(at) ==
    /\ owner \in at /\ err = "None"
    /\ UNCHANGED <<drainVars, active, nextGen, run, token, signal, exits, chan,
                   requestVars, ctx, todo, event>>
    /\ task' = "step"

\* An error inside a snapshot pause goes back to its caller, which resumes.
Raised(e) == IF owner = "out" THEN e ELSE err

\* Mutant: a member with cancellation debt may be taken offline.
SetOnlineErrorButDebt(i, on) ==
    CASE phase \notin {"Running", "Paused"} -> "RunningPhaseRequired"
      [] active[i] # NoGen -> "NotIdle"
      [] ~on /\ dispatch[i] # "Runnable" -> "NotRunnable"
      [] OTHER -> "None"

\* The first error an operation meets, "None" if it succeeds.
SetOnlineError(i, on) ==
    CASE phase \notin {"Running", "Paused"} -> "RunningPhaseRequired"
      [] active[i] # NoGen -> "NotIdle"
      [] ~on /\ debt[i] # NoGen -> "OfflineDebt"
      [] ~on /\ dispatch[i] # "Runnable" -> "NotRunnable"
      [] OTHER -> "None"

SuspendError(i) ==
    CASE phase \notin {"Running", "Paused"} -> "RunningPhaseRequired"
      [] ~online[i] \/ active[i] # NoGen -> "NotIdle"
      [] dispatch[i] # "Runnable" -> "NotRunnable"
      [] OTHER -> "None"

ResumeSuspendedError(i) ==
    CASE phase \notin {"Running", "Paused"} -> "RunningPhaseRequired"
      [] ~online[i] \/ active[i] # NoGen -> "NotIdle"
      [] dispatch[i] # "Suspended" -> "PsciToken"
      [] OTHER -> "None"

set_online(i, on) ==
    LET e == SetOnlineError(i, on)
    IN /\ OwnerCalls(MemberCalls)
       /\ UNCHANGED owner
       /\ err' = Raised(e)
       /\ online' = IF e = "None" THEN [online EXCEPT ![i] = on] ELSE online
       /\ UNCHANGED <<phase, pending, dispatch, debt, call>>

suspend_member(i) ==
    LET e == SuspendError(i)
    IN /\ OwnerCalls(MemberCalls)
       /\ UNCHANGED owner
       /\ err' = Raised(e)
       /\ dispatch' = IF e = "None" THEN [dispatch EXCEPT ![i] = "Suspended"]
                                    ELSE dispatch
       /\ UNCHANGED <<phase, pending, online, debt, call>>

resume_suspended_member(i) ==
    LET e == ResumeSuspendedError(i)
    IN /\ OwnerCalls(MemberCalls)
       /\ UNCHANGED owner
       /\ err' = Raised(e)
       /\ dispatch' = IF e = "None" THEN [dispatch EXCEPT ![i] = "Runnable"]
                                    ELSE dispatch
       /\ UNCHANGED <<phase, pending, online, debt, call>>

\* member_operation, for complete_coordinator_work and commit_cpu_off
\* (quiescing allowed, the runner's pending call is consumed) and for the
\* operations that need a Running or Paused topology and keep the call.
OperationError(i, quiescing) ==
    CASE ~(\/ phase \in {"Running", "Paused"}
           \/ quiescing /\ phase \in {"Draining", "Stopped"}) -> "RunningPhaseRequired"
      [] active[i] # NoGen -> "NotIdle"
      [] OTHER -> "None"

member_operation(i, quiescing) ==
    LET e == OperationError(i, quiescing)
    IN /\ OwnerCalls(MemberCalls)
       /\ UNCHANGED owner
       /\ err' = Raised(e)
       /\ call' = IF e = "None" /\ quiescing THEN [call EXCEPT ![i] = "None"] ELSE call
       /\ UNCHANGED <<phase, pending, online, dispatch, debt>>

resume ==
    /\ OwnerCalls({"paused"})
    /\ owner' = "out"
    /\ IF phase = "Paused" THEN phase' = "Running" /\ UNCHANGED err
                           ELSE err' = "PausedPhaseRequired" /\ UNCHANGED phase
    /\ UNCHANGED <<pending, online, dispatch, debt, call>>

\* capture_stable_paused_members succeeds; its errors change nothing.
capture_stable_paused_members ==
    /\ OwnerCalls({"paused"}) /\ UNCHANGED owner
    /\ phase = "Paused" /\ pending \in {<<>>, <<"Pause">>}
    /\ \A i \in Member : /\ active[i] = NoGen /\ debt[i] = NoGen
                         /\ ~online[i] => dispatch[i] = "Runnable"
    /\ pending' = <<>>
    /\ UNCHANGED <<phase, online, dispatch, debt, call, err>>

-----------------------------------------------------------------------------
(* The owner thread: snapshot pause request and shutdown.                  *)

RequestPause ==
    /\ owner = "pausing"
    /\ request(Owner, "Pause")
    /\ owner' = IF answer'[Owner] = "Err" THEN "paused" ELSE "recv"
    /\ UNCHANGED <<task, ctx, todo, event, err>>

Shutdown ==
    /\ owner \in {"out", "paused"}
    /\ request(Owner, "Shutdown")
    /\ task' = "shutdown"
    /\ owner' = IF answer'[Owner] = "Err" THEN "topology" ELSE "closing"
    /\ UNCHANGED <<ctx, todo, event, err>>

\* drain_waiter: try_wait, else receive one more event.
DrainWaiter ==
    /\ owner = "closing"
    /\ owner' = IF answer[Owner] = "Waiting" THEN "recv" ELSE "topology"
    /\ UNCHANGED <<phase, drainVars, pending, memberVars, runnerVars, chan,
                   requestVars, task, ctx, todo, event, err>>

\* shutdown_runner_topology joins every runner thread; a member that cannot
\* be shut down leaves the topology failed and shutdown may be called again.
ShutdownTopology(lost) ==
    /\ owner = "topology"
    /\ lost # {} => "topology" \in Faults
    /\ run' = [i \in Member |-> IF i \in lost THEN run[i] ELSE "dead"]
    /\ EndDrain(IF lost = {} THEN "ShutDown" ELSE "Failed")
    /\ answer' = [w \in Waiter |-> IF w \in waiters THEN "Err" ELSE answer[w]]
    /\ owner' = IF lost = {} THEN "closed" ELSE "out"
    /\ err' = IF lost = {} THEN err ELSE "Topology"
    /\ UNCHANGED <<pending, memberVars, token, signal, exits, call, chan, asked,
                   snap, task, ctx, todo, event>>

Closed == owner = "closed" /\ UNCHANGED vars

-----------------------------------------------------------------------------
\* A coordinator is built Running by new, or Paused from a snapshot by
\* new_paused_for_stable_import, where install_imported_cpu_suspend_dispatch
\* gives back the retained waits of the suspended members.
Init ==
    /\ \/ /\ phase = "Running" /\ owner = "out"
          /\ dispatch = [i \in Member |-> "Runnable"]
       \/ /\ phase = "Paused" /\ owner = "paused"
          /\ dispatch \in [Member -> {"Runnable", "Suspended"}]
          /\ \A i \in Member \ Online0 : dispatch[i] = "Runnable"
    /\ call = [i \in Member |-> IF dispatch[i] = "Runnable" THEN "None"
                                                          ELSE "CpuSuspend"]
    /\ pending = <<>>
    /\ kind = "None" /\ reason = "Wakeup"
    /\ remaining = {} /\ acks = {} /\ waiters = {}
    /\ online = [i \in Member |-> i \in Online0]
    /\ active = [i \in Member |-> NoGen]
    /\ nextGen = [i \in Member |-> 1]
    /\ debt = [i \in Member |-> NoGen]
    /\ run = [i \in Member |-> "idle"] /\ token = [i \in Member |-> NoGen]
    /\ signal = [i \in Member |-> "None"] /\ exits = {}
    /\ chan = <<>>
    /\ answer = [w \in Waiter |-> "None"] /\ asked = [w \in Waiter |-> "None"]
    /\ snap = [w \in Waiter |-> {}]
    /\ task = "step" /\ ctx = "dispatch" /\ todo = {}
    /\ event = NoEvent /\ err = "None"

Runner(i) ==
    \/ EnterGuest(i) \/ ExitCanceled(i)
    \/ \E out \in Natural : ExitNaturally(i, out)
    \/ RunFails(i) \/ TimerDue(i) \/ WaitReturns(i)

\* Continuations of the operation the owner thread is in.
OwnerGoesOn ==
    \/ submit_indexes \/ receive_event \/ RequestPause \/ DrainWaiter
    \/ \E lost \in SUBSET Member : ShutdownTopology(lost)

\* The boot session answers CPU_OFF of the last powered CPU with DENIED, so
\* it never takes the last online member out of scheduling.
OwnerMemberCall(i) ==
    /\ owner = "paused" => \E c \in event.results : c.index = i
    /\ \/ call[i] = "CpuSuspend" /\ suspend_member(i)
       \/ dispatch[i] = "Suspended" /\ resume_suspended_member(i)
       \/ call[i] # "None" /\ dispatch[i] = "Runnable" /\ member_operation(i, TRUE)
       \/ member_operation(i, FALSE)
       \/ /\ call[i] = "None" /\ \E j \in Member \ {i} : online[j]
          /\ set_online(i, FALSE)
       \/ ~online[i] /\ activate_and_dispatch_member(i)

\* A snapshot pause is commanded to a parked run loop: after the wakeup barrier
\* that parked it or, with LimitParks, at a step limit with runs active.
OwnerStarts ==
    \/ dispatch_online \/ resume
    \/ (ActiveMembers = {} \/ LimitParks) /\ prepare_snapshot_pause
    \/ capture_stable_paused_members \/ Shutdown
    \/ \E i \in Member : OwnerMemberCall(i)

Next ==
    \/ \E w \in Requester, r \in Reasons : Request(w, r)
    \/ \E i \in Member : Runner(i)
    \/ OwnerGoesOn \/ OwnerStarts
    \/ Closed

Spec == Init /\ [][Next]_vars

\* Runner threads are scheduled and HVF delivers a pending exit, but a guest
\* need never exit on its own.  The owner finishes the operation it is in, the
\* run loop makes finitely many other calls between two run steps (hence the
\* strong fairness), a snapshot's caller resumes, and after an error the
\* session is dropped, which shuts the coordinator down.
Fairness ==
    /\ \A i \in Member :
          WF_vars(EnterGuest(i) \/ ExitCanceled(i) \/ WaitReturns(i))
    /\ WF_vars(OwnerGoesOn)
    /\ SF_vars(dispatch_online)
    /\ WF_vars(resume)
    /\ WF_vars(err # "None" /\ Shutdown)

FairSpec == Spec /\ Fairness

-----------------------------------------------------------------------------
(* Properties.                                                             *)

\* Every variable keeps its type: generations stay within the counter's width,
\* which submit_indexes guards with checked_add.
TypeOK ==
    /\ phase \in Phase
    /\ kind \in DrainKind /\ reason \in Reason
    /\ remaining \subseteq Token /\ acks \subseteq Result /\ waiters \subseteq Waiter
    /\ pending \in Seq(Reason)
    /\ online \in [Member -> BOOLEAN]
    /\ dispatch \in [Member -> {"Runnable", "Suspended"}]
    /\ active \in [Member -> Generation]
    /\ nextGen \in [Member -> Generation \ {NoGen}]
    /\ debt \in [Member -> Generation]
    /\ run \in [Member -> {"idle", "queued", "guest", "wait", "dead"}]
    /\ token \in [Member -> Generation]
    /\ signal \in [Member -> {"None", "Pending", "Canceled", "TimerWon"}]
    /\ exits \subseteq Member
    /\ call \in [Member -> Psci \cup {"None"}]
    /\ chan \in Seq(Result)
    /\ answer \in [Waiter -> {"None", "Waiting", "Ok", "Err"}]
    /\ asked \in [Waiter -> Reason \cup {"None"}]
    /\ snap \in [Waiter -> SUBSET Token]
    /\ owner \in {"out", "submit", "recv", "blocked", "pausing", "paused",
                  "closing", "topology", "closed"}
    /\ task \in {"step", "snapshot", "shutdown"}
    /\ ctx \in {"dispatch", "prepare", "activate", "resubmit"}
    /\ todo \subseteq Member
    /\ event.kind \in EventKind /\ event.results \subseteq Result
    /\ err \in Error

Quiet == \A i \in Member : active[i] = NoGen /\ run[i] \in {"idle", "dead"}

\* A paused or stopped topology executes nothing: no member is active in the
\* coordinator's books and no runner thread is inside a run, whatever raced
\* with the control request (phase_after_control, finish_drain).
QuiescedIsQuiet == phase \in {"Paused", "Stopped"} => Quiet

\* A barrier waiter is answered Ok only after every run that was active when
\* the control was requested has responded and left its runner thread
\* ("completed only after every run in a control snapshot responds").
BarrierCoversSnapshot ==
    \A w \in Waiter : answer[w] = "Ok" =>
        \A t \in snap[w] : /\ active[t[1]] # t[2]
                           /\ token[t[1]] = t[2] => run[t[1]] \in {"idle", "dead"}

\* While draining, the runs still awaited are exactly the active ones: no run
\* is admitted into a drain and none of the snapshot is forgotten.
DrainTracksActive ==
    phase = "Draining" => remaining = active_tokens /\ remaining # {}

\* At most one undelivered barrier is queued, and only while no run is active;
\* further controls coalesce into it (request, lines 675-687).
BarrierQueueBound ==
    Len(pending) <= 1 /\ (pending # <<>> => ActiveMembers = {})

\* Once a stop or shutdown was acknowledged the topology never runs again.
StopIsFinal ==
    \A w \in Waiter : answer[w] = "Ok" /\ asked[w] \in {"Stop", "Shutdown"} =>
        phase \in {"Stopped", "Failed", "ShutDown"}

\* The completion protocol's internal errors cannot happen: a completion
\* always names the active run of its member in the dispatch it was submitted
\* with, a drain never meets a foreign token and shutdown never meets a member
\* event.  Only a topology that already failed reports a late completion.
NoProtocolError ==
    /\ err \notin {"DispatchMismatch", "UnexpectedDrain"}
    /\ err = "CompletionIdentity" => phase \in {"Failed", "ShutDown"}

InFlight(i, outs) ==
    \E k \in 1 .. Len(chan) : chan[k].index = i /\ chan[k].out \in outs

\* As long as HVF itself does not fail, a recorded cancellation debt is one HVF
\* still owes: the member's pending exit, or the cancellation result that
\* settles it, is on its way ("repeated controls cannot require cancellation
\* acknowledgements the framework never promised").
DebtIsPromised ==
    Faults \cap {"run", "cancel"} = {} =>
        \A i \in Member : debt[i] # NoGen =>
            \/ i \in exits
            \/ InFlight(i, {"Canceled"})
            \/ /\ token[i] = debt[i]
               /\ signal[i] = "Canceled" \/ InFlight(i, {"WaitCanceled"})

\* A barrier event never hides a terminal result of one of its members: such a
\* result supersedes the control (process_completion, lines 1454-1464).
BarrierHidesNoTerminal ==
    event.kind = "Barrier" => \A c \in event.results : ~IsTerminal(c.out)

\* The owner never blocks on the completion channel with nothing to wait for:
\* a barrier raised without an active run is not sent through the channel, so
\* it would not wake the owner (receive_event, lines 1351-1364).  Here for run
\* steps and shutdown.
OwnerHasWork ==
    owner = "blocked" /\ task # "snapshot" => ActiveMembers # {} \/ chan # <<>>

\* A snapshot pause never waits for an event that cannot come: "A guest terminal
\* outcome or worker failure that wins the race before pause or readiness
\* acknowledgement invalidates the request" (docs/snapshot-feasibility.md).
SnapshotPauseHasWork ==
    owner = "blocked" /\ task = "snapshot" => ActiveMembers # {} \/ chan # <<>>

\* Members outside scheduling carry no run, no debt and no retained wait.
OfflineIsInert ==
    \A i \in Member : ~online[i] =>
        active[i] = NoGen /\ debt[i] = NoGen /\ dispatch[i] = "Runnable"

\* A requester's waiter is answered once and its answer never changes.
AnsweredOnce ==
    [][\A w \in Requester : answer[w] \in {"Ok", "Err"} => answer'[w] = answer[w]]_vars

\* Every accepted control request is eventually answered, even if no guest ever
\* exits by itself: the batch exit forces each run of the snapshot to respond
\* and the owner collects them (HvfVcpuRunBarrierWaiter::wait).
RequestsAreAnswered ==
    \A w \in Requester : answer[w] = "Waiting" ~> answer[w] \in {"Ok", "Err"}

Topology == INSTANCE RunTopology WITH
    why <- CASE kind = "Control" -> reason
             [] kind = "None" -> "None"
             [] kind = "Submission" -> kind
             [] OTHER -> "Terminal",
    flying <- ActiveMembers,
    guest <- {i \in Member : run[i] \notin {"idle", "dead"}},
    queued <- IF pending = <<>> THEN "None" ELSE Head(pending)

\* The coordinator implements the abstract topology: generations, debts, the
\* completion channel and the owner's unlocked windows never show above it.
ImplementsTopology == Topology!TopologySpec

=============================================================================
