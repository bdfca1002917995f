---------------------------- MODULE BootRunLoop ----------------------------
(***************************************************************************)
(* The boot run-loop supervisor of crates/bangbang/src/vmm.rs: the worker  *)
(* thread that owns the boot session, the bounded command queue through    *)
(* which other threads reach it, the pause gate, the command admission     *)
(* that a snapshot reserves, and the paths that stop or fail the worker.   *)
(*                                                                         *)
(* Each critical section (status cell, gate, admission, queue) and each    *)
(* control request is one action.  The vCPU topology under the run loop is *)
(* RunTopology, which RunCoordinator implements.                           *)
(***************************************************************************)
EXTENDS RunTopology, Sequences

CONSTANTS
    Caller,     \* threads that use the command handle
    Ops,        \* the operations they call, see Op
    MaxCalls,   \* bound on the calls of one caller
    Capacity,   \* command queue capacity, also the limit of one drain
    MaxSteps,   \* step limit of one run-loop window
    Outcomes,   \* how a run may end on its own, see StepKind
    Stopping,   \* may stop_and_join be called?
    CancelFails \* may hv_vcpus_exit fail under a control request?

Op == {"pause", "resume", "update", "snapshot"}
StepKind == {"Step", "Canceled", "Exit", "Error"}

Nobody == "nobody"
Worker == "worker"

ASSUME LoopAssumption ==
    /\ Caller \cap {Nobody, Worker} = {}
    /\ Ops \subseteq Op /\ Outcomes \subseteq StepKind \ {"Canceled"}
    /\ Stopping \in BOOLEAN /\ CancelFails \in BOOLEAN
    /\ MaxCalls \in Nat /\ Capacity \in Nat \ {0} /\ MaxSteps \in Nat \ {0}

VARIABLES
    status,     \* BootRunLoopWorkerStatusCell
    paused, closed, generation,     \* BootRunLoopPauseState
    observed,   \* the worker's observed_command_generation
    admission,  \* BootRunLoopCommandAdmissionState
    queue,      \* the command channel: callers with an unexecuted command
    open,       \* the worker still holds the command receiver
    wakeup,     \* HvfArm64BootRunLoopControlWakeupToken
    stop,       \* HvfArm64BootRunLoopStopToken
    worker,     \* control state of the worker thread
    budget,     \* commands the current drain may still take
    steps,      \* steps of the current run-loop window
    backlog,    \* pending_steps of the boot session
    running,    \* the caller whose command the worker executes
    outcome,    \* result of the command being executed
    final,      \* intended_status of the worker
    at,         \* control state of each caller
    op,         \* the operation it calls
    calls,      \* calls it has made
    reply,      \* its response channel
    join        \* control state of stop_and_join

gateVars == <<paused, closed, generation>>
tokenVars == <<wakeup, stop>>
loopVars == <<worker, budget, steps, backlog, running, outcome, final, observed>>
callerVars == <<at, op, calls>>
allVars == <<topologyVars, status, gateVars, admission, queue, open, tokenVars,
             loopVars, callerVars, reply, join>>

Status == {"Running", "Paused", "Exited", "Failed"}
Admission == {"Ordinary", "SnapshotPreparing", "SnapshotLeased",
              "SnapshotReleasing", "Shutdown"}

\* Request: a control request of some thread, and whether it returns Ok.
Request(r) ==
    /\ RequestControl(r)
    /\ CancelFails \/ phase = "Failed" \/ phase' # "Failed"

Accepted(r) == ~Refuses(r) /\ phase' # "Failed"

\* The status cell keeps the first failure.
record(s) == status' = IF status = "Failed" THEN status ELSE s

Replies(c, r) == reply' = [reply EXCEPT ![c] = r]
Goes(c, to) == at' = [at EXCEPT ![c] = to]
CallOver(c) == at' = [at EXCEPT ![c] = "idle"] /\ op' = [op EXCEPT ![c] = "none"]

-----------------------------------------------------------------------------
(* A caller: BootRunLoopCommandHandle::run and run_snapshot_quiesced.      *)

\* The status a call requires before it submits its command.
Required(o) == CASE o = "pause" -> {"Running"}
                 [] o = "update" -> {"Running", "Paused"}
                 [] OTHER -> {"Paused"}

Call(c, o) ==
    /\ at[c] = "idle" /\ calls[c] < MaxCalls
    /\ calls' = [calls EXCEPT ![c] = calls[c] + 1]
    /\ Replies(c, "None")
    /\ IF status \in Required(o)
         THEN Goes(c, "checked") /\ op' = [op EXCEPT ![c] = o]
         ELSE UNCHANGED <<at, op>>
    /\ UNCHANGED <<topologyVars, status, gateVars, admission, queue, open,
                   tokenVars, loopVars, join>>

\* Mutant: a snapshot is enqueued without reserving the queue.
SendUnreserved(c) ==
    /\ at[c] = "checked"
    /\ IF admission = "Ordinary" /\ open /\ Len(queue) < Capacity
         THEN queue' = Append(queue, c) /\ Goes(c, "sent") /\ UNCHANGED op
         ELSE CallOver(c) /\ UNCHANGED queue
    /\ UNCHANGED <<topologyVars, status, gateVars, admission, open, tokenVars,
                   loopVars, calls, reply, join>>

\* try_send_ordinary and try_send_snapshot: admission and the nonblocking
\* send are one critical section.
Send(c) ==
    /\ at[c] = "checked"
    /\ IF admission = "Ordinary" /\ open /\ Len(queue) < Capacity
         THEN /\ queue' = Append(queue, c)
              /\ admission' = IF op[c] = "snapshot" THEN "SnapshotPreparing"
                                                    ELSE admission
              /\ Goes(c, "sent") /\ UNCHANGED op
         ELSE CallOver(c) /\ UNCHANGED <<queue, admission>>
    /\ UNCHANGED <<topologyVars, status, gateVars, open, tokenVars, loopVars,
                   calls, reply, join>>

notify_command_available(c) ==
    /\ at[c] = "sent"
    /\ generation' = generation + 1
    /\ Goes(c, "notified")
    /\ UNCHANGED <<topologyVars, status, paused, closed, admission, queue, open,
                   tokenVars, loopVars, op, calls, reply, join>>

\* What a caller does with its response: a command that broke its device past
\* repair makes the process fail the worker; a snapshot whose response channel
\* closed cancels its preparation.
Responds(c) ==
    /\ CASE reply[c] = "Fatal" -> Goes(c, "failing") /\ UNCHANGED op
         [] reply[c] = "Closed" /\ op[c] = "snapshot" ->
              Goes(c, "canceling") /\ UNCHANGED op
         [] OTHER -> CallOver(c)

\* try_recv: only an ordinary command goes on to request a wakeup.
TryRecv(c) ==
    /\ at[c] = "notified"
    /\ IF reply[c] # "None" THEN Responds(c)
       ELSE /\ Goes(c, IF op[c] = "snapshot" THEN "waiting" ELSE "waking")
            /\ UNCHANGED op
    /\ UNCHANGED <<topologyVars, status, gateVars, admission, queue, open,
                   tokenVars, loopVars, calls, reply, join>>

\* HvfArm64BootRunLoopControl::request_wakeup: the token, then the topology.
SetWakeup(c) ==
    /\ at[c] = "waking"
    /\ wakeup' = TRUE
    /\ Goes(c, "kicking")
    /\ UNCHANGED <<topologyVars, status, gateVars, admission, queue, open, stop,
                   loopVars, op, calls, reply, join>>

RequestWakeup(c) ==
    /\ at[c] = "kicking"
    /\ Request("Wakeup")
    /\ Goes(c, "waiting")
    /\ UNCHANGED <<status, gateVars, admission, queue, open, tokenVars, loopVars,
                   op, calls, reply, join>>

Recv(c) ==
    /\ at[c] = "waiting" /\ reply[c] # "None"
    /\ Responds(c)
    /\ UNCHANGED <<topologyVars, status, gateVars, admission, queue, open,
                   tokenVars, loopVars, calls, reply, join>>

\* cancel_snapshot_preparation by the caller.
CancelPreparation(c) ==
    /\ at[c] = "canceling"
    /\ IF admission = "SnapshotPreparing"
         THEN /\ admission' = "SnapshotReleasing"
              /\ Goes(c, "finishing") /\ UNCHANGED op
         ELSE CallOver(c) /\ UNCHANGED admission
    /\ UNCHANGED <<topologyVars, status, gateVars, queue, open, tokenVars,
                   loopVars, calls, reply, join>>

\* Mutant: the release ends in Ordinary whatever happened meanwhile.
finish_snapshot_release_always == admission' = "Ordinary"

\* The lock is taken again, so that a shutdown in between stays.
finish_snapshot_release ==
    admission' = IF admission = "SnapshotReleasing" THEN "Ordinary" ELSE admission

FinishCanceling(c) ==
    /\ at[c] = "finishing"
    /\ finish_snapshot_release
    /\ CallOver(c)
    /\ UNCHANGED <<topologyVars, status, gateVars, queue, open, tokenVars,
                   loopVars, calls, reply, join>>

\* fail_runtime_*_mutation and fail_terminal_block_update by the process, and
\* the same steps by the worker after a terminal capture failure.
FailStatus(c) ==
    /\ at[c] = "failing" /\ record("Failed") /\ Goes(c, "failing2")
    /\ UNCHANGED <<topologyVars, gateVars, admission, queue, open, tokenVars,
                   loopVars, op, calls, reply, join>>

FailAdmission(c) ==
    /\ at[c] = "failing2" /\ admission' = "Shutdown" /\ Goes(c, "failing3")
    /\ UNCHANGED <<topologyVars, status, gateVars, queue, open, tokenVars,
                   loopVars, op, calls, reply, join>>

\* Mutant: the sleeping worker is not notified of the shutdown.
CloseGateUnseen == UNCHANGED gateVars

\* BootRunLoopPauseGate::shutdown
CloseGate == closed' = TRUE /\ paused' = FALSE /\ UNCHANGED generation

FailGate(c) ==
    /\ at[c] = "failing3" /\ CloseGate /\ Goes(c, "failing4")
    /\ UNCHANGED <<topologyVars, status, admission, queue, open, tokenVars,
                   loopVars, op, calls, reply, join>>

\* request_stop: the sticky token, then the topology.
FailStop(c) ==
    /\ at[c] = "failing4" /\ stop' = TRUE /\ Goes(c, "failing5")
    /\ UNCHANGED <<topologyVars, status, gateVars, admission, queue, open, wakeup,
                   loopVars, op, calls, reply, join>>

FailRequest(c) ==
    /\ at[c] = "failing5" /\ Request("Stop") /\ CallOver(c)
    /\ UNCHANGED <<status, gateVars, admission, queue, open, tokenVars, loopVars,
                   calls, reply, join>>

CallerStep(c) ==
    \/ Send(c) \/ notify_command_available(c) \/ TryRecv(c) \/ SetWakeup(c)
    \/ RequestWakeup(c) \/ Recv(c) \/ CancelPreparation(c) \/ FinishCanceling(c)
    \/ FailStatus(c) \/ FailAdmission(c) \/ FailGate(c) \/ FailStop(c)
    \/ FailRequest(c)

-----------------------------------------------------------------------------
(* The worker: drain_boot_run_loop_commands.                               *)

DrainEnds ==
    /\ worker = "drain" /\ (queue = <<>> \/ budget = 0)
    /\ worker' = "gate"
    /\ UNCHANGED <<topologyVars, status, gateVars, admission, queue, open,
                   tokenVars, budget, steps, backlog, running, outcome, final,
                   observed, callerVars, reply, join>>

\* try_recv of the worker.
Take ==
    /\ worker = "drain" /\ queue # <<>> /\ budget > 0
    /\ budget' = budget - 1
    /\ queue' = Tail(queue)
    /\ running' = Head(queue)
    /\ worker' = op[Head(queue)]
    /\ UNCHANGED <<topologyVars, status, gateVars, admission, open, tokenVars,
                   steps, backlog, outcome, final, observed, callerVars, reply,
                   join>>

\* A command answers its caller and the drain goes on.
Done(r) ==
    /\ Replies(running, r)
    /\ worker' = "drain" /\ running' = Nobody /\ outcome' = "None"
    /\ UNCHANGED <<topologyVars, queue, open, tokenVars, budget, steps, backlog,
                   final, observed, callerVars, join>>

\* The command panics: its response channel closes and catch_unwind ends the
\* worker's loop.
Panics ==
    /\ Replies(running, "Closed")
    /\ worker' = "cleanup" /\ final' = "Failed"
    /\ running' = Nobody /\ outcome' = "None"
    /\ UNCHANGED <<topologyVars, queue, open, tokenVars, budget, steps, backlog,
                   observed, callerVars, join>>

ExecuteUpdate ==
    /\ worker = "update"
    /\ (\E r \in {"Ok", "Fatal"} : Done(r)) \/ Panics
    /\ UNCHANGED <<status, gateVars, admission>>

\* pause and resume record the status, then move the gate.
ExecuteLifecycle ==
    /\ worker \in {"pause", "resume"}
    /\ record(IF worker = "pause" THEN "Paused" ELSE "Running")
    /\ worker' = IF worker = "pause" THEN "pausing" ELSE "resuming"
    /\ UNCHANGED <<topologyVars, gateVars, admission, queue, open, tokenVars,
                   budget, steps, backlog, running, outcome, final, observed,
                   callerVars, reply, join>>

\* Mutant: the pause command leaves the gate as it is.
PauseGateForgotten ==
    /\ worker \in {"pausing", "resuming"}
    /\ paused' = FALSE
    /\ Done("Ok")
    /\ UNCHANGED <<status, closed, generation, admission>>

\* BootRunLoopPauseGate::pause does nothing after a shutdown.
MoveGate ==
    /\ worker \in {"pausing", "resuming"}
    /\ paused' = IF worker = "pausing" THEN paused \/ ~closed ELSE FALSE
    /\ Done("Ok")
    /\ UNCHANGED <<status, closed, generation, admission>>

-----------------------------------------------------------------------------
(* The worker: the command of run_snapshot_quiesced_preserving_result_if.  *)

captureRest == <<status, gateVars, queue, open, tokenVars, budget, steps, final,
                 observed, op, calls, reply, join>>

\* Mutant: the status is not read again when the command runs.
ExecuteSnapshotUnchecked ==
    /\ worker = "snapshot" /\ worker' = "lease"
    /\ UNCHANGED <<topologyVars, admission, backlog, running, outcome, at,
                   captureRest>>

\* Only a paused worker takes the lease.
ExecuteSnapshot ==
    /\ worker = "snapshot"
    /\ worker' = IF status = "Paused" THEN "lease" ELSE "unready"
    /\ UNCHANGED <<topologyVars, admission, backlog, running, outcome, at,
                   captureRest>>

SnapshotUnready ==
    /\ worker = "unready"
    /\ IF admission = "SnapshotPreparing"
         THEN /\ admission' = "SnapshotReleasing" /\ worker' = "refuse"
              /\ UNCHANGED <<topologyVars, backlog, running, outcome, at,
                             captureRest>>
         ELSE Done("Refused") /\ UNCHANGED <<status, gateVars, admission>>

RefuseSnapshot ==
    /\ worker = "refuse"
    /\ finish_snapshot_release
    /\ Done("Refused") /\ UNCHANGED <<status, gateVars>>

\* mark_snapshot_leased
Lease ==
    /\ worker = "lease"
    /\ IF admission = "SnapshotPreparing"
         THEN /\ admission' = "SnapshotLeased" /\ worker' = "leased"
              /\ UNCHANGED <<topologyVars, backlog, running, outcome, at,
                             captureRest>>
         ELSE Done("Invalidated") /\ UNCHANGED <<status, gateVars, admission>>

\* The leased command either works on paused devices only, or captures the
\* topology; a plain result is not preserved when the lease is lost.
RunLeased ==
    /\ worker = "leased"
    /\ \/ worker' = "prepare" /\ UNCHANGED outcome
       \/ worker' = "release" /\ outcome' \in {"Plain", "Panic"}
    /\ UNCHANGED <<topologyVars, admission, backlog, running, at, captureRest>>

\* pause_for_arm64_snapshot_v2_capture: the backlog must be empty and the
\* topology running, or paused with no run left.  An empty wakeup barrier is
\* dropped and members that owe a canceled exit are dispatched.
PreparePause ==
    /\ worker = "prepare"
    /\ LET clean == \/ phase = "Running" /\ queued \in {"None", "Wakeup"}
                    \/ phase = "Paused" /\ queued = "None" /\ flying = {}
       IN IF backlog = <<>> /\ clean
            THEN /\ worker' = "request" /\ queued' = "None"
                 /\ \E S \in SUBSET (IF phase = "Running" THEN Member \ flying
                                                           ELSE {}) :
                      flying' = flying \cup S /\ guest' = guest \cup S
                 /\ UNCHANGED <<phase, why, outcome>>
            ELSE /\ worker' = "recover" /\ outcome' = "Terminal"
                 /\ UNCHANGED topologyVars
    /\ UNCHANGED <<admission, backlog, running, at, captureRest>>

RequestPause ==
    /\ worker = "request"
    /\ Request("Pause")
    /\ IF Accepted("Pause")
         THEN worker' = "collect" /\ UNCHANGED outcome
         ELSE worker' = "recover" /\ outcome' = "Terminal"
    /\ UNCHANGED <<admission, backlog, running, at, captureRest>>

CollectQueued ==
    /\ worker = "collect" /\ Deliver
    /\ worker' = "body"
    /\ UNCHANGED <<admission, backlog, running, outcome, at, captureRest>>

\* How a run may end: canceled, on its own, or so that the topology stops.
RunEnd == {"Canceled"} \cup (Outcomes \cap {"Step"})
            \cup (IF Outcomes \cap {"Exit", "Error"} = {} THEN {} ELSE {"Terminal"})

\* Only a barrier ends the collection.  A run that ended on its own spoils the
\* capture; of a terminal report, an error ends the collection and a guest exit
\* is consumed.
CollectPausing(i, k) ==
    /\ worker = "collect" /\ queued = "None" /\ phase = "Draining"
    /\ Collect(i, k = "Terminal")
    /\ IF phase' = "Draining" THEN worker' = worker
       ELSE IF why \in Control /\ k # "Terminal" THEN worker' = "body"
       ELSE \/ "Error" \in Outcomes /\ worker' = "recover"
            \/ "Exit" \in Outcomes /\ worker' = worker
    /\ outcome' = IF k = "Canceled" THEN outcome ELSE "Terminal"
    /\ UNCHANGED <<admission, backlog, running, at, captureRest>>

\* The capture itself, from the collected barrier to the closed state file.
CaptureBody ==
    /\ worker = "body"
    /\ outcome' \in CASE outcome = "Terminal" -> {"Terminal"}
                      [] phase = "Paused" -> {"Sealed", "Plain", "Terminal"}
                      [] OTHER -> {"Plain", "Terminal"}
    /\ worker' = "recover"
    /\ UNCHANGED <<topologyVars, admission, backlog, running, at, captureRest>>

\* recover_native_v2_source: the topology runs again, whatever the capture did.
\* A terminal error makes the worker fail itself before it gives up the lease.
Recover ==
    /\ worker = "recover"
    /\ IF phase = "Paused" THEN Resume /\ UNCHANGED outcome
                           ELSE outcome' = "Terminal" /\ UNCHANGED topologyVars
    /\ IF outcome' = "Terminal" THEN worker' = "failing" /\ Goes(Worker, "failing")
                                ELSE worker' = "release" /\ UNCHANGED at
    /\ UNCHANGED <<admission, backlog, running, captureRest>>

WorkerFailed ==
    /\ worker = "failing" /\ at[Worker] = "idle"
    /\ worker' = "release"
    /\ UNCHANGED <<topologyVars, admission, backlog, running, outcome, at,
                   captureRest>>

\* A lost lease invalidates the result unless the commit is sealed or the
\* failure terminal.
Respond(released) ==
    /\ IF outcome = "Panic" THEN Panics
       ELSE Done(IF released \/ outcome \in {"Sealed", "Terminal"}
                   THEN "Ok" ELSE "Invalidated")
    /\ UNCHANGED <<status, gateVars>>

\* release_snapshot
Release ==
    /\ worker = "release"
    /\ IF admission = "SnapshotLeased"
         THEN /\ admission' = "SnapshotReleasing" /\ worker' = "finish"
              /\ UNCHANGED <<topologyVars, backlog, running, outcome, at,
                             captureRest>>
         ELSE Respond(FALSE) /\ UNCHANGED admission

FinishRelease ==
    /\ worker = "finish"
    /\ finish_snapshot_release
    /\ Respond(admission = "SnapshotReleasing")

SnapshotStep ==
    \/ ExecuteSnapshot \/ SnapshotUnready \/ RefuseSnapshot \/ Lease \/ RunLeased
    \/ PreparePause \/ RequestPause \/ CollectQueued
    \/ \E i \in Member, k \in RunEnd : CollectPausing(i, k)
    \/ CaptureBody \/ Recover \/ WorkerFailed \/ Release \/ FinishRelease

-----------------------------------------------------------------------------
(* The worker: the gate and one window of the run loop.                    *)

windowRest == <<gateVars, admission, queue, open, running, outcome, callerVars,
                reply, join>>

\* Mutant: a drain takes one command less than the queue can hold.
DrainShort == worker' = "drain" /\ budget' = Capacity - 1

\* A drain takes at most as many commands as the queue holds.
Drain == worker' = "drain" /\ budget' = Capacity

\* The worker's loop ends with the status s.
Ends(s) == worker' = "cleanup" /\ final' = s /\ UNCHANGED budget

\* wait_once_if_paused
Gate ==
    /\ worker = "gate"
    /\ CASE closed -> Ends("None") /\ UNCHANGED <<observed, steps>>
         [] ~closed /\ ~paused -> /\ worker' = "run" /\ steps' = 0
                                  /\ UNCHANGED <<budget, final, observed>>
         [] OTHER -> /\ generation # observed /\ observed' = generation
                     /\ Drain /\ UNCHANGED <<final, steps>>
    /\ UNCHANGED <<topologyVars, status, tokenVars, backlog, windowRest>>

\* The top of the run loop: the stop token, then the backlog.
RunTop ==
    /\ worker = "run"
    /\ IF stop THEN Ends("Exited")
       ELSE /\ worker' = IF backlog = <<>> THEN "dispatch" ELSE "handle"
            /\ UNCHANGED <<budget, final>>
    /\ UNCHANGED <<topologyVars, status, tokenVars, steps, backlog, observed,
                   windowRest>>

\* dispatch_online: nothing is submitted while a barrier is undelivered, and a
\* topology that is not running is an error.
Dispatch ==
    /\ worker = "dispatch"
    /\ CASE queued # "None" -> /\ worker' = "wait"
                               /\ UNCHANGED <<topologyVars, budget, final>>
         [] queued = "None" /\ phase = "Running" ->
              Admit(Member \ flying) /\ worker' = "wait" /\ UNCHANGED <<budget, final>>
         [] OTHER -> Ends("Failed") /\ UNCHANGED topologyVars
    /\ UNCHANGED <<status, tokenVars, steps, backlog, observed, windowRest>>

\* enqueue_event: the steps of an event become the backlog.
Event(s) == backlog' = s /\ worker' = "handle" /\ UNCHANGED <<budget, final>>

ReceiveQueued ==
    /\ worker = "wait" /\ Deliver
    /\ Event(<<"Canceled">>)
    /\ UNCHANGED <<status, tokenVars, steps, observed, windowRest>>

\* Progress that members made before a drain reached them.
Progress == IF "Step" \in Outcomes
              THEN {[j \in 1..n |-> "Step"] : n \in 0..Cardinality(Member)} ELSE {<<>>}

\* receive_event and process_completion: a member event, a canceled exit that
\* the debt absorbs (the member is submitted again), the last result of a
\* drain, or no event yet.  The debt itself is hidden.
ReceiveResult(i, k) ==
    /\ worker = "wait" /\ queued = "None" /\ Collect(i, k = "Terminal")
    /\ CASE phase = "Running" /\ k = "Canceled" ->
              \/ worker' = "dispatch" /\ UNCHANGED <<backlog, budget, final>>
              \/ Event(<<"Canceled">>)
         [] phase = "Running" /\ k = "Step" -> Event(<<"Step">>)
         [] phase \in {"Running", "Draining"} /\ phase' = "Draining" ->
              UNCHANGED <<worker, backlog, budget, final>>
         [] phase = "Draining" /\ why \in Control /\ k # "Terminal" ->
              \E p \in Progress : Event(Append(p, "Canceled"))
         [] phase \in {"Running", "Draining"} /\ phase' = "Stopped" ->
              \E p \in Progress, e \in Outcomes \cap {"Exit", "Error"} :
                Event(Append(p, e))
         [] OTHER -> Ends("Failed") /\ UNCHANGED backlog
    /\ UNCHANGED <<status, tokenVars, steps, observed, windowRest>>

\* Mutant: a control wakeup is consumed and the window goes on.
WakeupForgotten(s) ==
    IF s \in {"Step", "Canceled"} /\ ~stop
      THEN /\ wakeup' = (wakeup /\ s # "Canceled")
           /\ IF steps + 1 = MaxSteps
                THEN Drain /\ UNCHANGED final
                ELSE worker' = "run" /\ UNCHANGED <<budget, final>>
      ELSE UNCHANGED wakeup /\ Ends(IF s = "Error" THEN "Failed" ELSE "Exited")

\* What one step leads to: the stop token wins over the control wakeup, and
\* that over the step limit.
AfterStep(s) ==
    IF s \in {"Step", "Canceled"} /\ ~stop
      THEN /\ wakeup' = (wakeup /\ s # "Canceled")
           /\ IF (s = "Canceled" /\ wakeup) \/ steps + 1 = MaxSteps
                THEN Drain /\ UNCHANGED final
                ELSE worker' = "run" /\ UNCHANGED <<budget, final>>
      ELSE UNCHANGED wakeup /\ Ends(IF s = "Error" THEN "Failed" ELSE "Exited")

\* run_boot_session_loop_with_observer_inner after run_loop_vcpu_step; the
\* dispatch of a device may fail.
Handle ==
    /\ worker = "handle"
    /\ steps' = steps + 1
    /\ backlog' = Tail(backlog)
    /\ AfterStep(Head(backlog)) \/ ("Error" \in Outcomes /\ AfterStep("Error"))
    /\ UNCHANGED <<topologyVars, status, stop, observed, windowRest>>

-----------------------------------------------------------------------------
(* The worker: its end.                                                    *)

endRest == <<gateVars, admission, tokenVars, budget, steps, backlog, running,
             outcome, observed, callerVars, join>>

\* shutdown_run_loop_auxiliary_work, which may fail, and the final status.
Cleanup ==
    /\ worker = "cleanup"
    /\ \E s \in {final} \cup (IF "Error" \in Outcomes THEN {"Failed"} ELSE {}) :
         IF s = "None" THEN UNCHANGED status ELSE record(s)
    /\ worker' = "dropping"
    /\ UNCHANGED <<topologyVars, queue, open, final, reply, endRest>>

\* Mutant: the receiver lives on with the commands nobody will execute.
ReceiverKept ==
    /\ worker = "dropping"
    /\ open' = FALSE /\ worker' = "parked"
    /\ UNCHANGED <<topologyVars, status, queue, reply, final, endRest>>

\* The receiver goes with its commands: their response channels close.
DropReceiver ==
    /\ worker = "dropping"
    /\ open' = FALSE /\ queue' = <<>>
    /\ reply' = [c \in Caller |-> IF \E k \in DOMAIN queue : queue[k] = c
                                    THEN "Closed" ELSE reply[c]]
    /\ worker' = "parked"
    /\ UNCHANGED <<topologyVars, status, final, endRest>>

\* The thread ends, and its session with it, once stop_and_join has dropped
\* the release sender.
WorkerEnds ==
    /\ worker = "parked" /\ join.at \in {"released", "joining", "abandoned"}
    /\ worker' = "ended"
    /\ Close({})
    /\ UNCHANGED <<status, queue, open, reply, final, endRest>>

WorkerStep ==
    \/ DrainEnds \/ Take \/ ExecuteUpdate \/ ExecuteLifecycle \/ MoveGate
    \/ SnapshotStep \/ Gate \/ RunTop \/ Dispatch \/ ReceiveQueued
    \/ \E i \in Member, k \in RunEnd : ReceiveResult(i, k)
    \/ Handle \/ Cleanup \/ DropReceiver \/ WorkerEnds

-----------------------------------------------------------------------------
(* stop_and_join, and the threads that only wake the topology.             *)

joinRest == <<status, queue, open, wakeup, loopVars, callerVars, reply>>

JoinStop ==
    /\ Stopping /\ join.at = "idle"
    /\ join' = [at |-> "requesting", ok |-> status = "Paused"]
    /\ stop' = TRUE
    /\ UNCHANGED <<topologyVars, gateVars, admission, joinRest>>

JoinRequest ==
    /\ join.at = "requesting"
    /\ Request("Stop")
    /\ join' = [at |-> "admission", ok |-> join.ok \/ Accepted("Stop")]
    /\ UNCHANGED <<gateVars, admission, stop, joinRest>>

JoinAdmission ==
    /\ join.at = "admission"
    /\ admission' = "Shutdown" /\ join' = [join EXCEPT !.at = "gate"]
    /\ UNCHANGED <<topologyVars, gateVars, stop, joinRest>>

JoinGate ==
    /\ join.at = "gate"
    /\ CloseGate /\ join' = [join EXCEPT !.at = "released"]
    /\ UNCHANGED <<topologyVars, admission, stop, joinRest>>

\* Without an accepted stop the join could wait for a run nobody canceled.
JoinWorker ==
    /\ \/ /\ join.at = "released"
          /\ join' = [join EXCEPT !.at = IF join.ok \/ worker = "ended"
                                           THEN "joining" ELSE "abandoned"]
       \/ /\ join.at = "joining" /\ worker = "ended"
          /\ join' = [join EXCEPT !.at = "done"]
    /\ UNCHANGED <<topologyVars, gateVars, admission, stop, joinRest>>

stop_and_join == JoinStop \/ JoinRequest \/ JoinAdmission \/ JoinGate \/ JoinWorker

\* A limiter-retry thread, the wakeup monitor or the packet thread interrupts
\* the topology; only the packet thread sets the control token before.
AuxiliaryWakeup ==
    /\ worker # "ended"
    /\ Request("Wakeup")
    /\ UNCHANGED <<status, gateVars, admission, queue, open, tokenVars, loopVars,
                   callerVars, reply, join>>

PacketReady ==
    /\ worker \notin {"dropping", "parked", "ended"} /\ ~wakeup
    /\ wakeup' = TRUE
    /\ UNCHANGED <<topologyVars, status, gateVars, admission, queue, open, stop,
                   loopVars, callerVars, reply, join>>

\* A runner thread leaves the guest.
RunnerLeaves(i) ==
    /\ Leave(i)
    /\ UNCHANGED <<status, gateVars, admission, queue, open, tokenVars, loopVars,
                   callerVars, reply, join>>

-----------------------------------------------------------------------------
(* start starts a running worker, start_paused a paused one.               *)

Init ==
    /\ TopologyInit /\ phase = "Running"
    /\ status \in {"Running", "Paused"} /\ paused = (status = "Paused")
    /\ closed = FALSE /\ generation = 0 /\ observed = 0
    /\ admission = "Ordinary" /\ queue = <<>> /\ open = TRUE
    /\ wakeup = FALSE /\ stop = FALSE
    /\ worker = "drain" /\ budget = Capacity /\ steps = 0 /\ backlog = <<>>
    /\ running = Nobody /\ outcome = "None" /\ final = "None"
    /\ at = [c \in Caller \cup {Worker} |-> "idle"]
    /\ op = [c \in Caller \cup {Worker} |-> "none"]
    /\ calls = [c \in Caller |-> 0] /\ reply = [c \in Caller |-> "None"]
    /\ join = [at |-> "idle", ok |-> FALSE]

Next ==
    \/ \E c \in Caller, o \in Ops : Call(c, o)
    \/ \E c \in Caller \cup {Worker} : CallerStep(c)
    \/ WorkerStep \/ stop_and_join \/ AuxiliaryWakeup \/ PacketReady
    \/ \E i \in Member : RunnerLeaves(i)

Spec == Init /\ [][Next]_allVars

\* Threads that hold no condition wait run; a runner leaves the guest only
\* because a drain has canceled it.
Fairness ==
    /\ \A c \in Caller \cup {Worker} : WF_allVars(CallerStep(c))
    /\ WF_allVars(WorkerStep)
    /\ WF_allVars(JoinRequest \/ JoinAdmission \/ JoinGate \/ JoinWorker)
    /\ \A i \in Member : WF_allVars(phase = "Draining" /\ RunnerLeaves(i))

FairSpec == Spec /\ Fairness

-----------------------------------------------------------------------------
Window == {"run", "dispatch", "wait", "handle"}
Leased == {"leased", "release"} \cup {"failing"} \cup
            {"prepare", "request", "collect", "body", "recover"}
Ending == {"cleanup", "dropping", "parked", "ended"}
Awaiting == {"sent", "notified", "waking", "kicking", "waiting"}

\* Every variable stays in its domain.
LoopTypeOK ==
    /\ status \in Status /\ admission \in Admission
    /\ paused \in BOOLEAN /\ closed \in BOOLEAN /\ open \in BOOLEAN
    /\ wakeup \in BOOLEAN /\ stop \in BOOLEAN
    /\ generation \in Nat /\ observed \in 0..generation
    /\ queue \in Seq(Caller) /\ Len(queue) <= Capacity
    /\ budget \in 0..Capacity /\ steps \in 0..MaxSteps
    /\ backlog \in Seq(StepKind)
    /\ running \in Caller \cup {Nobody}
    /\ final \in {"None", "Exited", "Failed"}
    /\ flying \subseteq Member /\ guest \subseteq flying

\* try_send_snapshot reserves and enqueues under one lock: as long as the worker
\* still drains its queue no command is admitted behind a queued snapshot
\* command, and while its lease is held the queue is empty, so the drain cannot
\* run anything else before the release.
SnapshotCommandIsLast ==
    /\ worker \notin Ending =>
          \A k \in DOMAIN queue : op[queue[k]] = "snapshot" => k = Len(queue)
    /\ admission = "SnapshotLeased" => queue = <<>>

\* The lease is held only by the worker inside a snapshot command, of a vCPU
\* loop that is paused or has failed: no resume slips in before the release.
LeaseMeansPaused ==
    /\ admission = "SnapshotLeased" => worker \in Leased /\ status \in {"Paused", "Failed"}
    /\ worker \in Leased => admission \in {"SnapshotLeased", "Shutdown"}

\* After a pause is recorded the worker enters no run-loop window until resume
\* records Running again, whichever commands, stops and failures interleave.
PausedMeansParked == status = "Paused" => worker \notin Window

\* A worker that sleeps at the closed gate has seen every announced command:
\* one drain takes a full queue, so nothing notified is left behind.
SleepMissesNoCommand ==
    worker = "gate" /\ paused /\ ~closed /\ observed = generation =>
        \A k \in DOMAIN queue : at[queue[k]] = "sent"

\* When the worker has dropped the receiver every caller whose command it had
\* accepted has an answer or a closed response channel.
NobodyAwaitsADeadWorker ==
    worker \in {"parked", "ended"} =>
        \A c \in Caller : at[c] \in Awaiting => reply[c] # "None"

\* A failure is never overwritten, an exited worker never runs again, and the
\* release of a lease never reopens an admission that a shutdown has closed.
ShutdownIsFinal ==
    [][/\ status = "Failed" => status' = "Failed"
       /\ status = "Exited" => status' \in {"Exited", "Failed"}
       /\ admission = "Shutdown" => admission' = "Shutdown"
       /\ closed => closed' /\ ~paused']_allVars

\* An ordinary command and a snapshot command always return to their caller:
\* executed, refused, or with a closed channel.
CommandsAreAnswered == \A c \in Caller : at[c] \in Awaiting ~> at[c] = "idle"

\* stop_and_join returns: the worker leaves the guest, the gate or a command.
StopReturns == join.at = "requesting" ~> join.at \in {"done", "abandoned"}

=============================================================================
