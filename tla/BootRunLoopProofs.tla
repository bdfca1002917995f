------------------------- MODULE BootRunLoopProofs -------------------------
(***************************************************************************)
(* Proofs about the boot run-loop supervisor, for every number of callers, *)
(* every queue capacity and every step limit.                              *)
(*                                                                         *)
(* The inductive invariant has one part per shared object: the gate and    *)
(* the status cell, the queue with its response channels, the admission a  *)
(* snapshot reserves, the generation a sleeping worker has observed, and   *)
(* the run-loop window.                                                    *)
(***************************************************************************)
EXTENDS BootRunLoop, TLAPS

\* The states of the worker inside a snapshot command, before and after its lease.
Snapshotting == {"snapshot", "unready", "lease", "refuse", "finish"} \cup Leased
Executing == Op \cup {"pausing", "resuming"} \cup Snapshotting
WorkerState == {"drain", "gate"} \cup Executing \cup Window \cup Ending

Failing == {"failing", "failing2", "failing3", "failing4", "failing5"}
Canceling == {"canceling", "finishing"}
CallerState == {"idle", "checked"} \cup Awaiting \cup Canceling \cup Failing
Thread == Caller \cup {Worker}
Reply == {"None", "Ok", "Fatal", "Closed", "Refused", "Invalidated"}

ThreadType ==
    /\ at \in [Thread -> CallerState] /\ at[Worker] \in {"idle"} \cup Failing
    /\ op \in [Thread -> Op \cup {"none"}]
    /\ reply \in [Caller -> Reply]

WorkerType ==
    /\ worker \in WorkerState /\ running \in Caller \cup {Nobody}
    /\ queue \in Seq(Caller) /\ Len(queue) <= Capacity
    /\ open \in BOOLEAN /\ admission \in Admission

\* A pause that was recorded holds the gate, unless the worker is about to move
\* it or a shutdown has closed it.
GateInv ==
    /\ status \in Status /\ paused \in BOOLEAN /\ closed \in BOOLEAN
    /\ final \in {"None", "Exited", "Failed"}
    /\ closed => ~paused
    /\ status = "Paused" /\ worker # "pausing" => paused \/ closed
    /\ worker = "resuming" => status \in {"Running", "Failed"}
    /\ worker \in Window => status # "Paused"
    /\ status = "Exited" => worker \in Ending \ {"cleanup"}

\* A command is in the queue or in execution exactly while its caller awaits it.
QueueInv ==
    /\ \A k \in DOMAIN queue :
          at[queue[k]] \in Awaiting /\ reply[queue[k]] = "None" /\ op[queue[k]] \in Op
    /\ \A j, k \in DOMAIN queue : j # k => queue[j] # queue[k]
    /\ running \in Caller <=> worker \in Executing
    /\ running \in Caller =>
          /\ at[running] \in Awaiting /\ reply[running] = "None"
          /\ \A k \in DOMAIN queue : queue[k] # running
    /\ \A c \in Caller : at[c] \in Awaiting /\ reply[c] = "None" =>
          c = running \/ \E k \in DOMAIN queue : queue[k] = c
    /\ \A c \in Caller : at[c] = "checked" => reply[c] = "None" /\ op[c] \in Op
    /\ open <=> worker \notin {"parked", "ended"}
    /\ ~open => queue = <<>>

\* A response channel closes only when the worker ends.
ClosedInv ==
    worker \notin Ending =>
        \A c \in Caller : reply[c] # "Closed" /\ at[c] \notin Canceling

\* The admission follows the snapshot command through the queue and the worker.
LeaseInv ==
    /\ worker \notin Ending =>
          \A k \in DOMAIN queue : op[queue[k]] = "snapshot" =>
              k = Len(queue) /\ admission \in {"SnapshotPreparing", "Shutdown"}
    /\ worker \in Snapshotting => queue = <<>>
    /\ worker \in {"snapshot", "unready", "lease"} =>
          admission \in {"SnapshotPreparing", "Shutdown"}
    /\ worker \in {"refuse", "finish"} => admission \in {"SnapshotReleasing", "Shutdown"}
    /\ worker \in Leased => admission \in {"SnapshotLeased", "Shutdown"}
    /\ admission = "SnapshotLeased" => worker \in Leased
    /\ worker \in Leased \cup {"lease"} => status \in {"Paused", "Failed"}

\* With no announcement since the worker looked, the announced commands in the
\* queue are within what the drain may still take.
SleepInv ==
    /\ generation \in Nat /\ observed \in 0 .. generation /\ budget \in 0 .. Capacity
    /\ observed = generation =>
          /\ worker \in {"drain"} \cup Executing =>
                \A k \in DOMAIN queue : at[queue[k]] # "sent" => k <= budget
          /\ worker = "gate" => \A k \in DOMAIN queue : at[queue[k]] = "sent"

\* The window counts its steps and handles only what it received.
WindowInv ==
    /\ wakeup \in BOOLEAN /\ stop \in BOOLEAN
    /\ steps \in 0 .. MaxSteps /\ (worker \in Window => steps < MaxSteps)
    /\ backlog \in Seq(StepKind) /\ (worker = "handle" => backlog # <<>>)
    /\ flying \subseteq Member /\ guest \subseteq flying

LoopInv ==
    /\ ThreadType /\ WorkerType /\ GateInv /\ QueueInv /\ ClosedInv /\ LeaseInv
    /\ SleepInv /\ WindowInv

-----------------------------------------------------------------------------
(* What the steps of each thread leave alone.                              *)

\* The steps of the other threads: everything but the worker.
Others ==
    \/ \E c \in Caller, o \in Ops : Call(c, o)
    \/ \E c \in Caller \cup {Worker} : CallerStep(c)
    \/ stop_and_join \/ AuxiliaryWakeup \/ PacketReady
    \/ \E i \in Member : RunnerLeaves(i)

\* Only the worker moves its own control state.
LEMMA OthersKeepWorker ==
    ASSUME Others PROVE UNCHANGED <<loopVars, open>>
<1>1. ASSUME NEW c \in Thread, CallerStep(c) PROVE UNCHANGED <<loopVars, open>>
  BY <1>1, Zenon DEF CallerStep, Send, notify_command_available, TryRecv, SetWakeup, RequestWakeup,
     Recv, CancelPreparation, FinishCanceling, FailStatus, FailAdmission, FailGate, FailStop,
     FailRequest
<1>2. ASSUME stop_and_join PROVE UNCHANGED <<loopVars, open>>
  BY <1>2, Zenon DEF stop_and_join, JoinStop, JoinRequest, JoinAdmission, JoinGate, JoinWorker,
     joinRest
<1>3. ASSUME NEW c \in Caller, NEW o \in Ops, Call(c, o) PROVE UNCHANGED <<loopVars, open>>
  BY <1>3, Zenon DEF Call
<1> QED
  BY <1>1, <1>2, <1>3, Zenon DEF Others, Thread, AuxiliaryWakeup, PacketReady, RunnerLeaves

-----------------------------------------------------------------------------
(* The gate and the status cell.                                           *)

\* The other threads record only failures.
LEMMA OthersStatus ==
    ASSUME Others PROVE status' = status \/ status' = "Failed"
<1>1. ASSUME NEW c \in Thread, CallerStep(c) PROVE status' = status \/ status' = "Failed"
  BY <1>1, Zenon DEF CallerStep, Send, notify_command_available, TryRecv, SetWakeup,
     RequestWakeup, Recv, CancelPreparation, FinishCanceling, FailStatus, FailAdmission,
     FailGate, FailStop, FailRequest, record
<1> QED
  BY <1>1, Zenon DEF Others, Thread, Call, AuxiliaryWakeup, PacketReady, RunnerLeaves,
     stop_and_join, JoinStop, JoinRequest, JoinAdmission, JoinGate, JoinWorker, joinRest

\* The other threads leave the gate alone or close it.
LEMMA OthersMoveGate ==
    ASSUME Others PROVE UNCHANGED <<paused, closed>> \/ CloseGate
<1>1. ASSUME NEW c \in Thread, CallerStep(c) PROVE UNCHANGED <<paused, closed>> \/ CloseGate
  BY <1>1, Zenon DEF CallerStep, Send, notify_command_available, TryRecv, SetWakeup,
     RequestWakeup, Recv, CancelPreparation, FinishCanceling, FailStatus, FailAdmission,
     FailGate, FailStop, FailRequest, gateVars
<1> QED
  BY <1>1, Zenon DEF Others, Thread, Call, AuxiliaryWakeup, PacketReady, RunnerLeaves,
     stop_and_join, JoinStop, JoinRequest, JoinAdmission, JoinGate, JoinWorker, gateVars

\* The other threads only close the gate.
LEMMA OthersGate ==
    ASSUME GateInv, Others PROVE GateInv'
<1>1. worker' = worker /\ final' = final
  BY OthersKeepWorker, Zenon DEF loopVars
<1>2. status' = status \/ status' = "Failed"
  BY OthersStatus
<1>3. UNCHANGED <<paused, closed>> \/ CloseGate
  BY OthersMoveGate
<1>4. /\ status' \in Status /\ final' \in {"None", "Exited", "Failed"}
      /\ worker' = "resuming" => status' \in {"Running", "Failed"}
      /\ worker' \in Window => status' # "Paused"
      /\ status' = "Exited" => worker' \in Ending \ {"cleanup"}
      /\ status' = "Paused" => status = "Paused"
  BY <1>1, <1>2 DEF GateInv, Status
<1>5. /\ paused' \in BOOLEAN /\ closed' \in BOOLEAN
      /\ closed' => ~paused'
      /\ paused \/ closed => paused' \/ closed'
  <2>1. CASE UNCHANGED <<paused, closed>>
    BY <2>1, Zenon DEF GateInv
  <2>2. CASE CloseGate
    <3>1. closed' = TRUE /\ paused' = FALSE
      BY <2>2 DEF CloseGate
    <3>2. closed' /\ ~paused'
      BY ONLY <3>1, Zenon
    <3>3. paused' \in BOOLEAN /\ closed' \in BOOLEAN
      BY ONLY <3>1, Zenon
    <3> QED
      BY <3>2, <3>3, Zenon
  <2> QED
    BY <1>3, <2>1, <2>2
<1> QED
  BY <1>1, <1>4, <1>5, Zenon DEF GateInv

\* Steps of the worker that neither record a status nor move the gate.
LEMMA GateKeeps ==
    ASSUME GateInv, status' = status, paused' = paused, closed' = closed,
           final' \in {"None", "Exited", "Failed"}, worker # "pausing", worker' # "resuming",
           worker' \in Window => worker \in Window,
           worker \in Ending \ {"cleanup"} => worker' \in Ending \ {"cleanup"}
    PROVE  GateInv'
BY Zenon DEF GateInv

\* The head of the queue is a caller with an operation.
LEMMA HeadOfQueue ==
    ASSUME WorkerType, QueueInv, queue # <<>>
    PROVE  /\ Head(queue) \in Caller /\ Head(queue) = queue[1] /\ 1 \in DOMAIN queue
           /\ op[Head(queue)] \in Op
BY DEF WorkerType, QueueInv

\* A command that is answered or panics keeps the gate.
LEMMA DoneGate ==
    ASSUME GateInv, status' = status, gateVars' = gateVars, worker \in Executing \ {"pausing"},
           (\E r \in Reply : Done(r)) \/ Panics
    PROVE  GateInv'
<1>1. paused' = paused /\ closed' = closed
  BY DEF gateVars
<1>2. worker' \in {"drain", "cleanup"} /\ final' \in {"None", "Exited", "Failed"}
  BY Zenon DEF Done, Panics, GateInv
<1>3. /\ worker # "pausing" /\ worker' # "resuming" /\ worker' \notin Window
      /\ worker \notin Ending
  BY <1>2, Zenon DEF Executing, Op, Snapshotting, Leased, Ending, Window
<1> QED
  BY <1>1, <1>2, <1>3, GateKeeps

\* The steps of a snapshot command.
LEMMA SnapshotGate ==
    ASSUME GateInv, SnapshotStep PROVE GateInv'
<1>1. ASSUME gateVars' = gateVars, status' = status, final' = final,
             worker \in Snapshotting, worker' \in Snapshotting
      PROVE  GateInv'
  <2>1. paused' = paused /\ closed' = closed
    BY <1>1 DEF gateVars
  <2>2. /\ worker # "pausing" /\ worker' # "resuming" /\ worker' \notin Window
        /\ worker \notin Ending
    BY <1>1, Zenon DEF Snapshotting, Leased, Ending, Window
  <2>3. final' \in {"None", "Exited", "Failed"}
    BY <1>1 DEF GateInv
  <2> QED
    BY <1>1, <2>1, <2>2, <2>3, GateKeeps
<1>2. ASSUME status' = status, gateVars' = gateVars, worker \in Snapshotting,
             (\E r \in Reply : Done(r)) \/ Panics
      PROVE  GateInv'
  BY <1>2, DoneGate, Zenon DEF Executing, Snapshotting, Leased
<1>3. CASE ExecuteSnapshot \/ RunLeased
  BY <1>1, <1>3, Zenon DEF ExecuteSnapshot, RunLeased, captureRest, Snapshotting, Leased
<1>4. CASE SnapshotUnready \/ RefuseSnapshot \/ Lease
  BY <1>1, <1>2, <1>4, Zenon DEF SnapshotUnready, RefuseSnapshot, Lease, captureRest,
     Snapshotting, Leased, Reply
<1>5. CASE PreparePause \/ RequestPause
  BY <1>1, <1>5, Zenon DEF PreparePause, RequestPause, captureRest, Snapshotting, Leased
<1>6. CASE CollectQueued \/ \E i \in Member, k \in RunEnd : CollectPausing(i, k)
  BY <1>1, <1>6, Zenon DEF CollectQueued, CollectPausing, captureRest, Snapshotting, Leased
<1>7. CASE CaptureBody \/ Recover \/ WorkerFailed
  BY <1>1, <1>7, Zenon DEF CaptureBody, Recover, WorkerFailed, captureRest, Snapshotting,
     Leased
<1>8. CASE Release \/ FinishRelease
  BY <1>1, <1>2, <1>8, Zenon DEF Release, FinishRelease, Respond, captureRest, Snapshotting,
     Leased, Reply
<1> QED
  BY <1>3, <1>4, <1>5, <1>6, <1>7, <1>8 DEF SnapshotStep

\* One step of the run-loop window, from the worker's state to the next.
WindowStep ==
    \/ RunTop \/ Dispatch \/ ReceiveQueued \/ Handle
    \/ \E i \in Member, k \in RunEnd : ReceiveResult(i, k)

\* A window goes on, or ends in a drain or in the cleanup.
LEMMA WindowShape ==
    ASSUME WindowStep
    PROVE  /\ worker \in Window /\ worker' \in Window \cup {"drain", "cleanup"}
           /\ status' = status /\ observed' = observed /\ stop' = stop /\ windowRest' = windowRest
           /\ final' \in {final, "Exited", "Failed"}
           /\ \/ worker' = "drain" /\ budget' = Capacity
              \/ worker' # "drain" /\ budget' = budget
<1>1. CASE RunTop
  BY <1>1, Zenon DEF RunTop, Ends, Window, tokenVars
<1>2. CASE Dispatch
  BY <1>2, Zenon DEF Dispatch, Ends, Window, tokenVars
<1>3. CASE ReceiveQueued
  BY <1>3, Zenon DEF ReceiveQueued, Event, Window, tokenVars
<1>4. ASSUME NEW s, AfterStep(s)
      PROVE  /\ worker' \in Window \cup {"drain", "cleanup"}
             /\ final' \in {final, "Exited", "Failed"}
             /\ \/ worker' = "drain" /\ budget' = Capacity
                \/ worker' # "drain" /\ budget' = budget
  BY <1>4, Zenon DEF AfterStep, Drain, Ends, Window
<1>5. CASE Handle
  BY <1>4, <1>5, Zenon DEF Handle, Window, tokenVars
<1>6. ASSUME NEW i \in Member, NEW k \in RunEnd, ReceiveResult(i, k)
      PROVE  /\ worker = "wait" /\ worker' \in Window \cup {"drain", "cleanup"}
             /\ final' \in {final, "Exited", "Failed"}
             /\ worker' # "drain" /\ budget' = budget
  BY <1>6, Zenon DEF ReceiveResult, Ends, Event, Window
<1>7. ASSUME NEW i \in Member, NEW k \in RunEnd, ReceiveResult(i, k)
      PROVE  status' = status /\ observed' = observed /\ stop' = stop /\ windowRest' = windowRest
  BY <1>7, Zenon DEF ReceiveResult, tokenVars
<1> QED
  BY <1>1, <1>2, <1>3, <1>5, <1>6, <1>7 DEF WindowStep, Window

\* The worker keeps the gate and the status together.
LEMMA WorkerGate ==
    ASSUME LoopInv, WorkerStep PROVE GateInv'
<1>0. WorkerType /\ GateInv /\ QueueInv
  BY DEF LoopInv
<1>1. CASE ExecuteLifecycle
  BY <1>0, <1>1, Zenon DEF ExecuteLifecycle, record, GateInv, gateVars, Window, Status, Ending
<1>2. CASE MoveGate
  BY <1>0, <1>2, Zenon DEF MoveGate, Done, GateInv, Window, Ending
<1>3. CASE Gate
  BY <1>0, <1>3, Zenon DEF Gate, Ends, Drain, windowRest, GateInv, gateVars, Window, Ending
<1>4. CASE Cleanup
  BY <1>0, <1>4, Zenon DEF Cleanup, record, endRest, GateInv, gateVars, Window, Ending, Status
<1>5. CASE WindowStep
  <2>1. paused' = paused /\ closed' = closed
    BY <1>5, WindowShape DEF windowRest, gateVars
  <2>2. /\ worker # "pausing" /\ worker' # "resuming" /\ worker \notin Ending
        /\ final' \in {"None", "Exited", "Failed"}
    BY <1>0, <1>5, WindowShape, Zenon DEF Window, Ending, GateInv
  <2> QED
    BY <1>0, <1>5, <2>1, <2>2, WindowShape, GateKeeps DEF Window
<1>6. CASE DrainEnds \/ DropReceiver \/ WorkerEnds
  BY <1>0, <1>6, GateKeeps, Zenon DEF DrainEnds, DropReceiver, WorkerEnds, endRest, gateVars, Window,
     Ending, GateInv
<1>7. CASE Take
  <2>1. worker' \in Op
    BY <1>0, <1>7, HeadOfQueue DEF Take
  <2> QED
    BY <1>0, <1>7, <2>1, GateKeeps, Zenon DEF Take, gateVars, Window, Ending, GateInv, Op
<1>8. CASE ExecuteUpdate
  BY <1>0, <1>8, DoneGate, Zenon DEF ExecuteUpdate, Reply, Executing, Op
<1>9. CASE SnapshotStep
  BY <1>0, <1>9, SnapshotGate
<1> QED
  BY <1>1, <1>2, <1>3, <1>4, <1>5, <1>6, <1>7, <1>8, <1>9, Zenon DEF WorkerStep, WindowStep

-----------------------------------------------------------------------------
(* The control states of the callers.                                      *)

\* A thread that is not a caller only fails the worker.
LEMMA CallersOnly ==
    ASSUME ThreadType, NEW c \in Thread, at[c] \notin {"idle"} \cup Failing
    PROVE  c \in Caller
BY DEF ThreadType, Thread

\* The answer a caller has received sends it on.
LEMMA RespondsMoves ==
    ASSUME NEW c, Responds(c)
    PROVE  \/ at' = [at EXCEPT ![c] = "failing"] /\ op' = op
           \/ /\ at' = [at EXCEPT ![c] = "canceling"] /\ op' = op
              /\ reply[c] = "Closed"
           \/ at' = [at EXCEPT ![c] = "idle"] /\ op' = [op EXCEPT ![c] = "none"]
BY Zenon DEF Responds, Goes, CallOver

\* Every step of a thread moves it alone, and ends its call or keeps it.
LEMMA CallerStepMoves ==
    ASSUME NEW c \in Thread, CallerStep(c)
    PROVE  /\ reply' = reply
           /\ \/ \E x \in CallerState \ {"checked"} : at' = [at EXCEPT ![c] = x] /\ op' = op
              \/ at' = [at EXCEPT ![c] = "idle"] /\ op' = [op EXCEPT ![c] = "none"]
           /\ at[c] \in {"idle"} \cup Failing =>
                \E x \in {"idle"} \cup Failing : at' = [at EXCEPT ![c] = x]
<1> USE DEF CallerState, Awaiting, Canceling, Failing
<1>1. CASE Send(c)
  BY <1>1, Zenon DEF Send, Goes, CallOver
<1>2. CASE notify_command_available(c) \/ SetWakeup(c) \/ RequestWakeup(c)
  BY <1>2, Zenon DEF notify_command_available, SetWakeup, RequestWakeup, Goes
<1>3. CASE TryRecv(c)
  BY <1>3, RespondsMoves DEF TryRecv, Goes
<1>4. CASE Recv(c)
  BY <1>4, RespondsMoves DEF Recv
<1>5. CASE CancelPreparation(c) \/ FinishCanceling(c)
  BY <1>5, Zenon DEF CancelPreparation, FinishCanceling, Goes, CallOver
<1>6. CASE FailStatus(c) \/ FailAdmission(c) \/ FailGate(c) \/ FailStop(c)
  BY <1>6, Zenon DEF FailStatus, FailAdmission, FailGate, FailStop, Goes
<1>7. CASE FailRequest(c)
  BY <1>7 DEF FailRequest, CallOver
<1> QED
  BY <1>1, <1>2, <1>3, <1>4, <1>5, <1>6, <1>7 DEF CallerStep

\* A caller's call is checked and noted, or refused at once.
LEMMA CallMoves ==
    ASSUME NEW c \in Caller, NEW o \in Ops, Call(c, o)
    PROVE  /\ at[c] = "idle" /\ reply' = [reply EXCEPT ![c] = "None"] /\ o \in Op
           /\ \/ at' = [at EXCEPT ![c] = "checked"] /\ op' = [op EXCEPT ![c] = o]
              \/ at' = at /\ op' = op
BY LoopAssumption, Zenon DEF Call, Replies, Goes

\* The steps that belong to no caller.
Elsewhere ==
    stop_and_join \/ AuxiliaryWakeup \/ PacketReady \/ \E i \in Member : RunnerLeaves(i)

LEMMA ElsewhereKeeps ==
    ASSUME Elsewhere
    PROVE  at' = at /\ op' = op /\ reply' = reply /\ queue' = queue /\ generation' = generation
BY Zenon DEF Elsewhere, AuxiliaryWakeup, PacketReady, RunnerLeaves, stop_and_join, JoinStop,
   JoinRequest, JoinAdmission, JoinGate, JoinWorker, joinRest, CloseGate, gateVars, callerVars

LEMMA OthersThreadType ==
    ASSUME ThreadType, Others PROVE ThreadType'
<1>1. ASSUME NEW c \in Thread, CallerStep(c) PROVE ThreadType'
  <2>1. at' \in [Thread -> CallerState] /\ op' \in [Thread -> Op \cup {"none"}] /\ reply' = reply
    BY <1>1, CallerStepMoves DEF ThreadType, CallerState
  <2>2. at'[Worker] \in {"idle"} \cup Failing
    BY <1>1, CallerStepMoves DEF ThreadType, Thread
  <2> QED
    BY <2>1, <2>2 DEF ThreadType
<1>2. ASSUME NEW c \in Caller, NEW o \in Ops, Call(c, o) PROVE ThreadType'
  BY <1>2, CallMoves, LoopAssumption DEF ThreadType, Thread, CallerState, Reply
<1>3. CASE Elsewhere
  BY <1>3, ElsewhereKeeps DEF ThreadType
<1> QED
  BY <1>1, <1>2, <1>3, Zenon DEF Others, Elsewhere, Thread

-----------------------------------------------------------------------------
(* The control states of the worker.                                       *)

Answers == {"Ok", "Fatal", "Refused", "Invalidated"}

\* The command in execution is answered, or its channel closes.
Completes == (\E r \in Answers : Done(r)) \/ Panics

\* The command in execution goes on.
GoesOn ==
    /\ worker \in Executing /\ worker' \in Executing
    /\ UNCHANGED <<queue, open, running, reply, budget, observed, op>>
    /\ at' = at \/ at' = [at EXCEPT ![Worker] = "failing"]

LEMMA SnapshotShape ==
    ASSUME SnapshotStep
    PROVE  /\ worker \in Snapshotting /\ generation' = generation /\ status' = status
           /\ (GoesOn /\ worker' \in Snapshotting) \/ Completes
<1> USE DEF captureRest, gateVars, Snapshotting, Leased, Executing, GoesOn
<1>1. CASE ExecuteSnapshot \/ RunLeased
  BY <1>1 DEF ExecuteSnapshot, RunLeased
<1>2. CASE SnapshotUnready \/ RefuseSnapshot \/ Lease
  BY <1>2, Zenon DEF SnapshotUnready, RefuseSnapshot, Lease, Completes, Answers
<1>3. CASE PreparePause \/ RequestPause
  BY <1>3 DEF PreparePause, RequestPause
<1>4. CASE CollectQueued \/ \E i \in Member, k \in RunEnd : CollectPausing(i, k)
  BY <1>4 DEF CollectQueued, CollectPausing
<1>5. CASE CaptureBody \/ WorkerFailed
  BY <1>5 DEF CaptureBody, WorkerFailed
<1>6. CASE Recover
  BY <1>6 DEF Recover, Goes
<1>7. CASE Release \/ FinishRelease
  BY <1>7, Zenon DEF Release, FinishRelease, Respond, Completes, Answers
<1> QED
  BY <1>1, <1>2, <1>3, <1>4, <1>5, <1>6, <1>7 DEF SnapshotStep

\* What the end of the worker and its windows leave alone.
Quiet == UNCHANGED <<running, observed, at, op, generation>>

\* The steps of the worker by their effect on its queue.
LEMMA WorkerShape ==
    ASSUME WorkerStep
    PROVE  \/ DrainEnds \/ Take \/ Gate \/ DropReceiver
           \/ worker \in Executing /\ generation' = generation /\ (GoesOn \/ Completes)
           \/ WindowStep
           \/ /\ Cleanup \/ WorkerEnds
              /\ worker \in Ending /\ worker' \in Ending /\ Quiet
              /\ UNCHANGED <<queue, open, reply, budget, admission>>
              /\ worker' \in {"parked", "ended"} <=> worker \in {"parked", "ended"}
<1>1. CASE ExecuteLifecycle
  BY <1>1, Zenon DEF ExecuteLifecycle, GoesOn, Executing, Op, gateVars, callerVars
<1>2. CASE MoveGate \/ ExecuteUpdate
  BY <1>2, Zenon DEF MoveGate, ExecuteUpdate, Completes, Answers, Executing, Op, gateVars
<1>3. CASE SnapshotStep
  BY <1>3, SnapshotShape DEF Executing
<1>4. CASE Cleanup \/ WorkerEnds
  BY <1>4, Zenon DEF Cleanup, WorkerEnds, endRest, gateVars, callerVars, Quiet, Ending
<1> QED
  BY <1>1, <1>2, <1>3, <1>4, Zenon DEF WorkerStep, WindowStep

\* Completing a command frees the worker.
LEMMA CompletesShape ==
    ASSUME Completes
    PROVE  /\ running' = Nobody /\ worker' \in {"drain", "cleanup"}
           /\ \E r \in Answers \cup {"Closed"} :
                 /\ reply' = [reply EXCEPT ![running] = r]
                 /\ worker' = "drain" => r # "Closed"
           /\ queue' = queue /\ open' = open /\ budget' = budget /\ observed' = observed
           /\ at' = at /\ op' = op
BY Zenon DEF Completes, Done, Panics, Replies, Answers, callerVars

LEMMA WorkerTypes ==
    ASSUME LoopInv, WorkerStep, admission' \in Admission PROVE ThreadType' /\ WorkerType'
<1>0. ThreadType /\ WorkerType /\ QueueInv
  BY DEF LoopInv
<1>1. CASE DrainEnds
  BY <1>0, <1>1, Zenon DEF DrainEnds, callerVars, ThreadType, WorkerType, WorkerState
<1>2. CASE Take
  <2>1. worker' \in WorkerState /\ running' \in Caller
    BY <1>0, <1>2, HeadOfQueue, Zenon DEF Take, WorkerState, Executing
  <2>2. queue' \in Seq(Caller) /\ Len(queue') <= Capacity
    BY <1>0, <1>2, LoopAssumption DEF Take, WorkerType
  <2> QED
    BY <1>0, <1>2, <2>1, <2>2, Zenon DEF Take, callerVars, ThreadType, WorkerType
<1>3. CASE Gate
  BY <1>0, <1>3, Zenon DEF Gate, Ends, Drain, windowRest, callerVars, ThreadType, WorkerType,
     WorkerState, Window, Ending
<1>4. CASE DropReceiver
  <2>1. reply' \in [Caller -> Reply]
    BY <1>0, <1>4, Zenon DEF DropReceiver, ThreadType, Reply
  <2>2. queue' \in Seq(Caller) /\ Len(queue') <= Capacity
    <3>1. queue' = <<>> /\ Capacity \in Nat
      BY <1>4, LoopAssumption DEF DropReceiver
    <3> QED
      BY ONLY <3>1
  <2>3. open' \in BOOLEAN /\ worker' \in WorkerState
    BY <1>4, Zenon DEF DropReceiver, WorkerState, Ending
  <2>4. at' = at /\ op' = op /\ running' = running
    BY <1>4, Zenon DEF DropReceiver, endRest, callerVars
  <2> QED
    BY <1>0, <2>1, <2>2, <2>3, <2>4, Zenon DEF ThreadType, WorkerType
<1>5. CASE GoesOn
  BY <1>0, <1>5, Zenon DEF GoesOn, ThreadType, WorkerType, WorkerState, CallerState, Thread,
     Failing
<1>6. CASE Completes
  BY <1>0, <1>6, CompletesShape, Zenon DEF ThreadType, WorkerType, WorkerState, Ending, Reply,
     Answers
<1>7. CASE WindowStep
  BY <1>0, <1>7, WindowShape, Zenon DEF windowRest, callerVars, ThreadType, WorkerType,
     WorkerState, Ending
<1>8. CASE worker' \in Ending /\ Quiet /\ UNCHANGED <<queue, open, reply, budget, admission>>
  BY <1>0, <1>8, Zenon DEF Quiet, ThreadType, WorkerType, WorkerState
<1> QED
  BY <1>1, <1>2, <1>3, <1>4, <1>5, <1>6, <1>7, <1>8, WorkerShape

\* A command is admitted and enqueued.
Sent(c) ==
    /\ c \in Caller /\ at[c] = "checked" /\ at' = [at EXCEPT ![c] = "sent"]
    /\ op' = op /\ reply' = reply /\ queue' = Append(queue, c)
    /\ admission = "Ordinary" /\ open /\ Len(queue) < Capacity
    /\ admission' = IF op[c] = "snapshot" THEN "SnapshotPreparing" ELSE admission
    /\ generation' = generation

\* A thread moves without touching the queue: an unanswered caller stays one.
Stays(c) ==
    /\ queue' = queue /\ reply' = reply
    /\ \E x \in CallerState \ {"checked", "sent"} :
          /\ at' = [at EXCEPT ![c] = x]
          /\ x \in Awaiting => at[c] \in Awaiting
          /\ at[c] \in Awaiting => \/ x \in Awaiting /\ op' = op
                                  \/ reply[c] # "None"
          /\ x \in Canceling => at[c] \in Canceling \/ reply[c] = "Closed"
    /\ op' = op \/ op' = [op EXCEPT ![c] = "none"]
    /\ at[c] = "sent" => generation' = generation + 1
    /\ at[c] # "sent" => generation' = generation

\* A caller's step sends its command or leaves the queue alone.
LEMMA CallerStepQueue ==
    ASSUME ThreadType, NEW c \in Thread, CallerStep(c) PROVE Sent(c) \/ Stays(c)
<1> USE DEF CallerState, Awaiting, Canceling, Failing, gateVars
<1>1. CASE Send(c)
  <2>1. c \in Caller
    BY <1>1, CallersOnly DEF Send
  <2> QED
    BY <1>1, <2>1 DEF Send, Goes, CallOver, Sent, Stays
<1>2. CASE notify_command_available(c) \/ SetWakeup(c) \/ RequestWakeup(c)
  BY <1>2, Zenon DEF notify_command_available, SetWakeup, RequestWakeup, Goes, Stays
<1>3. ASSUME Responds(c), at[c] \in {"notified", "waiting"}, reply[c] # "None", queue' = queue,
             reply' = reply, generation' = generation
      PROVE  Stays(c)
  BY <1>3, RespondsMoves DEF Stays
<1>4. CASE TryRecv(c) \/ Recv(c)
  <2>1. CASE TryRecv(c) /\ reply[c] = "None"
    BY <2>1, Zenon DEF TryRecv, Goes, Stays
  <2> QED
    BY <1>3, <1>4, <2>1 DEF TryRecv, Recv
<1>5. CASE CancelPreparation(c) \/ FinishCanceling(c)
  BY <1>5, Zenon DEF CancelPreparation, FinishCanceling, Goes, CallOver, Stays
<1>6. CASE FailStatus(c) \/ FailAdmission(c) \/ FailGate(c) \/ FailStop(c)
  BY <1>6, Zenon DEF FailStatus, FailAdmission, FailGate, FailStop, Goes, CloseGate, Stays
<1>7. CASE FailRequest(c)
  <2>1. /\ at[c] = "failing5" /\ at' = [at EXCEPT ![c] = "idle"]
        /\ op' = [op EXCEPT ![c] = "none"] /\ queue' = queue /\ reply' = reply
        /\ generation' = generation
    BY <1>7 DEF FailRequest, CallOver
  <2>2. "idle" \in CallerState \ {"checked", "sent"} /\ "idle" \notin Awaiting
        /\ "idle" \notin Canceling /\ at[c] \notin Awaiting
    BY <2>1
  <2> QED
    BY ONLY <2>1, <2>2, Zenon DEF Stays
<1> QED
  BY <1>1, <1>2, <1>4, <1>5, <1>6, <1>7 DEF CallerStep

LEMMA OthersTypes ==
    ASSUME LoopInv, Others, admission' \in Admission PROVE ThreadType' /\ WorkerType'
<1>1. ThreadType /\ WorkerType
  BY DEF LoopInv
<1>2. worker' = worker /\ running' = running /\ open' = open
  BY OthersKeepWorker DEF loopVars
<1>3. queue' \in Seq(Caller) /\ Len(queue') <= Capacity
  <2>1. ASSUME NEW c \in Thread, CallerStep(c)
        PROVE  queue' \in Seq(Caller) /\ Len(queue') <= Capacity
    BY <1>1, <2>1, CallerStepQueue, LoopAssumption DEF WorkerType, Sent, Stays
  <2>2. ASSUME NEW c \in Caller, NEW o \in Ops, Call(c, o) PROVE queue' = queue
    BY <2>2 DEF Call
  <2> QED
    BY <1>1, <2>1, <2>2, ElsewhereKeeps, Zenon DEF WorkerType, Others, Elsewhere, Thread
<1> QED
  BY <1>1, <1>2, <1>3, OthersThreadType DEF WorkerType

-----------------------------------------------------------------------------
(* The queue and the response channels.                                    *)

\* The elements of a queue after a send.
LEMMA Appended ==
    ASSUME NEW q \in Seq(Caller), NEW c \in Caller
    PROVE  /\ DOMAIN q = 1 .. Len(q) /\ Len(q) \in Nat
           /\ DOMAIN Append(q, c) = 1 .. Len(q) + 1 /\ Len(Append(q, c)) = Len(q) + 1
           /\ \A k \in DOMAIN q : k \in DOMAIN Append(q, c) /\ Append(q, c)[k] = q[k]
                                  /\ q[k] \in Caller
           /\ \A k \in DOMAIN Append(q, c) :
                 k \in DOMAIN q \/ (k = Len(q) + 1 /\ Append(q, c)[k] = c)
           /\ Len(q) + 1 \in DOMAIN Append(q, c) /\ Append(q, c)[Len(q) + 1] = c
           /\ Len(q) + 1 \notin DOMAIN q
OBVIOUS

\* A caller that sends is neither queued nor in execution.
LEMMA SentQueue ==
    ASSUME LoopInv, NEW c, Sent(c), worker' = worker, running' = running, open' = open
    PROVE  QueueInv'
<1>1. ThreadType /\ WorkerType /\ QueueInv
  BY DEF LoopInv
<1>2. /\ c \in Caller /\ at[c] = "checked" /\ at' = [at EXCEPT ![c] = "sent"] /\ op' = op
      /\ reply' = reply /\ queue' = Append(queue, c) /\ open
  BY DEF Sent
<1>3. queue \in Seq(Caller)
  BY <1>1 DEF WorkerType
<1>4. \A x \in Caller : at'[x] = IF x = c THEN "sent" ELSE at[x]
  BY <1>1, <1>2 DEF ThreadType, Thread
<1>5. /\ \A k \in DOMAIN queue : queue[k] # c
      /\ running # c
      /\ reply[c] = "None" /\ op[c] \in Op
  BY <1>1, <1>2 DEF QueueInv, Awaiting
<1>6. /\ \A k \in DOMAIN queue : /\ k \in DOMAIN queue' /\ queue'[k] = queue[k]
                                /\ queue[k] \in Caller
      /\ \A k \in DOMAIN queue' : k \in DOMAIN queue \/ (k = Len(queue) + 1 /\ queue'[k] = c)
      /\ \E k \in DOMAIN queue' : queue'[k] = c
  BY <1>2, <1>3, Appended
<1>7. \A k \in DOMAIN queue' : at'[queue'[k]] \in Awaiting /\ reply'[queue'[k]] = "None"
                                /\ op'[queue'[k]] \in Op
  BY <1>1, <1>2, <1>4, <1>5, <1>6 DEF QueueInv, Awaiting
<1>8. ASSUME NEW j \in DOMAIN queue', NEW k \in DOMAIN queue', j # k PROVE queue'[j] # queue'[k]
  <2>1. CASE j \in DOMAIN queue /\ k \in DOMAIN queue
    BY <1>1, <1>6, <1>8, <2>1, Zenon DEF QueueInv
  <2>2. CASE j \in DOMAIN queue /\ k \notin DOMAIN queue
    BY <1>5, <1>6, <2>2, Zenon
  <2>3. CASE j \notin DOMAIN queue /\ k \in DOMAIN queue
    BY <1>5, <1>6, <2>3, Zenon
  <2>4. CASE j \notin DOMAIN queue /\ k \notin DOMAIN queue
    BY <1>6, <1>8, <2>4, Zenon
  <2> QED
    BY <2>1, <2>2, <2>3, <2>4
<1>9. running' \in Caller =>
          /\ at'[running'] \in Awaiting /\ reply'[running'] = "None"
          /\ \A k \in DOMAIN queue' : queue'[k] # running'
  <2>1. running \in Caller => at'[running] \in Awaiting /\ reply[running] = "None"
    BY <1>1, <1>4, <1>5, Zenon DEF QueueInv
  <2>2. running \in Caller => \A k \in DOMAIN queue' : queue'[k] # running
    BY <1>1, <1>5, <1>6, Zenon DEF QueueInv
  <2> QED
    BY <1>2, <2>1, <2>2, Zenon
<1>11. \A x \in Caller : at'[x] \in Awaiting /\ reply'[x] = "None" =>
          x = running' \/ \E k \in DOMAIN queue' : queue'[k] = x
  <2> SUFFICES ASSUME NEW x \in Caller, at'[x] \in Awaiting, reply'[x] = "None", x # running
               PROVE  \E k \in DOMAIN queue' : queue'[k] = x
    BY Zenon
  <2>1. CASE x = c
    BY <1>6, <2>1, Zenon
  <2>2. CASE x # c
    <3>1. PICK k \in DOMAIN queue : queue[k] = x
      BY <1>1, <1>2, <1>4, <2>2, Zenon DEF QueueInv
    <3> QED
      BY <1>6, <3>1, Zenon
  <2> QED
    BY <2>1, <2>2
<1>10. \A x \in Caller : at'[x] = "checked" => reply'[x] = "None" /\ op'[x] \in Op
  BY <1>1, <1>2, <1>4 DEF QueueInv
<1> QED
  BY <1>1, <1>2, <1>7, <1>8, <1>9, <1>10, <1>11, Zenon DEF QueueInv

\* A caller whose command is queued or in execution keeps waiting for it.
LEMMA StaysQueue ==
    ASSUME LoopInv, NEW c \in Thread, Stays(c), worker' = worker, running' = running, open' = open
    PROVE  QueueInv'
<1>1. ThreadType /\ WorkerType /\ QueueInv
  BY DEF LoopInv
<1>2. PICK y \in CallerState \ {"checked", "sent"} :
          /\ at' = [at EXCEPT ![c] = y]
          /\ y \in Awaiting => at[c] \in Awaiting
          /\ at[c] \in Awaiting => (y \in Awaiting /\ op' = op) \/ reply[c] # "None"
  BY Zenon DEF Stays
<1>3. queue' = queue /\ reply' = reply /\ queue \in Seq(Caller)
  BY <1>1, Zenon DEF Stays, WorkerType
<1>4. \A x \in Caller : at'[x] = IF x = c THEN y ELSE at[x]
  BY <1>1, <1>2 DEF ThreadType, Thread
<1>5. \A x \in Caller : x # c => op'[x] = op[x]
  BY <1>1, Zenon DEF Stays, ThreadType, Thread
<1>6. \A x \in Caller : at[x] \in Awaiting /\ reply[x] = "None" =>
          at'[x] \in Awaiting /\ op'[x] = op[x]
  BY <1>2, <1>4, <1>5, Zenon
<1>7. \A x \in Caller : at'[x] \in Awaiting => at[x] \in Awaiting
  BY <1>2, <1>4, Zenon
<1>8. \A x \in Caller : at'[x] = "checked" => reply'[x] = "None" /\ op'[x] \in Op
  <2>1. \A x \in Caller : at[x] = "checked" => reply[x] = "None" /\ op[x] \in Op
    BY <1>1, Zenon DEF QueueInv
  <2>2. \A x \in Caller : at'[x] = "checked" => x # c /\ at[x] = "checked"
    BY ONLY <1>2, <1>4, Zenon
  <2> QED
    BY ONLY <1>3, <1>5, <2>1, <2>2, Zenon
<1>9. \A k \in DOMAIN queue : queue[k] \in Caller
  BY <1>3
<1>10. \A k \in DOMAIN queue : at'[queue[k]] \in Awaiting /\ op'[queue[k]] \in Op
  BY <1>1, <1>6, <1>9, Zenon DEF QueueInv
<1>11. running \in Caller => at'[running] \in Awaiting
  BY <1>1, <1>6, Zenon DEF QueueInv
<1> QED
  BY <1>1, <1>3, <1>7, <1>8, <1>10, <1>11, Zenon DEF QueueInv

\* A new call is of a caller with nothing in the queue.
LEMMA CallQueue ==
    ASSUME LoopInv, NEW c \in Caller, NEW o \in Ops, Call(c, o),
           worker' = worker, running' = running, open' = open
    PROVE  QueueInv'
<1>1. ThreadType /\ WorkerType /\ QueueInv
  BY DEF LoopInv
<1>2. queue' = queue /\ queue \in Seq(Caller)
  BY <1>1, Zenon DEF Call, WorkerType
<1>3. /\ at[c] = "idle" /\ o \in Op
      /\ \A x \in Caller : /\ x # c => at'[x] = at[x] /\ reply'[x] = reply[x] /\ op'[x] = op[x]
                           /\ reply'[c] = "None" /\ at'[c] \in {"idle", "checked"}
                           /\ at'[c] = "checked" => op'[c] = o
  BY <1>1, CallMoves DEF ThreadType, Thread
<1>4. /\ \A k \in DOMAIN queue : queue[k] # c /\ queue[k] \in Caller
      /\ running # c /\ "idle" \notin Awaiting /\ "checked" \notin Awaiting
  BY <1>1, <1>2, <1>3 DEF QueueInv, Awaiting
<1>5. at'[c] \notin Awaiting
  BY <1>3, <1>4, Zenon
<1>6. \A k \in DOMAIN queue : /\ at'[queue[k]] \in Awaiting /\ reply'[queue[k]] = "None"
                              /\ op'[queue[k]] \in Op
  BY <1>1, <1>3, <1>4, Zenon DEF QueueInv
<1>7. running \in Caller => at'[running] \in Awaiting /\ reply'[running] = "None"
  BY <1>1, <1>3, <1>4, Zenon DEF QueueInv
<1>8. \A x \in Caller : at'[x] \in Awaiting /\ reply'[x] = "None" =>
          x = running \/ \E k \in DOMAIN queue : queue[k] = x
  BY <1>1, <1>3, <1>5, Zenon DEF QueueInv
<1>9. \A x \in Caller : at'[x] = "checked" => reply'[x] = "None" /\ op'[x] \in Op
  <2>1. \A x \in Caller : at[x] = "checked" => reply[x] = "None" /\ op[x] \in Op
    BY <1>1, Zenon DEF QueueInv
  <2> QED
    BY ONLY <1>3, <2>1, Zenon
<1> QED
  BY <1>1, <1>2, <1>6, <1>7, <1>8, <1>9, Zenon DEF QueueInv

\* Steps that leave queue, callers and the command in execution alone.
LEMMA QueueKeeps ==
    ASSUME QueueInv, WorkerType, queue' = queue, open' = open, running' = running,
           reply' = reply, op' = op, \A c \in Caller : at'[c] = at[c],
           worker' \in Executing <=> worker \in Executing,
           worker' \in {"parked", "ended"} <=> worker \in {"parked", "ended"}
    PROVE  QueueInv'
<1>1. \A k \in DOMAIN queue : queue[k] \in Caller
  BY DEF WorkerType
<1>2. \A k \in DOMAIN queue : at'[queue[k]] = at[queue[k]]
  BY <1>1, Zenon
<1> QED
  BY <1>2, Zenon DEF QueueInv

\* The elements of the queue behind its head.
LEMMA TailOf ==
    ASSUME NEW q \in Seq(Caller), q # <<>>
    PROVE  /\ Tail(q) \in Seq(Caller) /\ 1 \in DOMAIN q /\ Head(q) = q[1] /\ Head(q) \in Caller
           /\ \A k \in DOMAIN Tail(q) : /\ k + 1 \in DOMAIN q /\ Tail(q)[k] = q[k + 1]
                                        /\ k \in Nat /\ k + 1 # 1
           /\ \A k \in DOMAIN q : k = 1 \/ (k - 1 \in DOMAIN Tail(q) /\ Tail(q)[k - 1] = q[k])
           /\ Len(Tail(q)) = Len(q) - 1
OBVIOUS

\* The worker takes the head of the queue for execution.
LEMMA TakeQueue ==
    ASSUME LoopInv, Take PROVE QueueInv'
<1>1. ThreadType /\ WorkerType /\ QueueInv
  BY DEF LoopInv
<1>2. /\ queue # <<>> /\ queue' = Tail(queue) /\ running' = Head(queue) /\ worker = "drain"
      /\ worker' = op[Head(queue)] /\ at' = at /\ op' = op /\ reply' = reply /\ open' = open
  BY DEF Take, callerVars
<1>3. queue \in Seq(Caller)
  BY <1>1 DEF WorkerType
<1>4. /\ 1 \in DOMAIN queue /\ running' = queue[1] /\ running' \in Caller
      /\ \A k \in DOMAIN queue' : /\ k + 1 \in DOMAIN queue /\ queue'[k] = queue[k + 1]
                                  /\ k + 1 # 1
      /\ \A k \in DOMAIN queue :
            k = 1 \/ (k - 1 \in DOMAIN queue' /\ queue'[k - 1] = queue[k])
  BY <1>2, <1>3, TailOf
<1>5. worker' \in Executing /\ worker' \notin {"parked", "ended"} /\ worker \notin Executing
      /\ worker \notin {"parked", "ended"}
  BY <1>1, <1>2, HeadOfQueue, Zenon DEF Executing, Op, Snapshotting, Leased
<1>6. \A k \in DOMAIN queue' : /\ at[queue'[k]] \in Awaiting /\ reply[queue'[k]] = "None"
                               /\ op[queue'[k]] \in Op
  BY <1>1, <1>4 DEF QueueInv
<1>7. ASSUME NEW j \in DOMAIN queue', NEW k \in DOMAIN queue', j # k PROVE queue'[j] # queue'[k]
  <2>1. j + 1 # k + 1
    BY <1>3, <1>7, <1>2, TailOf
  <2> QED
    BY <1>1, <1>4, <2>1 DEF QueueInv
<1>8. \A k \in DOMAIN queue' : queue'[k] # running'
  BY <1>1, <1>4 DEF QueueInv
<1>9. ASSUME NEW x \in Caller, at[x] \in Awaiting, reply[x] = "None", x # running'
      PROVE  \E k \in DOMAIN queue' : queue'[k] = x
  <2>1. PICK k \in DOMAIN queue : queue[k] = x
    BY <1>1, <1>5, <1>9, Zenon DEF QueueInv
  <2> QED
    BY <1>4, <1>9, <2>1, Zenon
<1>10. open' <=> worker' \notin {"parked", "ended"}
  BY <1>1, <1>2, <1>5, Zenon DEF QueueInv
<1>11. open'
  BY <1>1, <1>2, <1>5, Zenon DEF QueueInv
<1>12. at[running'] \in Awaiting /\ reply[running'] = "None"
  BY <1>1, <1>4, Zenon DEF QueueInv
<1>13. \A c \in Caller : at[c] = "checked" => reply[c] = "None" /\ op[c] \in Op
  BY <1>1, Zenon DEF QueueInv
<1> QED
  BY <1>2, <1>4, <1>5, <1>6, <1>7, <1>8, <1>9, <1>10, <1>11, <1>12, <1>13, Zenon DEF QueueInv

\* The command in execution is answered, and nothing else.
LEMMA CompletesQueue ==
    ASSUME LoopInv, worker \in Executing, Completes PROVE QueueInv'
<1>1. ThreadType /\ WorkerType /\ QueueInv
  BY DEF LoopInv
<1>2. running \in Caller /\ Nobody \notin Caller
  BY <1>1, LoopAssumption DEF QueueInv
<1>3. /\ running' = Nobody /\ worker' \in {"drain", "cleanup"} /\ queue' = queue /\ open' = open
      /\ at' = at /\ op' = op
  BY CompletesShape
<1>4. reply'[running] # "None" /\ \A x \in Caller : x # running => reply'[x] = reply[x]
  BY <1>1, <1>2, CompletesShape DEF ThreadType, Answers
<1>5. worker' \notin Executing /\ worker' \notin {"parked", "ended"}
      /\ worker \notin {"parked", "ended"} /\ "checked" \notin Awaiting
  BY <1>3, Zenon DEF Executing, Op, Snapshotting, Leased, Awaiting
<1>6. \A k \in DOMAIN queue : queue[k] \in Caller
  BY <1>1 DEF WorkerType
<1>7. \A k \in DOMAIN queue : reply'[queue[k]] = "None"
  BY <1>1, <1>2, <1>4, <1>6, Zenon DEF QueueInv
<1>8. \A x \in Caller : at[x] \in Awaiting /\ reply'[x] = "None" =>
          \E k \in DOMAIN queue : queue[k] = x
  BY <1>1, <1>4, Zenon DEF QueueInv
<1>9. \A x \in Caller : at[x] = "checked" => reply'[x] = "None" /\ op[x] \in Op
  <2>1. \A x \in Caller : at[x] = "checked" => reply[x] = "None" /\ op[x] \in Op
    BY <1>1, Zenon DEF QueueInv
  <2>2. at[running] # "checked"
    BY <1>1, <1>2, <1>5, Zenon DEF QueueInv
  <2> QED
    BY ONLY <1>4, <2>1, <2>2, Zenon
<1>10. open
  BY <1>1, <1>5, Zenon DEF QueueInv
<1> QED
  BY <1>1, <1>2, <1>3, <1>5, <1>7, <1>8, <1>9, <1>10, Zenon DEF QueueInv

\* Dropping the receiver closes the channel of every queued command.
LEMMA DropQueue ==
    ASSUME LoopInv, DropReceiver PROVE QueueInv'
<1>1. ThreadType /\ WorkerType /\ QueueInv
  BY DEF LoopInv
<1>2. /\ worker = "dropping" /\ worker' = "parked" /\ open' = FALSE /\ queue' = <<>>
      /\ running' = running /\ at' = at /\ op' = op
      /\ \A x \in Caller : reply'[x] = IF \E k \in DOMAIN queue : queue[k] = x
                                          THEN "Closed" ELSE reply[x]
  BY Zenon DEF DropReceiver, endRest, callerVars
<1>3. worker \notin Executing /\ worker' \notin Executing
  BY <1>2, Zenon DEF Executing, Op, Snapshotting, Leased
<1>4. running \notin Caller
  BY <1>1, <1>3, Zenon DEF QueueInv
<1>5. \A x \in Caller : at[x] \in Awaiting => reply'[x] # "None"
  BY <1>1, <1>2, <1>4 DEF QueueInv
<1>6. \A x \in Caller : at[x] = "checked" => reply'[x] = "None" /\ op[x] \in Op
  <2>1. \A k \in DOMAIN queue : at[queue[k]] # "checked"
    BY <1>1 DEF QueueInv, Awaiting
  <2>2. \A x \in Caller : at[x] = "checked" => reply'[x] = reply[x]
    BY <1>2, <2>1
  <2> QED
    BY <1>1, <2>2, Zenon DEF QueueInv
<1>7. DOMAIN queue' = {}
  BY <1>2
<1> QED
  BY <1>2, <1>3, <1>4, <1>5, <1>6, <1>7 DEF QueueInv

LEMMA WorkerQueue ==
    ASSUME LoopInv, WorkerStep PROVE QueueInv'
<1>1. QueueInv /\ WorkerType /\ ThreadType
  BY DEF LoopInv
<1> USE DEF Executing, Op, Snapshotting, Leased, Window, Ending
<1>2. CASE DrainEnds
  BY <1>1, <1>2, QueueKeeps DEF DrainEnds, callerVars
<1>3. CASE Gate
  BY <1>1, <1>3, QueueKeeps, Zenon DEF Gate, Ends, Drain, windowRest, callerVars
<1>4. CASE GoesOn
  <2>1. \A c \in Caller : at'[c] = at[c]
    BY <1>1, <1>4, LoopAssumption, Zenon DEF GoesOn, ThreadType, Thread
  <2> QED
    BY <1>1, <1>4, <2>1, QueueKeeps DEF GoesOn
<1>5. CASE WindowStep
  BY <1>1, <1>5, WindowShape, QueueKeeps DEF windowRest, callerVars
<1>6. CASE /\ worker \in Ending /\ worker' \in Ending /\ Quiet
           /\ UNCHANGED <<queue, open, reply, budget, admission>>
           /\ worker' \in {"parked", "ended"} <=> worker \in {"parked", "ended"}
  BY <1>1, <1>6, QueueKeeps DEF Quiet
<1> QED
  BY <1>2, <1>3, <1>4, <1>5, <1>6, WorkerShape, TakeQueue, CompletesQueue, DropQueue

\* The other threads keep the queue.
LEMMA OthersQueue ==
    ASSUME LoopInv, Others PROVE QueueInv'
<1>1. worker' = worker /\ running' = running /\ open' = open
  BY OthersKeepWorker DEF loopVars
<1>2. ASSUME NEW c \in Thread, CallerStep(c) PROVE QueueInv'
  BY <1>1, <1>2, CallerStepQueue, SentQueue, StaysQueue DEF LoopInv
<1>3. ASSUME NEW c \in Caller, NEW o \in Ops, Call(c, o) PROVE QueueInv'
  BY <1>1, <1>3, CallQueue
<1>4. CASE Elsewhere
  BY <1>1, <1>4, ElsewhereKeeps, QueueKeeps DEF LoopInv
<1> QED
  BY <1>2, <1>3, <1>4, Zenon DEF Others, Elsewhere, Thread

-----------------------------------------------------------------------------
(* The command admission.                                                  *)

\* Channels close only when the worker ends.
LEMMA ClosedNext ==
    ASSUME LoopInv, Others \/ WorkerStep PROVE ClosedInv'
<1>1. ThreadType /\ WorkerType /\ QueueInv /\ ClosedInv
  BY DEF LoopInv
<1>2. CASE Others
  <2>1. worker' = worker
    BY <1>2, OthersKeepWorker DEF loopVars
  <2>2. ASSUME NEW c \in Thread, CallerStep(c) PROVE ClosedInv'
    <3>1. CASE Sent(c)
      BY <1>1, <2>1, <3>1, Zenon DEF ClosedInv, Sent, ThreadType, Canceling, Thread
    <3>2. CASE Stays(c)
      BY <1>1, <2>1, <3>2, Zenon DEF ClosedInv, Stays, ThreadType, Canceling, Thread
    <3> QED
      BY <1>1, <2>2, <3>1, <3>2, CallerStepQueue
  <2>3. ASSUME NEW c \in Caller, NEW o \in Ops, Call(c, o) PROVE ClosedInv'
    BY <1>1, <2>1, <2>3, CallMoves DEF ClosedInv, ThreadType, Canceling, Thread
  <2>4. CASE Elsewhere
    BY <1>1, <2>1, <2>4, ElsewhereKeeps DEF ClosedInv
  <2> QED
    BY <1>2, <2>2, <2>3, <2>4, Zenon DEF Others, Elsewhere, Thread
<1>3. CASE WorkerStep
  <2>1. CASE Completes /\ worker \in Executing
    <3>1. worker \notin Ending
      BY <2>1, Zenon DEF Executing, Op, Snapshotting, Leased, Ending
    <3>2. worker' \notin Ending => worker' = "drain"
      BY <2>1, CompletesShape DEF Ending
    <3> QED
      BY <1>1, <2>1, <3>1, <3>2, CompletesShape, Zenon DEF ClosedInv, ThreadType, Answers
  <2>2. CASE GoesOn
    BY <1>1, <2>2, LoopAssumption, Zenon DEF GoesOn, ClosedInv, ThreadType, Thread, Executing,
       Op, Snapshotting, Leased, Ending
  <2>3. CASE DrainEnds \/ Take \/ Gate
    BY <1>1, <2>3, Zenon DEF DrainEnds, Take, Gate, Ends, Drain, windowRest, callerVars,
       ClosedInv, Ending
  <2>4. CASE WindowStep
    BY <1>1, <2>4, WindowShape, Zenon DEF windowRest, callerVars, ClosedInv, Ending, Window
  <2> QED
    BY <1>3, <2>1, <2>2, <2>3, <2>4, WorkerShape, Zenon DEF DropReceiver, ClosedInv, Ending
<1> QED
  BY <1>2, <1>3

\* What the other threads do to the admission.
LEMMA OthersAdmission ==
    ASSUME LoopInv, Others
    PROVE  /\ admission' \in Admission
           /\ admission' = "SnapshotLeased" => admission = "SnapshotLeased"
           /\ admission = "Shutdown" => admission' = "Shutdown"
           /\ worker \notin Ending => \/ admission' \in {admission, "Shutdown"} /\ queue' = queue
                                      \/ \E c \in Caller : Sent(c)
<1>1. ThreadType /\ WorkerType /\ ClosedInv
  BY DEF LoopInv
<1> DEFINE P == /\ admission' \in Admission
                /\ admission' = "SnapshotLeased" => admission = "SnapshotLeased"
                /\ admission = "Shutdown" => admission' = "Shutdown"
           Q == \/ admission' \in {admission, "Shutdown"} /\ queue' = queue
                \/ \E c \in Caller : Sent(c)
<1>2. ASSUME NEW c \in Thread, CallerStep(c) PROVE P /\ (worker \notin Ending => Q)
  <2>1. CASE Sent(c)
    BY <1>1, <2>1, Zenon DEF Sent, WorkerType, Admission
  <2>2. CASE Stays(c) /\ (CancelPreparation(c) \/ FinishCanceling(c))
    <3>1. P
      BY <1>1, <2>2, Zenon DEF CancelPreparation, FinishCanceling, finish_snapshot_release,
         WorkerType, Admission
    <3>2. at[c] \in Canceling
      BY <2>2, Zenon DEF CancelPreparation, FinishCanceling, Canceling
    <3>3. c \in Caller
      BY <1>1, <3>2, CallersOnly DEF Canceling, Failing
    <3> QED
      BY <1>1, <3>1, <3>2, <3>3 DEF ClosedInv
  <2>3. CASE Stays(c) /\ ~CancelPreparation(c) /\ ~FinishCanceling(c)
    <3>1. queue' = queue
      BY <2>3 DEF Stays
    <3>2. CASE Send(c)
      BY <1>1, <2>3, <3>1, <3>2 DEF Send, WorkerType, Stays, Admission
    <3>3. CASE ~Send(c)
      <4>1. admission' = admission \/ admission' = "Shutdown"
        BY <1>2, <2>3, <3>3, Zenon DEF CallerStep, notify_command_available, TryRecv, SetWakeup,
           RequestWakeup, Recv, FailStatus, FailAdmission, FailGate, FailStop, FailRequest
      <4> QED
        BY <1>1, <3>1, <4>1 DEF WorkerType, Admission
    <3> QED
      BY <3>2, <3>3
  <2> QED
    BY <1>1, <1>2, <2>1, <2>2, <2>3, CallerStepQueue
<1>3. ASSUME NEW c \in Caller, NEW o \in Ops, Call(c, o) PROVE P /\ Q
  BY <1>1, <1>3 DEF Call, WorkerType
<1>4. CASE Elsewhere
  <2>1. admission' = admission \/ admission' = "Shutdown"
    BY <1>4, Zenon DEF Elsewhere, AuxiliaryWakeup, PacketReady, RunnerLeaves, stop_and_join,
       JoinStop, JoinRequest, JoinAdmission, JoinGate, JoinWorker
  <2> QED
    BY <1>1, <1>4, <2>1, ElsewhereKeeps DEF WorkerType, Admission
<1> QED
  BY <1>2, <1>3, <1>4, Zenon DEF Others, Elsewhere, Thread

\* A queued command of another thread does not turn into a snapshot command.
LEMMA OthersOps ==
    ASSUME LoopInv, Others
    PROVE  \A k \in DOMAIN queue : op'[queue[k]] = "snapshot" => op[queue[k]] = "snapshot"
<1>1. ThreadType /\ WorkerType /\ QueueInv
  BY DEF LoopInv
<1>2. \A k \in DOMAIN queue : queue[k] \in Caller /\ at[queue[k]] # "idle"
  BY <1>1 DEF WorkerType, QueueInv, Awaiting
<1>3. ASSUME NEW c \in Thread, CallerStep(c), NEW x \in Caller, op'[x] = "snapshot"
      PROVE  op[x] = "snapshot"
  BY <1>1, <1>3, CallerStepQueue, Zenon DEF Sent, Stays, ThreadType, Thread
<1>4. ASSUME NEW c \in Caller, NEW o \in Ops, Call(c, o), NEW x \in Caller, at[x] # "idle"
      PROVE  op'[x] = op[x]
  BY <1>1, <1>4, CallMoves DEF ThreadType, Thread
<1> QED
  BY <1>2, <1>3, <1>4, ElsewhereKeeps, Zenon DEF Others, Elsewhere, Thread

LEMMA OthersLease ==
    ASSUME LoopInv, Others PROVE LeaseInv'
<1>1. ThreadType /\ WorkerType /\ QueueInv /\ LeaseInv
  BY DEF LoopInv
<1>2. worker' = worker
  BY OthersKeepWorker DEF loopVars
<1>3. status \in {"Paused", "Failed"} => status' \in {"Paused", "Failed"}
  BY OthersStatus
<1>4. CASE worker \in Ending
  <2>1. /\ worker \notin Snapshotting /\ worker \notin Leased
        /\ worker \notin {"snapshot", "unready", "lease", "refuse", "finish"}
    BY <1>4, Zenon DEF Snapshotting, Leased, Ending
  <2>2. admission' # "SnapshotLeased"
    BY <1>1, <2>1, OthersAdmission, Zenon DEF LeaseInv
  <2> QED
    BY <1>2, <1>4, <2>1, <2>2, Zenon DEF LeaseInv
<1>5. CASE worker \notin Ending /\ admission' \in {admission, "Shutdown"} /\ queue' = queue
  BY <1>1, <1>2, <1>3, <1>5, OthersOps DEF LeaseInv
<1>6. ASSUME NEW c \in Caller, Sent(c) PROVE LeaseInv'
  <2>1. /\ admission = "Ordinary" /\ queue' = Append(queue, c) /\ queue \in Seq(Caller)
        /\ op' = op
        /\ admission' = IF op[c] = "snapshot" THEN "SnapshotPreparing" ELSE admission
    BY <1>1, <1>6 DEF Sent, WorkerType
  <2>2. /\ worker \notin Leased
        /\ worker \notin {"snapshot", "unready", "lease", "refuse", "finish"}
    BY <1>1, <2>1 DEF LeaseInv
  <2>3. worker \notin Snapshotting /\ admission' # "SnapshotLeased"
    BY <2>1, <2>2 DEF Snapshotting
  <2>4. worker \notin Ending => \A k \in DOMAIN queue' : op[queue'[k]] = "snapshot" =>
              k = Len(queue') /\ admission' \in {"SnapshotPreparing", "Shutdown"}
    <3>1. worker \notin Ending => \A k \in DOMAIN queue : op[queue[k]] # "snapshot"
      BY <1>1, <2>1 DEF LeaseInv
    <3>2. \A k \in DOMAIN queue' :
              \/ k \in DOMAIN queue /\ queue'[k] = queue[k]
              \/ k = Len(queue') /\ queue'[k] = c
      BY <2>1, Appended
    <3> QED
      BY <2>1, <3>1, <3>2
  <2> QED
    BY <1>2, <2>1, <2>2, <2>3, <2>4, Zenon DEF LeaseInv
<1> QED
  BY <1>4, <1>5, <1>6, OthersAdmission

\* A command that is over has given its lease back.
LEMMA DoneLease ==
    ASSUME LoopInv, Completes, queue = <<>>, admission' # "SnapshotLeased" PROVE LeaseInv'
<1>1. /\ worker' \notin Snapshotting /\ worker' \notin Leased
      /\ worker' \notin {"snapshot", "unready", "lease", "refuse", "finish"}
  BY CompletesShape DEF Snapshotting, Leased
<1>2. DOMAIN queue' = {}
  BY CompletesShape
<1> QED
  BY <1>1, <1>2, Zenon DEF LeaseInv

\* The steps of a snapshot command move the admission along.
LEMMA SnapshotLease ==
    ASSUME LoopInv, SnapshotStep PROVE LeaseInv' /\ admission' \in Admission
                                       /\ (admission = "Shutdown" => admission' = "Shutdown")
<1>1. WorkerType /\ QueueInv /\ LeaseInv /\ worker \in Snapshotting /\ status' = status
  BY SnapshotShape DEF LoopInv
<1>2. queue = <<>> /\ admission \in Admission
  BY <1>1, Zenon DEF LeaseInv, WorkerType
<1>3. ASSUME worker' \in Snapshotting, queue' = queue,
             worker' \in {"snapshot", "unready", "lease"} =>
                 admission' \in {"SnapshotPreparing", "Shutdown"},
             worker' \in {"refuse", "finish"} => admission' \in {"SnapshotReleasing", "Shutdown"},
             worker' \in Leased => admission' \in {"SnapshotLeased", "Shutdown"},
             admission' = "SnapshotLeased" => worker' \in Leased,
             worker' \in Leased \cup {"lease"} => status \in {"Paused", "Failed"}
      PROVE  LeaseInv'
  <2>1. DOMAIN queue' = {}
    BY <1>2, <1>3
  <2> QED
    BY <1>1, <1>2, <1>3, <2>1, Zenon DEF LeaseInv
<1> USE DEF captureRest, Snapshotting, Leased, Admission
<1>4. CASE ExecuteSnapshot
  BY <1>1, <1>2, <1>3, <1>4 DEF ExecuteSnapshot, LeaseInv
<1>5. CASE SnapshotUnready
  BY <1>1, <1>2, <1>3, <1>5, DoneLease, Zenon DEF SnapshotUnready, LeaseInv, Completes,
     Answers
<1>6. CASE RefuseSnapshot
  BY <1>1, <1>2, <1>6, DoneLease, Zenon DEF RefuseSnapshot, finish_snapshot_release, LeaseInv,
     Completes, Answers
<1>7. CASE Lease
  BY <1>1, <1>2, <1>3, <1>7, DoneLease, ZenonT(30) DEF Lease, LeaseInv, Completes, Answers
<1>8. ASSUME worker \in Leased, worker' \in Leased, admission' = admission, queue' = queue
      PROVE  LeaseInv'
  BY <1>1, <1>3, <1>8 DEF LeaseInv
<1>9. CASE RunLeased \/ PreparePause \/ RequestPause \/ CollectQueued
  BY <1>2, <1>8, <1>9, Zenon DEF RunLeased, PreparePause, RequestPause, CollectQueued
<1>10. CASE \/ CaptureBody \/ Recover \/ WorkerFailed
            \/ \E i \in Member, k \in RunEnd : CollectPausing(i, k)
  BY <1>2, <1>8, <1>10, Zenon DEF CaptureBody, Recover, WorkerFailed, CollectPausing
<1>11. CASE Release
  BY <1>1, <1>2, <1>3, <1>11, DoneLease, Zenon DEF Release, Respond, LeaseInv, Completes,
     Answers
<1>12. CASE FinishRelease
  BY <1>1, <1>2, <1>12, DoneLease, Zenon DEF FinishRelease, finish_snapshot_release, Respond,
     LeaseInv, Completes, Answers
<1> QED
  BY <1>4, <1>5, <1>6, <1>7, <1>9, <1>10, <1>11, <1>12 DEF SnapshotStep

\* Outside a snapshot command the worker keeps the admission.
LEMMA WorkerLease ==
    ASSUME LoopInv, WorkerStep
    PROVE  LeaseInv' /\ admission' \in Admission /\ (admission = "Shutdown" => admission' = "Shutdown")
<1>1. WorkerType /\ QueueInv /\ LeaseInv
  BY DEF LoopInv
<1>2. ASSUME admission' = admission, op' = op, queue' = queue \/ queue' = <<>>,
             worker \notin Snapshotting, worker' \notin Snapshotting,
             worker \in Ending => worker' \in Ending
      PROVE  LeaseInv'
  <2>1. /\ worker' \notin Leased /\ worker \notin Leased
        /\ worker' \notin {"snapshot", "unready", "lease", "refuse", "finish"}
    BY <1>2 DEF Snapshotting
  <2>2. \A k \in DOMAIN queue' : queue' = queue
    BY <1>2
  <2> QED
    BY <1>1, <1>2, <2>1, <2>2 DEF LeaseInv
<1>3. CASE SnapshotStep
  BY <1>3, SnapshotLease
<1>4. CASE Take
  <2>1. /\ queue # <<>> /\ queue' = Tail(queue) /\ worker = "drain" /\ worker' = op[Head(queue)]
        /\ op' = op /\ admission' = admission /\ queue \in Seq(Caller)
    BY <1>1, <1>4, Zenon DEF Take, WorkerType, callerVars
  <2>2. /\ worker' = op[queue[1]] /\ 1 \in DOMAIN queue /\ worker' \in Op
        /\ Len(queue') = Len(queue) - 1 /\ queue' \in Seq(Caller)
        /\ \A k \in DOMAIN queue' : k + 1 \in DOMAIN queue /\ queue'[k] = queue[k + 1]
    BY <1>1, <2>1, TailOf, HeadOfQueue
  <2>3. \A k \in DOMAIN queue : op[queue[k]] = "snapshot" =>
              k = Len(queue) /\ admission \in {"SnapshotPreparing", "Shutdown"}
    BY <1>1, <2>1 DEF LeaseInv, Ending
  <2>4. \A k \in DOMAIN queue' : op[queue'[k]] = "snapshot" =>
              k = Len(queue') /\ admission \in {"SnapshotPreparing", "Shutdown"}
    BY <2>1, <2>2, <2>3
  <2>5. worker' = "snapshot" => queue' = <<>> /\ admission \in {"SnapshotPreparing", "Shutdown"}
    <3>1. ASSUME worker' = "snapshot" PROVE Len(queue') = 0
      <4>1. 1 = Len(queue)
        BY <2>2, <2>3, <3>1, Zenon
      <4>2. Len(queue') = Len(queue) - 1
        BY <2>2
      <4> QED
        BY ONLY <4>1, <4>2
    <3>2. ASSUME NEW q \in Seq(Caller), Len(q) = 0 PROVE q = <<>>
      BY <3>2
    <3> QED
      BY <2>2, <2>3, <3>1, <3>2, Zenon
  <2>6. /\ worker' \in Snapshotting => worker' = "snapshot"
        /\ worker' \notin Leased /\ worker' \notin {"unready", "lease", "refuse", "finish"}
    BY <2>2, Zenon DEF Snapshotting, Leased, Op
  <2>7. admission # "SnapshotLeased"
    BY <1>1, <2>1 DEF LeaseInv, Leased
  <2> QED
    BY <1>1, <2>1, <2>4, <2>5, <2>6, <2>7 DEF LeaseInv, WorkerType
<1> USE DEF Snapshotting, Leased, Ending
<1>5. CASE DrainEnds \/ Gate
  BY <1>1, <1>2, <1>5, Zenon DEF DrainEnds, Gate, Ends, Drain, windowRest, callerVars,
     WorkerType
<1>6. CASE ExecuteLifecycle
  BY <1>1, <1>2, <1>6, Zenon DEF ExecuteLifecycle, callerVars, WorkerType
<1>7. CASE MoveGate \/ ExecuteUpdate
  BY <1>1, <1>2, <1>7, Zenon DEF MoveGate, ExecuteUpdate, Done, Panics, callerVars, WorkerType
<1>8. CASE WindowStep
  BY <1>1, <1>2, <1>8, WindowShape, Zenon DEF windowRest, callerVars, WorkerType, Window
<1>9. CASE Cleanup \/ DropReceiver \/ WorkerEnds
  BY <1>1, <1>2, <1>9, Zenon DEF Cleanup, DropReceiver, WorkerEnds, endRest, callerVars,
     WorkerType
<1> QED
  BY <1>3, <1>4, <1>5, <1>6, <1>7, <1>8, <1>9, Zenon DEF WorkerStep, WindowStep

-----------------------------------------------------------------------------
(* The generation a sleeping worker has observed.                          *)

\* An announcement changes the generation, and a send announces nothing yet.
LEMMA OthersSleep ==
    ASSUME LoopInv, Others PROVE SleepInv'
<1>1. ThreadType /\ WorkerType /\ QueueInv /\ SleepInv
  BY DEF LoopInv
<1>2. worker' = worker /\ observed' = observed /\ budget' = budget
  BY OthersKeepWorker DEF loopVars
<1>3. queue \in Seq(Caller) /\ \A k \in DOMAIN queue : queue[k] \in Caller
  BY <1>1 DEF WorkerType
<1>4. ASSUME generation' = generation,
             \A k \in DOMAIN queue' :
                 \/ at'[queue'[k]] = "sent"
                 \/ k \in DOMAIN queue /\ queue'[k] = queue[k] /\ at[queue[k]] # "sent"
      PROVE  SleepInv'
  BY <1>1, <1>2, <1>4 DEF SleepInv
<1>5. ASSUME NEW c \in Thread, Sent(c) PROVE SleepInv'
  <2>1. /\ c \in Caller /\ at' = [at EXCEPT ![c] = "sent"] /\ queue' = Append(queue, c)
        /\ generation' = generation
    BY <1>5 DEF Sent
  <2>2. \A x \in Caller : at'[x] = IF x = c THEN "sent" ELSE at[x]
    BY <1>1, <2>1 DEF ThreadType, Thread
  <2>3. \A k \in DOMAIN queue' :
              \/ k \in DOMAIN queue /\ queue'[k] = queue[k]
              \/ queue'[k] = c
    BY <1>3, <2>1, Appended
  <2> QED
    BY <1>3, <1>4, <2>1, <2>2, <2>3, ZenonT(30)
<1>6. ASSUME NEW c \in Thread, Stays(c), at[c] = "sent" PROVE SleepInv'
  BY <1>1, <1>2, <1>6 DEF SleepInv, Stays
<1>7. ASSUME NEW c \in Thread, queue' = queue, generation' = generation, at[c] # "sent",
             \A x \in Caller : x # c => at'[x] = at[x]
      PROVE  SleepInv'
  <2>1. ASSUME NEW k \in DOMAIN queue, at[queue[k]] = "sent" PROVE at'[queue[k]] = "sent"
    BY <1>3, <1>7, <2>1, Zenon
  <2> QED
    BY <1>4, <1>7, <2>1, Zenon
<1>8. ASSUME NEW c \in Thread, CallerStep(c) PROVE SleepInv'
  <2>1. ASSUME Stays(c), at[c] # "sent" PROVE SleepInv'
    <3>1. queue' = queue /\ generation' = generation
      BY <2>1 DEF Stays
    <3>2. \A x \in Caller : x # c => at'[x] = at[x]
      BY <1>1, <2>1, Zenon DEF Stays, ThreadType, Thread
    <3> QED
      BY <1>7, <2>1, <3>1, <3>2
  <2> QED
    BY <1>1, <1>5, <1>6, <1>8, <2>1, CallerStepQueue
<1>9. ASSUME NEW c \in Caller, NEW o \in Ops, Call(c, o) PROVE SleepInv'
  <2>1. queue' = queue /\ generation' = generation /\ at[c] # "sent" /\ c \in Thread
    BY <1>9, Zenon DEF Call, gateVars, Thread
  <2>2. \A x \in Caller : x # c => at'[x] = at[x]
    BY <1>1, <1>9, CallMoves DEF ThreadType, Thread
  <2> QED
    BY <1>7, <2>1, <2>2
<1>10. CASE Elsewhere
  BY <1>4, <1>10, ElsewhereKeeps
<1> QED
  BY <1>8, <1>9, <1>10, Zenon DEF Others, Elsewhere, Thread

\* A drain may take as many commands as the queue holds.
LEMMA WorkerSleep ==
    ASSUME LoopInv, WorkerStep PROVE SleepInv'
<1>1. ThreadType /\ WorkerType /\ QueueInv /\ SleepInv
  BY DEF LoopInv
<1>2. /\ queue \in Seq(Caller) /\ Len(queue) <= Capacity /\ Capacity \in Nat
      /\ \A k \in DOMAIN queue : k \in Nat /\ 1 <= k /\ k <= Capacity /\ queue[k] \in Caller
  BY <1>1, LoopAssumption DEF WorkerType
<1>3. CASE DrainEnds
  <2>1. /\ worker = "drain" /\ worker' = "gate" /\ queue' = queue /\ at' = at
        /\ observed' = observed /\ generation' = generation /\ budget' = budget
        /\ (queue = <<>> \/ budget = 0)
    BY <1>3, Zenon DEF DrainEnds, callerVars, gateVars
  <2>2. observed = generation => \A k \in DOMAIN queue : at[queue[k]] = "sent"
    BY <1>1, <1>2, <2>1 DEF SleepInv
  <2>3. worker' \notin {"drain"} \cup Executing
    BY <2>1, Zenon DEF Executing, Op, Snapshotting, Leased
  <2> QED
    BY <1>1, <2>1, <2>2, <2>3 DEF SleepInv
<1>4. CASE Take
  <2>1. /\ worker = "drain" /\ queue # <<>> /\ queue' = Tail(queue) /\ at' = at /\ budget > 0
        /\ observed' = observed /\ generation' = generation /\ budget' = budget - 1
        /\ worker' = op[Head(queue)]
    BY <1>4, Zenon DEF Take, callerVars, gateVars
  <2>2. \A k \in DOMAIN queue' : k + 1 \in DOMAIN queue /\ queue'[k] = queue[k + 1] /\ k \in Nat
    BY <1>2, <2>1, TailOf
  <2>3. budget' \in 0 .. Capacity /\ budget \in Nat
    BY <1>1, <1>2, <2>1 DEF SleepInv
  <2>4. ASSUME observed = generation, NEW k \in DOMAIN queue', at[queue'[k]] # "sent"
        PROVE  k <= budget'
    <3>1. k + 1 <= budget
      BY <1>1, <2>1, <2>2, <2>4 DEF SleepInv
    <3> QED
      BY ONLY <2>1, <2>2, <2>3, <3>1
  <2>5. worker' # "gate"
    BY <1>1, <2>1, HeadOfQueue DEF Op
  <2> QED
    BY <1>1, <2>1, <2>3, <2>4, <2>5 DEF SleepInv
<1>5. ASSUME generation' = generation, observed' \in 0 .. generation, budget' \in 0 .. Capacity,
             worker' # "gate", queue' = queue, worker' \in {"drain"} \cup Executing =>
             \A k \in DOMAIN queue : k <= budget'
      PROVE  SleepInv'
  BY <1>1, <1>5 DEF SleepInv
<1>6. CASE Gate
  <2>1. /\ queue' = queue /\ generation' = generation /\ observed' \in {observed, generation}
        /\ worker' \in {"cleanup", "run", "drain"}
        /\ budget' = IF worker' = "drain" THEN Capacity ELSE budget
    BY <1>6, Zenon DEF Gate, Ends, Drain, windowRest, gateVars
  <2>2. worker' \in {"drain"} \cup Executing => worker' = "drain"
    BY <2>1, Zenon DEF Executing, Op, Snapshotting, Leased
  <2> QED
    BY <1>1, <1>2, <1>5, <2>1, <2>2 DEF SleepInv
<1>7. CASE WindowStep
  <2>1. /\ queue' = queue /\ generation' = generation /\ observed' = observed
        /\ worker' \in Window \cup {"cleanup", "drain"}
        /\ budget' = IF worker' = "drain" THEN Capacity ELSE budget
    BY <1>7, WindowShape DEF windowRest, gateVars
  <2>2. worker' \in {"drain"} \cup Executing => worker' = "drain"
    BY <2>1, Zenon DEF Executing, Op, Snapshotting, Leased, Window
  <2> QED
    BY <1>1, <1>2, <1>5, <2>1, <2>2 DEF SleepInv, Window
<1>8. ASSUME worker \in Executing, generation' = generation, GoesOn \/ Completes PROVE SleepInv'
  <2>1. /\ queue' = queue /\ budget' = budget /\ observed' = observed
        /\ at' = at \/ at' = [at EXCEPT ![Worker] = "failing"]
        /\ worker' # "gate"
    BY <1>8, CompletesShape, Zenon DEF GoesOn, Executing, Op, Snapshotting, Leased
  <2>2. \A k \in DOMAIN queue : at'[queue[k]] = at[queue[k]]
    BY <1>1, <1>2, <2>1, LoopAssumption DEF ThreadType, Thread
  <2> QED
    BY <1>1, <1>8, <2>1, <2>2 DEF SleepInv
<1>9. CASE Cleanup \/ WorkerEnds \/ DropReceiver
  <2>1. /\ budget' = budget /\ observed' = observed /\ generation' = generation
        /\ worker' \notin {"drain", "gate"} /\ worker' \notin Executing
    BY <1>9, Zenon DEF Cleanup, WorkerEnds, DropReceiver, endRest, gateVars, Executing, Op,
       Snapshotting, Leased
  <2> QED
    BY <1>1, <2>1 DEF SleepInv
<1> QED
  BY <1>3, <1>4, <1>6, <1>7, <1>8, <1>9, WorkerShape

-----------------------------------------------------------------------------
(* The run-loop window and the runs of the topology.                       *)

Flights == flying \subseteq Member /\ guest \subseteq flying

\* The events of a drain, as steps.
LEMMA ProgressSteps ==
    ASSUME NEW p \in Progress, NEW e \in StepKind
    PROVE  Append(p, e) \in Seq(StepKind) /\ Append(p, e) # <<>>
<1>1. p \in Seq(StepKind)
  <2>1. CASE Progress = {<<>>}
    BY <2>1
  <2>2. CASE "Step" \in Outcomes /\ Progress = {[j \in 1..n |-> "Step"] : n \in 0..Cardinality(Member)}
    <3>1. PICK n \in 0 .. Cardinality(Member) : p = [j \in 1..n |-> "Step"]
      BY <2>2
    <3>2. n \in Nat
      BY <3>1
    <3> QED
      BY ONLY <3>1, <3>2 DEF StepKind
  <2> QED
    BY <2>1, <2>2 DEF Progress
<1>2. Append(p, e) \in Seq(StepKind) /\ Len(Append(p, e)) = Len(p) + 1 /\ Len(p) \in Nat
  BY <1>1
<1>3. Append(p, e) # <<>>
  BY ONLY <1>2
<1> QED
  BY <1>2, <1>3

\* Only runs of the topology are collected, and only after they have left the guest.
LEMMA FlightsNext ==
    ASSUME Flights, Others \/ WorkerStep PROVE Flights'
<1>1. ASSUME flying' = flying, guest' = guest PROVE Flights'
  BY <1>1, Zenon DEF Flights
<1>2. ASSUME NEW r, Request(r) PROVE Flights'
  BY <1>1, <1>2, Zenon DEF Request, RequestControl
<1>3. ASSUME NEW i, NEW t, Collect(i, t) PROVE Flights'
  BY <1>3, Zenon DEF Collect, Flights
<1>4. ASSUME NEW i, Leave(i) PROVE Flights'
  BY <1>4, Zenon DEF Leave, Flights
<1>5. ASSUME NEW S \in SUBSET Member, flying' = flying \cup S, guest' = guest \cup S PROVE Flights'
  BY <1>5, Zenon DEF Flights
<1>6. ASSUME Deliver PROVE Flights'
  BY <1>1, <1>6, Zenon DEF Deliver
<1>7. CASE Others
  <2>1. ASSUME NEW c \in Thread, CallerStep(c) PROVE Flights'
    BY <1>1, <1>2, <2>1, Zenon DEF CallerStep, Send, notify_command_available, TryRecv, SetWakeup,
       RequestWakeup, Recv, CancelPreparation, FinishCanceling, FailStatus, FailAdmission,
       FailGate, FailStop, FailRequest, topologyVars
  <2>2. ASSUME stop_and_join PROVE Flights'
    BY <1>1, <1>2, <2>2, Zenon DEF stop_and_join, JoinStop, JoinRequest, JoinAdmission, JoinGate,
       JoinWorker, topologyVars
  <2> QED
    BY <1>1, <1>2, <1>4, <1>7, <2>1, <2>2, Zenon DEF Others, Call, Thread, AuxiliaryWakeup,
       PacketReady, RunnerLeaves, topologyVars
<1>8. CASE SnapshotStep
  <2>1. CASE PreparePause
    <3>1. CASE UNCHANGED topologyVars
      BY <1>1, <3>1, Zenon DEF topologyVars
    <3>2. CASE \E S \in SUBSET (IF phase = "Running" THEN Member \ flying ELSE {}) :
                  flying' = flying \cup S /\ guest' = guest \cup S
      <4>1. PICK S \in SUBSET Member : flying' = flying \cup S /\ guest' = guest \cup S
        BY <3>2
      <4> QED
        BY <1>5, <4>1, Zenon
    <3> QED
      BY <2>1, <3>1, <3>2, Zenon DEF PreparePause
  <2>2. CASE Recover
    BY <1>1, <2>2, Zenon DEF Recover, Resume, topologyVars
  <2>3. CASE RequestPause \/ CollectQueued \/ \E i \in Member, k \in RunEnd : CollectPausing(i, k)
    BY <1>2, <1>3, <1>6, <2>3, Zenon DEF RequestPause, CollectQueued, CollectPausing
  <2> QED
    BY <1>1, <1>8, <2>1, <2>2, <2>3, Zenon DEF SnapshotStep, ExecuteSnapshot, SnapshotUnready,
       RefuseSnapshot, Lease, RunLeased, CaptureBody, WorkerFailed, Release, FinishRelease,
       Respond, Done, Panics, topologyVars
<1>9. CASE WindowStep
  <2>1. CASE Dispatch
    BY <1>1, <1>5, <2>1, Zenon DEF Dispatch, Admit, topologyVars
  <2> QED
    BY <1>1, <1>3, <1>6, <1>9, <2>1, Zenon DEF WindowStep, RunTop, ReceiveQueued, Handle,
       ReceiveResult, topologyVars
<1>10. CASE WorkerEnds
  BY <1>10, Zenon DEF WorkerEnds, Close, Flights
<1> QED
  BY <1>1, <1>7, <1>8, <1>9, <1>10, Zenon DEF WorkerStep, WindowStep, DrainEnds, Take,
     ExecuteUpdate, ExecuteLifecycle, MoveGate, Gate, Cleanup, DropReceiver, Done, Panics,
     topologyVars

LEMMA OthersWindow ==
    ASSUME LoopInv, Others PROVE WindowInv'
<1>1. WindowInv
  BY DEF LoopInv
<1>2. worker' = worker /\ steps' = steps /\ backlog' = backlog
  BY OthersKeepWorker DEF loopVars
<1>3. Flights'
  BY <1>1, FlightsNext DEF WindowInv, Flights
<1>4. wakeup' \in {wakeup, TRUE} /\ stop' \in {stop, TRUE}
  <2>1. ASSUME NEW c \in Thread, CallerStep(c) PROVE wakeup' \in {wakeup, TRUE} /\ stop' \in {stop, TRUE}
    BY <2>1, Zenon DEF CallerStep, Send, notify_command_available, TryRecv, SetWakeup,
       RequestWakeup, Recv, CancelPreparation, FinishCanceling, FailStatus, FailAdmission,
       FailGate, FailStop, FailRequest, tokenVars
  <2> QED
    BY <2>1, Zenon DEF Others, Call, Thread, AuxiliaryWakeup, PacketReady, RunnerLeaves,
       stop_and_join, JoinStop, JoinRequest, JoinAdmission, JoinGate, JoinWorker, joinRest,
       tokenVars
<1> QED
  BY <1>1, <1>2, <1>3, <1>4, Zenon DEF WindowInv, Flights

\* Outside the window the worker leaves its steps alone.
LEMMA WorkerKeepsSteps ==
    ASSUME WorkerStep, ~WindowStep, ~Gate
    PROVE  steps' = steps /\ backlog' = backlog /\ wakeup' = wakeup /\ stop' = stop
<1>1. CASE SnapshotStep
  BY <1>1, Zenon DEF SnapshotStep, ExecuteSnapshot, SnapshotUnready, RefuseSnapshot, Lease,
     RunLeased, PreparePause, RequestPause, CollectQueued, CollectPausing, CaptureBody, Recover,
     WorkerFailed, Release, FinishRelease, Respond, Done, Panics, captureRest, tokenVars
<1> QED
  BY <1>1, Zenon DEF WorkerStep, WindowStep, DrainEnds, Take, ExecuteUpdate, ExecuteLifecycle,
     MoveGate, Cleanup, DropReceiver, WorkerEnds, Done, Panics, tokenVars, endRest

\* A window hands out at most its limit of steps, each from a received event.
LEMMA WorkerWindow ==
    ASSUME LoopInv, WorkerStep PROVE WindowInv'
<1>1. WindowInv /\ WorkerType /\ QueueInv /\ MaxSteps \in Nat /\ MaxSteps > 0
  BY LoopAssumption DEF LoopInv
<1>2. Flights'
  BY <1>1, FlightsNext DEF WindowInv, Flights
<1>3. ASSUME wakeup' \in BOOLEAN, stop' = stop, steps' \in 0 .. MaxSteps,
             worker' \in Window => steps' < MaxSteps, backlog' \in Seq(StepKind),
             worker' = "handle" => backlog' # <<>>
      PROVE  WindowInv'
  BY <1>1, <1>2, <1>3 DEF WindowInv, Flights
<1>4. CASE ~WindowStep /\ ~Gate
  <2>1. worker' \notin Window
    <3>1. worker' \in Executing \cup Ending \cup {"drain", "gate"}
      BY <1>1, <1>4, WorkerShape, CompletesShape, HeadOfQueue, ZenonT(30) DEF DrainEnds, Take,
         DropReceiver, GoesOn, Executing, Ending
    <3> QED
      BY <3>1, Zenon DEF Executing, Op, Snapshotting, Leased, Ending, Window
  <2> QED
    BY <1>1, <1>3, <1>4, <2>1, WorkerKeepsSteps DEF WindowInv, Window
<1>5. CASE Gate
  BY <1>1, <1>3, <1>5 DEF Gate, Ends, Drain, WindowInv, Window, tokenVars
<1>6. CASE RunTop
  BY <1>1, <1>3, <1>6, Zenon DEF RunTop, Ends, WindowInv, Window, tokenVars
<1>7. CASE Dispatch
  BY <1>1, <1>3, <1>7, Zenon DEF Dispatch, Ends, WindowInv, Window, tokenVars
<1>8. CASE ReceiveQueued
  BY <1>1, <1>3, <1>8 DEF ReceiveQueued, Event, WindowInv, Window, tokenVars, StepKind
<1>9. ASSUME NEW i \in Member, NEW k \in RunEnd, ReceiveResult(i, k) PROVE WindowInv'
  <2>1. worker = "wait" /\ steps' = steps /\ wakeup' = wakeup /\ stop' = stop
    BY <1>9, Zenon DEF ReceiveResult, tokenVars
  <2>2. \/ backlog' = backlog /\ worker' # "handle"
        \/ backlog' \in {<<"Canceled">>, <<"Step">>}
        \/ \E p \in Progress, e \in StepKind : backlog' = Append(p, e)
    <3>1. Outcomes \cap {"Exit", "Error"} \subseteq StepKind /\ "Canceled" \in StepKind
      BY DEF StepKind
    <3> QED
      BY <1>9, <3>1, Zenon DEF ReceiveResult, Event, Ends
  <2>3. \/ backlog' = backlog /\ worker' # "handle"
        \/ backlog' \in Seq(StepKind) /\ backlog' # <<>>
    <3>1. <<"Canceled">> \in Seq(StepKind) /\ <<"Step">> \in Seq(StepKind)
      BY DEF StepKind
    <3>2. <<"Canceled">> # <<>> /\ <<"Step">> # <<>>
      OBVIOUS
    <3>3. \A p \in Progress, e \in StepKind : Append(p, e) \in Seq(StepKind) /\ Append(p, e) # <<>>
      BY ProgressSteps, Zenon
    <3> QED
      BY <2>2, <3>1, <3>2, <3>3, Zenon
  <2> QED
    BY <1>1, <1>3, <2>1, <2>3 DEF WindowInv, Window
<1>10. CASE Handle
  <2>1. /\ worker = "handle" /\ steps' = steps + 1 /\ backlog' = Tail(backlog) /\ stop' = stop
        /\ backlog # <<>> /\ backlog \in Seq(StepKind) /\ steps \in Nat /\ steps < MaxSteps
    BY <1>1, <1>10 DEF Handle, WindowInv, Window
  <2>2. steps' \in 0 .. MaxSteps /\ backlog' \in Seq(StepKind)
    BY <1>1, <2>1
  <2>3. ASSUME NEW s, AfterStep(s)
        PROVE  wakeup' \in BOOLEAN /\ (worker' \in Window => worker' = "run" /\ steps + 1 # MaxSteps)
    <3>1. wakeup' \in BOOLEAN
      BY <1>1, <2>3, Zenon DEF AfterStep, WindowInv
    <3>2. worker' \in {"drain", "cleanup"} \/ (worker' = "run" /\ steps + 1 # MaxSteps)
      BY <2>3, Zenon DEF AfterStep, Drain, Ends
    <3> QED
      BY <3>1, <3>2 DEF Window
  <2>4. wakeup' \in BOOLEAN /\ (worker' \in Window => worker' = "run" /\ steps + 1 # MaxSteps)
    BY <1>10, <2>3, Zenon DEF Handle
  <2> QED
    BY <1>1, <1>3, <2>1, <2>2, <2>4 DEF Window
<1> QED
  BY <1>4, <1>5, <1>6, <1>7, <1>8, <1>9, <1>10, Zenon DEF WindowStep

-----------------------------------------------------------------------------
(* The inductive invariant and the theorems.                               *)

\* A worker starts running or paused with nothing queued.
LEMMA InitLoop ==
    ASSUME Init PROVE LoopInv
<1>1. /\ worker = "drain" /\ queue = <<>> /\ running = Nobody /\ admission = "Ordinary"
      /\ status \in {"Running", "Paused"} /\ final = "None"
      /\ at = [c \in Thread |-> "idle"] /\ op = [c \in Thread |-> "none"]
      /\ reply = [c \in Caller |-> "None"]
      /\ generation = 0 /\ observed = 0 /\ budget = Capacity /\ steps = 0 /\ backlog = <<>>
      /\ flying = {} /\ guest = {}
  BY Zenon DEF Init, TopologyInit, Thread
<1>2. Capacity \in Nat /\ MaxSteps \in Nat /\ MaxSteps > 0 /\ Nobody \notin Caller
  BY LoopAssumption
<1>3. open = TRUE /\ closed = FALSE /\ wakeup = FALSE /\ stop = FALSE /\ paused = (status = "Paused")
  BY DEF Init
<1>4. ThreadType
  BY <1>1, Zenon DEF ThreadType, CallerState, Thread, Reply
<1>5. WorkerType
  <2>1. open \in BOOLEAN
    BY ONLY <1>3
  <2> QED
    BY <1>1, <1>2, <2>1 DEF WorkerType, WorkerState, Admission
<1>6. GateInv
  <2>1. closed \in BOOLEAN /\ ~closed /\ paused \in BOOLEAN /\ (status = "Paused" => paused)
    BY ONLY <1>3, Zenon
  <2> QED
    BY <1>1, <2>1, Zenon DEF GateInv, Status, Window
<1>7. QueueInv /\ ClosedInv /\ LeaseInv
  <2>1. open
    BY ONLY <1>3
  <2>2. worker \notin Executing \cup Ending \cup Window \cup Snapshotting \cup Leased
    BY <1>1, Zenon DEF Executing, Ending, Window, Snapshotting, Leased, Op
  <2>3. DOMAIN queue = {} /\ Caller \subseteq Thread
    BY <1>1 DEF Thread
  <2>4. "idle" \notin Awaiting \cup Canceling
    BY DEF Awaiting, Canceling
  <2>5. QueueInv
    BY <1>1, <1>2, <2>1, <2>2, <2>3, <2>4 DEF QueueInv
  <2> QED
    BY <1>1, <2>2, <2>3, <2>4, <2>5 DEF ClosedInv, LeaseInv
<1>8. SleepInv
  <2>1. DOMAIN queue = {}
    BY <1>1
  <2> QED
    BY <1>1, <1>2, <2>1 DEF SleepInv
<1>9. WindowInv
  <2>1. wakeup \in BOOLEAN /\ stop \in BOOLEAN
    BY ONLY <1>3, ZenonT(30)
  <2> QED
    BY <1>1, <1>2, <2>1 DEF WindowInv, Window
<1> QED
  BY <1>4, <1>5, <1>6, <1>7, <1>8, <1>9 DEF LoopInv

\* Every step of every thread keeps the invariant.
LEMMA NextLoop ==
    ASSUME LoopInv, [Next]_allVars PROVE LoopInv'
<1>1. CASE Others
  BY <1>1, OthersAdmission, OthersTypes, OthersGate, OthersQueue, ClosedNext, OthersLease,
     OthersSleep, OthersWindow, Zenon DEF LoopInv
<1>2. CASE WorkerStep
  BY <1>2, WorkerLease, WorkerTypes, WorkerGate, WorkerQueue, ClosedNext, WorkerSleep,
     WorkerWindow, Zenon DEF LoopInv
<1>3. CASE UNCHANGED allVars
  <2>1. UNCHANGED <<status, paused, closed, generation, admission, queue, open, wakeup, stop>>
    BY <1>3, Zenon DEF allVars, gateVars, tokenVars
  <2>2. UNCHANGED <<observed, worker, budget, steps, backlog, running, final, flying, guest>>
    BY <1>3, Zenon DEF allVars, loopVars, topologyVars
  <2>3. UNCHANGED <<at, op, reply>>
    BY <1>3 DEF allVars, callerVars
  <2>4. ThreadType' /\ WorkerType' /\ GateInv' /\ ClosedInv'
    BY <2>1, <2>2, <2>3, Zenon DEF LoopInv, ThreadType, WorkerType, GateInv, ClosedInv
  <2>5. QueueInv' /\ LeaseInv'
    BY <2>1, <2>2, <2>3, Zenon DEF LoopInv, QueueInv, LeaseInv
  <2>6. SleepInv' /\ WindowInv'
    BY <2>1, <2>2, <2>3, Zenon DEF LoopInv, SleepInv, WindowInv
  <2> QED
    BY <2>4, <2>5, <2>6 DEF LoopInv
<1> QED
  BY <1>1, <1>2, <1>3, Zenon DEF Next, Others

\* The worker never takes back a failure, an exit or a closed gate.
LEMMA WorkerFinal ==
    ASSUME LoopInv, WorkerStep
    PROVE  /\ status = "Failed" => status' = "Failed"
           /\ status = "Exited" => status' \in {"Exited", "Failed"}
           /\ closed' = closed
<1>1. GateInv
  BY DEF LoopInv
<1>2. CASE ExecuteLifecycle \/ Cleanup
  <2>1. status # "Exited" \/ Cleanup
    BY <1>1, <1>2, Zenon DEF ExecuteLifecycle, GateInv, Ending
  <2>2. Cleanup => worker = "cleanup"
    BY DEF Cleanup
  <2>3. status # "Exited"
    BY <1>1, <2>1, <2>2 DEF GateInv
  <2> QED
    BY <1>2, <2>3, Zenon DEF ExecuteLifecycle, Cleanup, record, gateVars, endRest
<1>3. CASE WindowStep
  BY <1>3, WindowShape DEF windowRest, gateVars
<1>4. CASE SnapshotStep
  BY <1>4, Zenon DEF SnapshotStep, ExecuteSnapshot, SnapshotUnready, RefuseSnapshot, Lease,
     RunLeased, PreparePause, RequestPause, CollectQueued, CollectPausing, CaptureBody, Recover,
     WorkerFailed, Release, FinishRelease, Respond, captureRest, gateVars
<1>5. CASE DrainEnds \/ Take \/ ExecuteUpdate \/ MoveGate \/ Gate \/ DropReceiver \/ WorkerEnds
  BY <1>5, Zenon DEF DrainEnds, Take, ExecuteUpdate, MoveGate, Gate, DropReceiver, WorkerEnds,
     windowRest, endRest, gateVars
<1> QED
  BY <1>2, <1>3, <1>4, <1>5, Zenon DEF WorkerStep, WindowStep

\* The invariant of the supervisor holds for every number of callers, every
\* queue capacity and every step limit.
THEOREM LoopInvariant == Spec => []LoopInv
<1>1. Init => LoopInv
  BY InitLoop
<1>2. LoopInv /\ [Next]_allVars => LoopInv'
  BY NextLoop
<1> QED
  BY <1>1, <1>2, PTL DEF Spec

\* Every variable of the supervisor stays in its domain; the queue never holds
\* more than its capacity and a window never counts beyond its step limit.
THEOREM LoopTypes == Spec => []LoopTypeOK
<1>1. LoopInv => LoopTypeOK
  BY Zenon DEF LoopInv, GateInv, WorkerType, SleepInv, WindowInv, LoopTypeOK
<1> QED
  BY <1>1, LoopInvariant, PTL

\* try_send_snapshot: no command is admitted behind a queued snapshot command as
\* long as the worker drains its queue, and the queue is empty under a lease.
THEOREM SnapshotLast == Spec => []SnapshotCommandIsLast
<1>1. LoopInv => SnapshotCommandIsLast
  <2>1. LeaseInv => SnapshotCommandIsLast
    BY Zenon DEF LeaseInv, SnapshotCommandIsLast, Snapshotting
  <2> QED
    BY <2>1 DEF LoopInv
<1> QED
  BY <1>1, LoopInvariant, PTL

\* The lease is held only inside a snapshot command of a paused or failed worker.
THEOREM LeasePaused == Spec => []LeaseMeansPaused
<1>1. LoopInv => LeaseMeansPaused
  BY Zenon DEF LoopInv, LeaseInv, LeaseMeansPaused
<1> QED
  BY <1>1, LoopInvariant, PTL

\* A worker that has recorded a pause is in no run-loop window.
THEOREM PausedParked == Spec => []PausedMeansParked
<1>1. LoopInv => PausedMeansParked
  BY Zenon DEF LoopInv, GateInv, PausedMeansParked
<1> QED
  BY <1>1, LoopInvariant, PTL

\* A worker that sleeps at the gate has left no announced command in the queue.
THEOREM SleepMissesNothing == Spec => []SleepMissesNoCommand
<1>1. LoopInv => SleepMissesNoCommand
  BY Zenon DEF LoopInv, SleepInv, SleepMissesNoCommand
<1> QED
  BY <1>1, LoopInvariant, PTL

\* Once the receiver is gone no caller waits for an answer that cannot come.
THEOREM NoDeadAwait == Spec => []NobodyAwaitsADeadWorker
<1>1. LoopInv => NobodyAwaitsADeadWorker
  <2>1. ASSUME LoopInv, worker \in {"parked", "ended"}, NEW c \in Caller, at[c] \in Awaiting
        PROVE  reply[c] # "None"
    <3>1. QueueInv /\ DOMAIN queue = {}
      BY <2>1 DEF LoopInv, QueueInv
    <3>2. running \notin Caller
      BY <2>1, <3>1, Zenon DEF QueueInv, Executing, Op, Snapshotting, Leased
    <3> QED
      BY <2>1, <3>1, <3>2, Zenon DEF QueueInv
  <2> QED
    BY <2>1, Zenon DEF NobodyAwaitsADeadWorker
<1> QED
  BY <1>1, LoopInvariant, PTL

\* No step overwrites a failure, restarts an exited worker, reopens an admission
\* that a shutdown has closed or reopens a closed gate.
THEOREM FinalShutdown == Spec => ShutdownIsFinal
<1> DEFINE Final == /\ status = "Failed" => status' = "Failed"
                    /\ status = "Exited" => status' \in {"Exited", "Failed"}
                    /\ admission = "Shutdown" => admission' = "Shutdown"
                    /\ closed => closed' /\ ~paused'
<1>1. ASSUME LoopInv, LoopInv', [Next]_allVars PROVE [Final]_allVars
  <2>1. CASE Others
    <3>1. status' = status \/ status' = "Failed"
      BY <2>1, OthersStatus
    <3>2. admission = "Shutdown" => admission' = "Shutdown"
      BY <1>1, <2>1, OthersAdmission
    <3>3. closed => closed'
      <4>1. closed' = closed \/ closed' = TRUE
        BY <2>1, OthersMoveGate, Zenon DEF CloseGate
      <4> QED
        BY ONLY <4>1, Zenon
    <3>4. closed' => ~paused'
      BY <1>1, Zenon DEF LoopInv, GateInv
    <3> QED
      BY <3>1, <3>2, <3>3, <3>4, Zenon
  <2>2. CASE WorkerStep
    <3>1. closed' => ~paused'
      BY <1>1, Zenon DEF LoopInv, GateInv
    <3>2. admission = "Shutdown" => admission' = "Shutdown"
      BY <1>1, <2>2, WorkerLease
    <3> QED
      BY <1>1, <2>2, <3>1, <3>2, WorkerFinal, Zenon
  <2> QED
    BY <1>1, <2>1, <2>2, Zenon DEF Next, Others
<1> QED
  BY <1>1, LoopInvariant, PTL DEF Spec, ShutdownIsFinal

=============================================================================
