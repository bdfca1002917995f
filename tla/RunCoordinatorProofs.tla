------------------------ MODULE RunCoordinatorProofs ------------------------
(***************************************************************************)
(* Theorems about RunCoordinator, for every number of members, requesters  *)
(* and generations, every set of faults and every guest behaviour, from    *)
(* the inductive invariant of RunCoordinatorCoreProofs.                    *)
(***************************************************************************)
EXTENDS RunCoordinatorCoreProofs

USE DEF Member, Generation, NoGen, Resting, Executing, Stopping

-----------------------------------------------------------------------------
(* The owner's other steps.                                                *)

\* Consuming the queued barrier leaves the queue empty.
LEMMA PopCore ==
    ASSUME CoreInv, pending' = <<>>,
           UNCHANGED <<phase, kind, reason, remaining, waiters, active, nextGen,
                       run, token, chan, answer, asked, snap>>
    PROVE  CoreInv'
<1> USE DEF CoreInv, CoreType
<1>1. active_tokens' = active_tokens
  BY DEF active_tokens
<1>2. CoreType' /\ Drained' /\ Queued' /\ Quieted'
  BY <1>1, EmptySeq DEF Drained, Queued, Quieted
<1>3. Runs' /\ Chan' /\ Stops' /\ Snaps'
  BY DEF Runs, Chan, Stops, Snaps
<1> QED
  BY <1>2, <1>3

\* receive_event keeps the invariant.
LEMMA ReceiveCore ==
    ASSUME CoreInv, receive_event
    PROVE  CoreInv'
<1>1. CASE PopPending
  <2>1. pending' = <<>>
    BY <1>1, PendingOne, Zenon DEF PopPending, CoreInv, CoreType, Queued
  <2> QED
    BY <1>1, <2>1, PopCore, Zenon DEF PopPending, drainVars, memberVars, runnerVars,
       requestVars
<1>2. CASE Block
  BY <1>2, FrameCore, Zenon DEF Block, coreVars, drainVars, memberVars, runnerVars,
     requestVars
<1>3. CASE process_completion
  BY <1>3, MismatchCore, CompletionCore, DrainCore DEF process_completion
<1> QED
  BY <1>1, <1>2, <1>3 DEF receive_event

\* Joining the runner threads ends their runs and fails every waiter.
LEMMA TopologyCore ==
    ASSUME CoreInv, NEW lost \in SUBSET Member, ShutdownTopology(lost)
    PROVE  CoreInv'
<1> USE DEF CoreInv, CoreType
<1>1. /\ UNCHANGED <<pending, active, nextGen, token, chan, asked, snap>>
      /\ phase' \in {"Failed", "ShutDown"} /\ kind' = "None" /\ reason' = "Wakeup"
      /\ remaining' = {} /\ waiters' = {}
      /\ run' \in [Member -> Resting \cup Executing]
      /\ \A i \in Member : run'[i] \in Resting \/ run'[i] = run[i]
      /\ answer' \in [Waiter -> {"None", "Waiting", "Ok", "Err"}]
      /\ \A w \in Waiter : answer'[w] = "Ok" => answer[w] = "Ok"
  BY Zenon DEF ShutdownTopology, EndDrain, memberVars
<1>2. CoreType' /\ Drained' /\ Queued' /\ Quieted'
  BY <1>1, Zenon DEF Drained, Queued, Quieted, Phase, DrainKind, Reason
<1>3. Runs' /\ Stops'
  BY <1>1 DEF Runs, Stops
<1>4. Chan'
  <2>1. \A k \in 1 .. Len(chan) : chan[k].index \in Member
    BY ChannelType
  <2>2. \A k \in 1 .. Len(chan) : run[chan[k].index] \in Resting
    BY DEF Chan
  <2>3. ASSUME NEW k \in 1 .. Len(chan) PROVE run'[chan[k].index] \in Resting
    <3>1. PICK i \in Member : i = chan[k].index
      BY ONLY <2>1, Zenon
    <3>2. run[i] \in Resting /\ (run'[i] \in Resting \/ run'[i] = run[i])
      BY ONLY <1>1, <2>2, <3>1, Zenon
    <3> QED
      BY ONLY <3>1, <3>2, Zenon
  <2>4. chan' = chan /\ active' = active /\ Chan
    BY <1>1, Zenon
  <2> QED
    BY ONLY <2>3, <2>4, Zenon DEF Chan
<1>5. Snaps'
  BY <1>1 DEF Snaps, Token
<1> QED
  BY <1>2, <1>3, <1>4, <1>5

\* Every continuation of the owner's current operation keeps the invariant.
LEMMA OwnerGoesOnCore ==
    ASSUME CoreInv, OwnerGoesOn
    PROVE  CoreInv'
<1>1. CASE submit_indexes
  BY <1>1, SubmitCore
<1>2. CASE receive_event
  BY <1>2, ReceiveCore
<1>3. CASE RequestPause
  BY <1>3, RequestCore, Zenon DEF RequestPause, Waiter, Reason
<1>4. CASE DrainWaiter
  BY <1>4, FrameCore, Zenon DEF DrainWaiter, coreVars, drainVars, memberVars, runnerVars,
     requestVars
<1>5. CASE \E lost \in SUBSET Member : ShutdownTopology(lost)
  BY <1>5, TopologyCore
<1> QED
  BY <1>1, <1>2, <1>3, <1>4, <1>5 DEF OwnerGoesOn

\* Resuming a paused topology: nothing is active and no stop was acknowledged.
LEMMA ResumeCore ==
    ASSUME CoreInv, resume
    PROVE  CoreInv'
<1> USE DEF CoreInv, CoreType
<1>1. /\ UNCHANGED <<kind, reason, remaining, waiters, pending, active, nextGen, run, token,
                     chan, answer, asked, snap>>
      /\ phase' = phase \/ (phase = "Paused" /\ phase' = "Running")
      /\ active_tokens' = active_tokens
  BY Zenon DEF resume, OwnerCalls, drainVars, requestVars, active_tokens
<1>2. CoreType' /\ Drained' /\ Queued' /\ Quieted'
  BY <1>1, Zenon DEF Drained, Queued, Quieted, Phase
<1>3. Runs' /\ Chan' /\ Stops' /\ Snaps'
  BY <1>1 DEF Runs, Chan, Stops, Snaps
<1> QED
  BY <1>2, <1>3

\* Every operation the owner starts keeps the invariant.
LEMMA OwnerStartsCore ==
    ASSUME CoreInv, OwnerStarts
    PROVE  CoreInv'
<1>1. CASE dispatch_online
  BY <1>1, FrameCore, Zenon DEF dispatch_online, coreVars, drainVars, memberVars, runnerVars,
     requestVars
<1>2. CASE resume
  BY <1>2, ResumeCore
<1>3. CASE prepare_snapshot_pause
  <2>1. \/ UNCHANGED pending
        \/ pending # <<>> /\ pending' = Tail(pending)
    BY <1>3 DEF prepare_snapshot_pause
  <2>2. pending # <<>> => Tail(pending) = <<>>
    BY PendingOne, Zenon DEF CoreInv, CoreType, Queued
  <2> QED
    BY <1>3, <2>1, <2>2, PopCore, FrameCore, Zenon DEF prepare_snapshot_pause, coreVars,
       drainVars, memberVars, runnerVars, requestVars
<1>4. CASE capture_stable_paused_members
  BY <1>4, PopCore, Zenon DEF capture_stable_paused_members, OwnerCalls, drainVars,
     requestVars
<1>5. CASE Shutdown
  BY <1>5, RequestCore, Zenon DEF Shutdown, Waiter, Reason
<1>6. CASE \E i \in Member : OwnerMemberCall(i)
  <2> SUFFICES ASSUME NEW i \in Member, OwnerMemberCall(i) PROVE CoreInv'
    BY <1>6
  <2>1. UNCHANGED coreVars
    BY Zenon DEF OwnerMemberCall, suspend_member, resume_suspended_member, member_operation,
       set_online, activate_and_dispatch_member, OwnerCalls, coreVars, drainVars, memberVars,
       runnerVars, requestVars
  <2> QED
    BY <2>1, FrameCore
<1> QED
  BY <1>1, <1>2, <1>3, <1>4, <1>5, <1>6 DEF OwnerStarts

\* CoreInv is inductive.
LEMMA NextCore == CoreInv /\ [Next]_vars => CoreInv'
<1> SUFFICES ASSUME CoreInv, [Next]_vars PROVE CoreInv'
  OBVIOUS
<1>1. CASE \E w \in Requester, r \in Reasons : Request(w, r)
  BY <1>1, RequestCore, InputAssumption DEF Request, Waiter
<1>2. CASE \E i \in Member : Runner(i)
  BY <1>2, RunnerCore
<1>3. CASE OwnerGoesOn
  BY <1>3, OwnerGoesOnCore
<1>4. CASE OwnerStarts
  BY <1>4, OwnerStartsCore
<1>5. CASE Closed \/ UNCHANGED vars
  BY <1>5, FrameCore, Zenon DEF Closed, vars, coreVars, drainVars, memberVars, runnerVars,
     requestVars
<1> QED
  BY <1>1, <1>2, <1>3, <1>4, <1>5 DEF Next

-----------------------------------------------------------------------------
(* Types of the state CoreInv does not mention.                            *)

Signal == {"None", "Pending", "Canceled", "TimerWon"}
OwnerState == {"out", "submit", "recv", "blocked", "pausing", "paused", "closing",
               "topology", "closed"}

BookType ==
    /\ acks \subseteq Result
    /\ online \in [Member -> BOOLEAN]
    /\ dispatch \in [Member -> {"Runnable", "Suspended"}]
    /\ debt \in [Member -> Generation]
    /\ signal \in [Member -> Signal]
    /\ exits \subseteq Member
    /\ call \in [Member -> Psci \cup {"None"}]

OwnerType ==
    /\ owner \in OwnerState
    /\ task \in {"step", "snapshot", "shutdown"}
    /\ ctx \in {"dispatch", "prepare", "activate", "resubmit"}
    /\ todo \subseteq Member
    /\ event.kind \in EventKind /\ event.results \subseteq Result
    /\ err \in Error

\* Recording debts and canceling a batch of members keeps their types.
LEMMA CancelType ==
    ASSUME BookType, NEW S, NEW act \in [Member -> Generation], NEW r,
           NEW sg \in [Member -> Signal]
    PROVE  /\ DebtsFor(S, act) \in [Member -> Generation]
           /\ CanceledSignals(S, r, sg) \in [Member -> Signal]
           /\ S \subseteq Member => NeedsExit(S, r, sg) \subseteq Member
BY Zenon DEF BookType, DebtsFor, CanceledSignals, NeedsExit, Signal

\* A control request keeps the types of debts, signals and exits.
LEMMA RequestBooks ==
    ASSUME CoreInv, BookType, NEW w \in Waiter, NEW r \in Reason, request(w, r)
    PROVE  BookType'
<1>1. UNCHANGED <<online, dispatch, call>>
  BY DEF request
<1>2. CASE UNCHANGED <<acks, debt, signal, exits>>
  BY <1>1, <1>2 DEF BookType
<1>3. CASE RequestStartsDrain(w, r)
  <2>1. acks' = {} /\ debt' = DebtsFor(ActiveMembers, active)
        /\ signal' = CanceledSignals(ActiveMembers, run, signal)
        /\ (exits' = exits \/ exits' = exits \cup NeedsExit(ActiveMembers, run, signal))
    BY <1>3, Zenon DEF RequestStartsDrain, BatchCancel, BatchCancelFails, StartDrain, EndDrain
  <2>2. ActiveMembers \subseteq Member /\ active \in [Member -> Generation]
        /\ signal \in [Member -> Signal]
    BY Zenon DEF ActiveMembers, CoreInv, CoreType, BookType
  <2>3. /\ DebtsFor(ActiveMembers, active) \in [Member -> Generation]
        /\ CanceledSignals(ActiveMembers, run, signal) \in [Member -> Signal]
        /\ NeedsExit(ActiveMembers, run, signal) \subseteq Member
    BY <2>2, CancelType, Zenon
  <2> QED
    BY <1>1, <2>1, <2>3, Zenon DEF BookType
<1> QED
  BY <1>2, <1>3, Zenon DEF request, RequestCoalesces, RequestJoinsDrain, RequestWhileQuiet,
     RequestRejected, RequestFindsNoRun, drainVars

\* A runner step keeps the types of the runner's signal, exit and call.
LEMMA RunnerBooks ==
    ASSUME BookType, NEW i \in Member, Runner(i)
    PROVE  BookType'
<1>1. UNCHANGED <<acks, online, dispatch, debt>>
  BY Zenon DEF Runner, EnterGuest, ExitCanceled, ExitNaturally, RunFails, TimerDue,
     WaitReturns, Completes, drainVars, memberVars
<1>2. signal' \in [Member -> Signal] /\ exits' \subseteq Member
  BY Zenon DEF Runner, EnterGuest, ExitCanceled, ExitNaturally, RunFails, TimerDue,
     WaitReturns, BookType, Signal
<1>3. call' \in [Member -> Psci \cup {"None"}]
  BY Zenon DEF Runner, EnterGuest, ExitCanceled, ExitNaturally, RunFails, TimerDue,
     WaitReturns, BookType
<1> QED
  BY <1>1, <1>2, <1>3 DEF BookType

\* submit_indexes keeps the types of what it records for the members.
LEMMA SubmitBooks ==
    ASSUME CoreInv, BookType, submit_indexes
    PROVE  BookType'
<1>1. CASE SubmitSkips \/ SubmitNotRunning
  BY <1>1, Zenon DEF SubmitSkips, SubmitNotRunning, drainVars, memberVars, runnerVars,
     BookType
<1>2. ASSUME NEW S, Submits(S)
      PROVE  online' \in [Member -> BOOLEAN] /\ SignalOf(S) \in [Member -> Signal]
  <2>1. online' \in [Member -> BOOLEAN]
    BY <1>2, Zenon DEF Submits, BookType
  <2>2. SignalOf(S) \in [Member -> Signal]
    BY Zenon DEF SignalOf, BookType, Signal
  <2> QED
    BY <2>1, <2>2
<1>3. CASE SubmitAll
  BY <1>2, <1>3, Zenon DEF SubmitAll, drainVars, BookType
<1>4. ASSUME NEW k \in todo, SubmitInvalid(k) PROVE BookType'
  BY <1>2, <1>4, Zenon DEF SubmitInvalid, drainVars, BookType
<1>5. ASSUME NEW k \in todo, SubmitRefused(k) PROVE BookType'
  <2> DEFINE S == Before(k)
             live == {i \in Member : ActiveOf(S)[i] # NoGen}
  <2>1. /\ Submits(S) /\ UNCHANGED <<dispatch, call>> /\ acks' = {}
        /\ UNCHANGED debt \/ debt' = DebtsFor(live, ActiveOf(S))
        /\ \/ signal' = SignalOf(S)
           \/ signal' = CanceledSignals(live, RunOf(S), SignalOf(S))
        /\ \/ UNCHANGED exits
           \/ exits' = exits \cup NeedsExit(live, RunOf(S), SignalOf(S))
    BY <1>5, Zenon DEF SubmitRefused, BatchCancel, BatchCancelFails, StartDrain, EndDrain
  <2>2. online' \in [Member -> BOOLEAN] /\ SignalOf(S) \in [Member -> Signal]
    BY <1>2, <2>1
  <2>3. live \subseteq Member
    OBVIOUS
  <2>4. ActiveOf(S) \in [Member -> Generation]
    BY Zenon DEF ActiveOf, CoreInv, CoreType
  <2> HIDE DEF live, S
  <2>5. /\ DebtsFor(live, ActiveOf(S)) \in [Member -> Generation]
        /\ CanceledSignals(live, RunOf(S), SignalOf(S)) \in [Member -> Signal]
        /\ NeedsExit(live, RunOf(S), SignalOf(S)) \subseteq Member
    BY <2>2, <2>3, <2>4, CancelType, Zenon
  <2> QED
    BY <2>1, <2>2, <2>5, Zenon DEF BookType
<1> QED
  BY <1>1, <1>3, <1>4, <1>5 DEF submit_indexes

\* process_completion keeps the types of acknowledgements, debts and signals.
LEMMA CompletionBooks ==
    ASSUME CoreInv, BookType, process_completion
    PROVE  BookType'
<1> DEFINE c == Head(chan)
<1>1. c \in Result /\ c.index \in Member
  <2>1. 1 \in 1 .. Len(chan) /\ c = chan[1]
    BY ChannelHead DEF process_completion, CoreInv, CoreType
  <2> QED
    BY <2>1, ChannelType DEF CoreInv, CoreType
<1>2. \/ CompletionMismatch(c) \/ CompletionMember(c) \/ CompletionAbsorbed(c)
      \/ CompletionTerminal(c) \/ CompletionAcked(c) \/ CompletionFinishes(c)
      \/ CompletionUnexpected(c)
  BY DEF process_completion
<1> HIDE DEF c
<1>3. NoGen \in Generation
  BY SizeAssumption
<1>4. Settles(c) => debt' \in [Member -> Generation]
  BY <1>1, <1>3 DEF Settles, BookType
<1>5. UNCHANGED <<online, dispatch, call>>
  BY <1>2, Zenon DEF CompletionMismatch, CompletionMember, CompletionAbsorbed,
     CompletionTerminal, CompletionAcked, CompletionFinishes, CompletionUnexpected, Accepted,
     Takes
<1>6. CASE CompletionTerminal(c)
  <2> DEFINE live == ActiveMembers \ {c.index}
  <2>1. /\ acks' = {} \/ acks' = {c}
        /\ UNCHANGED debt \/ debt' = DebtsFor(live, active)
        /\ UNCHANGED signal \/ signal' = CanceledSignals(live, run, signal)
        /\ UNCHANGED exits \/ exits' = exits \cup NeedsExit(live, run, signal)
    BY <1>6, Zenon DEF CompletionTerminal, BatchCancel, BatchCancelFails, StartDrain, EndDrain
  <2>2. live \subseteq Member /\ active \in [Member -> Generation]
        /\ signal \in [Member -> Signal]
    BY Zenon DEF ActiveMembers, CoreInv, CoreType, BookType
  <2> HIDE DEF live
  <2>3. /\ DebtsFor(live, active) \in [Member -> Generation]
        /\ CanceledSignals(live, run, signal) \in [Member -> Signal]
        /\ NeedsExit(live, run, signal) \subseteq Member
    BY <2>2, CancelType, Zenon
  <2> QED
    BY <1>1, <1>5, <2>1, <2>3, Zenon DEF BookType
<1>7. CASE CompletionMismatch(c)
  BY <1>5, <1>7, Zenon DEF CompletionMismatch, drainVars, BookType
<1>8. CASE CompletionMember(c) \/ CompletionAbsorbed(c) \/ CompletionUnexpected(c)
  BY <1>4, <1>5, <1>8, Zenon DEF CompletionMember, CompletionAbsorbed, CompletionUnexpected,
     drainVars, BookType
<1>9. CASE CompletionAcked(c)
  BY <1>1, <1>4, <1>5, <1>9 DEF CompletionAcked, BookType
<1>10. CASE CompletionFinishes(c)
  BY <1>4, <1>5, <1>10, Zenon DEF CompletionFinishes, EndDrain, BookType
<1> QED
  BY <1>2, <1>6, <1>7, <1>8, <1>9, <1>10

\* The member operations keep the types of the member's record and call.
LEMMA MemberCallBooks ==
    ASSUME BookType, NEW i \in Member, OwnerMemberCall(i)
    PROVE  BookType'
<1>1. UNCHANGED <<acks, debt, signal, exits>>
  BY Zenon DEF OwnerMemberCall, suspend_member, resume_suspended_member, member_operation,
     set_online, activate_and_dispatch_member, OwnerCalls, drainVars, memberVars, runnerVars
<1>2. dispatch' \in [Member -> {"Runnable", "Suspended"}]
  BY ZenonT(30) DEF OwnerMemberCall, suspend_member, resume_suspended_member,
     member_operation, set_online, activate_and_dispatch_member, memberVars, BookType
<1>3. call' \in [Member -> Psci \cup {"None"}]
  BY Zenon DEF OwnerMemberCall, suspend_member, resume_suspended_member, member_operation,
     set_online, activate_and_dispatch_member, runnerVars, BookType
<1>4. online' \in [Member -> BOOLEAN]
  BY Zenon DEF OwnerMemberCall, suspend_member, resume_suspended_member, member_operation,
     set_online, activate_and_dispatch_member, memberVars, BookType
<1> QED
  BY <1>1, <1>2, <1>3, <1>4 DEF BookType

\* Every step keeps the types of the coordinator's and the runners' books.
LEMMA NextBooks == CoreInv /\ BookType /\ [Next]_vars => BookType'
<1> SUFFICES ASSUME CoreInv, BookType, [Next]_vars PROVE BookType'
  OBVIOUS
<1>0. ASSUME UNCHANGED <<acks, online, dispatch, debt, signal, exits, call>> PROVE BookType'
  BY <1>0 DEF BookType
<1>1. CASE \E w \in Requester, r \in Reasons : Request(w, r)
  BY <1>1, RequestBooks, InputAssumption DEF Request, Waiter
<1>2. CASE RequestPause \/ Shutdown
  BY <1>2, RequestBooks, Zenon DEF RequestPause, Shutdown, Waiter, Reason
<1>3. CASE \E i \in Member : Runner(i)
  BY <1>3, RunnerBooks
<1>4. CASE submit_indexes
  BY <1>4, SubmitBooks
<1>5. CASE process_completion
  BY <1>5, CompletionBooks
<1>6. CASE \E i \in Member : OwnerMemberCall(i)
  BY <1>6, MemberCallBooks
<1>7. CASE PopPending \/ Block \/ DrainWaiter \/ dispatch_online \/ prepare_snapshot_pause
           \/ Closed \/ UNCHANGED vars
  BY <1>0, <1>7, Zenon DEF PopPending, Block, DrainWaiter, dispatch_online,
     prepare_snapshot_pause, Closed, vars, drainVars, memberVars, runnerVars
<1>8. CASE resume \/ capture_stable_paused_members
  BY <1>0, <1>8, Zenon DEF resume, capture_stable_paused_members, OwnerCalls, drainVars
<1>9. CASE \E lost \in SUBSET Member : ShutdownTopology(lost)
  BY <1>9, Zenon DEF ShutdownTopology, EndDrain, memberVars, BookType
<1> QED
  BY <1>1, <1>2, <1>3, <1>4, <1>5, <1>6, <1>7, <1>8, <1>9
     DEF Next, OwnerGoesOn, OwnerStarts, receive_event

\* An operation's error return and the delivery of an event leave the owner
\* thread in one of its states.
LEMMA OwnerMoves ==
    ASSUME OwnerType
    PROVE  /\ \A e \in Error : OwnerFails(e) => owner' \in OwnerState /\ err' \in Error
           /\ \A e : Delivers(e) => event' = e /\ owner' \in OwnerState /\ err' \in Error
BY Zenon DEF OwnerType, OwnerFails, Delivers, OwnerState, Error

\* process_completion keeps the owner's types.
LEMMA CompletionOwner ==
    ASSUME CoreInv, BookType, OwnerType, process_completion
    PROVE  OwnerType'
<1> DEFINE c == Head(chan)
<1>1. c \in Result /\ c.index \in Member
  <2>1. 1 \in 1 .. Len(chan) /\ c = chan[1]
    BY ChannelHead DEF process_completion, CoreInv, CoreType
  <2> QED
    BY <2>1, ChannelType DEF CoreInv, CoreType
<1>2. \/ CompletionMismatch(c) \/ CompletionMember(c) \/ CompletionAbsorbed(c)
      \/ CompletionTerminal(c) \/ CompletionAcked(c) \/ CompletionFinishes(c)
      \/ CompletionUnexpected(c)
  BY DEF process_completion
<1> HIDE DEF c
<1>3. UNCHANGED task
  BY <1>2, Zenon DEF CompletionMismatch, CompletionMember, CompletionAbsorbed,
     CompletionTerminal, CompletionAcked, CompletionFinishes, CompletionUnexpected, Accepted,
     Takes
<1>4. CASE CompletionAbsorbed(c)
  BY <1>1, <1>3, <1>4, Zenon DEF CompletionAbsorbed, OwnerType, OwnerState
<1>5. ASSUME UNCHANGED <<ctx, todo, event>>, NEW e \in Error, OwnerFails(e) PROVE OwnerType'
  BY <1>3, <1>5, OwnerMoves DEF OwnerType
<1>6. ASSUME UNCHANGED <<ctx, todo>>, NEW k \in EventKind, NEW r, NEW p,
             NEW results \in SUBSET Result,
             Delivers([kind |-> k, reason |-> r, results |-> results, primary |-> p])
      PROVE  OwnerType'
  <2> DEFINE e == [kind |-> k, reason |-> r, results |-> results, primary |-> p]
  <2>1. event' = e /\ owner' \in OwnerState /\ err' \in Error
    BY <1>6, OwnerMoves
  <2> QED
    BY <1>3, <1>6, <2>1 DEF OwnerType
<1>7. CASE CompletionMismatch(c)
  BY <1>5, <1>7 DEF CompletionMismatch, Error
<1>8. CASE CompletionUnexpected(c)
  BY <1>5, <1>8 DEF CompletionUnexpected, Error
<1>9. CASE CompletionMember(c)
  <2>1. {c} \in SUBSET Result /\ "Member" \in EventKind
    BY <1>1 DEF EventKind
  <2> QED
    BY <1>6, <1>9, <2>1 DEF CompletionMember
<1>10. CASE CompletionAcked(c)
  BY <1>3, <1>10, Zenon DEF CompletionAcked, OwnerType, OwnerState
<1>11. CASE CompletionTerminal(c)
  <2>1. {c} \in SUBSET Result /\ "Terminal" \in EventKind /\ "BatchCancel" \in Error
    BY <1>1 DEF EventKind, Error
  <2>2. UNCHANGED <<ctx, todo>>
    BY <1>11 DEF CompletionTerminal
  <2>3. CASE Delivers([kind |-> "Terminal", reason |-> "None", results |-> {c},
                       primary |-> c.index])
    BY <1>6, <2>1, <2>2, <2>3
  <2>4. CASE owner' = "recv" /\ UNCHANGED <<event, err>>
    BY <1>3, <2>2, <2>4 DEF OwnerType, OwnerState
  <2>5. CASE OwnerFails("BatchCancel") /\ UNCHANGED event
    BY <1>5, <2>1, <2>2, <2>5
  <2> QED
    BY <1>11, <2>3, <2>4, <2>5 DEF CompletionTerminal
<1>12. CASE CompletionFinishes(c)
  <2> DEFINE all == acks \cup {c}
  <2>1. all \in SUBSET Result /\ {"Terminal", "Barrier"} \subseteq EventKind
        /\ "Submission" \in Error
    BY <1>1, Zenon DEF BookType, EventKind, Error
  <2>2. UNCHANGED <<ctx, todo>>
    BY <1>12 DEF CompletionFinishes
  <2>3. CASE Delivers([kind |-> "Barrier", reason |-> reason, results |-> all,
                       primary |-> -1])
    BY <1>6, <2>1, <2>2, <2>3
  <2>4. CASE Delivers([kind |-> "Terminal", reason |-> "None", results |-> all,
                       primary |-> terminal_report(all)])
    BY <1>6, <2>1, <2>2, <2>4
  <2>5. CASE OwnerFails("Submission") /\ UNCHANGED event
    BY <1>5, <2>1, <2>2, <2>5
  <2> QED
    BY <1>12, <2>3, <2>4, <2>5 DEF CompletionFinishes
<1> QED
  BY <1>2, <1>4, <1>7, <1>8, <1>9, <1>10, <1>11, <1>12

\* submit_indexes and the other continuations keep the owner's types.
LEMMA OwnerGoesOnOwner ==
    ASSUME CoreInv, BookType, OwnerType, OwnerGoesOn
    PROVE  OwnerType'
<1>1. CASE submit_indexes
  <2>1. UNCHANGED <<task, ctx, todo, event>>
    BY <1>1, Zenon DEF submit_indexes, SubmitSkips, SubmitNotRunning, SubmitAll,
       SubmitInvalid, SubmitRefused
  <2>2. \A b \in BOOLEAN : AfterSubmit(b) \in OwnerState
    BY DEF AfterSubmit, OwnerState
  <2>3. CASE owner' \in OwnerState /\ UNCHANGED err
    BY <2>1, <2>3 DEF OwnerType
  <2>4. ASSUME NEW e \in Error, OwnerFails(e) PROVE OwnerType'
    BY <2>1, <2>4, OwnerMoves DEF OwnerType
  <2>5. CASE SubmitSkips \/ SubmitAll
    BY <2>2, <2>3, <2>5, Zenon DEF SubmitSkips, SubmitAll
  <2>6. CASE SubmitNotRunning
    BY <2>4, <2>6 DEF SubmitNotRunning, Error
  <2>7. ASSUME NEW k \in todo, SubmitInvalid(k) PROVE OwnerType'
    BY <2>4, <2>7 DEF SubmitInvalid, Error
  <2>8. ASSUME NEW k \in todo, SubmitRefused(k) PROVE OwnerType'
    <3>1. OwnerFails("Submission") \/ (owner' = "recv" /\ UNCHANGED err)
      BY <2>8 DEF SubmitRefused
    <3> QED
      BY <2>3, <2>4, <3>1 DEF Error, OwnerState
  <2> QED
    BY <1>1, <2>5, <2>6, <2>7, <2>8 DEF submit_indexes
<1>2. CASE process_completion
  BY <1>2, CompletionOwner
<1>3. CASE PopPending
  <2>1. /\ UNCHANGED <<task, ctx, todo>>
        /\ event' = [kind |-> "Barrier", reason |-> Head(pending), results |-> {},
                     primary |-> -1]
        /\ owner' \in OwnerState /\ err' \in Error
    BY <1>3, OwnerMoves DEF PopPending
  <2> QED
    BY <2>1 DEF OwnerType, EventKind
<1>4. CASE Block \/ DrainWaiter \/ RequestPause
  BY <1>4, Zenon DEF Block, DrainWaiter, RequestPause, OwnerType, OwnerState
<1>5. CASE \E lost \in SUBSET Member : ShutdownTopology(lost)
  BY <1>5 DEF ShutdownTopology, OwnerType, OwnerState, Error
<1> QED
  BY <1>1, <1>2, <1>3, <1>4, <1>5 DEF OwnerGoesOn, receive_event

\* Every step keeps the owner's types.
LEMMA NextOwner == CoreInv /\ BookType /\ OwnerType /\ [Next]_vars => OwnerType'
<1> SUFFICES ASSUME CoreInv, BookType, OwnerType, [Next]_vars PROVE OwnerType'
  OBVIOUS
<1>1. CASE UNCHANGED ownerVars
  BY <1>1 DEF ownerVars, OwnerType
<1>2. CASE OwnerGoesOn
  BY <1>2, OwnerGoesOnOwner
<1>3. CASE dispatch_online
  BY <1>3, Zenon DEF dispatch_online, IdleOnline, OwnerType, OwnerState, Error
<1>4. CASE prepare_snapshot_pause
  BY <1>4, Zenon DEF prepare_snapshot_pause, IdleOnline, OwnerType, OwnerState
<1>5. CASE resume \/ capture_stable_paused_members
  BY <1>5, Zenon DEF resume, capture_stable_paused_members, OwnerCalls, OwnerType, OwnerState,
     Error
<1>6. CASE Shutdown
  BY <1>6, Zenon DEF Shutdown, OwnerType, OwnerState
<1>7. CASE \E i \in Member : OwnerMemberCall(i)
  BY <1>7 DEF OwnerMemberCall, suspend_member, resume_suspended_member, member_operation,
     set_online, activate_and_dispatch_member, OwnerCalls, Raised, OwnerType, OwnerState, Error,
     SuspendError, ResumeSuspendedError, OperationError, SetOnlineError
<1>8. (\E w \in Requester, r \in Reasons : Request(w, r)) \/ (\E i \in Member : Runner(i))
         \/ Closed \/ UNCHANGED vars => UNCHANGED ownerVars
  BY Zenon DEF Request, Runner, EnterGuest, ExitCanceled, ExitNaturally, RunFails, TimerDue,
     WaitReturns, Completes, Closed, vars
<1> QED
  BY <1>1, <1>2, <1>3, <1>4, <1>5, <1>6, <1>7, <1>8 DEF Next, OwnerStarts

-----------------------------------------------------------------------------
(* The theorems.                                                           *)

\* The coordinator's books, the runner threads and the completion channel
\* always agree as CoreInv says, and every variable keeps its type.
THEOREM CoreInvariant == Spec => [](CoreInv /\ BookType /\ OwnerType)
<1>1. Init => CoreInv /\ BookType /\ OwnerType
  <2> SUFFICES ASSUME Init PROVE BookType /\ OwnerType
    BY InitCore
  <2>1. BookType
    BY SizeAssumption DEF Init, BookType, Signal, Psci
  <2>2. OwnerType
    BY Zenon DEF Init, OwnerType, OwnerState, EventKind, NoEvent, Error
  <2> QED
    BY <2>1, <2>2
<1>2. CoreInv /\ BookType /\ OwnerType /\ [Next]_vars => (CoreInv /\ BookType /\ OwnerType)'
  BY NextCore, NextBooks, NextOwner
<1> QED
  BY <1>1, <1>2, PTL DEF Spec

\* Every variable of the coordinator, the runners and the owner keeps its type;
\* in particular no generation ever exceeds the counter's width (submit_indexes).
THEOREM TypeCorrect == Spec => []TypeOK
<1>1. CoreInv /\ BookType /\ OwnerType => TypeOK
  BY Zenon DEF CoreInv, CoreType, BookType, OwnerType, TypeOK, Signal, OwnerState
<1> QED
  BY <1>1, CoreInvariant, PTL

\* A paused or stopped topology executes nothing, for any number of vCPUs and
\* any race between controls, completions and runner threads.
THEOREM QuiescedAlwaysQuiet == Spec => []QuiescedIsQuiet
<1>1. CoreInv => QuiescedIsQuiet
  BY Zenon DEF CoreInv, CoreType, Quieted, Runs, QuiescedIsQuiet, Quiet
<1> QED
  BY <1>1, CoreInvariant, PTL

\* A waiter answered Ok never sees a run of its snapshot executing again.
THEOREM BarriersCoverSnapshots == Spec => []BarrierCoversSnapshot
<1>1. CoreInv => BarrierCoversSnapshot
  BY Zenon DEF CoreInv, Snaps, BarrierCoversSnapshot
<1> QED
  BY <1>1, CoreInvariant, PTL

\* While draining, the awaited runs are exactly the active ones.
THEOREM DrainsTrackActive == Spec => []DrainTracksActive
<1>1. CoreInv => DrainTracksActive
  BY Zenon DEF CoreInv, Drained, DrainTracksActive
<1> QED
  BY <1>1, CoreInvariant, PTL

\* At most one undelivered barrier is queued, and never beside an active run.
THEOREM BarrierQueueBounded == Spec => []BarrierQueueBound
<1>1. CoreInv => BarrierQueueBound
  BY Zenon DEF CoreInv, Queued, BarrierQueueBound, ActiveMembers
<1> QED
  BY <1>1, CoreInvariant, PTL

\* An acknowledged stop is final: no coalescing, joining or draining path leads
\* from there back to a running topology.
THEOREM StopsAreFinal == Spec => []StopIsFinal
<1>1. CoreInv => StopIsFinal
  BY Zenon DEF CoreInv, Stops, StopIsFinal
<1> QED
  BY <1>1, CoreInvariant, PTL

=============================================================================
