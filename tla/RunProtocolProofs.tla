------------------------- MODULE RunProtocolProofs --------------------------
(***************************************************************************)
(* What RunCoordinator promises the parties it talks to, for every number  *)
(* of members, requesters and generations: one answer per waiter, nothing  *)
(* left on an offline member, no terminal result inside a barrier, and a   *)
(* completion protocol whose internal errors cannot happen.  Every step of *)
(* the coordinator, its runner threads and its owner is a step of the      *)
(* abstract RunTopology or leaves it as it is.                             *)
(***************************************************************************)
EXTENDS RunCoordinatorProofs

USE DEF Member, Generation, NoGen, Resting, Executing, Stopping

-----------------------------------------------------------------------------
(* Waiters.                                                                *)

\* A requester waits in the drain exactly until it is answered.
Waits ==
    \A w \in Requester : /\ w \in waiters => answer[w] = "Waiting"
                         /\ asked[w] = "None" => answer[w] = "None"

KeepsAnswers ==
    \A w \in Requester : answer[w] \in {"Ok", "Err"} => answer'[w] = answer[w]

\* A request touches only its own waiter.
LEMMA RequestAnswers ==
    ASSUME CoreInv, Waits, NEW w \in Waiter, NEW r \in Reason, request(w, r),
           w \in Requester => asked[w] = "None"
    PROVE  Waits' /\ KeepsAnswers
<1>1. /\ asked' = [asked EXCEPT ![w] = r]
      /\ \E a \in {"Waiting", "Ok", "Err"} :
            /\ answer' = [answer EXCEPT ![w] = a]
            /\ \/ waiters' = waiters /\ a # "Waiting"
               \/ waiters' = waiters \cup {w} /\ a = "Waiting"
               \/ waiters' = {w} /\ a = "Waiting"
               \/ waiters' = {}
  BY Zenon DEF request, RequestCoalesces, RequestJoinsDrain, RequestWhileQuiet,
     RequestRejected, RequestFindsNoRun, RequestStartsDrain, StartDrain, EndDrain, Asks,
     drainVars
<1>2. r # "None"
  BY Zenon DEF Reason
<1>3. Waits'
  BY <1>1, <1>2 DEF Waits, CoreInv, CoreType, Waiter
<1>4. KeepsAnswers
  BY <1>1, Zenon DEF Waits, KeepsAnswers, CoreInv, CoreType, Waiter
<1> QED
  BY <1>3, <1>4, Zenon

\* Every step answers a requester at most once.
LEMMA NextAnswers == CoreInv /\ Waits /\ [Next]_vars => Waits' /\ KeepsAnswers
<1> SUFFICES ASSUME CoreInv, Waits, [Next]_vars PROVE Waits' /\ KeepsAnswers
  BY Zenon
<1>1. ASSUME UNCHANGED <<answer, asked>>, waiters' \subseteq waiters
      PROVE  Waits' /\ KeepsAnswers
  BY <1>1, Zenon DEF Waits, KeepsAnswers
<1>2. ASSUME NEW a, answer' = [w \in Waiter |-> IF w \in waiters THEN a ELSE answer[w]],
             waiters' = {}, UNCHANGED asked
      PROVE  Waits' /\ KeepsAnswers
  BY <1>2, Zenon DEF Waits, KeepsAnswers, Waiter
<1>3. CASE \E w \in Requester, r \in Reasons : Request(w, r)
  BY <1>3, RequestAnswers, InputAssumption, Zenon DEF Request, Waiter
<1>4. CASE RequestPause \/ Shutdown
  BY <1>4, RequestAnswers, InputAssumption, Zenon DEF RequestPause, Shutdown, Waiter, Reason
<1>5. CASE process_completion
  <2> DEFINE c == Head(chan)
  <2>1. \/ CompletionMismatch(c) \/ CompletionMember(c) \/ CompletionAbsorbed(c)
        \/ CompletionTerminal(c) \/ CompletionAcked(c) \/ CompletionFinishes(c)
        \/ CompletionUnexpected(c)
    BY <1>5, Zenon DEF process_completion
  <2> HIDE DEF c
  <2>2. CASE CompletionFinishes(c)
    BY <1>1, <1>2, <2>2, Zenon DEF CompletionFinishes, AnswersWaiters, EndDrain
  <2>3. CASE CompletionTerminal(c)
    BY <1>1, <2>3, Zenon DEF CompletionTerminal, StartDrain, EndDrain, requestVars
  <2> QED
    BY <1>1, <2>1, <2>2, <2>3, Zenon DEF CompletionMismatch, CompletionMember,
       CompletionAbsorbed, CompletionAcked, CompletionUnexpected, requestVars, drainVars
<1>6. CASE \E lost \in SUBSET Member : ShutdownTopology(lost)
  BY <1>2, <1>6, Zenon DEF ShutdownTopology, EndDrain
<1>7. CASE submit_indexes
  <2>1. UNCHANGED requestVars /\ (UNCHANGED waiters \/ waiters' = {})
    BY <1>7, Zenon DEF submit_indexes, SubmitSkips, SubmitNotRunning, SubmitAll,
       SubmitInvalid, SubmitRefused, StartDrain, EndDrain, drainVars
  <2> QED
    BY <1>1, <2>1, Zenon DEF requestVars
<1>8. CASE \E i \in Member : Runner(i)
  BY <1>1, <1>8, Zenon DEF Runner, EnterGuest, ExitCanceled, ExitNaturally, RunFails,
     TimerDue, WaitReturns, Completes, drainVars, requestVars
<1>9. CASE \E i \in Member : OwnerMemberCall(i)
  BY <1>1, <1>9, Zenon DEF OwnerMemberCall, suspend_member, resume_suspended_member,
     member_operation, set_online, activate_and_dispatch_member, OwnerCalls, drainVars,
     requestVars
<1>10. CASE PopPending \/ Block \/ DrainWaiter \/ dispatch_online \/ prepare_snapshot_pause
            \/ resume \/ capture_stable_paused_members \/ Closed \/ UNCHANGED vars
  BY <1>1, <1>10, Zenon DEF PopPending, Block, DrainWaiter, dispatch_online,
     prepare_snapshot_pause, resume, capture_stable_paused_members, OwnerCalls, Closed, vars,
     drainVars, requestVars
<1> QED
  BY <1>3, <1>4, <1>5, <1>6, <1>7, <1>8, <1>9, <1>10, Zenon DEF Next, OwnerGoesOn,
     OwnerStarts, receive_event

-----------------------------------------------------------------------------
(* Offline members.                                                        *)

\* A batch cancellation records debts only for members that have a run.
LEMMA DebtsInert ==
    ASSUME NEW S, NEW act, NEW i \in Member, i \notin S, debt[i] = NoGen
    PROVE  DebtsFor(S, act)[i] = NoGen
BY Zenon DEF DebtsFor

\* Every step leaves offline members without run, debt and retained wait.
LEMMA NextInert == CoreInv /\ BookType /\ OfflineIsInert /\ [Next]_vars => OfflineIsInert'
<1> SUFFICES ASSUME CoreInv, BookType, OfflineIsInert, [Next]_vars,
                    NEW i \in Member, ~online'[i]
             PROVE  active'[i] = NoGen /\ debt'[i] = NoGen /\ dispatch'[i] = "Runnable"
  BY Zenon DEF OfflineIsInert
<1>0. ~online[i] => active[i] = NoGen /\ debt[i] = NoGen /\ dispatch[i] = "Runnable"
                      /\ i \notin ActiveMembers
  BY Zenon DEF OfflineIsInert, ActiveMembers
<1> DEFINE Goal == active'[i] = NoGen /\ debt'[i] = NoGen /\ dispatch'[i] = "Runnable"
<1>1. ASSUME UNCHANGED <<online, dispatch, active, debt>> PROVE Goal
  BY <1>0, <1>1, Zenon
<1>2. ASSUME NEW w \in Waiter, NEW r \in Reason, request(w, r) PROVE Goal
  <2>1. /\ UNCHANGED <<online, dispatch, active>>
        /\ UNCHANGED debt \/ debt' = DebtsFor(ActiveMembers, active)
    BY <1>2, Zenon DEF request, RequestCoalesces, RequestJoinsDrain, RequestWhileQuiet,
       RequestRejected, RequestFindsNoRun, RequestStartsDrain
  <2> QED
    BY <1>0, <2>1, DebtsInert, Zenon
<1>3. CASE \E w \in Requester, r \in Reasons : Request(w, r)
  BY <1>2, <1>3, InputAssumption, Zenon DEF Request, Waiter
<1>4. CASE RequestPause \/ Shutdown
  BY <1>2, <1>4, Zenon DEF RequestPause, Shutdown, Waiter, Reason
<1>5. CASE submit_indexes
  <2>1. CASE SubmitSkips \/ SubmitNotRunning
    BY <1>1, <2>1, Zenon DEF SubmitSkips, SubmitNotRunning, memberVars
  <2>2. ASSUME NEW S, Submits(S)
        PROVE  /\ ~online[i] /\ i \notin S
               /\ active'[i] = NoGen /\ ActiveOf(S)[i] = NoGen
    BY <1>0, <2>2, Zenon DEF Submits, ActiveOf
  <2>3. CASE SubmitAll
    <3>1. Submits(todo) /\ UNCHANGED <<dispatch, debt>>
      BY <2>3, Zenon DEF SubmitAll
    <3> QED
      BY <1>0, <2>2, <3>1, Zenon
  <2>4. ASSUME NEW k \in todo, SubmitInvalid(k) PROVE Goal
    <3>1. Submits(Before(k)) /\ UNCHANGED <<dispatch, debt>>
      BY <2>4, Zenon DEF SubmitInvalid
    <3> QED
      BY <1>0, <2>2, <3>1, Zenon
  <2>5. ASSUME NEW k \in todo, SubmitRefused(k) PROVE Goal
    <3> DEFINE live == {j \in Member : ActiveOf(Before(k))[j] # NoGen}
    <3>1. /\ Submits(Before(k)) /\ UNCHANGED dispatch
          /\ UNCHANGED debt \/ debt' = DebtsFor(live, ActiveOf(Before(k)))
      BY <2>5, Zenon DEF SubmitRefused
    <3>2. i \notin live
      BY <2>2, <3>1, Zenon
    <3> HIDE DEF live
    <3> QED
      BY <1>0, <2>2, <3>1, <3>2, DebtsInert
  <2> QED
    BY <1>5, <2>1, <2>3, <2>4, <2>5, Zenon DEF submit_indexes
<1>6. CASE process_completion
  <2> DEFINE c == Head(chan)
  <2>1. \/ CompletionMismatch(c) \/ CompletionMember(c) \/ CompletionAbsorbed(c)
        \/ CompletionTerminal(c) \/ CompletionAcked(c) \/ CompletionFinishes(c)
        \/ CompletionUnexpected(c)
    BY <1>6, Zenon DEF process_completion
  <2> HIDE DEF c
  <2>2. CASE CompletionMismatch(c)
    BY <1>1, <2>2, Zenon DEF CompletionMismatch, Takes
  <2>3. CASE CompletionTerminal(c)
    <3>1. /\ UNCHANGED <<online, dispatch>> /\ active' = [active EXCEPT ![c.index] = NoGen]
          /\ UNCHANGED debt \/ debt' = DebtsFor(ActiveMembers \ {c.index}, active)
      BY <2>3, Zenon DEF CompletionTerminal, Accepted, Takes
    <3> QED
      BY <1>0, <3>1, DebtsInert DEF CoreInv, CoreType
  <2>4. CASE Accepted(c) /\ Settles(c)
    BY <1>0, <2>4, Zenon DEF Accepted, Takes, Settles, CoreInv, CoreType, BookType
  <2> QED
    BY <2>1, <2>2, <2>3, <2>4, Zenon DEF CompletionMember, CompletionAbsorbed,
       CompletionAcked, CompletionFinishes, CompletionUnexpected
<1>7. CASE \E lost \in SUBSET Member : ShutdownTopology(lost)
  BY <1>1, <1>7, Zenon DEF ShutdownTopology, memberVars
<1>8. CASE \E j \in Member : Runner(j)
  BY <1>1, <1>8, Zenon DEF Runner, EnterGuest, ExitCanceled, ExitNaturally, RunFails,
     TimerDue, WaitReturns, Completes, memberVars
<1>9. ASSUME NEW j \in Member, OwnerMemberCall(j) PROVE Goal
  <2>1. UNCHANGED <<active, debt>>
    BY <1>9, Zenon DEF OwnerMemberCall, suspend_member, resume_suspended_member,
       member_operation, set_online, activate_and_dispatch_member, OwnerCalls, memberVars
  <2>2. CASE set_online(j, FALSE)
    BY <1>0, <2>1, <2>2, Zenon DEF set_online, SetOnlineError, BookType
  <2>3. CASE suspend_member(j)
    BY <1>0, <2>1, <2>3, Zenon DEF suspend_member, SuspendError, BookType
  <2>4. CASE resume_suspended_member(j)
    BY <1>0, <2>1, <2>4, Zenon DEF resume_suspended_member, ResumeSuspendedError, BookType
  <2>5. CASE member_operation(j, TRUE) \/ member_operation(j, FALSE)
             \/ activate_and_dispatch_member(j)
    BY <1>1, <2>1, <2>5, Zenon DEF member_operation, activate_and_dispatch_member, memberVars
  <2> QED
    BY <1>9, <2>2, <2>3, <2>4, <2>5, Zenon DEF OwnerMemberCall
<1>10. CASE PopPending \/ Block \/ DrainWaiter \/ dispatch_online \/ prepare_snapshot_pause
            \/ resume \/ capture_stable_paused_members \/ Closed \/ UNCHANGED vars
  BY <1>1, <1>10, Zenon DEF PopPending, Block, DrainWaiter, dispatch_online,
     prepare_snapshot_pause, resume, capture_stable_paused_members, OwnerCalls, Closed, vars,
     memberVars
<1> QED
  BY <1>3, <1>4, <1>5, <1>6, <1>7, <1>8, <1>9, <1>10
     DEF Next, OwnerGoesOn, OwnerStarts, receive_event

-----------------------------------------------------------------------------
(* Terminal results.                                                       *)

\* A drain for a control has met no terminal result so far.
Hides ==
    /\ BarrierHidesNoTerminal
    /\ kind = "Control" => \A c \in acks : ~IsTerminal(c.out)

\* No step lets a barrier hide a terminal result.
LEMMA NextHides == Hides /\ [Next]_vars => Hides'
<1> SUFFICES ASSUME Hides, [Next]_vars PROVE Hides'
  BY Zenon
<1>1. ASSUME UNCHANGED <<kind, acks, event>> PROVE Hides'
  BY <1>1, Zenon DEF Hides, BarrierHidesNoTerminal
<1>2. ASSUME UNCHANGED event, acks' = {} PROVE Hides'
  BY <1>2, Zenon DEF Hides, BarrierHidesNoTerminal
<1>3. ASSUME NEW w, NEW r, request(w, r), UNCHANGED event PROVE Hides'
  <2>1. UNCHANGED <<kind, acks>> \/ acks' = {}
    BY <1>3, Zenon DEF request, RequestCoalesces, RequestJoinsDrain, RequestWhileQuiet,
       RequestRejected, RequestFindsNoRun, RequestStartsDrain, StartDrain, EndDrain, drainVars
  <2> QED
    BY <1>1, <1>2, <1>3, <2>1
<1>4. CASE \E w \in Requester, r \in Reasons : Request(w, r)
  BY <1>3, <1>4, Zenon DEF Request, ownerVars
<1>5. CASE RequestPause \/ Shutdown
  BY <1>3, <1>5, Zenon DEF RequestPause, Shutdown
<1>6. CASE process_completion
  <2> DEFINE c == Head(chan)
  <2>1. \/ CompletionMismatch(c) \/ CompletionMember(c) \/ CompletionAbsorbed(c)
        \/ CompletionTerminal(c) \/ CompletionAcked(c) \/ CompletionFinishes(c)
        \/ CompletionUnexpected(c)
    BY <1>6, Zenon DEF process_completion
  <2> HIDE DEF c
  <2>2. CASE CompletionMismatch(c) \/ CompletionAbsorbed(c) \/ CompletionUnexpected(c)
    BY <1>1, <2>2, Zenon DEF CompletionMismatch, CompletionAbsorbed, CompletionUnexpected,
       drainVars
  <2>3. CASE CompletionMember(c)
    <3>1. UNCHANGED <<kind, acks>> /\ event'.kind = "Member"
      BY <2>3, Zenon DEF CompletionMember, Delivers, drainVars
    <3> QED
      BY <3>1, Zenon DEF Hides, BarrierHidesNoTerminal
  <2>4. CASE CompletionTerminal(c)
    <3>1. /\ kind' # "Control"
          /\ UNCHANGED event \/ event'.kind = "Terminal"
      BY <2>4 DEF CompletionTerminal, Delivers, StartDrain, EndDrain
    <3> QED
      BY <3>1, Zenon DEF Hides, BarrierHidesNoTerminal
  <2>5. CASE CompletionAcked(c)
    BY <2>5, Zenon DEF CompletionAcked, KindAfter, Hides, BarrierHidesNoTerminal
  <2>6. CASE CompletionFinishes(c)
    <3>1. /\ kind' = "None"
          /\ \/ UNCHANGED event \/ event'.kind = "Terminal"
             \/ KindAfter(c) = "Control" /\ event'.results = acks \cup {c}
      BY <2>6 DEF CompletionFinishes, Delivers, EndDrain
    <3> QED
      BY <3>1, Zenon DEF KindAfter, Hides, BarrierHidesNoTerminal
  <2> QED
    BY <2>1, <2>2, <2>3, <2>4, <2>5, <2>6
<1>7. CASE PopPending
  <2>1. UNCHANGED <<kind, acks>> /\ event'.results = {}
    BY <1>7, Zenon DEF PopPending, Delivers, drainVars
  <2> QED
    BY <2>1, Zenon DEF Hides, BarrierHidesNoTerminal
<1>8. CASE submit_indexes
  <2>1. UNCHANGED event /\ (UNCHANGED <<kind, acks>> \/ acks' = {})
    BY <1>8, Zenon DEF submit_indexes, SubmitSkips, SubmitNotRunning, SubmitAll,
       SubmitInvalid, SubmitRefused, StartDrain, EndDrain, drainVars
  <2> QED
    BY <1>1, <1>2, <2>1, Zenon
<1>9. CASE \E lost \in SUBSET Member : ShutdownTopology(lost)
  BY <1>2, <1>9, Zenon DEF ShutdownTopology, EndDrain
<1>10. CASE \E i \in Member : Runner(i)
  BY <1>1, <1>10, Zenon DEF Runner, EnterGuest, ExitCanceled, ExitNaturally, RunFails,
     TimerDue, WaitReturns, Completes, drainVars, ownerVars
<1>11. CASE \E i \in Member : OwnerMemberCall(i)
  BY <1>1, <1>11, Zenon DEF OwnerMemberCall, suspend_member, resume_suspended_member,
     member_operation, set_online, activate_and_dispatch_member, OwnerCalls, drainVars
<1>12. CASE Block \/ DrainWaiter \/ dispatch_online \/ prepare_snapshot_pause
            \/ resume \/ capture_stable_paused_members \/ Closed \/ UNCHANGED vars
  BY <1>1, <1>12, Zenon DEF Block, DrainWaiter, dispatch_online, prepare_snapshot_pause,
     resume, capture_stable_paused_members, OwnerCalls, Closed, vars, drainVars, ownerVars
<1> QED
  BY <1>4, <1>5, <1>6, <1>7, <1>8, <1>9, <1>10, <1>11, <1>12, Zenon DEF Next, OwnerGoesOn,
     OwnerStarts, receive_event

-----------------------------------------------------------------------------
(* The completion protocol.                                                *)

Waited == {"WaitCanceled", "TimerPending"}

\* A runner waits exactly for a suspended member, and a completion on its way is
\* of the member's dispatch.
Dispatched ==
    /\ \A i \in Member : run[i] \in Executing => (run[i] = "wait" <=> dispatch[i] = "Suspended")
    /\ \A k \in 1 .. Len(chan) :
          \/ chan[k].out = "Err"
          \/ chan[k].out \in Waited <=> dispatch[chan[k].index] = "Suspended"

\* The completion a runner sends is of its member's dispatch.
LEMMA CompletesDispatched ==
    ASSUME CoreInv, Dispatched, NEW i \in Member, NEW out \in Outcome, run[i] \in Executing,
           out = "Err" \/ (out \in Waited <=> run[i] = "wait"), Completes(i, out)
    PROVE  Dispatched'
<1> DEFINE c == [index |-> i, gen |-> token[i], out |-> out]
<1>1. /\ run' = [run EXCEPT ![i] = "idle"] /\ chan' = Append(chan, c)
      /\ UNCHANGED dispatch
  BY Zenon DEF Completes, memberVars
<1>2. c \in Result /\ c.index = i /\ c.out = out
  BY Zenon DEF Result, CoreInv, CoreType
<1> HIDE DEF c
<1>3. chan \in Seq(Result) /\ Len(chan) \in Nat
  BY LenProperties, Zenon DEF CoreInv, CoreType
<1>4. /\ Len(chan') = Len(chan) + 1 /\ chan'[Len(chan) + 1] = c
      /\ \A k \in 1 .. Len(chan) : chan'[k] = chan[k]
  BY <1>1, <1>2, <1>3, AppendProperties
<1>5. \A k \in 1 .. Len(chan') : k \in 1 .. Len(chan) \/ k = Len(chan) + 1
  BY <1>3, <1>4
<1>6. out = "Err" \/ (out \in Waited <=> dispatch[i] = "Suspended")
  BY Zenon DEF Dispatched
<1>7. \A k \in 1 .. Len(chan') :
          \/ chan'[k].out = "Err"
          \/ chan'[k].out \in Waited <=> dispatch'[chan'[k].index] = "Suspended"
  BY <1>1, <1>2, <1>4, <1>5, <1>6 DEF Dispatched
<1>8. \A j \in Member : run'[j] \in Executing => run'[j] = run[j]
  BY <1>1, Zenon DEF CoreInv, CoreType
<1> QED
  BY <1>1, <1>7, <1>8, Zenon DEF Dispatched

\* Only members without a run change their dispatch.
LEMMA RedispatchDispatched ==
    ASSUME CoreInv, Dispatched, NEW i \in Member, NEW d, active[i] = NoGen,
           dispatch \in [Member -> {"Runnable", "Suspended"}],
           dispatch' = [dispatch EXCEPT ![i] = d], UNCHANGED <<run, chan>>
    PROVE  Dispatched'
<1>1. run[i] \notin Executing
  BY Zenon DEF CoreInv, Runs
<1>2. \A k \in 1 .. Len(chan) : chan[k].index \in Member /\ chan[k].index # i
  BY ChannelType DEF CoreInv, CoreType, Chan
<1>3. \A j \in Member \ {i} : dispatch'[j] = dispatch[j]
  BY Zenon
<1> QED
  BY <1>1, <1>2, <1>3 DEF Dispatched

\* Every step keeps runners and completions in step with the dispatch.
LEMMA NextDispatched == CoreInv /\ BookType /\ Dispatched /\ [Next]_vars => Dispatched'
<1> SUFFICES ASSUME CoreInv, BookType, Dispatched, [Next]_vars PROVE Dispatched'
  BY Zenon
<1>1. ASSUME UNCHANGED <<dispatch, run, chan>> PROVE Dispatched'
  BY <1>1, Zenon DEF Dispatched
<1>2. CASE \E w \in Requester, r \in Reasons : Request(w, r)
  BY <1>1, <1>2, Zenon DEF Request, request
<1>3. CASE RequestPause \/ Shutdown
  BY <1>1, <1>3, Zenon DEF RequestPause, Shutdown, request
<1>4. ASSUME NEW i \in Member, Runner(i) PROVE Dispatched'
  <2>1. CASE EnterGuest(i)
    <3>1. /\ UNCHANGED <<dispatch, chan>> /\ run[i] = "queued"
          /\ run' = [run EXCEPT ![i] = "guest"]
      BY <2>1, Zenon DEF EnterGuest, memberVars
    <3> QED
      BY <3>1, Zenon DEF Dispatched, CoreInv, CoreType
  <2>2. CASE TimerDue(i)
    BY <1>1, <2>2, Zenon DEF TimerDue, memberVars
  <2>3. CASE ExitCanceled(i)
    BY <2>3, CompletesDispatched, Zenon DEF ExitCanceled, Outcome, Waited
  <2>4. CASE \E out \in Natural : ExitNaturally(i, out)
    <3>1. PICK out \in Natural : ExitNaturally(i, out)
      BY <2>4, Zenon
    <3>2. out \in Outcome /\ out \notin Waited
      BY InputAssumption, Zenon DEF Outcome, GuestOutcome, Psci, Waited
    <3> QED
      BY <3>1, <3>2, CompletesDispatched, Zenon DEF ExitNaturally
  <2>5. CASE RunFails(i)
    BY <2>5, CompletesDispatched, Zenon DEF RunFails, Outcome
  <2>6. CASE WaitReturns(i)
    BY <2>6, CompletesDispatched, Zenon DEF WaitReturns, Outcome, Waited
  <2> QED
    BY <1>4, <2>1, <2>2, <2>3, <2>4, <2>5, <2>6 DEF Runner
<1>5. CASE submit_indexes
  <2>1. ASSUME NEW S, Submits(S), UNCHANGED <<dispatch, chan>> PROVE Dispatched'
    <3>1. run' = RunOf(S)
      BY <2>1, Zenon DEF Submits
    <3> QED
      BY <2>1, <3>1, Zenon DEF RunOf, Dispatched, BookType
  <2>2. \/ UNCHANGED <<dispatch, run, chan>>
        \/ Submits(todo) /\ UNCHANGED <<dispatch, chan>>
        \/ \E k \in todo : Submits(Before(k)) /\ UNCHANGED <<dispatch, chan>>
    BY <1>5, Zenon DEF submit_indexes, SubmitSkips, SubmitNotRunning, SubmitAll,
       SubmitInvalid, SubmitRefused, memberVars, runnerVars
  <2> QED
    BY <1>1, <2>1, <2>2, Zenon
<1>6. CASE process_completion
  <2>1. /\ chan # <<>> /\ chan' = Tail(chan) /\ UNCHANGED <<dispatch, run>>
    BY <1>6, Zenon DEF process_completion, CompletionMismatch, CompletionMember,
       CompletionAbsorbed, CompletionTerminal, CompletionAcked, CompletionFinishes,
       CompletionUnexpected, Accepted, Takes
  <2>2. /\ Len(chan) \in Nat /\ Len(chan') = Len(chan) - 1
        /\ \A k \in 1 .. Len(chan) - 1 : chan'[k] = chan[k + 1]
    BY <2>1, ChannelHead, Zenon DEF CoreInv, CoreType
  <2>3. \A k \in 1 .. Len(chan') : k + 1 \in 1 .. Len(chan) /\ chan'[k] = chan[k + 1]
    BY <2>2
  <2> QED
    BY <2>1, <2>3 DEF Dispatched
<1>7. CASE \E lost \in SUBSET Member : ShutdownTopology(lost)
  <2>1. /\ UNCHANGED <<dispatch, chan>>
        /\ \A i \in Member : run'[i] = run[i] \/ run'[i] = "dead"
    BY <1>7, Zenon DEF ShutdownTopology, memberVars
  <2> QED
    BY <2>1, Zenon DEF Dispatched
<1>8. ASSUME NEW i \in Member, OwnerMemberCall(i) PROVE Dispatched'
  <2>1. UNCHANGED <<run, chan>>
    BY <1>8, Zenon DEF OwnerMemberCall, suspend_member, resume_suspended_member,
       member_operation, set_online, activate_and_dispatch_member, OwnerCalls, runnerVars
  <2>2. \/ UNCHANGED dispatch
        \/ active[i] = NoGen /\ \E d : dispatch' = [dispatch EXCEPT ![i] = d]
    BY <1>8, Zenon DEF OwnerMemberCall, suspend_member, resume_suspended_member,
       member_operation, set_online, activate_and_dispatch_member, memberVars, SuspendError,
       ResumeSuspendedError
  <2> QED
    BY <1>1, <2>1, <2>2, RedispatchDispatched, Zenon DEF BookType
<1>9. CASE PopPending \/ Block \/ DrainWaiter \/ dispatch_online \/ prepare_snapshot_pause
           \/ resume \/ capture_stable_paused_members \/ Closed \/ UNCHANGED vars
  BY <1>1, <1>9, Zenon DEF PopPending, Block, DrainWaiter, dispatch_online,
     prepare_snapshot_pause, resume, capture_stable_paused_members, OwnerCalls, Closed, vars,
     memberVars, runnerVars
<1> QED
  BY <1>2, <1>3, <1>4, <1>5, <1>6, <1>7, <1>8, <1>9, Zenon DEF Next, OwnerGoesOn, OwnerStarts,
     receive_event

\* Once the owner shuts down, the topology is stopped, failed or on its way there.
Halting ==
    \/ phase \in {"Stopped", "Failed", "ShutDown"}
    \/ phase = "Draining" /\ (kind = "Control" => reason \in Stopping)

Shutting == task = "shutdown" => Halting

\* A request leaves a halting topology halting, and a shutdown makes it so.
LEMMA RequestHalting ==
    ASSUME CoreInv, NEW w \in Waiter, NEW r \in Reason, request(w, r),
           Halting \/ r = "Shutdown"
    PROVE  Halting'
<1>1. CASE RequestCoalesces(w, r)
  <2>1. /\ Len(pending) = 1 /\ pending[1] \in Reason
        /\ phase' = phase_after_control(max(pending[1], r))
    BY <1>1, PendingOne, Zenon DEF RequestCoalesces, CoreInv, CoreType, Queued
  <2>2. pending[1] \in Stopping \/ r \in Stopping
    BY <1>1, Zenon DEF RequestCoalesces, CoreInv, Queued, Halting
  <2>3. max(pending[1], r) \in Reason /\ max(pending[1], r) \in Stopping
    BY <2>1, <2>2, MaxReason, Zenon
  <2>4. phase' = "Stopped"
    BY <2>1, <2>3, MaxReason, Zenon
  <2> QED
    BY <2>4, Zenon DEF Halting
<1>2. CASE RequestJoinsDrain(w, r)
  <2>1. reason \in Reason /\ reason' = max(reason, r)
    BY <1>2, Zenon DEF RequestJoinsDrain, CoreInv, CoreType
  <2>2. reason \in Stopping \/ r \in Stopping
    BY <1>2, Zenon DEF RequestJoinsDrain, Halting
  <2>3. reason' \in Stopping
    BY <2>1, <2>2, MaxReason, Zenon
  <2> QED
    BY <1>2, <2>3, Zenon DEF RequestJoinsDrain, Halting
<1>3. CASE RequestWhileQuiet(w, r)
  BY <1>3, Zenon DEF RequestWhileQuiet, Halting
<1>4. CASE RequestRejected(w, r)
  BY <1>4, Zenon DEF RequestRejected, Halting, drainVars
<1>5. CASE RequestFindsNoRun(w, r)
  BY <1>5, MaxReason, Zenon DEF RequestFindsNoRun, Halting
<1>6. CASE RequestStartsDrain(w, r)
  BY <1>6, Zenon DEF RequestStartsDrain, StartDrain, EndDrain, Halting
<1> QED
  BY <1>1, <1>2, <1>3, <1>4, <1>5, <1>6, Zenon DEF request

\* A completion and a submission leave a halting topology halting.
LEMMA CompletionHalting ==
    ASSUME CoreInv, Halting, process_completion \/ submit_indexes
    PROVE  Halting'
<1>1. phase # "Running"
  BY Zenon DEF Halting
<1>2. CASE submit_indexes
  BY <1>1, <1>2, Zenon DEF submit_indexes, SubmitSkips, SubmitNotRunning, SubmitAll,
     SubmitInvalid, SubmitRefused, Halting, drainVars
<1>3. CASE process_completion
  <2> DEFINE c == Head(chan)
  <2>1. \/ CompletionMismatch(c) \/ CompletionAcked(c) \/ CompletionFinishes(c)
        \/ CompletionUnexpected(c)
    BY <1>1, <1>3, Zenon DEF process_completion, CompletionMember, CompletionAbsorbed,
       CompletionTerminal
  <2> HIDE DEF c
  <2>2. CASE CompletionMismatch(c) \/ CompletionUnexpected(c)
    BY <2>2, Zenon DEF CompletionMismatch, CompletionUnexpected, Halting, drainVars
  <2>3. CASE CompletionAcked(c)
    BY <2>3, Zenon DEF CompletionAcked, KindAfter, Halting
  <2>4. CASE CompletionFinishes(c)
    <3>1. reason \in Reason /\ (reason \in Stopping => phase_after_control(reason) = "Stopped")
      BY MaxReason, Zenon DEF CoreInv, CoreType
    <3>2. /\ phase = "Draining"
          /\ \/ KindAfter(c) = "Control" /\ phase' = phase_after_control(reason)
             \/ phase' \in {"Stopped", "Failed"}
      BY <2>4, Zenon DEF CompletionFinishes, EndDrain
    <3> QED
      BY <3>1, <3>2, Zenon DEF KindAfter, Halting
  <2> QED
    BY <2>1, <2>2, <2>3, <2>4, Zenon
<1> QED
  BY <1>2, <1>3, Zenon

\* From the owner's shutdown on the topology only halts.
LEMMA NextShutting == CoreInv /\ Shutting /\ [Next]_vars => Shutting'
<1> SUFFICES ASSUME CoreInv, Shutting, [Next]_vars, task' = "shutdown" PROVE Halting'
  BY Zenon DEF Shutting
<1>1. CASE Shutdown
  BY <1>1, RequestHalting, Zenon DEF Shutdown, Waiter, Reason
<1>2. ASSUME task = "shutdown", UNCHANGED <<phase, kind, reason>> PROVE Halting'
  BY <1>2, Zenon DEF Shutting, Halting
<1>3. CASE \E w \in Requester, r \in Reasons : Request(w, r)
  BY <1>3, RequestHalting, InputAssumption, Zenon DEF Request, Waiter, ownerVars, Shutting
<1>4. CASE RequestPause
  BY <1>4, RequestHalting, Zenon DEF RequestPause, Waiter, Reason, Shutting
<1>5. CASE process_completion
  <2>1. task' = task
    BY <1>5, Zenon DEF process_completion, CompletionMismatch, CompletionMember,
       CompletionAbsorbed, CompletionTerminal, CompletionAcked, CompletionFinishes,
       CompletionUnexpected, Accepted, Takes
  <2> QED
    BY <1>5, <2>1, CompletionHalting, Zenon DEF Shutting
<1>6. CASE submit_indexes
  <2>1. task' = task
    BY <1>6, Zenon DEF submit_indexes, SubmitSkips, SubmitNotRunning, SubmitAll,
       SubmitInvalid, SubmitRefused
  <2> QED
    BY <1>6, <2>1, CompletionHalting, Zenon DEF Shutting
<1>7. CASE \E lost \in SUBSET Member : ShutdownTopology(lost)
  BY <1>7, Zenon DEF ShutdownTopology, EndDrain, Halting
<1>8. CASE \E i \in Member : Runner(i)
  BY <1>2, <1>8, Zenon DEF Runner, EnterGuest, ExitCanceled, ExitNaturally, RunFails,
     TimerDue, WaitReturns, Completes, drainVars, ownerVars
<1>9. CASE PopPending \/ Block \/ DrainWaiter \/ Closed \/ UNCHANGED vars
  BY <1>2, <1>9, Zenon DEF PopPending, Block, DrainWaiter, Closed, vars, drainVars, ownerVars
<1>10. CASE dispatch_online \/ prepare_snapshot_pause \/ resume
            \/ capture_stable_paused_members \/ \E i \in Member : OwnerMemberCall(i)
  BY <1>10, Zenon DEF dispatch_online, prepare_snapshot_pause, resume,
     capture_stable_paused_members, OwnerMemberCall, suspend_member, resume_suspended_member,
     member_operation, set_online, activate_and_dispatch_member, OwnerCalls
<1> QED
  BY <1>1, <1>3, <1>4, <1>5, <1>6, <1>7, <1>8, <1>9, <1>10
     DEF Next, OwnerGoesOn, OwnerStarts, receive_event

Over == {"Failed", "ShutDown"}

\* A failed or closed topology stays one.
LEMMA NextOver == [Next]_vars /\ phase \in Over => phase' \in Over
<1> SUFFICES ASSUME [Next]_vars, phase \in Over PROVE phase' \in Over
  BY Zenon
<1>1. ASSUME NEW w, NEW r, request(w, r) PROVE phase' = phase
  BY <1>1, Zenon DEF request, RequestCoalesces, RequestJoinsDrain, RequestWhileQuiet,
     RequestRejected, RequestFindsNoRun, RequestStartsDrain, Over
<1>2. CASE \E w \in Requester, r \in Reasons : Request(w, r)
  BY <1>1, <1>2, Zenon DEF Request
<1>3. CASE RequestPause \/ Shutdown
  BY <1>1, <1>3, Zenon DEF RequestPause, Shutdown
<1>4. CASE process_completion
  BY <1>4, Zenon DEF process_completion, CompletionMismatch, CompletionMember,
     CompletionAbsorbed, CompletionTerminal, CompletionAcked, CompletionFinishes,
     CompletionUnexpected, Over
<1>5. CASE submit_indexes
  BY <1>5, Zenon DEF submit_indexes, SubmitSkips, SubmitNotRunning, SubmitAll, SubmitInvalid,
     SubmitRefused, Over
<1>6. CASE \E lost \in SUBSET Member : ShutdownTopology(lost)
  BY <1>6, Zenon DEF ShutdownTopology, EndDrain, Over
<1>7. CASE \E i \in Member : Runner(i)
  BY <1>7, Zenon DEF Runner, EnterGuest, ExitCanceled, ExitNaturally, RunFails, TimerDue,
     WaitReturns, Completes
<1>8. CASE \E i \in Member : OwnerMemberCall(i)
  BY <1>8, Zenon DEF OwnerMemberCall, suspend_member, resume_suspended_member,
     member_operation, set_online, activate_and_dispatch_member
<1>9. CASE PopPending \/ Block \/ DrainWaiter \/ dispatch_online \/ prepare_snapshot_pause
           \/ resume \/ capture_stable_paused_members \/ Closed \/ UNCHANGED vars
  BY <1>9, Zenon DEF PopPending, Block, DrainWaiter, dispatch_online, prepare_snapshot_pause,
     resume, capture_stable_paused_members, Closed, vars, Over
<1> QED
  BY <1>2, <1>3, <1>4, <1>5, <1>6, <1>7, <1>8, <1>9, Zenon DEF Next, OwnerGoesOn, OwnerStarts,
     receive_event

Ordinary == Error \ {"DispatchMismatch", "UnexpectedDrain", "CompletionIdentity"}

\* process_completion reports no internal error in a topology that has not failed.
LEMMA CompletionErrors ==
    ASSUME CoreInv, Dispatched, Shutting, process_completion
    PROVE  \/ err' = err \/ err' \in Ordinary
           \/ err' = "CompletionIdentity" /\ phase \in Over
<1> DEFINE c == Head(chan)
<1>0. chan # <<>>
  BY Zenon DEF process_completion
<1>1. c \in Result /\ c.index \in Member /\ IdentityMatches(c)
      /\ active[c.index] # NoGen
      /\ \/ c.out = "Err"
         \/ c.out \in Waited <=> dispatch[c.index] = "Suspended"
  <2>1. 1 \in 1 .. Len(chan) /\ c = chan[1]
    BY <1>0, ChannelHead DEF CoreInv, CoreType
  <2>2. c \in Result /\ c.index \in Member
    BY <2>1, ChannelType, Zenon DEF CoreInv, CoreType
  <2>3. IdentityMatches(c) /\ active[c.index] # NoGen
    BY <2>1, <2>2, Zenon DEF CoreInv, Chan, IdentityMatches
  <2>4. c.out = "Err" \/ (c.out \in Waited <=> dispatch[c.index] = "Suspended")
    BY <2>1, Zenon DEF Dispatched
  <2> QED
    BY <2>2, <2>3, <2>4, Zenon
<1>2. \/ CompletionMismatch(c) \/ CompletionMember(c) \/ CompletionAbsorbed(c)
      \/ CompletionTerminal(c) \/ CompletionAcked(c) \/ CompletionFinishes(c)
      \/ CompletionUnexpected(c)
  BY Zenon DEF process_completion
<1> HIDE DEF c
<1>3. DispatchMatches(c)
  <2>1. CASE c.out = "Err"
    BY <2>1, Zenon DEF DispatchMatches
  <2>2. CASE c.out \in Waited <=> dispatch[c.index] = "Suspended"
    BY <2>2 DEF DispatchMatches, Waited
  <2> QED
    BY <1>1, <2>1, <2>2, Zenon
<1>4. ~CompletionMismatch(c)
  BY <1>1, <1>3, Zenon DEF CompletionMismatch
<1>5. ASSUME NEW e \in Ordinary, OwnerFails(e) PROVE err' = err \/ err' \in Ordinary
  BY <1>5, Zenon DEF OwnerFails
<1>6. CASE CompletionMember(c)
  <2>1. task # "shutdown"
    BY <1>6, Zenon DEF CompletionMember, Shutting, Halting
  <2> QED
    BY <1>6, <2>1, Zenon DEF CompletionMember, Delivers
<1>7. CASE CompletionAbsorbed(c) \/ CompletionAcked(c)
  BY <1>7, Zenon DEF CompletionAbsorbed, CompletionAcked
<1>8. CASE CompletionTerminal(c)
  <2>1. err' = err \/ OwnerFails("BatchCancel")
    BY <1>8, Zenon DEF CompletionTerminal, Delivers
  <2> QED
    BY <1>5, <2>1, Zenon DEF Ordinary, Error
<1>9. CASE CompletionFinishes(c)
  <2>1. err' = err \/ OwnerFails("Submission")
    BY <1>9, Zenon DEF CompletionFinishes, Delivers
  <2> QED
    BY <1>5, <2>1, Zenon DEF Ordinary, Error
<1>10. CASE CompletionUnexpected(c)
  <2>1. phase \notin {"Paused", "Stopped"}
    BY <1>1, Zenon DEF CoreInv, Quieted
  <2>2. phase = "Draining" => Tok(c) \in remaining
    BY <1>1, Zenon DEF CoreInv, Drained, active_tokens, Tok, IdentityMatches
  <2>3. phase \in Over /\ OwnerFails("CompletionIdentity")
    BY <1>10, <2>1, <2>2, Zenon DEF CompletionUnexpected, Over
  <2> QED
    BY <2>3, Zenon DEF OwnerFails
<1> QED
  BY <1>2, <1>4, <1>6, <1>7, <1>8, <1>9, <1>10

\* No step reports an internal error of the completion protocol, except that a
\* topology that failed reports a late completion.
LEMMA NextErrors ==
    CoreInv /\ OwnerType /\ Dispatched /\ Shutting /\ NoProtocolError /\ [Next]_vars
        => NoProtocolError'
<1> SUFFICES ASSUME CoreInv, OwnerType, Dispatched, Shutting, NoProtocolError, [Next]_vars
             PROVE  NoProtocolError'
  BY Zenon
<1>1. ASSUME \/ err' = err \/ err' \in Ordinary
             \/ err' = "CompletionIdentity" /\ phase \in Over
      PROVE  NoProtocolError'
  BY <1>1, NextOver, Zenon DEF NoProtocolError, Ordinary, Over
<1>2. CASE process_completion
  BY <1>1, <1>2, CompletionErrors, Zenon
<1>3. ASSUME NEW e \in Ordinary, OwnerFails(e) PROVE NoProtocolError'
  BY <1>1, <1>3, Zenon DEF OwnerFails
<1>4. CASE submit_indexes
  <2>1. \/ err' = err \/ OwnerFails("RunningPhaseRequired") \/ OwnerFails("Submission")
        \/ OwnerFails("ActiveMemberState") \/ OwnerFails("GenerationExhausted")
    BY <1>4, Zenon DEF submit_indexes, SubmitSkips, SubmitNotRunning, SubmitAll,
       SubmitInvalid, SubmitRefused
  <2> QED
    BY <1>1, <1>3, <2>1, Zenon DEF Ordinary, Error
<1>5. CASE \E lost \in SUBSET Member : ShutdownTopology(lost)
  BY <1>1, <1>5, Zenon DEF ShutdownTopology, Ordinary, Error
<1>6. CASE PopPending
  BY <1>1, <1>6, Zenon DEF PopPending, Delivers
<1>7. CASE dispatch_online \/ resume
  BY <1>1, <1>7, Zenon DEF dispatch_online, resume, Ordinary, Error
<1>8. CASE \E i \in Member : OwnerMemberCall(i)
  <2>1. err' = err \/ err' \in Ordinary
    BY <1>8 DEF OwnerMemberCall, suspend_member, resume_suspended_member, member_operation,
       set_online, activate_and_dispatch_member, Raised, Ordinary, Error, SuspendError,
       ResumeSuspendedError, OperationError, SetOnlineError
  <2> QED
    BY <1>1, <2>1, Zenon
<1>9. CASE (\E w \in Requester, r \in Reasons : Request(w, r)) \/ RequestPause \/ Shutdown
           \/ (\E i \in Member : Runner(i))
  <2>1. err' = err
    BY <1>9, Zenon DEF Request, RequestPause, Shutdown, Runner, EnterGuest, ExitCanceled,
       ExitNaturally, RunFails, TimerDue, WaitReturns, Completes, ownerVars
  <2> QED
    BY <1>1, <2>1, Zenon
<1>10. CASE Block \/ DrainWaiter \/ prepare_snapshot_pause \/ capture_stable_paused_members
            \/ Closed \/ UNCHANGED vars
  BY <1>1, <1>10, Zenon DEF Block, DrainWaiter, prepare_snapshot_pause,
     capture_stable_paused_members, Closed, vars, ownerVars
<1> QED
  BY <1>2, <1>4, <1>5, <1>6, <1>7, <1>8, <1>9, <1>10
     DEF Next, OwnerGoesOn, OwnerStarts, receive_event

-----------------------------------------------------------------------------
(* The theorems.                                                           *)

\* A requester's waiter is answered once, whichever of finish_drain, a failed
\* cancellation and shutdown_runner_topology comes first.
THEOREM AlwaysAnsweredOnce == Spec => AnsweredOnce
<1>1. Init => Waits
  BY Zenon DEF Init, Waits, Waiter
<1>2. CoreInv /\ Waits /\ [Next]_vars
        => /\ Waits'
           /\ \A w \in Requester : answer[w] \in {"Ok", "Err"} => answer'[w] = answer[w]
  BY NextAnswers, Zenon DEF KeepsAnswers
<1> QED
  BY <1>1, <1>2, CoreInvariant, PTL DEF Spec, AnsweredOnce

\* An offline member carries no run, no cancellation debt and no retained wait.
THEOREM OfflineAlwaysInert == Spec => []OfflineIsInert
<1>1. Init => OfflineIsInert
  <2> SUFFICES ASSUME Init, NEW i \in Member, ~online[i]
               PROVE  active[i] = NoGen /\ debt[i] = NoGen /\ dispatch[i] = "Runnable"
    BY Zenon DEF OfflineIsInert
  <2>1. i \in Member \ Online0
    BY Zenon DEF Init
  <2> QED
    BY <2>1, Zenon DEF Init
<1>2. CoreInv /\ BookType /\ OfflineIsInert /\ [Next]_vars => OfflineIsInert'
  BY NextInert, Zenon
<1> QED
  BY <1>1, <1>2, CoreInvariant, PTL DEF Spec

\* A barrier event never hides a member's terminal result (finish_drain).
THEOREM BarriersNeverHideTerminals == Spec => []BarrierHidesNoTerminal
<1>1. Init => Hides
  BY DEF Init, Hides, BarrierHidesNoTerminal, NoEvent
<1>2. Hides /\ [Next]_vars => Hides'
  BY NextHides, Zenon
<1>3. Hides => BarrierHidesNoTerminal
  BY Zenon DEF Hides
<1> QED
  BY <1>1, <1>2, <1>3, PTL DEF Spec

\* The internal errors of process_completion and drain_waiter cannot happen.
THEOREM NeverProtocolError == Spec => []NoProtocolError
<1>1. Init => Dispatched /\ Shutting /\ NoProtocolError
  <2> SUFFICES ASSUME Init PROVE Dispatched /\ Shutting /\ NoProtocolError
    BY Zenon
  <2>1. Len(chan) = 0
    BY EmptySeq, Zenon DEF Init
  <2> QED
    BY <2>1 DEF Init, Dispatched, Shutting, NoProtocolError
<1>2. CoreInv /\ BookType /\ OwnerType /\ Dispatched /\ Shutting /\ NoProtocolError
        /\ [Next]_vars => (Dispatched /\ Shutting /\ NoProtocolError)'
  BY NextDispatched, NextShutting, NextErrors, Zenon
<1> QED
  BY <1>1, <1>2, CoreInvariant, PTL DEF Spec

-----------------------------------------------------------------------------
(* The refinement mapping.                                                 *)

Why == CASE kind = "Control" -> reason
         [] kind = "None" -> "None"
         [] kind = "Submission" -> kind
         [] OTHER -> "Terminal"
Guest == {i \in Member : run[i] \notin {"idle", "dead"}}
Undelivered == IF pending = <<>> THEN "None" ELSE Head(pending)

\* The drain's kind says whether there is a drain, which the mapping needs.
DrainHasKind == kind = "None" <=> phase # "Draining"

\* The mapped initial state is an initial state of the topology.
LEMMA InitTopology == Init => Topology!TopologyInit /\ DrainHasKind
BY DEF Init, Topology!TopologyInit, ActiveMembers, DrainHasKind

\* A step that changes nothing of the mapping is a stutter of the topology.
LEMMA StutterTopology ==
    ASSUME UNCHANGED <<phase, kind, reason, pending, active>>, Guest' = Guest
    PROVE  UNCHANGED Topology!topologyVars
BY Zenon DEF Topology!topologyVars, ActiveMembers, Guest

\* The coordinator's order of control reasons is the topology's.
LEMMA ReasonsTopology ==
    ASSUME NEW a \in Reason, NEW b \in Reason
    PROVE  /\ Topology!Stronger(a, b) = max(a, b)
           /\ Topology!Settled(a) = phase_after_control(a)
BY Zenon DEF Topology!Stronger, Topology!Rank, Topology!Control, Topology!Settled, max,
   priority, phase_after_control, Reason

-----------------------------------------------------------------------------
(* Requests and runners.                                                   *)

\* A control request is one of the topology, accepted or refused in the same way.
LEMMA RequestTopology ==
    ASSUME CoreInv, DrainHasKind, NEW w \in Waiter, NEW r \in Reason, request(w, r)
    PROVE  Topology!RequestControl(r) /\ DrainHasKind'
<1>0. /\ UNCHANGED ActiveMembers
      /\ UNCHANGED {i \in Member : run[i] \notin {"idle", "dead"}}
  BY Zenon DEF request, ActiveMembers
<1>1. CASE RequestCoalesces(w, r)
  <2>1. /\ Len(pending) = 1 /\ pending[1] \in Reason /\ Head(pending) = pending[1]
        /\ pending # <<>>
    BY <1>1, PendingOne, Zenon DEF RequestCoalesces, CoreInv, CoreType, Queued
  <2>2. /\ pending' # <<>> /\ Head(pending') = max(Head(pending), r)
        /\ phase' = phase_after_control(max(Head(pending), r))
    <3>1. max(pending[1], r) \in Reason
      BY <2>1, MaxReason, Zenon
    <3>2. /\ pending' \in Seq(Reason) /\ Len(pending') = 1
          /\ pending'[1] = max(pending[1], r)
      BY <1>1, <2>1, <3>1, ExceptSeq DEF RequestCoalesces, CoreInv, CoreType
    <3>3. pending' # <<>> /\ Head(pending') = pending'[1]
      BY <3>2, EmptySeq, HeadTailProperties
    <3> QED
      BY <1>1, <2>1, <3>2, <3>3, Zenon DEF RequestCoalesces
  <2>3. Head(pending) \in Reason /\ max(Head(pending), r) \in Reason
    BY <2>1, MaxReason
  <2>4. /\ Topology!Stronger(Head(pending), r) = max(Head(pending), r)
        /\ Topology!Settled(max(Head(pending), r)) = phase_after_control(max(Head(pending), r))
    BY <2>3, ReasonsTopology, Zenon
  <2>5. phase' \in {"Running", "Paused", "Stopped"}
    BY <2>2, <2>3, MaxReason, Zenon
  <2>6. kind' = "None" /\ kind = "None" /\ phase \in {"Running", "Paused", "Stopped"}
    BY <1>1, Zenon DEF RequestCoalesces, drainVars, DrainHasKind
  <2>7. Topology!RequestQueues(r)
    BY <2>1, <2>2, <2>3, <2>4, <2>6, Zenon DEF Topology!RequestQueues, Topology!Settles,
       Reason
  <2> QED
    BY <1>0, <2>5, <2>6, <2>7, Zenon DEF Topology!RequestControl, DrainHasKind
<1>2. CASE RequestJoinsDrain(w, r)
  <2>1. Topology!Stronger(reason, r) = max(reason, r)
    BY ReasonsTopology, Zenon DEF CoreInv, CoreType
  <2>2. Topology!RequestJoins(r)
    BY <1>2, <2>1, Zenon DEF RequestJoinsDrain, Topology!RequestJoins, Topology!Control,
       CoreInv, CoreType, Reason
  <2> QED
    BY <1>0, <1>2, <2>2, Zenon DEF RequestJoinsDrain, Topology!RequestControl, DrainHasKind
<1>3. CASE RequestWhileQuiet(w, r)
  <2>1. kind = "None" /\ kind' = "None"
    BY <1>3, Zenon DEF RequestWhileQuiet, drainVars, DrainHasKind
  <2>2. Topology!RequestQuiet(r)
    BY <1>3, <2>1, Zenon DEF RequestWhileQuiet, Topology!RequestQuiet, Topology!Settles
  <2> QED
    BY <1>0, <1>3, <2>1, <2>2, Zenon DEF RequestWhileQuiet, Topology!RequestControl,
       DrainHasKind
<1>4. CASE RequestRejected(w, r)
  <2>1. UNCHANGED <<phase, kind, reason, pending>>
    BY <1>4, Zenon DEF RequestRejected, drainVars
  <2>2. Topology!Refuses(r)
    BY <1>4, Zenon DEF RequestRejected, Topology!Refuses, Topology!Control, DrainHasKind
  <2> QED
    BY <1>0, <2>1, <2>2, Zenon DEF Topology!RequestControl, DrainHasKind
<1>5. CASE RequestFindsNoRun(w, r)
  <2>1. ActiveMembers = {}
    BY <1>5, Zenon DEF RequestFindsNoRun, ActiveMembers, active_tokens
  <2>2. pending' # <<>> /\ Head(pending') = r
    <3>1. pending' \in Seq(Reason) /\ Len(pending') = 1 /\ pending'[1] = r
      BY <1>5, AppendProperties, EmptySeq DEF RequestFindsNoRun
    <3> QED
      BY <3>1, EmptySeq, HeadTailProperties
  <2>3. kind = "None" /\ kind' = "None" /\ phase' = phase_after_control(r)
        /\ phase = "Running" /\ pending = <<>>
    BY <1>5, Zenon DEF RequestFindsNoRun, drainVars, DrainHasKind
  <2>4. phase' = Topology!Settled(r) /\ phase' # "Draining"
    BY <2>3, ReasonsTopology, MaxReason, Zenon
  <2>5. Topology!RequestQueues(r)
    BY <2>1, <2>2, <2>3, <2>4, Zenon DEF Topology!RequestQueues, Topology!Settles
  <2> QED
    BY <1>0, <2>3, <2>4, <2>5, Zenon DEF Topology!RequestControl, DrainHasKind
<1>6. CASE RequestStartsDrain(w, r)
  <2>1. ActiveMembers # {}
    BY <1>6, Zenon DEF RequestStartsDrain, ActiveMembers, active_tokens
  <2>2. /\ phase = "Running" /\ pending = <<>> /\ pending' = pending
        /\ \/ phase' = "Draining" /\ kind' = "Control" /\ reason' = r
           \/ phase' = "Failed" /\ kind' = "None"
    BY <1>6, Zenon DEF RequestStartsDrain, StartDrain, EndDrain
  <2>3. Topology!RequestDrains(r)
    BY <2>1, <2>2, Zenon DEF Topology!RequestDrains, Topology!Quiescing, Topology!Settles
  <2> QED
    BY <1>0, <2>2, <2>3, Zenon DEF Topology!RequestControl, DrainHasKind
<1> QED
  BY <1>1, <1>2, <1>3, <1>4, <1>5, <1>6, Zenon DEF request

\* A runner thread that returns leaves the guest; its other steps do not show.
LEMMA RunnerTopology ==
    ASSUME CoreInv, DrainHasKind, NEW i \in Member, Runner(i)
    PROVE  (Topology!Leave(i) \/ UNCHANGED Topology!topologyVars) /\ DrainHasKind'
<1>0. /\ UNCHANGED <<phase, kind, reason, pending, active>>
      /\ UNCHANGED ActiveMembers
  BY Zenon DEF Runner, EnterGuest, ExitCanceled, ExitNaturally, RunFails, TimerDue,
     WaitReturns, Completes, drainVars, memberVars, ActiveMembers
<1>1. CASE EnterGuest(i) \/ TimerDue(i)
  <2>1. Guest' = Guest
    BY <1>1, Zenon DEF EnterGuest, TimerDue, Guest, CoreInv, CoreType
  <2> QED
    BY <1>0, <2>1, StutterTopology, Zenon DEF DrainHasKind
<1>2. CASE run[i] \in Executing /\ run' = [run EXCEPT ![i] = "idle"]
  <2>1. i \in Guest /\ Guest' = Guest \ {i}
    BY <1>2, Zenon DEF Guest, CoreInv, CoreType
  <2> QED
    BY <1>0, <2>1, Zenon DEF Guest, Topology!Leave, DrainHasKind
<1> QED
  BY <1>1, <1>2, Zenon DEF Runner, ExitCanceled, ExitNaturally, RunFails, WaitReturns,
     Completes

-----------------------------------------------------------------------------
(* Submission.                                                             *)

\* Submitting S admits exactly the members of S.
LEMMA SubmitsTopology ==
    ASSUME CoreInv, NEW S \in SUBSET Member, Submits(S), \A i \in S : active[i] = NoGen
    PROVE  /\ ActiveMembers' = ActiveMembers \cup S /\ S \cap ActiveMembers = {}
           /\ Guest' = Guest \cup S
<1>1. \A i \in Member : nextGen[i] # NoGen
  BY Zenon DEF CoreInv, CoreType
<1>2. ActiveMembers' = ActiveMembers \cup S /\ S \cap ActiveMembers = {}
  BY <1>1, Zenon DEF Submits, ActiveOf, ActiveMembers
<1>3. Guest' = Guest \cup S
  BY Zenon DEF Submits, RunOf, Guest
<1> QED
  BY <1>2, <1>3, Zenon

\* submit_indexes admits members into a running topology, or fails it.
LEMMA SubmitTopology ==
    ASSUME CoreInv, OwnerType, DrainHasKind, submit_indexes
    PROVE  /\ \/ \E S \in SUBSET Member : Topology!Admit(S) \/ Topology!AdmitRefused(S)
              \/ UNCHANGED Topology!topologyVars
           /\ DrainHasKind'
<1>1. CASE SubmitSkips \/ SubmitNotRunning
  <2>1. UNCHANGED <<phase, kind, reason, pending, active, run>>
    BY <1>1, Zenon DEF SubmitSkips, SubmitNotRunning, drainVars, memberVars, runnerVars
  <2> QED
    BY <2>1, StutterTopology, Zenon DEF Guest, DrainHasKind
<1>2. ASSUME NEW S \in SUBSET Member, \A i \in S : Ready(i), Submits(S),
             phase = "Running", pending = <<>>, UNCHANGED <<phase, kind, reason, pending>>
      PROVE  Topology!Admit(S) /\ DrainHasKind'
  <2>1. \A i \in S : active[i] = NoGen
    BY <1>2, Zenon DEF Ready, Submittable
  <2>2. /\ ActiveMembers' = ActiveMembers \cup S /\ S \cap ActiveMembers = {}
        /\ Guest' = Guest \cup S
    BY <1>2, <2>1, SubmitsTopology, Zenon
  <2> QED
    BY <1>2, <2>2, Zenon DEF Topology!Admit, Guest, DrainHasKind
<1>3. ASSUME NEW S \in SUBSET Member, S = todo, SubmitAll
      PROVE  Topology!Admit(S) /\ DrainHasKind'
  <2>1. /\ \A i \in S : Ready(i)
        /\ Submits(S) /\ phase = "Running" /\ pending = <<>>
        /\ UNCHANGED <<phase, kind, reason, pending>>
    BY <1>3, Zenon DEF SubmitAll, Submits, drainVars
  <2> QED
    BY <1>2, <2>1, Zenon
<1>4. ASSUME NEW k \in todo
      PROVE  Before(k) \in SUBSET Member
  BY Zenon DEF Before, OwnerType
<1>5. ASSUME NEW k \in todo, NEW S \in SUBSET Member, S = Before(k), SubmitInvalid(k)
      PROVE  Topology!Admit(S) /\ DrainHasKind'
  <2>1. /\ \A i \in S : Ready(i)
        /\ Submits(S) /\ phase = "Running" /\ pending = <<>>
        /\ UNCHANGED <<phase, kind, reason, pending>>
    BY <1>5, Zenon DEF SubmitInvalid, Submits, drainVars
  <2> QED
    BY <1>2, <2>1, Zenon
<1>6. ASSUME NEW k \in todo, NEW S \in SUBSET Member, S = Before(k), SubmitRefused(k)
      PROVE  Topology!AdmitRefused(S) /\ DrainHasKind'
  <2>1. /\ phase = "Running" /\ pending = <<>> /\ pending' = pending
        /\ Submits(S) /\ \A i \in S : active[i] = NoGen
        /\ \/ /\ {i \in Member : ActiveOf(S)[i] # NoGen} # {}
              /\ phase' = "Draining" /\ kind' = "Submission"
           \/ phase' = "Failed" /\ kind' = "None"
    BY <1>6, Zenon DEF SubmitRefused, Submits, Ready, Submittable, StartDrain, EndDrain
  <2>2. /\ ActiveMembers' = ActiveMembers \cup S /\ S \cap ActiveMembers = {}
        /\ Guest' = Guest \cup S
    BY <2>1, SubmitsTopology, Zenon
  <2>3. ActiveMembers' = {i \in Member : ActiveOf(S)[i] # NoGen}
    BY <2>1, Zenon DEF Submits, ActiveMembers
  <2> QED
    BY <2>1, <2>2, <2>3, Zenon DEF Topology!AdmitRefused, Topology!Quiescing,
       Topology!Settles, Guest, DrainHasKind
<1> QED
  <2>1. CASE SubmitSkips \/ SubmitNotRunning
    BY <1>1, <2>1, Zenon
  <2>2. CASE SubmitAll
    <3>1. PICK S \in SUBSET Member : S = todo
      BY Zenon DEF OwnerType
    <3> QED
      BY <1>3, <2>2, <3>1, Zenon
  <2>3. CASE \E k \in todo : SubmitInvalid(k) \/ SubmitRefused(k)
    <3>1. PICK k \in todo : SubmitInvalid(k) \/ SubmitRefused(k)
      BY <2>3, Zenon
    <3>2. PICK S \in SUBSET Member : S = Before(k)
      BY <1>4, Zenon
    <3> QED
      BY <1>5, <1>6, <3>1, <3>2, Zenon
  <2> QED
    BY <2>1, <2>2, <2>3, Zenon DEF submit_indexes

-----------------------------------------------------------------------------
(* Completions.                                                            *)

\* An accepted completion is the one of a run that has left the guest; it takes
\* its member out of the active ones.
LEMMA AcceptedTopology ==
    ASSUME CoreInv, chan # <<>>, Accepted(Head(chan))
    PROVE  /\ Head(chan).index \in Member
           /\ Head(chan).index \in ActiveMembers \ Guest
           /\ ActiveMembers' = ActiveMembers \ {Head(chan).index}
           /\ Guest' = Guest /\ pending' = pending
           /\ phase \notin {"Paused", "Stopped"}
<1> DEFINE c == Head(chan)
<1>1. /\ c.index \in Member /\ active[c.index] = c.gen /\ c.gen # NoGen
      /\ run[c.index] \in Resting
  <2>1. 1 \in 1 .. Len(chan) /\ c = chan[1]
    BY ChannelHead DEF CoreInv, CoreType
  <2> QED
    BY <2>1, ChannelType, Zenon DEF Chan, CoreInv, CoreType
<1>2. active' = [active EXCEPT ![c.index] = NoGen] /\ UNCHANGED <<pending, run>>
  BY Zenon DEF Accepted, Takes
<1> HIDE DEF c
<1>3. c.index \in ActiveMembers \ Guest
  BY <1>1, Zenon DEF ActiveMembers, Guest
<1>4. ActiveMembers' = ActiveMembers \ {c.index}
  BY <1>1, <1>2, Zenon DEF ActiveMembers, CoreInv, CoreType
<1>5. Guest' = Guest
  BY <1>2, Zenon DEF Guest
<1>6. phase \notin {"Paused", "Stopped"}
  BY <1>1, Zenon DEF CoreInv, Quieted
<1> QED
  BY <1>1, <1>2, <1>3, <1>4, <1>5, <1>6 DEF c

\* The runs a drain still waits for after a completion are the active ones.
LEMMA RemainingTopology ==
    ASSUME CoreInv, phase = "Draining", chan # <<>>, Accepted(Head(chan))
    PROVE  /\ Tok(Head(chan)) \in remaining
           /\ remaining = {Tok(Head(chan))} <=> ActiveMembers \ {Head(chan).index} = {}
<1> DEFINE c == Head(chan)
<1>1. /\ c.index \in Member /\ active[c.index] = c.gen /\ c.gen # NoGen
  <2>1. 1 \in 1 .. Len(chan) /\ c = chan[1]
    BY ChannelHead DEF CoreInv, CoreType
  <2> QED
    BY <2>1, ChannelType, Zenon DEF Chan, CoreInv, CoreType
<1> HIDE DEF c
<1>2. remaining = {<<i, active[i]>> : i \in ActiveMembers} /\ c.index \in ActiveMembers
  BY <1>1, Zenon DEF CoreInv, Drained, active_tokens, ActiveMembers
<1>3. Tok(c) = <<c.index, active[c.index]>>
  BY <1>1, Zenon DEF Tok
<1>4. Tok(c) \in remaining
  BY <1>2, <1>3, Zenon
<1>5. ASSUME ActiveMembers \ {c.index} = {} PROVE remaining = {Tok(c)}
  <2>1. ActiveMembers = {c.index}
    BY <1>2, <1>5, Zenon
  <2> QED
    BY <1>2, <1>3, <2>1, Zenon
<1>6. ASSUME NEW i \in ActiveMembers \ {c.index} PROVE remaining # {Tok(c)}
  <2>1. <<i, active[i]>> \in remaining /\ <<i, active[i]>> # Tok(c)
    BY <1>2, <1>3, <1>6
  <2> QED
    BY <2>1, Zenon
<1> QED
  BY <1>4, <1>5, <1>6, Zenon DEF c

\* The result of a finished run is collected; a terminal one ends the topology.
LEMMA CompletionTopology ==
    ASSUME CoreInv, DrainHasKind, process_completion
    PROVE  /\ \/ \E i \in Member : Topology!Collect(i, TRUE) \/ Topology!Collect(i, FALSE)
              \/ UNCHANGED Topology!topologyVars
           /\ DrainHasKind'
<1> DEFINE c == Head(chan)
<1>0. chan # <<>>
  BY Zenon DEF process_completion
<1>1. CASE CompletionMismatch(c)
  <2>1. UNCHANGED <<phase, kind, reason, pending, active, run>>
    BY <1>1, Zenon DEF CompletionMismatch, Takes, drainVars
  <2> QED
    BY <2>1, StutterTopology, Zenon DEF Guest, DrainHasKind
<1>2. SUFFICES ASSUME Accepted(c),
                      \/ CompletionMember(c) \/ CompletionAbsorbed(c) \/ CompletionTerminal(c)
                      \/ CompletionAcked(c) \/ CompletionFinishes(c)
                      \/ CompletionUnexpected(c)
               PROVE  /\ \E i \in Member : Topology!Collect(i, TRUE) \/ Topology!Collect(i, FALSE)
                      /\ DrainHasKind'
  BY <1>1, Zenon DEF process_completion, CompletionMember, CompletionAbsorbed,
     CompletionTerminal, CompletionAcked, CompletionFinishes, CompletionUnexpected
<1>3. PICK i \in Member :
         /\ i = c.index
         /\ i \in ActiveMembers \ Guest /\ ActiveMembers' = ActiveMembers \ {i}
         /\ Guest' = Guest /\ pending' = pending /\ phase \notin {"Paused", "Stopped"}
  BY <1>0, <1>2, AcceptedTopology, Zenon
<1>4. phase = "Draining" =>
         /\ Tok(c) \in remaining
         /\ remaining = {Tok(c)} <=> ActiveMembers' = {}
  BY <1>0, <1>2, <1>3, RemainingTopology
<1>5. kind \in DrainKind /\ reason \in Reason
  BY Zenon DEF CoreInv, CoreType
<1> HIDE DEF c
<1>6. CASE CompletionMember(c) \/ CompletionAbsorbed(c)
  <2>1. phase = "Running" /\ UNCHANGED <<phase, kind, reason>>
    BY <1>6, Zenon DEF CompletionMember, CompletionAbsorbed, drainVars
  <2>2. Topology!Collect(i, FALSE)
    BY <1>3, <2>1, Zenon DEF Topology!Collect, Guest
  <2> QED
    BY <2>1, <2>2, Zenon DEF DrainHasKind
<1>7. CASE CompletionTerminal(c)
  <2>1. /\ phase = "Running"
        /\ \/ ActiveMembers' = {} /\ phase' = "Stopped" /\ kind' = "None"
           \/ /\ ActiveMembers' # {}
              /\ \/ phase' = "Draining" /\ kind' = "Terminal"
                 \/ phase' = "Failed" /\ kind' = "None"
    BY <1>3, <1>7, Zenon DEF CompletionTerminal, StartDrain, EndDrain
  <2>2. Topology!Collect(i, TRUE)
    BY <1>3, <2>1, Zenon DEF Topology!Collect, Topology!Settles, Topology!Quiescing, Guest
  <2> QED
    BY <2>1, <2>2, Zenon DEF DrainHasKind
<1>8. CASE CompletionAcked(c)
  <2>1. /\ phase = "Draining" /\ UNCHANGED <<phase, reason>> /\ ActiveMembers' # {}
        /\ kind' = KindAfter(c) /\ kind # "None"
    BY <1>4, <1>8, Zenon DEF CompletionAcked, DrainHasKind
  <2>2. CASE IsTerminal(c.out)
    <3>1. Topology!Collect(i, TRUE)
      BY <1>3, <1>5, <2>1, <2>2, Zenon DEF Topology!Collect, Topology!Control, KindAfter,
         Guest, DrainKind, Reason
    <3> QED
      BY <2>1, <3>1, Zenon DEF DrainHasKind, KindAfter
  <2>3. CASE ~IsTerminal(c.out)
    <3>1. Topology!Collect(i, FALSE)
      BY <1>3, <2>1, <2>3 DEF Topology!Collect, KindAfter, Guest
    <3> QED
      BY <2>1, <3>1, Zenon DEF DrainHasKind, KindAfter
  <2> QED
    BY <2>2, <2>3, Zenon
<1>9. CASE CompletionFinishes(c)
  <2>1. /\ phase = "Draining" /\ ActiveMembers' = {} /\ kind' = "None" /\ kind # "None"
        /\ \/ KindAfter(c) = "Control" /\ phase' = phase_after_control(reason)
           \/ KindAfter(c) \in {"Terminal", "Superseded"} /\ phase' = "Stopped"
           \/ KindAfter(c) = "Submission" /\ phase' = "Failed"
    BY <1>4, <1>9, Zenon DEF CompletionFinishes, DrainHasKind, EndDrain
  <2>2. /\ phase_after_control(reason) = Topology!Settled(reason)
        /\ phase_after_control(reason) # "Draining"
    BY <1>5, ReasonsTopology, MaxReason, Zenon
  <2>3. /\ Topology!Settled("Terminal") = "Stopped"
        /\ Topology!Settled("Submission") = "Failed"
    BY Zenon DEF Topology!Settled
  <2>4. CASE IsTerminal(c.out)
    <3>1. Topology!Collect(i, TRUE)
      BY <1>3, <1>5, <2>1, <2>2, <2>3, <2>4 DEF Topology!Collect, Topology!Control,
         Topology!Settles, KindAfter, Guest, DrainKind, Reason
    <3> QED
      BY <2>1, <2>2, <3>1, Zenon DEF DrainHasKind
  <2>5. CASE ~IsTerminal(c.out)
    <3>1. Topology!Collect(i, FALSE)
      BY <1>3, <1>5, <2>1, <2>2, <2>3, <2>5 DEF Topology!Collect, Topology!Settles,
         KindAfter, Guest, DrainKind
    <3> QED
      BY <2>1, <2>2, <3>1, Zenon DEF DrainHasKind
  <2> QED
    BY <2>4, <2>5, Zenon
<1>10. CASE CompletionUnexpected(c)
  <2>1. phase \in {"Failed", "ShutDown"} /\ UNCHANGED <<phase, kind, reason>>
    BY <1>3, <1>4, <1>10, Zenon DEF CompletionUnexpected, drainVars
  <2>2. Topology!Collect(i, FALSE)
    BY <1>3, <2>1, Zenon DEF Topology!Collect, Guest
  <2> QED
    BY <2>1, <2>2, Zenon DEF DrainHasKind
<1> QED
  BY <1>2, <1>6, <1>7, <1>8, <1>9, <1>10, Zenon

-----------------------------------------------------------------------------
(* The owner's other steps, and the theorem.                               *)

\* Consuming the queued barrier delivers it.
LEMMA PopTopology ==
    ASSUME CoreInv, DrainHasKind, pending # <<>>, pending' = Tail(pending),
           UNCHANGED <<phase, kind, reason, active, run>>
    PROVE  Topology!Deliver /\ DrainHasKind'
<1>1. Head(pending) \in Reason /\ pending' = <<>>
  BY PendingOne, Zenon DEF CoreInv, CoreType, Queued
<1>2. Head(pending) # "None"
  BY <1>1, Zenon DEF Reason
<1>3. UNCHANGED ActiveMembers /\ Guest' = Guest
  BY Zenon DEF ActiveMembers, Guest
<1> QED
  BY <1>1, <1>2, <1>3, Zenon DEF Topology!Deliver, Guest, DrainHasKind

\* Joining the runner threads closes the topology, or fails it with the lost ones.
LEMMA CloseTopology ==
    ASSUME CoreInv, NEW lost \in SUBSET Member, ShutdownTopology(lost)
    PROVE  Topology!Close(lost) /\ DrainHasKind'
<1>1. /\ phase' = IF lost = {} THEN "ShutDown" ELSE "Failed"
      /\ kind' = "None" /\ UNCHANGED <<pending, active>>
      /\ run' = [i \in Member |-> IF i \in lost THEN run[i] ELSE "dead"]
  BY Zenon DEF ShutdownTopology, EndDrain, memberVars
<1>2. Guest' = Guest \cap lost
  BY <1>1, Zenon DEF Guest
<1>3. UNCHANGED ActiveMembers
  BY <1>1, Zenon DEF ActiveMembers
<1> QED
  BY <1>1, <1>2, <1>3, Zenon DEF Topology!Close, Topology!Settles, Guest, DrainHasKind

\* Every step of the coordinator maps to a step of the topology or a stutter.
LEMMA NextTopology ==
    CoreInv /\ OwnerType /\ DrainHasKind /\ [Next]_vars
        => [Topology!TopologyNext]_(Topology!topologyVars) /\ DrainHasKind'
<1> SUFFICES ASSUME CoreInv, OwnerType, DrainHasKind, [Next]_vars
             PROVE  /\ Topology!TopologyNext \/ UNCHANGED Topology!topologyVars
                    /\ DrainHasKind'
  BY Zenon
<1> DEFINE Goal == /\ Topology!TopologyNext \/ UNCHANGED Topology!topologyVars
                   /\ DrainHasKind'
<1>0. ASSUME UNCHANGED <<phase, kind, reason, pending, active, run>> PROVE Goal
  BY <1>0, StutterTopology, Zenon DEF Guest, DrainHasKind
<1>1. ASSUME NEW w \in Waiter, NEW r \in Reason, request(w, r) PROVE Goal
  <2>1. r \in Topology!Control
    BY Zenon DEF Reason, Topology!Control
  <2> QED
    BY <1>1, <2>1, RequestTopology, Zenon DEF Topology!TopologyNext
<1>2. CASE \E w \in Requester, r \in Reasons : Request(w, r)
  BY <1>1, <1>2, InputAssumption, Zenon DEF Request, Waiter
<1>3. CASE RequestPause \/ Shutdown
  BY <1>1, <1>3, Zenon DEF RequestPause, Shutdown, Waiter, Reason
<1>4. CASE \E i \in Member : Runner(i)
  BY <1>4, RunnerTopology, Zenon DEF Topology!TopologyNext
<1>5. CASE submit_indexes
  BY <1>5, SubmitTopology, Zenon DEF Topology!TopologyNext
<1>6. CASE process_completion
  BY <1>6, CompletionTopology, Zenon DEF Topology!TopologyNext
<1>7. ASSUME pending # <<>>, pending' = Tail(pending),
             UNCHANGED <<phase, kind, reason, active, run>>
      PROVE  Goal
  BY <1>7, PopTopology, Zenon DEF Topology!TopologyNext
<1>8. CASE PopPending
  BY <1>7, <1>8, Zenon DEF PopPending, drainVars, memberVars, runnerVars
<1>9. CASE prepare_snapshot_pause
  <2>1. /\ UNCHANGED <<phase, kind, reason, active, run>>
        /\ UNCHANGED pending \/ (pending # <<>> /\ pending' = Tail(pending))
    BY <1>9, Zenon DEF prepare_snapshot_pause, drainVars, memberVars, runnerVars
  <2> QED
    BY <1>0, <1>7, <2>1, Zenon
<1>10. CASE capture_stable_paused_members
  <2>1. UNCHANGED <<phase, kind, reason, active, run>> /\ pending' = <<>>
    BY <1>10, Zenon DEF capture_stable_paused_members, OwnerCalls, drainVars
  <2>2. pending # <<>> => pending' = Tail(pending)
    BY <2>1, PendingOne, Zenon DEF CoreInv, CoreType, Queued
  <2> QED
    BY <1>0, <1>7, <2>1, <2>2
<1>11. CASE resume
  <2>1. UNCHANGED <<kind, reason, pending, active, run>>
    BY <1>11, Zenon DEF resume, OwnerCalls, drainVars
  <2>2. CASE phase = "Paused"
    <3>1. phase' = "Running"
      BY <1>11, <2>2, Zenon DEF resume
    <3>2. UNCHANGED ActiveMembers /\ Guest' = Guest
      BY <2>1, Zenon DEF ActiveMembers, Guest
    <3>3. Topology!Resume
      BY <2>1, <2>2, <3>1, <3>2 DEF Topology!Resume, Guest
    <3> QED
      BY <2>1, <2>2, <3>1, <3>3 DEF Topology!TopologyNext, DrainHasKind
  <2>3. CASE phase # "Paused"
    BY <1>0, <1>11, <2>1, <2>3 DEF resume
  <2> QED
    BY <2>2, <2>3, Zenon
<1>12. CASE \E lost \in SUBSET Member : ShutdownTopology(lost)
  BY <1>12, CloseTopology, Zenon DEF Topology!TopologyNext
<1>13. CASE Block \/ DrainWaiter \/ dispatch_online \/ Closed \/ UNCHANGED vars
  BY <1>0, <1>13, Zenon DEF Block, DrainWaiter, dispatch_online, Closed, vars, drainVars,
     memberVars, runnerVars
<1>14. CASE \E i \in Member : OwnerMemberCall(i)
  BY <1>0, <1>14, Zenon DEF OwnerMemberCall, suspend_member, resume_suspended_member,
     member_operation, set_online, activate_and_dispatch_member, OwnerCalls, drainVars,
     memberVars, runnerVars
<1> QED
  BY <1>2, <1>3, <1>4, <1>5, <1>6, <1>8, <1>9, <1>10, <1>11, <1>12, <1>13, <1>14
     DEF Next, OwnerGoesOn, OwnerStarts, receive_event

\* The coordinator implements the abstract topology BootRunLoop is built on, for
\* any number of members and every interleaving of requests, runs and collection.
THEOREM CoordinatorImplementsTopology == Spec => ImplementsTopology
<1>1. Init => Topology!TopologyInit /\ DrainHasKind
  BY InitTopology, Zenon
<1>2. CoreInv /\ OwnerType /\ DrainHasKind /\ [Next]_vars
        => [Topology!TopologyNext]_(Topology!topologyVars) /\ DrainHasKind'
  BY NextTopology, Zenon
<1> QED
  BY <1>1, <1>2, CoreInvariant, PTL DEF Spec, ImplementsTopology, Topology!TopologySpec

=============================================================================
