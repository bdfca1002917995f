---------------------- MODULE RunCoordinatorCoreProofs ----------------------
(***************************************************************************)
(* The inductive invariant of RunCoordinator, and the steps of requesters, *)
(* runner threads, submission and completion that keep it.                 *)
(*                                                                         *)
(* The inductive invariant CoreInv relates the coordinator's books (phase, *)
(* drain, active generations), the runner threads and the completion       *)
(* channel.  The safety properties of the model follow from it.            *)
(***************************************************************************)
EXTENDS RunCoordinator, SequenceTheorems, TLAPS

Stopping == {"Stop", "Shutdown"}
Resting == {"idle", "dead"}
Executing == {"queued", "guest", "wait"}

CoreType ==
    /\ phase \in Phase /\ kind \in DrainKind /\ reason \in Reason
    /\ remaining \subseteq Token /\ waiters \subseteq Waiter
    /\ pending \in Seq(Reason)
    /\ active \in [Member -> Generation]
    /\ nextGen \in [Member -> Generation \ {NoGen}]
    /\ run \in [Member -> Resting \cup Executing]
    /\ token \in [Member -> Generation]
    /\ chan \in Seq(Result)
    /\ answer \in [Waiter -> {"None", "Waiting", "Ok", "Err"}]
    /\ asked \in [Waiter -> Reason \cup {"None"}]
    /\ snap \in [Waiter -> SUBSET Token]

\* A drain waits for exactly the active runs, of which there are some.
Drained == phase = "Draining" => remaining = active_tokens /\ remaining # {}

\* At most one barrier is queued, only without active runs; in a stopped
\* topology it is a stop barrier, so nothing can coalesce it back to running.
Queued ==
    /\ Len(pending) <= 1
    /\ pending # <<>> => \A i \in Member : active[i] = NoGen
    /\ pending # <<>> /\ phase = "Stopped" => pending[1] \in Stopping

Quieted == phase \in {"Paused", "Stopped"} => \A i \in Member : active[i] = NoGen

\* A runner executes only the run the coordinator holds active, and every
\* generation in use is older than the next one.
Runs ==
    \A i \in Member :
        /\ run[i] \in Executing => token[i] = active[i] /\ active[i] # NoGen
        /\ active[i] < nextGen[i] /\ token[i] < nextGen[i]

\* A completion in the channel is the one of its member's active run, whose
\* runner has finished; no member has two.
Chan ==
    /\ \A k \in 1 .. Len(chan) :
          /\ active[chan[k].index] = chan[k].gen /\ chan[k].gen # NoGen
          /\ run[chan[k].index] \in Resting
    /\ \A j, k \in 1 .. Len(chan) : j # k => chan[j].index # chan[k].index

\* An acknowledged stop is final, and a drain joined by a stop becomes one.
Stops ==
    /\ \A w \in Waiter : answer[w] = "Ok" /\ asked[w] \in Stopping =>
          phase \in {"Stopped", "Failed", "ShutDown"}
    /\ phase = "Draining" /\ kind = "Control" =>
          \A w \in waiters : asked[w] \in Stopping => reason \in Stopping

\* The runs of a waiter's snapshot are never run again, and are over once the
\* waiter is answered Ok.
Snaps ==
    \A w \in Waiter : \A t \in snap[w] :
        /\ t[2] # NoGen /\ t[2] < nextGen[t[1]]
        /\ answer[w] = "Ok" => /\ active[t[1]] # t[2]
                               /\ token[t[1]] = t[2] => run[t[1]] \in Resting

CoreInv == CoreType /\ Drained /\ Queued /\ Quieted /\ Runs /\ Chan /\ Stops /\ Snaps

-----------------------------------------------------------------------------
USE DEF Member, Generation, NoGen, Resting, Executing, Stopping

(* Facts about tokens and sequences.                                       *)

Tokens(a) == {<<i, a[i]>> : i \in {j \in Member : a[j] # NoGen}}

\* active_tokens is Tokens applied to the active generations.
LEMMA ActiveTokens == active_tokens = Tokens(active)
BY Zenon DEF active_tokens, Tokens

\* No token is left exactly if no member is active.
LEMMA TokensEmpty ==
    ASSUME NEW a \in [Member -> Generation]
    PROVE  Tokens(a) = {} <=> \A i \in Member : a[i] = NoGen
BY Zenon DEF Tokens

\* Retiring one member's run removes its token and no other.
LEMMA TokensRetire ==
    ASSUME NEW a \in [Member -> Generation], NEW i \in Member, a[i] # NoGen
    PROVE  Tokens([a EXCEPT ![i] = NoGen]) = Tokens(a) \ {<<i, a[i]>>}
BY DEF Tokens

\* Tokens name a member and a generation that is not None.
LEMMA TokensType ==
    ASSUME NEW a \in [Member -> Generation]
    PROVE  /\ Tokens(a) \subseteq Token
           /\ \A t \in Tokens(a) : t[1] \in Member /\ t[2] = a[t[1]] /\ t[2] # NoGen
BY DEF Tokens, Token

\* The channel and its first element: what Head and Tail leave.
LEMMA ChannelHead ==
    ASSUME chan \in Seq(Result), chan # <<>>
    PROVE  /\ Len(chan) \in Nat /\ Len(chan) >= 1 /\ Head(chan) = chan[1]
           /\ chan[1] \in Result
           /\ Tail(chan) \in Seq(Result) /\ Len(Tail(chan)) = Len(chan) - 1
           /\ \A k \in 1 .. Len(chan) - 1 : Tail(chan)[k] = chan[k + 1]
BY HeadTailProperties, LenProperties, ElementOfSeq

\* What the channel carries.
LEMMA ChannelType ==
    ASSUME chan \in Seq(Result)
    PROVE  \A k \in 1 .. Len(chan) :
              chan[k] \in Result /\ chan[k].index \in Member /\ chan[k].gen \in Generation
<1>1. \A k \in 1 .. Len(chan) : chan[k] \in Result
  BY ElementOfSeq
<1>2. \A c \in Result : c.index \in Member /\ c.gen \in Generation
  BY Zenon DEF Result
<1> QED
  BY <1>1, <1>2

\* A queue of at most one barrier: what is in it, and what a pop leaves.
LEMMA PendingOne ==
    ASSUME pending \in Seq(Reason), Len(pending) <= 1, pending # <<>>
    PROVE  /\ Len(pending) = 1 /\ pending[1] \in Reason
           /\ Head(pending) = pending[1] /\ Tail(pending) = <<>>
<1>1. Len(pending) \in Nat /\ Len(pending) # 0
  BY EmptySeq, LenProperties
<1>2. Len(pending) = 1
  <2>1. ASSUME NEW n \in Nat, n # 0, n <= 1 PROVE n = 1
    BY <2>1
  <2> QED
    BY <1>1, <2>1, Zenon
<1>3. pending[1] \in Reason
  BY <1>2, ElementOfSeq
<1>4. Tail(pending) \in Seq(Reason) /\ Len(Tail(pending)) = 0 /\ Head(pending) = pending[1]
  BY <1>2, HeadTailProperties
<1> QED
  BY <1>2, <1>3, <1>4, EmptySeq, Zenon

\* The initial states satisfy the invariant.
LEMMA InitCore == Init => CoreInv
<1> SUFFICES ASSUME Init PROVE CoreInv
  OBVIOUS
<1>1. CoreType
  BY SizeAssumption DEF Init, CoreType, Phase, DrainKind, Reason
<1>2. Drained /\ Queued /\ Quieted /\ Runs /\ Chan /\ Stops /\ Snaps
  BY SizeAssumption DEF Init, Drained, Queued, Quieted, Runs, Chan, Stops, Snaps, Reason
<1> QED
  BY <1>1, <1>2, Zenon DEF CoreInv

-----------------------------------------------------------------------------
(* Control requests.                                                       *)

\* A stop wins against every weaker reason when controls are merged.
LEMMA MaxReason ==
    ASSUME NEW a \in Reason, NEW b \in Reason
    PROVE  /\ max(a, b) \in Reason
           /\ a \in Stopping \/ b \in Stopping => max(a, b) \in Stopping
           /\ phase_after_control(a) \in {"Running", "Paused", "Stopped"}
           /\ phase_after_control(a) = "Stopped" <=> a \in Stopping
BY DEF max, priority, Reason, phase_after_control

(* Every branch of HvfVcpuRunControl::request keeps the core invariant,  *)
(* whatever phase the asking thread finds the coordinator in.             *)
LEMMA RequestCore ==
    ASSUME CoreInv, NEW w \in Waiter, NEW r \in Reason, request(w, r)
    PROVE  CoreInv'
<1> USE DEF CoreInv, CoreType
<1>0. /\ UNCHANGED <<active, nextGen, run, token, chan>>
      /\ active_tokens' = active_tokens /\ active_tokens = Tokens(active)
  BY ActiveTokens, Zenon DEF request, active_tokens
<1>1. Runs' /\ Chan'
  BY <1>0, Zenon DEF Runs, Chan
<1>2. CASE RequestCoalesces(w, r)
  <2> DEFINE m == max(pending[Len(pending)], r)
  <2>1. /\ Len(pending) = 1 /\ pending[1] \in Reason
        /\ pending' \in Seq(Reason) /\ Len(pending') = 1 /\ pending'[1] = m
        /\ m \in Reason /\ phase' = phase_after_control(m)
    <3>1. Len(pending) = 1 /\ pending[1] \in Reason
      BY <1>2, PendingOne, Zenon DEF RequestCoalesces, Queued
    <3>2. m \in Reason
      BY <3>1, MaxReason
    <3> QED
      BY <1>2, <3>1, <3>2, ExceptSeq DEF RequestCoalesces
  <2>2. /\ phase' \in {"Running", "Paused", "Stopped"}
        /\ phase' = "Stopped" <=> m \in Stopping
        /\ phase = "Stopped" \/ r \in Stopping => phase' = "Stopped"
    <3>1. /\ pending[1] \in Stopping \/ r \in Stopping => m \in Stopping
          /\ phase_after_control(m) \in {"Running", "Paused", "Stopped"}
          /\ phase_after_control(m) = "Stopped" <=> m \in Stopping
      BY <2>1, MaxReason, Zenon
    <3>2. phase = "Stopped" => pending[1] \in Stopping
      BY <1>2, Zenon DEF RequestCoalesces, Queued
    <3> HIDE DEF m
    <3> QED
      BY <2>1, <3>1, <3>2
  <2>3. CoreType' /\ Drained' /\ Queued' /\ Quieted'
    BY <1>0, <1>2, <2>1, <2>2, Zenon DEF RequestCoalesces, Asks, Drained, Queued, Quieted,
       Phase, drainVars
  <2>4. Stops' /\ Snaps'
    BY <1>0, <1>2, <2>1, <2>2 DEF RequestCoalesces, Asks, Stops, Snaps, drainVars
  <2> QED
    BY <1>1, <2>3, <2>4
<1>3. CASE RequestJoinsDrain(w, r)
  <2>1. reason' \in Reason /\ (reason \in Stopping \/ r \in Stopping => reason' \in Stopping)
    BY <1>3, MaxReason, Zenon DEF RequestJoinsDrain
  <2>2. CoreType' /\ Drained' /\ Queued' /\ Quieted'
    BY <1>0, <1>3, <2>1, Zenon DEF RequestJoinsDrain, Asks, Drained, Queued, Quieted
  <2>3. Stops'
    BY <1>0, <1>3, <2>1, Zenon DEF RequestJoinsDrain, Asks, Stops
  <2>4. Snaps'
    <3>1. \A t \in remaining : t[1] \in Member /\ t[2] = active[t[1]] /\ t[2] # NoGen
      BY <1>0, <1>3, TokensType, ZenonT(30) DEF RequestJoinsDrain, Drained
    <3> QED
      BY <1>0, <1>3, <3>1 DEF RequestJoinsDrain, Asks, Snaps, Runs
  <2> QED
    BY <1>1, <2>2, <2>3, <2>4
<1>4. CASE RequestWhileQuiet(w, r)
  <2>1. CoreType' /\ Drained' /\ Queued' /\ Quieted'
    BY <1>0, <1>4, Zenon DEF RequestWhileQuiet, Asks, Drained, Queued, Quieted, Phase,
       drainVars
  <2>2. Stops' /\ Snaps'
    BY <1>0, <1>4 DEF RequestWhileQuiet, Asks, Stops, Snaps, drainVars
  <2> QED
    BY <1>1, <2>1, <2>2
<1>5. CASE RequestRejected(w, r)
  <2>1. CoreType' /\ Drained' /\ Queued' /\ Quieted'
    BY <1>0, <1>5, Zenon DEF RequestRejected, Asks, Drained, Queued, Quieted, drainVars
  <2>2. Stops' /\ Snaps'
    BY <1>0, <1>5 DEF RequestRejected, Asks, Stops, Snaps, drainVars
  <2> QED
    BY <1>1, <2>1, <2>2
<1>6. CASE RequestFindsNoRun(w, r)
  <2>1. /\ phase' \in {"Running", "Paused", "Stopped"}
        /\ phase' = "Stopped" <=> r \in Stopping
    BY <1>6, MaxReason, Zenon DEF RequestFindsNoRun
  <2>2. \A i \in Member : active[i] = NoGen
    BY <1>0, <1>6, TokensEmpty, Zenon DEF RequestFindsNoRun
  <2>3. pending' \in Seq(Reason) /\ Len(pending') = 1 /\ pending'[1] = r
    BY <1>6, AppendProperties, EmptySeq DEF RequestFindsNoRun
  <2>4. CoreType' /\ Drained' /\ Queued' /\ Quieted'
    BY <1>0, <1>6, <2>1, <2>2, <2>3 DEF RequestFindsNoRun, Asks, Drained, Queued,
       Quieted, Phase, drainVars
  <2>5. Stops' /\ Snaps'
    BY <1>0, <1>6, <2>1 DEF RequestFindsNoRun, Asks, Stops, Snaps, drainVars
  <2> QED
    BY <1>1, <2>4, <2>5
<1>7. CASE RequestStartsDrain(w, r)
  <2>1. /\ active_tokens \subseteq Token
        /\ \A t \in active_tokens : t[1] \in Member /\ t[2] = active[t[1]] /\ t[2] # NoGen
    BY <1>0, TokensType, Zenon
  <2>2. CoreType' /\ Drained' /\ Queued' /\ Quieted'
    <3>0. /\ phase' \in Phase /\ kind' \in DrainKind /\ reason' \in Reason
          /\ remaining' \subseteq Token /\ waiters' \subseteq Waiter
      BY <1>7, <2>1, Zenon DEF RequestStartsDrain, StartDrain, EndDrain, Phase, DrainKind,
         Reason
    <3>1. CoreType'
      BY <1>0, <1>7, <2>1, <3>0 DEF RequestStartsDrain, Asks
    <3>2. Drained' /\ Queued' /\ Quieted'
      BY <1>0, <1>7, Zenon DEF RequestStartsDrain, StartDrain, EndDrain, Drained, Queued,
         Quieted
    <3> QED
      BY <3>1, <3>2
  <2>3. Stops'
    BY <1>0, <1>7 DEF RequestStartsDrain, StartDrain, EndDrain, Asks, Stops
  <2>4. Snaps'
    BY <1>0, <1>7, <2>1 DEF RequestStartsDrain, Asks, Snaps, Runs
  <2> QED
    BY <1>1, <2>2, <2>3, <2>4
<1> QED
  BY <1>2, <1>3, <1>4, <1>5, <1>6, <1>7, Zenon DEF request

-----------------------------------------------------------------------------
(* Runner threads.                                                         *)

coreVars == <<phase, kind, reason, remaining, waiters, pending, active, nextGen,
              run, token, chan, answer, asked, snap>>

\* A step that leaves the coordinator's books, the runs and the channel alone
\* keeps the invariant.
LEMMA FrameCore ==
    ASSUME CoreInv, UNCHANGED coreVars
    PROVE  CoreInv'
<1>1. active_tokens' = active_tokens
  BY Zenon DEF coreVars, active_tokens
<1>2. CoreType' /\ Drained' /\ Queued' /\ Quieted'
  BY <1>1, Zenon DEF CoreInv, coreVars, CoreType, Drained, Queued, Quieted
<1>3. Runs' /\ Chan' /\ Stops' /\ Snaps'
  BY DEF CoreInv, coreVars, Runs, Chan, Stops, Snaps
<1> QED
  BY <1>2, <1>3, Zenon DEF CoreInv

\* A runner thread sends the completion of the run it executed: it is the first
\* completion of its member in the channel and names the active generation.
LEMMA CompletesCore ==
    ASSUME CoreInv, NEW i \in Member, NEW out \in Outcome, run[i] \in Executing,
           Completes(i, out)
    PROVE  CoreInv'
<1> DEFINE c == [index |-> i, gen |-> token[i], out |-> out]
<1> USE DEF CoreInv, CoreType
<1>0. /\ UNCHANGED <<phase, kind, reason, remaining, waiters, pending, active, nextGen,
                     token, answer, asked, snap>>
      /\ active_tokens' = active_tokens
      /\ run' = [run EXCEPT ![i] = "idle"] /\ chan' = Append(chan, c)
  BY Zenon DEF Completes, drainVars, memberVars, requestVars, active_tokens
<1>1. c \in Result /\ c.index = i /\ c.gen = active[i] /\ c.gen # NoGen
  BY Zenon DEF Result, Runs
<1> HIDE DEF c
<1>2. /\ chan' \in Seq(Result) /\ Len(chan) \in Nat /\ Len(chan') = Len(chan) + 1
      /\ \A k \in 1 .. Len(chan) : chan'[k] = chan[k]
      /\ chan'[Len(chan) + 1] = c
  BY <1>0, <1>1, AppendProperties, LenProperties
<1>3. \A k \in 1 .. Len(chan) : chan[k] \in Result /\ chan[k].index \in Member
  BY ChannelType
<1>4. CoreType' /\ Drained' /\ Queued' /\ Quieted' /\ Runs' /\ Stops' /\ Snaps'
  <2>1. CoreType' /\ Drained' /\ Queued' /\ Quieted'
    BY <1>0, <1>2, Zenon DEF Drained, Queued, Quieted
  <2>2. Runs' /\ Stops'
    BY <1>0, Zenon DEF Runs, Stops
  <2>3. Snaps'
    BY <1>0 DEF Snaps, Token
  <2> QED
    BY <2>1, <2>2, <2>3
<1>5. \A k \in 1 .. Len(chan) : chan[k].index # i /\ run'[chan[k].index] \in Resting
  BY <1>0, <1>3, Zenon DEF Chan
<1>6. Chan'
  <2>1. ASSUME NEW k \in 1 .. Len(chan')
        PROVE  /\ active'[chan'[k].index] = chan'[k].gen /\ chan'[k].gen # NoGen
               /\ run'[chan'[k].index] \in Resting
    <3>1. CASE k \in 1 .. Len(chan)
      BY <3>1, <1>0, <1>2, <1>5 DEF Chan
    <3>2. CASE k = Len(chan) + 1
      BY <3>2, <1>0, <1>1, <1>2
    <3> QED
      BY <1>2, <3>1, <3>2
  <2>2. ASSUME NEW j \in 1 .. Len(chan'), NEW k \in 1 .. Len(chan'), j # k
        PROVE  chan'[j].index # chan'[k].index
    <3>1. CASE j \in 1 .. Len(chan) /\ k \in 1 .. Len(chan)
      BY <3>1, <2>2, <1>2 DEF Chan
    <3>2. CASE j = Len(chan) + 1 /\ k \in 1 .. Len(chan)
      BY <3>2, <1>1, <1>2, <1>5, Zenon
    <3>3. CASE k = Len(chan) + 1 /\ j \in 1 .. Len(chan)
      BY <3>3, <1>1, <1>2, <1>5
    <3> QED
      BY <2>2, <1>2, <3>1, <3>2, <3>3
  <2> QED
    BY <2>1, <2>2, Zenon DEF Chan
<1> QED
  BY <1>4, <1>6

\* Every step of a runner thread or of HVF keeps the invariant.
LEMMA RunnerCore ==
    ASSUME CoreInv, NEW i \in Member, Runner(i)
    PROVE  CoreInv'
<1>1. CASE EnterGuest(i)
  <2> USE DEF CoreInv, CoreType
  <2>1. /\ UNCHANGED <<phase, kind, reason, remaining, waiters, pending, active, nextGen,
                       token, chan, answer, asked, snap>>
        /\ active_tokens' = active_tokens /\ run[i] = "queued"
        /\ run' = [run EXCEPT ![i] = "guest"]
    BY <1>1, Zenon DEF EnterGuest, drainVars, memberVars, requestVars, active_tokens
  <2>2. CoreType' /\ Drained' /\ Queued' /\ Quieted' /\ Runs' /\ Stops'
    <3>1. CoreType' /\ Drained' /\ Queued' /\ Quieted'
      BY <2>1, Zenon DEF Drained, Queued, Quieted
    <3>2. Runs' /\ Stops'
      BY <2>1, Zenon DEF Runs, Stops
    <3> QED
      BY <3>1, <3>2
  <2>3. \A k \in 1 .. Len(chan) : chan[k].index \in Member /\ chan[k].index # i
    BY <2>1, ChannelType, Zenon DEF Chan
  <2>4. Chan'
    BY <2>1, <2>3 DEF Chan
  <2>5. Snaps'
    BY <2>1 DEF Snaps, Token
  <2> QED
    BY <2>2, <2>4, <2>5
<1>2. CASE TimerDue(i)
  BY <1>2, FrameCore, Zenon DEF TimerDue, coreVars, drainVars, memberVars, requestVars
<1>3. CASE ExitCanceled(i)
  BY <1>3, CompletesCore, Zenon DEF ExitCanceled, Outcome
<1>4. CASE \E out \in Natural : ExitNaturally(i, out)
  BY <1>4, CompletesCore, InputAssumption, Zenon DEF ExitNaturally, Outcome
<1>5. CASE RunFails(i)
  BY <1>5, CompletesCore, Zenon DEF RunFails, Outcome
<1>6. CASE WaitReturns(i)
  BY <1>6, CompletesCore, Zenon DEF WaitReturns, Outcome
<1> QED
  BY <1>1, <1>2, <1>3, <1>4, <1>5, <1>6 DEF Runner

-----------------------------------------------------------------------------
(* Submission.                                                             *)

\* Handing new runs to idle members: each gets a generation no snapshot, runner
\* or completion knows of.
LEMMA SubmitsCore ==
    ASSUME CoreInv, NEW S, \A i \in S : active[i] = NoGen /\ nextGen[i] < MaxGeneration,
           Submits(S), UNCHANGED <<chan, answer, snap>>
    PROVE  /\ active' \in [Member -> Generation]
           /\ nextGen' \in [Member -> Generation \ {NoGen}]
           /\ run' \in [Member -> Resting \cup Executing]
           /\ token' \in [Member -> Generation]
           /\ Runs' /\ Chan' /\ Snaps'
<1> USE DEF CoreInv, CoreType
<1>1. /\ active' = ActiveOf(S) /\ run' = RunOf(S)
      /\ active' \in [Member -> Generation] /\ token' \in [Member -> Generation]
      /\ nextGen' \in [Member -> Generation \ {NoGen}]
      /\ run' \in [Member -> Resting \cup Executing]
  <2>1. active' = ActiveOf(S) /\ run' = RunOf(S)
    BY Zenon DEF Submits
  <2>2. \A i \in Member : i \in S => nextGen[i] \in Generation /\ nextGen[i] + 1 \in Generation \ {NoGen}
    BY SizeAssumption
  <2>3. active' \in [Member -> Generation]
    BY <2>1, <2>2, Zenon DEF ActiveOf
  <2>4. token' \in [Member -> Generation] /\ nextGen' \in [Member -> Generation \ {NoGen}]
    BY <2>2, Zenon DEF Submits
  <2>5. run' \in [Member -> Resting \cup Executing]
    BY <2>1, Zenon DEF RunOf
  <2> QED
    BY <2>1, <2>3, <2>4, <2>5
<1>2. \A i \in Member \ S : /\ active'[i] = active[i] /\ nextGen'[i] = nextGen[i]
                            /\ token'[i] = token[i] /\ run'[i] = run[i]
  BY Zenon DEF Submits, ActiveOf, RunOf
<1>3. \A i \in Member \cap S :
          /\ active'[i] = nextGen[i] /\ token'[i] = nextGen[i]
          /\ nextGen'[i] = nextGen[i] + 1 /\ run'[i] \in Executing
  BY Zenon DEF Submits, ActiveOf, RunOf
<1>4. Runs'
  BY <1>1, <1>2, <1>3 DEF Runs
<1>5. Chan'
  <2>1. \A k \in 1 .. Len(chan) : chan[k].index \in Member \ S
    BY ChannelType, Zenon DEF Chan
  <2> QED
    BY <1>2, <2>1 DEF Chan
<1>6. Snaps'
  <2> SUFFICES ASSUME NEW w \in Waiter, NEW t \in snap[w]
               PROVE  /\ t[2] # NoGen /\ t[2] < nextGen'[t[1]]
                      /\ answer[w] = "Ok" => /\ active'[t[1]] # t[2]
                                             /\ token'[t[1]] = t[2] => run'[t[1]] \in Resting
    BY Zenon DEF Snaps
  <2>1. t[1] \in Member /\ t[2] \in Nat /\ t[2] # NoGen /\ t[2] < nextGen[t[1]]
    BY DEF Snaps, Token
  <2>2. CASE t[1] \in S
    BY <1>3, <2>1, <2>2
  <2>3. CASE t[1] \notin S
    BY <1>2, <2>1, <2>3 DEF Snaps
  <2> QED
    BY <2>2, <2>3
<1> QED
  BY <1>1, <1>4, <1>5, <1>6

\* submit_indexes keeps the invariant on every path: a barrier or a control was
\* first, all members admitted, a member invalid, a runner refusing.
LEMMA SubmitCore ==
    ASSUME CoreInv, submit_indexes
    PROVE  CoreInv'
<1>1. CASE SubmitSkips \/ SubmitNotRunning
  BY <1>1, FrameCore, Zenon DEF SubmitSkips, SubmitNotRunning, coreVars, drainVars,
     memberVars, runnerVars, requestVars
<1> USE DEF CoreInv, CoreType
<1>2. ASSUME NEW S, \A i \in S : Ready(i), Submits(S), phase = "Running", pending = <<>>,
             UNCHANGED <<phase, drainVars, pending, chan, requestVars>>
      PROVE  CoreInv'
  <2>1. \A i \in S : active[i] = NoGen /\ nextGen[i] < MaxGeneration
    BY <1>2, Zenon DEF Ready, Submittable
  <2>2. /\ active' \in [Member -> Generation]
        /\ nextGen' \in [Member -> Generation \ {NoGen}]
        /\ run' \in [Member -> Resting \cup Executing]
        /\ token' \in [Member -> Generation]
        /\ Runs' /\ Chan' /\ Snaps'
    BY <1>2, <2>1, SubmitsCore, Zenon DEF requestVars
  <2>3. CoreType'
    BY <1>2, <2>2, Zenon DEF drainVars, requestVars
  <2>4. Drained' /\ Queued' /\ Quieted' /\ Stops'
    BY <1>2, Zenon DEF Drained, Queued, Quieted, Stops, drainVars, requestVars
  <2> QED
    BY <2>2, <2>3, <2>4
<1>3. CASE SubmitAll
  BY <1>2, <1>3, Zenon DEF SubmitAll
<1>4. ASSUME NEW k \in todo, SubmitInvalid(k) PROVE CoreInv'
  BY <1>2, <1>4, Zenon DEF SubmitInvalid
<1>5. ASSUME NEW k \in todo, SubmitRefused(k) PROVE CoreInv'
  <2> DEFINE S == Before(k)
             live == {i \in Member : ActiveOf(S)[i] # NoGen}
             toks == {<<i, ActiveOf(S)[i]>> : i \in {j \in Member : ActiveOf(S)[j] # NoGen}}
  <2>1. /\ phase = "Running" /\ pending = <<>> /\ Submits(S)
        /\ \A i \in S : active[i] = NoGen /\ nextGen[i] < MaxGeneration
        /\ UNCHANGED <<pending, chan, requestVars>>
        /\ \/ StartDrain("Submission", "Wakeup", toks, {}, {}) /\ live # {}
           \/ EndDrain("Failed")
    BY <1>5, Zenon DEF SubmitRefused, Ready, Submittable
  <2>2. /\ active' \in [Member -> Generation]
        /\ nextGen' \in [Member -> Generation \ {NoGen}]
        /\ run' \in [Member -> Resting \cup Executing]
        /\ token' \in [Member -> Generation]
        /\ Runs' /\ Chan' /\ Snaps'
    BY <2>1, SubmitsCore, Zenon DEF requestVars
  <2>3. toks = active_tokens' /\ toks = Tokens(active') /\ toks \subseteq Token
        /\ (live # {} => toks # {})
    <3>1. active' = ActiveOf(S)
      BY <2>1, Zenon DEF Submits
    <3>2. toks = Tokens(active') /\ toks = active_tokens'
      BY <3>1, Zenon DEF Tokens, active_tokens
    <3>3. toks \subseteq Token
      BY <2>2, <3>2, TokensType, Zenon
    <3>4. ASSUME live # {} PROVE toks # {}
      <4>1. PICK i \in Member : ActiveOf(S)[i] # NoGen
        BY <3>4
      <4>2. <<i, ActiveOf(S)[i]>> \in toks
        BY <4>1
      <4> QED
        BY <4>2, Zenon
    <3> QED
      BY <3>2, <3>3, <3>4
  <2> HIDE DEF S, live, toks
  <2>4. CoreType'
    BY <2>1, <2>2, <2>3, Zenon DEF StartDrain, EndDrain, Phase, DrainKind, Reason, requestVars
  <2>5. Drained' /\ Queued' /\ Quieted' /\ Stops'
    BY <2>1, <2>3, Zenon DEF StartDrain, EndDrain, Drained, Queued, Quieted, Stops,
       requestVars
  <2> QED
    BY <2>2, <2>4, <2>5
<1> QED
  BY <1>1, <1>3, <1>4, <1>5, Zenon DEF submit_indexes

-----------------------------------------------------------------------------
(* Completions.                                                            *)

\* Taking the first completion out of the channel, with or without retiring its
\* run, leaves completions of active runs only.
LEMMA TakeChan ==
    ASSUME CoreInv, chan # <<>>, chan' = Tail(chan), run' = run,
           active' \in {active, [active EXCEPT ![Head(chan).index] = NoGen]}
    PROVE  chan' \in Seq(Result) /\ Chan'
<1> USE DEF CoreInv, CoreType
<1>1. /\ Len(chan) \in Nat /\ Len(chan) >= 1 /\ Head(chan) = chan[1]
      /\ chan' \in Seq(Result) /\ Len(chan') = Len(chan) - 1
      /\ \A k \in 1 .. Len(chan) - 1 : chan'[k] = chan[k + 1]
  BY ChannelHead
<1>2. \A k \in 1 .. Len(chan') : /\ k + 1 \in 1 .. Len(chan) /\ k + 1 # 1
                                 /\ chan'[k] = chan[k + 1]
  BY <1>1
<1>3. \A k \in 1 .. Len(chan') : /\ chan[k + 1].index \in Member
                                 /\ chan[k + 1].index # Head(chan).index
  BY <1>1, <1>2, ChannelType DEF Chan
<1>4. \A k \in 1 .. Len(chan') : active'[chan[k + 1].index] = active[chan[k + 1].index]
  BY <1>3, Zenon
<1>5. \A k \in 1 .. Len(chan') :
          /\ active'[chan'[k].index] = chan'[k].gen /\ chan'[k].gen # NoGen
          /\ run'[chan'[k].index] \in Resting
  <2> SUFFICES ASSUME NEW k \in 1 .. Len(chan')
               PROVE  /\ active'[chan'[k].index] = chan'[k].gen /\ chan'[k].gen # NoGen
                      /\ run'[chan'[k].index] \in Resting
    OBVIOUS
  <2>1. /\ active[chan[k + 1].index] = chan[k + 1].gen /\ chan[k + 1].gen # NoGen
        /\ run[chan[k + 1].index] \in Resting
    BY <1>1, <1>2, Zenon DEF Chan
  <2> QED
    BY <1>2, <1>4, <2>1
<1>6. \A j, k \in 1 .. Len(chan') : j # k => chan'[j].index # chan'[k].index
  <2> SUFFICES ASSUME NEW j \in 1 .. Len(chan'), NEW k \in 1 .. Len(chan'), j # k
               PROVE  chan'[j].index # chan'[k].index
    OBVIOUS
  <2>1. j + 1 # k + 1
    OBVIOUS
  <2> QED
    BY <1>2, <2>1 DEF Chan
<1> QED
  BY <1>1, <1>5, <1>6, Zenon DEF Chan

\* An accepted completion retires exactly its own run: one token less is
\* active, no queued barrier can exist and the topology was not quiet.
LEMMA AcceptedCore ==
    ASSUME CoreInv, chan # <<>>, Accepted(Head(chan)), UNCHANGED snap
    PROVE  /\ Head(chan) \in Result /\ Tok(Head(chan)) \in active_tokens
           /\ UNCHANGED <<pending, nextGen, run, token>>
           /\ pending = <<>> /\ phase \notin {"Paused", "Stopped"}
           /\ active' \in [Member -> Generation]
           /\ active_tokens' = active_tokens \ {Tok(Head(chan))}
           /\ active_tokens' \subseteq Token
           /\ active_tokens' = {} <=> \A i \in Member : active'[i] = NoGen
           /\ ActiveMembers \ {Head(chan).index} = {} <=> active_tokens' = {}
           /\ chan' \in Seq(Result) /\ Runs' /\ Chan'
           /\ \A w \in Waiter : answer'[w] = answer[w] \/ answer'[w] # "Ok"
                                   \/ active_tokens' = {}
                => \A t \in snap'[w] :
                     /\ t[2] # NoGen /\ t[2] < nextGen'[t[1]]
                     /\ answer'[w] = "Ok" => /\ active'[t[1]] # t[2]
                                             /\ token'[t[1]] = t[2] => run'[t[1]] \in Resting
<1> DEFINE c == Head(chan)
<1> USE DEF CoreInv, CoreType
<1>1. /\ c \in Result /\ c.index \in Member
      /\ active[c.index] = c.gen /\ c.gen # NoGen /\ run[c.index] \in Resting
  <2>1. 1 \in 1 .. Len(chan) /\ c = chan[1]
    BY ChannelHead
  <2> QED
    BY <2>1, ChannelType, Zenon DEF Chan
<1>2. /\ active' = [active EXCEPT ![c.index] = NoGen] /\ chan' = Tail(chan)
      /\ UNCHANGED <<pending, nextGen, run, token>>
  BY Zenon DEF Accepted, Takes
<1> HIDE DEF c
<1>3. active' \in [Member -> Generation]
  <2>1. NoGen \in Generation
    BY SizeAssumption
  <2> QED
    BY <1>2, <2>1, Zenon
<1>4. /\ active_tokens' = active_tokens \ {Tok(c)} /\ active_tokens' \subseteq Token
      /\ Tok(c) \in active_tokens
      /\ active_tokens' = {} <=> \A i \in Member : active'[i] = NoGen
  <2>1. active_tokens' = Tokens(active')
    BY Zenon DEF active_tokens, Tokens
  <2>2. Tokens(active') = Tokens(active) \ {Tok(c)}
    <3>1. Tokens([active EXCEPT ![c.index] = NoGen])
             = Tokens(active) \ {<<c.index, active[c.index]>>}
      BY <1>1, TokensRetire, Zenon
    <3> QED
      BY <1>1, <1>2, <3>1, Zenon DEF Tok
  <2>3. Tok(c) \in active_tokens
    BY <1>1, Zenon DEF active_tokens, Tok
  <2> QED
    BY <1>3, <2>1, <2>2, <2>3, ActiveTokens, TokensEmpty, TokensType, Zenon
<1>5. ActiveMembers \ {c.index} = {} <=> \A i \in Member : active'[i] = NoGen
  BY <1>1, <1>2, Zenon DEF ActiveMembers
<1>6. chan' \in Seq(Result) /\ Chan'
  BY <1>2, TakeChan, Zenon DEF c
<1>7. Runs'
  BY <1>1, <1>2 DEF Runs
<1>8. pending = <<>> /\ phase \notin {"Paused", "Stopped"}
  BY <1>1, Zenon DEF Queued, Quieted
<1>9. ASSUME NEW w \in Waiter, NEW t \in snap'[w],
             answer'[w] = answer[w] \/ answer'[w] # "Ok" \/ active_tokens' = {}
      PROVE  /\ t[2] # NoGen /\ t[2] < nextGen'[t[1]]
             /\ answer'[w] = "Ok" => /\ active'[t[1]] # t[2]
                                     /\ token'[t[1]] = t[2] => run'[t[1]] \in Resting
  <2>1. t[1] \in Member /\ t[2] # NoGen /\ t[2] < nextGen'[t[1]]
    BY <1>2 DEF Snaps, Token
  <2>2. CASE answer'[w] = answer[w] \/ answer'[w] # "Ok"
    BY <1>1, <1>2, <2>1, <2>2, Zenon DEF Snaps
  <2>3. CASE active_tokens' = {}
    BY <1>2, <1>4, <1>7, <2>1, <2>3, Zenon DEF Runs
  <2> QED
    BY <1>9, <2>1, <2>2, <2>3
<1> QED
  BY <1>1, <1>2, <1>3, <1>4, <1>5, <1>6, <1>7, <1>8, <1>9 DEF c

\* A completion refused for its identity or its dispatch changes nothing but
\* the channel.
LEMMA MismatchCore ==
    ASSUME CoreInv, chan # <<>>, CompletionMismatch(Head(chan))
    PROVE  CoreInv'
<1> USE DEF CoreInv, CoreType
<1>1. /\ UNCHANGED <<phase, kind, reason, remaining, waiters, pending, active, nextGen,
                     run, token, answer, asked, snap>>
      /\ chan' = Tail(chan) /\ active_tokens' = active_tokens
  BY Zenon DEF CompletionMismatch, Takes, drainVars, requestVars, active_tokens
<1>2. chan' \in Seq(Result) /\ Chan'
  BY <1>1, TakeChan
<1>3. CoreType' /\ Drained' /\ Queued' /\ Quieted'
  BY <1>1, <1>2, Zenon DEF Drained, Queued, Quieted
<1>4. Runs' /\ Stops' /\ Snaps'
  BY <1>1 DEF Runs, Stops, Snaps
<1> QED
  BY <1>2, <1>3, <1>4

\* process_completion outside a drain: the run is retired and the topology goes
\* on running, starts a terminal drain, or is over.
LEMMA CompletionCore ==
    ASSUME CoreInv, chan # <<>>,
           \/ CompletionMember(Head(chan)) \/ CompletionAbsorbed(Head(chan))
           \/ CompletionTerminal(Head(chan)) \/ CompletionUnexpected(Head(chan))
    PROVE  CoreInv'
<1> DEFINE c == Head(chan)
<1> USE DEF CoreInv, CoreType
<1>1. Accepted(c) /\ UNCHANGED <<answer, asked, snap>>
  BY Zenon DEF CompletionMember, CompletionAbsorbed, CompletionTerminal, CompletionUnexpected,
     requestVars
<1>2. /\ c \in Result /\ Tok(c) \in active_tokens
      /\ UNCHANGED <<pending, nextGen, run, token>>
      /\ pending = <<>> /\ phase \notin {"Paused", "Stopped"}
      /\ active' \in [Member -> Generation]
      /\ active_tokens' = active_tokens \ {Tok(c)} /\ active_tokens' \subseteq Token
      /\ active_tokens' = {} <=> \A i \in Member : active'[i] = NoGen
      /\ ActiveMembers \ {c.index} = {} <=> active_tokens' = {}
      /\ chan' \in Seq(Result) /\ Runs' /\ Chan'
  BY <1>1, AcceptedCore
<1>3. Snaps'
  <2>1. \A w \in Waiter : \A t \in snap'[w] :
            /\ t[2] # NoGen /\ t[2] < nextGen'[t[1]]
            /\ answer'[w] = "Ok" => /\ active'[t[1]] # t[2]
                                    /\ token'[t[1]] = t[2] => run'[t[1]] \in Resting
    BY <1>1, AcceptedCore
  <2> QED
    BY <2>1, Zenon DEF Snaps
<1> HIDE DEF c
<1>4. CASE /\ UNCHANGED <<phase, drainVars>>
           /\ phase \in {"Running", "Failed", "ShutDown"}
  <2>1. CoreType' /\ Drained' /\ Queued' /\ Quieted'
    BY <1>1, <1>2, <1>4, Zenon DEF drainVars, Drained, Queued, Quieted
  <2>2. Stops'
    BY <1>1, <1>4, Zenon DEF Stops, drainVars
  <2> QED
    BY <1>2, <1>3, <2>1, <2>2
<1>5. CASE /\ phase = "Running"
           /\ \/ EndDrain("Stopped") /\ active_tokens' = {}
              \/ EndDrain("Failed")
              \/ /\ StartDrain("Terminal", "Wakeup", active_tokens', {c}, {})
                 /\ active_tokens' # {}
  <2>1. CoreType'
    BY <1>1, <1>2, <1>5, Zenon DEF EndDrain, StartDrain, Phase, DrainKind, Reason
  <2>2. Drained' /\ Queued' /\ Quieted'
    BY <1>2, <1>5, Zenon DEF EndDrain, StartDrain, Drained, Queued, Quieted
  <2>3. Stops'
    BY <1>1, <1>5, Zenon DEF EndDrain, StartDrain, Stops
  <2> QED
    BY <1>2, <1>3, <2>1, <2>2, <2>3
<1>6. CASE CompletionMember(c) \/ CompletionAbsorbed(c)
  BY <1>4, <1>6, Zenon DEF CompletionMember, CompletionAbsorbed
<1>7. CASE CompletionUnexpected(c)
  BY <1>2, <1>4, <1>7, Zenon DEF CompletionUnexpected, Drained
<1>8. CASE CompletionTerminal(c)
  <2>1. active_tokens \ {<<c.index, active[c.index]>>} = active_tokens'
    BY <1>1, <1>2, Zenon DEF Accepted, IdentityMatches, Tok
  <2> QED
    BY <1>2, <1>5, <1>8, <2>1, Zenon DEF CompletionTerminal
<1> QED
  BY <1>6, <1>7, <1>8, Zenon DEF c

\* process_completion inside a drain: the drain loses exactly this token, and
\* ends with the last one.
LEMMA DrainCore ==
    ASSUME CoreInv, chan # <<>>,
           CompletionAcked(Head(chan)) \/ CompletionFinishes(Head(chan))
    PROVE  CoreInv'
<1> DEFINE c == Head(chan)
<1> USE DEF CoreInv, CoreType
<1>1. Accepted(c) /\ UNCHANGED <<asked, snap>> /\ phase = "Draining"
  BY Zenon DEF CompletionAcked, CompletionFinishes, requestVars
<1>2. /\ Tok(c) \in active_tokens
      /\ UNCHANGED <<pending, nextGen, run, token>> /\ pending = <<>>
      /\ active' \in [Member -> Generation]
      /\ active_tokens' = active_tokens \ {Tok(c)} /\ active_tokens' \subseteq Token
      /\ active_tokens' = {} <=> \A i \in Member : active'[i] = NoGen
      /\ chan' \in Seq(Result) /\ Runs' /\ Chan'
  BY <1>1, AcceptedCore
<1>3. remaining = active_tokens
  BY <1>1, Zenon DEF Drained
<1>4. ASSUME \A w \in Waiter : answer'[w] = answer[w] \/ active_tokens' = {}
      PROVE  Snaps'
  <2>1. \A w \in Waiter : \A t \in snap'[w] :
            /\ t[2] # NoGen /\ t[2] < nextGen'[t[1]]
            /\ answer'[w] = "Ok" => /\ active'[t[1]] # t[2]
                                    /\ token'[t[1]] = t[2] => run'[t[1]] \in Resting
    BY <1>1, <1>4, AcceptedCore
  <2> QED
    BY <2>1, Zenon DEF Snaps
<1> HIDE DEF c
<1>5. CASE CompletionAcked(c)
  <2>1. /\ remaining' = active_tokens' /\ remaining' # {}
        /\ UNCHANGED <<phase, reason, waiters, answer>>
        /\ kind' \in DrainKind /\ (kind' = "Control" => kind = "Control")
    BY <1>2, <1>3, <1>5, Zenon DEF CompletionAcked, KindAfter, DrainKind, requestVars
  <2>2. CoreType' /\ Drained' /\ Queued' /\ Quieted'
    BY <1>1, <1>2, <2>1, Zenon DEF Drained, Queued, Quieted
  <2>3. Stops'
    BY <1>1, <2>1, Zenon DEF Stops
  <2>4. Snaps'
    BY <1>4, <2>1
  <2> QED
    BY <1>2, <2>2, <2>3, <2>4
<1>6. CASE CompletionFinishes(c)
  <2>1. active_tokens' = {}
    BY <1>2, <1>3, <1>6, Zenon DEF CompletionFinishes
  <2>2. \/ /\ kind = "Control" /\ AnswersWaiters("Ok")
           /\ EndDrain(phase_after_control(reason))
        \/ AnswersWaiters("Err") /\ EndDrain("Stopped")
        \/ EndDrain("Failed") /\ UNCHANGED answer
    BY <1>6, Zenon DEF CompletionFinishes, KindAfter
  <2>3. /\ phase_after_control(reason) \in {"Running", "Paused", "Stopped"}
        /\ phase_after_control(reason) = "Stopped" <=> reason \in Stopping
    BY MaxReason, Zenon
  <2>4. CoreType'
    BY <1>1, <1>2, <2>2, <2>3, Zenon DEF AnswersWaiters, EndDrain, Phase, DrainKind, Reason
  <2>5. Drained' /\ Queued' /\ Quieted'
    BY <1>2, <2>1, <2>2, <2>3, Zenon DEF EndDrain, Drained, Queued, Quieted
  <2>6. Stops'
    BY <1>1, <2>2, <2>3, Zenon DEF EndDrain, AnswersWaiters, Stops
  <2>7. Snaps'
    BY <1>4, <2>1
  <2> QED
    BY <1>2, <2>4, <2>5, <2>6, <2>7
<1> QED
  BY <1>5, <1>6, Zenon DEF c

=============================================================================
