---------------------------- MODULE RunTopology ----------------------------
(***************************************************************************)
(* What the vCPU run coordinator (crates/hvf/src/coordinator.rs) promises  *)
(* to the code above it: the phase of the topology, which members have an  *)
(* active run, which runner threads are inside Hypervisor.framework, and   *)
(* the one undelivered barrier.  Generations, cancellation debt, channels  *)
(* and the steps of the owner thread are hidden.  RunCoordinator is shown  *)
(* to implement this module, and BootRunLoop is built on it.               *)
(***************************************************************************)
EXTENDS Integers, FiniteSets

CONSTANT Member

VARIABLES
    phase,      \* CoordinatorState.phase
    why,        \* DrainState.reason, "None" outside a drain
    flying,     \* members with an active run
    guest,      \* members whose runner thread is inside a run
    queued      \* the undelivered barrier, "None" if there is none

topologyVars == <<phase, why, flying, guest, queued>>

Control == {"Wakeup", "Pause", "Stop", "Shutdown"}
Cause == Control \cup {"Terminal", "Submission"}

Rank == [r \in Control |-> CASE r = "Wakeup" -> 0 [] r = "Pause" -> 1
                             [] r = "Stop" -> 2 [] OTHER -> 3]

Stronger(a, b) == IF Rank[a] >= Rank[b] THEN a ELSE b

\* The phase a drain or an undelivered barrier for r leads to.
Settled(r) == CASE r = "Wakeup" -> "Running"
                [] r = "Pause" -> "Paused"
                [] r = "Submission" -> "Failed"
                [] OTHER -> "Stopped"

Quiescing(r) == phase' = "Draining" /\ why' = r
Settles(p) == phase' = p /\ why' = "None"

-----------------------------------------------------------------------------
(* A control request, from any thread.                                     *)

RequestDrains(r) ==
    /\ phase = "Running" /\ queued = "None" /\ flying # {}
    /\ Quiescing(r) \/ Settles("Failed")
    /\ UNCHANGED queued

RequestJoins(r) ==
    /\ phase = "Draining" /\ why \in Control
    /\ why' = Stronger(why, r)
    /\ UNCHANGED <<phase, queued>>

RequestQueues(r) ==
    /\ \/ queued = "None" /\ phase = "Running" /\ flying = {}
       \/ queued # "None" /\ phase \in {"Running", "Paused", "Stopped"}
    /\ queued' = IF queued = "None" THEN r ELSE Stronger(queued, r)
    /\ Settles(Settled(queued'))

RequestQuiet(r) ==
    /\ queued = "None"
    /\ phase = "Paused" \/ (phase = "Stopped" /\ r \in {"Stop", "Shutdown"})
    /\ Settles(IF r \in {"Stop", "Shutdown"} THEN "Stopped" ELSE phase)
    /\ UNCHANGED queued

Refuses(r) ==
    \/ phase = "Draining" /\ why \notin Control
    \/ phase = "Stopped" /\ queued = "None" /\ r \in {"Wakeup", "Pause"}
    \/ phase \in {"Failed", "ShutDown"}

\* A request is refused, or accepted in one of four ways.
RequestControl(r) ==
    /\ \/ RequestDrains(r) \/ RequestJoins(r) \/ RequestQueues(r) \/ RequestQuiet(r)
       \/ Refuses(r) /\ UNCHANGED <<phase, why, queued>>
    /\ UNCHANGED <<flying, guest>>

-----------------------------------------------------------------------------
(* The owner thread and the runner threads.                                *)

\* Runs are admitted only into a running topology with nothing to deliver.
Admit(S) ==
    /\ phase = "Running" /\ queued = "None" /\ S \cap flying = {}
    /\ flying' = flying \cup S /\ guest' = guest \cup S
    /\ UNCHANGED <<phase, why, queued>>

\* A runner refuses after S was admitted: every active run is drained and the
\* topology fails.
AdmitRefused(S) ==
    /\ phase = "Running" /\ queued = "None" /\ S \cap flying = {}
    /\ flying' = flying \cup S /\ guest' = guest \cup S
    /\ \/ flying' # {} /\ Quiescing("Submission")
       \/ Settles("Failed")
    /\ UNCHANGED queued

Leave(i) ==
    /\ i \in guest
    /\ guest' = guest \ {i}
    /\ UNCHANGED <<phase, why, flying, queued>>

\* The owner takes the result of a finished run; terminal says that the
\* result ends the topology.
Collect(i, terminal) ==
    /\ i \in flying \ guest
    /\ flying' = flying \ {i}
    /\ CASE phase = "Running" /\ ~terminal -> UNCHANGED <<phase, why>>
         [] phase = "Running" /\ terminal ->
              IF flying' = {} THEN Settles("Stopped")
                              ELSE Quiescing("Terminal") \/ Settles("Failed")
         [] phase = "Draining" ->
              LET w == IF terminal /\ why \in Control THEN "Terminal" ELSE why
              IN IF flying' = {} THEN Settles(Settled(w))
                                 ELSE phase' = phase /\ why' = w
         [] OTHER -> UNCHANGED <<phase, why>>
    /\ UNCHANGED <<guest, queued>>

Deliver ==
    /\ queued # "None" /\ queued' = "None"
    /\ UNCHANGED <<phase, why, flying, guest>>

Resume ==
    /\ phase = "Paused" /\ phase' = "Running"
    /\ UNCHANGED <<why, flying, guest, queued>>

\* The runner threads of all members but the lost ones are joined.
Close(lost) ==
    /\ Settles(IF lost = {} THEN "ShutDown" ELSE "Failed")
    /\ guest' = guest \cap lost
    /\ UNCHANGED <<flying, queued>>

-----------------------------------------------------------------------------
TopologyInit ==
    /\ phase \in {"Running", "Paused"} /\ why = "None"
    /\ flying = {} /\ guest = {} /\ queued = "None"

TopologyNext ==
    \/ \E r \in Control : RequestControl(r)
    \/ \E S \in SUBSET Member : Admit(S) \/ AdmitRefused(S) \/ Close(S)
    \/ \E i \in Member : Leave(i) \/ Collect(i, TRUE) \/ Collect(i, FALSE)
    \/ Deliver \/ Resume

TopologySpec == TopologyInit /\ [][TopologyNext]_topologyVars
=============================================================================
