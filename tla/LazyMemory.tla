----------------------------- MODULE LazyMemory -----------------------------
(* Lazily populated guest memory: the coordinator that tracks every page     *)
(* (runtime lazy_memory.rs), the resolver that moves pages between absent    *)
(* and mapped under a writer-preferring gate (hvf lazy_host_fault.rs), the   *)
(* guest permission plane (hvf lazy_guest_fault.rs) and the adapter to the   *)
(* pager session (hvf lazy_pager.rs).  Threads fault on pages from the host  *)
(* or from a vCPU, one thread removes pages, and a controller connects,      *)
(* cancels and tears down.  Each action is one critical section of the code  *)
(* or one call to the platform.                                              *)
EXTENDS PagerSession

CONSTANTS
    HostThreads,   \* the Mach exception server, on behalf of host threads that fault
    Vcpus,         \* vCPU threads whose accesses exit with a stage-two fault
    Remover,       \* the thread that removes pages
    Ranges,        \* page sets one access or one removal may cover
    Accesses,      \* accesses the threads make
    MaxWaiters,    \* max_waiters
    MaxFaults,     \* bound: faults each thread takes
    MaxRemovals,   \* bound: removals requested
    PlatformFaults \* platform calls that may fail: "publish", "protect", "revoke", "hide"

Threads == HostThreads \cup Vcpus

ASSUME LazyConstants ==
    /\ Callers = Threads \cup {Remover} /\ Remover \notin Threads /\ Remover # "none"
    /\ HostThreads \cap Vcpus = {}
    /\ Pages \subseteq Nat /\ Ranges \subseteq (SUBSET Pages) \ {{}}
    /\ Accesses \subseteq {"Read", "Write", "Execute"}
    /\ MaxWaiters \in Nat /\ MaxFaults \in Nat /\ MaxRemovals \in Nat
    /\ PlatformFaults \subseteq {"publish", "protect", "revoke", "hide"}

VARIABLES
    co,        \* CoordinatorState
    contents,  \* what each page's bytes hold, through any mapping
    life,      \* ResolverLifecycle.phase
    acting,    \* callers counted in ResolverLifecycle.actions
    readers,   \* threads holding the transition gate shared
    writer,    \* the exclusive holder of the gate, "none" if there is none
    waiting,   \* those counted in writers_waiting
    host,      \* host protection of each page
    guest,     \* stage-two permissions of each page (page_permissions)
    handler,   \* HandlerStatus
    admitted,  \* last_admitted of each vCPU, a set with at most one admission
    pc,        \* where each thread stands
    job,       \* the fault a thread is resolving
    removal,   \* the removal in progress
    ctl,       \* where the controller stands
    faults,    \* faults taken by each thread
    removals   \* removals requested

gateVars == <<readers, writer, waiting>>
planeVars == <<host, guest, handler, admitted>>
workVars == <<pc, job, removal, faults, removals>>
memoryVars == <<co, contents, life, acting, gateVars, planeVars, workVars, ctl>>
vars == <<pagerVars, memoryVars>>

Need(access) == CASE access = "Read" -> {"R"}
                  [] access = "Write" -> {"R", "W"}
                  [] access = "Execute" -> {"X"}
\* Mach permissions of a resolved page: allow replaces the protection, it does not add to it.
HostNeed(access) == IF access = "Write" THEN {"R", "W"} ELSE {"R"}

Operation == [gen: Nat, kind: {"page", "remove"}, pages: SUBSET Pages,
              stage: {"Loading", "Publishing", "Retired", "Removing"}, waiters: Nat]
Completion == [page: Pages, gen: Nat, outcome: {"Present", "Superseded"}, remaining: Nat]

LazyTypeOK ==
    /\ PagerTypeOK
    /\ co \in [phase: {"Active", "Closing", "Terminal"},
               reason: {"none", "Requested", "PeerFailure", "TransitionFailure", "Teardown"},
               page: [Pages -> {"Absent", "Loading", "Publishing", "Present", "Removing"}],
               ops: SUBSET Operation, done: SUBSET Completion,
               waiters: Nat, actions: Nat, nextGen: Nat \ {0}]
    /\ contents \in [Pages -> {"blank", "image", "zero"}]
    /\ life \in {"Prepared", "Active", "Closing", "Closed"}
    /\ acting \subseteq Callers /\ readers \subseteq Threads
    /\ writer \in {Remover, "teardown", "none"} /\ waiting \subseteq {Remover, "teardown"}
    /\ host \in [Pages -> SUBSET {"R", "W"}] /\ guest \in [Pages -> SUBSET {"R", "W", "X"}]
    /\ handler \in {"Active", "Poisoned"}
    /\ \A v \in Vcpus : Cardinality(admitted[v]) <= 1

NoJob == [pages |-> {}, todo |-> {}, access |-> "Read", gen |-> 0]
NoRemoval == [pages |-> {}, gen |-> 0]

LazyInit ==
    /\ PagerInit
    /\ co = [phase |-> "Active", reason |-> "none", page |-> [p \in Pages |-> "Absent"],
             ops |-> {}, done |-> {}, waiters |-> 0, actions |-> 0, nextGen |-> 1]
    /\ contents = [p \in Pages |-> "blank"]
    /\ life = "Prepared" /\ acting = {}
    /\ readers = {} /\ writer = "none" /\ waiting = {}
    /\ host = [p \in Pages |-> {"R", "W"}] /\ guest = [p \in Pages |-> {}]
    /\ handler = "Active" /\ admitted = [v \in Vcpus |-> {}]
    /\ pc = [c \in Callers |-> "idle"]
    /\ job = [t \in Threads |-> NoJob]
    /\ removal = NoRemoval
    /\ ctl = "connecting"
    /\ faults = [t \in Threads |-> 0] /\ removals = 0

-----------------------------------------------------------------------------
(* The coordinator: functions of its state, one per locked helper.           *)

IsAction(o) == o.kind = "remove" \/ o.stage = "Publishing"

Finalize(s) ==
    IF s.actions = 0 /\ s.phase = "Closing"
    THEN [s EXCEPT !.phase = "Terminal", !.ops = {}, !.done = {}] ELSE s

\* Mutant: the latest reason wins.
CloseAgain(s, why) ==
    Finalize([s EXCEPT !.phase = IF @ = "Active" THEN "Closing" ELSE @, !.reason = why,
                       !.ops = {o \in @ : IsAction(o)}, !.done = {}])

\* begin_closing_locked: the first reason wins; only actions past their linearization remain.
Close(s, why) ==
    IF s.phase # "Active" THEN s
    ELSE Finalize([s EXCEPT !.phase = "Closing", !.reason = why,
                            !.ops = {o \in @ : IsAction(o)}, !.done = {}])

FinishAction(s, g) ==
    LET mine == {o \in s.ops : o.gen = g /\ IsAction(o)}
        left == [s EXCEPT !.ops = @ \ mine]
    IN Finalize(IF mine = {} THEN s
                ELSE IF s.actions = 0 THEN Close(left, "TransitionFailure")
                ELSE [left EXCEPT !.actions = @ - 1])

\* drop_publication and drop_removal: an unfinished guard ends its action and closes.
DropGuard(s, g) ==
    IF \E o \in s.ops : o.gen = g /\ IsAction(o)
    THEN Close(FinishAction(s, g), "TransitionFailure") ELSE s

\* drop_population: losing a current ticket closes, losing a retired one frees its slot.
DropTicket(s, g) ==
    LET mine == {o \in s.ops : o.gen = g}
    IN IF mine = {} THEN s
       ELSE IF \A o \in mine : o.stage = "Retired" THEN [s EXCEPT !.ops = @ \ mine]
       ELSE Close(s, "TransitionFailure")

Completed(p, g, outcome, n) ==
    IF n = 0 THEN {} ELSE {[page |-> p, gen |-> g, outcome |-> outcome, remaining |-> n]}

Population(s, p) ==
    CHOOSE o \in s.ops : o.kind = "page" /\ o.pages = {p} /\ o.stage = s.page[p]

\* Mutant: a population survives the removal of its page.
RetireWaitersOnly(o) == [o EXCEPT !.waiters = 0]

\* Mutant: the retired operation keeps the waiters its completion already counts.
RetireWithWaiters(o) == [o EXCEPT !.stage = "Retired"]

\* retire_population_for_page.
Retire(o) == [o EXCEPT !.stage = "Retired", !.waiters = 0]

\* Mutant: a retired operation gives its slot back before its answer was consumed.
RetiredAreFreed(hit) == {}

RetiredOps(hit) == {Retire(o) : o \in hit}

\* The state after begin_removal's locked transition of the range rg.
BeginRemovalState(s, rg) ==
    LET hit == {o \in s.ops : o.kind = "page" /\ o.stage = "Loading" /\ o.pages \subseteq rg}
        me == [gen |-> s.nextGen, kind |-> "remove", pages |-> rg, stage |-> "Removing",
               waiters |-> 0]
    IN [s EXCEPT !.ops = (@ \ hit) \cup {me} \cup RetiredOps(hit),
                 !.done = @ \cup UNION {UNION {Completed(p, o.gen, "Superseded", o.waiters)
                                               : p \in o.pages} : o \in hit},
                 !.page = [p \in Pages |-> IF p \in rg THEN "Removing" ELSE @[p]],
                 !.actions = @ + 1, !.nextGen = @ + 1]
-----------------------------------------------------------------------------
(* Faulting threads.  Acquiring the gate is merged with the critical section *)
(* that follows it and releasing it with the one before, which loses no      *)
(* behaviour: holding the gate only keeps others out.                        *)

Exited == ctl = "exited"

\* terminal_exit: every thread of the process is gone, and its end of the stream with it.
ExitProcess ==
    /\ pc' = [c \in Callers |-> "exited"] /\ ctl' = "exited"
    /\ worker' = "exited" /\ fanout' = "done" /\ taken' = {}
    /\ peerUp' = FALSE /\ toPeer' = <<>> /\ toVmm' = <<>>
    /\ UNCHANGED <<vmmVars, peer, accepted, lastRequest, droppedAt, client, pending, control,
                   answer, reply>>

\* begin_transition_read waits for a waiting writer too; begin_transition_write for readers.
GateIsFree == writer = "none" /\ waiting = {}

\* Mutant: a writer does not wait for the readers.
WriterOvertakes == writer = "none"

WriterMayEnter == writer = "none" /\ readers = {}
Page(t) == CHOOSE p \in job[t].todo : \A q \in job[t].todo : p <= q
Goto(t, label) == pc' = [pc EXCEPT ![t] = label]
NextPage(t) ==
    /\ job' = [job EXCEPT ![t].todo = @ \ {Page(t)}]
    /\ Goto(t, IF job[t].todo = {Page(t)} THEN "lease" ELSE "fault")

\* An access finds its pages closed: the fault callback or the vCPU exit enters the resolver.
\* The owner of the memory starts no access once it tears the resolver down.
TakeFault(t) ==
    /\ pc[t] = "idle" /\ life = "Active" /\ faults[t] < MaxFaults
    /\ \E rg \in Ranges, a \in Accesses :
        /\ IF t \in Vcpus
           THEN handler = "Active" /\ \E p \in rg : ~(Need(a) \subseteq guest[p])
           ELSE /\ a # "Execute" /\ Cardinality(rg) = 1
                /\ \E p \in rg : ~(HostNeed(a) \subseteq host[p])
        /\ job' = [job EXCEPT ![t] = [pages |-> rg, todo |-> rg, access |-> a, gen |-> 0]]
    /\ acting' = acting \cup {t}
    /\ faults' = [faults EXCEPT ![t] = @ + 1]
    /\ Goto(t, "fault")
    /\ UNCHANGED <<pagerVars, co, contents, life, gateVars, planeVars, removal, removals, ctl>>

\* CoordinatorInner::fault from the coordinator state s.
FaultFrom(t, s) ==
    LET p == Page(t)
        full == s.waiters >= MaxWaiters
        atLimit == Cardinality(s.ops) >= MaxInFlight
        stay == job' = job
        fail == stay /\ co' = s /\ Goto(t, "failing")
    IN IF s.phase # "Active" THEN fail
       ELSE
       CASE s.page[p] = "Absent" /\ atLimit -> fail
         [] s.page[p] = "Absent" /\ ~atLimit ->
              /\ co' = [s EXCEPT !.page[p] = "Loading", !.nextGen = @ + 1,
                         !.ops = @ \cup {[gen |-> s.nextGen, kind |-> "page", pages |-> {p},
                                          stage |-> "Loading", waiters |-> 0]}]
              /\ job' = [job EXCEPT ![t].gen = s.nextGen]
              /\ Goto(t, "request")
         [] s.page[p] = "Present" -> stay /\ co' = s /\ Goto(t, "present")
         [] s.page[p] \in {"Loading", "Publishing", "Removing"} /\ full -> fail
         [] s.page[p] \in {"Loading", "Publishing"} /\ ~full ->
              LET o == Population(s, p)
              IN /\ co' = [s EXCEPT !.waiters = @ + 1,
                            !.ops = (@ \ {o}) \cup {[o EXCEPT !.waiters = @ + 1]}]
                 /\ job' = [job EXCEPT ![t].gen = o.gen]
                 /\ Goto(t, "popwait")
         [] s.page[p] = "Removing" /\ ~full ->
              stay /\ co' = [s EXCEPT !.waiters = @ + 1] /\ Goto(t, "pagewait")

Fault(t) ==
    /\ pc[t] = "fault"
    /\ FaultFrom(t, co)
    /\ UNCHANGED <<pagerVars, contents, life, acting, gateVars, planeVars, removal, faults,
                   removals, ctl>>

\* wait_for_page_change woke: the loop in fault goes round under the same lock.
PageWait(t) ==
    /\ pc[t] = "pagewait"
    /\ co.phase # "Active" \/ co.page[Page(t)] # "Removing"
    /\ FaultFrom(t, [co EXCEPT !.waiters = @ - 1])
    /\ UNCHANGED <<pagerVars, contents, life, acting, gateVars, planeVars, removal, faults,
                   removals, ctl>>

\* wait_for_population: the phase, then a completion, then whether the operation is retained.
PopulationWait(t) ==
    /\ pc[t] = "popwait"
    /\ LET mine == {d \in co.done : d.page = Page(t) /\ d.gen = job[t].gen}
           retained == \E o \in co.ops : o.gen = job[t].gen /\ o.kind = "page"
           left == [co EXCEPT !.waiters = @ - 1]
       IN \/ /\ co.phase # "Active" \/ (mine = {} /\ ~retained)
             /\ co' = left /\ Goto(t, "failing")
          \/ /\ co.phase = "Active"
             /\ \E d \in mine :
                  /\ co' = [left EXCEPT !.done = (@ \ {d})
                              \cup Completed(d.page, d.gen, d.outcome, d.remaining - 1)]
                  /\ Goto(t, IF d.outcome = "Present" THEN "present" ELSE "fault")
    /\ UNCHANGED <<pagerVars, contents, life, acting, gateVars, planeVars, job, removal, faults,
                   removals, ctl>>

\* HvfLazyPager::page up to the blocking receive.
RequestPage(t) ==
    /\ pc[t] = "request"
    /\ Submit(t, "page", {Page(t)}, job[t].gen)
    /\ Goto(t, "await")
    /\ UNCHANGED <<peerVars, toVmm, control, answer, worker, co, contents, life, acting, gateVars,
                   planeVars, job, removal, faults, removals, ctl>>

\* The source failed: peer_failure closes, then the armed ticket is dropped.
SourceFails(t) ==
    /\ pc[t] = "await" /\ reply[t] = "err"
    /\ co' = DropTicket(Close(co, "PeerFailure"), job[t].gen)
    /\ reply' = [reply EXCEPT ![t] = NoReply]
    /\ Goto(t, "failing")
    /\ UNCHANGED <<vmmVars, peerVars, toPeer, toVmm, client, pending, control, answer, worker,
                   fanout, taken, contents, life, acting, gateVars, planeVars, job, removal,
                   faults, removals, ctl>>

\* The contents arrived: take the gate shared and begin_publication under it.
BeginPublication(t) ==
    /\ pc[t] = "await" /\ reply[t] \in {"image", "zero"} /\ GateIsFree
    /\ LET mine == {o \in co.ops : o.gen = job[t].gen}
           p == Page(t)
       IN CASE co.phase # "Active" -> /\ UNCHANGED <<co, readers>> /\ Goto(t, "failing")
            [] co.phase = "Active" /\ \A o \in mine : o.stage = "Retired" ->
                 /\ co' = [co EXCEPT !.ops = @ \ mine]
                 /\ UNCHANGED readers /\ Goto(t, "fault")
            [] OTHER ->
                 IF co.page[p] = "Loading" /\ \A o \in mine : o.stage = "Loading"
                 THEN /\ co' = [co EXCEPT !.page[p] = "Publishing", !.actions = @ + 1,
                                !.ops = (@ \ mine)
                                        \cup {[o EXCEPT !.stage = "Publishing"] : o \in mine}]
                      /\ readers' = readers \cup {t} /\ Goto(t, "install")
                 ELSE /\ co' = Close(co, "TransitionFailure")
                      /\ UNCHANGED readers /\ Goto(t, "failing")
    /\ reply' = [reply EXCEPT ![t] = IF pc'[t] = "install" THEN @ ELSE NoReply]
    /\ UNCHANGED <<vmmVars, peerVars, toPeer, toVmm, client, pending, control, answer, worker,
                   fanout, taken, contents, life, acting, writer, waiting, planeVars, job, removal,
                   faults, removals, ctl>>

\* mapping.publish: the bytes through the alias, then the permission; on failure the page is
\* hidden and the publication guard dropped.
Install(t) ==
    /\ pc[t] = "install"
    /\ contents' = [contents EXCEPT ![Page(t)] = reply[t]]
    /\ reply' = [reply EXCEPT ![t] = NoReply]
    /\ \/ /\ host' = [host EXCEPT ![Page(t)] = HostNeed(job[t].access)]
          /\ Goto(t, "commit") /\ UNCHANGED <<co, readers>>
       \/ /\ "publish" \in PlatformFaults
          /\ host' = [host EXCEPT ![Page(t)] = {}]
          /\ co' = DropGuard(co, job[t].gen)
          /\ readers' = readers \ {t} /\ Goto(t, "failing")
    /\ UNCHANGED <<vmmVars, peerVars, toPeer, toVmm, client, pending, control, answer, worker,
                   fanout, taken, life, acting, writer, waiting, guest, handler, admitted, job,
                   removal, faults, removals, ctl>>

CommitPublication(t) ==
    /\ pc[t] = "commit"
    /\ LET mine == {o \in co.ops : o.gen = job[t].gen}
           p == Page(t)
       IN \/ /\ co.phase # "Active"
             /\ co' = FinishAction(co, job[t].gen)
             /\ host' = [host EXCEPT ![p] = {}]
             /\ Goto(t, "failing") /\ UNCHANGED job
          \/ /\ co.phase = "Active"
             /\ co' = [co EXCEPT !.page[p] = "Present", !.ops = @ \ mine, !.actions = @ - 1,
                        !.done = @ \cup UNION {Completed(p, o.gen, "Present", o.waiters)
                                               : o \in mine}]
             /\ NextPage(t) /\ UNCHANGED host
    /\ readers' = readers \ {t}
    /\ UNCHANGED <<pagerVars, contents, life, acting, writer, waiting, guest, handler, admitted,
                   removal, faults, removals, ctl>>
IsPresent(p) == co.phase = "Active" /\ co.page[p] = "Present"

\* The page is present: recheck under the gate and open the host permission.
OpenPresent(t) ==
    /\ pc[t] = "present" /\ GateIsFree
    /\ \/ ~IsPresent(Page(t)) /\ Goto(t, "fault") /\ UNCHANGED <<job, host>>
       \/ /\ IsPresent(Page(t))
          /\ host' = [host EXCEPT ![Page(t)] = HostNeed(job[t].access)]
          /\ NextPage(t)
       \/ /\ IsPresent(Page(t)) /\ "protect" \in PlatformFaults
          /\ Goto(t, "failing") /\ UNCHANGED <<job, host>>
    /\ UNCHANGED <<pagerVars, co, contents, life, acting, gateVars, guest, handler, admitted,
                   removal, faults, removals, ctl>>

\* The end of resolve_pages_inner: every page again, in order, under one hold of the gate, which
\* becomes the lease; the action ends as resolve_pages returns.
TakeLease(t) ==
    /\ pc[t] = "lease" /\ GateIsFree
    /\ LET pages == job[t].pages
           checked == {p \in pages : \A q \in pages : q <= p => IsPresent(q)}
           opened == [p \in Pages |-> IF p \in checked THEN HostNeed(job[t].access) ELSE host[p]]
       IN \/ /\ checked = pages /\ host' = opened
             /\ readers' = readers \cup {t} /\ acting' = acting \ {t}
             /\ Goto(t, "leased") /\ UNCHANGED job
          \/ /\ checked # pages /\ host' = opened
             /\ job' = [job EXCEPT ![t].todo = pages] /\ Goto(t, "fault")
             /\ UNCHANGED <<readers, acting>>
          \/ /\ "protect" \in PlatformFaults
             /\ \E q \in checked : host' = [p \in Pages |-> IF p < q THEN opened[p] ELSE host[p]]
             /\ Goto(t, "failing") /\ UNCHANGED <<job, readers, acting>>
    /\ UNCHANGED <<pagerVars, co, contents, life, writer, waiting, guest, handler, admitted,
                   removal, faults, removals, ctl>>

\* resolve_host_address drops the lease and the access is retried.
HostReturns(t) ==
    /\ t \in HostThreads /\ pc[t] = "leased"
    /\ readers' = readers \ {t} /\ Goto(t, "idle")
    /\ job' = [job EXCEPT ![t] = NoJob]
    /\ UNCHANGED <<pagerVars, co, contents, life, acting, writer, waiting, planeVars, removal,
                   faults, removals, ctl>>

\* HvfLazyGuestFaultHandler::handle from the handler lock on; the lease ends inside it.  An
\* exit that finds nothing to open is stale; the same stale exit twice is NoProgress.
Admit(t) ==
    /\ t \in Vcpus /\ pc[t] = "leased"
    /\ LET a == [pages |-> job[t].pages, access |-> job[t].access]
           opened == [p \in Pages |-> IF p \in a.pages THEN guest[p] \cup Need(a.access)
                                      ELSE guest[p]]
           stale == opened = guest
       IN \/ /\ handler = "Active" /\ (~stale \/ admitted[t] # {a})
             /\ guest' = opened
             /\ admitted' = [admitted EXCEPT ![t] = {a}]
             /\ readers' = readers \ {t} /\ Goto(t, "idle") /\ UNCHANGED handler
          \/ /\ handler # "Active" \/ (stale /\ admitted[t] = {a})
             /\ readers' = readers \ {t} /\ Goto(t, "stopped")
             /\ UNCHANGED <<guest, admitted, handler>>
          \/ /\ handler = "Active" /\ "protect" \in PlatformFaults
             /\ \E q \in Pages :
                   /\ opened[q] # guest[q]
                   /\ guest' = [p \in Pages |-> IF p < q THEN opened[p] ELSE guest[p]]
             /\ handler' = "Poisoned" /\ Goto(t, "poison")
             /\ UNCHANGED <<admitted, readers>>
    /\ job' = [job EXCEPT ![t] = NoJob]
    /\ UNCHANGED <<pagerVars, co, contents, life, acting, writer, waiting, host, removal,
                   faults, removals, ctl>>

\* fail_closed_for_error and the end of the action; a failed host fault ends the process.
FailClosed(t) ==
    /\ pc[t] = "failing"
    /\ co' = Close(co, "TransitionFailure")
    /\ acting' = acting \ {t}
    /\ job' = [job EXCEPT ![t] = NoJob]
    /\ IF t \in Vcpus THEN Goto(t, "poison") /\ UNCHANGED <<pagerVars, ctl>> ELSE ExitProcess
    /\ UNCHANGED <<contents, life, gateVars, planeVars, removal, faults, removals>>

\* poison_after_failure, and the lease a failed protection still holds; the vCPU's run fails.
Poison(t) ==
    /\ pc[t] = "poison"
    /\ handler' = "Poisoned"
    /\ co' = Close(co, "TransitionFailure")
    /\ readers' = readers \ {t} /\ Goto(t, "stopped")
    /\ UNCHANGED <<pagerVars, contents, life, acting, writer, waiting, host, guest, admitted, job,
                   removal, faults, removals, ctl>>

ThreadStep(t) ==
    \/ TakeFault(t) \/ Fault(t) \/ PageWait(t) \/ PopulationWait(t) \/ RequestPage(t)
    \/ SourceFails(t) \/ BeginPublication(t) \/ Install(t) \/ CommitPublication(t)
    \/ OpenPresent(t) \/ TakeLease(t) \/ HostReturns(t) \/ Admit(t) \/ FailClosed(t) \/ Poison(t)

-----------------------------------------------------------------------------
(* Removal: ResolverInner::remove.                                           *)

RemoverIdle == <<pagerVars, contents, life, planeVars, job, faults, ctl>>

\* begin_action.
RequestRemoval ==
    /\ pc[Remover] = "idle" /\ life = "Active" /\ removals < MaxRemovals
    /\ \E rg \in Ranges : removal' = [pages |-> rg, gen |-> 0]
    /\ removals' = removals + 1
    /\ acting' = acting \cup {Remover}
    /\ Goto(Remover, "gate")
    /\ UNCHANGED <<RemoverIdle, co, gateVars>>

\* begin_transition_write finds the gate taken: from here on no reader enters before the remover.
QueueRemoval ==
    /\ pc[Remover] = "gate" /\ ~WriterMayEnter /\ Remover \notin waiting
    /\ waiting' = waiting \cup {Remover}
    /\ Goto(Remover, "gate")
    /\ UNCHANGED <<RemoverIdle, co, acting, readers, writer, removal, removals>>

\* The gate, then begin_removal: every population of the range retires at once.  A range with an
\* action in it would be waited for.
BeginRemoval ==
    /\ pc[Remover] = "gate" /\ WriterMayEnter
    /\ LET rg == removal.pages
           slots == {o \in co.ops : o.kind = "page" /\ o.stage = "Loading" /\ o.pages \subseteq rg
                                   /\ o.waiters # 0}
           refused == \/ Cardinality(co.ops) >= MaxInFlight
                      \/ Cardinality(co.done) + Cardinality(slots) > MaxWaiters
       IN \/ /\ co.phase # "Active" \/ refused
             /\ Goto(Remover, "unwind") /\ UNCHANGED <<co, removal>>
          \/ /\ co.phase = "Active" /\ ~refused
             /\ \A p \in rg : co.page[p] \notin {"Publishing", "Removing"}
             /\ co' = BeginRemovalState(co, rg)
             /\ removal' = [removal EXCEPT !.gen = co.nextGen]
             /\ Goto(Remover, "revoke")
    /\ writer' = Remover /\ waiting' = waiting \ {Remover}
    /\ UNCHANGED <<RemoverIdle, acting, readers, removals>>

\* Mutant: revocation keeps the admissions it undoes.
AdmissionsKept == admitted

Readmittable == [v \in Vcpus |-> {a \in admitted[v] : a.pages \cap removal.pages = {}}]

\* HvfLazyGuestFaultHandler::revoke.
Revoke ==
    /\ pc[Remover] = "revoke"
    /\ \/ /\ handler = "Active"
          /\ guest' = [p \in Pages |-> IF p \in removal.pages THEN {} ELSE guest[p]]
          /\ admitted' = Readmittable
          /\ Goto(Remover, "hide") /\ UNCHANGED <<handler, co>>
       \/ /\ handler # "Active"
          /\ Goto(Remover, "unwind") /\ UNCHANGED <<handler, guest, admitted, co>>
       \/ /\ handler = "Active" /\ "revoke" \in PlatformFaults
          /\ handler' = "Poisoned" /\ co' = Close(co, "TransitionFailure")
          /\ Goto(Remover, "unwind") /\ UNCHANGED <<guest, admitted>>
    /\ UNCHANGED <<pagerVars, contents, life, acting, gateVars, host, job, removal, faults,
                   removals, ctl>>

\* Mutant: hiding takes only the write permission.
HiddenForWriting == [p \in Pages |-> IF p \in removal.pages THEN host[p] \ {"W"} ELSE host[p]]

Hidden == [p \in Pages |-> IF p \in removal.pages THEN {} ELSE host[p]]

\* mapping.hide and zero_hidden.
HideAndZero ==
    /\ pc[Remover] = "hide"
    /\ \/ /\ host' = Hidden
          /\ contents' = [p \in Pages |-> IF p \in removal.pages THEN "zero" ELSE contents[p]]
          /\ Goto(Remover, "request")
       \/ /\ "hide" \in PlatformFaults
          /\ host' \in {host, Hidden} /\ UNCHANGED contents
          /\ Goto(Remover, "unwind")
    /\ UNCHANGED <<pagerVars, co, life, acting, gateVars, guest, handler, admitted, job, removal,
                   faults, removals, ctl>>

RequestRemove ==
    /\ pc[Remover] = "request"
    /\ Submit(Remover, "remove", removal.pages, removal.gen)
    /\ Goto(Remover, "await")
    /\ UNCHANGED <<peerVars, toVmm, control, answer, worker, co, contents, life, acting, gateVars,
                   planeVars, job, removal, faults, removals, ctl>>

\* The answer of the peer, and commit_acknowledged when it is one.
CommitRemoval ==
    /\ pc[Remover] = "await" /\ reply[Remover] # NoReply
    /\ \/ /\ reply[Remover] = "err" /\ co' = Close(co, "PeerFailure")
          /\ Goto(Remover, "unwind") /\ UNCHANGED <<writer, acting, removal>>
       \/ /\ reply[Remover] = "ok" /\ co.phase # "Active"
          /\ co' = FinishAction(co, removal.gen)
          /\ Goto(Remover, "unwind") /\ UNCHANGED <<writer, acting, removal>>
       \/ /\ reply[Remover] = "ok" /\ co.phase = "Active"
          /\ co' = [co EXCEPT !.ops = {o \in @ : o.gen # removal.gen}, !.actions = @ - 1,
                     !.page = [p \in Pages |-> IF p \in removal.pages THEN "Absent" ELSE @[p]]]
          /\ writer' = "none" /\ acting' = acting \ {Remover} /\ removal' = NoRemoval
          /\ Goto(Remover, "idle")
    /\ reply' = [reply EXCEPT ![Remover] = NoReply]
    /\ UNCHANGED <<vmmVars, peerVars, toPeer, toVmm, client, pending, control, answer, worker,
                   fanout, taken, contents, life, readers, waiting, planeVars, job, faults,
                   removals, ctl>>

\* An error unwinds the guard, then the gate; fail_closed_for_error and the action follow.
UnwindRemoval ==
    /\ \/ /\ pc[Remover] = "unwind"
          /\ co' = DropGuard(co, removal.gen) /\ writer' = "none"
          /\ removal' = NoRemoval
          /\ Goto(Remover, "failing") /\ UNCHANGED acting
       \/ /\ pc[Remover] = "failing"
          /\ co' = Close(co, "TransitionFailure") /\ acting' = acting \ {Remover}
          /\ Goto(Remover, "idle") /\ UNCHANGED <<writer, removal>>
    /\ UNCHANGED <<RemoverIdle, readers, waiting, removals>>

RemoverStep ==
    RequestRemoval \/ QueueRemoval \/ BeginRemoval \/ Revoke \/ HideAndZero \/ RequestRemove \/ CommitRemoval
    \/ UnwindRemoval
-----------------------------------------------------------------------------
(* The controller: connect_with_session, the bridge's install, cancel and    *)
(* teardown, and the drop of the pager.                                      *)

ControllerIdle == <<contents, workVars>>

ConnectFails ==
    /\ ctl = "connecting" /\ EstablishFails
    /\ co' = Close(co, IF Arrived("Ready") THEN "TransitionFailure" ELSE "PeerFailure")
    /\ ctl' = "done"
    /\ UNCHANGED <<ControllerIdle, life, acting, gateVars, planeVars>>

\* install: every page is protected and the resolver becomes active.
Activate ==
    /\ ctl = "connecting" /\ client # "Connecting" /\ life = "Prepared"
    /\ \/ /\ host' = [p \in Pages |-> {}] /\ life' = "Active" /\ ctl' = "serving"
       \/ /\ "protect" \in PlatformFaults
          /\ ctl' = "drop" /\ UNCHANGED <<host, life>>
    /\ UNCHANGED <<ControllerIdle, pagerVars, co, acting, gateVars, guest, handler, admitted>>

\* HvfLazyPager::cancel: the coordinator first, then the client.
RequestCancel ==
    /\ ctl = "serving"
    /\ co' = Close(co, "Requested") /\ ctl' = "cancel"
    /\ UNCHANGED <<ControllerIdle, pagerVars, life, acting, gateVars, planeVars>>

SendCancel ==
    /\ \/ ctl = "cancel" /\ ctl' = "cancelWait"
       \/ ctl = "sourceCancel" /\ ctl' = "sourceWait"
    /\ Cancel
    /\ UNCHANGED <<ControllerIdle, peerVars, toVmm, worker, co, life, acting, gateVars, planeVars>>

\* close and restore_all_rw: refuse new actions, drain them, pass through the gate once, open
\* the whole mapping; a failure to open it ends the process.
Teardown ==
    /\ \/ /\ ctl \in {"serving", "cancelled"}
          /\ life' = "Closing" /\ ctl' = "drain" /\ UNCHANGED <<waiting, host>>
       \/ /\ ctl = "drain" /\ acting = {}
          /\ life' = "Closed" /\ waiting' = waiting \cup {"teardown"}
          /\ ctl' = "gate" /\ UNCHANGED host
       \/ /\ ctl = "gate" /\ WriterMayEnter
          /\ waiting' = waiting \ {"teardown"} /\ ctl' = "restore" /\ UNCHANGED <<life, host>>
       \/ /\ ctl = "restore" /\ host' = [p \in Pages |-> {"R", "W"}]
          /\ ctl' = "restored" /\ UNCHANGED <<life, waiting>>
    /\ UNCHANGED <<ControllerIdle, pagerVars, co, acting, readers, writer, guest, handler,
                   admitted>>

RestoreFails ==
    /\ ctl = "restore" /\ "protect" \in PlatformFaults
    /\ co' = Close(co, "TransitionFailure")
    /\ ExitProcess
    /\ UNCHANGED <<contents, job, removal, faults, removals, life, acting, gateVars, planeVars>>

\* HvfLazyPageSourceTeardown: shut the source down, or cancel it when the owner failed.
StopSource ==
    /\ ctl = "restored"
    /\ \/ /\ Shutdown /\ ctl' = "shutdownWait" /\ UNCHANGED co
       \/ /\ co' = Close(co, "Requested") /\ ctl' = "sourceCancel"
          /\ UNCHANGED <<vmmVars, toPeer, client, pending, control, answer, reply, fanout, taken>>
    /\ UNCHANGED <<ControllerIdle, peerVars, toVmm, worker, life, acting, gateVars, planeVars>>

SourceStopped ==
    /\ answer # "none" /\ answer' = "none"
    /\ \/ ctl = "cancelWait" /\ ctl' = "cancelled" /\ UNCHANGED co
       \/ ctl = "sourceWait" /\ ctl' = "drop" /\ UNCHANGED co
       \/ /\ ctl = "shutdownWait" /\ ctl' = "drop"
          /\ co' = IF answer = "err" THEN Close(co, "PeerFailure") ELSE co
    /\ UNCHANGED <<ControllerIdle, vmmVars, peerVars, toPeer, toVmm, client, pending, control,
                   reply, worker, fanout, taken, life, acting, gateVars, planeVars>>

\* Drop for HvfLazyPager and for the PagerClient in it.
DropPager ==
    /\ ctl = "drop" /\ ctl' = "done"
    /\ co' = Close(co, "Teardown")
    /\ Terminalize
    /\ UNCHANGED <<ControllerIdle, vmmVars, peerVars, toPeer, toVmm, control, answer, reply, worker,
                   life, acting, gateVars, planeVars>>

ControllerStep ==
    ConnectFails \/ Activate \/ RequestCancel \/ SendCancel \/ Teardown \/ RestoreFails
    \/ StopSource \/ SourceStopped \/ DropPager

\* CoordinatorTerminalObserver::terminal, called by the client's terminal fan-out.
Observe ==
    /\ Observed
    /\ co' = Close(co, "PeerFailure")
    /\ UNCHANGED <<ControllerIdle, life, acting, gateVars, planeVars, ctl>>

SessionStep ==
    \/ EstablishHello /\ UNCHANGED memoryVars
    \/ EstablishRegions /\ UNCHANGED memoryVars
    \/ EstablishReady /\ UNCHANGED memoryVars
    \/ PeerReceive /\ UNCHANGED memoryVars
    \/ PeerConfirm /\ UNCHANGED memoryVars
    \/ PeerAnswer /\ UNCHANGED memoryVars
    \/ PeerMisbehaves /\ UNCHANGED memoryVars
    \/ ReleasePending /\ UNCHANGED memoryVars
    \/ WorkerReceive /\ UNCHANGED memoryVars
    \/ WorkerPollFails /\ UNCHANGED memoryVars
    \/ WorkerExits /\ UNCHANGED memoryVars

\* The process ended, or the memory was torn down.
Stopped == (Exited \/ ctl = "done") /\ UNCHANGED vars

LazyNext ==
    \/ \E t \in Threads : ThreadStep(t)
    \/ RemoverStep \/ ControllerStep \/ Observe \/ SessionStep \/ Stopped

LazySpec == LazyInit /\ [][LazyNext]_vars

\* The host schedules every thread that can run and every deadline of the client passes.  The
\* peer need not answer, no thread need fault and nobody need cancel or tear down.
Resolving(t) ==
    \/ Fault(t) \/ PageWait(t) \/ PopulationWait(t) \/ RequestPage(t) \/ SourceFails(t)
    \/ BeginPublication(t) \/ Install(t) \/ CommitPublication(t) \/ OpenPresent(t) \/ TakeLease(t)
    \/ HostReturns(t) \/ Admit(t) \/ FailClosed(t) \/ Poison(t)
Removing ==
    \/ QueueRemoval \/ BeginRemoval \/ Revoke \/ HideAndZero \/ RequestRemove \/ CommitRemoval
    \/ UnwindRemoval
Controlling ==
    \/ (EstablishHello \/ EstablishRegions \/ EstablishReady) /\ UNCHANGED memoryVars
    \/ ConnectFails \/ Activate \/ SendCancel \/ (ctl # "serving" /\ Teardown)
    \/ RestoreFails \/ StopSource \/ SourceStopped \/ DropPager
Working == WorkerReceive \/ WorkerPollFails \/ WorkerExits

LazyFairSpec ==
    /\ LazySpec
    /\ \A t \in Threads : WF_vars(Resolving(t))
    /\ WF_vars(Removing)
    /\ WF_vars(Controlling)
    /\ WF_vars(Observe)
    /\ WF_vars(ReleasePending /\ UNCHANGED memoryVars)
    /\ WF_vars(Working /\ UNCHANGED memoryVars)

-----------------------------------------------------------------------------
(* Properties.                                                               *)

InCoordinator(t) == pc[t] \in {"popwait", "pagewait"}
Restored == ctl \in {"restored", "shutdownWait", "sourceCancel", "sourceWait", "drop", "done"}
Mapped == life # "Prepared" /\ ~Restored

\* A removed page never shows the snapshot image again: once the peer has dropped a page, the
\* page only becomes present with contents that were requested after the removal, whatever
\* answers to earlier requests are still in flight (begin_publication refuses retired tickets).
NoResurrection ==
    \A p \in Pages : co.page[p] = "Present" /\ droppedAt[p] > 0 => contents[p] = "zero"

\* While the mappings are protected, a page that is absent or loading is closed to host and
\* guest, and a page being published is closed to the guest.  A page whose removal got past
\* revoke is closed to the guest and past hide to the host; where hiding itself cannot fail, it
\* stays closed for good when the peer or the commit fails the removal after that.
PlanesFollowPages ==
    Mapped /\ ~Exited => \A p \in Pages :
        /\ co.page[p] \in {"Absent", "Loading"} => host[p] = {} /\ guest[p] = {}
        /\ co.page[p] = "Publishing" => guest[p] = {}
        /\ co.page[p] = "Removing" /\ handler = "Active" =>
            /\ pc[Remover] # "revoke" => guest[p] = {}
            /\ \/ pc[Remover] \in {"request", "await"}
               \/ pc[Remover] \notin {"revoke", "hide"} /\ "hide" \notin PlatformFaults
               => host[p] = {} /\ contents[p] = "zero"

\* A resolution lease keeps its pages: while a thread holds one, every page it resolved is
\* present and open to the host, so a vCPU is only admitted to pages no removal has begun to
\* take away (the gate is held from the last check to the end of handle).
LeaseKeepsPages ==
    \A t \in Threads : pc[t] = "leased" =>
        \A p \in job[t].pages : co.page[p] = "Present" /\ (Mapped => host[p] # {})

\* The waiter count is the number of waiting threads, and while the coordinator is active every
\* thread that waits for a population is owed exactly one wake-up by its operation or by the
\* operation's completion, so none waits for an operation that is gone and no completion is
\* left over to fill the completion table.
WaitersAreOwed ==
    /\ Exited \/ co.waiters = Cardinality({t \in Threads : InCoordinator(t)})
    /\ co.phase = "Active" =>
        \A g \in 1..co.nextGen :
            LET owed == {o.waiters : o \in {x \in co.ops : x.gen = g /\ x.kind = "page"}}
                        \cup {d.remaining : d \in {x \in co.done : x.gen = g}}
                n == Cardinality({t \in Threads : pc[t] = "popwait" /\ job[t].gen = g})
            IN IF n > 0 THEN n \in owed ELSE owed \subseteq {0}
    /\ Cardinality(co.done) <= MaxWaiters

\* A recorded admission is still in force: the vCPU's last admitted access has every permission
\* it needs, so a repeated exit for it really is the lack of progress that handle reports and a
\* removal in between cannot make an innocent vCPU fail.
AdmissionIsInForce ==
    \A v \in Vcpus : \A a \in admitted[v] : \A p \in a.pages :
        Need(a.access) \subseteq guest[p]

\* Every request outstanding at the pager belongs to an operation the active coordinator still
\* counts, retired ones included, so a request the coordinator admits is never refused by the
\* session's own limit.
RequestsAreCounted ==
    co.phase = "Active" /\ vmm = "Active" =>
        /\ \A r \in outstanding : \E o \in co.ops : o.gen = r.gen /\ o.pages = r.pages
        /\ \A r, s \in outstanding : r.gen = s.gen => r = s
        /\ Cardinality(co.ops) <= MaxInFlight

\* The host mapping is opened for good only when no resolution, removal or lease is left, and no
\* action starts afterwards (close drains the actions and passes the gate before restore_all_rw).
RestoreIsQuiet ==
    Restored => acting = {} /\ readers = {} /\ writer = "none"

\* The coordinator closes once: it never becomes active again, and the reason recorded first is
\* the reason every later caller is given, whichever of cancel, peer failure, transition failure
\* and teardown race.
ClosesOnce ==
    [][co.phase # "Active" => co'.phase # "Active" /\ co'.reason = co.reason]_vars
\* Whatever the peer does or fails to do, every fault, every removal, a cancel and a teardown
\* come to an end, so that with finitely many of them there is always a later moment with none
\* in progress: nobody waits for ever on a population, on the gate, on a request the dead client
\* dropped or on an action that never drains.
EverythingReturns ==
    []<>(/\ \A c \in Callers : pc[c] \in {"idle", "stopped", "exited"}
         /\ ctl \in {"serving", "cancelled", "done", "exited"})
=============================================================================
