# Verification of bangbang

bangbang is a virtual machine monitor for macOS on Apple silicon. It runs Linux
guests through Hypervisor.framework (HVF) and offers a Firecracker-shaped API.
This directory holds TLA+ models of its concurrent core and of its snapshots, the
TLC configurations that check them on small instances, and TLAPS proofs of the
invariants that matter most. Source paths below are relative to the repository,
`src/`.

Contents: [1 the system](#1-the-system), [2 modules and
code](#2-modules-and-the-code-they-model), [3 runs](#3-runs),
[4 fairness](#4-fairness), [5 proofs](#5-proofs), [6 disagreements
found](#6-disagreements-between-the-code-and-its-documentation), [7 what is not
modelled](#7-what-is-not-modelled), [8 plan](#8-plan), [9 how to run](#9-how-to-run).

## 1. The system

| Part | State | Operations | Talks to |
|---|---|---|---|
| Runner threads (`hvf/src/runner.rs`) | one command in flight, pending PSCI call, retained virtual-timer wait, HVF's sticky exit | run, wait, batch exit | coordinator, through a completion channel |
| Run coordinator (`hvf/src/coordinator.rs`) | phase, drain, undelivered barriers; per member: online, dispatch, active run, next generation, cancellation debt | request, dispatch, activate, receive, resume, suspend, set online, capture, shutdown | runners below, session above, control requests from any thread |
| PSCI power table (`hvf/src/psci.rs`) | power state and one open transaction per CPU | begin, finish, commit, abort, abandon of CPU_ON, CPU_OFF, CPU_SUSPEND | session |
| vCPU session (`hvf/src/session_vcpu.rs`) | translated steps, parked suspends | `run_step`, PSCI processing, snapshot pause | coordinator, power table, run loop |
| Boot run loop (`hvf/src/startup.rs`) | stop token, control wakeup token, retry tokens | one window of at most 1024 steps | session, devices |
| Run-loop supervisor (`bangbang/src/vmm.rs`) | status cell, pause gate, command admission, bounded command queue, snapshot lease | pause, resume, device updates, snapshot capture, fail, stop and join | worker thread, API thread, packet thread |
| Pager session and client (`pager`) | session state, outstanding requests, pending table, deadlines | establish, request, answer, cancel, shutdown | the process that owns the pages of a restored snapshot |
| Lazy memory (`runtime/src/lazy_memory.rs`, `hvf/src/lazy_*.rs`) | page states, operations in flight, waiters, permission planes, gate, admissions | host fault, guest fault, publish, remove, cancel, tear down | vCPUs, the exception server, pager client |
| Dirty tracking (`hvf/src/dirty.rs`, `runtime/src/memory_dirty.rs`) | dirty bitmap, write permissions, last admission of each vCPU | first write, stale exit, device write, epoch reset | vCPUs, devices, virtio-mem, snapshots |
| virtio-mem (`hvf/src/memory.rs`, `runtime/src/memory_hotplug.rs`) | regions, plugged blocks | plug, unplug, roll back | guest memory, dirty tracking |
| Snapshot artifacts and lineage (`runtime/src/snapshot_*`) | staged files, visible entries, live base | prepare, capture, seal, publish, abort, rebase, restore | file system, boot worker |
| VMM controller, API server (`bangbang`, `api`) | instance state, configuration | actions of the HTTP API | supervisor |
| Contained session, launcher, vmnet provider | handshake and grant state, worker supervision | connect, grant, revoke, terminate | processes over Unix sockets |
| Virtio queues and devices (`runtime`) | rings, executors, limiters | notify, dispatch, complete, retry | guest memory, run loop |

`PROJECT.json` lists all 26 components with their files, and 40 hazards at the
lines where they bite.

What makes this code hard:

- HVF offers only a batch exit that is *sticky*: an exit aimed at a run that has
  just ended cancels the next run of that vCPU. The coordinator records a
  *cancellation debt* for it.
- A control request (wakeup, pause, stop) comes from any thread at any moment,
  also between two lock acquisitions of the owner.
- PSCI calls span several calls into the coordinator. A control or a failure
  between two of them must not leave power state and scheduling apart.
- The worker thread is reached by a queue, a gate with a generation counter, a
  wakeup token and vCPU interruption. Each has its own lock or atomic.
- A snapshot takes the whole command queue for itself while stop, failure and
  wakeups keep arriving.
- A lazily restored page is populated by whoever faults first, removed by another
  thread, and answered by a process that may be late, silent or gone.
- A Diff snapshot is right only if the bitmap, the write permissions, the live
  base and the files on disk agree, and each of them changes at its own moment.

## 2. Modules and the code they model

| Module | Lines | Role |
|---|---|---|
| `RunCoordinator`, `MCRunCoordinator` | 1050 | coordinator and runners, their properties |
| `RunTopology` | 140 | what the coordinator promises, abstractly |
| `RunCoordinatorCoreProofs`, `RunCoordinatorProofs` | 1410 | inductive invariant and theorems |
| `RunProtocolProofs` | 1310 | refinement of `RunTopology`; answers, offline members, terminal outcomes, internal errors |
| `PsciPower`, `PsciPowerProofs` | 320 | power table and its proofs |
| `BootVcpuSession`, `MCBootVcpuSession` | 430 | composition of session, coordinator and power table |
| `BootRunLoop`, `MCBootRunLoop` | 760 | supervisor over the abstract topology |
| `BootRunLoopProofs` | 1740 | its inductive invariant and theorems |
| `PagerSession` | 310 | both halves of the pager protocol, and the client |
| `LazyMemory`, `MCLazyMemory` | 770 | lazy memory over the pager session |
| `LazyMemoryProofs` | 2400 | its inductive invariant and theorems |
| `GuestPages`, `DirtyTracking`, `MCDirtyTracking` | 370 | guest memory, hotplug and dirty tracking |
| `SnapshotStore` | 240 | files, publication steps, Diff layers and rebase |
| `SnapshotChain`, `MCSnapshotChain` | 290 | lineage, sessions and crashes over both |
| `SnapshotCaptureProofs`, `SnapshotChainProofs` | 1850 | inductive invariants and theorems of dirty tracking and the snapshot chain |

**RunCoordinator** models `HvfVcpuRunCoordinator`, `HvfVcpuRunControl` and the
runner side they need.

- One action per critical section of the state mutex. Where a method gives the
  mutex up and takes it again, `owner` has a control state in between. For
  example `submit_indexes` inside `receive_event` is `owner = "submit"`.
- `phase`, `kind`, `reason`, `remaining`, `acks`, `waiters` are
  `CoordinatorPhase::Draining(DrainState)`. `pending` is `pending_events`.
- `exits`, `signal`, `call` and `run` are the runner side: HVF's sticky exit,
  the retained timer wait, the pending PSCI call and the runner's progress.
- A guest outcome is one of a small set. Register values, PPIs and MPIDRs are
  left out; the register and PPI operations share one action, `member_operation`.

**RunTopology** is the abstract specification: phase, reason of the drain, members
with an active run, members inside a run, and one undelivered barrier.
`RunCoordinator` implements it (`ImplementsTopology`), hiding generations, debts,
channels and the owner's unlocked windows.

**PsciPower** models `PsciCpuPowerCoordinator`: one action per method, including
calls with a stale token, which leave the table as it is. It is model-checked
inside the session and proved by itself.

**BootVcpuSession** composes the coordinator and `PsciPower` with the vCPU session
and the step loop. Each call the session makes into the coordinator is one
action, so requests of other threads fit in between. `process_cpu_on`, for
example, is cut into the power transaction, the activation, and the answer to
the caller.

**BootRunLoop** models the supervisor, built on `RunTopology`.

- `worker` is the control state of the worker thread: drain, gate, run-loop
  window, the stages of a snapshot command, and the cleanup.
- `at[c]` is the control state of a calling thread inside
  `BootRunLoopCommandHandle::run` or `run_snapshot_quiesced`. The worker has an
  entry too, for the steps that a terminal capture failure shares with the
  `fail_*` methods.
- `admission`, `queue` and the send are one action because the code holds the
  admission lock through the nonblocking send.
- A device update is one command that succeeds, breaks the device past repair,
  or panics. A capture is sealed, fails, or fails terminally. All members are
  online.
- `AuxiliaryWakeup` is what limiter-retry threads and the packet thread do to
  the topology.

**PagerSession** models `VmmSession`, `PeerSession` and `PagerClient` with its
receive worker. A frame is a record, the two streams keep order, and what is in
flight towards a peer that goes away is lost. The peer may be silent, report an
error, die, or repeat an answer (`PeerFaults`). The peer process itself is not in
the repository; its session half is.

**LazyMemory** composes the page coordinator, the host fault resolver, the guest
fault handler and the pager adapter.

- `co` is `CoordinatorState`: page states, operations with their generation, waiters
  and completions. Each entry into the coordinator is one action.
- `readers`, `writer`, `waiting` are the writer-preferring transition gate;
  `acting` the actions that `close` drains. The remover counts its action, then
  queues for the gate, then enters: from the moment it queues no reader enters.
- `host` and `guest` are the two permission planes. `allow` assigns the host
  protection rather than adding to it, as the code does. Both protect page by page:
  a call that fails leaves the pages before the failing one open.
- A request beyond the in-flight limit closes the memory: the code fails closed.
- The Mach exception server is one thread that resolves one fault at a time.
- `begin_removal` can wait for range actions and `begin_publication` can meet a
  foreign stage. In the composition neither happens, since the gate excludes it.

**DirtyTracking** models the regions, the bitmap, the stage-two write permission
and virtio-mem requests. A page stands for a tracked page, and a hot page is also a
block. `exits[m]` is an exit on its way from the guest to the handler, so another
member may change the page first. `handle_exception` first gives WRITE back
(`RestoreWrite`) and then sets the restored bit and the bitmap (`MarkFirstWrite`).
The tracker's lock is held in between (`LockFree`), but it does not stop the guest:
another vCPU may store to the page before it is marked. The protection call may fail.
Marking cannot: `prepare_add` gives every mapped page a bitmap, so the error path at
`dirty.rs:800` is left out.

**SnapshotStore** gives every directory entry two values: what the file system shows
and what a loss of power leaves (`memEntry` and `memDisk`). A sync of a directory
copies one to the other. A power loss picks, for each entry, either one. The two
entries of a slot are taken to lie in separate directories, the weaker case.
`captured` remembers the guest memory at each capture. `Over` is what a layer over its
base stands for, and a rebase folds the two into one image.

**SnapshotChain** composes both with `LiveSnapshotLineage` and
`SnapshotCaptureCancellation`. A publication goes through the stages of
`snapshot_artifact/macos.rs`. At each of them it may fail, be cancelled, or be cut
off by the end of the process or by a loss of power. A later session starts fresh
or from what is on disk.

- The process dispatches Full snapshots to the v2 writer and Diff snapshots to the
  v2.13 writer (`bangbang/src/vmm.rs:7444`). The native-v1 writer is deliberately not
  dispatched (`vmm.rs:10788`), so v1 is only loaded (`LoadLegacy`).
- A cancel that comes after the seal waits for the publication.
- A session that does not track selects every page and needs no base.
- A terminal lineage means that the session is gone, so nothing follows it. This holds
  for an uncertain commit and for every way the epoch reset can fail: a protection call
  that is rolled back, a rollback that fails, a poisoned tracker.
- Image 0 is the zero base of a fresh tracked session. `Unavailable` is no base.

Definitions whose comment begins with "Mutant:" are altered forms of the
definition after them. No run uses them; each breaks the property that
`PROJECT.json` pairs it with, which shows that the property is sensitive to that
definition.

## 3. Runs

| Run | States | Checks |
|---|---|---|
| `coord_safety` | 2.1M | Two requesters, two vCPUs, submissions that may fail after a peer was started. `QuiescedIsQuiet`: a paused or stopped topology executes nothing. `BarrierCoversSnapshot`: a barrier is answered only after all runs of its snapshot. `DebtIsPromised`: a debt is one HVF still owes. `BarrierHidesNoTerminal`. `OwnerHasWork`: the owner never blocks with nothing in flight. `AnsweredOnce`. |
| `coord_faults` | 0.5M | Submissions, batch exits, runs and joins may fail. `NoProtocolError`, `OfflineIsInert`, the refinement `ImplementsTopology`, and the liveness property `RequestsAreAnswered`. |
| `session_power` | 0.6M | One requester and failing framework calls in the middle of PSCI transactions. `LifecycleAgreement`, `NoRunWhileOff`, `SomeCpuOn`, `NoLostCall`, `PowerAgreement`, and the liveness property `PsciCallsAreAnswered`. |
| `loop_safety` | 2.8M | Two calling threads and `stop_and_join`, guest exits, failing dispatch, cleanup and interruption. `SnapshotCommandIsLast`, `LeaseMeansPaused`, `PausedMeansParked`, `SleepMissesNoCommand`, `NobodyAwaitsADeadWorker`, `ShutdownIsFinal`. |
| `loop_liveness` | 0.4M | Two vCPUs. `CommandsAreAnswered`, `StopReturns`. |
| `lazy_faults` | 2.2M | Exception server, vCPU and removal of one page, cancel, teardown, a pager that dies. `NoResurrection`: removed bytes never come back. `WaitersAreOwed`, `RequestsAreCounted`, `RestoreIsQuiet`, `ClosesOnce`. |
| `lazy_span` | 0.27M | A vCPU and a removal over two pages, failing platform calls, a repeated answer. `PlanesFollowPages`: absent pages are closed to host and guest. `LeaseKeepsPages`, `AdmissionIsInForce`, and the liveness property `EverythingReturns`. |
| `snap_crash` | 0.5M | Two snapshots to two slots, a failure, cancellation, crash or power loss at every step, and a restart. `ArtifactsAreExact`, `CommitsStandOnMemory`, `RefusedIsInvisible`, `BaseSurvives`, `AdvancesToDurable`. |
| `snap_hotplug` | 0.5M | Two vCPUs and a device write a hot page while it is plugged, unplugged and rolled back. `WritesAreSeen`, `CleanMatchesBase`. |
| `session_wakeup`, `coord_snapshot_terminal`, `dirty_replug` | | Each refutes one documented statement, see section 6. |

Bounds, and why they are enough to reach the interesting cases:

- `N = 2`. Every race in the coordinator is between one member's run and either
  a peer's run or a control. Two members give a drain a finished and an
  unfinished part. The proofs cover every `N`.
- `MaxGeneration = 2..4` stands for `u64::MAX`. Three generations allow a run, the
  run its late exit hits, and the run after the debt is settled. At the limit
  the models take the code's own path, `GenerationExhausted`.
- Two requesters, one request each, in `coord_safety`: the second may join, coalesce
  with, or follow the first. Requesters are interchangeable, hence the symmetry
  set. The other runs have one requester and spend the states on failures.
- `Reasons` are the ones the code uses from other threads, wakeup and stop; the
  owner adds pause and shutdown.
- `Natural` is chosen per run. `Handled` and `GuestReset` are an ordinary and a
  terminal outcome; the PSCI outcomes appear where they are handled.
- `LimitParks` says whether a step limit may end the run loop with runs active
  before a snapshot pause. It is FALSE in the largest coordinator run for its size.
- Loop: `Capacity = 2` with two callers gives a snapshot with a command before it or
  refused behind it, and a full queue. `MaxSteps` stands for 1024: a window that
  returns by wakeup and one that returns by its limit.
- Lazy: one page and three threads give every race on a page, two pages one range
  that is half loaded. `MaxInFlight` above and at the number the peer selects. One
  removal suffices for a late answer to meet it. Two faults per thread let an
  admission outlive a removal.
- Snapshots: two captures make a Full followed by a Diff and a Diff of a Diff; two
  slots let a rebase fold one into the other; two values tell a stale byte. One
  restart follows a crash. Slots, pages and members are interchangeable.
- `CHECK_DEADLOCK FALSE` in the `loop_*` and `snap_*` runs: a paused machine whose
  callers have made all their calls, and a machine that has made all its
  snapshots, is at rest.

Larger instances were checked once and also pass: `SnapshotChain` with one member, two
boot pages, two slots and a restart (7.6M states), with three captures in three slots
(2.3M), and with a boot and a hot page (2.0M); `DirtyTracking` with two hot pages and
two members (0.9M); `BootRunLoop` with two members and two calls (1.8M, liveness) and
with `MaxSteps = 2` (3.6M).

## 4. Fairness

- Runner threads: weak fairness of entering the guest, of taking a pending exit
  and of returning from a canceled wait. A guest that nobody interrupts may run
  for ever, so its natural exits are not fair.
- Owner: it finishes the operation it is in. Run steps are strongly fair because
  the loop makes finitely many other calls between two steps. A snapshot's
  caller resumes (`recover_native_v2_source` runs on every path). After an error
  the session is dropped, which shuts the coordinator down.
- `BootRunLoop`: every thread that is not blocked is scheduled, and a run leaves the
  guest once a drain has canceled it. New calls, `stop_and_join` and auxiliary
  wakeups are not fair. `loop_liveness` assumes that interruption does not fail
  and that the guest does not end the machine while a snapshot pause collects:
  section 6 shows what happens otherwise.
- `loop_liveness` has one serial caller, because the process calls the supervisor
  from one thread. With concurrent callers a snapshot command that is admitted
  just after a resume requests no wakeup and waits for the run loop to return.
- `LazyMemory`: threads that resolve a fault, the remover, the controller, the client's
  receive worker and its terminal fan-out are scheduled, and the client's deadlines
  pass. The pager peer owes nothing. No thread need fault, and nobody need cancel or
  tear down.

## 5. Proofs

All theorems hold for every value of the constants: any number of vCPUs, requesters,
pages, slots and captures, and any set of faults.

`RunCoordinatorCoreProofs` and `RunCoordinatorProofs`:

| Theorem | Statement |
|---|---|
| `CoreInvariant` | the inductive invariant `CoreInv /\ BookType /\ OwnerType` |
| `TypeCorrect` | `Spec => []TypeOK` |
| `QuiescedAlwaysQuiet` | `Spec => []QuiescedIsQuiet` |
| `BarriersCoverSnapshots` | `Spec => []BarrierCoversSnapshot` |
| `DrainsTrackActive` | a drain waits for exactly the runs that are still active |
| `BarrierQueueBounded` | at most one undelivered barrier is queued |
| `StopsAreFinal` | an acknowledged stop is never undone |

None of these is inductive alone. `QuiescedIsQuiet` speaks of runner threads while
the actions that pause only look at the coordinator's books. The strengthening
`CoreInv` links the two:

- `Runs`: a runner that executes holds the run its member has active.
- `Chan`: a completion in the channel belongs to the active run of its member,
  its runner has finished, and no member has two.
- `Drained`, `Quieted`, `Queued`: a drain waits for the active runs; a quiet phase
  has none; a barrier queued in a stopped topology is a stop barrier, so that
  nothing coalesces it back to running.
- `Snaps`, `Stops`: the tokens of an unanswered requester's snapshot that are still
  active are in the drain, and a drain that a stop has joined has a stop reason.

The proof goes action by action. `BookType` and `OwnerType` carry the rest of the type
invariant. It uses `SizeAssumption`, `InputAssumption` and `OnlineAssumption`.

`RunProtocolProofs` builds on `CoreInv`:

| Theorem | Statement |
|---|---|
| `CoordinatorImplementsTopology` | `Spec => ImplementsTopology`: each action is a step of `RunTopology` or a stutter |
| `AlwaysAnsweredOnce` | `Spec => AnsweredOnce` |
| `OfflineAlwaysInert` | `Spec => []OfflineIsInert` |
| `BarriersNeverHideTerminals` | `Spec => []BarrierHidesNoTerminal` |
| `NeverProtocolError` | `Spec => []NoProtocolError` |

- The refinement needs `DrainHasKind` besides `CoreInv`: outside a drain `kind` is "None".
  Without it a request could not be told from one that joins a drain.
- `AlwaysAnsweredOnce` needs `Waits`: every waiter of a drain or of the control in
  progress is still unanswered.
- `BarriersNeverHideTerminals` needs `Hides`: the acknowledgements of a drain hold no
  terminal outcome, since the first one replaces the drain.
- `NeverProtocolError` needs `Dispatched` (a completion fits the dispatch its member was
  submitted with) and `Shutting` (shutdown meets only its own drain).

`PsciPowerProofs`: power states and transactions agree (`PowerAlwaysAgrees`), and a
configured CPU_ON target never falls back to OFF before it enters the guest
(`ConfiguredTargetsEnter`).

`BootRunLoopProofs`, for any number of callers, any capacity and any step limit:

| Theorem | Statement |
|---|---|
| `LoopInvariant` | the inductive invariant `LoopInv` |
| `LoopTypes` | `Spec => []LoopTypeOK` |
| `SnapshotLast` | `Spec => []SnapshotCommandIsLast` |
| `LeasePaused` | `Spec => []LeaseMeansPaused` |
| `PausedParked` | `Spec => []PausedMeansParked` |
| `SleepMissesNothing` | `Spec => []SleepMissesNoCommand` |
| `NoDeadAwait` | `Spec => []NobodyAwaitsADeadWorker` |
| `FinalShutdown` | `Spec => ShutdownIsFinal` |

`LoopInv` has one part per shared object, because each property names one of them and
needs the others:

- `GateInv`: a recorded pause holds the gate, unless the worker is just about to move it
  or a shutdown has closed it. The status and the gate are two locks, so neither
  `PausedMeansParked` nor its converse is preserved alone.
- `QueueInv`: a caller awaits an answer exactly while its command is in the queue, once,
  or in execution. Without it a dropped receiver could forget a caller.
- `ClosedInv`: a response channel closes only when the worker ends. Until then nobody
  cancels a preparation that another caller has made.
- `LeaseInv`: the admission follows the snapshot command from the queue to the release.
- `SleepInv`: with no announcement since the worker looked, the announced commands are
  within what the drain may still take. This is the step from "one drain takes a full
  queue" to "nothing announced is left at the gate".
- `WindowInv`, `ThreadType`, `WorkerType`: steps, backlog, runs and the control states.

Every step is a step of the worker or of the other threads (`Others`), and each part is
preserved by both. The proofs use `LoopAssumption`.

`LazyMemoryProofs`, for any threads, vCPUs, pages, ranges, limits and faults:

| Theorem | Statement |
|---|---|
| `GateInvariant` | the inductive invariant `GateLayer` |
| `PlanesFollowPagesHolds` | `LazySpec => []PlanesFollowPages` |
| `LeaseKeepsPagesHolds` | `LazySpec => []LeaseKeepsPages` |
| `AdmissionIsInForceHolds` | `LazySpec => []AdmissionIsInForce` |
| `RestoreIsQuietHolds` | `LazySpec => []RestoreIsQuiet` |
| `ClosesOnceHolds` | `LazySpec => ClosesOnce` |

The three page properties speak of permissions, while the steps that change them look
at the gate, the page table and the thread's place. `GateLayer` links these:

- `GateInv`: who is counted in the resolver and who holds the gate follows from where the
  threads stand; the remover holds the gate alone.
- `LifeInv`: the controller drains the actions and passes the gate before it restores
  the mapping; nothing is open before activation.
- `PublishInv`: a page is published by one thread, and its page state says so.
- `RemoveInv`: what the remover has revoked, hidden and zeroed at each stage, and that
  exactly its pages are Removing.
- `CoInv`, `PlaceInv`, `WorkInv`, `PlaneInv`: shapes and types.

The proof first shows what the coordinator's helpers leave alone (`Closes`), then goes
action by action. It uses `LazyConstants` and `PagerConstants`.

Dirty tracking by itself: `WritesAlwaysSeen` (in `SnapshotCaptureProofs`), from an
invariant `DirtyInv` that ties write permission, restored set and bitmap together. Between
WRITE and mark a page is tied to the exit that is being handled, and the quiescence guard
waits for all exits; that is why no capture and no epoch reset meets such a page.

The snapshot chain: `SnapshotCaptureProofs` (files and captures) and, extending it,
`SnapshotChainProofs` (publication, sessions, the theorems):

| Theorem | Statement |
|---|---|
| `ArtifactsAlwaysExact` | `ChainSpec => []ArtifactsAreExact` |
| `CommitsAlwaysStand` | `ChainSpec => []CommitsStandOnMemory` |
| `RefusedAlwaysInvisible` | `ChainSpec => []RefusedIsInvisible` |
| `CleanAlwaysMatchesBase` | `ChainSpec => []CleanMatchesBase` |
| `BaseAlwaysSurvives` | `ChainSpec => []BaseSurvives` |
| `AlwaysAdvancesToDurable` | `ChainSpec => AdvancesToDurable` |
| `ChainAlwaysSeesWrites` | `ChainSpec => []WritesAreSeen` |

The inductive invariant `ChainInv` has these parts:

- `FilesInv`: every combination of shown and stored entries is exact, whole, and has
  memory under each state. A loss of power may leave any combination, so an
  invariant about the visible entries alone is not preserved.
- `HistoryInv`: image 0 is the zero base, and only captures that were made are refused.
- `StagedInv`, `CommitInv`, `PlacedInv`: what the files of the publication in progress
  hold, and what of them is in place at each stage.
- `GuardInv`: the quiescence guard is held while a capture is open, so memory and
  bitmap do not move between the capture and the epoch reset.
- `DirtyInv` and `BaseInv`: clean pages hold the base's bytes, the base is stored.

The proofs use `DirtyConstants`, `StoreConstants` and `ChainConstants`.

Checked by TLC only:

- liveness, which the prover does not reach (fairness and `ENABLED`);
- `DebtIsPromised` and `OwnerHasWork` of the coordinator;
- `NoResurrection`, `WaitersAreOwed` and `RequestsAreCounted` of `LazyMemory`;
- all properties of `BootVcpuSession`.

## 6. Disagreements between the code and its documentation

- `session_wakeup`. A wakeup requested between two run steps while a peer is in the
  guest leaves the coordinator draining. The next `dispatch_online` refuses
  (`hvf/src/coordinator.rs:1116`) and the run loop returns an error that ends the
  machine. `coordinator.rs:649` calls it "an ordinary non-terminal wakeup barrier".
- `coord_snapshot_terminal`. A snapshot pause commanded while a peer is in the guest
  is superseded by that peer's reset. The collection loop
  (`hvf/src/session_vcpu.rs:535`) consumes the terminal report and blocks with
  nothing in flight. `docs/snapshot-feasibility.md:2428` says that such an outcome
  "invalidates the request".
- `dirty_replug`. The last admitted page of a vCPU outlives an unplug and replug of its
  block. If another vCPU then restores the page first, the stale exit of the first
  is reported as a lack of progress (`hvf/src/dirty.rs:767`). `dirty.rs:760` says
  "Admit that stale exit once per member; an immediate repeat proves the unchanged
  instruction made no progress."

Four observations have no run of their own:

- A control that joins a debt after its run consumed the first exit leaves a second
  exit without debt, and the canceled run it hits is reported as guest progress.
  `docs/security.md:3079` says such a run "is absorbed".
- At its step limit the run loop returns with peers in the guest, and a queued pause
  is then acknowledged. `docs/firecracker-compatibility.md:2211` promises `Paused`
  "only after a topology-wide active-run wakeup barrier drains every online vCPU".
- `vmm.rs:31932` of the process says that an ordinary command "can never pass admission
  and then enter the queue behind" a snapshot command. It can once the worker ends: when
  a snapshot command has panicked, its caller cancels the preparation of another caller
  (`vmm.rs:31995` does not ask whose it is), and a third command enters behind it.
- A session loaded from a native-v2 snapshot tracks if the source did
  (`snapshot_v2_platform.rs:2036`, `LoadSnapshot`); the `track_dirty_pages` of the load
  request only reaches the reported machine configuration (`vmm.rs:11192`).
  `docs/firecracker-compatibility.md:2255` says that the request overrides "the source
  snapshot's active flag". The native-v1 load does use the request (`vmm.rs:15998`).
  Nothing executes either command, so `SnapshotCommandIsLast` speaks of a worker that
  still drains its queue.

## 7. What is not modelled

- Register, GIC and FDT contents, CPU templates, encoders and decoders of
  snapshots and of the HTTP API: sequential data conversion.
- Device dispatch inside the run loop: one step that may fail. The retry tokens of
  block, pmem, network and entropy only cause wakeups.
- Construction of the session and of the supervisor before the worker starts, and
  the import of a stable paused topology beyond the state it begins in.
- The uncoordinated single-runner path of `runner.rs`.
- The cancellation registry of a snapshot capture in `BootRunLoop`: a canceled capture
  is one of the results of `CaptureBody`. `SnapshotChain` has the cancellation itself.
- In `BootRunLoop`: members that PSCI has taken offline, submission failures (both are
  in `RunCoordinator` and `BootVcpuSession`), and the debt that decides whether a
  canceled exit is absorbed (both outcomes are allowed).
- Lineage epochs and tokens, identity checks of paths and staging names, and the
  native-v1 writer, which the process does not dispatch.
- Byte offsets within a page, and the encoding of pager frames.
- The virtio-mem request queue, state query and configuration space.
- The rate limiter: a sequential algorithm over 128-bit arithmetic.
- The components that `PROJECT.json` marks `not_modelled`, with the reason for each.
  Several are concurrent and could be modelled: section 8.

## 8. Plan

Done: coordinator, power table, session, supervisor, abstract topology, pager, lazy
memory, dirty tracking, snapshot publication and lineage; proofs of the
coordinator and its refinement, the power table, the supervisor, dirty tracking and the
snapshot chain.

Next, in this order:

1. `VirtioQueue`: split ring with event-index suppression, driver and device
   interleaved; liveness: no lost notification.
2. `BlockExecutor`: generations, cancellation and completion order of the
   asynchronous block executor.
3. `ContainedSession` and `VmnetProvider`: handshake, grants, supervision, with lost
   peers and timeouts.
4. `InstanceState`: the controller's lifecycle above `BootRunLoop`.

Proofs to add:

1. `DebtIsPromised`, with an invariant that counts HVF's pending exit against debts.
2. `NoResurrection` of `LazyMemory`, with an invariant on the messages in flight.
3. `LifecycleAgreement` and `NoRunWhileOff` of `BootVcpuSession`.

## 9. How to run

In this directory:

    tlc -config coord_safety.cfg MCRunCoordinator
    tlc -config session_power.cfg MCBootVcpuSession
    tlc -config loop_safety.cfg MCBootRunLoop
    tlc -config lazy_span.cfg MCLazyMemory
    tlc -config snap_crash.cfg MCSnapshotChain
    tlapm RunCoordinatorProofs.tla
    tlapm BootRunLoopProofs.tla
    tlapm LazyMemoryProofs.tla
    tlapm SnapshotChainProofs.tla

The module of every run is in `PROJECT.json`. The longest run takes about two minutes
on two cores. Each proof module takes between half a minute and twelve minutes from
nothing; extending a module does not check its proofs, so call `tlapm` on each.
