--------------------------- MODULE SnapshotChain ---------------------------
(* Chains of Full and Diff snapshots: a running session whose writes are     *)
(* tracked (DirtyTracking) publishes snapshots (SnapshotStore), and its live *)
(* lineage (runtime snapshot_lineage.rs) says which image its next Diff is   *)
(* relative to.  The boot worker captures and publishes under a quiescence   *)
(* guard, another thread may cancel, the process may die at any point, the   *)
(* host may lose power, and a new session starts fresh or from artifacts.    *)
EXTENDS DirtyTracking, SnapshotStore

CONSTANTS
    MaxRestarts  \* bound: sessions started after the first

ASSUME ChainConstants == MaxRestarts \in Nat

VARIABLES
    up,        \* a session runs
    lineage,   \* LiveSnapshotLineage: LineageState and the base of a Diff
    op,        \* SnapshotCaptureCancellation's operation
    restarts   \* sessions started after the first

chainVars == <<up, lineage, op, restarts>>
vars == <<memoryVars, storeVars, chainVars>>

ChainTypeOK ==
    /\ DirtyTypeOK /\ StoreTypeOK
    /\ up \in BOOLEAN
    /\ lineage \in [state : {"Ready", "Pending", "Terminal"}, base : Images \cup {Unavailable}]
    /\ op \in {"Active", "Cancelled", "CommitSealed"}
    /\ restarts \in 0 .. MaxRestarts

\* A fresh session is zero by construction if it tracks from the start; one
\* that does not track has no base.
FreshBase(track) == IF track THEN 0 ELSE Unavailable

ChainInit ==
    /\ DirtyInit /\ StoreInit
    /\ up = TRUE /\ restarts = 0 /\ op = "Active"
    /\ lineage = [state |-> "Ready", base |-> FreshBase(tracked)]

-----------------------------------------------------------------------------
(* A publication                                                             *)

\* The base of a Diff: without tracking every page is selected, and no base is
\* needed.
DiffBase == IF lineage.base = Unavailable THEN 0 ELSE lineage.base
DiffAllowed == lineage.base # Unavailable \/ ~tracked
Selected == IF tracked THEN dirty ELSE owned

\* The worker holds the guard over quiet vCPUs and devices; a Full opens the
\* lineage before the files are prepared.  Both destinations must be absent.
BeginSnapshot(kind, slot) ==
    /\ up /\ ~held /\ Quiet /\ op # "Cancelled"
    /\ pub.stage = "Idle" /\ lineage.state = "Ready"
    /\ captures < MaxCaptures
    /\ PreflightAbsent(slot)
    /\ pub' = CreateStaging(kind, slot)
    /\ lineage' = [lineage EXCEPT !.state = IF kind = "Full" THEN "Pending" ELSE @]
    /\ op' = "Active" /\ held' = TRUE
    /\ UNCHANGED <<guestVars, trackerVars, memberVars, dev, hotplugVars, fileVars,
                   rebased, captured, captures, refused, folded, up, restarts>>

\* The producer writes the memory, and a Diff opens the lineage here.
Capture ==
    LET id == captures + 1
        full == pub.state.form = "Full"
        bytes == [p \in Pages |-> IF p \in owned THEN mem[p] ELSE Absent]
    IN  /\ pub.stage = "Producing" /\ op = "Active"
        /\ full \/ DiffAllowed
        /\ lineage' = [lineage EXCEPT !.state = "Pending"]
        /\ pub' = [pub EXCEPT
               !.stage = "Captured",
               !.file = IF full THEN ImageFile(id, mem, owned)
                        ELSE LayerFile(id, DiffBase, mem, owned, Selected \cap owned),
               !.state = [form |-> pub.state.form, id |-> id, track |-> tracked,
                          synced |-> FALSE]]
        /\ captured' = [captured EXCEPT ![id] = bytes]
        /\ captures' = id
        /\ UNCHANGED <<memoryVars, fileVars, rebased, refused, folded, up, op, restarts>>

\* try_seal_commit: from here on a cancellation comes too late.
SealCommit ==
    /\ pub.stage = "Captured" /\ op = "Active"
    /\ op' = "CommitSealed"
    /\ pub' = [pub EXCEPT !.stage = "Sealed"]
    /\ UNCHANGED <<memoryVars, fileVars, rebased, captured, captures, refused, folded,
                   up, lineage, restarts>>

\* The identity of the publication, once its capture has one.
CaptureId == {pub.state.id} \ {0}

\* A shutdown cancels the capture that is registered, and no other begins; once
\* the commit is sealed it waits for the publication instead.
CancelCapture ==
    /\ pub.stage # "Idle" /\ op = "Active"
    /\ op' = "Cancelled"
    /\ refused' = refused \cup CaptureId
    /\ UNCHANGED <<memoryVars, fileVars, pub, rebased, captured, captures, folded,
                   up, lineage, restarts>>

\* The session and all it holds in memory are gone.
Gone ==
    /\ Session({}, ZeroBytes, FALSE)
    /\ up' = FALSE /\ op' = "Active"
    /\ lineage' = [state |-> "Terminal", base |-> Unavailable]

\* Mutant: a publication may still answer Err after its commit.
MayFailCommitted == pub.stage \in BeforeCommit \cup {"Committed"}

MayFail == pub.stage \in BeforeCommit

\* Mutant: an abort leaves the lineage at the image that was not published.
AbortedToCapture == [state |-> "Ready", base |-> captures]

\* abort restores the exact prior state.
Aborted == [lineage EXCEPT !.state = "Ready"]

\* Err: staging files are cleaned, the lineage is aborted, the guard released.
\* A memory file already visible stays as an orphan.
PublicationFails ==
    /\ MayFail
    /\ lineage' = Aborted
    /\ refused' = refused \cup CaptureId
    /\ pub' = NoPublication /\ held' = FALSE
    /\ UNCHANGED <<guestVars, trackerVars, memberVars, dev, hotplugVars, fileVars,
                   rebased, captured, captures, folded, up, op, restarts>>

\* A capture that could not put the machine back ends the session.
CaptureFailsTerminally ==
    /\ pub.stage = "Producing"
    /\ pub' = NoPublication /\ Gone
    /\ UNCHANGED <<fileVars, rebased, captured, captures, refused, folded, restarts>>

\* Mutant: an uncertain commit advances the lineage like a durable one.
DurableAnyway == pub.stage \in {"Durable", "Uncertain"}

PublishedDurable == pub.stage = "Durable"

\* The dirty epoch is reset, then the published image becomes the base.
CompleteDurable ==
    /\ PublishedDurable
    /\ ResetEpoch
    /\ lineage' = [state |-> "Ready", base |-> pub.state.id]
    /\ pub' = NoPublication /\ held' = FALSE
    /\ UNCHANGED <<memberVars, dev, hotplugVars, fileVars, rebased, captured,
                   captures, refused, folded, up, op, restarts>>

\* An uncertain commit or a reset that fails makes the lineage terminal, and
\* the session is stopped.  What a failed reset left of the protection, rolled
\* back or poisoned, goes with the session: no guest runs on it.
CompleteTerminally ==
    /\ pub.stage \in {"Durable", "Uncertain"}
    /\ pub' = NoPublication /\ Gone
    /\ UNCHANGED <<fileVars, rebased, captured, captures, refused, folded, restarts>>

-----------------------------------------------------------------------------
(* Deaths and new sessions                                                   *)

ProcessDies ==
    /\ up /\ Gone
    /\ pub' = NoPublication
    /\ UNCHANGED <<fileVars, rebased, captured, captures, refused, folded,
                   restarts>>

\* The session and the rebase die, and the file system with them.
PowerLoss ==
    /\ up \/ rebased # {}
    /\ Gone /\ LosePower
    /\ UNCHANGED restarts

Starts == ~up /\ restarts < MaxRestarts
Started(base) ==
    /\ up' = TRUE /\ restarts' = restarts + 1 /\ op' = "Active"
    /\ lineage' = [state |-> "Ready", base |-> base]
    /\ UNCHANGED storeVars

FreshBoot(track) ==
    /\ Starts
    /\ Session(Pages \ HotPages, ZeroBytes, track)
    /\ Started(FreshBase(track))

\* The memory is loaded from the artifacts and then tracked, so that the image
\* is a clean baseline; the state names the image.
LoadSnapshot(s, t) ==
    /\ Starts
    /\ Loadable(stateEntry[s], memEntry[t])
    /\ LET bytes == Contents(memEntry[t]) IN
        Session(memEntry[t].topo,
                [p \in Pages |-> IF bytes[p] = Absent THEN Zero ELSE bytes[p]],
                stateEntry[s].track)
    /\ Started(stateEntry[s].id)

\* A native-v1 snapshot, of a machine without hotplug, has no image identity.
LoadLegacy(v, track) ==
    /\ Starts
    /\ Session(Pages \ HotPages,
               [p \in Pages |-> IF p \in HotPages THEN Zero ELSE v], track)
    /\ Started(Unavailable)

-----------------------------------------------------------------------------
StoreKept == UNCHANGED <<storeVars, chainVars>>
MemoryKept == UNCHANGED <<memoryVars, chainVars>>

ChainNext ==
    \/ \E m \in Members, p \in Pages, v \in Values : GuestStore(m, p, v) /\ StoreKept
    \/ \E m \in Members, p \in Pages : GuestFault(m, p) /\ StoreKept
    \/ \E m \in Members : RestoreWrite(m) /\ StoreKept
    \/ \E m \in Members : MarkFirstWrite(m) /\ StoreKept
    \/ \E m \in Members : HandleProtectFails(m) /\ StoreKept
    \/ \E m \in Members : HandleStaleExit(m) /\ StoreKept
    \/ \E m \in Members : HandleRepeat(m) /\ StoreKept
    \/ \E m \in Members : HandleUnowned(m) /\ StoreKept
    \/ \E p \in Pages : DeviceMark(p) /\ StoreKept
    \/ \E v \in Values : DeviceStore(v) /\ StoreKept
    \/ \E blocks \in SUBSET HotPages : up /\ StartPlug(blocks) /\ StoreKept
    \/ \E p \in HotPages, v \in Values : PlugRegion(p, v) /\ StoreKept
    \/ \E blocks \in SUBSET HotPages : StartUnplug(blocks) /\ StoreKept
    \/ \E p \in HotPages : UnplugRegion(p) /\ StoreKept
    \/ MutationFails /\ StoreKept
    \/ \E p \in HotPages : UndoPlugRegion(p) /\ StoreKept
    \/ \E p \in HotPages : UndoUnplugRegion(p) /\ StoreKept
    \/ \E p \in HotPages : UndoFails(p) /\ StoreKept
    \/ UndoDone /\ StoreKept
    \/ CommitPlug /\ StoreKept
    \/ CommitUnplug /\ StoreKept
    \/ \E kind \in {"Full", "Diff"}, s \in Slots : BeginSnapshot(kind, s)
    \/ Capture
    \/ SealCommit
    \/ CancelCapture
    \/ SyncMemoryFile /\ MemoryKept
    \/ SyncStateFile /\ MemoryKept
    \/ PublishMemory /\ MemoryKept
    \/ SyncMemoryDirectory /\ MemoryKept
    \/ PublishState /\ MemoryKept
    \/ SyncStateDirectory /\ MemoryKept
    \/ SyncStateDirectoryFails /\ MemoryKept
    \/ PublicationFails
    \/ CaptureFailsTerminally
    \/ CompleteDurable
    \/ CompleteTerminally
    \/ \E b, d \in Slots : RebaseExchange(b, d) /\ MemoryKept
    \/ \E synced \in BOOLEAN : RebaseFinish(synced) /\ MemoryKept
    \/ ProcessDies
    \/ PowerLoss
    \/ \E track \in BOOLEAN : FreshBoot(track)
    \/ \E s, t \in Slots : LoadSnapshot(s, t)
    \/ \E v \in Values, track \in BOOLEAN : LoadLegacy(v, track)

ChainSpec == ChainInit /\ [][ChainNext]_vars

-----------------------------------------------------------------------------
(* Properties                                                                *)

\* While a tracked session has a base, every clean page of its memory holds
\* what that image holds, so a Diff may leave it out: through first writes,
\* device writes, hotplug, aborted and completed snapshots and restores.  Only
\* a page between its WRITE and its mark may differ, which no snapshot sees
\* (snapshot_lineage.rs begin_diff; memory_dirty.rs).
CleanMatchesBase ==
    up /\ tracked /\ lineage.base # Unavailable =>
        \A p \in owned \ (dirty \cup Restoring) :
            mem[p] = captured[lineage.base][p]

\* The image a session's next Diff is relative to is on stable storage, unless
\* a rebase replaced it: a loss of power after that Diff is durable leaves no
\* layer without its base (hvf startup.rs complete_live_snapshot_lineage).
BaseSurvives ==
    up /\ lineage.base > 0 /\ lineage.base \notin folded =>
        \E s \in Slots : Intact(memDisk[s]) /\ memDisk[s].synced
                         /\ memDisk[s].id = lineage.base

\* A lineage that moves on within a session moves to a snapshot whose state and
\* memory are both on stable storage, never to one that is only visible
\* (SnapshotCommitDurability::Uncertain is terminal).
AdvancesToDurable ==
    [][up /\ up' /\ lineage'.base # lineage.base =>
        \E s \in Slots : /\ stateDisk[s].id = lineage'.base
                         /\ memDisk[s].id = lineage'.base]_vars

=============================================================================
