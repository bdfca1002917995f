----------------------- MODULE SnapshotCaptureProofs ------------------------
(* Dirty tracking, what the artifacts of SnapshotChain stand for, the        *)
(* inductive invariant of the chain of snapshots, and the steps that leave   *)
(* the files alone or that begin, capture, seal, cancel and end a            *)
(* publication.                                                              *)
EXTENDS SnapshotChain, TLAPS

USE PageConstants, DirtyConstants, StoreConstants, ChainConstants

-----------------------------------------------------------------------------
(* Dirty tracking, for every set of pages, hot pages, members and contents   *)

\* A device store is announced by its mark, and excludes virtio-mem requests.
DevicesMark ==
    /\ dev # NoPage => hp.op = "Idle"
    /\ tracked /\ dev # NoPage => dev \in dirty

\* The regions an unplug has unmapped stay unmapped until it ends, so that the
\* bitmap they lose at the commit holds no restored page.
UnpluggedAreUnmapped == hp.op = "Unplug" => hp.done \cap mapped = {}

\* Under the quiescence guard no exit is being handled, and no device and no
\* virtio-mem request is at work.
GuardIsQuiet ==
    held => dev = NoPage /\ hp.op = "Idle" /\ \A m \in Members : exits[m] = NoPage

\* The inductive invariant: WritesAreSeen needs to know which pages a commit
\* takes out of the bitmap, that no device writes meanwhile, and that an epoch
\* ends with no page between its WRITE and its mark.
DirtyInv ==
    /\ DirtyTypeOK /\ WritesAreSeen
    /\ DevicesMark /\ UnpluggedAreUnmapped /\ GuardIsQuiet

\* A booted session satisfies the invariant.
LEMMA DirtyInitInv == DirtyInit => DirtyInv
<1> SUFFICES ASSUME DirtyInit PROVE DirtyInv
  OBVIOUS
<1>1. DirtyTypeOK
  BY Zenon DEF DirtyInit, DirtyTypeOK, ZeroBytes, NoRequest
<1>2. WritesAreSeen
  BY DEF DirtyInit, WritesAreSeen
<1>3. DevicesMark /\ UnpluggedAreUnmapped /\ GuardIsQuiet
  BY Zenon DEF DirtyInit, DevicesMark, UnpluggedAreUnmapped, GuardIsQuiet, NoRequest
<1> QED
  BY <1>1, <1>2, <1>3 DEF DirtyInv

\* A request that advances by a region stays the same request.
LEMMA AdvanceRequest ==
    ASSUME DirtyTypeOK, NEW p \in HotPages, Advance(p)
    PROVE  /\ hp' \in [op : {"Idle", "Plug", "UndoPlug", "Unplug", "UndoUnplug"},
                       todo : SUBSET HotPages, done : SUBSET HotPages]
           /\ hp'.op = hp.op /\ hp'.done = hp.done \cup {p}
<1>1. hp.todo \ {p} \in SUBSET HotPages /\ hp.done \cup {p} \in SUBSET HotPages
  BY DEF DirtyTypeOK
<1>2. hp' = [op |-> hp.op, todo |-> hp.todo \ {p}, done |-> hp.done \cup {p}]
  BY DEF DirtyTypeOK, Advance
<1> QED
  BY <1>1, <1>2 DEF DirtyTypeOK

\* So does every session that is started or restored.
LEMMA SessionInv ==
    ASSUME NEW pages \in SUBSET Pages, NEW bytes \in [Pages -> Values],
           NEW track \in BOOLEAN, Session(pages, bytes, track)
    PROVE  DirtyInv'
BY Zenon DEF Session, DirtyInv, DirtyTypeOK, WritesAreSeen, DevicesMark, UnpluggedAreUnmapped,
   GuardIsQuiet, NoRequest

\* Whatever a vCPU does and however its exits are handled.
LEMMA MemberKeepsInv ==
    ASSUME DirtyInv, NEW m \in Members,
           \/ \E p \in Pages, v \in Values : GuestStore(m, p, v)
           \/ \E p \in Pages : GuestFault(m, p)
           \/ RestoreWrite(m) \/ MarkFirstWrite(m) \/ HandleProtectFails(m)
           \/ HandleStaleExit(m) \/ HandleRepeat(m) \/ HandleUnowned(m)
    PROVE  DirtyInv'
<1> USE DEF DirtyInv, DirtyTypeOK, WritesAreSeen, DevicesMark,
            UnpluggedAreUnmapped, GuardIsQuiet, guestVars, trackerVars, memberVars,
            hotplugVars
<1>0. LockFree /\ tracked => writable = restored
  BY DEF LockFree, Restoring
<1>1. ASSUME NEW p \in Pages, NEW v \in Values, GuestStore(m, p, v) PROVE DirtyInv'
  BY <1>1 DEF GuestStore
<1>2. ASSUME NEW p \in Pages, GuestFault(m, p) PROVE DirtyInv'
  BY <1>2 DEF GuestFault, InGuest
<1>3. CASE RestoreWrite(m)
  BY <1>0, <1>3 DEF RestoreWrite, Handling
<1>4. CASE MarkFirstWrite(m)
  BY <1>4 DEF MarkFirstWrite, Mark, Admit, Restoring
<1>5. CASE HandleProtectFails(m)
  BY <1>0, <1>5 DEF HandleProtectFails, Handling, MemberFails
<1>6. CASE HandleStaleExit(m)
  BY <1>0, <1>6 DEF HandleStaleExit, Handling, Admit
<1>7. CASE HandleRepeat(m)
  BY <1>0, <1>7 DEF HandleRepeat, Handling, MemberFails
<1>8. CASE HandleUnowned(m)
  BY <1>0, <1>8 DEF HandleUnowned, Handling, MemberFails
<1> QED
  BY <1>1, <1>2, <1>3, <1>5, <1>6, <1>7, <1>8, <1>4

\* Devices mark before they store.
LEMMA DeviceKeepsInv ==
    ASSUME DirtyInv,
           \/ \E p \in Pages : DeviceMark(p)
           \/ \E v \in Values : DeviceStore(v)
    PROVE  DirtyInv'
<1> USE DEF DirtyInv, DirtyTypeOK, WritesAreSeen, DevicesMark,
            UnpluggedAreUnmapped, GuardIsQuiet, guestVars, trackerVars, memberVars,
            hotplugVars
<1>1. ASSUME NEW p \in Pages, DeviceMark(p) PROVE DirtyInv'
  BY <1>1 DEF DeviceMark
<1>2. ASSUME NEW v \in Values, DeviceStore(v) PROVE DirtyInv'
  BY <1>2 DEF DeviceStore
<1> QED
  BY <1>1, <1>2

\* A plug request, from its start to its commit or rollback.
LEMMA PlugKeepsInv ==
    ASSUME DirtyInv,
           \/ \E blocks \in SUBSET HotPages : StartPlug(blocks)
           \/ \E p \in HotPages, v \in Values : PlugRegion(p, v)
           \/ \E p \in HotPages : UndoPlugRegion(p)
           \/ CommitPlug
    PROVE  DirtyInv'
<1> USE DEF DirtyInv, DirtyTypeOK, WritesAreSeen, DevicesMark,
            UnpluggedAreUnmapped, GuardIsQuiet, guestVars, trackerVars, memberVars,
            hotplugVars
<1>1. ASSUME NEW blocks \in SUBSET HotPages, StartPlug(blocks) PROVE DirtyInv'
  BY <1>1 DEF StartPlug, Request
<1>2. ASSUME NEW p \in HotPages, NEW v \in Values, PlugRegion(p, v) PROVE DirtyInv'
  <2>1. DirtyTypeOK'
    BY <1>2, AdvanceRequest DEF PlugRegion, PlugDirty
  <2>2. WritesAreSeen'
    BY <1>2 DEF PlugRegion, PlugDirty, LockFree, Restoring
  <2>3. DevicesMark' /\ UnpluggedAreUnmapped' /\ GuardIsQuiet'
    BY <1>2, AdvanceRequest DEF PlugRegion, PlugDirty
  <2> QED
    BY ONLY <2>1, <2>2, <2>3 DEF DirtyInv
<1>3. ASSUME NEW p \in HotPages, UndoPlugRegion(p) PROVE DirtyInv'
  <2>1. DirtyTypeOK'
    BY <1>3, AdvanceRequest DEF UndoPlugRegion, Unmap
  <2>2. WritesAreSeen'
    BY <1>3 DEF UndoPlugRegion, Unmap, LockFree, Restoring
  <2>3. DevicesMark' /\ UnpluggedAreUnmapped' /\ GuardIsQuiet'
    BY <1>3, AdvanceRequest DEF UndoPlugRegion, Unmap
  <2> QED
    BY ONLY <2>1, <2>2, <2>3 DEF DirtyInv
<1>4. CASE CommitPlug
  BY <1>4 DEF CommitPlug, NoRequest
<1> QED
  BY <1>1, <1>2, <1>3, <1>4

\* An unplug request, and the steps that plug and unplug share.
LEMMA UnplugKeepsInv ==
    ASSUME DirtyInv,
           \/ \E blocks \in SUBSET HotPages : StartUnplug(blocks)
           \/ \E p \in HotPages : UnplugRegion(p)
           \/ MutationFails
           \/ \E p \in HotPages : UndoUnplugRegion(p)
           \/ \E p \in HotPages : UndoFails(p)
           \/ UndoDone \/ CommitUnplug
    PROVE  DirtyInv'
<1> USE DEF DirtyInv, DirtyTypeOK, WritesAreSeen, DevicesMark,
            UnpluggedAreUnmapped, GuardIsQuiet, guestVars, trackerVars, memberVars,
            hotplugVars
<1>1. ASSUME NEW blocks \in SUBSET HotPages, StartUnplug(blocks) PROVE DirtyInv'
  BY <1>1 DEF StartUnplug, Request
<1>2. ASSUME NEW p \in HotPages, UnplugRegion(p) PROVE DirtyInv'
  <2>1. DirtyTypeOK'
    BY <1>2, AdvanceRequest DEF UnplugRegion, Unmap
  <2>2. WritesAreSeen'
    BY <1>2 DEF UnplugRegion, Unmap, LockFree, Restoring
  <2>3. DevicesMark' /\ UnpluggedAreUnmapped' /\ GuardIsQuiet'
    BY <1>2, AdvanceRequest DEF UnplugRegion, Unmap
  <2> QED
    BY ONLY <2>1, <2>2, <2>3 DEF DirtyInv
<1>3. CASE MutationFails
  BY <1>3 DEF MutationFails, Request
<1>4. ASSUME NEW p \in HotPages, UndoUnplugRegion(p) PROVE DirtyInv'
  <2>1. DirtyTypeOK'
    BY <1>4, AdvanceRequest DEF UndoUnplugRegion
  <2>2. WritesAreSeen'
    BY <1>4 DEF UndoUnplugRegion, LockFree, Restoring
  <2>3. DevicesMark' /\ UnpluggedAreUnmapped' /\ GuardIsQuiet'
    BY <1>4, AdvanceRequest DEF UndoUnplugRegion
  <2> QED
    BY ONLY <2>1, <2>2, <2>3 DEF DirtyInv
<1>5. ASSUME NEW p \in HotPages, UndoFails(p) PROVE DirtyInv'
  BY <1>5 DEF UndoFails
<1>6. CASE UndoDone
  BY <1>6 DEF UndoDone, NoRequest
<1>7. CASE CommitUnplug
  BY <1>7 DEF CommitUnplug, NoRequest
<1> QED
  BY <1>1, <1>2, <1>3, <1>4, <1>5, <1>6, <1>7

\* The next generation begins with no restored and no dirty page.
LEMMA ResetKeepsInv ==
    ASSUME DirtyInv, ResetEpoch, held, held' \in BOOLEAN,
           UNCHANGED <<memberVars, dev, hotplugVars>>
    PROVE  DirtyInv'
BY Zenon DEF DirtyInv, DirtyTypeOK, WritesAreSeen, DevicesMark, UnpluggedAreUnmapped,
   GuardIsQuiet, guestVars, trackerVars, memberVars, hotplugVars, ResetEpoch

\* Every step keeps the invariant.
LEMMA DirtyStepInv ==
    ASSUME DirtyInv, DirtyNext
    PROVE  DirtyInv'
BY MemberKeepsInv, DeviceKeepsInv, PlugKeepsInv, UnplugKeepsInv DEF DirtyNext

\* A step that leaves all of guest memory alone.
LEMMA DirtyStutterInv ==
    ASSUME DirtyInv, UNCHANGED memoryVars
    PROVE  DirtyInv'
BY Zenon DEF DirtyInv, DirtyTypeOK, WritesAreSeen, DevicesMark, UnpluggedAreUnmapped,
   GuardIsQuiet, memoryVars, guestVars, trackerVars, memberVars, hotplugVars

\* Under the guard guest memory and its regions stand still, and no step takes
\* or gives up the guard or changes whether writes are tracked.
LEMMA GuardFreezesMemory ==
    ASSUME DirtyInv, DirtyNext
    PROVE  held' = held /\ tracked' = tracked /\ (held => mem' = mem /\ owned' = owned)
<1> USE DEF DirtyInv, GuardIsQuiet, InGuest, guestVars, trackerVars, memberVars, hotplugVars
<1>1. ASSUME NEW m \in Members, NEW p \in Pages, NEW v \in Values, GuestStore(m, p, v)
      PROVE  held' = held /\ tracked' = tracked /\ ~held
  BY <1>1 DEF GuestStore
<1>2. ASSUME \/ \E m \in Members, p \in Pages : GuestFault(m, p)
             \/ \E m \in Members : \/ RestoreWrite(m) \/ MarkFirstWrite(m)
                                   \/ HandleProtectFails(m) \/ HandleStaleExit(m)
                                   \/ HandleRepeat(m) \/ HandleUnowned(m)
      PROVE  UNCHANGED <<held, tracked, mem, owned>>
  BY <1>2, Zenon DEF GuestFault, RestoreWrite, MarkFirstWrite, HandleProtectFails,
     HandleStaleExit, HandleRepeat, HandleUnowned
<1>3. ASSUME \/ \E p \in Pages : DeviceMark(p)
             \/ \E v \in Values : DeviceStore(v)
      PROVE  held' = held /\ tracked' = tracked /\ (held => mem' = mem /\ owned' = owned)
  BY <1>3 DEF DeviceMark, DeviceStore
<1>4. ASSUME \/ \E blocks \in SUBSET HotPages : StartPlug(blocks) \/ StartUnplug(blocks)
             \/ \E p \in HotPages : \/ UnplugRegion(p) \/ UndoUnplugRegion(p)
                                    \/ UndoFails(p)
             \/ MutationFails \/ UndoDone \/ CommitPlug
      PROVE  UNCHANGED <<held, tracked, mem, owned>>
  BY <1>4, Zenon DEF StartPlug, StartUnplug, UnplugRegion, UndoUnplugRegion, UndoFails,
     MutationFails, UndoDone, CommitPlug
<1>5. ASSUME \/ \E p \in HotPages, v \in Values : PlugRegion(p, v)
             \/ \E p \in HotPages : UndoPlugRegion(p)
             \/ CommitUnplug
      PROVE  held' = held /\ tracked' = tracked /\ ~held
  BY <1>5, Zenon DEF PlugRegion, UndoPlugRegion, CommitUnplug
<1> QED
  BY <1>1, <1>2, <1>3, <1>4, <1>5 DEF DirtyNext

\* While writes are tracked, pages that are owned and clean keep the bytes of
\* the image they were clean against, but for a page about to be marked.
LEMMA CleanPagesKeep ==
    ASSUME DirtyInv, DirtyNext, tracked, NEW image,
           \A p \in owned \ (dirty \cup Restoring) : mem[p] = image[p]
    PROVE  \A p \in owned' \ (dirty' \cup Restoring') : mem'[p] = image[p]
<1> USE DEF DirtyInv, DirtyTypeOK, WritesAreSeen, DevicesMark, Restoring, guestVars,
            trackerVars, memberVars, hotplugVars
<1>1. ASSUME NEW m \in Members, NEW q \in Pages, NEW v \in Values, GuestStore(m, q, v)
      PROVE  \A p \in owned' \ (dirty' \cup Restoring') : mem'[p] = image[p]
  BY <1>1 DEF GuestStore
<1>2. ASSUME \/ \E m \in Members, q \in Pages : GuestFault(m, q)
             \/ \E m \in Members : \/ HandleProtectFails(m) \/ HandleStaleExit(m)
                                   \/ HandleRepeat(m) \/ HandleUnowned(m)
             \/ \E q \in Pages : DeviceMark(q)
             \/ \E blocks \in SUBSET HotPages : StartPlug(blocks) \/ StartUnplug(blocks)
             \/ \E q \in HotPages : UndoFails(q)
             \/ MutationFails \/ UndoDone \/ CommitPlug
      PROVE  /\ mem' = mem /\ owned' = owned /\ dirty \subseteq dirty'
             /\ tracked' = tracked /\ writable' = writable /\ restored' = restored
  BY <1>2, Zenon DEF GuestFault, HandleProtectFails, HandleStaleExit, HandleRepeat,
     HandleUnowned, DeviceMark, StartPlug, StartUnplug, UndoFails, MutationFails, UndoDone,
     CommitPlug
<1>3. ASSUME NEW m \in Members, RestoreWrite(m) \/ MarkFirstWrite(m)
      PROVE  \A p \in owned' \ (dirty' \cup Restoring') : mem'[p] = image[p]
  BY <1>3 DEF RestoreWrite, MarkFirstWrite, Mark
<1>4. ASSUME NEW v \in Values, DeviceStore(v)
      PROVE  \A p \in owned' \ (dirty' \cup Restoring') : mem'[p] = image[p]
  BY <1>4 DEF DeviceStore
<1>5. ASSUME NEW q \in HotPages, NEW v \in Values, PlugRegion(q, v)
      PROVE  \A p \in owned' \ (dirty' \cup Restoring') : mem'[p] = image[p]
  BY <1>5 DEF PlugRegion, PlugDirty, LockFree
<1>6. ASSUME NEW q \in HotPages, UndoPlugRegion(q) \/ UnplugRegion(q) \/ UndoUnplugRegion(q)
      PROVE  \A p \in owned' \ (dirty' \cup Restoring') : mem'[p] = image[p]
  BY <1>6 DEF UndoPlugRegion, UnplugRegion, UndoUnplugRegion, LockFree
<1>7. CASE CommitUnplug
  BY <1>7 DEF CommitUnplug
<1> QED
  BY <1>1, <1>2, <1>3, <1>4, <1>5, <1>6, <1>7 DEF DirtyNext

\* In every execution, a page the guest may write without an exit is marked in
\* the bitmap, or is the page of an exit whose handling marks it: no interleaving of first writes, stale exits, device writes and
\* hotplug with its rollbacks loses a write.
THEOREM WritesAlwaysSeen == DirtySpec => []WritesAreSeen
<1>1. DirtyInit => DirtyInv
  BY DirtyInitInv
<1>2. DirtyInv /\ [DirtyNext]_memoryVars => DirtyInv'
  BY DirtyStepInv, DirtyStutterInv
<1>3. DirtyInv => WritesAreSeen
  BY DEF DirtyInv
<1> QED
  BY <1>1, <1>2, <1>3, PTL DEF DirtySpec

-----------------------------------------------------------------------------
(* Types                                                                     *)

Stage == BeforeCommit \cup {"Idle", "Committed", "Durable", "Uncertain"}
Publication == [stage : Stage, slot : Slots \cup {NoSlot}, file : MemoryFile,
                state : StateFile]
Lineage == [state : {"Ready", "Pending", "Terminal"}, base : Images \cup {Unavailable}]

\* What the history keeps is memory, whole or partial.
LEMMA ByteTypes ==
    /\ 0 \in Images /\ ZeroBytes \in [Pages -> Values] /\ ZeroBytes \in Bytes
    /\ NoBytes \in Bytes
    /\ \A bytes \in [Pages -> Values] : bytes \in Bytes
<1>1. 0 \in Images /\ ZeroBytes \in [Pages -> Values]
  BY DEF Images, ZeroBytes
<1>2. NoBytes \in Bytes
  BY DEF NoBytes, Bytes
<1>3. \A bytes \in [Pages -> Values] : bytes \in Bytes
  BY DEF Bytes
<1> QED
  BY <1>1, <1>2, <1>3

\* The empty values are of their types.
LEMMA EmptyTypes ==
    NoFile \in MemoryFile /\ NoState \in StateFile /\ NoPublication \in Publication
<1>1. NoFile \in MemoryFile
  BY ByteTypes DEF NoFile, MemoryFile
<1>2. NoState \in StateFile
  BY ByteTypes DEF NoState, StateFile
<1>3. "Idle" \in Stage
  BY DEF Stage
<1> QED
  BY <1>1, <1>2, <1>3 DEF NoPublication, Publication

\* A layer over bytes is bytes.
LEMMA OverType ==
    ASSUME NEW base \in Bytes, NEW file \in MemoryFile
    PROVE  Over(base, file) \in Bytes
BY Zenon DEF Over, Bytes, MemoryFile

\* What a complete file holds.
LEMMA ContentsType ==
    ASSUME NEW file \in MemoryFile
    PROVE  Contents(file) \in Bytes
BY OverType, ByteTypes DEF Contents, MemoryFile

\* A capture is a memory file, of either form.
LEMMA CaptureFileTypes ==
    ASSUME NEW id \in Images, NEW base \in Images, NEW bytes \in [Pages -> Values],
           NEW pages \in SUBSET Pages, NEW selected \in SUBSET Pages
    PROVE  /\ ImageFile(id, bytes, pages) \in MemoryFile
           /\ LayerFile(id, base, bytes, pages, selected) \in MemoryFile
<1>1. /\ [p \in Pages |-> IF p \in pages THEN bytes[p] ELSE Absent] \in Bytes
      /\ [p \in Pages |-> IF p \in selected THEN bytes[p] ELSE Absent] \in Bytes
  BY DEF Bytes
<1> QED
  BY <1>1, ByteTypes, Zenon DEF ImageFile, LayerFile, MemoryFile

\* A rebase makes a memory file, and a loss of power leaves one.
LEMMA FileTypes ==
    /\ \A base, layer \in MemoryFile : Folded(base, layer) \in MemoryFile
    /\ \A file \in MemoryFile : Torn(file) \in MemoryFile
    /\ \A state \in StateFile : Torn(state) \in StateFile
<1>1. ASSUME NEW base \in MemoryFile, NEW layer \in MemoryFile
      PROVE  Folded(base, layer) \in MemoryFile
  <2>1. Over(Contents(base), layer) \in Bytes
    BY ContentsType, OverType
  <2> QED
    BY <2>1, ByteTypes DEF Folded, MemoryFile
<1>2. \A file \in MemoryFile : Torn(file) \in MemoryFile
  BY DEF Torn, MemoryFile
<1>3. \A state \in StateFile : Torn(state) \in StateFile
  BY DEF Torn, StateFile
<1> QED
  BY <1>1, <1>2, <1>3

-----------------------------------------------------------------------------
(* What artifacts stand for                                                  *)

\* A memory file is exact: it stands for one of the first n captures, over its
\* pages, and a layer is relative to an earlier one.
ExactIn(history, n, file) ==
    Intact(file) =>
        /\ file.form \in {"image", "layer"} /\ file.id <= n
        /\ \A p \in Pages : p \in file.topo <=> history[file.id][p] # Absent
        /\ file.form = "image" => file.data = history[file.id]
        /\ file.form = "layer" =>
              file.base < file.id /\ Over(history[file.base], file) = history[file.id]

\* Later captures leave what is exact exact.
LEMMA ExactGrows ==
    ASSUME NEW file \in MemoryFile, NEW n \in Images, NEW k \in Images, n <= k,
           NEW old \in [Images -> Bytes], NEW new \in [Images -> Bytes],
           \A i \in Images : i <= n => new[i] = old[i], ExactIn(old, n, file)
    PROVE  ExactIn(new, k, file)
<1> SUFFICES ASSUME Intact(file) PROVE ExactIn(new, k, file)
  BY DEF ExactIn
<1>1. file.id \in Images /\ file.base \in Images /\ file.id <= n
  BY DEF ExactIn, MemoryFile
<1>2. new[file.id] = old[file.id]
  BY <1>1
<1>3. file.form = "layer" => new[file.base] = old[file.base]
  BY <1>1 DEF ExactIn, Images
<1> QED
  BY <1>1, <1>2, <1>3 DEF ExactIn, Images

\* A complete file that is exact holds its capture.
LEMMA ExactContents ==
    ASSUME NEW file \in MemoryFile, NEW n \in Images, NEW history \in [Images -> Bytes],
           history[0] = ZeroBytes, Complete(file), ExactIn(history, n, file)
    PROVE  Contents(file) = history[file.id]
BY Zenon DEF Complete, ExactIn, Intact, Contents

\* An image of the memory is exact.
LEMMA ExactImage ==
    ASSUME NEW history \in [Images -> Bytes], NEW n \in Images,
           NEW bytes \in [Pages -> Values], NEW pages \in SUBSET Pages,
           history[n] = [p \in Pages |-> IF p \in pages THEN bytes[p] ELSE Absent]
    PROVE  ExactIn(history, n, ImageFile(n, bytes, pages))
<1>1. \A p \in Pages : bytes[p] # Absent
  OBVIOUS
<1> QED
  BY <1>1 DEF ExactIn, ImageFile, Images

\* A layer that leaves out only pages that equal the base's is exact.
LEMMA ExactLayer ==
    ASSUME NEW history \in [Images -> Bytes], NEW n \in Images, NEW base \in Images,
           base < n, NEW bytes \in [Pages -> Values],
           NEW pages \in SUBSET Pages, NEW selected \in SUBSET pages,
           history[n] = [p \in Pages |-> IF p \in pages THEN bytes[p] ELSE Absent],
           \A p \in pages \ selected : bytes[p] = history[base][p]
    PROVE  ExactIn(history, n, LayerFile(n, base, bytes, pages, selected))
<1> DEFINE file == LayerFile(n, base, bytes, pages, selected)
<1>1. \A p \in Pages : bytes[p] # Absent
  OBVIOUS
<1>2. /\ file.form = "layer" /\ file.id = n /\ file.base = base /\ file.topo = pages
      /\ file.data = [p \in Pages |-> IF p \in selected THEN bytes[p] ELSE Absent]
  BY DEF LayerFile
<1> HIDE DEF file
<1>3. Over(history[base], file)
        = [p \in Pages |-> IF p \notin pages THEN Absent
                           ELSE IF p \in selected THEN bytes[p] ELSE history[base][p]]
  BY <1>1, <1>2 DEF Over
<1>4. Over(history[base], file) = history[n]
  BY <1>3
<1>5. file.id <= n /\ file.base < file.id
  BY ONLY <1>2, n \in Images, base < n DEF Images
<1>6. \A p \in Pages : p \in file.topo <=> history[file.id][p] # Absent
  BY <1>1, <1>2
<1>7. history[file.id] = history[n] /\ history[file.base] = history[base]
  BY <1>2, Zenon
<1>8. file.form = "layer" /\ file.form # "image"
  BY <1>2
<1>9. ExactIn(history, n, file)
  BY <1>4, <1>5, <1>6, <1>7, <1>8, Zenon DEF ExactIn
<1> QED
  BY <1>9 DEF file

\* Folding an exact layer into its exact base is exact, and of a later capture.
LEMMA ExactFold ==
    ASSUME NEW base \in MemoryFile, NEW layer \in MemoryFile, NEW n \in Images,
           NEW history \in [Images -> Bytes], history[0] = ZeroBytes,
           Intact(base), Intact(layer), FoldsOnto(base, layer),
           ExactIn(history, n, base), ExactIn(history, n, layer)
    PROVE  /\ ExactIn(history, n, Folded(base, layer))
           /\ Folded(base, layer).id > base.id
<1> DEFINE file == Folded(base, layer)
<1>1. Contents(base) = history[layer.base]
  BY ExactContents DEF FoldsOnto
<1>2. layer.form = "layer" /\ layer.base = base.id /\ layer.base < layer.id
  BY DEF FoldsOnto, ExactIn
<1>3. /\ file.form = "image" /\ file.id = layer.id /\ file.topo = layer.topo
      /\ file.data = Over(history[layer.base], layer)
  BY <1>1 DEF Folded
<1> HIDE DEF file
<1>4. file.data = history[file.id]
  BY <1>2, <1>3 DEF ExactIn
<1> QED
  BY <1>2, <1>3, <1>4, Zenon DEF ExactIn, MemoryFile, Images, file

-----------------------------------------------------------------------------
(* The inductive invariant                                                   *)

\* A file at rest was synced before it was made visible.
Whole(file) == file.form # "torn" /\ file.synced = TRUE

\* A state that is there has its memory, or a later one folded into it.
Stands(state, file, replaced) ==
    state.form # "none" =>
        /\ Intact(file)
        /\ file.id = state.id \/ (state.id \in replaced /\ file.id > state.id)

\* A state that is there is of a capture nobody refused.
Kept(state) == state.form # "none" => state.id <= captures /\ state.id \notin refused

\* Any loss of power may leave either version of each entry, so what holds of
\* the files holds of every combination of what is shown and what is on disk.
FilesInv ==
    \A s \in Slots :
        /\ ExactIn(captured, captures, memEntry[s]) /\ ExactIn(captured, captures, memDisk[s])
        /\ Whole(memEntry[s]) /\ Whole(memDisk[s])
        /\ Whole(stateEntry[s]) /\ Whole(stateDisk[s])
        /\ Stands(stateEntry[s], memEntry[s], folded) /\ Stands(stateEntry[s], memDisk[s], folded)
        /\ Stands(stateDisk[s], memEntry[s], folded) /\ Stands(stateDisk[s], memDisk[s], folded)
        /\ Kept(stateEntry[s]) /\ Kept(stateDisk[s])
        /\ memDisk[s].form # "none" =>
              memDisk[s] = memEntry[s] \/ memDisk[s].id \in folded

HistoryInv ==
    /\ captured[0] = ZeroBytes
    /\ \A i \in refused : 0 < i /\ i <= captures

\* Stages by what they have done.
Ended == {"Committed", "Durable", "Uncertain"}
InPlace == {"MemoryDurable"} \cup Ended
Visible == {"MemoryVisible"} \cup InPlace
Synced == {"StateSynced"} \cup Visible
Sealed == {"Sealed", "MemorySynced"} \cup Synced
Taken == {"Captured"} \cup Sealed

\* The staged artifacts stand for the last capture.
StagedInv ==
    /\ pub.stage = "Producing" => pub.state.id = 0 /\ captures < MaxCaptures
    /\ pub.stage # "Idle" => pub.slot \in Slots /\ pub.state.form \in {"Full", "Diff"}
    /\ pub.stage \in Taken =>
          /\ pub.state.id = captures /\ 0 < captures
          /\ Intact(pub.file) /\ pub.file.id = captures
          /\ ExactIn(captured, captures, pub.file)
    /\ pub.stage \in {"MemorySynced"} \cup Synced => pub.file.synced = TRUE
    /\ pub.stage \in Synced => pub.state.synced = TRUE

\* A cancellation wins before the seal or not at all, and until the commit no
\* state of the capture is anywhere.
CommitInv ==
    /\ pub.stage \in Sealed => op = "CommitSealed" /\ captures \notin refused
    /\ pub.stage = "Captured" /\ op = "Active" => captures \notin refused
    /\ pub.stage \in Taken \ Ended =>
          \A s \in Slots :
              /\ stateEntry[s].form # "none" => stateEntry[s].id < captures
              /\ stateDisk[s].form # "none" => stateDisk[s].id < captures

\* What the publication has put in its slot so far.
PlacedInv ==
    /\ pub.stage \in Visible => Stands(pub.state, memEntry[pub.slot], folded)
    /\ pub.stage \in InPlace => Stands(pub.state, memDisk[pub.slot], folded)
    /\ pub.stage = "Committed" => stateEntry[pub.slot] = pub.state
    /\ pub.stage = "Durable" => stateDisk[pub.slot] = pub.state

\* The guard is held exactly while a session publishes; memory has not moved
\* since the capture.
GuardInv ==
    /\ pub.stage # "Idle" <=> held
    /\ held => up
    /\ pub.stage \in Taken => \A p \in owned : captured[captures][p] = mem[p]

BaseInv == lineage.base <= captures /\ CleanMatchesBase /\ BaseSurvives

ChainInv ==
    /\ ChainTypeOK /\ DirtyInv /\ FilesInv /\ HistoryInv
    /\ StagedInv /\ CommitInv /\ PlacedInv /\ GuardInv /\ BaseInv

-----------------------------------------------------------------------------
(* The first state, and the steps of guest, devices and virtio-mem           *)

\* The first session starts with no files and at the zero image.
LEMMA ChainInitInv == ChainInit => ChainInv
<1> SUFFICES ASSUME ChainInit PROVE ChainInv
  OBVIOUS
<1>1. DirtyInv
  BY DirtyInitInv DEF ChainInit
<1>2. \A s \in Slots : /\ memEntry[s] = NoFile /\ memDisk[s] = NoFile
                       /\ stateEntry[s] = NoState /\ stateDisk[s] = NoState
  BY DEF ChainInit, StoreInit
<1>3. pub = NoPublication /\ captured[0] = ZeroBytes /\ captures = 0 /\ refused = {}
  BY ByteTypes DEF ChainInit, StoreInit
<1>4. ChainTypeOK
  <2>1. captured \in [Images -> Bytes] /\ captures \in Images
    BY ByteTypes DEF ChainInit, StoreInit
  <2>2. pub \in Publication
    BY <1>3, EmptyTypes
  <2>3. StoreTypeOK
    BY <2>1, <2>2, EmptyTypes, Zenon DEF ChainInit, StoreInit, StoreTypeOK, Publication, Stage
  <2>4. lineage.base \in {0, Unavailable} /\ lineage \in Lineage
    BY <1>1, ByteTypes, Zenon DEF ChainInit, FreshBase, Lineage
  <2> QED
    BY <1>1, <2>3, <2>4 DEF ChainInit, ChainTypeOK, DirtyInv, Lineage
<1>5. FilesInv
  <2>1. NoFile.form = "none" /\ NoState.form = "none" /\ Whole(NoFile) /\ Whole(NoState)
    BY DEF NoFile, NoState, Whole
  <2> QED
    BY <1>2, <2>1, Zenon DEF FilesInv, ExactIn, Intact, Stands, Kept
<1>6. HistoryInv /\ StagedInv /\ CommitInv /\ PlacedInv
  BY <1>3, Zenon DEF HistoryInv, StagedInv, CommitInv, PlacedInv, NoPublication, NoState,
     Taken, Sealed, Synced, Visible, InPlace, Ended
<1>7. GuardInv
  BY <1>3, Zenon DEF GuardInv, NoPublication, ChainInit, DirtyInit, Taken, Sealed, Synced,
     Visible, InPlace, Ended
<1>8. BaseInv
  <2>1. lineage.base = (IF tracked THEN 0 ELSE -1)
    BY Zenon DEF ChainInit, FreshBase, Unavailable
  <2>2. \A q \in Pages : mem[q] = captured[0][q]
    BY <1>3 DEF ChainInit, DirtyInit
  <2>3. CleanMatchesBase
    BY <2>1, <2>2, Zenon DEF CleanMatchesBase, ChainInit, DirtyInit, Unavailable
  <2>4. BaseSurvives
    BY <2>1 DEF BaseSurvives
  <2> QED
    BY <1>3, <2>1, <2>3, <2>4 DEF BaseInv
<1> QED
  BY <1>1, <1>4, <1>5, <1>6, <1>7, <1>8 DEF ChainInv

\* What the files keep when nothing of them changes.
LEMMA StoreFrame ==
    ASSUME ChainInv, UNCHANGED <<fileVars, pub, captured, captures, refused, folded, op>>
    PROVE  FilesInv' /\ HistoryInv' /\ StagedInv' /\ CommitInv' /\ PlacedInv'
<1> USE DEF ChainInv, fileVars
<1>1. FilesInv' /\ HistoryInv'
  BY Zenon DEF FilesInv, HistoryInv, Kept
<1>2. StagedInv' /\ CommitInv'
  BY Zenon DEF StagedInv, CommitInv
<1>3. PlacedInv'
  BY Zenon DEF PlacedInv
<1> QED
  BY <1>1, <1>2, <1>3, Zenon

\* Steps of the guest, the devices and virtio-mem leave the files alone, and
\* a clean page clean.
LEMMA MemoryStepInv ==
    ASSUME ChainInv, DirtyNext, StoreKept
    PROVE  ChainInv'
<1> USE DEF StoreKept, storeVars, chainVars, fileVars
<1>1. DirtyInv'
  BY DirtyStepInv DEF ChainInv
<1>2. ChainTypeOK'
  BY <1>1 DEF ChainInv, ChainTypeOK, StoreTypeOK, DirtyInv
<1>3. held' = held /\ tracked' = tracked /\ (held => mem' = mem /\ owned' = owned)
  BY GuardFreezesMemory DEF ChainInv
<1>4. GuardInv'
  <2>1. pub.stage \in Taken => held
    BY Zenon DEF ChainInv, GuardInv, Taken, Sealed, Synced, Visible, InPlace, Ended
  <2> QED
    BY <1>3, <2>1 DEF ChainInv, GuardInv
<1>5. BaseInv'
  <2>1. CleanMatchesBase'
    BY <1>3, CleanPagesKeep, Zenon DEF ChainInv, BaseInv, CleanMatchesBase
  <2> QED
    BY <2>1, Zenon DEF ChainInv, BaseInv, BaseSurvives
<1> QED
  BY <1>1, <1>2, <1>4, <1>5, StoreFrame DEF ChainInv

-----------------------------------------------------------------------------
(* What the invariant gives                                                  *)

\* What the invariant says of the files.
LEMMA FilesConsequence ==
    ASSUME ChainInv
    PROVE  ArtifactsAreExact /\ CommitsStandOnMemory /\ RefusedIsInvisible
<1>1. ArtifactsAreExact
  BY Zenon DEF ChainInv, FilesInv, ExactIn, Intact, ArtifactsAreExact
<1>2. \A s \in Slots : stateEntry[s].form # "none" => Intact(stateEntry[s])
  BY Zenon DEF ChainInv, FilesInv, Whole, Intact
<1>3. CommitsStandOnMemory
  BY <1>2, Zenon DEF ChainInv, FilesInv, Stands, CommitsStandOnMemory
<1>4. RefusedIsInvisible
  BY Zenon DEF ChainInv, FilesInv, Kept, RefusedIsInvisible
<1> QED
  BY <1>1, <1>3, <1>4

\* Within a session only a durable publication moves the base.
LEMMA BaseMoves ==
    ASSUME ChainInv, ChainNext, up, up', lineage'.base # lineage.base
    PROVE  CompleteDurable
<1>1. lineage \in Lineage
  BY Zenon DEF ChainInv, ChainTypeOK, Lineage
<1>2. ~StoreKept /\ ~MemoryKept
  BY Zenon DEF StoreKept, MemoryKept, chainVars
<1>3. ~Gone /\ ~Starts
  BY DEF Gone, Starts
<1>4. ~SealCommit /\ ~CancelCapture
  BY DEF SealCommit, CancelCapture
<1>5. /\ ~Capture /\ ~PublicationFails
      /\ \A kind \in {"Full", "Diff"}, s \in Slots : ~BeginSnapshot(kind, s)
  BY <1>1, Zenon DEF Capture, PublicationFails, Aborted, BeginSnapshot, Lineage
<1>6. /\ ~CaptureFailsTerminally /\ ~CompleteTerminally /\ ~ProcessDies /\ ~PowerLoss
      /\ \A track \in BOOLEAN : ~FreshBoot(track)
      /\ \A s, t \in Slots : ~LoadSnapshot(s, t)
      /\ \A v \in Values, track \in BOOLEAN : ~LoadLegacy(v, track)
  BY <1>3, Zenon DEF CaptureFailsTerminally, CompleteTerminally, ProcessDies, PowerLoss,
     FreshBoot, LoadSnapshot, LoadLegacy
<1> QED
  BY <1>2, <1>4, <1>5, <1>6 DEF ChainNext

-----------------------------------------------------------------------------
(* The capture                                                               *)

\* A memory whose bytes, tracker and devices do not move keeps its invariant
\* when the guard is taken over a quiet machine or released.
LEMMA GuardMovesInv ==
    ASSUME DirtyInv, held' \in BOOLEAN,
           held' => dev = NoPage /\ hp.op = "Idle" /\ \A m \in Members : exits[m] = NoPage,
           UNCHANGED <<guestVars, trackerVars, memberVars, dev, hotplugVars>>
    PROVE  DirtyInv'
BY Zenon DEF DirtyInv, DirtyTypeOK, WritesAreSeen, DevicesMark, UnpluggedAreUnmapped,
   GuardIsQuiet, guestVars, trackerVars, memberVars, hotplugVars

\* The lineage of a session that only opens or aborts a publication.
LEMMA BaseFrame ==
    ASSUME ChainInv, lineage'.base = lineage.base, up' = up, memDisk' = memDisk,
           UNCHANGED <<mem, owned, writable, tracked, dirty, restored, folded>>,
           captures' \in Images, captures <= captures',
           \A i \in Images : i <= captures => captured'[i] = captured[i]
    PROVE  BaseInv'
<1> USE DEF ChainInv, ChainTypeOK, StoreTypeOK
<1>1. lineage.base <= captures /\ lineage.base \in Images \cup {Unavailable}
  BY DEF BaseInv, Lineage
<1>2. lineage'.base <= captures'
  BY <1>1 DEF Images, Unavailable
<1>3. lineage.base # Unavailable => captured'[lineage.base] = captured[lineage.base]
  BY <1>1
<1>4. CleanMatchesBase'
  BY <1>3 DEF BaseInv, CleanMatchesBase, Restoring
<1>5. BaseSurvives'
  BY DEF BaseInv, BaseSurvives
<1> QED
  BY <1>2, <1>4, <1>5 DEF BaseInv

\* The same when there is no new capture either.
LEMMA BaseStays ==
    ASSUME ChainInv, lineage'.base = lineage.base,
           UNCHANGED <<up, memDisk, mem, owned, writable, tracked, dirty, restored, folded,
                       captures, captured>>
    PROVE  BaseInv'
BY Zenon DEF ChainInv, BaseInv, CleanMatchesBase, BaseSurvives, Restoring

\* A snapshot begins over a quiet machine.
LEMMA BeginInv ==
    ASSUME ChainInv, NEW k \in {"Full", "Diff"}, NEW slot \in Slots, BeginSnapshot(k, slot)
    PROVE  ChainInv'
<1> USE DEF BeginSnapshot, PreflightAbsent, CreateStaging
<1>1. DirtyInv'
  BY GuardMovesInv DEF ChainInv, Quiet
<1>2. /\ pub' \in Publication /\ pub'.stage = "Producing" /\ pub'.slot = slot
      /\ pub'.state.form = k /\ pub'.state.id = 0
  <2>1. pub' = [stage |-> "Producing", slot |-> slot, file |-> NoFile,
                state |-> [form |-> k, id |-> 0, track |-> FALSE, synced |-> TRUE]]
    BY DEF NoPublication, NoState
  <2>2. [form |-> k, id |-> 0, track |-> FALSE, synced |-> TRUE] \in StateFile
    BY ONLY k \in {"Full", "Diff"}, ByteTypes DEF StateFile
  <2>3. "Producing" \in Stage
    BY DEF Stage, BeforeCommit
  <2> QED
    BY ONLY <2>1, <2>2, <2>3, slot \in Slots, EmptyTypes DEF Publication
<1>3. lineage' \in Lineage /\ lineage'.base = lineage.base
  BY Zenon DEF ChainInv, ChainTypeOK, Lineage
<1>4. ChainTypeOK'
  BY <1>1, <1>2, <1>3, Zenon DEF ChainInv, ChainTypeOK, StoreTypeOK, DirtyInv, Publication,
     Stage, Lineage, fileVars
<1>5. FilesInv' /\ HistoryInv'
  BY Zenon DEF ChainInv, FilesInv, HistoryInv, Kept, fileVars
<1>6. StagedInv' /\ CommitInv' /\ PlacedInv'
  BY <1>2, Zenon DEF StagedInv, CommitInv, PlacedInv, Taken, Sealed, Synced, Visible, InPlace,
     Ended
<1>7. GuardInv'
  BY <1>2, Zenon DEF GuardInv, Taken, Sealed, Synced, Visible, InPlace, Ended
<1>8. BaseInv'
  BY <1>3, BaseStays, Zenon DEF fileVars, guestVars, trackerVars
<1> QED
  BY <1>1, <1>4, <1>5, <1>6, <1>7, <1>8 DEF ChainInv

\* The staged file of a capture is exact: a layer leaves out the clean pages,
\* which still equal the base.
LEMMA CaptureExact ==
    ASSUME ChainInv, Capture
    PROVE  /\ captures + 1 \in Images
           /\ captured' \in [Images -> Bytes]
           /\ \A i \in Images : i <= captures => captured'[i] = captured[i]
           /\ \A p \in owned : captured'[captures + 1][p] = mem[p]
           /\ pub'.file \in MemoryFile /\ Intact(pub'.file) /\ pub'.file.id = captures + 1
           /\ ExactIn(captured', captures + 1, pub'.file)
<1> DEFINE id == captures + 1
           bytes == [p \in Pages |-> IF p \in owned THEN mem[p] ELSE Absent]
<1>1. /\ captures \in Images /\ captured \in [Images -> Bytes] /\ pub \in Publication
      /\ mem \in [Pages -> Values] /\ owned \in SUBSET Pages /\ dirty \in SUBSET Pages
      /\ tracked \in BOOLEAN /\ lineage.base \in Images \cup {Unavailable}
      /\ lineage.base <= captures
  BY Zenon DEF ChainInv, ChainTypeOK, StoreTypeOK, DirtyTypeOK, Publication, Stage, Lineage,
     BaseInv
<1>2. id \in Images /\ up /\ captures < id
  BY <1>1 DEF Capture, ChainInv, StagedInv, GuardInv, Images
<1>3. bytes \in Bytes
  BY <1>1 DEF Bytes
<1>4. captured' = [captured EXCEPT ![id] = bytes]
  BY DEF Capture
<1>5. /\ captured' \in [Images -> Bytes] /\ captured'[id] = bytes
      /\ \A i \in Images : i <= captures => captured'[i] = captured[i]
  BY <1>1, <1>2, <1>3, <1>4 DEF Images
<1>6. CASE pub.state.form = "Full"
  <2>1. pub'.file = ImageFile(id, mem, owned)
    BY <1>1, <1>6 DEF Capture, Publication
  <2>2. Intact(pub'.file) /\ pub'.file.id = id
    BY <2>1 DEF ImageFile, Intact
  <2>3. pub'.file \in MemoryFile
    BY <1>1, <1>2, <2>1, CaptureFileTypes
  <2>4. ExactIn(captured', id, pub'.file)
    BY <1>1, <1>2, <1>5, <2>1, ExactImage
  <2> QED
    BY <1>1, <1>2, <1>5, <2>2, <2>3, <2>4
<1>7. CASE pub.state.form # "Full"
  <2>1. pub'.file = LayerFile(id, DiffBase, mem, owned, Selected \cap owned)
    BY <1>1, <1>7 DEF Capture, Publication
  <2>2. DiffBase \in Images /\ DiffBase < id
    BY <1>1, <1>2, ByteTypes DEF DiffBase, Images, Unavailable
  <2>3. Selected \cap owned \in SUBSET owned
    OBVIOUS
  <2>4. Restoring = {}
    BY DEF Capture, ChainInv, GuardInv, DirtyInv, GuardIsQuiet, DirtyTypeOK, WritesAreSeen,
       Restoring
  <2>5. \A p \in owned \ (Selected \cap owned) : mem[p] = captured[DiffBase][p]
    BY <1>1, <1>2, <1>7, <2>4, Zenon DEF Selected, DiffBase, Capture, DiffAllowed, ChainInv,
       BaseInv, CleanMatchesBase
  <2>6. captured'[DiffBase] = captured[DiffBase]
    BY <1>5, <2>2, <1>1 DEF Images
  <2>7. Intact(pub'.file) /\ pub'.file.id = id
    BY <2>1 DEF LayerFile, Intact
  <2>8. ExactIn(captured', id, pub'.file)
    BY <1>1, <1>2, <1>5, <2>1, <2>2, <2>3, <2>5, <2>6, ExactLayer
  <2>9. pub'.file \in MemoryFile
    <3>1. Selected \cap owned \in SUBSET Pages
      BY <1>1
    <3> QED
      BY <1>1, <1>2, <2>1, <2>2, <3>1, CaptureFileTypes
  <2> QED
    BY <1>1, <1>2, <1>5, <2>7, <2>8, <2>9
<1> QED
  BY <1>6, <1>7

\* Taking the capture.
LEMMA CaptureInv ==
    ASSUME ChainInv, Capture
    PROVE  ChainInv'
<1>1. DirtyInv' /\ UNCHANGED memoryVars
  BY DirtyStutterInv DEF Capture, ChainInv
<1>2. /\ pub'.stage = "Captured" /\ pub'.slot = pub.slot /\ pub'.state.id = captures + 1
      /\ pub'.state.form = pub.state.form /\ pub' \in Publication
  <2>1. pub \in Publication /\ tracked \in BOOLEAN /\ pub.state.form \in {"Full", "Diff"}
    BY Zenon DEF ChainInv, ChainTypeOK, StoreTypeOK, DirtyTypeOK, Publication, Stage, Capture,
       StagedInv
  <2>2. pub' = [stage |-> "Captured", slot |-> pub.slot, file |-> pub'.file,
                state |-> [form |-> pub.state.form, id |-> captures + 1,
                           track |-> tracked, synced |-> FALSE]]
    BY <2>1 DEF Capture, Publication
  <2>3. [form |-> pub.state.form, id |-> captures + 1, track |-> tracked,
         synced |-> FALSE] \in StateFile
    BY <2>1, CaptureExact DEF StateFile
  <2>4. "Captured" \in Stage
    BY DEF Stage, BeforeCommit
  <2>5. pub.slot \in Slots \cup {NoSlot} /\ pub'.file \in MemoryFile
    BY <2>1, CaptureExact DEF Publication
  <2>6. PICK f \in MemoryFile, st \in StateFile :
            /\ pub' = [stage |-> "Captured", slot |-> pub.slot, file |-> f, state |-> st]
            /\ st.id = captures + 1 /\ st.form = pub.state.form
    BY <2>2, <2>3, <2>5
  <2> QED
    BY ONLY <2>4, <2>5, <2>6 DEF Publication
<1>3. captures \in Images /\ captures' = captures + 1 /\ captures' \in Images
  BY CaptureExact, Zenon DEF Capture, ChainInv, ChainTypeOK, StoreTypeOK
<1>4. lineage' \in Lineage /\ lineage'.base = lineage.base
  BY Zenon DEF Capture, ChainInv, ChainTypeOK, Lineage
<1>5. ChainTypeOK'
  BY <1>1, <1>2, <1>3, <1>4, CaptureExact, Zenon DEF Capture, ChainInv, ChainTypeOK,
     StoreTypeOK, DirtyInv, Publication, Stage, Lineage, fileVars
<1>6. FilesInv' /\ HistoryInv'
  <2>1. captures < captures' /\ captures <= captures'
    BY <1>3 DEF Images
  <2>2. \A f \in MemoryFile : ExactIn(captured, captures, f) => ExactIn(captured', captures', f)
    <3>1. /\ captured \in [Images -> Bytes] /\ captured' \in [Images -> Bytes]
          /\ \A i \in Images : i <= captures => captured'[i] = captured[i]
      BY CaptureExact, Zenon DEF ChainInv, ChainTypeOK, StoreTypeOK
    <3> QED
      BY ONLY <1>3, <2>1, <3>1, ExactGrows
  <2>3. \A f \in StateFile : Kept(f) /\ f.form # "none" =>
                              f.id <= captures' /\ f.id \notin refused'
    BY <1>3 DEF Kept, Capture, StateFile, Images
  <2>4. FilesInv'
    BY <2>2, <2>3, ZenonT(30) DEF FilesInv, Kept, Capture, fileVars, ChainInv, ChainTypeOK,
                                  StoreTypeOK
  <2>5. HistoryInv'
    <3>1. captured'[0] = captured[0]
      BY ONLY <1>3, CaptureExact, ByteTypes, ChainInv, Capture DEF Images
    <3>2. \A i \in refused : 0 < i /\ i <= captures /\ i \in Images
      BY Zenon DEF ChainInv, HistoryInv, ChainTypeOK, StoreTypeOK
    <3>3. \A i \in refused : 0 < i /\ i <= captures'
      BY ONLY <1>3, <3>2 DEF Images
    <3> QED
      BY <3>1, <3>3, Zenon DEF HistoryInv, Capture, ChainInv
  <2> QED
    BY <2>4, <2>5
<1>7. StagedInv'
  <2>1. 0 < captures'
    BY ONLY <1>3 DEF Images
  <2>2. /\ "Captured" \notin {"MemorySynced"} \cup Synced /\ "Captured" \notin Synced
        /\ "Captured" # "Producing"
    BY ONLY DEF Synced, Visible, InPlace, Ended
  <2>3. pub.slot \in Slots /\ pub.state.form \in {"Full", "Diff"}
    BY Zenon DEF ChainInv, StagedInv, Capture
  <2>4. /\ pub'.state.id = captures' /\ Intact(pub'.file) /\ pub'.file.id = captures'
        /\ ExactIn(captured', captures', pub'.file)
    BY <1>2, <1>3, CaptureExact, Zenon
  <2> QED
    BY ONLY <1>2, <2>1, <2>2, <2>3, <2>4, Zenon DEF StagedInv
<1>8. CommitInv'
  <2>1. captures' \notin refused'
    BY <1>3 DEF Capture, ChainInv, HistoryInv, Images, ChainTypeOK, StoreTypeOK
  <2>2. \A s \in Slots : /\ stateEntry[s].form # "none" => stateEntry[s].id < captures'
                         /\ stateDisk[s].form # "none" => stateDisk[s].id < captures'
    <3>1. \A s \in Slots : /\ stateEntry[s] \in StateFile /\ stateDisk[s] \in StateFile
                           /\ Kept(stateEntry[s]) /\ Kept(stateDisk[s])
      BY Zenon DEF ChainInv, FilesInv, ChainTypeOK, StoreTypeOK
    <3> QED
      BY ONLY <1>3, <3>1 DEF Kept, StateFile, Images
  <2> QED
    BY <1>2, <2>1, <2>2, Zenon DEF Capture, CommitInv, fileVars, Taken, Sealed, Synced,
       Visible, InPlace, Ended
<1>9. PlacedInv' /\ GuardInv'
  <2>1. /\ "Captured" \notin Visible /\ "Captured" \notin InPlace
        /\ "Captured" \notin {"Committed", "Durable", "Idle"} /\ "Producing" # "Idle"
    BY ONLY DEF Visible, InPlace, Ended
  <2>2. PlacedInv'
    BY ONLY <1>2, <2>1, Zenon DEF PlacedInv
  <2>3. held /\ up /\ up' = up /\ UNCHANGED <<mem, owned, held>>
    BY <1>1, <2>1, Zenon DEF Capture, ChainInv, GuardInv, memoryVars, guestVars
  <2>4. \A p \in owned' : captured'[captures'][p] = mem'[p]
    BY <1>3, <2>3, CaptureExact, Zenon
  <2> QED
    BY <1>2, <2>1, <2>2, <2>3, <2>4, Zenon DEF GuardInv
<1>10. BaseInv'
  <2>1. captures <= captures'
    BY ONLY <1>3 DEF Images
  <2>2. /\ up' = up /\ memDisk' = memDisk
        /\ UNCHANGED <<mem, owned, writable, tracked, dirty, restored, folded>>
    BY <1>1, Zenon DEF Capture, memoryVars, guestVars, trackerVars, fileVars
  <2>3. \A i \in Images : i <= captures => captured'[i] = captured[i]
    BY CaptureExact, Zenon
  <2> QED
    BY <1>3, <1>4, <2>1, <2>2, <2>3, BaseFrame, Zenon
<1> QED
  BY <1>1, <1>5, <1>6, <1>7, <1>8, <1>9, <1>10, Zenon DEF ChainInv

-----------------------------------------------------------------------------
(* The ends of a publication                                                 *)

\* Without a publication there is nothing staged and no guard.
LEMMA IdleInv ==
    ASSUME pub' = NoPublication, held' = FALSE
    PROVE  pub' \in Publication /\ StagedInv' /\ CommitInv' /\ PlacedInv' /\ GuardInv'
<1>1. pub'.stage = "Idle"
  BY DEF NoPublication
<1> QED
  BY <1>1, EmptyTypes, Zenon DEF StagedInv, CommitInv, PlacedInv, GuardInv, Taken, Sealed,
     Synced, Visible, InPlace, Ended

\* A publication that moves on to another stage.
LEMMA StepFields ==
    ASSUME pub \in Publication, NEW to \in Stage, pub' = [pub EXCEPT !.stage = to]
    PROVE  /\ pub' \in Publication /\ pub'.stage = to /\ pub'.slot = pub.slot
           /\ pub'.file = pub.file /\ pub'.state = pub.state
BY DEF Publication

\* The types of the store, as records of this module.
LEMMA StoreTypes ==
    ASSUME StoreTypeOK
    PROVE  /\ pub \in Publication /\ captures \in Images /\ captures \in Nat
           /\ captured \in [Images -> Bytes]
           /\ pub.file \in MemoryFile /\ pub.state \in StateFile
           /\ \A s \in Slots : /\ memEntry[s] \in MemoryFile /\ memDisk[s] \in MemoryFile
                               /\ stateEntry[s] \in StateFile /\ stateDisk[s] \in StateFile
<1>1. pub \in Publication /\ captures \in Images /\ captured \in [Images -> Bytes]
  BY Zenon DEF StoreTypeOK, Publication, Stage
<1>2. captures \in Nat
  BY ONLY <1>1 DEF Images
<1>3. pub.file \in MemoryFile /\ pub.state \in StateFile
  BY ONLY <1>1 DEF Publication
<1>4. \A s \in Slots : /\ memEntry[s] \in MemoryFile /\ memDisk[s] \in MemoryFile
                       /\ stateEntry[s] \in StateFile /\ stateDisk[s] \in StateFile
  BY Zenon DEF StoreTypeOK
<1> QED
  BY ONLY <1>1, <1>2, <1>3, <1>4

\* The seal, after which a cancellation waits.
LEMMA SealInv ==
    ASSUME ChainInv, SealCommit
    PROVE  ChainInv'
<1> USE DEF SealCommit
<1>1. DirtyInv' /\ UNCHANGED memoryVars
  BY DirtyStutterInv DEF ChainInv
<1>2. /\ pub' \in Publication /\ pub'.stage = "Sealed" /\ pub'.slot = pub.slot
      /\ pub'.file = pub.file /\ pub'.state = pub.state
  BY StoreTypes, StepFields, Zenon DEF ChainInv, ChainTypeOK, Stage, BeforeCommit
<1>3. ChainTypeOK'
  BY <1>1, <1>2, Zenon DEF ChainInv, ChainTypeOK, StoreTypeOK, DirtyInv, Publication, Stage,
     fileVars
<1>4. FilesInv' /\ HistoryInv'
  BY Zenon DEF ChainInv, FilesInv, HistoryInv, Kept, fileVars
<1>5. StagedInv' /\ CommitInv' /\ PlacedInv' /\ GuardInv'
  BY <1>1, <1>2 DEF ChainInv, StagedInv, CommitInv, PlacedInv, GuardInv, Taken, Sealed,
                    Synced, Visible, InPlace, Ended, memoryVars, guestVars, fileVars
<1>6. BaseInv'
  BY <1>1, BaseStays, Zenon DEF memoryVars, guestVars, trackerVars, fileVars
<1> QED
  BY <1>1, <1>3, <1>4, <1>5, <1>6 DEF ChainInv

\* The identity a failed or cancelled publication gives to the refused ones is
\* one no visible state has.
LEMMA RefusedInv ==
    ASSUME ChainInv, refused' = refused \cup CaptureId,
           pub.stage \in {"Producing", "Captured"} \cup (Taken \ Ended),
           UNCHANGED <<fileVars, captured, captures, folded>>
    PROVE  FilesInv' /\ HistoryInv' /\ refused' \subseteq Images
<1>1. /\ captures \in Nat
      /\ \A s \in Slots : stateEntry[s] \in StateFile /\ stateDisk[s] \in StateFile
  BY StoreTypes DEF ChainInv, ChainTypeOK
<1>2. \A i \in CaptureId : i = captures /\ 0 < captures /\ pub.stage \in Taken \ Ended
  BY Zenon DEF CaptureId, ChainInv, StagedInv, Taken, Sealed, Synced, Visible, InPlace, Ended
<1>3. \A s \in Slots : /\ stateEntry[s].form # "none" => stateEntry[s].id \notin CaptureId
                       /\ stateDisk[s].form # "none" => stateDisk[s].id \notin CaptureId
  <2> SUFFICES ASSUME NEW s \in Slots, NEW i \in CaptureId
               PROVE  /\ stateEntry[s].form # "none" => stateEntry[s].id # i
                      /\ stateDisk[s].form # "none" => stateDisk[s].id # i
    BY Zenon
  <2>1. /\ stateEntry[s].form # "none" => stateEntry[s].id < captures
        /\ stateDisk[s].form # "none" => stateDisk[s].id < captures
    BY <1>2, Zenon DEF ChainInv, CommitInv
  <2>2. i = captures /\ captures \in Nat
    BY <1>1, <1>2, Zenon
  <2> QED
    BY ONLY <2>1, <2>2
<1>4. FilesInv'
  BY <1>3, Zenon DEF ChainInv, FilesInv, Kept, fileVars
<1>5. HistoryInv' /\ refused' \subseteq Images
  <2>1. captures \in Images /\ refused \subseteq Images
    BY Zenon DEF ChainInv, ChainTypeOK, StoreTypeOK
  <2>2. refused' \subseteq Images
    BY <1>2, <2>1
  <2>3. \A i \in refused : 0 < i /\ i <= captures
    BY DEF ChainInv, HistoryInv
  <2>4. \A i \in refused' : 0 < i /\ i <= captures
    BY ONLY <1>1, <1>2, <2>3, refused' = refused \cup CaptureId
  <2>5. captured'[0] = ZeroBytes
    BY DEF ChainInv, HistoryInv
  <2> QED
    BY <2>2, <2>4, <2>5 DEF HistoryInv
<1> QED
  BY <1>4, <1>5

\* A cancellation is admitted only before the seal.
LEMMA CancelInv ==
    ASSUME ChainInv, CancelCapture
    PROVE  ChainInv'
<1> USE DEF CancelCapture
<1>1. DirtyInv' /\ UNCHANGED memoryVars
  BY DirtyStutterInv DEF ChainInv
<1>2. pub.stage \in {"Producing", "Captured"}
  BY Zenon DEF ChainInv, ChainTypeOK, StoreTypeOK, CommitInv, BeforeCommit, Taken, Sealed,
     Synced, Visible, InPlace, Ended
<1>3. FilesInv' /\ HistoryInv' /\ refused' \subseteq Images
  BY <1>2, RefusedInv
<1>4. ChainTypeOK'
  BY <1>1, <1>3, Zenon DEF ChainInv, ChainTypeOK, StoreTypeOK, DirtyInv, fileVars
<1>5. StagedInv' /\ CommitInv' /\ PlacedInv' /\ GuardInv'
  <2>1. UNCHANGED <<mem, owned, held, memEntry, memDisk, stateEntry, stateDisk>>
    BY <1>1, Zenon DEF memoryVars, guestVars, fileVars
  <2>2. pub.stage \notin Sealed /\ ~(pub.stage = "Captured" /\ op' = "Active")
    BY <1>2, Zenon DEF Sealed, Synced, Visible, InPlace, Ended
  <2>3. StagedInv' /\ PlacedInv' /\ GuardInv'
    BY <2>1, Zenon DEF ChainInv, StagedInv, PlacedInv, GuardInv
  <2>4. CommitInv'
    BY <2>1, <2>2, Zenon DEF ChainInv, CommitInv
  <2> QED
    BY <2>3, <2>4
<1>6. BaseInv'
  BY <1>1, BaseStays, Zenon DEF memoryVars, guestVars, trackerVars, fileVars
<1> QED
  BY <1>1, <1>3, <1>4, <1>5, <1>6 DEF ChainInv

\* A publication that answers Err has committed nothing.
LEMMA FailInv ==
    ASSUME ChainInv, PublicationFails
    PROVE  ChainInv'
<1> USE DEF PublicationFails
<1>1. DirtyInv'
  BY GuardMovesInv DEF ChainInv
<1>2. pub.stage \in {"Producing", "Captured"} \cup (Taken \ Ended)
  BY Zenon DEF MayFail, BeforeCommit, Taken, Sealed, Synced, Visible, InPlace, Ended
<1>3. FilesInv' /\ HistoryInv' /\ refused' \subseteq Images
  BY <1>2, RefusedInv
<1>4. lineage' \in Lineage /\ lineage'.base = lineage.base
  BY Zenon DEF Aborted, ChainInv, ChainTypeOK, Lineage
<1>5. ChainTypeOK'
  BY <1>1, <1>3, <1>4, IdleInv, Zenon DEF ChainInv, ChainTypeOK, StoreTypeOK, DirtyInv,
     fileVars, Publication, Stage, Lineage
<1>6. BaseInv'
  BY <1>4, BaseStays, Zenon DEF guestVars, trackerVars, fileVars
<1> QED
  BY <1>1, <1>3, <1>5, <1>6, IdleInv DEF ChainInv

\* A session that ends takes its memory, its guard and its lineage with it.
LEMMA GoneInv ==
    ASSUME Gone
    PROVE  /\ DirtyInv' /\ held' = FALSE /\ up' = FALSE /\ op' = "Active"
           /\ lineage' \in Lineage /\ lineage'.base = -1
<1>1. DirtyInv'
  BY SessionInv, ByteTypes, ZenonT(30) DEF Gone
<1>2. held' = FALSE /\ up' = FALSE /\ op' = "Active"
  BY DEF Gone, Session
<1>3. lineage' \in Lineage /\ lineage'.base = -1
  BY Zenon DEF Gone, Lineage, Unavailable
<1> QED
  BY <1>1, <1>2, <1>3

\* The death of a session, for whatever reason, leaves the files as they are.
LEMMA EndInv ==
    ASSUME ChainInv, Gone, pub' = NoPublication,
           UNCHANGED <<fileVars, rebased, captured, captures, refused, folded, restarts>>
    PROVE  ChainInv'
<1>1. ChainTypeOK'
  BY GoneInv, IdleInv, Zenon DEF ChainInv, ChainTypeOK, StoreTypeOK, DirtyInv, fileVars,
     Publication, Stage, Lineage
<1>2. FilesInv' /\ HistoryInv'
  BY Zenon DEF ChainInv, FilesInv, HistoryInv, Kept, fileVars
<1>3. BaseInv'
  <2>1. -1 <= captures'
    <3>1. captures \in Nat /\ captures' = captures
      BY StoreTypes, Zenon DEF ChainInv, ChainTypeOK
    <3> QED
      BY ONLY <3>1
  <2> QED
    BY <2>1, GoneInv, Zenon DEF BaseInv, CleanMatchesBase, BaseSurvives
<1> QED
  BY <1>1, <1>2, <1>3, GoneInv, IdleInv DEF ChainInv

\* A durable snapshot becomes the base, and the next epoch starts clean.
LEMMA CompleteInv ==
    ASSUME ChainInv, CompleteDurable
    PROVE  ChainInv'
<1> USE DEF CompleteDurable, PublishedDurable
<1>1. held
  BY Zenon DEF ChainInv, GuardInv
<1>2. DirtyInv' /\ held' = FALSE
  BY <1>1, ResetKeepsInv, ZenonT(30) DEF ChainInv
<1>3. pub.state.id = captures /\ 0 < captures /\ captures \in Images
  BY Zenon DEF ChainInv, StagedInv, Taken, Sealed, Synced, Visible, InPlace, Ended,
     ChainTypeOK, StoreTypeOK
<1>4. lineage' \in Lineage /\ lineage'.base = captures
  BY <1>3 DEF Lineage
<1>5. ChainTypeOK'
  BY <1>2, <1>4, IdleInv, Zenon DEF ChainInv, ChainTypeOK, StoreTypeOK, DirtyInv, fileVars,
     Publication, Stage, Lineage
<1>6. FilesInv' /\ HistoryInv'
  BY Zenon DEF ChainInv, FilesInv, HistoryInv, Kept, fileVars
<1>7. CleanMatchesBase'
  <2>1. \A p \in owned : captured[captures][p] = mem[p]
    BY Zenon DEF ChainInv, GuardInv, Taken, Sealed, Synced, Visible, InPlace, Ended
  <2> QED
    BY <1>4, <2>1 DEF CleanMatchesBase, ResetEpoch
<1>8. BaseSurvives'
  <2>1. pub.slot \in Slots /\ pub.state.form # "none"
    BY DEF ChainInv, StagedInv
  <2>2. Stands(pub.state, memDisk[pub.slot], folded)
    BY Zenon DEF ChainInv, PlacedInv, InPlace, Ended
  <2>3. captures \notin folded => /\ Intact(memDisk[pub.slot]) /\ memDisk[pub.slot].synced
                                 /\ memDisk[pub.slot].id = captures
    BY <1>3, <2>1, <2>2, Zenon DEF Stands, ChainInv, FilesInv, Whole
  <2> QED
    BY <1>4, <2>1, <2>3 DEF BaseSurvives, fileVars
<1>9. BaseInv'
  <2>1. captures' = captures
    OBVIOUS
  <2>2. lineage'.base <= captures'
    BY ONLY <1>3, <1>4, <2>1 DEF Images
  <2> QED
    BY ONLY <1>7, <1>8, <2>2, Zenon DEF BaseInv
<1> QED
  BY <1>2, <1>5, <1>6, <1>9, IdleInv DEF ChainInv

=============================================================================
