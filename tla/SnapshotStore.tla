--------------------------- MODULE SnapshotStore ---------------------------
(* The files of native snapshots: a publication writes a memory artifact and *)
(* a state artifact to staging files and makes them visible one after the    *)
(* other, the state last as the commit (runtime snapshot_artifact/macos.rs); *)
(* a rebase folds a Diff layer into its base (snapshot_rebase/macos.rs).     *)
(* A slot is a pair of paths.  Every directory entry has what the file       *)
(* system shows and what a loss of power leaves of it; the entries are taken *)
(* to lie in directories of their own, so that syncing one saves no other.   *)
EXTENDS GuestPages

CONSTANTS
    Absent,      \* no bytes for a page
    Slots,       \* pairs of artifact paths
    NoSlot,      \* no pair
    MaxCaptures  \* bound: snapshots captured, also their image identities

ASSUME StoreConstants ==
    /\ Absent \notin Values
    /\ NoSlot \notin Slots
    /\ MaxCaptures \in Nat

VARIABLES
    memEntry,    \* memory artifact each slot shows
    memDisk,     \* memory artifact each slot keeps after a loss of power
    stateEntry,  \* state artifact each slot shows
    stateDisk,   \* state artifact each slot keeps after a loss of power
    pub,         \* the publication in progress
    rebased,     \* slot whose exchange is not yet synced, a set with at most one
    captured,    \* history: guest memory at each capture, image 0 the zero base
    captures,    \* captures so far
    refused,     \* history: captures cancelled or answered with Err
    folded       \* history: images a rebase replaced

fileVars == <<memEntry, memDisk, stateEntry, stateDisk>>
storeVars == <<fileVars, pub, rebased, captured, captures, refused, folded>>

Images == 0 .. MaxCaptures
Unavailable == -1
Bytes == [Pages -> Values \cup {Absent}]
NoBytes == [p \in Pages |-> Absent]

NoFile == [form |-> "none", id |-> 0, base |-> 0, topo |-> {}, data |-> NoBytes,
           synced |-> TRUE]
NoState == [form |-> "none", id |-> 0, track |-> FALSE, synced |-> TRUE]
NoPublication == [stage |-> "Idle", slot |-> NoSlot,
                  file |-> NoFile, state |-> NoState]

\* Stages in which a publication that fails has committed nothing.
BeforeCommit == {"Producing", "Captured", "Sealed", "MemorySynced", "StateSynced",
                 "MemoryVisible", "MemoryDurable"}

MemoryFile == [form : {"none", "torn", "image", "layer"}, id : Images, base : Images,
               topo : SUBSET Pages, data : Bytes, synced : BOOLEAN]
StateFile == [form : {"none", "torn", "Full", "Diff"}, id : Images,
              track : BOOLEAN, synced : BOOLEAN]

StoreTypeOK ==
    /\ memEntry \in [Slots -> MemoryFile] /\ memDisk \in [Slots -> MemoryFile]
    /\ stateEntry \in [Slots -> StateFile] /\ stateDisk \in [Slots -> StateFile]
    /\ pub \in [stage : BeforeCommit \cup {"Idle", "Committed", "Durable", "Uncertain"},
                slot : Slots \cup {NoSlot}, file : MemoryFile, state : StateFile]
    /\ rebased \in {{}} \cup {{s} : s \in Slots}
    /\ captured \in [Images -> Bytes]
    /\ captures \in Images
    /\ refused \subseteq Images /\ folded \subseteq Images

StoreInit ==
    /\ memEntry = [s \in Slots |-> NoFile] /\ memDisk = memEntry
    /\ stateEntry = [s \in Slots |-> NoState] /\ stateDisk = stateEntry
    /\ pub = NoPublication /\ rebased = {}
    /\ captured = [i \in Images |-> IF i = 0 THEN ZeroBytes ELSE NoBytes]
    /\ captures = 0 /\ refused = {} /\ folded = {}

\* Both destinations must be absent; the staging files start empty.
PreflightAbsent(slot) == memEntry[slot].form = "none" /\ stateEntry[slot].form = "none"
CreateStaging(kind, slot) ==
    [NoPublication EXCEPT !.stage = "Producing", !.slot = slot, !.state.form = kind]

Intact(file) == file.form \notin {"none", "torn"}

-----------------------------------------------------------------------------
(* What the artifacts stand for                                              *)

\* A complete image of the given pages, or a layer of the selected ones.
ImageFile(id, bytes, pages) ==
    [form |-> "image", id |-> id, base |-> 0, topo |-> pages,
     data |-> [p \in Pages |-> IF p \in pages THEN bytes[p] ELSE Absent],
     synced |-> FALSE]
LayerFile(id, base, bytes, pages, selected) ==
    [form |-> "layer", id |-> id, base |-> base, topo |-> pages,
     data |-> [p \in Pages |-> IF p \in selected THEN bytes[p] ELSE Absent],
     synced |-> FALSE]

\* The pages of a layer over a base: its own bytes, else the base's.
Over(base, layer) ==
    [p \in Pages |-> IF p \notin layer.topo THEN Absent
                     ELSE IF layer.data[p] # Absent THEN layer.data[p]
                     ELSE base[p]]
Covers(base, layer) ==
    \A p \in layer.topo : layer.data[p] # Absent \/ base[p] # Absent

\* A file that holds a whole memory by itself: an image, or a layer over zero.
Complete(file) == file.form = "image" \/ (file.form = "layer" /\ file.base = 0)
Contents(file) == IF file.form = "image" THEN file.data ELSE Over(ZeroBytes, file)

\* A state artifact loads with a complete memory file of the same image; a
\* Full state only with an image.
Loadable(state, file) ==
    /\ Intact(state) /\ Intact(file) /\ Complete(file)
    /\ state.form = "Full" => file.form = "image"
    /\ file.id = state.id

-----------------------------------------------------------------------------
(* The publication after its producer has returned                           *)

Step(from, to) == pub.stage = from /\ pub' = [pub EXCEPT !.stage = to]
KeepHistory == UNCHANGED <<rebased, captured, captures, refused, folded>>

SyncMemoryFile ==
    /\ pub.stage = "Sealed"
    /\ pub' = [pub EXCEPT !.stage = "MemorySynced", !.file.synced = TRUE]
    /\ UNCHANGED fileVars /\ KeepHistory

SyncStateFile ==
    /\ pub.stage = "MemorySynced"
    /\ pub' = [pub EXCEPT !.stage = "StateSynced", !.state.synced = TRUE]
    /\ UNCHANGED fileVars /\ KeepHistory

\* An exclusive rename from the staging name.
PublishMemory ==
    /\ Step("StateSynced", "MemoryVisible")
    /\ memEntry[pub.slot].form = "none"
    /\ memEntry' = [memEntry EXCEPT ![pub.slot] = pub.file]
    /\ UNCHANGED <<memDisk, stateEntry, stateDisk>> /\ KeepHistory

\* Mutant: the memory directory is not synced before the commit.
SavedNothing(entries, disk, s) == disk

Saved(entries, disk, s) == [disk EXCEPT ![s] = entries[s]]

SyncMemoryDirectory ==
    /\ Step("MemoryVisible", "MemoryDurable")
    /\ memDisk' = Saved(memEntry, memDisk, pub.slot)
    /\ UNCHANGED <<memEntry, stateEntry, stateDisk>> /\ KeepHistory

\* The rename that commits the snapshot.
PublishState ==
    /\ Step("MemoryDurable", "Committed")
    /\ stateEntry[pub.slot].form = "none"
    /\ stateEntry' = [stateEntry EXCEPT ![pub.slot] = pub.state]
    /\ UNCHANGED <<memEntry, memDisk, stateDisk>> /\ KeepHistory

SyncStateDirectory ==
    /\ Step("Committed", "Durable")
    /\ stateDisk' = [stateDisk EXCEPT ![pub.slot] = stateEntry[pub.slot]]
    /\ UNCHANGED <<memEntry, memDisk, stateEntry>> /\ KeepHistory

\* A sync that fails after the commit is no error: the durability is unknown.
SyncStateDirectoryFails ==
    /\ Step("Committed", "Uncertain")
    /\ UNCHANGED fileVars /\ KeepHistory

-----------------------------------------------------------------------------
(* Rebase, a process of its own                                              *)

\* Mutant: a layer is applied to whatever base it is given.
FoldsOntoAny(base, layer) == Complete(base) /\ layer.form = "layer"

\* A layer folds into a complete base that is its predecessor and covers it.
FoldsOnto(base, layer) ==
    /\ Complete(base) /\ layer.form = "layer"
    /\ layer.base = base.id /\ Covers(Contents(base), layer)

Folded(base, layer) ==
    [form |-> "image", id |-> layer.id, base |-> 0, topo |-> layer.topo,
     data |-> Over(Contents(base), layer), synced |-> TRUE]

\* The result is materialized, synced and verified under a staging name, and
\* exchanged with the base; a failure before leaves the base as it was.
RebaseExchange(b, d) ==
    /\ rebased = {} /\ b # d
    /\ Intact(memEntry[b]) /\ Intact(memEntry[d])
    /\ FoldsOnto(memEntry[b], memEntry[d])
    /\ memEntry' = [memEntry EXCEPT ![b] = Folded(memEntry[b], memEntry[d])]
    /\ rebased' = {b} /\ folded' = folded \cup {memEntry[b].id}
    /\ UNCHANGED <<memDisk, stateEntry, stateDisk, pub, captured, captures, refused>>

\* The displaced base is unlinked and the directory synced, or the rebase
\* answers with its durability unknown.
RebaseFinish(synced) ==
    /\ \E b \in rebased :
        memDisk' = IF synced THEN [memDisk EXCEPT ![b] = memEntry[b]] ELSE memDisk
    /\ rebased' = {}
    /\ UNCHANGED <<memEntry, stateEntry, stateDisk, pub, captured, captures,
                   refused, folded>>

-----------------------------------------------------------------------------
(* Loss of power                                                             *)

\* Each entry is the one shown or the one synced last; contents that were not
\* synced are torn.
Torn(file) == IF file.synced THEN file ELSE [file EXCEPT !.form = "torn"]
Unsynced(entries, disk) == {s \in Slots : entries[s] # disk[s]}
LosePower ==
    /\ \E ms \in SUBSET Unsynced(memEntry, memDisk),
          ss \in SUBSET Unsynced(stateEntry, stateDisk) :
        /\ memEntry' = [s \in Slots |-> Torn(IF s \in ms THEN memDisk[s] ELSE memEntry[s])]
        /\ stateEntry' = [s \in Slots |-> Torn(IF s \in ss THEN stateDisk[s] ELSE stateEntry[s])]
    /\ memDisk' = memEntry' /\ stateDisk' = stateEntry'
    /\ pub' = NoPublication /\ rebased' = {}
    /\ UNCHANGED <<captured, captures, refused, folded>>

-----------------------------------------------------------------------------
(* Properties                                                                *)

\* Whatever happened to the files, an intact memory artifact stands for the
\* guest memory at the capture whose identity it carries: an image byte for
\* byte, a layer over its base (snapshot_diff_v2_13 writer.rs, materialize.rs;
\* snapshot_rebase/macos.rs).
ArtifactsAreExact ==
    \A s \in Slots : LET file == memEntry[s] IN
        /\ file.form = "image" => file.data = captured[file.id]
        /\ file.form = "layer" => Over(captured[file.base], file) = captured[file.id]

\* A state artifact that is visible, in particular after a loss of power, is
\* intact and has its memory artifact beside it, unless a rebase folded a later
\* capture into that memory (macos.rs publish_prepared_with).
CommitsStandOnMemory ==
    \A s \in Slots : stateEntry[s].form # "none" =>
        /\ Intact(stateEntry[s]) /\ Intact(memEntry[s])
        /\ \/ memEntry[s].id = stateEntry[s].id
           \/ stateEntry[s].id \in folded /\ memEntry[s].id > stateEntry[s].id

\* A publication that answered Err has no state commit ("A failed publication
\* whose `Err` contract guarantees no state commit was published",
\* snapshot_artifact.rs), and neither has one that a shutdown cancelled.
RefusedIsInvisible ==
    \A s \in Slots : stateEntry[s].form # "none" => stateEntry[s].id \notin refused

=============================================================================
