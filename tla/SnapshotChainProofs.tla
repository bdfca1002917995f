------------------------ MODULE SnapshotChainProofs -------------------------
(* The steps of SnapshotChain that make a publication durable and visible,   *)
(* rebase, loss of power and new sessions keep its invariant; its theorems,  *)
(* for every set of pages, members and slots and every bound on captures and *)
(* restarts.                                                                 *)
EXTENDS SnapshotCaptureProofs

USE PageConstants, DirtyConstants, StoreConstants, ChainConstants

-----------------------------------------------------------------------------
(* The steps of the publication                                              *)

\* What a step of the publication leaves alone.
LEMMA PublishFrame ==
    ASSUME ChainInv, MemoryKept, KeepHistory, pub.stage \in Taken, pub'.stage \in Taken
    PROVE  /\ DirtyInv' /\ HistoryInv' /\ GuardInv'
           /\ memDisk' = memDisk => BaseInv'
<1> USE DEF MemoryKept, KeepHistory, chainVars
<1>1. DirtyInv'
  BY DirtyStutterInv DEF ChainInv
<1>2. HistoryInv'
  BY DEF ChainInv, HistoryInv
<1>3. GuardInv'
  BY Zenon DEF ChainInv, GuardInv, memoryVars, guestVars, Taken, Sealed, Synced, Visible,
     InPlace, Ended
<1>4. memDisk' = memDisk => BaseInv'
  BY BaseStays, Zenon DEF memoryVars, guestVars, trackerVars
<1> QED
  BY <1>1, <1>2, <1>3, <1>4

\* Syncing its contents changes nothing a file stands for.
LEMMA SyncedFile ==
    ASSUME NEW file \in MemoryFile, NEW other, other = [file EXCEPT !.synced = TRUE]
    PROVE  /\ other \in MemoryFile /\ other.synced = TRUE /\ other.id = file.id
           /\ Intact(file) => Intact(other)
           /\ \A n \in Images : \A history \in [Images -> Bytes] :
                 ExactIn(history, n, file) => ExactIn(history, n, other)
<1>1. /\ other \in MemoryFile /\ other.synced = TRUE /\ other.id = file.id
      /\ other.form = file.form /\ other.base = file.base /\ other.topo = file.topo
      /\ other.data = file.data
  BY DEF MemoryFile
<1>2. \A base \in Bytes : Over(base, other) = Over(base, file)
  BY <1>1 DEF Over
<1>3. file.base \in Images
  BY DEF MemoryFile
<1> QED
  BY <1>1, <1>2, <1>3, ZenonT(30) DEF ExactIn, Intact

\* The staged memory is synced: the file is the same but for that.
LEMMA SyncMemoryInv ==
    ASSUME ChainInv, SyncMemoryFile, MemoryKept
    PROVE  ChainInv'
<1> DEFINE other == [pub.file EXCEPT !.synced = TRUE]
<1>1. pub \in Publication /\ pub.file \in MemoryFile /\ captures \in Images
      /\ captured \in [Images -> Bytes]
  BY StoreTypes DEF ChainInv, ChainTypeOK
<1>2. /\ other \in MemoryFile /\ other.synced = TRUE /\ other.id = pub.file.id
      /\ Intact(pub.file) => Intact(other)
      /\ ExactIn(captured, captures, pub.file) => ExactIn(captured, captures, other)
  BY <1>1, SyncedFile, ZenonT(30)
<1> HIDE DEF other
<1>3. pub' = [stage |-> "MemorySynced", slot |-> pub.slot, file |-> other, state |-> pub.state]
  BY <1>1, Zenon DEF SyncMemoryFile, Publication, other
<1>4. /\ pub' \in Publication /\ pub'.stage = "MemorySynced" /\ pub'.slot = pub.slot
      /\ pub'.file = other /\ pub'.state = pub.state
  BY <1>1, <1>2, <1>3, Zenon DEF Publication, Stage, BeforeCommit
<1>5. /\ UNCHANGED <<fileVars, captured, captures, refused, folded, rebased, op, restarts, up,
                     lineage>>
      /\ pub.stage = "Sealed"
  BY Zenon DEF SyncMemoryFile, KeepHistory, MemoryKept, chainVars
<1>6. DirtyInv' /\ HistoryInv' /\ GuardInv' /\ BaseInv'
  BY <1>4, <1>5, PublishFrame, Zenon DEF SyncMemoryFile, Taken, Sealed, fileVars
<1>7. ChainTypeOK'
  BY <1>4, <1>5, <1>6, Zenon DEF ChainInv, ChainTypeOK, StoreTypeOK, DirtyInv, Publication,
     Stage, fileVars
<1>8. FilesInv'
  BY <1>5, Zenon DEF ChainInv, FilesInv, Kept, fileVars
<1>9. StagedInv' /\ CommitInv' /\ PlacedInv'
  BY <1>2, <1>4, <1>5, Zenon DEF ChainInv, StagedInv, CommitInv, PlacedInv, fileVars, Taken,
     Sealed, Synced, Visible, InPlace, Ended
<1> QED
  BY <1>6, <1>7, <1>8, <1>9 DEF ChainInv

\* The staged state is synced.
LEMMA SyncStateInv ==
    ASSUME ChainInv, SyncStateFile, MemoryKept
    PROVE  ChainInv'
<1> DEFINE other == [pub.state EXCEPT !.synced = TRUE]
<1>1. pub \in Publication /\ pub.state \in StateFile
  BY StoreTypes DEF ChainInv, ChainTypeOK
<1>2. /\ other \in StateFile /\ other.synced = TRUE /\ other.id = pub.state.id
      /\ other.form = pub.state.form
  BY <1>1 DEF StateFile
<1> HIDE DEF other
<1>3. pub' = [stage |-> "StateSynced", slot |-> pub.slot, file |-> pub.file, state |-> other]
  BY <1>1, Zenon DEF SyncStateFile, Publication, other
<1>4. /\ pub' \in Publication /\ pub'.stage = "StateSynced" /\ pub'.slot = pub.slot
      /\ pub'.file = pub.file /\ pub'.state = other
  BY <1>1, <1>2, <1>3, Zenon DEF Publication, Stage, BeforeCommit
<1>5. /\ UNCHANGED <<fileVars, captured, captures, refused, folded, rebased, op, restarts, up,
                     lineage>>
      /\ pub.stage = "MemorySynced"
  BY Zenon DEF SyncStateFile, KeepHistory, MemoryKept, chainVars
<1>6. DirtyInv' /\ HistoryInv' /\ GuardInv' /\ BaseInv'
  BY <1>4, <1>5, PublishFrame, Zenon DEF SyncStateFile, Taken, Sealed, Synced, fileVars
<1>7. ChainTypeOK'
  BY <1>4, <1>5, <1>6, Zenon DEF ChainInv, ChainTypeOK, StoreTypeOK, DirtyInv, Publication,
     Stage, fileVars
<1>8. FilesInv'
  BY <1>5, Zenon DEF ChainInv, FilesInv, Kept, fileVars
<1>9. StagedInv' /\ CommitInv' /\ PlacedInv'
  BY <1>2, <1>4, <1>5, Zenon DEF ChainInv, StagedInv, CommitInv, PlacedInv, fileVars, Taken,
     Sealed, Synced, Visible, InPlace, Ended
<1> QED
  BY <1>6, <1>7, <1>8, <1>9 DEF ChainInv

\* The memory becomes visible in an empty slot: no state stands there.
LEMMA PublishMemoryInv ==
    ASSUME ChainInv, PublishMemory, MemoryKept
    PROVE  ChainInv'
<1>1. pub \in Publication /\ pub.slot \in Slots /\ pub.stage = "StateSynced"
  BY StoreTypes, Zenon DEF PublishMemory, Step, ChainInv, ChainTypeOK, StagedInv
<1>2. /\ pub' \in Publication /\ pub'.stage = "MemoryVisible" /\ pub'.slot = pub.slot
      /\ pub'.file = pub.file /\ pub'.state = pub.state
  BY <1>1, StepFields, Zenon DEF PublishMemory, Step, Stage, BeforeCommit
<1>3. UNCHANGED <<captured, captures, refused, folded, rebased, op, restarts, up, lineage>>
  BY Zenon DEF PublishMemory, KeepHistory, MemoryKept, chainVars
<1>4. /\ memEntry' = [memEntry EXCEPT ![pub.slot] = pub.file]
      /\ memEntry[pub.slot].form = "none"
      /\ UNCHANGED <<memDisk, stateEntry, stateDisk>>
  BY DEF PublishMemory
<1>5. DirtyInv' /\ HistoryInv' /\ GuardInv' /\ BaseInv'
  BY <1>1, <1>2, <1>4, PublishFrame, Zenon DEF PublishMemory, Taken, Sealed, Synced, Visible
<1>6. /\ pub.file \in MemoryFile /\ Intact(pub.file) /\ Whole(pub.file)
      /\ ExactIn(captured, captures, pub.file) /\ pub.file.id = pub.state.id
  BY <1>1, Zenon DEF ChainInv, StagedInv, Taken, Sealed, Synced, Publication, Whole, Intact
<1>7. /\ \A s \in Slots : memEntry'[s] = IF s = pub.slot THEN pub.file ELSE memEntry[s]
      /\ memEntry' \in [Slots -> MemoryFile]
  BY <1>1, <1>4, <1>6, Zenon DEF ChainInv, ChainTypeOK, StoreTypeOK
<1>8. ChainTypeOK'
  BY <1>2, <1>3, <1>4, <1>5, <1>7, Zenon DEF ChainInv, ChainTypeOK, StoreTypeOK, DirtyInv,
     Publication, Stage
<1>9. FilesInv'
  <2>1. stateEntry[pub.slot].form = "none" /\ stateDisk[pub.slot].form = "none"
    BY <1>1, <1>4, Zenon DEF ChainInv, FilesInv, Stands, Intact
  <2>2. memDisk[pub.slot].form # "none" => memDisk[pub.slot].id \in folded
    BY <1>1, <1>4 DEF ChainInv, FilesInv
  <2>3. \A s \in Slots : ExactIn(captured, captures, memEntry'[s]) /\ Whole(memEntry'[s])
    BY <1>6, <1>7, Zenon DEF ChainInv, FilesInv
  <2>4. \A s \in Slots : /\ Stands(stateEntry[s], memEntry'[s], folded)
                         /\ Stands(stateDisk[s], memEntry'[s], folded)
    BY <1>7, <2>1, Zenon DEF ChainInv, FilesInv, Stands
  <2>5. \A s \in Slots : memDisk[s].form # "none" =>
                             memDisk[s] = memEntry'[s] \/ memDisk[s].id \in folded
    BY <1>7, <2>2, Zenon DEF ChainInv, FilesInv
  <2> QED
    BY <1>3, <1>4, <2>3, <2>4, <2>5, Zenon DEF ChainInv, FilesInv, Kept
<1>10. StagedInv' /\ CommitInv'
  BY <1>1, <1>2, <1>3, <1>4, Zenon DEF ChainInv, StagedInv, CommitInv, Taken, Sealed, Synced,
     Visible, InPlace, Ended
<1>11. PlacedInv'
  BY <1>1, <1>2, <1>6, <1>7, Zenon DEF PlacedInv, Stands, Visible, InPlace, Ended
<1> QED
  BY <1>5, <1>8, <1>9, <1>10, <1>11 DEF ChainInv

\* A memory entry that goes to disk displaces only what it equals or what a
\* rebase replaced.
LEMMA SavedInv ==
    ASSUME ChainInv, NEW s \in Slots, memDisk' = [memDisk EXCEPT ![s] = memEntry[s]],
           UNCHANGED <<memEntry, stateEntry, stateDisk, captured, captures, refused, folded,
                       up, lineage, mem, owned, writable, tracked, dirty, restored>>
    PROVE  FilesInv' /\ BaseInv' /\ memDisk' \in [Slots -> MemoryFile]
<1>1. /\ \A t \in Slots : memDisk'[t] = IF t = s THEN memEntry[s] ELSE memDisk[t]
      /\ memDisk' \in [Slots -> MemoryFile]
  BY Zenon DEF ChainInv, ChainTypeOK, StoreTypeOK
<1>2. FilesInv'
  BY <1>1, Zenon DEF ChainInv, FilesInv, Kept
<1>3. BaseSurvives'
  <2> SUFFICES ASSUME up, lineage.base > 0, lineage.base \notin folded
               PROVE  \E t \in Slots : /\ Intact(memDisk'[t]) /\ memDisk'[t].synced
                                      /\ memDisk'[t].id = lineage.base
    BY DEF BaseSurvives
  <2>1. PICK t \in Slots : /\ Intact(memDisk[t]) /\ memDisk[t].synced
                           /\ memDisk[t].id = lineage.base
    BY Zenon DEF ChainInv, BaseInv, BaseSurvives
  <2>2. memDisk'[t] = memDisk[t]
    BY <1>1, <2>1, Zenon DEF ChainInv, FilesInv, Intact
  <2> QED
    BY <2>1, <2>2
<1>4. BaseInv'
  BY <1>3, Zenon DEF ChainInv, BaseInv, CleanMatchesBase, Restoring
<1> QED
  BY <1>1, <1>2, <1>4

\* The memory directory is synced before the commit.
LEMMA SyncMemoryDirectoryInv ==
    ASSUME ChainInv, SyncMemoryDirectory, MemoryKept
    PROVE  ChainInv'
<1>1. pub \in Publication /\ pub.slot \in Slots /\ pub.stage = "MemoryVisible"
  BY StoreTypes, Zenon DEF SyncMemoryDirectory, Step, ChainInv, ChainTypeOK, StagedInv
<1>2. /\ pub' \in Publication /\ pub'.stage = "MemoryDurable" /\ pub'.slot = pub.slot
      /\ pub'.file = pub.file /\ pub'.state = pub.state
  BY <1>1, StepFields, Zenon DEF SyncMemoryDirectory, Step, Stage, BeforeCommit
<1>3. UNCHANGED <<captured, captures, refused, folded, rebased, op, restarts, up, lineage>>
  BY Zenon DEF SyncMemoryDirectory, KeepHistory, MemoryKept, chainVars
<1>4. /\ memDisk' = [memDisk EXCEPT ![pub.slot] = memEntry[pub.slot]]
      /\ UNCHANGED <<memEntry, stateEntry, stateDisk>>
  BY DEF SyncMemoryDirectory, Saved
<1>5. DirtyInv' /\ HistoryInv' /\ GuardInv'
  BY <1>1, <1>2, PublishFrame, Zenon DEF SyncMemoryDirectory, Taken, Sealed, Synced, Visible,
     InPlace
<1>6. FilesInv' /\ BaseInv' /\ memDisk' \in [Slots -> MemoryFile]
  BY <1>1, <1>3, <1>4, SavedInv, Zenon DEF MemoryKept, memoryVars, guestVars, trackerVars
<1>7. ChainTypeOK'
  BY <1>2, <1>3, <1>4, <1>5, <1>6, Zenon DEF ChainInv, ChainTypeOK, StoreTypeOK, DirtyInv,
     Publication, Stage
<1>8. StagedInv' /\ CommitInv'
  BY <1>1, <1>2, <1>3, <1>4, Zenon DEF ChainInv, StagedInv, CommitInv, Taken, Sealed, Synced,
     Visible, InPlace, Ended
<1>9. PlacedInv'
  <2>1. memDisk'[pub.slot] = memEntry[pub.slot]
    BY <1>1, <1>4, Zenon DEF ChainInv, ChainTypeOK, StoreTypeOK
  <2> QED
    BY <1>1, <1>2, <1>3, <1>4, <2>1, Zenon DEF ChainInv, PlacedInv, Visible, InPlace, Ended
<1> QED
  BY <1>5, <1>6, <1>7, <1>8, <1>9 DEF ChainInv

\* The commit: the state joins a memory that is already on disk.
LEMMA PublishStateInv ==
    ASSUME ChainInv, PublishState, MemoryKept
    PROVE  ChainInv'
<1>1. pub \in Publication /\ pub.slot \in Slots /\ pub.stage = "MemoryDurable"
  BY StoreTypes, Zenon DEF PublishState, Step, ChainInv, ChainTypeOK, StagedInv
<1>2. /\ pub' \in Publication /\ pub'.stage = "Committed" /\ pub'.slot = pub.slot
      /\ pub'.file = pub.file /\ pub'.state = pub.state
  BY <1>1, StepFields, Zenon DEF PublishState, Step, Stage, BeforeCommit
<1>3. UNCHANGED <<captured, captures, refused, folded, rebased, op, restarts, up, lineage>>
  BY Zenon DEF PublishState, KeepHistory, MemoryKept, chainVars
<1>4. /\ stateEntry' = [stateEntry EXCEPT ![pub.slot] = pub.state]
      /\ UNCHANGED <<memEntry, memDisk, stateDisk>>
  BY DEF PublishState
<1>5. DirtyInv' /\ HistoryInv' /\ GuardInv' /\ BaseInv'
  BY <1>1, <1>2, <1>4, PublishFrame, Zenon DEF PublishState, Taken, Sealed, Synced, Visible,
     InPlace, Ended
<1>6. /\ pub.state \in StateFile /\ Whole(pub.state) /\ pub.state.id = captures
      /\ pub.state.id <= captures /\ pub.state.id \notin refused
      /\ Stands(pub.state, memEntry[pub.slot], folded)
      /\ Stands(pub.state, memDisk[pub.slot], folded)
  BY <1>1, StoreTypes DEF ChainInv, ChainTypeOK, StagedInv, CommitInv, PlacedInv, Taken,
                          Sealed, Synced, Visible, InPlace, Ended, Whole
<1>7. /\ \A s \in Slots : stateEntry'[s] = IF s = pub.slot THEN pub.state ELSE stateEntry[s]
      /\ stateEntry' \in [Slots -> StateFile]
  BY <1>1, <1>4, <1>6, Zenon DEF ChainInv, ChainTypeOK, StoreTypeOK
<1>8. ChainTypeOK'
  BY <1>2, <1>3, <1>4, <1>5, <1>7, Zenon DEF ChainInv, ChainTypeOK, StoreTypeOK, DirtyInv,
     Publication, Stage
<1>9. FilesInv'
  BY <1>3, <1>4, <1>6, <1>7, Zenon DEF ChainInv, FilesInv, Kept
<1>10. StagedInv' /\ CommitInv'
  BY <1>1, <1>2, <1>3, <1>4, Zenon DEF ChainInv, StagedInv, CommitInv, Taken, Sealed, Synced,
     Visible, InPlace, Ended
<1>11. PlacedInv'
  BY <1>1, <1>2, <1>3, <1>4, <1>6, <1>7, Zenon DEF PlacedInv, Visible, InPlace, Ended
<1> QED
  BY <1>5, <1>8, <1>9, <1>10, <1>11 DEF ChainInv

\* The commit reaches the disk.
LEMMA SyncStateDirectoryInv ==
    ASSUME ChainInv, SyncStateDirectory, MemoryKept
    PROVE  ChainInv'
<1>1. pub \in Publication /\ pub.slot \in Slots /\ pub.stage = "Committed"
  BY StoreTypes, Zenon DEF SyncStateDirectory, Step, ChainInv, ChainTypeOK, StagedInv
<1>2. /\ pub' \in Publication /\ pub'.stage = "Durable" /\ pub'.slot = pub.slot
      /\ pub'.file = pub.file /\ pub'.state = pub.state
  BY <1>1, StepFields, Zenon DEF SyncStateDirectory, Step, Stage, BeforeCommit
<1>3. UNCHANGED <<captured, captures, refused, folded, rebased, op, restarts, up, lineage>>
  BY Zenon DEF SyncStateDirectory, KeepHistory, MemoryKept, chainVars
<1>4. /\ stateDisk' = [stateDisk EXCEPT ![pub.slot] = stateEntry[pub.slot]]
      /\ UNCHANGED <<memEntry, memDisk, stateEntry>>
  BY DEF SyncStateDirectory
<1>5. DirtyInv' /\ HistoryInv' /\ GuardInv' /\ BaseInv'
  BY <1>1, <1>2, <1>4, PublishFrame, Zenon DEF SyncStateDirectory, Taken, Sealed, Synced,
     Visible, InPlace, Ended
<1>6. /\ \A s \in Slots : stateDisk'[s] = IF s = pub.slot THEN stateEntry[s] ELSE stateDisk[s]
      /\ stateDisk' \in [Slots -> StateFile]
  BY <1>1, <1>4, Zenon DEF ChainInv, ChainTypeOK, StoreTypeOK
<1>7. ChainTypeOK'
  BY <1>2, <1>3, <1>4, <1>5, <1>6, Zenon DEF ChainInv, ChainTypeOK, StoreTypeOK, DirtyInv,
     Publication, Stage
<1>8. FilesInv'
  BY <1>3, <1>4, <1>6, Zenon DEF ChainInv, FilesInv, Kept
<1>9. StagedInv' /\ CommitInv'
  BY <1>1, <1>2, <1>3, <1>4, Zenon DEF ChainInv, StagedInv, CommitInv, Taken, Sealed, Synced,
     Visible, InPlace, Ended
<1>10. PlacedInv'
  BY <1>1, <1>2, <1>3, <1>4, <1>6, Zenon DEF ChainInv, PlacedInv, Visible, InPlace, Ended
<1> QED
  BY <1>5, <1>7, <1>8, <1>9, <1>10 DEF ChainInv

\* Nobody knows whether the commit reached the disk.
LEMMA UncertainInv ==
    ASSUME ChainInv, SyncStateDirectoryFails, MemoryKept
    PROVE  ChainInv'
<1>1. pub \in Publication /\ pub.slot \in Slots /\ pub.stage = "Committed"
  BY StoreTypes, Zenon DEF SyncStateDirectoryFails, Step, ChainInv, ChainTypeOK, StagedInv
<1>2. /\ pub' \in Publication /\ pub'.stage = "Uncertain" /\ pub'.slot = pub.slot
      /\ pub'.file = pub.file /\ pub'.state = pub.state
  BY <1>1, StepFields, Zenon DEF SyncStateDirectoryFails, Step, Stage, BeforeCommit
<1>3. UNCHANGED <<captured, captures, refused, folded, rebased, op, restarts, up, lineage>>
  BY Zenon DEF SyncStateDirectoryFails, KeepHistory, MemoryKept, chainVars
<1>4. UNCHANGED <<memEntry, memDisk, stateEntry, stateDisk>>
  BY DEF SyncStateDirectoryFails, fileVars
<1>5. DirtyInv' /\ HistoryInv' /\ GuardInv' /\ BaseInv'
  BY <1>1, <1>2, <1>4, PublishFrame, Zenon DEF SyncStateDirectoryFails, Taken, Sealed, Synced,
     Visible, InPlace, Ended
<1>6. ChainTypeOK'
  BY <1>2, <1>3, <1>4, <1>5, Zenon DEF ChainInv, ChainTypeOK, StoreTypeOK, DirtyInv,
     Publication, Stage
<1>7. FilesInv'
  BY <1>3, <1>4, Zenon DEF ChainInv, FilesInv, Kept
<1>8. StagedInv' /\ CommitInv' /\ PlacedInv'
  BY <1>1, <1>2, <1>3, <1>4, Zenon DEF ChainInv, StagedInv, CommitInv, PlacedInv, Taken,
     Sealed, Synced, Visible, InPlace, Ended
<1> QED
  BY <1>5, <1>6, <1>7, <1>8 DEF ChainInv

\* A publication that is durable has both its files on stable storage: no
\* rebase can have folded the last capture away.
LEMMA DurableIsThere ==
    ASSUME ChainInv, CompleteDurable
    PROVE  \E s \in Slots : /\ stateDisk[s].id = lineage'.base
                            /\ memDisk[s].id = lineage'.base
<1>1. pub.stage = "Durable" /\ lineage'.base = pub.state.id
  BY DEF CompleteDurable, PublishedDurable
<1>2. pub.stage \in Taken /\ pub.stage \in InPlace
  BY <1>1, Zenon DEF Taken, Sealed, Synced, Visible, InPlace, Ended
<1>3. /\ pub.slot \in Slots /\ pub.state.form # "none" /\ pub.state.id = captures
      /\ stateDisk[pub.slot] = pub.state
  BY <1>1, <1>2, Zenon DEF ChainInv, StagedInv, PlacedInv
<1>4. memDisk[pub.slot] \in MemoryFile /\ captures \in Images
  BY <1>3, StoreTypes DEF ChainInv, ChainTypeOK
<1>5. /\ Intact(memDisk[pub.slot])
      /\ memDisk[pub.slot].id = captures \/ memDisk[pub.slot].id > captures
  BY <1>2, <1>3, Zenon DEF ChainInv, PlacedInv, Stands
<1>6. memDisk[pub.slot].id <= captures
  BY <1>3, <1>5, Zenon DEF ChainInv, FilesInv, ExactIn
<1>7. memDisk[pub.slot].id = captures
  BY <1>4, <1>5, <1>6 DEF MemoryFile, Images
<1> QED
  BY <1>1, <1>3, <1>7

-----------------------------------------------------------------------------
(* Rebase, loss of power and new sessions                                    *)

\* A state that stood on the base stands on what the layer made of it.
LEMMA StandsFolded ==
    ASSUME NEW state, NEW base, NEW file, NEW replaced, state.id \in Int, base.id \in Int,
           file.id \in Int, file.id > base.id, Intact(file), Stands(state, base, replaced)
    PROVE  Stands(state, file, replaced \cup {base.id})
BY DEF Stands

\* A rebase replaces its base by a file that is exact and stands for more.
LEMMA RebaseExchangeInv ==
    ASSUME ChainInv, NEW b \in Slots, NEW d \in Slots, RebaseExchange(b, d), MemoryKept
    PROVE  ChainInv'
<1> DEFINE file == Folded(memEntry[b], memEntry[d])
<1>1. /\ pub \in Publication /\ pub.state \in StateFile /\ captures \in Images
      /\ captured \in [Images -> Bytes]
      /\ \A s \in Slots : /\ memEntry[s] \in MemoryFile /\ memDisk[s] \in MemoryFile
                          /\ stateEntry[s] \in StateFile /\ stateDisk[s] \in StateFile
  BY StoreTypes DEF ChainInv, ChainTypeOK
<1>2. /\ memEntry' = [memEntry EXCEPT ![b] = file] /\ rebased' = {b}
      /\ folded' = folded \cup {memEntry[b].id}
      /\ UNCHANGED <<memDisk, stateEntry, stateDisk, pub, captured, captures, refused, up,
                     lineage, op, restarts>>
  BY Zenon DEF RebaseExchange, MemoryKept, chainVars
<1>3. /\ file \in MemoryFile /\ Intact(file) /\ Whole(file)
      /\ ExactIn(captured, captures, file) /\ file.id > memEntry[b].id
  <2>1. ExactIn(captured, captures, file) /\ file.id > memEntry[b].id
    BY <1>1, ExactFold, Zenon DEF ChainInv, FilesInv, HistoryInv, RebaseExchange
  <2>2. Intact(file) /\ Whole(file)
    BY Zenon DEF Folded, Intact, Whole
  <2> QED
    BY <1>1, <2>1, <2>2, FileTypes
<1> HIDE DEF file
<1>4. /\ \A s \in Slots : memEntry'[s] = IF s = b THEN file ELSE memEntry[s]
      /\ memEntry' \in [Slots -> MemoryFile]
  BY <1>2, <1>3, Zenon DEF ChainInv, ChainTypeOK, StoreTypeOK
<1>5. DirtyInv' /\ UNCHANGED memoryVars
  BY DirtyStutterInv DEF ChainInv, MemoryKept
<1>6. ChainTypeOK'
  <2>1. memEntry[b].id \in Images
    BY <1>1 DEF MemoryFile
  <2> QED
    BY <1>2, <1>4, <1>5, <2>1 DEF ChainInv, ChainTypeOK, StoreTypeOK, DirtyInv
<1>7. \A state \in StateFile, s \in Slots :
          /\ Stands(state, memEntry[s], folded) => Stands(state, memEntry'[s], folded')
          /\ Stands(state, memDisk[s], folded) => Stands(state, memDisk[s], folded')
  <2>1. \A state \in StateFile : state.id \in Int
    BY DEF StateFile, Images
  <2>2. file.id \in Int /\ memEntry[b].id \in Int
    BY <1>1, <1>3 DEF MemoryFile, Images
  <2>3. \A state \in StateFile :
            Stands(state, memEntry[b], folded) => Stands(state, file, folded')
    BY <1>2, <1>3, <2>1, <2>2, StandsFolded
  <2>4. \A state \in StateFile, f \in MemoryFile :
            Stands(state, f, folded) => Stands(state, f, folded')
    BY <1>2 DEF Stands
  <2> QED
    BY <1>1, <1>4, <2>3, <2>4
<1>8. FilesInv'
  <2>1. \A s \in Slots : memDisk[s].form # "none" =>
            memDisk[s] = memEntry'[s] \/ memDisk[s].id \in folded'
    BY <1>2, <1>4 DEF ChainInv, FilesInv
  <2> QED
    BY <1>1, <1>2, <1>3, <1>4, <1>7, <2>1, Zenon DEF ChainInv, FilesInv, Kept
<1>9. HistoryInv' /\ StagedInv' /\ CommitInv'
  BY <1>2, Zenon DEF ChainInv, HistoryInv, StagedInv, CommitInv
<1>10. PlacedInv'
  <2>1. pub.stage \in Visible => pub.slot \in Slots
    BY Zenon DEF ChainInv, StagedInv, Visible, InPlace, Ended
  <2>2. pub.stage \in InPlace => pub.stage \in Visible
    BY DEF Visible
  <2> QED
    BY <1>1, <1>2, <1>7, <2>1, <2>2 DEF ChainInv, PlacedInv
<1>11. GuardInv'
  BY <1>2, <1>5, Zenon DEF ChainInv, GuardInv, memoryVars, guestVars
<1>12. BaseInv'
  BY <1>2, <1>5, Zenon DEF ChainInv, BaseInv, CleanMatchesBase, BaseSurvives, Restoring,
     memoryVars, guestVars, trackerVars
<1> QED
  BY <1>5, <1>6, <1>8, <1>9, <1>10, <1>11, <1>12 DEF ChainInv

\* The exchange is synced, or not.
LEMMA RebaseFinishInv ==
    ASSUME ChainInv, NEW sync \in BOOLEAN, RebaseFinish(sync), MemoryKept
    PROVE  ChainInv'
<1>1. DirtyInv' /\ UNCHANGED memoryVars
  BY DirtyStutterInv DEF ChainInv, MemoryKept
<1>2. UNCHANGED <<memEntry, stateEntry, stateDisk, pub, captured, captures, refused, folded,
                  up, lineage, op, restarts>>
  BY Zenon DEF RebaseFinish, MemoryKept, chainVars
<1>3. PICK b \in rebased :
          memDisk' = IF sync THEN [memDisk EXCEPT ![b] = memEntry[b]] ELSE memDisk
  BY DEF RebaseFinish
<1>4. b \in Slots
  BY <1>3 DEF ChainInv, ChainTypeOK, StoreTypeOK
<1>5. FilesInv' /\ BaseInv' /\ memDisk' \in [Slots -> MemoryFile]
  <2>1. CASE sync
    BY <1>1, <1>2, <1>3, <1>4, <2>1, SavedInv, ZenonT(30) DEF memoryVars, guestVars, trackerVars
  <2>2. CASE ~sync
    <3>1. memDisk' = memDisk
      BY <1>3, <2>2
    <3>2. FilesInv' /\ memDisk' \in [Slots -> MemoryFile]
      BY <1>2, <3>1, Zenon DEF ChainInv, FilesInv, Kept, ChainTypeOK, StoreTypeOK
    <3>3. BaseInv'
      BY <1>1, <1>2, <3>1, Zenon DEF ChainInv, BaseInv, CleanMatchesBase, BaseSurvives,
         Restoring, memoryVars, guestVars, trackerVars
    <3> QED
      BY <3>2, <3>3
  <2> QED
    BY <2>1, <2>2
<1>6. ChainTypeOK'
  BY <1>1, <1>2, <1>5, Zenon DEF ChainInv, ChainTypeOK, StoreTypeOK, DirtyInv, RebaseFinish
<1>7. HistoryInv' /\ StagedInv' /\ CommitInv'
  BY <1>2, Zenon DEF ChainInv, HistoryInv, StagedInv, CommitInv
<1>8. PlacedInv'
  <2>1. memDisk'[pub.slot] \in {memDisk[pub.slot], memEntry[pub.slot]}
    BY <1>3, <1>4 DEF ChainInv, ChainTypeOK, StoreTypeOK
  <2>2. pub.stage \in InPlace => pub.stage \in Visible
    BY DEF Visible
  <2> QED
    BY <1>2, <2>1, <2>2 DEF ChainInv, PlacedInv
<1>9. GuardInv'
  BY <1>1, <1>2, Zenon DEF ChainInv, GuardInv, memoryVars, guestVars
<1> QED
  BY <1>1, <1>5, <1>6, <1>7, <1>8, <1>9 DEF ChainInv

\* Whichever version of each entry a loss of power leaves, the states that are
\* left have their memory.
LEMMA PowerLossInv ==
    ASSUME ChainInv, PowerLoss
    PROVE  ChainInv'
<1>1. PICK ms \in SUBSET Unsynced(memEntry, memDisk),
           ss \in SUBSET Unsynced(stateEntry, stateDisk) :
        /\ memEntry' = [s \in Slots |-> Torn(IF s \in ms THEN memDisk[s] ELSE memEntry[s])]
        /\ stateEntry' = [s \in Slots |-> Torn(IF s \in ss THEN stateDisk[s] ELSE stateEntry[s])]
  BY DEF PowerLoss, LosePower
<1>2. /\ memDisk' = memEntry' /\ stateDisk' = stateEntry' /\ pub' = NoPublication
      /\ rebased' = {} /\ UNCHANGED <<captured, captures, refused, folded, restarts>>
  BY DEF PowerLoss, LosePower
<1>3. /\ DirtyInv' /\ held' = FALSE /\ up' = FALSE /\ op' = "Active"
      /\ lineage' \in Lineage /\ lineage'.base = -1
  BY GoneInv DEF PowerLoss
<1>4. \A s \in Slots : /\ memEntry'[s] \in {memEntry[s], memDisk[s]}
                       /\ stateEntry'[s] \in {stateEntry[s], stateDisk[s]}
  BY <1>1, Zenon DEF ChainInv, FilesInv, Whole, Torn
<1>5. memEntry' \in [Slots -> MemoryFile] /\ stateEntry' \in [Slots -> StateFile]
  BY <1>1, <1>4, StoreTypes DEF ChainInv, ChainTypeOK
<1>6. ChainTypeOK'
  BY <1>2, <1>3, <1>5, IdleInv, Zenon DEF ChainInv, ChainTypeOK, StoreTypeOK, DirtyInv,
     Publication, Stage, Lineage
<1>7. FilesInv' /\ HistoryInv'
  <2>1. ASSUME NEW s \in Slots, NEW f \in {memEntry[s], memDisk[s]},
               NEW st \in {stateEntry[s], stateDisk[s]}
        PROVE  /\ ExactIn(captured, captures, f) /\ Whole(f) /\ Whole(st)
               /\ Stands(st, f, folded) /\ Kept(st)
    BY DEF ChainInv, FilesInv
  <2>2. FilesInv'
    BY <1>2, <1>4, <2>1 DEF FilesInv, Kept
  <2>3. HistoryInv'
    BY <1>2 DEF ChainInv, HistoryInv
  <2> QED
    BY <2>2, <2>3
<1>8. BaseInv'
  <2>1. -1 <= captures'
    BY <1>2, StoreTypes DEF ChainInv, ChainTypeOK
  <2> QED
    BY <1>3, <2>1, Zenon DEF BaseInv, CleanMatchesBase, BaseSurvives
<1> QED
  BY <1>2, <1>3, <1>6, <1>7, <1>8, IdleInv DEF ChainInv

\* A session whose memory is the image it names as its base.
LEMMA StartedInv ==
    ASSUME ChainInv, Starts, NEW pages \in SUBSET Pages, NEW bytes \in [Pages -> Values],
           NEW track \in BOOLEAN, NEW base \in Images \cup {Unavailable},
           Session(pages, bytes, track), Started(base), base <= captures,
           track /\ base # Unavailable => \A p \in pages : bytes[p] = captured[base][p],
           base > 0 /\ base \notin folded =>
               \E s \in Slots : Intact(memDisk[s]) /\ memDisk[s].synced /\ memDisk[s].id = base
    PROVE  ChainInv'
<1>1. DirtyInv'
  BY SessionInv
<1>2. /\ up' = TRUE /\ held' = FALSE /\ op' = "Active" /\ restarts' = restarts + 1
      /\ lineage' = [state |-> "Ready", base |-> base] /\ UNCHANGED storeVars
      /\ mem' = bytes /\ owned' = pages /\ tracked' = track /\ dirty' = {}
  BY DEF Started, Session
<1>3. UNCHANGED <<fileVars, pub, captured, captures, refused, folded, rebased>>
  BY <1>2 DEF storeVars
<1>4. pub.stage = "Idle"
  BY Zenon DEF ChainInv, GuardInv, Starts
<1>5. ChainTypeOK'
  <2>1. lineage' \in Lineage
    BY <1>2 DEF Lineage
  <2>2. restarts' \in 0 .. MaxRestarts
    <3>1. restarts \in 0 .. MaxRestarts /\ restarts < MaxRestarts
      BY Zenon DEF ChainInv, ChainTypeOK, Starts
    <3> QED
      BY <1>2, <3>1
  <2> QED
    BY <1>1, <1>2, <1>3, <2>1, <2>2, Zenon DEF ChainInv, ChainTypeOK, StoreTypeOK, DirtyInv,
       Lineage, fileVars
<1>6. FilesInv' /\ HistoryInv'
  BY <1>3, Zenon DEF ChainInv, FilesInv, HistoryInv, Kept, fileVars
<1>7. StagedInv' /\ CommitInv' /\ PlacedInv' /\ GuardInv'
  BY <1>2, <1>3, <1>4, Zenon DEF StagedInv, CommitInv, PlacedInv, GuardInv, Taken, Sealed,
     Synced, Visible, InPlace, Ended
<1>8. BaseInv'
  <2>1. lineage'.base = base
    BY <1>2
  <2>2. CleanMatchesBase'
    BY <1>2, <1>3, <2>1 DEF CleanMatchesBase
  <2>3. BaseSurvives'
    BY <1>3, <2>1 DEF BaseSurvives, fileVars
  <2> QED
    BY <1>3, <2>1, <2>2, <2>3 DEF BaseInv
<1> QED
  BY <1>1, <1>5, <1>6, <1>7, <1>8 DEF ChainInv

\* A fresh session is at the zero image, and a legacy one at none.
LEMMA FreshInv ==
    ASSUME ChainInv,
           \/ \E track \in BOOLEAN : FreshBoot(track)
           \/ \E v \in Values, track \in BOOLEAN : LoadLegacy(v, track)
    PROVE  ChainInv'
<1>1. captures \in Nat /\ captured[0] = ZeroBytes
  BY StoreTypes, Zenon DEF ChainInv, ChainTypeOK, HistoryInv, Images
<1>2. ASSUME NEW track \in BOOLEAN, FreshBoot(track)
      PROVE  ChainInv'
  <2>1. /\ FreshBase(track) \in Images \cup {Unavailable} /\ FreshBase(track) <= captures
        /\ FreshBase(track) # Unavailable => FreshBase(track) = 0
        /\ ~(FreshBase(track) > 0)
    BY <1>1, ByteTypes DEF FreshBase, Unavailable
  <2> HIDE DEF FreshBase
  <2> QED
    BY <1>1, <1>2, <2>1, ByteTypes, StartedInv DEF FreshBoot
<1>3. ASSUME NEW v \in Values, NEW track \in BOOLEAN, LoadLegacy(v, track)
      PROVE  ChainInv'
  <2>1. [p \in Pages |-> IF p \in HotPages THEN Zero ELSE v] \in [Pages -> Values]
    OBVIOUS
  <2>2. Unavailable <= captures /\ ~(Unavailable > 0)
    BY <1>1 DEF Unavailable
  <2> QED
    BY <1>3, <2>1, <2>2, StartedInv DEF LoadLegacy
<1> QED
  BY <1>2, <1>3

\* A restored session is at the image its state names, which is on disk.
LEMMA LoadInv ==
    ASSUME ChainInv, NEW s \in Slots, NEW t \in Slots, LoadSnapshot(s, t)
    PROVE  ChainInv'
<1> DEFINE contents == Contents(memEntry[t])
           bytes == [p \in Pages |-> IF contents[p] = Absent THEN Zero ELSE contents[p]]
<1>1. /\ memEntry[t] \in MemoryFile /\ stateEntry[s] \in StateFile /\ captures \in Images
      /\ captured \in [Images -> Bytes] /\ memDisk[s] \in MemoryFile
  BY StoreTypes DEF ChainInv, ChainTypeOK
<1>2. /\ stateEntry[s].form # "none" /\ Intact(memEntry[t]) /\ Complete(memEntry[t])
      /\ memEntry[t].id = stateEntry[s].id
  BY Zenon DEF LoadSnapshot, Loadable, Intact
<1>3. ExactIn(captured, captures, memEntry[t]) /\ captured[0] = ZeroBytes
  BY Zenon DEF ChainInv, FilesInv, HistoryInv
<1>4. contents = captured[stateEntry[s].id] /\ contents \in Bytes
  BY <1>1, <1>2, <1>3, ExactContents, ContentsType
<1>5. \A p \in memEntry[t].topo : contents[p] # Absent
  BY <1>1, <1>2, <1>3, <1>4 DEF ExactIn, MemoryFile
<1> HIDE DEF contents
<1>6. bytes \in [Pages -> Values]
  BY <1>4 DEF Bytes
<1>7. memEntry[t].topo \in SUBSET Pages /\ stateEntry[s].track \in BOOLEAN
      /\ stateEntry[s].id \in Images
  BY <1>1 DEF MemoryFile, StateFile
<1>8. \A p \in memEntry[t].topo : bytes[p] = captured[stateEntry[s].id][p]
  BY <1>4, <1>5, <1>7
<1>9. stateEntry[s].id <= captures
  BY <1>2, Zenon DEF ChainInv, FilesInv, Kept
<1>10. stateEntry[s].id \notin folded =>
         Intact(memDisk[s]) /\ memDisk[s].synced /\ memDisk[s].id = stateEntry[s].id
  BY <1>2, Zenon DEF ChainInv, FilesInv, Stands, Whole
<1>11. Starts /\ Session(memEntry[t].topo, bytes, stateEntry[s].track)
       /\ Started(stateEntry[s].id)
  BY DEF LoadSnapshot, contents
<1> HIDE DEF bytes
<1>12. PICK base \in Images \cup {Unavailable}, track \in BOOLEAN, pages \in SUBSET Pages :
           base = stateEntry[s].id /\ track = stateEntry[s].track /\ pages = memEntry[t].topo
  BY ONLY <1>7, Zenon
<1>13. /\ Starts /\ Session(pages, bytes, track) /\ Started(base) /\ base <= captures
       /\ track /\ base # Unavailable => \A p \in pages : bytes[p] = captured[base][p]
  BY ONLY <1>8, <1>9, <1>11, <1>12, Zenon
<1>14. base > 0 /\ base \notin folded =>
         \E x \in Slots : Intact(memDisk[x]) /\ memDisk[x].synced /\ memDisk[x].id = base
  BY ONLY <1>10, <1>12, s \in Slots, Zenon
<1> QED
  BY ONLY ChainInv, <1>6, <1>13, <1>14, StartedInv, Zenon

-----------------------------------------------------------------------------
(* Every step, and the theorems                                              *)

\* One case per action of the guest, the worker, the file system and the host.
LEMMA ChainStepInv ==
    ASSUME ChainInv, ChainNext
    PROVE  ChainInv'
<1>1. CASE DirtyNext /\ StoreKept
  BY <1>1, MemoryStepInv
<1>2. CASE \E kind \in {"Full", "Diff"}, s \in Slots : BeginSnapshot(kind, s)
  BY <1>2, BeginInv
<1>3. CASE Capture \/ SealCommit \/ CancelCapture \/ PublicationFails \/ CompleteDurable
  BY <1>3, CaptureInv, SealInv, CancelInv, FailInv, CompleteInv
<1>4. CASE SyncMemoryFile /\ MemoryKept
  BY <1>4, SyncMemoryInv
<1>5. CASE SyncStateFile /\ MemoryKept
  BY <1>5, SyncStateInv
<1>6. CASE PublishMemory /\ MemoryKept
  BY <1>6, PublishMemoryInv
<1>7. CASE SyncMemoryDirectory /\ MemoryKept
  BY <1>7, SyncMemoryDirectoryInv
<1>8. CASE PublishState /\ MemoryKept
  BY <1>8, PublishStateInv
<1>9. CASE SyncStateDirectory /\ MemoryKept
  BY <1>9, SyncStateDirectoryInv
<1>10. CASE SyncStateDirectoryFails /\ MemoryKept
  BY <1>10, UncertainInv
<1>11. CASE CaptureFailsTerminally \/ CompleteTerminally \/ ProcessDies
  BY <1>11, EndInv, Zenon DEF CaptureFailsTerminally, CompleteTerminally, ProcessDies
<1>12. CASE \E b, d \in Slots : RebaseExchange(b, d) /\ MemoryKept
  BY <1>12, RebaseExchangeInv
<1>13. CASE \E sync \in BOOLEAN : RebaseFinish(sync) /\ MemoryKept
  BY <1>13, RebaseFinishInv
<1>14. CASE PowerLoss
  BY <1>14, PowerLossInv
<1>15. CASE \/ \E track \in BOOLEAN : FreshBoot(track)
            \/ \E v \in Values, track \in BOOLEAN : LoadLegacy(v, track)
  BY <1>15, FreshInv
<1>16. CASE \E s, t \in Slots : LoadSnapshot(s, t)
  BY <1>16, LoadInv
<1> QED
  BY <1>1, <1>2, <1>3, <1>4, <1>5, <1>6, <1>7, <1>8, <1>9, <1>10, <1>11, <1>12, <1>13,
     <1>14, <1>15, <1>16 DEF ChainNext, DirtyNext

\* A step that changes nothing.
LEMMA ChainStutterInv ==
    ASSUME ChainInv, UNCHANGED vars
    PROVE  ChainInv'
<1> USE DEF vars, storeVars, chainVars, fileVars
<1>1. DirtyInv'
  BY DirtyStutterInv DEF ChainInv
<1>2. ChainTypeOK'
  BY <1>1 DEF ChainInv, ChainTypeOK, StoreTypeOK, DirtyInv
<1>3. GuardInv'
  BY Zenon DEF ChainInv, GuardInv, memoryVars, guestVars
<1>4. BaseInv'
  BY Zenon DEF ChainInv, BaseInv, CleanMatchesBase, BaseSurvives, Restoring, memoryVars,
     guestVars, trackerVars
<1> QED
  BY <1>1, <1>2, <1>3, <1>4, StoreFrame DEF ChainInv

\* The invariant holds in every execution.
LEMMA ChainAlwaysInv == ChainSpec => []ChainInv
<1>1. ChainInv /\ [ChainNext]_vars => ChainInv'
  BY ChainStepInv, ChainStutterInv
<1> QED
  BY <1>1, ChainInitInv, PTL DEF ChainSpec

\* Whatever crashes, losses of power, aborted publications and rebases happen,
\* every intact memory artifact stands for the guest memory at its capture.
THEOREM ArtifactsAlwaysExact == ChainSpec => []ArtifactsAreExact
<1>1. ChainInv => ArtifactsAreExact
  BY FilesConsequence
<1> QED
  BY <1>1, ChainAlwaysInv, PTL

\* A visible state artifact always has its memory artifact: the order of the
\* two renames and the sync between them survives any loss of power.
THEOREM CommitsAlwaysStand == ChainSpec => []CommitsStandOnMemory
<1>1. ChainInv => CommitsStandOnMemory
  BY FilesConsequence
<1> QED
  BY <1>1, ChainAlwaysInv, PTL

\* A publication that answered Err, or was cancelled, never committed a state.
THEOREM RefusedAlwaysInvisible == ChainSpec => []RefusedIsInvisible
<1>1. ChainInv => RefusedIsInvisible
  BY FilesConsequence
<1> QED
  BY <1>1, ChainAlwaysInv, PTL

\* The clean pages of a tracked session are always those of the base of its
\* next Diff.
THEOREM CleanAlwaysMatchesBase == ChainSpec => []CleanMatchesBase
<1>1. ChainInv => CleanMatchesBase
  BY DEF ChainInv, BaseInv
<1> QED
  BY <1>1, ChainAlwaysInv, PTL

\* The base of the next Diff is always on stable storage, or replaced by a
\* rebase.
THEOREM BaseAlwaysSurvives == ChainSpec => []BaseSurvives
<1>1. ChainInv => BaseSurvives
  BY DEF ChainInv, BaseInv
<1> QED
  BY <1>1, ChainAlwaysInv, PTL

\* The lineage of a session only ever moves on to a snapshot that is wholly on
\* stable storage: an uncertain commit never becomes the base of a Diff.
THEOREM AlwaysAdvancesToDurable == ChainSpec => AdvancesToDurable
<1> DEFINE Advances == up /\ up' /\ lineage'.base # lineage.base =>
               \E s \in Slots : /\ stateDisk[s].id = lineage'.base
                                /\ memDisk[s].id = lineage'.base
<1>1. ChainInv /\ [ChainNext]_vars => [Advances]_vars
  BY BaseMoves, DurableIsThere
<1> QED
  BY <1>1, ChainAlwaysInv, PTL DEF ChainSpec, AdvancesToDurable

\* With snapshots, crashes and restores around it, tracking still misses no
\* write.
THEOREM ChainAlwaysSeesWrites == ChainSpec => []WritesAreSeen
<1>1. ChainInv => WritesAreSeen
  BY DEF ChainInv, DirtyInv
<1> QED
  BY <1>1, ChainAlwaysInv, PTL

=============================================================================
