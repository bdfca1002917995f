--------------------------- MODULE DirtyTracking ---------------------------
(* Guest memory whose writes are tracked page by page: the regions and the   *)
(* dirty bitmap (runtime memory.rs, memory_dirty.rs), the stage-two write    *)
(* protection that makes a vCPU's first write to a page exit (hvf dirty.rs), *)
(* and the virtio-mem requests that plug and unplug regions while the vCPUs  *)
(* run (hvf memory.rs, runtime memory_hotplug.rs).  A page stands for a      *)
(* tracked page; a hot page is also a virtio-mem block of its own.           *)
EXTENDS GuestPages

CONSTANTS
    HotPages,  \* pages of the virtio-mem region
    Members,   \* vCPU members that own a runner
    NoPage     \* no page

ASSUME DirtyConstants ==
    /\ HotPages \subseteq Pages /\ NoPage \notin Pages

VARIABLES
    mem,       \* bytes of each page
    owned,     \* pages of GuestMemory's regions
    mapped,    \* pages mapped in the guest, the regions of the tracker
    writable,  \* pages whose stage-two mapping has WRITE
    tracked,   \* track_dirty_pages
    dirty,     \* the dirty bitmap
    restored,  \* pages the tracker gave WRITE back to
    status,    \* TrackerStatus
    last,      \* last_admitted_pages
    exits,     \* the page of each member's exit that waits to be handled
    redone,    \* history: whether a member's store to its last page was executed
    outcome,   \* how each member ended, "ok" while it runs
    dev,       \* page a device marked and has not stored to yet
    hp,        \* the virtio-mem request in progress
    plugged,   \* plugged blocks of the virtio-mem device
    held       \* the quiescence guard of a snapshot is held

guestVars == <<mem, owned, mapped, writable>>
trackerVars == <<tracked, dirty, restored, status, last>>
memberVars == <<exits, redone, outcome>>
hotplugVars == <<hp, plugged>>
memoryVars == <<guestVars, trackerVars, memberVars, dev, hotplugVars, held>>

NoRequest == [op |-> "Idle", todo |-> {}, done |-> {}]

DirtyTypeOK ==
    /\ mem \in [Pages -> Values]
    /\ owned \subseteq Pages /\ mapped \subseteq Pages /\ writable \subseteq Pages
    /\ tracked \in BOOLEAN /\ dirty \subseteq Pages /\ restored \subseteq Pages
    /\ status \in {"Active", "Poisoned"}
    /\ last \in [Members -> Pages \cup {NoPage}]
    /\ exits \in [Members -> Pages \cup {NoPage}]
    /\ redone \in [Members -> BOOLEAN]
    /\ outcome \in [Members -> {"ok", "Unhandled", "NoProgress", "Protection"}]
    /\ dev \in Pages \cup {NoPage}
    /\ hp \in [op : {"Idle", "Plug", "UndoPlug", "Unplug", "UndoUnplug"},
               todo : SUBSET HotPages, done : SUBSET HotPages]
    /\ plugged \subseteq HotPages
    /\ held \in BOOLEAN

\* A session over the given regions and bytes.  The bitmap starts clean at the
\* image just loaded, and tracking protects every page it maps.
Session(pages, bytes, track) ==
    /\ mem' = bytes
    /\ owned' = pages /\ mapped' = pages
    /\ writable' = (IF track THEN {} ELSE pages)
    /\ tracked' = track /\ dirty' = {} /\ restored' = {} /\ status' = "Active"
    /\ last' = [m \in Members |-> NoPage]
    /\ exits' = [m \in Members |-> NoPage]
    /\ redone' = [m \in Members |-> TRUE]
    /\ outcome' = [m \in Members |-> "ok"]
    /\ dev' = NoPage /\ hp' = NoRequest /\ plugged' = pages \cap HotPages
    /\ held' = FALSE

\* A fresh boot: zeroed memory, tracking enabled before anything is loaded.
DirtyInit ==
    /\ mem = ZeroBytes
    /\ owned = Pages \ HotPages /\ mapped = Pages \ HotPages
    /\ tracked \in BOOLEAN
    /\ writable = (IF tracked THEN {} ELSE Pages \ HotPages)
    /\ dirty = {} /\ restored = {} /\ status = "Active"
    /\ last = [m \in Members |-> NoPage]
    /\ exits = [m \in Members |-> NoPage]
    /\ redone = [m \in Members |-> TRUE]
    /\ outcome = [m \in Members |-> "ok"]
    /\ dev = NoPage /\ hp = NoRequest /\ plugged = {}
    /\ held = FALSE

-----------------------------------------------------------------------------
(* vCPU stores and their exits                                               *)

InGuest(m) == ~held /\ outcome[m] = "ok" /\ exits[m] = NoPage

\* A store to a writable page completes without the VMM.
GuestStore(m, p, v) ==
    /\ InGuest(m) /\ p \in writable
    /\ mem' = [mem EXCEPT ![p] = v]
    /\ redone' = [redone EXCEPT ![m] = @ \/ last[m] = p]
    /\ UNCHANGED <<owned, mapped, writable, trackerVars, exits, outcome, dev,
                   hotplugVars, held>>

\* A store to a protected page leaves the guest with a stage-two fault.
GuestFault(m, p) ==
    /\ InGuest(m) /\ p \in mapped \ writable
    /\ exits' = [exits EXCEPT ![m] = p]
    /\ UNCHANGED <<guestVars, trackerVars, redone, outcome, dev, hotplugVars, held>>

\* The member goes back to the instruction that faulted.
Admit(m) ==
    /\ last' = [last EXCEPT ![m] = exits[m]]
    /\ redone' = [redone EXCEPT ![m] = FALSE]
    /\ exits' = [exits EXCEPT ![m] = NoPage]
    /\ UNCHANGED outcome

MemberFails(m, why) ==
    /\ outcome' = [outcome EXCEPT ![m] = why]
    /\ exits' = [exits EXCEPT ![m] = NoPage]
    /\ UNCHANGED <<redone, last>>

\* handle_exception holds the tracker's lock from the protection to the mark.
\* In between a page has WRITE and no restored bit; other vCPUs can store to it.
Restoring == IF tracked THEN writable \ restored ELSE {}
LockFree == Restoring = {}

Handling(m) == exits[m] # NoPage /\ LockFree

\* The first write of the generation: WRITE is given back ...
RestoreWrite(m) ==
    /\ Handling(m) /\ status = "Active"
    /\ exits[m] \in mapped \ restored
    /\ writable' = writable \cup {exits[m]}
    /\ UNCHANGED <<mem, owned, mapped, trackerVars, memberVars, dev, hotplugVars, held>>

\* Mutant: the page is never marked.
MarkNothing(p) == dirty

\* The bitmap covers every page of the tracker's regions, so marking succeeds.
Mark(p) == dirty \cup {p}

\* ... and then the page is marked.  Of two members with the same page it does
\* not matter which one gave WRITE back: nothing of theirs has changed yet.
MarkFirstWrite(m) ==
    /\ exits[m] \in Restoring
    /\ restored' = restored \cup {exits[m]}
    /\ dirty' = Mark(exits[m])
    /\ Admit(m)
    /\ UNCHANGED <<guestVars, tracked, status, dev, hotplugVars, held>>

\* The platform refuses to give WRITE back.
HandleProtectFails(m) ==
    /\ Handling(m) /\ status = "Active"
    /\ exits[m] \in mapped \ restored
    /\ status' = "Poisoned" /\ MemberFails(m, "Protection")
    /\ UNCHANGED <<guestVars, tracked, dirty, restored, dev, hotplugVars, held>>

\* Another member restored the page after this one left the guest.
HandleStaleExit(m) ==
    /\ Handling(m) /\ status = "Active"
    /\ exits[m] \in mapped \cap restored
    /\ last[m] # exits[m]
    /\ Admit(m)
    /\ UNCHANGED <<guestVars, tracked, dirty, restored, status, dev, hotplugVars, held>>

\* The exit repeats the page this member was admitted to last.
HandleRepeat(m) ==
    /\ Handling(m) /\ status = "Active"
    /\ exits[m] \in mapped \cap restored
    /\ last[m] = exits[m]
    /\ MemberFails(m, "NoProgress")
    /\ UNCHANGED <<guestVars, tracked, dirty, restored, status, dev, hotplugVars, held>>

\* The page was unmapped after the member left the guest, or the tracker is
\* poisoned: nobody takes the exit.
HandleUnowned(m) ==
    /\ Handling(m) /\ (exits[m] \notin mapped \/ status = "Poisoned")
    /\ MemberFails(m, IF status = "Poisoned" THEN "Protection" ELSE "Unhandled")
    /\ UNCHANGED <<guestVars, tracked, dirty, restored, status, dev, hotplugVars, held>>

-----------------------------------------------------------------------------
(* Device and loader stores: mark, then write                                *)

DeviceMark(p) ==
    /\ ~held /\ dev = NoPage /\ hp.op = "Idle"
    /\ p \in owned
    /\ dev' = p
    /\ dirty' = IF tracked THEN dirty \cup {p} ELSE dirty
    /\ UNCHANGED <<guestVars, tracked, restored, status, last, memberVars,
                   hotplugVars, held>>

DeviceStore(v) ==
    /\ dev # NoPage
    /\ mem' = [mem EXCEPT ![dev] = v]
    /\ dev' = NoPage
    /\ UNCHANGED <<owned, mapped, writable, trackerVars, memberVars, hotplugVars, held>>

-----------------------------------------------------------------------------
(* virtio-mem requests.  The device holds guest memory exclusively from the  *)
(* first region to the commit; the vCPUs keep running in between.            *)

Request(op, blocks) == hp' = [op |-> op, todo |-> blocks, done |-> {}]

StartPlug(blocks) ==
    /\ ~held /\ dev = NoPage /\ hp.op = "Idle"
    /\ blocks # {} /\ blocks \cap plugged = {}
    /\ Request("Plug", blocks)
    /\ UNCHANGED <<guestVars, trackerVars, memberVars, dev, plugged, held>>

Advance(p) == hp' = [hp EXCEPT !.todo = @ \ {p}, !.done = @ \cup {p}]

\* Mutant: a plugged region starts with a clean bitmap.
PlugDirtyClean(p) == dirty

\* A region inserted while tracking starts dirty, whatever bytes it holds.
PlugDirty(p) == IF tracked THEN dirty \cup {p} ELSE dirty

\* One region: own it, map it without WRITE when tracked.
PlugRegion(p, v) ==
    /\ hp.op = "Plug" /\ p \in hp.todo /\ LockFree
    /\ p \notin owned /\ p \notin mapped /\ status = "Active"
    /\ owned' = owned \cup {p} /\ mapped' = mapped \cup {p}
    /\ mem' = [mem EXCEPT ![p] = v]
    /\ writable' = IF tracked THEN writable \ {p} ELSE writable \cup {p}
    /\ dirty' = PlugDirty(p)
    /\ restored' = restored \ {p}
    /\ Advance(p)
    /\ UNCHANGED <<tracked, status, last, memberVars, dev, plugged, held>>

StartUnplug(blocks) ==
    /\ ~held /\ dev = NoPage /\ hp.op = "Idle"
    /\ blocks # {} /\ blocks \subseteq plugged
    /\ Request("Unplug", blocks)
    /\ UNCHANGED <<guestVars, trackerVars, memberVars, dev, plugged, held>>

\* Unmapping drops the page's stage-two entry and the tracker's region.
Unmap(p) ==
    /\ mapped' = mapped \ {p} /\ writable' = writable \ {p}
    /\ restored' = restored \ {p}

UnplugRegion(p) ==
    /\ hp.op = "Unplug" /\ p \in hp.todo /\ LockFree /\ p \in mapped /\ status = "Active"
    /\ Unmap(p) /\ Advance(p)
    /\ UNCHANGED <<mem, owned, tracked, dirty, status, last, memberVars, dev,
                   plugged, held>>

\* A region cannot be mapped or unmapped, or the response or the used ring
\* cannot be written: what was done is undone.
MutationFails ==
    /\ hp.op \in {"Plug", "Unplug"}
    /\ Request(IF hp.op = "Plug" THEN "UndoPlug" ELSE "UndoUnplug", hp.done)
    /\ UNCHANGED <<guestVars, trackerVars, memberVars, dev, plugged, held>>

UndoPlugRegion(p) ==
    /\ hp.op = "UndoPlug" /\ p \in hp.todo /\ LockFree /\ p \in mapped /\ status = "Active"
    /\ Unmap(p) /\ Advance(p)
    /\ owned' = owned \ {p} /\ dirty' = dirty \ {p}
    /\ mem' = [mem EXCEPT ![p] = Zero]
    /\ UNCHANGED <<tracked, status, last, memberVars, dev, plugged, held>>

UndoUnplugRegion(p) ==
    /\ hp.op = "UndoUnplug" /\ p \in hp.todo /\ LockFree /\ p \notin mapped /\ status = "Active"
    /\ mapped' = mapped \cup {p}
    /\ writable' = IF tracked THEN writable ELSE writable \cup {p}
    /\ restored' = restored \ {p}
    /\ Advance(p)
    /\ UNCHANGED <<mem, owned, tracked, dirty, status, last, memberVars, dev,
                   plugged, held>>

\* One region stays as it is; the rollback goes on with the others.
UndoFails(p) ==
    /\ hp.op \in {"UndoPlug", "UndoUnplug"} /\ p \in hp.todo
    /\ hp' = [hp EXCEPT !.todo = @ \ {p}]
    /\ UNCHANGED <<guestVars, trackerVars, memberVars, dev, plugged, held>>

UndoDone ==
    /\ hp.op \in {"UndoPlug", "UndoUnplug"} /\ hp.todo = {}
    /\ hp' = NoRequest
    /\ UNCHANGED <<guestVars, trackerVars, memberVars, dev, plugged, held>>

CommitPlug ==
    /\ hp.op = "Plug" /\ hp.todo = {}
    /\ plugged' = plugged \cup hp.done /\ hp' = NoRequest
    /\ UNCHANGED <<guestVars, trackerVars, memberVars, dev, held>>

\* The unmapped regions lose their bytes, their owner and their bitmap.
CommitUnplug ==
    /\ hp.op = "Unplug" /\ hp.todo = {}
    /\ owned' = owned \ hp.done /\ dirty' = dirty \ hp.done
    /\ mem' = [p \in Pages |-> IF p \in hp.done THEN Zero ELSE mem[p]]
    /\ plugged' = plugged \ hp.done /\ hp' = NoRequest
    /\ UNCHANGED <<mapped, writable, tracked, restored, status, last, memberVars,
                   dev, held>>

-----------------------------------------------------------------------------
(* The next generation, under the quiescence guard                           *)

\* Every restored page loses WRITE again, then the bitmap is cleared.
ResetEpoch ==
    /\ writable' = writable \ restored
    /\ dirty' = {} /\ restored' = {}
    /\ last' = [m \in Members |-> NoPage]
    /\ UNCHANGED <<mem, owned, mapped, tracked, status>>

\* Nothing of the guest, of a device or of virtio-mem is under way.
Quiet ==
    /\ \A m \in Members : exits[m] = NoPage /\ outcome[m] = "ok"
    /\ dev = NoPage /\ hp.op = "Idle"

-----------------------------------------------------------------------------
DirtyNext ==
    \/ \E m \in Members, p \in Pages, v \in Values : GuestStore(m, p, v)
    \/ \E m \in Members, p \in Pages : GuestFault(m, p)
    \/ \E m \in Members : RestoreWrite(m)
    \/ \E m \in Members : MarkFirstWrite(m)
    \/ \E m \in Members : HandleProtectFails(m)
    \/ \E m \in Members : HandleStaleExit(m)
    \/ \E m \in Members : HandleRepeat(m)
    \/ \E m \in Members : HandleUnowned(m)
    \/ \E p \in Pages : DeviceMark(p)
    \/ \E v \in Values : DeviceStore(v)
    \/ \E blocks \in SUBSET HotPages : StartPlug(blocks)
    \/ \E p \in HotPages, v \in Values : PlugRegion(p, v)
    \/ \E blocks \in SUBSET HotPages : StartUnplug(blocks)
    \/ \E p \in HotPages : UnplugRegion(p)
    \/ MutationFails
    \/ \E p \in HotPages : UndoPlugRegion(p)
    \/ \E p \in HotPages : UndoUnplugRegion(p)
    \/ \E p \in HotPages : UndoFails(p)
    \/ UndoDone
    \/ CommitPlug
    \/ CommitUnplug

DirtySpec == DirtyInit /\ [][DirtyNext]_memoryVars

-----------------------------------------------------------------------------
(* Properties                                                                *)

\* Whatever the interleaving of first writes, stale exits, epoch resets and
\* hotplug with its rollbacks, a page the guest can write without an exit is
\* marked dirty, except for a mapped page a vCPU still has to return to: its
\* exit marks the page, and no snapshot is taken before
\* (hvf dirty.rs handle_exception, prepare_add, reset_epoch_quiesced).
WritesAreSeen ==
    tracked => /\ restored \subseteq dirty \cap mapped
               /\ restored \subseteq writable
               /\ \A p \in writable \ restored :
                     p \in mapped /\ \E m \in Members : exits[m] = p

\* A member reported NoProgress has not executed the store it was sent back to
\* redo ("an immediate repeat proves the unchanged instruction made no
\* progress", hvf dirty.rs handle_exception).
NoProgressIsReal ==
    \A m \in Members : outcome[m] = "NoProgress" => ~redone[m]

=============================================================================
