--------------------------- MODULE LazyMemoryProofs ---------------------------
(* Proofs about lazily populated guest memory, for every set of threads,      *)
(* pages and ranges, every limit and every combination of faults.             *)
(*                                                                            *)
(* The inductive invariant has two layers.  The gate layer relates the places *)
(* where threads stand, the transition gate, the life of the resolver, the    *)
(* page table and the two permission planes.                                  *)
EXTENDS LazyMemory, WellFoundedInduction, TLAPS

PageState == {"Absent", "Loading", "Publishing", "Present", "Removing"}
Phase == {"Active", "Closing", "Terminal"}
Access == {"Read", "Write", "Execute"}

Resolves == {"fault", "popwait", "pagewait", "request", "await", "install", "commit", "present",
             "lease", "failing"}
AtPage == Resolves \ {"lease", "failing"}
ThreadLabel == Resolves \cup {"idle", "leased", "poison", "stopped", "exited"}
Holds == {"revoke", "hide", "request", "await", "unwind"}
RemoverLabel == Holds \cup {"idle", "gate", "failing", "exited"}
ControlLabel == {"connecting", "serving", "cancel", "cancelWait", "cancelled", "drain", "gate",
                 "restore", "restored", "shutdownWait", "sourceCancel", "sourceWait", "drop",
                 "done", "exited"}

\* The coordinator's state has these fields and no other.
Recorded(s) ==
    s = [phase |-> s.phase, reason |-> s.reason, page |-> s.page, ops |-> s.ops,
         done |-> s.done, waiters |-> s.waiters, actions |-> s.actions, nextGen |-> s.nextGen]

CoInv == Recorded(co) /\ co.phase \in Phase /\ co.page \in [Pages -> PageState]

PlaceInv ==
    /\ pc \in [Callers -> ThreadLabel \cup RemoverLabel]
    /\ \A t \in Threads : pc[t] \in ThreadLabel
    /\ pc[Remover] \in RemoverLabel
    /\ ctl \in ControlLabel /\ life \in {"Prepared", "Active", "Closing", "Closed"}

WorkInv ==
    /\ job = [t \in Threads |-> job[t]]
    /\ \A t \in Threads :
          /\ job[t] = [pages |-> job[t].pages, todo |-> job[t].todo, access |-> job[t].access,
                       gen |-> job[t].gen]
          /\ job[t].pages \subseteq Pages /\ job[t].todo \subseteq Pages /\ job[t].access \in Access
          /\ pc[t] \in AtPage => job[t].todo # {}
    /\ removal = [pages |-> removal.pages, gen |-> removal.gen] /\ removal.pages \subseteq Pages

PlaneInv ==
    /\ host \in [Pages -> SUBSET {"R", "W"}] /\ guest \in [Pages -> SUBSET {"R", "W", "X"}]
    /\ handler \in {"Active", "Poisoned"}
    /\ admitted \in [Vcpus -> SUBSET [pages : SUBSET Pages, access : Access]]
    /\ contents = [p \in Pages |-> contents[p]]

\* Who is counted and who holds the gate follows from where the threads stand.
GateInv ==
    /\ writer \in {Remover, "none"} /\ waiting \subseteq {Remover, "teardown"}
    /\ acting \subseteq Callers /\ readers \subseteq Threads
    /\ \A t \in Threads : pc[t] \in {"install", "commit", "leased"} => t \in readers
    /\ ~Exited =>
          /\ \A t \in Threads : t \in readers => pc[t] \in {"install", "commit", "leased", "poison"}
          /\ \A t \in Threads : t \in acting <=> pc[t] \in Resolves
          /\ Remover \in acting <=> pc[Remover] \notin {"idle", "exited"}
          /\ writer = Remover <=> pc[Remover] \in Holds
          /\ writer = Remover => readers = {}
    /\ Exited => \A c \in Callers : pc[c] = "exited"

\* The controller drains the actions and passes the gate before it restores the mapping.
LifeInv ==
    /\ life = "Prepared" =>
          /\ ctl \in {"connecting", "drop", "done", "exited"}
          /\ \A c \in Callers : pc[c] \in {"idle", "exited"}
          /\ acting = {} /\ readers = {} /\ writer = "none"
          /\ \A p \in Pages : co.page[p] = "Absent" /\ guest[p] = {}
    /\ ctl = "connecting" => life = "Prepared"
    /\ life = "Active" => ctl \in {"serving", "cancel", "cancelWait", "cancelled", "exited"}
    /\ (ctl \in {"gate", "restore"} \/ Restored) => acting = {}
    /\ (ctl = "restore" \/ Restored) => readers = {} /\ writer = "none"

\* A page is published by one thread, whose permission on it excludes the remover.
PublishInv ==
    /\ \A t \in Threads : pc[t] \in {"install", "commit"} =>
          co.page[Page(t)] = "Publishing"
    /\ \A t, u \in Threads :
          (/\ pc[t] \in {"install", "commit"} /\ pc[u] \in {"install", "commit"}
           /\ Page(t) = Page(u)) => t = u

\* What is being removed, how far the removal is, and what it has closed.
RemoveInv ==
    /\ pc[Remover] \in {"revoke", "hide", "request", "await"} =>
          \A p \in Pages : p \in removal.pages <=> co.page[p] = "Removing"
    /\ co.phase = "Active" /\ pc[Remover] \in {"idle", "gate"} =>
          \A p \in Pages : co.page[p] # "Removing"
    /\ pc[Remover] \in {"hide", "request", "await"} => \A p \in removal.pages : guest[p] = {}
    /\ pc[Remover] \in {"request", "await"} =>
          \A p \in removal.pages : host[p] = {} /\ contents[p] = "zero"

PagesInv == PlanesFollowPages /\ LeaseKeepsPages /\ AdmissionIsInForce

GateLayer ==
    /\ CoInv /\ PlaceInv /\ WorkInv /\ PlaneInv /\ GateInv /\ LifeInv /\ PublishInv
    /\ RemoveInv /\ PagesInv

-----------------------------------------------------------------------------
(* The functions on the coordinator's state.                                 *)

\* What a helper that may close the coordinator leaves.
Closes(s, r) ==
    /\ Recorded(r) /\ r.page = s.page /\ r.waiters = s.waiters /\ r.nextGen = s.nextGen
    /\ r.ops \subseteq s.ops /\ r.done \subseteq s.done
    /\ r.phase \in Phase
    /\ s.phase # "Active" => r.phase # "Active" /\ r.reason = s.reason
    /\ s.phase = "Active" /\ r.phase # "Active" => r.done = {}

\* finalize_terminal_locked changes the phase only, and forgets what is left.
LEMMA FinalizeCloses ==
    ASSUME NEW s, Recorded(s), s.phase \in Phase
    PROVE  Closes(s, Finalize(s)) /\ (s.phase # "Active" => Finalize(s).phase # "Active")
<1>1. CASE s.actions = 0 /\ s.phase = "Closing"
  <2>1. PICK r : r = [s EXCEPT !.phase = "Terminal", !.ops = {}, !.done = {}]
    BY Zenon
  <2>2. Finalize(s) = r
    BY <1>1, <2>1, Zenon DEF Finalize
  <2>3. r = [phase |-> "Terminal", reason |-> s.reason, page |-> s.page, ops |-> {},
             done |-> {}, waiters |-> s.waiters, actions |-> s.actions, nextGen |-> s.nextGen]
    BY ONLY <2>1, Recorded(s), Zenon DEF Recorded
  <2>4. Closes(s, r) /\ r.phase # "Active"
    BY ONLY <1>1, <2>3, Zenon DEF Closes, Recorded, Phase
  <2> QED
    BY ONLY <2>2, <2>4, Zenon
<1>2. CASE ~(s.actions = 0 /\ s.phase = "Closing")
  <2>1. Finalize(s) = s
    BY <1>2, Zenon DEF Finalize
  <2> QED
    BY <2>1, Zenon DEF Closes
<1> QED
  BY <1>1, <1>2, Zenon

\* begin_closing_locked ends the active phase, whatever the reason, and only the first reason
\* is recorded.
LEMMA CloseCloses ==
    ASSUME NEW s, Recorded(s), s.phase \in Phase, NEW why
    PROVE  Closes(s, Close(s, why)) /\ Close(s, why).phase # "Active"
<1>1. CASE s.phase # "Active"
  BY <1>1, Zenon DEF Close, Closes
<1>2. CASE s.phase = "Active"
  <2>1. PICK acts : acts = {o \in s.ops : IsAction(o)}
    BY Zenon
  <2>2. acts \subseteq s.ops
    BY ONLY <2>1, Zenon
  <2>3. PICK c : c = [s EXCEPT !.phase = "Closing", !.reason = why, !.ops = acts, !.done = {}]
    BY Zenon
  <2>4. Close(s, why) = Finalize(c)
    BY ONLY <1>2, <2>1, <2>3, Zenon DEF Close
  <2>5. c = [phase |-> "Closing", reason |-> why, page |-> s.page, ops |-> acts, done |-> {},
             waiters |-> s.waiters, actions |-> s.actions, nextGen |-> s.nextGen]
    BY ONLY <2>3, Recorded(s), Zenon DEF Recorded
  <2>6. /\ Recorded(c) /\ c.phase = "Closing" /\ c.page = s.page /\ c.waiters = s.waiters
        /\ c.nextGen = s.nextGen /\ c.ops = acts /\ c.done = {}
    BY ONLY <2>5, Zenon DEF Recorded
  <2>7. Closes(c, Finalize(c)) /\ Finalize(c).phase # "Active"
    BY <2>6, FinalizeCloses, Zenon DEF Phase
  <2> QED
    BY ONLY <1>2, <2>2, <2>4, <2>6, <2>7, Zenon DEF Closes
<1> QED
  BY <1>1, <1>2, Zenon

\* Closing twice is closing.
LEMMA ClosesAgain ==
    ASSUME NEW s, NEW q, NEW r, Closes(s, q), Closes(q, r)
    PROVE  Closes(s, r)
BY Zenon DEF Closes

\* finish_action_locked ends one action.
LEMMA FinishCloses ==
    ASSUME NEW s, Recorded(s), s.phase \in Phase, NEW g
    PROVE  Closes(s, FinishAction(s, g))
<1>1. PICK mine : mine = {o \in s.ops : o.gen = g /\ IsAction(o)}
  BY Zenon
<1>2. PICK rest : rest = s.ops \ mine
  BY Zenon
<1>3. PICK left : left = [s EXCEPT !.ops = rest]
  BY Zenon
<1>4. PICK n : n = left.actions - 1
  BY Zenon
<1>5. PICK less : less = [left EXCEPT !.actions = n]
  BY Zenon
<1>6. FinishAction(s, g) \in {Finalize(s), Finalize(Close(left, "TransitionFailure")),
                              Finalize(less)}
  BY ONLY <1>1, <1>2, <1>3, <1>4, <1>5, Zenon DEF FinishAction
<1>7. left = [phase |-> s.phase, reason |-> s.reason, page |-> s.page, ops |-> rest,
              done |-> s.done, waiters |-> s.waiters, actions |-> s.actions,
              nextGen |-> s.nextGen]
  BY ONLY <1>3, Recorded(s), Zenon DEF Recorded
<1>8. Recorded(left) /\ Closes(s, left) /\ left.phase = s.phase
  BY ONLY <1>2, <1>7, s.phase \in Phase, Zenon DEF Recorded, Closes
<1>9. less = [phase |-> left.phase, reason |-> left.reason, page |-> left.page, ops |-> left.ops,
              done |-> left.done, waiters |-> left.waiters, actions |-> n,
              nextGen |-> left.nextGen]
  BY ONLY <1>5, <1>8, Zenon DEF Recorded
<1>10. Closes(left, less)
  BY ONLY <1>8, <1>9, s.phase \in Phase, Zenon DEF Recorded, Closes
<1>11. Closes(s, less) /\ Closes(s, Close(left, "TransitionFailure")) /\ Closes(s, s)
  BY <1>8, <1>10, CloseCloses, ClosesAgain DEF Closes
<1>12. \A r : Closes(s, r) => Closes(s, Finalize(r))
  BY FinalizeCloses, ClosesAgain DEF Closes
<1> QED
  BY ONLY <1>6, <1>11, <1>12, Zenon

\* drop_publication and drop_removal.
LEMMA DropCloses ==
    ASSUME NEW s, Recorded(s), s.phase \in Phase, NEW g
    PROVE  Closes(s, DropGuard(s, g)) /\ (DropGuard(s, g) = s \/ DropGuard(s, g).phase # "Active")
<1>1. PICK f : f = FinishAction(s, g)
  BY Zenon
<1>2. Closes(s, f) /\ Recorded(f) /\ f.phase \in Phase
  BY <1>1, FinishCloses DEF Closes
<1>3. Closes(f, Close(f, "TransitionFailure")) /\ Close(f, "TransitionFailure").phase # "Active"
  BY <1>2, CloseCloses, Zenon
<1>4. Closes(s, Close(f, "TransitionFailure"))
  BY <1>2, <1>3, ClosesAgain, Zenon
<1>5. Closes(s, s)
  BY Zenon DEF Closes
<1>6. DropGuard(s, g) = s \/ DropGuard(s, g) = Close(f, "TransitionFailure")
  BY <1>1, Zenon DEF DropGuard
<1> QED
  BY ONLY <1>3, <1>4, <1>5, <1>6, Zenon

\* drop_population after the coordinator closed.
LEMMA TicketCloses ==
    ASSUME NEW s, Recorded(s), s.phase \in Phase, NEW why, NEW g
    PROVE  /\ Closes(s, DropTicket(Close(s, why), g))
           /\ DropTicket(Close(s, why), g).phase # "Active"
<1>1. PICK c : c = Close(s, why)
  BY Zenon
<1>2. Closes(s, c) /\ c.phase # "Active" /\ Recorded(c) /\ c.phase \in Phase
  BY <1>1, CloseCloses DEF Closes
<1>3. PICK rest : rest = c.ops \ {o \in c.ops : o.gen = g}
  BY Zenon
<1>4. PICK d : d = [c EXCEPT !.ops = rest]
  BY Zenon
<1>5. DropTicket(c, g) \in {c, d, Close(c, "TransitionFailure")}
  BY ONLY <1>3, <1>4, Zenon DEF DropTicket
<1>6. d = [phase |-> c.phase, reason |-> c.reason, page |-> c.page, ops |-> rest, done |-> c.done,
           waiters |-> c.waiters, actions |-> c.actions, nextGen |-> c.nextGen]
  BY ONLY <1>2, <1>4, Zenon DEF Recorded
<1>7. Closes(c, d) /\ d.phase # "Active"
  BY ONLY <1>2, <1>3, <1>6, Zenon DEF Recorded, Closes
<1>8. Close(c, "TransitionFailure") = c
  BY <1>2, Zenon DEF Close
<1>9. Closes(s, d)
  BY <1>2, <1>7, ClosesAgain, Zenon
<1> QED
  BY ONLY <1>1, <1>2, <1>5, <1>7, <1>8, <1>9, Zenon

-----------------------------------------------------------------------------
(* The page a thread works on.                                               *)

Least(S) == CHOOSE p \in S : \A q \in S : p <= q

\* Every nonempty set of page numbers has a least one.
LEMMA LeastElement ==
    ASSUME NEW S, S \subseteq Nat, S # {}
    PROVE  Least(S) \in S
<1> DEFINE R == OpToRel(<, Nat)
<1>1. \A y, x \in Nat : <<y, x>> \in R <=> y < x
  BY Zenon DEF OpToRel
<1>2. IsWellFoundedOn(R, Nat)
  BY NatLessThanWellFounded, Zenon
<1> HIDE DEF R
<1>3. PICK m \in S : \A n \in S : ~(<<n, m>> \in R)
  BY ONLY <1>2, S \subseteq Nat, S # {}, WFMin, Zenon
<1>4. ASSUME NEW n \in S PROVE m <= n
  <2>1. n \in Nat /\ m \in Nat
    BY Zenon
  <2>2. ~(n < m)
    BY <1>3, <1>1, <2>1, Zenon
  <2> QED
    BY ONLY <2>1, <2>2
<1> QED
  BY <1>4, Zenon DEF Least

\* A thread that has pages to do works on one of them, now and after the step.
LEMMA PageIsTodo ==
    ASSUME NEW t \in Threads
    PROVE  /\ Page(t) = Least(job[t].todo)
           /\ Page(t)' = Least(job'[t].todo)
           /\ (job[t].todo \subseteq Pages /\ job[t].todo # {}) =>
                 Page(t) \in job[t].todo /\ Page(t) \in Pages
           /\ (job'[t].todo \subseteq Pages /\ job'[t].todo # {}) =>
                 Page(t)' \in job'[t].todo /\ Page(t)' \in Pages
<1>1. Page(t) = Least(job[t].todo) /\ Page(t)' = Least(job'[t].todo)
  BY Zenon DEF Page, Least
<1>2. Pages \subseteq Nat
  BY LazyConstants, Zenon
<1> QED
  BY <1>1, <1>2, LeastElement, Zenon

-----------------------------------------------------------------------------
(* Steps of a faulting thread, seen from the gate and from the pages.        *)

Publishes == {"install", "commit"}

\* What a step of t may do to the coordinator and to each page.
PagesMove(t) ==
    /\ Recorded(co') /\ co'.phase \in Phase /\ (co'.phase = "Active" => co.phase = "Active")
    /\ co'.page \in [Pages -> PageState]
    /\ \A p \in Pages :
          /\ co'.page[p] = "Removing" <=> co.page[p] = "Removing"
          /\ co.page[p] = "Removing" =>
                guest'[p] = guest[p] /\ host'[p] = host[p] /\ contents'[p] = contents[p]
          /\ co.page[p] \in {"Absent", "Loading"} =>
                /\ co'.page[p] \in {"Absent", "Loading", "Publishing"}
                /\ guest'[p] = guest[p] /\ host'[p] = host[p]
          /\ co.page[p] = "Publishing" =>
                /\ co'.page[p] \in {"Publishing", "Present"} /\ guest'[p] = guest[p]
                /\ co'.page[p] = "Present" => pc[t] = "commit" /\ p = Page(t)
          /\ co.page[p] = "Present" =>
                /\ co'.page[p] = "Present" /\ guest[p] \subseteq guest'[p]
                /\ host'[p] = host[p] \/ host'[p] # {}

\* What a step that takes t to the label l does to the gate, the job and the planes.
ThreadMoves(t, l) ==
    /\ l \in ThreadLabel /\ l # "exited" /\ Goto(t, l) /\ pc[t] # "exited"
    /\ ctl' = ctl /\ life' = life /\ writer' = writer /\ waiting' = waiting /\ removal' = removal
    /\ acting' = IF l \in Resolves THEN acting \cup {t} ELSE acting \ {t}
    /\ \/ readers' = readers \ {t} /\ l \notin Publishes \cup {"leased"}
       \/ readers' = readers /\ (t \in readers <=> l \in Publishes \cup {"leased", "poison"})
       \/ readers' = readers /\ t \notin readers /\ l \notin Publishes \cup {"leased"}
       \/ readers' = readers \cup {t} /\ l \in Publishes \cup {"leased"} /\ writer = "none"
    /\ life = "Active" \/ pc[t] \in Resolves \/ (l \notin Resolves /\ readers' \subseteq readers)
    /\ life # "Prepared"
    /\ WorkInv' /\ PlaneInv'
    /\ \A u \in Threads \ {t} : job'[u] = job[u]
    /\ PagesMove(t)
    /\ handler' = "Active" => handler = "Active"
    /\ l \in Publishes =>
          /\ co'.page[Page(t)'] = "Publishing"
          /\ \/ pc[t] \in Publishes /\ Page(t)' = Page(t)
             \/ co.page[Page(t)'] # "Publishing"
    /\ l = "leased" => \A p \in job'[t].pages : co'.page[p] = "Present" /\ host'[p] # {}
    /\ AdmissionIsInForce'

\* Where the threads stand and who holds the gate.
LEMMA ThreadGate ==
    ASSUME GateLayer, NEW t \in Threads, NEW l, ThreadMoves(t, l)
    PROVE  PlaceInv' /\ GateInv' /\ LifeInv'
<1> USE DEF GateLayer
<1>0. t \in Callers /\ t # Remover /\ Remover \in Callers /\ Threads \subseteq Callers
      /\ Callers = Threads \cup {Remover} /\ Remover # "none"
  BY LazyConstants, Zenon
<1>1. /\ pc'[t] = l /\ pc'[Remover] = pc[Remover]
      /\ \A u \in Threads \ {t} : pc'[u] = pc[u]
      /\ l \in ThreadLabel
  BY <1>0, Zenon DEF PlaceInv, ThreadMoves, Goto
<1>2. PlaceInv'
  BY <1>0, <1>1, Zenon DEF PlaceInv, ThreadMoves, Goto
<1>3. ~Exited /\ ~Exited'
  BY <1>0, Zenon DEF GateInv, ThreadMoves, Exited
<1>4. GateInv'
  <2>1. writer' \in {Remover, "none"} /\ waiting' \subseteq {Remover, "teardown"}
    BY Zenon DEF GateInv, ThreadMoves
  <2>2. acting' \subseteq Callers /\ readers' \subseteq Threads
    BY <1>0, Zenon DEF GateInv, ThreadMoves
  <2>3. ASSUME NEW u \in Threads, pc'[u] \in {"install", "commit", "leased"} PROVE u \in readers'
    BY <1>1, <1>3, <2>3 DEF GateInv, ThreadMoves, Publishes
  <2>4. ASSUME NEW u \in Threads, u \in readers'
        PROVE  pc'[u] \in {"install", "commit", "leased", "poison"}
    BY <1>1, <1>3, <2>4 DEF GateInv, ThreadMoves, Publishes
  <2>5. ASSUME NEW u \in Threads PROVE u \in acting' <=> pc'[u] \in Resolves
    BY <1>1, <1>3, Zenon DEF GateInv, ThreadMoves
  <2>6. Remover \in acting' <=> pc'[Remover] \notin {"idle", "exited"}
    BY <1>0, <1>1, <1>3, Zenon DEF GateInv, ThreadMoves
  <2>7. writer' = Remover <=> pc'[Remover] \in Holds
    BY <1>1, <1>3, Zenon DEF GateInv, ThreadMoves
  <2>8. writer' = Remover => readers' = {}
    BY <1>0, <1>3, Zenon DEF GateInv, ThreadMoves
  <2> QED
    BY <1>3, <2>1, <2>2, <2>3, <2>4, <2>5, <2>6, <2>7, <2>8, Zenon DEF GateInv
<1>5. LifeInv'
  <2>1. ASSUME ctl' \in {"gate", "restore"} \/ Restored'
        PROVE  acting' = {} /\ life # "Active" /\ (readers = {} => readers' = {})
    <3>1. acting = {} /\ life # "Active"
      BY <2>1, Zenon DEF LifeInv, ThreadMoves, Restored
    <3>2. pc[t] \notin Resolves
      BY <1>3, <3>1, Zenon DEF GateInv
    <3> QED
      BY <3>1, <3>2, Zenon DEF ThreadMoves
  <2> QED
    BY <2>1, Zenon DEF LifeInv, ThreadMoves, Restored
<1> QED
  BY <1>2, <1>4, <1>5, Zenon

\* PlanesFollowPages for one page.
PageFollows(p) ==
    /\ co.page[p] \in {"Absent", "Loading"} => host[p] = {} /\ guest[p] = {}
    /\ co.page[p] = "Publishing" => guest[p] = {}
    /\ co.page[p] = "Removing" /\ handler = "Active" =>
          /\ pc[Remover] # "revoke" => guest[p] = {}
          /\ \/ pc[Remover] \in {"request", "await"}
             \/ pc[Remover] \notin {"revoke", "hide"} /\ "hide" \notin PlatformFaults
             => host[p] = {} /\ contents[p] = "zero"

\* The pages, the planes and the leases.
LEMMA ThreadPages ==
    ASSUME GateLayer, NEW t \in Threads, NEW l, ThreadMoves(t, l)
    PROVE  GateLayer'
<1> USE DEF GateLayer
<1>0. PlaceInv' /\ GateInv' /\ LifeInv' /\ Remover \in Callers /\ Threads \subseteq Callers
      /\ t # Remover
  BY ThreadGate, LazyConstants, Zenon
<1>1. /\ pc'[t] = l /\ pc'[Remover] = pc[Remover]
      /\ \A u \in Threads \ {t} : pc'[u] = pc[u] /\ job'[u] = job[u]
  BY <1>0, Zenon DEF PlaceInv, ThreadMoves, Goto
<1>2. PagesMove(t) /\ WorkInv' /\ PlaneInv' /\ AdmissionIsInForce' /\ removal' = removal
      /\ CoInv'
  BY Zenon DEF ThreadMoves, PagesMove, CoInv
<1>3. \A u \in Threads : pc[u] \in Publishes => Page(u) \in Pages
  BY PageIsTodo, Zenon DEF WorkInv, Publishes, AtPage, Resolves
<1>4. \A u \in Threads \ {t} : Page(u)' = Page(u)
  BY <1>1, PageIsTodo, Zenon
<1>5. PublishInv'
  <2>1. ASSUME NEW u \in Threads, pc'[u] \in Publishes
        PROVE  co'.page[Page(u)'] = "Publishing"
    <3>1. CASE u = t
      BY <1>1, <2>1, <3>1, Zenon DEF ThreadMoves
    <3>2. CASE u # t
      <4>1. pc[u] \in Publishes /\ Page(u)' = Page(u) /\ Page(u) \in Pages
        BY <1>1, <1>3, <1>4, <2>1, <3>2, Zenon
      <4>2. co.page[Page(u)] = "Publishing"
        BY <4>1, Zenon DEF PublishInv, Publishes
      <4>3. Page(u) = Page(t) => pc[t] \notin Publishes
        BY <3>2, <4>1, Zenon DEF PublishInv, Publishes
      <4>4. co'.page[Page(u)] # "Present"
        BY <1>2, <4>1, <4>2, <4>3, Zenon DEF PagesMove, Publishes
      <4> QED
        BY <1>2, <4>1, <4>2, <4>4, Zenon DEF PagesMove
    <3> QED
      BY <3>1, <3>2, Zenon
  <2>2. ASSUME NEW u \in Threads, pc'[u] \in Publishes, l \in Publishes, Page(u)' = Page(t)'
        PROVE  u = t
    <3>1. SUFFICES ASSUME u # t PROVE FALSE
      BY Zenon
    <3>2. pc[u] \in Publishes /\ Page(u)' = Page(u)
      BY <1>1, <1>4, <2>2, <3>1, Zenon
    <3>3. co.page[Page(u)] = "Publishing"
      BY <3>2, Zenon DEF PublishInv, Publishes
    <3>4. pc[t] \in Publishes /\ Page(t) = Page(u)
      BY <2>2, <3>2, <3>3, Zenon DEF ThreadMoves
    <3> QED
      BY <3>1, <3>2, <3>4, Zenon DEF PublishInv, Publishes
  <2>3. ASSUME NEW u \in Threads \ {t}, NEW w \in Threads \ {t}, pc'[u] \in Publishes,
               pc'[w] \in Publishes, Page(u)' = Page(w)'
        PROVE  u = w
    BY <1>1, <1>4, <2>3 DEF PublishInv, Publishes
  <2> QED
    BY <1>1, <2>1, <2>2, <2>3, Zenon DEF PublishInv, Publishes
<1>6. RemoveInv'
  <2>1. removal.pages \subseteq Pages
    BY Zenon DEF WorkInv
  <2>2. pc[Remover] \in {"hide", "request", "await"} =>
           \A p \in removal.pages : co.page[p] = "Removing"
    BY <2>1, Zenon DEF RemoveInv
  <2> QED
    BY <1>1, <1>2, <2>1, <2>2 DEF RemoveInv, PagesMove
<1>7. PlanesFollowPages'
  <2>1. SUFFICES ASSUME Mapped', ~Exited', NEW p \in Pages
                 PROVE  PageFollows(p)'
    BY Zenon DEF PlanesFollowPages, PageFollows
  <2>2. Mapped /\ ~Exited
    BY <2>1, Zenon DEF ThreadMoves, Mapped, Restored, Exited
  <2>3. PageFollows(p)
    BY <2>2, Zenon DEF PagesInv, PlanesFollowPages, PageFollows
  <2>4. co'.page[p] \in {"Absent", "Loading"} => host'[p] = {} /\ guest'[p] = {}
    BY <1>2, <2>3, Zenon DEF PagesMove, PageFollows, CoInv, PageState
  <2>5. co'.page[p] = "Publishing" => guest'[p] = {}
    BY <1>2, <2>3, Zenon DEF PagesMove, PageFollows, CoInv, PageState
  <2>6. (co'.page[p] = "Removing" /\ handler' = "Active") =>
           (handler = "Active" /\ co.page[p] = "Removing" /\ guest'[p] = guest[p]
            /\ host'[p] = host[p] /\ contents'[p] = contents[p])
    BY <1>2, Zenon DEF PagesMove, ThreadMoves
  <2> QED
    BY <1>1, <2>3, <2>4, <2>5, <2>6, Zenon DEF PageFollows
<1>8. LeaseKeepsPages'
  <2>1. ASSUME NEW u \in Threads, pc'[u] = "leased", NEW p \in job'[u].pages
        PROVE  co'.page[p] = "Present" /\ (Mapped' => host'[p] # {})
    <3>1. CASE u = t
      BY <1>1, <2>1, <3>1, Zenon DEF ThreadMoves
    <3>2. CASE u # t
      <4>1. pc[u] = "leased" /\ p \in job[u].pages /\ p \in Pages
        BY <1>1, <2>1, <3>2, Zenon DEF WorkInv
      <4>2. co.page[p] = "Present" /\ (Mapped => host[p] # {})
        BY <4>1, Zenon DEF PagesInv, LeaseKeepsPages
      <4>3. Mapped' => Mapped
        BY Zenon DEF ThreadMoves, Mapped, Restored
      <4> QED
        BY <1>2, <4>1, <4>2, <4>3, Zenon DEF PagesMove
    <3> QED
      BY <3>1, <3>2, Zenon
  <2> QED
    BY <2>1, Zenon DEF LeaseKeepsPages
<1> QED
  BY <1>0, <1>2, <1>5, <1>6, <1>7, <1>8, Zenon DEF PagesInv

\* What is known of a thread from where it stands.
LEMMA Standing ==
    ASSUME GateLayer, NEW t \in Threads, pc[t] \notin {"idle", "exited"}
    PROVE  /\ ~Exited /\ life # "Prepared" /\ (t \in acting <=> pc[t] \in Resolves)
           /\ t \in readers => pc[t] \in Publishes \cup {"leased", "poison"}
           /\ pc[t] \in Publishes \cup {"leased"} => t \in readers
           /\ pc[t] \in AtPage =>
                 job[t].todo # {} /\ Page(t) \in job[t].todo /\ Page(t) \in Pages
           /\ pc[t] \in Publishes => co.page[Page(t)] = "Publishing"
<1>1. t \in Callers
  BY LazyConstants, Zenon
<1>2. ~Exited /\ life # "Prepared"
  BY <1>1, Zenon DEF GateLayer, GateInv, LifeInv
<1>3. pc[t] \in AtPage => job[t].todo # {} /\ Page(t) \in job[t].todo /\ Page(t) \in Pages
  BY PageIsTodo, Zenon DEF GateLayer, WorkInv
<1> QED
  BY <1>2, <1>3, Zenon DEF GateLayer, GateInv, PublishInv, Publishes

\* The job of a thread.
Job(j) ==
    /\ j = [pages |-> j.pages, todo |-> j.todo, access |-> j.access, gen |-> j.gen]
    /\ j.pages \subseteq Pages /\ j.todo \subseteq Pages /\ j.access \in Access

\* A thread that moves to a label where it works on a page has a page left to work on.
LEMMA JobMoves ==
    ASSUME GateLayer, NEW t \in Threads, NEW l \in ThreadLabel, Goto(t, l), removal' = removal,
           NEW j, Job(j), l \in AtPage => j.todo # {},
           job' = [job EXCEPT ![t] = j] \/ (job' = job /\ j = job[t])
    PROVE  WorkInv' /\ job'[t] = j /\ (\A u \in Threads \ {t} : job'[u] = job[u])
<1>1. job = [u \in Threads |-> job[u]]
  BY Zenon DEF GateLayer, WorkInv
<1>2. job' = [u \in Threads |-> job'[u]] /\ job'[t] = j /\ \A u \in Threads \ {t} : job'[u] = job[u]
  BY <1>1, Zenon
<1>3. t \in Callers /\ Threads \subseteq Callers /\ pc \in [Callers -> ThreadLabel \cup RemoverLabel]
  BY LazyConstants, Zenon DEF GateLayer, PlaceInv
<1>4. pc'[t] = l /\ \A u \in Threads \ {t} : pc'[u] = pc[u]
  BY <1>3, Zenon DEF Goto
<1>5. ASSUME NEW u \in Threads
      PROVE  Job(job'[u]) /\ (pc'[u] \in AtPage => job'[u].todo # {})
  <2>1. Job(job[u]) /\ (pc[u] \in AtPage => job[u].todo # {})
    BY Zenon DEF GateLayer, WorkInv, Job
  <2> QED
    BY <1>2, <1>4, <2>1, Zenon
<1>6. removal' = [pages |-> removal'.pages, gen |-> removal'.gen] /\ removal'.pages \subseteq Pages
  BY Zenon DEF GateLayer, WorkInv
<1> QED
  BY <1>2, <1>5, <1>6, Zenon DEF WorkInv, Job

\* A step that leaves the planes alone and closes the coordinator, begins to load a page or
\* begins to publish one.
LEMMA QuietPages ==
    ASSUME GateLayer, NEW t \in Threads, NEW p \in Pages, NEW x,
           Recorded(co'), co'.phase \in Phase, co'.phase = "Active" => co.phase = "Active",
           \/ co'.page = co.page
           \/ /\ co'.page = [co.page EXCEPT ![p] = x]
              /\ <<co.page[p], x>> \in {<<"Absent", "Loading">>, <<"Loading", "Publishing">>},
           UNCHANGED <<contents, planeVars>>
    PROVE  PagesMove(t) /\ PlaneInv' /\ AdmissionIsInForce'
<1>1. contents' = contents /\ host' = host /\ guest' = guest /\ handler' = handler
      /\ admitted' = admitted
  BY Zenon DEF planeVars
<1>2. PlaneInv' /\ AdmissionIsInForce'
  BY <1>1, Zenon DEF GateLayer, PagesInv, PlaneInv, AdmissionIsInForce
<1>3. co.page \in [Pages -> PageState]
  BY Zenon DEF GateLayer, CoInv
<1>4. \A q \in Pages : co'.page[q] = co.page[q] \/ (q = p /\ co'.page[p] = x)
  BY <1>3, Zenon
<1>5. co'.page \in [Pages -> PageState]
  BY <1>3, Zenon DEF PageState
<1>6. PagesMove(t)
  BY <1>1, <1>3, <1>4, <1>5, Zenon DEF PagesMove, PageState
<1> QED
  BY <1>2, <1>6, Zenon

\* The outcomes of CoordinatorInner::fault.
FaultFails(t, s) == co' = s /\ job' = job /\ Goto(t, "failing")
FaultLoads(t, s) ==
    /\ s.phase = "Active" /\ s.page[Page(t)] = "Absent" /\ ~(Cardinality(s.ops) >= MaxInFlight)
    /\ co' = [s EXCEPT !.page[Page(t)] = "Loading", !.nextGen = @ + 1,
                !.ops = @ \cup {[gen |-> s.nextGen, kind |-> "page", pages |-> {Page(t)},
                                 stage |-> "Loading", waiters |-> 0]}]
    /\ job' = [job EXCEPT ![t].gen = s.nextGen]
    /\ Goto(t, "request")
FaultFinds(t, s) ==
    /\ s.phase = "Active" /\ s.page[Page(t)] = "Present"
    /\ co' = s /\ job' = job /\ Goto(t, "present")
FaultJoins(t, s, o) ==
    /\ s.phase = "Active" /\ s.page[Page(t)] \in {"Loading", "Publishing"} /\ ~(s.waiters >= MaxWaiters)
    /\ co' = [s EXCEPT !.waiters = @ + 1, !.ops = (@ \ {o}) \cup {[o EXCEPT !.waiters = @ + 1]}]
    /\ job' = [job EXCEPT ![t].gen = o.gen]
    /\ Goto(t, "popwait")
FaultWaits(t, s) ==
    /\ s.phase = "Active" /\ s.page[Page(t)] = "Removing" /\ ~(s.waiters >= MaxWaiters)
    /\ co' = [s EXCEPT !.waiters = @ + 1] /\ job' = job /\ Goto(t, "pagewait")

\* FaultFrom falls into exactly the outcomes of request_page.
LEMMA FaultCases ==
    ASSUME NEW t \in Threads, NEW s, s.page[Page(t)] \in PageState,
           FaultFrom(t, s)
    PROVE  \/ FaultFails(t, s) \/ FaultLoads(t, s) \/ FaultFinds(t, s)
           \/ FaultJoins(t, s, Population(s, Page(t))) \/ FaultWaits(t, s)
<1> DEFINE p == Page(t)
           full == s.waiters >= MaxWaiters
<1>1. CASE s.phase # "Active"
  BY <1>1, Zenon DEF FaultFrom, FaultFails
<1>2. CASE s.phase = "Active" /\ s.page[p] = "Absent"
  <2>1. CASE Cardinality(s.ops) >= MaxInFlight
    BY <1>2, <2>1, Zenon DEF FaultFrom, FaultFails
  <2>2. CASE ~(Cardinality(s.ops) >= MaxInFlight)
    BY <1>2, <2>2, Zenon DEF FaultFrom, FaultLoads
  <2> QED
    BY <2>1, <2>2, Zenon
<1>3. CASE s.phase = "Active" /\ s.page[p] = "Present"
  BY <1>3, Zenon DEF FaultFrom, FaultFinds
<1>4. CASE s.phase = "Active" /\ s.page[p] \in {"Loading", "Publishing", "Removing"} /\ full
  BY <1>4, Zenon DEF FaultFrom, FaultFails
<1>5. CASE s.phase = "Active" /\ s.page[p] \in {"Loading", "Publishing"} /\ ~full
  BY <1>5, Zenon DEF FaultFrom, FaultJoins
<1>6. CASE s.phase = "Active" /\ s.page[p] = "Removing" /\ ~full
  BY <1>6, Zenon DEF FaultFrom, FaultWaits
<1> QED
  BY <1>1, <1>2, <1>3, <1>4, <1>5, <1>6, Zenon DEF PageState

\* A step of a resolution that touches neither the gate nor the planes.
LEMMA QuietStep ==
    ASSUME GateLayer, NEW t \in Threads, pc[t] \in Resolves \ Publishes,
           NEW l \in Resolves \ Publishes, Goto(t, l), l \in AtPage => pc[t] \in AtPage,
           NEW j, Job(j), j.todo = job[t].todo,
           job' = [job EXCEPT ![t] = j] \/ (job' = job /\ j = job[t]),
           NEW p \in Pages,
           Recorded(co'), co'.phase \in Phase, co'.phase = "Active" => co.phase = "Active",
           \/ co'.page = co.page
           \/ co.page[p] = "Absent" /\ co'.page = [co.page EXCEPT ![p] = "Loading"],
           UNCHANGED <<contents, life, acting, gateVars, planeVars, removal, ctl>>
    PROVE  GateLayer'
<1>1. /\ ~Exited /\ life # "Prepared" /\ t \in acting /\ t \notin readers
      /\ pc[t] \in AtPage => job[t].todo # {}
  BY Standing, Zenon DEF Resolves, Publishes
<1>2. /\ life' = life /\ acting' = acting /\ readers' = readers /\ writer' = writer
      /\ waiting' = waiting /\ removal' = removal /\ ctl' = ctl /\ handler' = handler
      /\ UNCHANGED <<contents, planeVars>>
  BY Zenon DEF gateVars, planeVars
<1>3. PagesMove(t) /\ PlaneInv' /\ AdmissionIsInForce'
  BY <1>2, QuietPages, Zenon
<1>4. l \in ThreadLabel /\ l # "exited" /\ pc[t] # "exited"
  BY Zenon DEF ThreadLabel, Resolves
<1>5. WorkInv' /\ \A u \in Threads \ {t} : job'[u] = job[u]
  BY <1>1, <1>2, <1>4, JobMoves, Zenon
<1>6. ThreadMoves(t, l)
  BY <1>1, <1>2, <1>3, <1>4, <1>5, Zenon DEF ThreadMoves, Publishes, Resolves
<1> QED
  BY <1>6, ThreadPages, Zenon

\* A change of the generation a thread waits for or loads.
LEMMA JobOf ==
    ASSUME GateLayer, NEW t \in Threads, NEW g
    PROVE  /\ Job(job[t])
           /\ [job EXCEPT ![t].gen = g] =
                 [job EXCEPT ![t] = [pages |-> job[t].pages, todo |-> job[t].todo,
                                     access |-> job[t].access, gen |-> g]]
           /\ Job([pages |-> job[t].pages, todo |-> job[t].todo, access |-> job[t].access,
                   gen |-> g])
<1>1. Job(job[t])
  BY Zenon DEF GateLayer, WorkInv, Job
<1>2. PICK j : j = job[t]
  BY Zenon
<1>3. PICK k : k = [j EXCEPT !.gen = g]
  BY Zenon
<1>4. k = [pages |-> j.pages, todo |-> j.todo, access |-> j.access, gen |-> g]
  BY ONLY <1>1, <1>2, <1>3, Zenon DEF Job
<1>5. [job EXCEPT ![t].gen = g] = [job EXCEPT ![t] = k]
  BY <1>2, <1>3, Zenon
<1>6. Job([pages |-> job[t].pages, todo |-> job[t].todo, access |-> job[t].access, gen |-> g])
  BY ONLY <1>1, Zenon DEF Job
<1> QED
  BY ONLY <1>1, <1>2, <1>4, <1>5, <1>6, Zenon

\* CoordinatorInner::fault, entered or woken.
LEMMA FaultStep ==
    ASSUME GateLayer, NEW t \in Threads, pc[t] \in {"fault", "pagewait"},
           NEW s, Recorded(s), s.phase = co.phase, s.page = co.page, FaultFrom(t, s),
           UNCHANGED <<contents, life, acting, gateVars, planeVars, removal, ctl>>
    PROVE  GateLayer'
<1>1. pc[t] \in AtPage /\ pc[t] \in Resolves \ Publishes
  BY Zenon DEF AtPage, Resolves, Publishes
<1>2. Page(t) \in Pages
  BY <1>1, Standing, Zenon DEF AtPage, Resolves
<1>3. PICK p \in Pages : p = Page(t)
  BY <1>2, Zenon
<1>4. co.phase \in Phase /\ co.page \in [Pages -> PageState]
  BY Zenon DEF GateLayer, CoInv
<1>5. {"failing", "request", "present", "popwait", "pagewait"} \subseteq Resolves \ Publishes
  BY Zenon DEF Resolves, Publishes
<1>6. Job(job[t])
  BY JobOf, Zenon
<1>7. CASE FaultFails(t, s) \/ FaultFinds(t, s)
  <2>1. /\ co' = s /\ job' = job /\ \E l \in {"failing", "present"} : Goto(t, l)
    BY <1>7, Zenon DEF FaultFails, FaultFinds
  <2>2. /\ Recorded(co') /\ co'.phase = co.phase /\ co'.page = co.page
    BY ONLY <2>1, Recorded(s), s.phase = co.phase, s.page = co.page, Zenon
  <2> QED
    BY <1>1, <1>3, <1>4, <1>5, <1>6, <2>1, <2>2, QuietStep, Zenon
<1>8. CASE FaultLoads(t, s)
  <2>1. PICK pages : pages = [s.page EXCEPT ![p] = "Loading"]
    BY Zenon
  <2>2. PICK ops : ops = s.ops \cup {[gen |-> s.nextGen, kind |-> "page", pages |-> {p},
                                      stage |-> "Loading", waiters |-> 0]}
    BY Zenon
  <2>3. PICK n : n = s.nextGen + 1
    BY Zenon
  <2>4. co' = [s EXCEPT !.page = pages, !.nextGen = n, !.ops = ops]
    BY <1>3, <1>8, <2>1, <2>2, <2>3, Zenon DEF FaultLoads
  <2>5. Recorded(co') /\ co'.phase = s.phase /\ co'.page = pages
    BY ONLY <2>4, Recorded(s), Zenon DEF Recorded
  <2>6. co.page[p] = "Absent" /\ Goto(t, "request") /\ job' = [job EXCEPT ![t].gen = s.nextGen]
    BY <1>3, <1>8, Zenon DEF FaultLoads
  <2>7. PICK j : j = [pages |-> job[t].pages, todo |-> job[t].todo, access |-> job[t].access,
                      gen |-> s.nextGen]
    BY Zenon
  <2>8. job' = [job EXCEPT ![t] = j] /\ Job(j) /\ j.todo = job[t].todo
    BY <2>6, <2>7, JobOf, Zenon
  <2> QED
    BY <1>1, <1>3, <1>4, <1>5, <2>1, <2>5, <2>6, <2>8, QuietStep, Zenon
<1>9. CASE FaultJoins(t, s, Population(s, Page(t)))
  <2>1. PICK o : o = Population(s, Page(t))
    BY Zenon
  <2>2. PICK ops : ops = (s.ops \ {o}) \cup {[o EXCEPT !.waiters = @ + 1]}
    BY Zenon
  <2>3. PICK n : n = s.waiters + 1
    BY Zenon
  <2>4. co' = [s EXCEPT !.waiters = n, !.ops = ops] /\ Goto(t, "popwait")
        /\ job' = [job EXCEPT ![t].gen = o.gen]
    BY <1>9, <2>1, <2>2, <2>3, Zenon DEF FaultJoins
  <2>5. Recorded(co') /\ co'.phase = s.phase /\ co'.page = s.page
    BY ONLY <2>4, Recorded(s), Zenon DEF Recorded
  <2>6. PICK g : g = o.gen
    BY Zenon
  <2>7. PICK j : j = [pages |-> job[t].pages, todo |-> job[t].todo, access |-> job[t].access,
                      gen |-> g]
    BY Zenon
  <2>8. job' = [job EXCEPT ![t] = j] /\ Job(j) /\ j.todo = job[t].todo
    BY <2>4, <2>6, <2>7, JobOf, Zenon
  <2> QED
    BY <1>1, <1>3, <1>4, <1>5, <2>4, <2>5, <2>8, QuietStep, Zenon
<1>10. CASE FaultWaits(t, s)
  <2>1. PICK n : n = s.waiters + 1
    BY Zenon
  <2>2. co' = [s EXCEPT !.waiters = n] /\ Goto(t, "pagewait") /\ job' = job
    BY <1>10, <2>1, Zenon DEF FaultWaits
  <2>3. Recorded(co') /\ co'.phase = s.phase /\ co'.page = s.page
    BY ONLY <2>2, Recorded(s), Zenon DEF Recorded
  <2> QED
    BY <1>1, <1>3, <1>4, <1>5, <1>6, <2>2, <2>3, QuietStep, Zenon
<1> QED
  BY <1>2, <1>4, <1>7, <1>8, <1>9, <1>10, FaultCases

\* request_page, called by the fault handler and again by a thread that waited for a page.
LEMMA FaultKeeps ==
    ASSUME GateLayer, NEW t \in Threads, Fault(t) \/ PageWait(t)
    PROVE  GateLayer'
<1>1. Recorded(co)
  BY Zenon DEF GateLayer, CoInv
<1>2. UNCHANGED <<contents, life, acting, gateVars, planeVars, removal, ctl>>
  BY Zenon DEF Fault, PageWait
<1>3. CASE Fault(t)
  <2>1. pc[t] = "fault" /\ FaultFrom(t, co)
    BY <1>3, Zenon DEF Fault
  <2>2. PICK s : s = co
    BY Zenon
  <2> QED
    BY <1>1, <1>2, <2>1, <2>2, FaultStep, Zenon
<1>4. CASE PageWait(t)
  <2>1. PICK n : n = co.waiters - 1
    BY Zenon
  <2>2. PICK s : s = [co EXCEPT !.waiters = n]
    BY Zenon
  <2>3. pc[t] = "pagewait" /\ FaultFrom(t, s)
    BY <1>4, <2>1, <2>2, Zenon DEF PageWait
  <2>4. Recorded(s) /\ s.phase = co.phase /\ s.page = co.page
    BY ONLY <1>1, <2>2, Zenon DEF Recorded
  <2> QED
    BY <1>2, <2>3, <2>4, FaultStep, Zenon
<1> QED
  BY <1>3, <1>4, Zenon

\* wait_for_population.
LEMMA WaitKeeps ==
    ASSUME GateLayer, NEW t \in Threads, PopulationWait(t)
    PROVE  GateLayer'
<1>1. pc[t] = "popwait" /\ job' = job
      /\ UNCHANGED <<contents, life, acting, gateVars, planeVars, removal, ctl>>
  BY Zenon DEF PopulationWait
<1>2. pc[t] \in AtPage /\ pc[t] \in Resolves \ Publishes
  BY <1>1, Zenon DEF AtPage, Resolves, Publishes
<1>3. PICK p \in Pages : p = Page(t)
  BY <1>1, <1>2, Standing, Zenon
<1>4. Recorded(co) /\ co.phase \in Phase /\ Job(job[t])
  BY JobOf, Zenon DEF GateLayer, CoInv
<1>5. PICK n : n = co.waiters - 1
  BY Zenon
<1>6. PICK left : left = [co EXCEPT !.waiters = n]
  BY Zenon
<1>7. Recorded(left) /\ left.phase = co.phase /\ left.page = co.page
  BY ONLY <1>4, <1>6, Zenon DEF Recorded
<1>8. \/ co' = left /\ Goto(t, "failing")
      \/ \E done : co' = [left EXCEPT !.done = done] /\ \E l \in {"present", "fault"} : Goto(t, l)
  BY <1>5, <1>6, Zenon DEF PopulationWait
<1>9. Recorded(co') /\ co'.phase = co.phase /\ co'.page = co.page
  <2>1. CASE co' = left
    BY <1>7, <2>1, Zenon
  <2>2. ASSUME NEW done, co' = [left EXCEPT !.done = done]
        PROVE  Recorded(co') /\ co'.phase = left.phase /\ co'.page = left.page
    BY ONLY <1>7, <2>2, Zenon DEF Recorded
  <2> QED
    BY <1>7, <1>8, <2>1, <2>2, Zenon
<1>10. PICK l \in {"failing", "present", "fault"} : Goto(t, l)
  BY <1>8, Zenon
<1>11. l \in Resolves \ Publishes
  BY Zenon DEF Resolves, Publishes
<1> QED
  BY <1>1, <1>2, <1>3, <1>4, <1>9, <1>10, <1>11, QuietStep

\* The request to the pager, and the failure of one.
LEMMA SourceKeeps ==
    ASSUME GateLayer, NEW t \in Threads, RequestPage(t) \/ SourceFails(t)
    PROVE  GateLayer'
<1>1. pc[t] \in {"request", "await"} /\ job' = job
      /\ UNCHANGED <<contents, life, acting, gateVars, planeVars, removal, ctl>>
  BY Zenon DEF RequestPage, SourceFails
<1>2. pc[t] \in AtPage /\ pc[t] \in Resolves \ Publishes
  BY <1>1, Zenon DEF AtPage, Resolves, Publishes
<1>3. PICK p \in Pages : p = Page(t)
  BY <1>1, <1>2, Standing, Zenon
<1>4. Recorded(co) /\ co.phase \in Phase /\ Job(job[t])
  BY JobOf, Zenon DEF GateLayer, CoInv
<1>5. PICK l \in {"await", "failing"} : Goto(t, l)
  BY Zenon DEF RequestPage, SourceFails
<1>6. l \in Resolves \ Publishes
  BY Zenon DEF Resolves, Publishes
<1>7. co' = co \/ Closes(co, co')
  <2>1. CASE RequestPage(t)
    BY <2>1, Zenon DEF RequestPage
  <2>2. CASE SourceFails(t)
    <3>1. co' = DropTicket(Close(co, "PeerFailure"), job[t].gen)
      BY <2>2, Zenon DEF SourceFails
    <3> QED
      BY <1>4, <3>1, TicketCloses, Zenon
  <2> QED
    BY <2>1, <2>2, Zenon
<1>8. Recorded(co') /\ co'.phase \in Phase /\ co'.page = co.page
      /\ (co'.phase = "Active" => co.phase = "Active")
  BY <1>4, <1>7, Zenon DEF Closes
<1> QED
  BY <1>1, <1>2, <1>3, <1>4, <1>5, <1>6, <1>8, QuietStep

\* An access enters the resolver while it is active.
LEMMA TakeFaultKeeps ==
    ASSUME GateLayer, NEW t \in Threads, TakeFault(t)
    PROVE  GateLayer'
<1>1. PICK rg \in Ranges, a \in Accesses :
         job' = [job EXCEPT ![t] = [pages |-> rg, todo |-> rg, access |-> a, gen |-> 0]]
  BY Zenon DEF TakeFault
<1>2. rg \subseteq Pages /\ rg # {} /\ a \in Access
  BY LazyConstants, Zenon DEF Access
<1>3. PICK p \in Pages : TRUE
  BY <1>2, Zenon
<1>4. PICK j : j = [pages |-> rg, todo |-> rg, access |-> a, gen |-> 0]
  BY Zenon
<1>5. Job(j) /\ j.todo # {}
  BY ONLY <1>2, <1>4, Zenon DEF Job
<1>6. /\ pc[t] = "idle" /\ life = "Active" /\ acting' = acting \cup {t} /\ Goto(t, "fault")
      /\ co' = co /\ life' = life /\ removal' = removal /\ ctl' = ctl
      /\ readers' = readers /\ writer' = writer /\ waiting' = waiting /\ handler' = handler
      /\ UNCHANGED <<contents, planeVars>>
  BY Zenon DEF TakeFault, gateVars, planeVars
<1>7. "fault" \in ThreadLabel /\ "fault" \in Resolves
  BY Zenon DEF ThreadLabel, Resolves
<1>8. WorkInv' /\ \A u \in Threads \ {t} : job'[u] = job[u]
  BY <1>1, <1>4, <1>5, <1>6, <1>7, JobMoves, Zenon
<1>9. Recorded(co') /\ co'.phase \in Phase
  BY <1>6, Zenon DEF GateLayer, CoInv
<1>10. PagesMove(t) /\ PlaneInv' /\ AdmissionIsInForce'
  BY <1>3, <1>6, <1>9, QuietPages, Zenon
<1>11. t \notin readers
  <2>1. t \in Callers /\ "idle" # "exited"
    BY LazyConstants, Zenon
  <2> QED
    BY <1>6, <2>1, Zenon DEF GateLayer, GateInv
<1>12. ThreadMoves(t, "fault")
  BY <1>6, <1>7, <1>8, <1>10, <1>11, Zenon DEF ThreadMoves, Publishes
<1> QED
  BY <1>12, ThreadPages, Zenon

\* The contents arrive and the publication begins under the gate, or the resolution goes on
\* without it.
LEMMA BeginPublicationKeeps ==
    ASSUME GateLayer, NEW t \in Threads, BeginPublication(t)
    PROVE  GateLayer'
<1>1. /\ pc[t] = "await" /\ writer = "none" /\ job' = job /\ contents' = contents /\ life' = life
      /\ acting' = acting /\ writer' = writer /\ waiting' = waiting /\ removal' = removal
      /\ ctl' = ctl /\ UNCHANGED planeVars
  BY Zenon DEF BeginPublication, GateIsFree
<1>2. pc[t] \in AtPage /\ pc[t] \in Resolves \ Publishes
  BY <1>1, Zenon DEF AtPage, Resolves, Publishes
<1>3. PICK p \in Pages : p = Page(t)
  BY <1>1, <1>2, Standing, Zenon
<1>4. Recorded(co) /\ co.phase \in Phase /\ Job(job[t])
  BY JobOf, Zenon DEF GateLayer, CoInv
<1>5. PICK mine : mine = {o \in co.ops : o.gen = job[t].gen}
  BY Zenon
<1>6. PICK rest : rest = co.ops \ mine
  BY Zenon
<1>7. PICK more : more = (co.ops \ mine) \cup {[o EXCEPT !.stage = "Publishing"] : o \in mine}
  BY Zenon
<1>8. PICK n : n = co.actions + 1
  BY Zenon
<1>9. PICK pages : pages = [co.page EXCEPT ![p] = "Publishing"]
  BY Zenon
<1>10. \/ co' = co /\ readers' = readers /\ Goto(t, "failing")
       \/ co' = [co EXCEPT !.ops = rest] /\ readers' = readers /\ Goto(t, "fault")
       \/ co' = Close(co, "TransitionFailure") /\ readers' = readers /\ Goto(t, "failing")
       \/ /\ co.page[p] = "Loading" /\ co' = [co EXCEPT !.page = pages, !.actions = n, !.ops = more]
          /\ readers' = readers \cup {t} /\ Goto(t, "install")
  BY <1>3, <1>5, <1>6, <1>7, <1>8, <1>9, Zenon DEF BeginPublication
<1>11. CASE \/ co' = co /\ readers' = readers /\ Goto(t, "failing")
            \/ co' = [co EXCEPT !.ops = rest] /\ readers' = readers /\ Goto(t, "fault")
            \/ co' = Close(co, "TransitionFailure") /\ readers' = readers /\ Goto(t, "failing")
  <2>3. Recorded(co') /\ co'.phase \in Phase /\ co'.page = co.page
        /\ (co'.phase = "Active" => co.phase = "Active")
    <3>1. CASE co' = [co EXCEPT !.ops = rest]
      <4>1. Recorded(co') /\ co'.phase = co.phase /\ co'.page = co.page
        BY ONLY <1>4, <3>1, Zenon DEF Recorded
      <4> QED
        BY <1>4, <4>1, Zenon
    <3>2. CASE co' = Close(co, "TransitionFailure")
      BY <1>4, <3>2, CloseCloses DEF Closes
    <3> QED
      BY <1>4, <1>11, <3>1, <3>2, Zenon
  <2>4. PICK l \in {"failing", "fault"} : Goto(t, l) /\ readers' = readers
    BY <1>11, Zenon
  <2>5. l \in Resolves \ Publishes
    BY Zenon DEF Resolves, Publishes
  <2>6. UNCHANGED <<contents, life, acting, gateVars, planeVars, removal, ctl>>
    BY <1>1, <2>4, Zenon DEF gateVars
  <2> QED
    BY <1>1, <1>2, <1>3, <1>4, <2>3, <2>4, <2>5, <2>6, QuietStep
<1>12. CASE /\ co.page[p] = "Loading"
            /\ co' = [co EXCEPT !.page = pages, !.actions = n, !.ops = more]
            /\ readers' = readers \cup {t} /\ Goto(t, "install")
  <2>1. Recorded(co') /\ co'.phase = co.phase /\ co'.page = pages
    BY ONLY <1>4, <1>12, Zenon DEF Recorded
  <2>2. UNCHANGED <<contents, planeVars>> /\ handler' = handler
    BY <1>1, Zenon DEF planeVars
  <2>3. PagesMove(t) /\ PlaneInv' /\ AdmissionIsInForce'
    BY <1>4, <1>9, <1>12, <2>1, <2>2, QuietPages, Zenon
  <2>4. "install" \in ThreadLabel /\ "install" \in Resolves /\ job[t].todo # {}
        /\ life # "Prepared" /\ t \in acting
    BY <1>1, <1>2, Standing, Zenon DEF ThreadLabel, Resolves
  <2>5. WorkInv' /\ \A u \in Threads \ {t} : job'[u] = job[u]
    BY <1>1, <1>4, <1>12, <2>4, JobMoves, Zenon
  <2>6. Page(t)' = p
    BY <1>1, <1>3, PageIsTodo, Zenon
  <2>7. co'.page[p] = "Publishing"
    BY <1>9, <2>1, Zenon DEF GateLayer, CoInv
  <2>8. ThreadMoves(t, "install")
    BY <1>1, <1>12, <2>2, <2>3, <2>4, <2>5, <2>6, <2>7, Zenon DEF ThreadMoves, Publishes,
       Resolves
  <2> QED
    BY <2>8, ThreadPages, Zenon
<1> QED
  BY <1>10, <1>11, <1>12, Zenon

\* Every access needs host permissions that are not empty.
LEMMA Permissions ==
    \A a \in Access : HostNeed(a) \in SUBSET {"R", "W"} /\ HostNeed(a) # {}
                      /\ Need(a) \in SUBSET {"R", "W", "X"}
BY Zenon DEF Access, HostNeed, Need

\* The bytes and the host permission of a page that is being published.
LEMMA InstallKeeps ==
    ASSUME GateLayer, NEW t \in Threads, Install(t)
    PROVE  GateLayer'
<1>1. /\ pc[t] = "install" /\ job' = job /\ life' = life /\ acting' = acting /\ writer' = writer
      /\ waiting' = waiting /\ removal' = removal /\ ctl' = ctl /\ guest' = guest
      /\ handler' = handler /\ admitted' = admitted
      /\ contents' = [contents EXCEPT ![Page(t)] = reply[t]]
  BY Zenon DEF Install
<1>2. /\ life # "Prepared" /\ t \in acting /\ t \in readers /\ job[t].todo # {} /\ Page(t) \in Pages
      /\ co.page[Page(t)] = "Publishing"
  BY <1>1, Standing, Zenon DEF AtPage, Publishes, Resolves
<1>3. PICK p \in Pages : p = Page(t)
  BY <1>2, Zenon
<1>4. Recorded(co) /\ co.phase \in Phase /\ Job(job[t]) /\ co.page \in [Pages -> PageState]
  BY JobOf, Zenon DEF GateLayer, CoInv
<1>5. PICK l, x :
         /\ x \in SUBSET {"R", "W"} /\ host' = [host EXCEPT ![p] = x] /\ Goto(t, l)
         /\ \/ l = "commit" /\ co' = co /\ readers' = readers
            \/ l = "failing" /\ co' = DropGuard(co, job[t].gen) /\ readers' = readers \ {t}
  BY <1>3, <1>4, Permissions, Zenon DEF Install, Job
<1>6. Closes(co, co')
  <2>1. Closes(co, co)
    BY <1>4, Zenon DEF Closes
  <2>2. Closes(co, DropGuard(co, job[t].gen))
    BY <1>4, DropCloses, Zenon
  <2> QED
    BY <1>5, <2>1, <2>2, Zenon
<1>7. Recorded(co') /\ co'.phase \in Phase /\ co'.page = co.page
      /\ (co'.phase = "Active" => co.phase = "Active")
  BY <1>4, <1>6, Zenon DEF Closes
<1>8. PlaneInv' /\ AdmissionIsInForce'
  BY <1>1, <1>3, <1>5, Zenon DEF GateLayer, PagesInv, PlaneInv, AdmissionIsInForce
<1>9. \A q \in Pages : q = p \/ (host'[q] = host[q] /\ contents'[q] = contents[q])
  BY <1>1, <1>3, <1>5, Zenon DEF GateLayer, PlaneInv
<1>10. PagesMove(t)
  BY <1>1, <1>2, <1>3, <1>4, <1>7, <1>9, Zenon DEF PagesMove, PageState
<1>11. l \in ThreadLabel /\ l # "exited" /\ l \in Resolves
  BY <1>5, Zenon DEF ThreadLabel, Resolves
<1>12. WorkInv' /\ \A u \in Threads \ {t} : job'[u] = job[u]
  BY <1>1, <1>2, <1>4, <1>5, <1>11, JobMoves, Zenon
<1>13. Page(t)' = Page(t)
  BY <1>1, PageIsTodo, Zenon
<1>14. ThreadMoves(t, l)
  BY <1>1, <1>2, <1>5, <1>7, <1>8, <1>10, <1>11, <1>12, <1>13 DEF ThreadMoves, Publishes, Resolves
<1> QED
  BY <1>14, ThreadPages, Zenon

\* The job after a page is resolved.
LEMMA NextPageJob ==
    ASSUME GateLayer, NEW t \in Threads, pc[t] \in AtPage, NextPage(t)
    PROVE  \E j, l : /\ Job(j) /\ job' = [job EXCEPT ![t] = j] /\ l \in {"lease", "fault"}
                     /\ Goto(t, l) /\ (l \in AtPage => j.todo # {})
<1>1. Job(job[t]) /\ Page(t) \in job[t].todo
  BY Standing, JobOf, Zenon DEF AtPage, Resolves
<1>2. PICK k : k = job[t]
  BY Zenon
<1>3. PICK rest : rest = k.todo \ {Page(t)}
  BY Zenon
<1>4. PICK j : j = [k EXCEPT !.todo = rest]
  BY Zenon
<1>5. j = [pages |-> k.pages, todo |-> rest, access |-> k.access, gen |-> k.gen]
  BY ONLY <1>1, <1>2, <1>4, Zenon DEF Job
<1>6. Job(j) /\ j.todo = rest
  BY ONLY <1>1, <1>2, <1>3, <1>5, Zenon DEF Job
<1>7. job' = [job EXCEPT ![t] = j]
  BY <1>2, <1>3, <1>4, Zenon DEF NextPage
<1>8. CASE job[t].todo = {Page(t)}
  <2>1. Goto(t, "lease")
    BY <1>8, Zenon DEF NextPage
  <2>2. "lease" \notin AtPage
    BY Zenon DEF AtPage
  <2> QED
    BY <1>6, <1>7, <2>1, <2>2, Zenon
<1>9. CASE job[t].todo # {Page(t)}
  <2>1. Goto(t, "fault")
    BY <1>9, Zenon DEF NextPage
  <2>2. j.todo # {}
    BY <1>1, <1>2, <1>3, <1>6, <1>9, Zenon
  <2> QED
    BY <1>6, <1>7, <2>1, <2>2, Zenon
<1> QED
  BY <1>8, <1>9, Zenon

\* A publication commits, or finds the coordinator closed and is undone.
LEMMA CommitKeeps ==
    ASSUME GateLayer, NEW t \in Threads, CommitPublication(t)
    PROVE  GateLayer'
<1>1. /\ pc[t] = "commit" /\ life' = life /\ acting' = acting /\ writer' = writer
      /\ waiting' = waiting /\ removal' = removal /\ ctl' = ctl /\ guest' = guest
      /\ handler' = handler /\ admitted' = admitted /\ contents' = contents
      /\ readers' = readers \ {t}
  BY Zenon DEF CommitPublication
<1>2. /\ life # "Prepared" /\ t \in acting /\ t \in readers /\ job[t].todo # {} /\ Page(t) \in Pages
      /\ co.page[Page(t)] = "Publishing" /\ pc[t] \in AtPage
  BY <1>1, Standing, Zenon DEF AtPage, Publishes, Resolves
<1>3. PICK p \in Pages : p = Page(t)
  BY <1>2, Zenon
<1>4. Recorded(co) /\ co.phase \in Phase /\ Job(job[t]) /\ co.page \in [Pages -> PageState]
  BY JobOf, Zenon DEF GateLayer, CoInv
<1>5. {"failing", "lease", "fault"} \subseteq (Resolves \ Publishes) \cap (ThreadLabel \ {"exited"})
  BY Zenon DEF Resolves, Publishes, ThreadLabel
<1>6. CASE /\ co.phase # "Active" /\ co' = FinishAction(co, job[t].gen)
           /\ host' = [host EXCEPT ![Page(t)] = {}] /\ Goto(t, "failing") /\ job' = job
  <2>1. Closes(co, co')
    BY <1>4, <1>6, FinishCloses, Zenon
  <2>2. Recorded(co') /\ co'.phase \in Phase /\ co'.page = co.page
        /\ (co'.phase = "Active" => co.phase = "Active")
    BY <1>4, <2>1, Zenon DEF Closes
  <2>3. PlaneInv' /\ AdmissionIsInForce'
    BY <1>1, <1>3, <1>6, Zenon DEF GateLayer, PagesInv, PlaneInv, AdmissionIsInForce
  <2>4. \A q \in Pages : q = p \/ host'[q] = host[q]
    BY <1>3, <1>6, Zenon DEF GateLayer, PlaneInv
  <2>5. PagesMove(t)
    BY <1>1, <1>2, <1>3, <1>4, <2>2, <2>4, Zenon DEF PagesMove, PageState
  <2>6. WorkInv' /\ \A u \in Threads \ {t} : job'[u] = job[u]
    BY <1>1, <1>2, <1>4, <1>5, <1>6, JobMoves
  <2>7. ThreadMoves(t, "failing")
    BY <1>1, <1>2, <1>5, <1>6, <2>2, <2>3, <2>5, <2>6 DEF ThreadMoves, Publishes, Resolves
  <2> QED
    BY <2>7, ThreadPages, Zenon
<1>7. CASE co.phase = "Active" /\ NextPage(t) /\ host' = host
  <2>1. PICK pages : pages = [co.page EXCEPT ![p] = "Present"]
    BY Zenon
  <2>2. PICK mine : mine = {o \in co.ops : o.gen = job[t].gen}
    BY Zenon
  <2>3. PICK ops : ops = co.ops \ mine
    BY Zenon
  <2>31. PICK done : done = co.done \cup UNION {Completed(p, o.gen, "Present", o.waiters) : o \in mine}
    BY Zenon
  <2>32. PICK n : n = co.actions - 1
    BY Zenon
  <2>33. co' = [co EXCEPT !.page = pages, !.ops = ops, !.actions = n, !.done = done]
    BY <1>3, <1>7, <2>1, <2>2, <2>3, <2>31, <2>32 DEF CommitPublication
  <2>34. Recorded(co') /\ co'.phase = co.phase /\ co'.page = pages
    BY ONLY <1>4, <2>33, Zenon DEF Recorded
  <2>4. PlaneInv' /\ AdmissionIsInForce'
    BY <1>1, <1>7, Zenon DEF GateLayer, PagesInv, PlaneInv, AdmissionIsInForce
  <2>5. \A q \in Pages : q = p \/ co'.page[q] = co.page[q]
    BY <1>4, <2>1, <2>34, Zenon
  <2>6. co'.page \in [Pages -> PageState] /\ co'.page[p] = "Present"
    BY <1>4, <2>1, <2>34, Zenon DEF PageState
  <2>7. PagesMove(t)
    BY <1>1, <1>2, <1>3, <1>4, <1>7, <2>34, <2>5, <2>6, Zenon DEF PagesMove, PageState
  <2>8. PICK j, l : /\ Job(j) /\ job' = [job EXCEPT ![t] = j] /\ l \in {"lease", "fault"}
                    /\ Goto(t, l) /\ (l \in AtPage => j.todo # {})
    BY <1>2, <1>7, NextPageJob, Zenon
  <2>9. WorkInv' /\ \A u \in Threads \ {t} : job'[u] = job[u]
    BY <1>1, <1>5, <2>8, JobMoves, Zenon
  <2>10. ThreadMoves(t, l)
    BY <1>1, <1>2, <1>5, <2>4, <2>7, <2>8, <2>9, Zenon DEF ThreadMoves, Publishes, Resolves
  <2> QED
    BY <2>10, ThreadPages, Zenon
<1> QED
  BY <1>6, <1>7, Zenon DEF CommitPublication

\* A page found present is opened to the host under the gate.
LEMMA OpenKeeps ==
    ASSUME GateLayer, NEW t \in Threads, OpenPresent(t)
    PROVE  GateLayer'
<1>1. /\ pc[t] = "present" /\ life' = life /\ acting' = acting /\ readers' = readers
      /\ writer' = writer /\ waiting' = waiting /\ removal' = removal /\ ctl' = ctl
      /\ guest' = guest /\ handler' = handler /\ admitted' = admitted /\ contents' = contents
      /\ co' = co
  BY Zenon DEF OpenPresent, gateVars
<1>2. /\ life # "Prepared" /\ t \in acting /\ t \notin readers /\ job[t].todo # {}
      /\ Page(t) \in Pages /\ pc[t] \in AtPage
  BY <1>1, Standing, Zenon DEF AtPage, Publishes, Resolves
<1>3. PICK p \in Pages : p = Page(t)
  BY <1>2, Zenon
<1>4. Recorded(co) /\ co.phase \in Phase /\ Job(job[t]) /\ co.page \in [Pages -> PageState]
  BY JobOf, Zenon DEF GateLayer, CoInv
<1>5. {"failing", "lease", "fault"} \subseteq (Resolves \ Publishes) \cap (ThreadLabel \ {"exited"})
  BY Zenon DEF Resolves, Publishes, ThreadLabel
<1>6. PICK j, l : /\ Job(j) /\ l \in {"failing", "lease", "fault"} /\ Goto(t, l)
                  /\ job' = [job EXCEPT ![t] = j] \/ (job' = job /\ j = job[t])
                  /\ l \in AtPage => j.todo # {}
  <2>1. CASE NextPage(t)
    BY <1>2, <2>1, NextPageJob, Zenon
  <2>2. CASE job' = job /\ \E l \in {"failing", "fault"} : Goto(t, l)
    BY <1>2, <1>4, <2>2, Zenon
  <2> QED
    BY <2>1, <2>2, Zenon DEF OpenPresent
<1>7. \/ host' = host
      \/ co.page[p] = "Present" /\ host' = [host EXCEPT ![p] = HostNeed(job[t].access)]
  BY <1>3, Zenon DEF OpenPresent, IsPresent
<1>8. HostNeed(job[t].access) \in SUBSET {"R", "W"} /\ HostNeed(job[t].access) # {}
  BY <1>4, Permissions, Zenon DEF Job
<1>9. PlaneInv' /\ AdmissionIsInForce'
  BY <1>1, <1>7, <1>8 DEF GateLayer, PagesInv, PlaneInv, AdmissionIsInForce
<1>10. \A q \in Pages : host'[q] = host[q] \/ (co.page[q] = "Present" /\ host'[q] # {})
  BY <1>7, <1>8, Zenon DEF GateLayer, PlaneInv
<1>11. PagesMove(t)
  BY <1>1, <1>4, <1>10, Zenon DEF PagesMove, PageState
<1>12. WorkInv' /\ \A u \in Threads \ {t} : job'[u] = job[u]
  BY <1>1, <1>5, <1>6, JobMoves, Zenon
<1>13. ThreadMoves(t, l)
  BY <1>1, <1>2, <1>5, <1>6, <1>9, <1>11, <1>12, Zenon DEF ThreadMoves, Publishes, Resolves
<1> QED
  BY <1>13, ThreadPages, Zenon

\* The last check under the gate turns into the lease.
LEMMA LeaseKeeps ==
    ASSUME GateLayer, NEW t \in Threads, TakeLease(t)
    PROVE  GateLayer'
<1>1. /\ pc[t] = "lease" /\ life' = life /\ writer = "none"
      /\ writer' = writer /\ waiting' = waiting /\ removal' = removal /\ ctl' = ctl
      /\ guest' = guest /\ handler' = handler /\ admitted' = admitted /\ contents' = contents
      /\ co' = co
  BY Zenon DEF TakeLease, GateIsFree
<1>2. life # "Prepared" /\ t \in acting /\ t \notin readers
  BY <1>1, Standing, Zenon DEF AtPage, Publishes, Resolves
<1>3. Recorded(co) /\ co.phase \in Phase /\ Job(job[t]) /\ co.page \in [Pages -> PageState]
  BY JobOf, Zenon DEF GateLayer, CoInv
<1>4. PICK pages : pages = job[t].pages
  BY Zenon
<1>5. PICK checked : checked = {p \in pages : \A q \in pages : q <= p => IsPresent(q)}
  BY Zenon
<1>6. PICK opened : opened = [p \in Pages |-> IF p \in checked THEN HostNeed(job[t].access)
                                              ELSE host[p]]
  BY Zenon
<1>7. \A p \in checked : p \in pages /\ p \in Pages /\ co.page[p] = "Present"
  <2>1. pages \subseteq Pages /\ Pages \subseteq Nat
    BY <1>3, <1>4, LazyConstants, Zenon DEF Job
  <2>2. \A p \in Pages : p <= p
    BY <2>1
  <2> QED
    BY <1>5, <2>1, <2>2, Zenon DEF IsPresent
<1>8. \/ /\ checked = pages /\ host' = opened /\ readers' = readers \cup {t}
         /\ acting' = acting \ {t} /\ Goto(t, "leased") /\ job' = job
      \/ /\ checked # pages /\ host' = opened /\ job' = [job EXCEPT ![t].todo = pages]
         /\ Goto(t, "fault") /\ readers' = readers /\ acting' = acting
      \/ /\ \E q \in checked : host' = [p \in Pages |-> IF p < q THEN opened[p] ELSE host[p]]
         /\ Goto(t, "failing") /\ job' = job /\ readers' = readers /\ acting' = acting
  BY <1>4, <1>5, <1>6 DEF TakeLease
<1>9. HostNeed(job[t].access) \in SUBSET {"R", "W"} /\ HostNeed(job[t].access) # {}
  BY <1>3, Permissions, Zenon DEF Job
<1>10. opened \in [Pages -> SUBSET {"R", "W"}]
  BY <1>6, <1>9, Zenon DEF GateLayer, PlaneInv
<1>11. /\ host' \in [Pages -> SUBSET {"R", "W"}]
       /\ \A q \in Pages : host'[q] = host[q] \/ host'[q] = opened[q]
  BY <1>8, <1>10, Zenon DEF GateLayer, PlaneInv
<1>12. PlaneInv' /\ AdmissionIsInForce'
  BY <1>1, <1>11, Zenon DEF GateLayer, PagesInv, PlaneInv, AdmissionIsInForce
<1>13. \A q \in Pages : host'[q] = host[q] \/ (co.page[q] = "Present" /\ host'[q] # {})
  BY <1>6, <1>7, <1>9, <1>11, Zenon
<1>14. PagesMove(t)
  BY <1>1, <1>3, <1>13, Zenon DEF PagesMove, PageState
<1>15. PICK j, l : /\ Job(j) /\ l \in {"leased", "fault", "failing"} /\ Goto(t, l)
                   /\ job' = [job EXCEPT ![t] = j] \/ (job' = job /\ j = job[t])
                   /\ l \in AtPage => j.todo # {}
                   /\ j.pages = pages
                   /\ l = "leased" => /\ checked = pages /\ host' = opened /\ acting' = acting \ {t}
                                      /\ readers' = readers \cup {t}
                   /\ l # "leased" => acting' = acting /\ readers' = readers
  <2>0. {"leased", "failing"} \cap AtPage = {}
    BY Zenon DEF AtPage, Resolves
  <2>1. CASE /\ checked # pages /\ host' = opened /\ job' = [job EXCEPT ![t].todo = pages]
             /\ Goto(t, "fault") /\ readers' = readers /\ acting' = acting
    <3>1. PICK k : k = job[t]
      BY Zenon
    <3>2. PICK j : j = [k EXCEPT !.todo = pages]
      BY Zenon
    <3>3. j = [pages |-> k.pages, todo |-> pages, access |-> k.access, gen |-> k.gen]
      BY ONLY <1>3, <3>1, <3>2, Zenon DEF Job
    <3>4. Job(j) /\ j.todo = pages /\ j.pages = pages
      BY ONLY <1>3, <1>4, <3>1, <3>3, Zenon DEF Job
    <3>5. job' = [job EXCEPT ![t] = j]
      BY <2>1, <3>1, <3>2, Zenon
    <3>6. pages # {}
      BY <1>7, <2>1, Zenon
    <3> QED
      BY <2>1, <3>4, <3>5, <3>6, Zenon
  <2>2. CASE /\ checked = pages /\ host' = opened /\ readers' = readers \cup {t}
             /\ acting' = acting \ {t} /\ Goto(t, "leased") /\ job' = job
    BY <1>3, <1>4, <2>0, <2>2, Zenon
  <2>3. CASE /\ Goto(t, "failing") /\ job' = job /\ readers' = readers /\ acting' = acting
    BY <1>3, <1>4, <2>0, <2>3, Zenon
  <2> QED
    BY <1>8, <2>1, <2>2, <2>3, Zenon
<1>16. WorkInv' /\ job'[t] = j /\ (\A u \in Threads \ {t} : job'[u] = job[u])
  BY <1>1, <1>15, JobMoves, Zenon DEF ThreadLabel, Resolves
<1>17. l = "leased" => \A p \in job'[t].pages : co'.page[p] = "Present" /\ host'[p] # {}
  BY <1>1, <1>6, <1>7, <1>9, <1>15, <1>16
<1>18. ThreadMoves(t, l)
  BY <1>1, <1>2, <1>12, <1>14, <1>15, <1>16, <1>17 DEF ThreadMoves, Publishes, Resolves, ThreadLabel
<1> QED
  BY <1>18, ThreadPages, Zenon

\* The job of a thread that is outside the resolver.
LEMMA NoJobIsJob == Job(NoJob) /\ NoJob.pages = {} /\ NoJob.todo = {}
BY Zenon DEF NoJob, Job, Access

\* A host thread gives its lease back.
LEMMA ReturnKeeps ==
    ASSUME GateLayer, NEW t \in Threads, HostReturns(t)
    PROVE  GateLayer'
<1>1. /\ pc[t] = "leased" /\ life' = life /\ acting' = acting /\ readers' = readers \ {t}
      /\ writer' = writer /\ waiting' = waiting /\ removal' = removal /\ ctl' = ctl
      /\ guest' = guest /\ host' = host /\ handler' = handler /\ admitted' = admitted
      /\ contents' = contents /\ co' = co /\ Goto(t, "idle") /\ job' = [job EXCEPT ![t] = NoJob]
  BY Zenon DEF HostReturns, planeVars
<1>2. life # "Prepared" /\ t \notin acting /\ t \in readers
  BY <1>1, Standing, Zenon DEF Publishes, Resolves
<1>3. Recorded(co) /\ co.phase \in Phase /\ co.page \in [Pages -> PageState]
  BY Zenon DEF GateLayer, CoInv
<1>4. PlaneInv' /\ AdmissionIsInForce'
  BY <1>1, Zenon DEF GateLayer, PagesInv, PlaneInv, AdmissionIsInForce
<1>5. PagesMove(t)
  BY <1>1, <1>3, Zenon DEF PagesMove, PageState
<1>6. "idle" \in ThreadLabel /\ "idle" \notin AtPage
  BY Zenon DEF ThreadLabel, AtPage, Resolves
<1>7. WorkInv' /\ \A u \in Threads \ {t} : job'[u] = job[u]
  <2>1. PICK j : j = NoJob
    BY Zenon
  <2> QED
    BY <1>1, <1>6, <2>1, JobMoves, NoJobIsJob, Zenon
<1>8. ThreadMoves(t, "idle")
  BY <1>1, <1>2, <1>4, <1>5, <1>6, <1>7 DEF ThreadMoves, Publishes, Resolves
<1> QED
  BY <1>8, ThreadPages, Zenon

\* A vCPU is admitted to the pages its lease holds.
LEMMA AdmitKeeps ==
    ASSUME GateLayer, NEW t \in Threads, Admit(t)
    PROVE  GateLayer'
<1>1. /\ t \in Vcpus /\ pc[t] = "leased" /\ life' = life /\ acting' = acting
      /\ writer' = writer /\ waiting' = waiting /\ removal' = removal /\ ctl' = ctl
      /\ host' = host /\ contents' = contents /\ co' = co /\ job' = [job EXCEPT ![t] = NoJob]
  BY Zenon DEF Admit
<1>2. life # "Prepared" /\ t \notin acting /\ t \in readers
  BY <1>1, Standing, Zenon DEF Publishes, Resolves
<1>3. Recorded(co) /\ co.phase \in Phase /\ co.page \in [Pages -> PageState] /\ Job(job[t])
  BY JobOf, Zenon DEF GateLayer, CoInv
<1>4. PICK a : a = [pages |-> job[t].pages, access |-> job[t].access]
  BY Zenon
<1>5. /\ a.pages = job[t].pages /\ a.pages \subseteq Pages /\ a.access \in Access
      /\ a \in [pages : SUBSET Pages, access : Access]
  BY ONLY <1>3, <1>4, Zenon DEF Job
<1>6. \A p \in a.pages : co.page[p] = "Present"
  BY <1>1, <1>5, Zenon DEF GateLayer, PagesInv, LeaseKeepsPages
<1>7. PICK opened : opened = [p \in Pages |-> IF p \in a.pages
                                               THEN guest[p] \cup Need(a.access) ELSE guest[p]]
  BY Zenon
<1>8. PICK l : /\ Goto(t, l) /\ l \in {"idle", "stopped", "poison"}
               /\ l = "poison" =>
                     /\ \E q \in Pages : guest' = [p \in Pages |-> IF p < q THEN opened[p]
                                                                  ELSE guest[p]]
                     /\ readers' = readers /\ admitted' = admitted /\ handler' = "Poisoned"
               /\ l = "stopped" => readers' = readers \ {t} /\ guest' = guest
                                   /\ admitted' = admitted /\ handler' = handler
               /\ l = "idle" =>
                     /\ readers' = readers \ {t} /\ handler' = handler /\ guest' = opened
                     /\ admitted' = [admitted EXCEPT ![t] = {a}]
  <2>1. \/ /\ readers' = readers \ {t} /\ Goto(t, "idle") /\ handler' = handler
           /\ guest' = opened /\ admitted' = [admitted EXCEPT ![t] = {a}]
        \/ /\ readers' = readers \ {t} /\ Goto(t, "stopped")
           /\ guest' = guest /\ admitted' = admitted /\ handler' = handler
        \/ /\ \E q \in Pages : guest' = [p \in Pages |-> IF p < q THEN opened[p] ELSE guest[p]]
           /\ handler' = "Poisoned" /\ Goto(t, "poison")
           /\ admitted' = admitted /\ readers' = readers
    BY <1>4, <1>7 DEF Admit
  <2>2. "idle" # "stopped" /\ "idle" # "poison" /\ "stopped" # "poison"
    OBVIOUS
  <2> QED
    BY <2>1, <2>2, Zenon
<1>9. PICK need : need = Need(a.access)
  BY Zenon
<1>10. need \in SUBSET {"R", "W", "X"}
  BY <1>5, <1>9, Permissions, Zenon
<1>11. opened \in [Pages -> SUBSET {"R", "W", "X"}]
  BY <1>5, <1>7, <1>9, <1>10, Zenon DEF GateLayer, PlaneInv
<1>12. /\ guest' \in [Pages -> SUBSET {"R", "W", "X"}]
       /\ \A p \in Pages : guest'[p] = guest[p] \/ guest'[p] = opened[p]
  BY <1>8, <1>11, Zenon DEF GateLayer, PlaneInv
<1>13. \A p \in Pages : guest[p] \subseteq guest'[p]
  BY <1>7, <1>12, Zenon
<1>14. PlaneInv'
  BY <1>1, <1>5, <1>8, <1>12 DEF GateLayer, PlaneInv
<1>15. AdmissionIsInForce'
  <2>1. ASSUME NEW v \in Vcpus, NEW b \in admitted'[v], NEW p \in b.pages
        PROVE  Need(b.access) \subseteq guest'[p]
    <3>1. CASE b \in admitted[v]
      <4>1. p \in Pages
        BY <3>1 DEF GateLayer, PlaneInv
      <4>2. Need(b.access) \subseteq guest[p]
        BY <3>1, Zenon DEF GateLayer, PagesInv, AdmissionIsInForce
      <4> QED
        BY <1>13, <4>1, <4>2, Zenon
    <3>2. CASE b \notin admitted[v]
      <4>1. l = "idle" /\ b = a
        BY <1>1, <1>8, <3>2 DEF GateLayer, PlaneInv
      <4>2. p \in Pages /\ p \in a.pages
        BY <1>5, <4>1, Zenon
      <4>3. guest'[p] = guest[p] \cup Need(a.access)
        BY <1>8, <1>7, <4>1, <4>2, Zenon
      <4> QED
        BY <4>1, <4>3, Zenon
    <3> QED
      BY <3>1, <3>2, Zenon
  <2> QED
    BY <2>1, Zenon DEF AdmissionIsInForce
<1>16. \A p \in Pages : co.page[p] # "Present" => guest'[p] = guest[p]
  BY <1>6, <1>7, <1>12, Zenon
<1>17. PagesMove(t)
  BY <1>1, <1>3, <1>13, <1>16, Zenon DEF PagesMove, PageState
<1>18. l \in ThreadLabel /\ l \notin AtPage /\ l # "exited"
  BY <1>8, Zenon DEF ThreadLabel, AtPage, Resolves
<1>19. WorkInv' /\ \A u \in Threads \ {t} : job'[u] = job[u]
  <2>1. PICK j : j = NoJob
    BY Zenon
  <2> QED
    BY <1>1, <1>8, <1>18, <2>1, JobMoves, NoJobIsJob, Zenon
<1>20. ThreadMoves(t, l)
  BY <1>1, <1>2, <1>8, <1>14, <1>15, <1>17, <1>18, <1>19, Zenon DEF ThreadMoves, Publishes,
     Resolves
<1> QED
  BY <1>20, ThreadPages, Zenon

\* A failed resolution closes the coordinator and poisons the handler of its vCPU.
LEMMA PoisonKeeps ==
    ASSUME GateLayer, NEW t \in Threads, Poison(t) \/ (FailClosed(t) /\ t \in Vcpus)
    PROVE  GateLayer'
<1>1. /\ life' = life /\ writer' = writer /\ waiting' = waiting /\ removal' = removal /\ ctl' = ctl
      /\ host' = host /\ contents' = contents /\ guest' = guest /\ admitted' = admitted
      /\ co' = Close(co, "TransitionFailure")
      /\ handler' \in {handler, "Poisoned"}
  BY Zenon DEF Poison, FailClosed, gateVars, planeVars
<1>2. PICK l : /\ Goto(t, l)
               /\ \/ /\ pc[t] = "poison" /\ l = "stopped" /\ readers' = readers \ {t}
                     /\ acting' = acting /\ job' = job
                  \/ /\ pc[t] = "failing" /\ l = "poison" /\ readers' = readers
                     /\ acting' = acting \ {t} /\ job' = [job EXCEPT ![t] = NoJob]
  BY Zenon DEF Poison, FailClosed, gateVars
<1>3. life # "Prepared" /\ (pc[t] = "poison" => t \notin acting)
      /\ (pc[t] = "failing" => t \notin readers)
  BY <1>2, Standing, Zenon DEF Publishes, Resolves
<1>4. Recorded(co) /\ co.phase \in Phase /\ co.page \in [Pages -> PageState] /\ Job(job[t])
  BY JobOf, Zenon DEF GateLayer, CoInv
<1>5. Recorded(co') /\ co'.phase \in Phase /\ co'.phase # "Active" /\ co'.page = co.page
  BY <1>1, <1>4, CloseCloses DEF Closes
<1>6. PlaneInv' /\ AdmissionIsInForce'
  BY <1>1, Zenon DEF GateLayer, PagesInv, PlaneInv, AdmissionIsInForce
<1>7. PagesMove(t)
  BY <1>1, <1>4, <1>5, Zenon DEF PagesMove, PageState
<1>8. l \in ThreadLabel /\ l \notin AtPage /\ l # "exited"
  BY <1>2, Zenon DEF ThreadLabel, AtPage, Resolves
<1>9. WorkInv' /\ \A u \in Threads \ {t} : job'[u] = job[u]
  <2>1. PICK j : (job' = [job EXCEPT ![t] = NoJob] /\ j = NoJob) \/ (job' = job /\ j = job[t])
    BY <1>2, Zenon
  <2> QED
    BY <1>1, <1>2, <1>4, <1>8, <2>1, JobMoves, NoJobIsJob, Zenon
<1>10. ThreadMoves(t, l)
  BY <1>1, <1>2, <1>3, <1>6, <1>7, <1>8, <1>9, Zenon DEF ThreadMoves, Publishes, Resolves
<1> QED
  BY <1>10, ThreadPages, Zenon

\* The process ends with every thread in it.
LEMMA ExitKeeps ==
    ASSUME GateLayer, NEW why, co' = Close(co, why), ExitProcess, acting' \subseteq acting,
           NEW t, job' = [job EXCEPT ![t] = NoJob] \/ job' = job,
           UNCHANGED <<contents, life, gateVars, planeVars, removal>>
    PROVE  GateLayer'
<1>1. /\ pc' = [c \in Callers |-> "exited"] /\ ctl' = "exited" /\ Exited'
      /\ contents' = contents /\ life' = life /\ removal' = removal
      /\ readers' = readers /\ writer' = writer /\ waiting' = waiting
      /\ host' = host /\ guest' = guest /\ handler' = handler /\ admitted' = admitted
  BY Zenon DEF ExitProcess, gateVars, planeVars, Exited
<1>2. Recorded(co') /\ co'.phase \in Phase /\ co'.phase # "Active" /\ co'.page = co.page
  BY CloseCloses DEF GateLayer, CoInv, Closes
<1>3. \A c \in Callers : pc'[c] = "exited"
  BY <1>1, Zenon
<1>4. Threads \subseteq Callers /\ Remover \in Callers
  BY LazyConstants, Zenon
<1>5. CoInv' /\ PlaneInv' /\ AdmissionIsInForce'
  BY <1>1, <1>2, Zenon DEF GateLayer, CoInv, PlaneInv, PagesInv, AdmissionIsInForce
<1>6. PlaceInv' /\ GateInv'
  BY <1>1, <1>3, <1>4, Zenon DEF GateLayer, PlaceInv, GateInv, ThreadLabel, RemoverLabel,
     ControlLabel
<1>7. WorkInv'
  <2>1. \A u \in Threads : job'[u] = job[u] \/ job'[u] = NoJob
    BY Zenon DEF GateLayer, WorkInv
  <2>2. \A u \in Threads : Job(job'[u])
    BY <2>1, JobOf, NoJobIsJob, Zenon
  <2>3. job' = [u \in Threads |-> job'[u]]
    BY Zenon DEF GateLayer, WorkInv
  <2>4. removal' = [pages |-> removal'.pages, gen |-> removal'.gen] /\ removal'.pages \subseteq Pages
    BY <1>1, Zenon DEF GateLayer, WorkInv
  <2>5. "exited" \notin AtPage
    BY Zenon DEF AtPage, Resolves
  <2> QED
    BY <1>3, <1>4, <2>2, <2>3, <2>4, <2>5, Zenon DEF WorkInv, Job
<1>8. LifeInv'
  BY <1>1, <1>2, <1>3, Zenon DEF GateLayer, LifeInv, Restored
<1>9. PublishInv' /\ RemoveInv'
  BY <1>3, <1>4, Zenon DEF PublishInv, RemoveInv
<1>10. PlanesFollowPages' /\ LeaseKeepsPages'
  BY <1>1, <1>3, <1>4, Zenon DEF PlanesFollowPages, LeaseKeepsPages
<1> QED
  BY <1>5, <1>6, <1>7, <1>8, <1>9, <1>10, Zenon DEF GateLayer, PagesInv

-----------------------------------------------------------------------------
(* Steps of the remover.                                                     *)

\* What a step that takes the remover to the label l does to the gate.
RemoverMoves(l) ==
    /\ l \in RemoverLabel /\ l # "exited" /\ Goto(Remover, l) /\ pc[Remover] # "exited"
    /\ job' = job /\ ctl' = ctl /\ life' = life /\ readers' = readers
    /\ waiting' \subseteq {Remover, "teardown"}
    /\ acting' = IF l = "idle" THEN acting \ {Remover} ELSE acting \cup {Remover}
    /\ writer' = IF l \in Holds THEN Remover ELSE "none"
    /\ (l \in Holds /\ pc[Remover] \notin Holds) => readers = {}
    /\ life = "Active" \/ pc[Remover] # "idle"
    /\ removal' = [pages |-> removal'.pages, gen |-> removal'.gen] /\ removal'.pages \subseteq Pages

\* A step of the remover keeps the gate, the life of the resolver and every thread's job.
LEMMA RemoverGate ==
    ASSUME GateLayer, NEW l, RemoverMoves(l)
    PROVE  /\ PlaceInv' /\ GateInv' /\ LifeInv' /\ WorkInv' /\ ~Exited /\ ~Exited'
           /\ life # "Prepared" /\ pc'[Remover] = l
           /\ \A t \in Threads : pc'[t] = pc[t] /\ Page(t)' = Page(t)
           /\ (pc[Remover] \in Holds \/ l \in Holds) => \A t \in Threads : pc[t] \notin Publishes \cup {"leased"}
<1> USE DEF GateLayer
<1>0. /\ Remover \in Callers /\ Threads \subseteq Callers /\ Remover \notin Threads
      /\ Callers = Threads \cup {Remover} /\ Remover # "none"
  BY LazyConstants, Zenon
<1>1. pc'[Remover] = l /\ \A t \in Threads : pc'[t] = pc[t]
  BY <1>0, Zenon DEF PlaceInv, RemoverMoves, Goto
<1>2. \A t \in Threads : Page(t)' = Page(t)
  BY PageIsTodo, Zenon DEF RemoverMoves
<1>3. PlaceInv'
  BY <1>0, <1>1, Zenon DEF PlaceInv, RemoverMoves, Goto
<1>4. ~Exited /\ ~Exited' /\ life # "Prepared"
  BY <1>0, Zenon DEF GateInv, LifeInv, RemoverMoves, Exited
<1>5. WorkInv'
  <2>1. \A t \in Threads : job'[t] = job[t]
    BY Zenon DEF RemoverMoves
  <2>2. job' = [t \in Threads |-> job'[t]]
    BY Zenon DEF RemoverMoves, WorkInv
  <2>3. removal' = [pages |-> removal'.pages, gen |-> removal'.gen] /\ removal'.pages \subseteq Pages
    BY Zenon DEF RemoverMoves
  <2>4. \A t \in Threads : Job(job[t]) /\ (pc[t] \in AtPage => job[t].todo # {})
    BY Zenon DEF WorkInv, Job
  <2> QED
    BY ONLY <1>1, <2>1, <2>2, <2>3, <2>4, Zenon DEF WorkInv, Job
<1>6. GateInv'
  <2>1. writer' \in {Remover, "none"} /\ waiting' \subseteq {Remover, "teardown"}
        /\ acting' \subseteq Callers /\ readers' \subseteq Threads
    BY <1>0, Zenon DEF GateInv, RemoverMoves
  <2>2. \A t \in Threads : pc'[t] \in {"install", "commit", "leased"} => t \in readers'
    BY <1>1, Zenon DEF GateInv, RemoverMoves
  <2>3. \A t \in Threads : t \in readers' => pc'[t] \in {"install", "commit", "leased", "poison"}
    BY <1>1, <1>4, Zenon DEF GateInv, RemoverMoves
  <2>4. \A t \in Threads : t \in acting' <=> pc'[t] \in Resolves
    BY <1>0, <1>1, <1>4, Zenon DEF GateInv, RemoverMoves
  <2>5. Remover \in acting' <=> pc'[Remover] \notin {"idle", "exited"}
    BY <1>1, Zenon DEF RemoverMoves
  <2>6. writer' = Remover <=> pc'[Remover] \in Holds
    BY <1>0, <1>1, Zenon DEF RemoverMoves
  <2>7. writer' = Remover => readers' = {}
    BY <1>0, <1>4, Zenon DEF RemoverMoves, GateInv
  <2> QED
    BY <1>4, <2>1, <2>2, <2>3, <2>4, <2>5, <2>6, <2>7 DEF GateInv
<1>7. LifeInv'
  <2>1. ASSUME ctl' \in {"gate", "restore"} \/ Restored'
        PROVE  FALSE
    <3>1. acting = {} /\ life # "Active"
      BY <2>1, Zenon DEF LifeInv, RemoverMoves, Restored
    <3>2. pc[Remover] = "idle"
      BY <1>4, <3>1, Zenon DEF GateInv, RemoverMoves
    <3> QED
      BY <3>1, <3>2, Zenon DEF RemoverMoves
  <2> QED
    BY <1>4, <2>1, Zenon DEF LifeInv, RemoverMoves, Restored
<1>8. (pc[Remover] \in Holds \/ l \in Holds) => \A t \in Threads : pc[t] \notin Publishes \cup {"leased"}
  <2>1. (pc[Remover] \in Holds \/ l \in Holds) => readers = {}
    BY <1>4, Zenon DEF GateInv, RemoverMoves
  <2> QED
    BY <2>1, Zenon DEF GateInv, Publishes
<1> QED
  BY <1>1, <1>2, <1>3, <1>4, <1>5, <1>6, <1>7, <1>8

\* A step that leaves the pages and the planes alone: the removal is requested, waits for the
\* peer, or fails.
LEMMA RemoverQuiet ==
    ASSUME GateLayer, NEW l \in {"gate", "await", "unwind", "failing", "idle"}, RemoverMoves(l),
           Recorded(co'), co'.phase \in Phase, co'.phase = "Active" => co.phase = "Active",
           co'.page = co.page,
           host' = host, guest' = guest, contents' = contents, admitted' = admitted,
           handler' \in {handler, "Poisoned"},
           pc[Remover] = "revoke" => handler' # "Active",
           pc[Remover] # "hide", l = "await" => pc[Remover] = "request" /\ removal' = removal,
           l = "idle" => co'.phase # "Active", l = "gate" => pc[Remover] \in {"idle", "gate"}
    PROVE  GateLayer'
<1> USE DEF GateLayer
<1>1. /\ PlaceInv' /\ GateInv' /\ LifeInv' /\ WorkInv' /\ ~Exited /\ pc'[Remover] = l
      /\ \A t \in Threads : pc'[t] = pc[t] /\ Page(t)' = Page(t)
  BY RemoverGate, Zenon
<1>2. CoInv' /\ PlaneInv' /\ AdmissionIsInForce'
  BY Zenon DEF CoInv, PlaneInv, PagesInv, AdmissionIsInForce
<1>3. PublishInv'
  BY <1>1 DEF PublishInv
<1>4. RemoveInv'
  BY <1>1 DEF RemoveInv
<1>5. PlanesFollowPages'
  <2>1. SUFFICES ASSUME Mapped', ~Exited', NEW p \in Pages
                 PROVE  PageFollows(p)'
    BY Zenon DEF PlanesFollowPages, PageFollows
  <2>2. Mapped
    BY <2>1, Zenon DEF Mapped, Restored, RemoverMoves
  <2>3. PageFollows(p)
    BY <1>1, <2>2, Zenon DEF PagesInv, PlanesFollowPages, PageFollows
  <2> QED
    BY <1>1, <2>3, Zenon DEF PageFollows
<1>6. LeaseKeepsPages'
  BY <1>1 DEF PagesInv, LeaseKeepsPages, RemoverMoves, Mapped, Restored
<1> QED
  BY <1>1, <1>2, <1>3, <1>4, <1>5, <1>6 DEF PagesInv

\* remove: the remover begins its action.
LEMMA RequestRemovalKeeps ==
    ASSUME GateLayer, RequestRemoval
    PROVE  GateLayer'
<1>1. PICK rg \in Ranges : removal' = [pages |-> rg, gen |-> 0]
  BY Zenon DEF RequestRemoval
<1>2. rg \subseteq Pages
  BY LazyConstants, Zenon
<1>3. /\ pc[Remover] = "idle" /\ life = "Active" /\ Goto(Remover, "gate")
      /\ acting' = acting \cup {Remover} /\ waiting' = waiting
      /\ readers' = readers /\ writer' = writer /\ co' = co /\ contents' = contents
      /\ host' = host /\ guest' = guest /\ handler' = handler /\ admitted' = admitted
      /\ job' = job /\ ctl' = ctl /\ life' = life
  BY Zenon DEF RequestRemoval, RemoverIdle, gateVars, planeVars
<1>4. removal' = [pages |-> removal'.pages, gen |-> removal'.gen] /\ removal'.pages \subseteq Pages
  BY ONLY <1>1, <1>2, Zenon
<1>5. Remover \in Callers
  BY LazyConstants, Zenon
<1>6. writer = "none" /\ waiting \subseteq {Remover, "teardown"}
  BY <1>3, <1>5, Zenon DEF GateLayer, GateInv, Holds
<1>7. RemoverMoves("gate")
  BY <1>3, <1>4, <1>6, Zenon DEF RemoverMoves, RemoverLabel, Holds
<1>8. Recorded(co') /\ co'.phase \in Phase
  BY <1>3, Zenon DEF GateLayer, CoInv
<1> QED
  BY <1>3, <1>7, <1>8, RemoverQuiet, Zenon

\* The remover queues for the transition gate.
LEMMA QueueRemovalKeeps ==
    ASSUME GateLayer, QueueRemoval
    PROVE  GateLayer'
<1>1. /\ pc[Remover] = "gate" /\ Goto(Remover, "gate")
      /\ acting' = acting /\ waiting' = waiting \cup {Remover} /\ removal' = removal
      /\ readers' = readers /\ writer' = writer /\ co' = co /\ contents' = contents
      /\ host' = host /\ guest' = guest /\ handler' = handler /\ admitted' = admitted
      /\ job' = job /\ ctl' = ctl /\ life' = life
  BY Zenon DEF QueueRemoval, RemoverIdle, planeVars
<1>2. removal' = [pages |-> removal'.pages, gen |-> removal'.gen] /\ removal'.pages \subseteq Pages
  BY <1>1, Zenon DEF GateLayer, WorkInv
<1>3. Remover \in Callers
  BY LazyConstants, Zenon
<1>4. writer = "none" /\ waiting \subseteq {Remover, "teardown"} /\ Remover \in acting
  BY <1>1, <1>3, Zenon DEF GateLayer, GateInv, Holds
<1>5. RemoverMoves("gate")
  BY <1>1, <1>2, <1>4, Zenon DEF RemoverMoves, RemoverLabel, Holds
<1>6. Recorded(co') /\ co'.phase \in Phase
  BY <1>1, Zenon DEF GateLayer, CoInv
<1> QED
  BY <1>1, <1>5, <1>6, RemoverQuiet, Zenon

\* The removal fails at one of its steps: nothing is closed that is not closed already.
LEMMA RemoverFails ==
    ASSUME GateLayer, NEW l \in {"unwind", "failing", "idle", "await"}, Goto(Remover, l),
           pc[Remover] \in {"gate", "revoke", "request", "await", "unwind", "failing"},
           pc[Remover] = "revoke" => handler' # "Active",
           Closes(co, co'), l = "idle" => co'.phase # "Active" /\ pc[Remover] = "failing",
           l = "await" => pc[Remover] = "request" /\ removal' = removal,
           l = "unwind" => pc[Remover] \in Holds \/ readers = {},
           job' = job, ctl' = ctl, life' = life, readers' = readers,
           waiting' \subseteq waiting,
           acting' = IF l = "idle" THEN acting \ {Remover} ELSE acting,
           writer' = IF l \in Holds THEN Remover ELSE "none",
           removal' = removal \/ removal' = NoRemoval,
           host' = host, guest' = guest, contents' = contents, admitted' = admitted,
           handler' \in {handler, "Poisoned"}
    PROVE  GateLayer'
<1>1. Remover \in Callers /\ Remover # "none"
  BY LazyConstants, Zenon
<1>2. ~Exited /\ Remover \in acting /\ waiting \subseteq {Remover, "teardown"}
  BY <1>1, Zenon DEF GateLayer, GateInv
<1>3. removal' = [pages |-> removal'.pages, gen |-> removal'.gen] /\ removal'.pages \subseteq Pages
  BY DEF GateLayer, WorkInv, NoRemoval
<1>4. RemoverMoves(l)
  BY <1>2, <1>3, Zenon DEF RemoverMoves, RemoverLabel, Holds
<1>5. Recorded(co') /\ co'.phase \in Phase /\ co'.page = co.page
      /\ (co'.phase = "Active" => co.phase = "Active")
  BY Zenon DEF Closes, GateLayer, CoInv
<1> QED
  BY <1>4, <1>5, RemoverQuiet, Zenon

\* begin_removal, once the remover is the gate's writer.
LEMMA BeginRemovalKeeps ==
    ASSUME GateLayer, BeginRemoval
    PROVE  GateLayer'
<1>1. /\ pc[Remover] = "gate" /\ readers = {} /\ writer = "none" /\ writer' = Remover
      /\ waiting' = waiting \ {Remover} /\ acting' = acting /\ readers' = readers
      /\ contents' = contents /\ host' = host /\ guest' = guest /\ handler' = handler
      /\ admitted' = admitted /\ job' = job /\ ctl' = ctl /\ life' = life
  BY Zenon DEF BeginRemoval, WriterMayEnter, RemoverIdle, planeVars
<1>2. Recorded(co) /\ co.phase \in Phase /\ co.page \in [Pages -> PageState]
  BY Zenon DEF GateLayer, CoInv
<1>3. CASE Goto(Remover, "unwind") /\ co' = co /\ removal' = removal
  <2>1. Closes(co, co')
    BY <1>2, <1>3, Zenon DEF Closes
  <2> QED
    BY <1>1, <1>3, <2>1, RemoverFails, Zenon DEF Holds
<1>4. CASE /\ co.phase = "Active" /\ co' = BeginRemovalState(co, removal.pages)
           /\ \A p \in removal.pages : co.page[p] \notin {"Publishing", "Removing"}
           /\ removal' = [removal EXCEPT !.gen = co.nextGen] /\ Goto(Remover, "revoke")
  <2>1. PICK rg : rg = removal.pages
    BY Zenon
  <2>2. PICK pages : pages = [p \in Pages |-> IF p \in rg THEN "Removing" ELSE co.page[p]]
    BY Zenon
  <2>3. PICK hit : hit = {o \in co.ops : o.kind = "page" /\ o.stage = "Loading" /\ o.pages \subseteq rg}
    BY Zenon
  <2>4. PICK ops : ops = (co.ops \ hit) \cup {[gen |-> co.nextGen, kind |-> "remove", pages |-> rg,
                                               stage |-> "Removing", waiters |-> 0]}
                         \cup RetiredOps(hit)
    BY Zenon
  <2>5. PICK done : done = co.done \cup UNION {UNION {Completed(p, o.gen, "Superseded", o.waiters)
                                                     : p \in o.pages} : o \in hit}
    BY Zenon
  <2>6. PICK n, m : n = co.actions + 1 /\ m = co.nextGen + 1
    BY Zenon
  <2>7. co' = [co EXCEPT !.ops = ops, !.done = done, !.page = pages, !.actions = n, !.nextGen = m]
    BY <1>4, <2>1, <2>2, <2>3, <2>4, <2>5, <2>6 DEF BeginRemovalState
  <2>8. Recorded(co') /\ co'.phase = co.phase /\ co'.page = pages
    BY ONLY <1>2, <2>7, Zenon DEF Recorded
  <2>9. removal = [pages |-> removal.pages, gen |-> removal.gen] /\ removal.pages \subseteq Pages
    BY Zenon DEF GateLayer, WorkInv
  <2>10. PICK g : g = co.nextGen
    BY Zenon
  <2>11. removal' = [pages |-> rg, gen |-> g]
    BY ONLY <1>4, <2>1, <2>9, <2>10
  <2>12. /\ removal' = [pages |-> removal'.pages, gen |-> removal'.gen] /\ removal'.pages = rg
         /\ rg \subseteq Pages
    BY ONLY <2>1, <2>9, <2>11, Zenon
  <2>13. Remover \in Callers
    BY LazyConstants, Zenon
  <2>14. Remover \in acting /\ waiting \subseteq {Remover, "teardown"}
    BY <1>1, <2>13, Zenon DEF GateLayer, GateInv
  <2>15. RemoverMoves("revoke")
    BY <1>1, <1>4, <2>12, <2>14 DEF RemoverMoves, RemoverLabel, Holds
  <2>16. /\ PlaceInv' /\ GateInv' /\ LifeInv' /\ WorkInv' /\ ~Exited /\ pc'[Remover] = "revoke"
         /\ \A t \in Threads : pc'[t] = pc[t] /\ pc[t] \notin Publishes \cup {"leased"}
    BY <2>15, RemoverGate, Zenon DEF Holds
  <2>17. \A p \in Pages : IF p \in rg THEN co'.page[p] = "Removing" ELSE co'.page[p] = co.page[p]
    BY <2>2, <2>8, Zenon
  <2>18. CoInv'
    BY <1>2, <2>2, <2>8 DEF CoInv, PageState
  <2>19. PlaneInv' /\ AdmissionIsInForce'
    BY <1>1, Zenon DEF GateLayer, PlaneInv, PagesInv, AdmissionIsInForce
  <2>20. PublishInv' /\ LeaseKeepsPages'
    BY <2>16, Zenon DEF PublishInv, LeaseKeepsPages, Publishes
  <2>21. \A p \in Pages : co.page[p] # "Removing"
    BY <1>1, <1>4, Zenon DEF GateLayer, RemoveInv
  <2>22. RemoveInv'
    BY <2>12, <2>16, <2>17, <2>21 DEF RemoveInv
  <2>23. PlanesFollowPages'
    <3>1. SUFFICES ASSUME Mapped', ~Exited', NEW p \in Pages
                   PROVE  PageFollows(p)'
      BY Zenon DEF PlanesFollowPages, PageFollows
    <3>2. Mapped
      BY <1>1, <3>1, Zenon DEF Mapped, Restored
    <3>3. PageFollows(p)
      BY <2>16, <3>2, Zenon DEF GateLayer, PagesInv, PlanesFollowPages, PageFollows
    <3> QED
      BY <1>1, <2>16, <2>17, <2>21, <3>3 DEF PageFollows
  <2> QED
    BY <2>16, <2>18, <2>19, <2>20, <2>22, <2>23, Zenon DEF GateLayer, PagesInv
<1> QED
  BY <1>3, <1>4, Zenon DEF BeginRemoval

\* The guest's permissions to the removed pages are withdrawn.
LEMMA RevokeKeeps ==
    ASSUME GateLayer, Revoke
    PROVE  GateLayer'
<1>1. /\ pc[Remover] = "revoke" /\ acting' = acting /\ readers' = readers /\ writer' = writer
      /\ waiting' = waiting /\ contents' = contents /\ host' = host /\ job' = job /\ ctl' = ctl
      /\ life' = life /\ removal' = removal
  BY Zenon DEF Revoke, gateVars
<1>2. Recorded(co) /\ co.phase \in Phase /\ co.page \in [Pages -> PageState]
  BY Zenon DEF GateLayer, CoInv
<1>3. Remover \in Callers
  BY LazyConstants, Zenon
<1>4. /\ Remover \in acting /\ waiting \subseteq {Remover, "teardown"} /\ writer = Remover
      /\ handler \in {"Active", "Poisoned"}
  BY <1>1, <1>3, Zenon DEF GateLayer, GateInv, Holds, PlaneInv
<1>5. CASE /\ Goto(Remover, "unwind") /\ guest' = guest /\ admitted' = admitted
           /\ \/ handler # "Active" /\ handler' = handler /\ co' = co
              \/ handler' = "Poisoned" /\ co' = Close(co, "TransitionFailure")
  <2>1. Closes(co, co')
    BY <1>2, <1>5, CloseCloses DEF Closes
  <2> QED
    BY <1>1, <1>4, <1>5, <2>1, RemoverFails DEF Holds
<1>6. CASE /\ handler = "Active" /\ admitted' = Readmittable /\ Goto(Remover, "hide")
           /\ guest' = [p \in Pages |-> IF p \in removal.pages THEN {} ELSE guest[p]]
           /\ handler' = handler /\ co' = co
  <2>1. removal = [pages |-> removal.pages, gen |-> removal.gen] /\ removal.pages \subseteq Pages
    BY Zenon DEF GateLayer, WorkInv
  <2>2. RemoverMoves("hide")
    BY <1>1, <1>4, <1>6, <2>1, Zenon DEF RemoverMoves, RemoverLabel, Holds
  <2>3. /\ PlaceInv' /\ GateInv' /\ LifeInv' /\ WorkInv' /\ ~Exited /\ pc'[Remover] = "hide"
        /\ \A t \in Threads : pc'[t] = pc[t] /\ pc[t] \notin Publishes \cup {"leased"}
    BY <2>2, RemoverGate, Zenon DEF Holds
  <2>4. CoInv' /\ PublishInv' /\ LeaseKeepsPages'
    BY <1>6, <2>3, Zenon DEF GateLayer, CoInv, PublishInv, LeaseKeepsPages, Publishes
  <2>5. guest' \in [Pages -> SUBSET {"R", "W", "X"}]
    BY <1>6, Zenon DEF GateLayer, PlaneInv
  <2>6. admitted' \in [Vcpus -> SUBSET [pages : SUBSET Pages, access : Access]]
    BY <1>6, Zenon DEF GateLayer, PlaneInv, Readmittable
  <2>7. PlaneInv'
    BY <1>1, <1>6, <2>5, <2>6, Zenon DEF GateLayer, PlaneInv
  <2>8. AdmissionIsInForce'
    <3>1. ASSUME NEW v \in Vcpus, NEW a \in admitted'[v], NEW p \in a.pages
          PROVE  Need(a.access) \subseteq guest'[p]
      <4>1. a \in admitted[v] /\ a.pages \cap removal.pages = {}
        BY <1>6, Zenon DEF Readmittable
      <4>2. p \in Pages /\ p \notin removal.pages
        BY <4>1 DEF GateLayer, PlaneInv
      <4>3. guest'[p] = guest[p]
        BY <1>6, <4>2, Zenon
      <4> QED
        BY <4>1, <4>3, Zenon DEF GateLayer, PagesInv, AdmissionIsInForce
    <3> QED
      BY <3>1, Zenon DEF AdmissionIsInForce
  <2>9. \A p \in Pages : IF p \in removal.pages THEN guest'[p] = {} ELSE guest'[p] = guest[p]
    BY <1>6, Zenon
  <2>10. \A p \in Pages : p \in removal.pages <=> co.page[p] = "Removing"
    BY <1>1, Zenon DEF GateLayer, RemoveInv
  <2>11. RemoveInv'
    BY <1>1, <1>6, <2>1, <2>3, <2>9, <2>10, Zenon DEF RemoveInv
  <2>12. PlanesFollowPages'
    <3>1. SUFFICES ASSUME Mapped', ~Exited', NEW p \in Pages
                   PROVE  PageFollows(p)'
      BY Zenon DEF PlanesFollowPages, PageFollows
    <3>2. Mapped
      BY <1>1, <3>1, Zenon DEF Mapped, Restored
    <3>3. PageFollows(p)
      BY <2>3, <3>2, Zenon DEF GateLayer, PagesInv, PlanesFollowPages, PageFollows
    <3> QED
      BY <1>1, <1>6, <2>3, <2>9, <2>10, <3>3, Zenon DEF PageFollows
  <2> QED
    BY <2>3, <2>4, <2>7, <2>8, <2>11, <2>12, Zenon DEF GateLayer, PagesInv
<1> QED
  BY <1>5, <1>6, Zenon DEF Revoke

\* The removed pages are hidden from the host and their bytes zeroed.
LEMMA HideKeeps ==
    ASSUME GateLayer, HideAndZero
    PROVE  GateLayer'
<1>1. /\ pc[Remover] = "hide" /\ acting' = acting /\ readers' = readers /\ writer' = writer
      /\ waiting' = waiting /\ guest' = guest /\ handler' = handler /\ admitted' = admitted
      /\ job' = job /\ ctl' = ctl /\ life' = life /\ removal' = removal /\ co' = co
  BY Zenon DEF HideAndZero, gateVars
<1>2. Remover \in Callers
  BY LazyConstants, Zenon
<1>3. Remover \in acting /\ waiting \subseteq {Remover, "teardown"} /\ writer = Remover
  BY <1>1, <1>2, Zenon DEF GateLayer, GateInv, Holds
<1>4. removal = [pages |-> removal.pages, gen |-> removal.gen] /\ removal.pages \subseteq Pages
  BY Zenon DEF GateLayer, WorkInv
<1>5. PICK l : /\ l \in {"request", "unwind"} /\ Goto(Remover, l) /\ host' \in {host, Hidden}
               /\ l = "request" =>
                     /\ host' = Hidden
                     /\ contents' = [p \in Pages |-> IF p \in removal.pages THEN "zero" ELSE contents[p]]
               /\ l = "unwind" => "hide" \in PlatformFaults /\ contents' = contents
  <2>1. CASE /\ host' = Hidden /\ Goto(Remover, "request")
             /\ contents' = [p \in Pages |-> IF p \in removal.pages THEN "zero" ELSE contents[p]]
    BY <2>1
  <2>2. CASE /\ "hide" \in PlatformFaults /\ host' \in {host, Hidden}
             /\ Goto(Remover, "unwind") /\ contents' = contents
    BY <2>2
  <2> QED
    BY <2>1, <2>2, Zenon DEF HideAndZero
<1>6. RemoverMoves(l)
  BY <1>1, <1>3, <1>4, <1>5, Zenon DEF RemoverMoves, RemoverLabel, Holds
<1>7. /\ PlaceInv' /\ GateInv' /\ LifeInv' /\ WorkInv' /\ ~Exited /\ pc'[Remover] = l
      /\ \A t \in Threads : pc'[t] = pc[t] /\ pc[t] \notin Publishes \cup {"leased"}
  BY <1>1, <1>6, RemoverGate, Zenon DEF Holds
<1>8. CoInv' /\ PublishInv' /\ LeaseKeepsPages' /\ AdmissionIsInForce'
  BY <1>1, <1>7, Zenon DEF GateLayer, CoInv, PublishInv, PagesInv, LeaseKeepsPages,
     AdmissionIsInForce, Publishes
<1>9. Hidden \in [Pages -> SUBSET {"R", "W"}]
  BY Zenon DEF GateLayer, PlaneInv, Hidden
<1>10. PlaneInv'
  BY <1>1, <1>5, <1>9, Zenon DEF GateLayer, PlaneInv
<1>11. /\ \A p \in Pages : host'[p] = {} \/ host'[p] = host[p]
       /\ l = "request" => \A p \in removal.pages : host'[p] = {} /\ contents'[p] = "zero"
  BY <1>4, <1>5, Zenon DEF Hidden
<1>12. \A p \in Pages : p \in removal.pages <=> co.page[p] = "Removing"
  BY <1>1, Zenon DEF GateLayer, RemoveInv
<1>13. \A p \in removal.pages : guest[p] = {}
  BY <1>1, Zenon DEF GateLayer, RemoveInv
<1>14. RemoveInv'
  BY <1>1, <1>5, <1>7, <1>11, <1>12, <1>13, Zenon DEF RemoveInv
<1>15. PlanesFollowPages'
  <2>1. SUFFICES ASSUME Mapped', ~Exited', NEW p \in Pages
                 PROVE  PageFollows(p)'
    BY Zenon DEF PlanesFollowPages, PageFollows
  <2>2. Mapped
    BY <1>1, <2>1, Zenon DEF Mapped, Restored
  <2>3. PageFollows(p)
    BY <1>7, <2>2, Zenon DEF GateLayer, PagesInv, PlanesFollowPages, PageFollows
  <2> QED
    BY <1>1, <1>5, <1>7, <1>11, <1>12, <1>13, <2>3, Zenon DEF PageFollows
<1> QED
  BY <1>7, <1>8, <1>10, <1>14, <1>15, Zenon DEF GateLayer, PagesInv

\* The removal is sent to the pager.
LEMMA RequestRemoveKeeps ==
    ASSUME GateLayer, RequestRemove
    PROVE  GateLayer'
<1>1. /\ pc[Remover] = "request" /\ Goto(Remover, "await") /\ acting' = acting
      /\ readers' = readers /\ writer' = writer
      /\ waiting' = waiting /\ guest' = guest /\ handler' = handler /\ admitted' = admitted
      /\ job' = job /\ ctl' = ctl /\ life' = life /\ removal' = removal /\ co' = co
      /\ host' = host /\ contents' = contents
  BY Zenon DEF RequestRemove, gateVars, planeVars
<1>2. Remover \in Callers
  BY LazyConstants, Zenon
<1>3. writer = Remover
  BY <1>1, <1>2, Zenon DEF GateLayer, GateInv, Holds
<1>4. Closes(co, co')
  BY <1>1, Zenon DEF GateLayer, CoInv, Closes
<1> QED
  BY <1>1, <1>3, <1>4, RemoverFails, Zenon DEF Holds

\* commit_removal, after the pager's answer.
LEMMA CommitRemovalKeeps ==
    ASSUME GateLayer, CommitRemoval
    PROVE  GateLayer'
<1>1. /\ pc[Remover] = "await" /\ readers' = readers /\ waiting' = waiting /\ guest' = guest
      /\ handler' = handler /\ admitted' = admitted /\ job' = job /\ ctl' = ctl /\ life' = life
      /\ host' = host /\ contents' = contents
  BY Zenon DEF CommitRemoval, planeVars
<1>2. Remover \in Callers
  BY LazyConstants, Zenon
<1>3. Remover \in acting /\ waiting \subseteq {Remover, "teardown"} /\ writer = Remover
  BY <1>1, <1>2, Zenon DEF GateLayer, GateInv, Holds
<1>4. Recorded(co) /\ co.phase \in Phase /\ co.page \in [Pages -> PageState]
  BY Zenon DEF GateLayer, CoInv
<1>5. CASE /\ co' = Close(co, "PeerFailure") \/ co' = FinishAction(co, removal.gen)
           /\ Goto(Remover, "unwind") /\ writer' = writer /\ acting' = acting /\ removal' = removal
  <2>1. Closes(co, co')
    BY <1>4, <1>5, CloseCloses, FinishCloses, Zenon
  <2> QED
    BY <1>1, <1>3, <1>5, <2>1, RemoverFails, Zenon DEF Holds
<1>6. CASE /\ co.phase = "Active"
           /\ co' = [co EXCEPT !.ops = {o \in @ : o.gen # removal.gen}, !.actions = @ - 1,
                       !.page = [p \in Pages |-> IF p \in removal.pages THEN "Absent" ELSE @[p]]]
           /\ writer' = "none" /\ acting' = acting \ {Remover} /\ removal' = NoRemoval
           /\ Goto(Remover, "idle")
  <2>1. PICK ops : ops = {o \in co.ops : o.gen # removal.gen}
    BY Zenon
  <2>2. PICK n : n = co.actions - 1
    BY Zenon
  <2>3. PICK pages : pages = [p \in Pages |-> IF p \in removal.pages THEN "Absent" ELSE co.page[p]]
    BY Zenon
  <2>4. co' = [co EXCEPT !.ops = ops, !.actions = n, !.page = pages]
    BY <1>6, <2>1, <2>2, <2>3, Zenon
  <2>5. Recorded(co') /\ co'.phase = co.phase /\ co'.page = pages
    BY ONLY <1>4, <2>4, Zenon DEF Recorded
  <2>6. removal' = [pages |-> removal'.pages, gen |-> removal'.gen] /\ removal'.pages \subseteq Pages
    BY <1>6, Zenon DEF NoRemoval
  <2>7. RemoverMoves("idle")
    BY <1>1, <1>3, <1>6, <2>6 DEF RemoverMoves, RemoverLabel, Holds
  <2>8. /\ PlaceInv' /\ GateInv' /\ LifeInv' /\ WorkInv' /\ ~Exited /\ pc'[Remover] = "idle"
        /\ \A t \in Threads : pc'[t] = pc[t] /\ pc[t] \notin Publishes \cup {"leased"}
    BY <1>1, <2>7, RemoverGate DEF Holds
  <2>9. CoInv'
    BY <1>4, <2>3, <2>5 DEF CoInv, PageState
  <2>10. PlaneInv' /\ AdmissionIsInForce'
    BY <1>1, Zenon DEF GateLayer, PlaneInv, PagesInv, AdmissionIsInForce
  <2>11. PublishInv' /\ LeaseKeepsPages'
    BY <2>8, Zenon DEF PublishInv, LeaseKeepsPages, Publishes
  <2>12. \A p \in Pages : p \in removal.pages <=> co.page[p] = "Removing"
    BY <1>1, Zenon DEF GateLayer, RemoveInv
  <2>13. \A p \in Pages : IF p \in removal.pages THEN co'.page[p] = "Absent"
                          ELSE co'.page[p] = co.page[p]
    BY <2>3, <2>5, Zenon
  <2>14. RemoveInv'
    BY <2>8, <2>12, <2>13, Zenon DEF RemoveInv
  <2>15. \A p \in removal.pages : host[p] = {} /\ guest[p] = {}
    BY <1>1, Zenon DEF GateLayer, RemoveInv
  <2>16. PlanesFollowPages'
    <3>1. SUFFICES ASSUME Mapped', ~Exited', NEW p \in Pages
                   PROVE  PageFollows(p)'
      BY Zenon DEF PlanesFollowPages, PageFollows
    <3>2. Mapped
      BY <1>1, <3>1, Zenon DEF Mapped, Restored
    <3>3. PageFollows(p)
      BY <2>8, <3>2, Zenon DEF GateLayer, PagesInv, PlanesFollowPages, PageFollows
    <3> QED
      BY <1>1, <2>8, <2>12, <2>13, <2>15, <3>3 DEF PageFollows
  <2> QED
    BY <2>8, <2>9, <2>10, <2>11, <2>14, <2>16 DEF GateLayer, PagesInv
<1> QED
  BY <1>5, <1>6, Zenon DEF CommitRemoval

\* The remover's guards dropped in order after a failure.
LEMMA UnwindKeeps ==
    ASSUME GateLayer, UnwindRemoval
    PROVE  GateLayer'
<1>1. /\ readers' = readers /\ waiting' = waiting /\ guest' = guest
      /\ handler' = handler /\ admitted' = admitted /\ job' = job /\ ctl' = ctl /\ life' = life
      /\ host' = host /\ contents' = contents
  BY Zenon DEF UnwindRemoval, RemoverIdle, planeVars
<1>2. Remover \in Callers /\ Remover # "none"
  BY LazyConstants, Zenon
<1>3. Recorded(co) /\ co.phase \in Phase
  BY Zenon DEF GateLayer, CoInv
<1>4. CASE /\ pc[Remover] = "unwind" /\ co' = DropGuard(co, removal.gen) /\ writer' = "none"
           /\ removal' = NoRemoval /\ Goto(Remover, "failing") /\ acting' = acting
  <2>1. Closes(co, co')
    BY <1>3, <1>4, DropCloses, Zenon
  <2> QED
    BY <1>1, <1>4, <2>1, RemoverFails, Zenon DEF Holds
<1>5. CASE /\ pc[Remover] = "failing" /\ co' = Close(co, "TransitionFailure")
           /\ acting' = acting \ {Remover} /\ Goto(Remover, "idle") /\ writer' = writer
           /\ removal' = removal
  <2>1. Closes(co, co') /\ co'.phase # "Active"
    BY <1>3, <1>5, CloseCloses
  <2>2. writer = "none"
    BY <1>2, <1>5, Zenon DEF GateLayer, GateInv, Holds
  <2> QED
    BY <1>1, <1>5, <2>1, <2>2, RemoverFails DEF Holds
<1> QED
  BY <1>4, <1>5, Zenon DEF UnwindRemoval

-----------------------------------------------------------------------------
(* Steps of the controller and of the session.                               *)

\* The threads stay where they are; the controller may open or close the whole mapping.
LEMMA ControllerMoves ==
    ASSUME GateLayer, Closes(co, co'), ctl' \in ControlLabel, Exited' <=> Exited,
           life' \in {"Prepared", "Active", "Closing", "Closed"}, LifeInv',
           waiting' \subseteq {Remover, "teardown"},
           \/ host' = host /\ (Mapped' => Mapped)
           \/ host' \in [Pages -> SUBSET {"R", "W"}] /\ ~Mapped'
           \/ host' = [p \in Pages |-> {}] /\ life = "Prepared",
           UNCHANGED <<contents, acting, readers, writer, guest, handler, admitted, pc, job, removal>>
    PROVE  GateLayer'
<1> USE DEF GateLayer
<1>1. /\ contents' = contents /\ acting' = acting /\ readers' = readers /\ writer' = writer
      /\ guest' = guest /\ handler' = handler /\ admitted' = admitted /\ pc' = pc /\ job' = job
      /\ removal' = removal
  BY Zenon
<1>2. \A t \in Threads : Page(t)' = Page(t)
  BY <1>1, PageIsTodo, Zenon
<1>3. CoInv' /\ co'.page = co.page /\ (co'.phase = "Active" => co.phase = "Active")
  BY Zenon DEF CoInv, Closes
<1>4. PlaceInv' /\ WorkInv' /\ GateInv' /\ AdmissionIsInForce'
  BY <1>1, Zenon DEF PlaceInv, WorkInv, GateInv, PagesInv, AdmissionIsInForce
<1>5. PlaneInv'
  BY <1>1, Zenon DEF PlaneInv
<1>6. PublishInv'
  BY <1>1, <1>2, <1>3 DEF PublishInv
<1>7. CASE host' = host /\ (Mapped' => Mapped)
  <2>1. RemoveInv'
    BY <1>1, <1>3, <1>7 DEF RemoveInv
  <2>2. PlanesFollowPages'
    BY <1>1, <1>3, <1>7, Zenon DEF PagesInv, PlanesFollowPages
  <2>3. LeaseKeepsPages'
    BY <1>1, <1>3, <1>7 DEF PagesInv, LeaseKeepsPages
  <2> QED
    BY <1>3, <1>4, <1>5, <1>6, <2>1, <2>2, <2>3, Zenon DEF PagesInv
<1>8. CASE host' \in [Pages -> SUBSET {"R", "W"}] /\ ~Mapped' /\ pc[Remover] \notin {"request", "await"}
  <2>1. RemoveInv'
    BY <1>1, <1>3, <1>8 DEF RemoveInv
  <2>2. PlanesFollowPages'
    BY <1>8, Zenon DEF PlanesFollowPages
  <2>3. LeaseKeepsPages'
    BY <1>1, <1>3, <1>8, Zenon DEF PagesInv, LeaseKeepsPages
  <2> QED
    BY <1>3, <1>4, <1>5, <1>6, <2>1, <2>2, <2>3, Zenon DEF PagesInv
<1>9. CASE host' = [p \in Pages |-> {}] /\ life = "Prepared"
  <2>0. Remover \in Callers /\ Threads \subseteq Callers
    BY LazyConstants, Zenon
  <2>1. /\ \A c \in Callers : pc[c] \in {"idle", "exited"}
        /\ \A p \in Pages : co.page[p] = "Absent" /\ guest[p] = {} /\ host'[p] = {}
    BY <1>9, Zenon DEF LifeInv
  <2>2. RemoveInv'
    BY <1>1, <1>3, <2>0, <2>1 DEF RemoveInv
  <2>3. PlanesFollowPages'
    BY <1>1, <1>3, <2>1, Zenon DEF PlanesFollowPages
  <2>4. LeaseKeepsPages'
    BY <1>1, <2>0, <2>1, Zenon DEF LeaseKeepsPages
  <2> QED
    BY <1>3, <1>4, <1>5, <1>6, <2>2, <2>3, <2>4, Zenon DEF PagesInv
<1>10. ~Mapped' => pc[Remover] \notin {"request", "await"}
  <2>1. SUFFICES ASSUME ~Mapped' PROVE pc[Remover] \notin {"request", "await"}
    BY Zenon
  <2>2. CASE life' = "Prepared"
    <3>1. Remover \in Callers
      BY LazyConstants, Zenon
    <3> QED
      BY <1>1, <2>2, <3>1, Zenon DEF LifeInv
  <2>3. CASE Restored'
    <3>1. acting' = {}
      BY <2>3, Zenon DEF LifeInv
    <3>2. ~Exited'
      BY <2>3, Zenon DEF Restored, Exited
    <3> QED
      BY <1>1, <3>1, <3>2, Zenon DEF GateInv
  <2> QED
    BY <2>1, <2>2, <2>3, Zenon DEF Mapped
<1> QED
  BY <1>7, <1>8, <1>9, <1>10, Zenon

\* The controller's activation of the resolver and its steps of teardown.
LEMMA TeardownKeeps ==
    ASSUME GateLayer, Teardown \/ Activate
    PROVE  GateLayer'
<1>0. Closes(co, co') /\ Remover # "none"
  BY LazyConstants, Zenon DEF Teardown, Activate, GateLayer, CoInv, Closes
<1>1. /\ contents' = contents /\ acting' = acting /\ readers' = readers /\ writer' = writer
      /\ guest' = guest /\ handler' = handler /\ admitted' = admitted /\ pc' = pc /\ job' = job
      /\ removal' = removal /\ co' = co
  BY Zenon DEF Teardown, Activate, ControllerIdle, workVars, gateVars
<1>2. /\ ctl' \in ControlLabel /\ ~Exited /\ ~Exited' /\ waiting \subseteq {Remover, "teardown"}
      /\ life' \in {"Prepared", "Active", "Closing", "Closed"}
  BY Zenon DEF Teardown, Activate, ControlLabel, Exited, GateLayer, PlaceInv, GateInv
<1>3. CASE ctl \in {"serving", "cancelled"} /\ life' = "Closing" /\ ctl' = "drain"
           /\ waiting' = waiting /\ host' = host
  <2>1. LifeInv' /\ (Mapped' => Mapped)
    BY <1>1, <1>3, Zenon DEF GateLayer, LifeInv, Restored, Mapped
  <2> QED
    BY <1>0, <1>1, <1>2, <1>3, <2>1, ControllerMoves
<1>4. CASE ctl = "drain" /\ acting = {} /\ life' = "Closed" /\ ctl' = "gate"
           /\ waiting' = waiting \cup {"teardown"} /\ host' = host
  <2>1. LifeInv' /\ (Mapped' => Mapped)
    BY <1>1, <1>4, Zenon DEF GateLayer, LifeInv, Restored, Mapped
  <2> QED
    BY <1>0, <1>1, <1>2, <1>4, <2>1, ControllerMoves
<1>5. CASE ctl = "gate" /\ WriterMayEnter /\ ctl' = "restore" /\ life' = life /\ host' = host
           /\ waiting' = waiting \ {"teardown"}
  <2>1. LifeInv' /\ (Mapped' => Mapped)
    BY <1>1, <1>5 DEF GateLayer, LifeInv, Restored, Mapped, WriterMayEnter
  <2> QED
    BY <1>0, <1>1, <1>2, <1>5, <2>1, ControllerMoves
<1>6. CASE ctl = "restore" /\ host' = [p \in Pages |-> {"R", "W"}] /\ ctl' = "restored"
           /\ life' = life /\ waiting' = waiting
  <2>1. LifeInv' /\ ~Mapped'
    BY <1>1, <1>6 DEF GateLayer, LifeInv, Restored, Mapped
  <2>2. host' \in [Pages -> SUBSET {"R", "W"}]
    BY <1>6, Zenon
  <2> QED
    BY <1>0, <1>1, <1>2, <1>6, <2>1, <2>2, ControllerMoves
<1>7. CASE ctl = "connecting" /\ life = "Prepared" /\ waiting' = waiting
           /\ host' = [p \in Pages |-> {}] /\ life' = "Active" /\ ctl' = "serving"
  <2>1. LifeInv'
    BY <1>1, <1>7 DEF GateLayer, LifeInv, Restored
  <2> QED
    BY <1>0, <1>1, <1>2, <1>7, <2>1, ControllerMoves
<1>8. CASE ctl = "connecting" /\ life = "Prepared" /\ waiting' = waiting
           /\ host' = host /\ life' = life /\ ctl' = "drop"
  <2>1. LifeInv' /\ (Mapped' => Mapped)
    BY <1>1, <1>8 DEF GateLayer, LifeInv, Restored, Mapped
  <2> QED
    BY <1>0, <1>1, <1>2, <1>8, <2>1, ControllerMoves
<1> QED
  BY <1>3, <1>4, <1>5, <1>6, <1>7, <1>8 DEF Teardown, Activate, gateVars

\* The steps of the controller, the observer and the session that at most close the coordinator.
CloseOnly ==
    /\ Closes(co, co')
    /\ UNCHANGED <<contents, workVars, life, acting, gateVars, planeVars>>
    /\ <<ctl, ctl'>> \in
          {<<"connecting", "done">>, <<"serving", "cancel">>, <<"cancel", "cancelWait">>,
           <<"sourceCancel", "sourceWait">>, <<"restored", "shutdownWait">>,
           <<"restored", "sourceCancel">>, <<"cancelWait", "cancelled">>, <<"sourceWait", "drop">>,
           <<"shutdownWait", "drop">>, <<"drop", "done">>}
       \/ ctl' = ctl

\* The controller's and the session's other steps do at most close the coordinator.
LEMMA CloseOnlySteps ==
    ASSUME CoInv, \/ ConnectFails \/ RequestCancel \/ SendCancel \/ StopSource \/ SourceStopped
                  \/ DropPager \/ Observe \/ SessionStep \/ UNCHANGED vars
    PROVE  CloseOnly
<1>1. /\ Closes(co, co) /\ Closes(co, Close(co, "TransitionFailure"))
      /\ Closes(co, Close(co, "PeerFailure")) /\ Closes(co, Close(co, "Requested"))
      /\ Closes(co, Close(co, "Teardown"))
  <2>1. Closes(co, co)
    BY Zenon DEF CoInv, Closes
  <2> QED
    BY <2>1, CloseCloses, Zenon DEF CoInv
<1>2. CASE ConnectFails
  BY <1>1, <1>2, Zenon DEF ConnectFails, CloseOnly, ControllerIdle
<1>3. CASE RequestCancel
  BY <1>1, <1>3, Zenon DEF RequestCancel, CloseOnly, ControllerIdle
<1>4. CASE SendCancel
  BY <1>1, <1>4, Zenon DEF SendCancel, CloseOnly, ControllerIdle
<1>5. CASE StopSource
  BY <1>1, <1>5, Zenon DEF StopSource, CloseOnly, ControllerIdle
<1>6. CASE SourceStopped
  BY <1>1, <1>6, Zenon DEF SourceStopped, CloseOnly, ControllerIdle
<1>7. CASE DropPager
  BY <1>1, <1>7, Zenon DEF DropPager, CloseOnly, ControllerIdle
<1>8. CASE Observe
  BY <1>1, <1>8, Zenon DEF Observe, CloseOnly, ControllerIdle
<1>9. CASE UNCHANGED memoryVars
  BY <1>1, <1>9, Zenon DEF memoryVars, CloseOnly
<1> QED
  BY <1>2, <1>3, <1>4, <1>5, <1>6, <1>7, <1>8, <1>9 DEF SessionStep, vars

\* Closing the coordinator disturbs neither the gate nor the planes.
LEMMA CloseOnlyKeeps ==
    ASSUME GateLayer, CloseOnly
    PROVE  GateLayer'
<1>1. /\ contents' = contents /\ acting' = acting /\ readers' = readers /\ writer' = writer
      /\ guest' = guest /\ handler' = handler /\ admitted' = admitted /\ pc' = pc /\ job' = job
      /\ removal' = removal /\ life' = life /\ host' = host /\ waiting' = waiting
  BY Zenon DEF CloseOnly, workVars, gateVars, planeVars
<1>2. ctl' \in ControlLabel /\ (Exited' <=> Exited) /\ (Mapped' => Mapped)
  BY <1>1, Zenon DEF CloseOnly, ControlLabel, Exited, Mapped, Restored, GateLayer, PlaceInv,
     LifeInv
<1>3. co'.page = co.page
  BY Zenon DEF CloseOnly, Closes
<1>4. LifeInv'
  BY <1>1, <1>3, Zenon DEF CloseOnly, GateLayer, LifeInv, Restored
<1>5. Closes(co, co') /\ waiting \subseteq {Remover, "teardown"}
      /\ life \in {"Prepared", "Active", "Closing", "Closed"}
  BY Zenon DEF CloseOnly, GateLayer, GateInv, PlaceInv
<1> QED
  BY <1>1, <1>2, <1>4, <1>5, ControllerMoves

-----------------------------------------------------------------------------
(* The gate layer is an invariant.                                           *)

\* Nothing is populated, held or requested at first.
LEMMA GateInit == LazyInit => GateLayer
<1> SUFFICES ASSUME LazyInit PROVE GateLayer
  BY Zenon
<1> USE DEF LazyInit
<1>0. /\ Remover \in Callers /\ Threads \subseteq Callers /\ Remover # "none"
      /\ \A c \in Callers : pc[c] = "idle"
  BY LazyConstants, Zenon
<1>1. CoInv
  BY Zenon DEF CoInv, Recorded, Phase, PageState
<1>2. PlaceInv
  BY <1>0, Zenon DEF PlaceInv, ThreadLabel, RemoverLabel, ControlLabel
<1>3. WorkInv
  <2>1. \A t \in Threads : Job(job[t])
    BY NoJobIsJob, Zenon
  <2>2. \A t \in Threads : pc[t] \notin AtPage
    BY <1>0, Zenon DEF AtPage, Resolves
  <2>3. removal = [pages |-> removal.pages, gen |-> removal.gen] /\ removal.pages \subseteq Pages
    BY Zenon DEF NoRemoval
  <2>4. job = [t \in Threads |-> job[t]]
    BY Zenon
  <2> QED
    BY ONLY <2>1, <2>2, <2>3, <2>4, Zenon DEF WorkInv, Job
<1>4. PlaneInv
  BY Zenon DEF PlaneInv
<1>5. GateInv
  BY <1>0, Zenon DEF GateInv, Exited, Holds, Resolves
<1>6. LifeInv
  BY Zenon DEF LifeInv, Restored
<1>7. PublishInv
  BY <1>0, Zenon DEF PublishInv
<1>8. RemoveInv
  BY <1>0, Zenon DEF RemoveInv
<1>9. PlanesFollowPages /\ LeaseKeepsPages /\ AdmissionIsInForce
  BY <1>0, Zenon DEF PlanesFollowPages, Mapped, LeaseKeepsPages, AdmissionIsInForce
<1> QED
  BY <1>1, <1>2, <1>3, <1>4, <1>5, <1>6, <1>7, <1>8, <1>9 DEF GateLayer, PagesInv

\* The gate layer is inductive.
LEMMA GateNext == GateLayer /\ [LazyNext]_vars => GateLayer'
<1> SUFFICES ASSUME GateLayer, [LazyNext]_vars PROVE GateLayer'
  BY Zenon
<1>1. ASSUME NEW t \in Threads, ThreadStep(t) PROVE GateLayer'
  <2>1. CASE FailClosed(t)
    <3>1. CASE t \in Vcpus
      BY <2>1, <3>1, PoisonKeeps, Zenon
    <3>2. CASE t \notin Vcpus
      <4>1. /\ co' = Close(co, "TransitionFailure") /\ acting' \subseteq acting /\ ExitProcess
            /\ job' = [job EXCEPT ![t] = NoJob]
            /\ UNCHANGED <<contents, life, gateVars, planeVars, removal>>
        BY <2>1, <3>2, Zenon DEF FailClosed
      <4> QED
        BY <4>1, ExitKeeps, Zenon
    <3> QED
      BY <3>1, <3>2, Zenon
  <2> QED
    BY <1>1, <2>1, TakeFaultKeeps, FaultKeeps, WaitKeeps, SourceKeeps, BeginPublicationKeeps,
       InstallKeeps, CommitKeeps, OpenKeeps, LeaseKeeps, ReturnKeeps, AdmitKeeps, PoisonKeeps,
       Zenon DEF ThreadStep
<1>2. CASE RemoverStep
  BY <1>2, RequestRemovalKeeps, QueueRemovalKeeps, BeginRemovalKeeps, RevokeKeeps, HideKeeps, RequestRemoveKeeps,
     CommitRemovalKeeps, UnwindKeeps, Zenon DEF RemoverStep
<1>3. CASE RestoreFails
  <2>1. /\ co' = Close(co, "TransitionFailure") /\ acting' = acting /\ ExitProcess /\ job' = job
        /\ UNCHANGED <<contents, life, gateVars, planeVars, removal>>
    BY <1>3, Zenon DEF RestoreFails
  <2> QED
    BY <2>1, ExitKeeps, Zenon
<1>4. CASE Teardown \/ Activate
  BY <1>4, TeardownKeeps, Zenon
<1>5. CASE \/ ConnectFails \/ RequestCancel \/ SendCancel \/ StopSource \/ SourceStopped
           \/ DropPager \/ Observe \/ SessionStep \/ UNCHANGED vars
  <2>1. CoInv
    BY Zenon DEF GateLayer
  <2> QED
    BY <1>5, <2>1, CloseOnlySteps, CloseOnlyKeeps, Zenon
<1> QED
  BY <1>1, <1>2, <1>3, <1>4, <1>5 DEF LazyNext, ControllerStep, Stopped

\* The gate layer holds in every reachable state of the restored memory.
THEOREM GateInvariant == LazySpec => []GateLayer
BY GateInit, GateNext, PTL DEF LazySpec

\* While the mappings are protected, the host and guest planes never open a page beyond what the
\* coordinator has published, however faults, removals and failures interleave (protect, revoke,
\* hide and publish of the resolver).
THEOREM PlanesFollowPagesHolds == LazySpec => []PlanesFollowPages
<1>1. GateLayer => PlanesFollowPages
  BY Zenon DEF GateLayer, PagesInv
<1> QED
  BY <1>1, GateInvariant, PTL

\* A resolution lease keeps its pages present and open to the host until it is given back
\* (resolve_pages returns the gate's permit as the lease).
THEOREM LeaseKeepsPagesHolds == LazySpec => []LeaseKeepsPages
<1>1. GateLayer => LeaseKeepsPages
  BY Zenon DEF GateLayer, PagesInv
<1> QED
  BY <1>1, GateInvariant, PTL

\* A recorded admission is still in force, so a repeated exit for it is a lack of progress
\* (last_admitted in HvfLazyGuestFaultHandler::handle and revoke).
THEOREM AdmissionIsInForceHolds == LazySpec => []AdmissionIsInForce
<1>1. GateLayer => AdmissionIsInForce
  BY Zenon DEF GateLayer, PagesInv
<1> QED
  BY <1>1, GateInvariant, PTL

\* The mapping is opened for good only when no resolution, removal or lease is left, and none
\* starts afterwards (close and restore_all_rw).
THEOREM RestoreIsQuietHolds == LazySpec => []RestoreIsQuiet
<1>1. GateLayer => RestoreIsQuiet
  BY Zenon DEF GateLayer, LifeInv, RestoreIsQuiet
<1> QED
  BY <1>1, GateInvariant, PTL

\* No step makes a closed coordinator active again or replaces the reason it closed for.
LEMMA ClosedStays ==
    ASSUME CoInv, [LazyNext]_vars, co.phase # "Active"
    PROVE  co'.phase # "Active" /\ co'.reason = co.reason
<1>0. Recorded(co) /\ co.phase \in Phase /\ Closes(co, co)
  BY Zenon DEF CoInv, Closes
<1>1. SUFFICES co' = co \/ Closes(co, co') \/ (\E n : co' = [co EXCEPT !.waiters = n])
  <2>1. ASSUME NEW n, co' = [co EXCEPT !.waiters = n]
        PROVE  co'.phase = co.phase /\ co'.reason = co.reason
    BY ONLY <1>0, <2>1, Zenon DEF Recorded
  <2> QED
    BY <1>1, <2>1 DEF Closes
<1>2. ASSUME NEW t \in Threads, Fault(t) \/ PageWait(t)
      PROVE  co' = co \/ \E n : co' = [co EXCEPT !.waiters = n]
  BY <1>2 DEF Fault, PageWait, FaultFrom
<1>3. ASSUME NEW t \in Threads, PopulationWait(t)
      PROVE  \E n : co' = [co EXCEPT !.waiters = n]
  BY <1>3, Zenon DEF PopulationWait
<1>4. ASSUME NEW t \in Threads, SourceFails(t) PROVE Closes(co, co')
  BY <1>0, <1>4, TicketCloses, Zenon DEF SourceFails
<1>5. ASSUME NEW t \in Threads, BeginPublication(t) PROVE co' = co
  BY <1>5, Zenon DEF BeginPublication
<1>6. ASSUME NEW t \in Threads, Install(t) PROVE co' = co \/ Closes(co, co')
  <2>1. co' = co \/ co' = DropGuard(co, job[t].gen)
    BY <1>6, Zenon DEF Install
  <2> QED
    BY <1>0, <2>1, DropCloses, Zenon
<1>7. ASSUME NEW t \in Threads, CommitPublication(t) PROVE Closes(co, co')
  BY <1>0, <1>7, FinishCloses DEF CommitPublication
<1>8. ASSUME NEW t \in Threads, FailClosed(t) \/ Poison(t) PROVE Closes(co, co')
  BY <1>0, <1>8, CloseCloses, Zenon DEF FailClosed, Poison
<1>9. ASSUME NEW t \in Threads, \/ TakeFault(t) \/ RequestPage(t) \/ OpenPresent(t) \/ TakeLease(t)
                                \/ HostReturns(t) \/ Admit(t)
      PROVE  co' = co
  BY <1>9, Zenon DEF TakeFault, RequestPage, OpenPresent, TakeLease, HostReturns, Admit
<1>10. ASSUME RemoverStep PROVE co' = co \/ Closes(co, co')
  <2>1. CASE RequestRemoval \/ QueueRemoval \/ BeginRemoval \/ HideAndZero \/ RequestRemove
    BY <2>1, Zenon DEF RequestRemoval, QueueRemoval, BeginRemoval, HideAndZero, RequestRemove
  <2>2. CASE Revoke
    BY <1>0, <2>2, CloseCloses, Zenon DEF Revoke
  <2>3. CASE CommitRemoval
    BY <1>0, <2>3, CloseCloses, FinishCloses DEF CommitRemoval
  <2>4. CASE UnwindRemoval
    BY <1>0, <2>4, CloseCloses, DropCloses, Zenon DEF UnwindRemoval
  <2> QED
    BY <1>10, <2>1, <2>2, <2>3, <2>4 DEF RemoverStep
<1>11. CASE Activate \/ Teardown \/ RestoreFails
  BY <1>0, <1>11, CloseCloses, Zenon DEF Activate, Teardown, RestoreFails
<1>12. CASE \/ ConnectFails \/ RequestCancel \/ SendCancel \/ StopSource \/ SourceStopped
            \/ DropPager \/ Observe \/ SessionStep \/ UNCHANGED vars
  BY <1>12, CloseOnlySteps, Zenon DEF CloseOnly
<1> QED
  BY <1>2, <1>3, <1>4, <1>5, <1>6, <1>7, <1>8, <1>9, <1>10, <1>11, <1>12
     DEF LazyNext, ThreadStep, ControllerStep, Stopped

\* The coordinator closes once, and for the first reason (begin_closing_locked).
THEOREM ClosesOnceHolds == LazySpec => ClosesOnce
<1>1. GateLayer /\ [LazyNext]_vars =>
         [co.phase # "Active" => co'.phase # "Active" /\ co'.reason = co.reason]_vars
  BY ClosedStays, Zenon DEF GateLayer
<1> QED
  BY <1>1, GateInvariant, PTL DEF LazySpec, ClosesOnce

=============================================================================
