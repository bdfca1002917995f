---------------------------- MODULE PagerSession ----------------------------
(* The bangbang-pager-v1 session between the VMM and the external process    *)
(* that owns the pages of a lazily restored snapshot: the VMM half           *)
(* (VmmSession), the peer half (PeerSession), the client that owns the VMM   *)
(* half together with its receive worker, and the stream between them.  A    *)
(* frame is a record; the stream keeps order, and what is in flight towards  *)
(* a peer that goes away is lost.  LazyMemory composes this module with the  *)
(* memory coordinator that issues the requests.                              *)
EXTENDS Naturals, FiniteSets, Sequences

CONSTANTS
    Callers,       \* threads that may own a request: faulting threads and removers
    Pages,         \* page locations
    MaxInFlight,   \* max_in_flight the coordinator was built with and offers
    Selections,    \* max_in_flight values the peer may select
    PeerFaults,    \* what the peer may do wrong: "die", "replay"
    NoReply        \* an empty completion channel

ASSUME PagerConstants ==
    /\ MaxInFlight \in Nat \ {0}
    /\ Selections \subseteq 1..MaxInFlight
    /\ PeerFaults \subseteq {"die", "replay"}

VARIABLES
    vmm,           \* VmmSession.state
    outstanding,   \* VmmSession.outstanding: the complete stored tuples
    nextRequest,   \* VmmSession.next_request
    selected,      \* VmmSession.selected, 0 before HelloAck
    peer,          \* PeerSession.state
    accepted,      \* PeerSession.outstanding
    lastRequest,   \* PeerSession.last_request
    droppedAt,     \* request that last removed each page at the peer, 0 if none
    peerUp,        \* the peer still holds its end of the stream
    toPeer, toVmm, \* frames in flight
    client,        \* ClientState.status, "Connecting" while establish runs
    pending,       \* ClientState.pending as <<request id, caller>> pairs
    control,       \* ClientState.control
    answer,        \* what the cancel or shutdown caller received
    reply,         \* completion channel of each caller
    worker,        \* the receive worker
    fanout,        \* progress of the one terminalize call that takes effect
    taken          \* callers whose completions that call took

vmmVars == <<vmm, outstanding, nextRequest, selected>>
peerVars == <<peer, accepted, lastRequest, droppedAt, peerUp>>
clientVars == <<client, pending, control, answer, reply, worker, fanout, taken>>
pagerVars == <<vmmVars, peerVars, toPeer, toVmm, clientVars>>

Request == [kind: {"page", "remove"}, id: Nat, pages: SUBSET Pages, gen: Nat]
Msg(k) == [kind |-> k]
Arrived(k) == toVmm # <<>> /\ Head(toVmm).kind = k

PagerTypeOK ==
    /\ vmm \in {"New", "AwaitHelloAck", "AwaitReady", "Active", "AwaitCancelled",
                "AwaitShutdownAck", "Closed", "Terminal"}
    /\ outstanding \subseteq Request /\ accepted \subseteq Request
    /\ nextRequest \in Nat \ {0} /\ lastRequest \in Nat /\ selected \in Nat
    /\ peer \in {"AwaitHello", "SelectLimits", "ConfigureRegions", "ReadyToConfirm", "Active",
                 "ReadyToCancel", "ReadyToShutdown", "Closed", "Terminal"}
    /\ droppedAt \in [Pages -> Nat] /\ peerUp \in BOOLEAN
    /\ client \in {"Connecting", "Active", "AwaitCancelled", "AwaitShutdownAck", "Closed",
                   "Terminal"}
    /\ pending \subseteq Nat \X Callers /\ taken \subseteq Callers
    /\ control \in {"none", "cancel", "shutdown"} /\ answer \in {"none", "ok", "err"}
    /\ reply \in [Callers -> {"image", "zero", "ok", "err", NoReply}]
    /\ worker \in {"none", "run", "failing", "exited"}
    /\ fanout \in {"none", "observe", "release", "done"}

PagerInit ==
    /\ vmm = "New" /\ outstanding = {} /\ nextRequest = 1 /\ selected = 0
    /\ peer = "AwaitHello" /\ accepted = {} /\ lastRequest = 0 /\ peerUp = TRUE
    /\ droppedAt = [p \in Pages |-> 0]
    /\ toPeer = <<>> /\ toVmm = <<>>
    /\ client = "Connecting" /\ pending = {} /\ control = "none" /\ answer = "none"
    /\ reply = [c \in Callers |-> NoReply]
    /\ worker = "none" /\ fanout = "none" /\ taken = {}

-----------------------------------------------------------------------------
(* Connecting: establish sends Hello, answers HelloAck with the regions and  *)
(* Start, and waits for Ready.  A failure on the way fails the connection,   *)
(* and so does a peer that selected a smaller in-flight limit.               *)

EstablishHello ==
    /\ client = "Connecting" /\ vmm = "New" /\ peerUp
    /\ vmm' = "AwaitHelloAck"
    /\ toPeer' = Append(toPeer, Msg("Hello"))
    /\ UNCHANGED <<outstanding, nextRequest, selected, peerVars, toVmm, clientVars>>

EstablishRegions ==
    /\ client = "Connecting" /\ vmm = "AwaitHelloAck" /\ peerUp /\ Arrived("HelloAck")
    /\ selected' = Head(toVmm).limit
    /\ vmm' = "AwaitReady"
    /\ toVmm' = Tail(toVmm)
    /\ toPeer' = toPeer \o <<Msg("Region"), Msg("Start")>>
    /\ UNCHANGED <<outstanding, nextRequest, peerVars, clientVars>>

EstablishReady ==
    /\ client = "Connecting" /\ vmm = "AwaitReady" /\ Arrived("Ready")
    /\ selected = MaxInFlight
    /\ vmm' = "Active" /\ client' = "Active" /\ worker' = "run"
    /\ toVmm' = Tail(toVmm)
    /\ UNCHANGED <<outstanding, nextRequest, selected, peerVars, toPeer, pending, control, answer,
                   reply, fanout, taken>>

EstablishFails ==
    /\ client = "Connecting"
    /\ \/ ~peerUp /\ (toVmm = <<>> \/ Arrived("HelloAck"))
       \/ toVmm = <<>> /\ vmm # "New"                     \* receive deadline
       \/ Arrived("Terminal")
       \/ Arrived("Ready") /\ selected # MaxInFlight
    /\ vmm' = "Terminal" /\ client' = "Terminal"
    /\ UNCHANGED <<outstanding, nextRequest, selected, peerVars, toPeer, toVmm, pending, control,
                   answer, reply, worker, fanout, taken>>

-----------------------------------------------------------------------------
(* The peer.                                                                 *)

\* PeerSession::receive_inner: the state after one VMM frame, "Terminal" when it is refused.
PeerAccepts(f) ==
    CASE f.kind = "Hello" /\ peer = "AwaitHello" -> "SelectLimits"
      [] f.kind = "Region" /\ peer = "ConfigureRegions" -> "ConfigureRegions"
      [] f.kind = "Start" /\ peer = "ConfigureRegions" -> "ReadyToConfirm"
      [] /\ f.kind \in {"page", "remove"} /\ peer = "Active"
         /\ f.id > lastRequest /\ Cardinality(accepted) < selected -> "Active"
      [] f.kind = "Cancel" /\ peer = "Active" -> "ReadyToCancel"
      [] f.kind = "Shutdown" /\ peer = "Active" /\ accepted = {} -> "ReadyToShutdown"
      [] OTHER -> "Terminal"

PeerReceive ==
    /\ peerUp /\ toPeer # <<>>
    /\ peer \notin {"SelectLimits", "ReadyToConfirm", "ReadyToCancel", "ReadyToShutdown"}
    /\ LET f == Head(toPeer)
           next == PeerAccepts(f)
           isRequest == f.kind \in {"page", "remove"} /\ next = "Active"
       IN /\ peer' = next
          /\ peerUp' = (next # "Terminal")
          /\ accepted' = IF next \in {"Terminal", "ReadyToCancel"} THEN {}
                         ELSE IF isRequest THEN accepted \cup {f} ELSE accepted
          /\ lastRequest' = IF isRequest THEN f.id ELSE lastRequest
    /\ toPeer' = Tail(toPeer)
    /\ UNCHANGED <<vmmVars, droppedAt, toVmm, clientVars>>

\* hello_ack, ready, cancelled and shutdown_ack.
PeerConfirm ==
    /\ peerUp
    /\ \E step \in {<<"SelectLimits", "ConfigureRegions", "HelloAck">>,
                    <<"ReadyToConfirm", "Active", "Ready">>,
                    <<"ReadyToCancel", "Closed", "Cancelled">>,
                    <<"ReadyToShutdown", "Closed", "ShutdownAck">>} :
        /\ peer = step[1] /\ peer' = step[2]
        /\ \E s \in IF step[3] = "HelloAck" THEN Selections ELSE {0} :
              toVmm' = Append(toVmm, [kind |-> step[3], limit |-> s])
    /\ UNCHANGED <<vmmVars, accepted, lastRequest, droppedAt, peerUp, toPeer, clientVars>>

\* A page reads as zero once a removal requested before the read was acknowledged; an answer
\* to an earlier read still carries the snapshot image.
Content(r) == IF \E p \in r.pages : 0 < droppedAt[p] /\ droppedAt[p] < r.id
              THEN "zero" ELSE "image"

\* page_data, page_zero and removed: one answer per outstanding request, in any order.
PeerAnswer ==
    /\ peerUp /\ peer = "Active"
    /\ \E r \in accepted :
        /\ accepted' = accepted \ {r}
        /\ droppedAt' = IF r.kind = "page" THEN droppedAt
                        ELSE [p \in Pages |-> IF p \in r.pages THEN r.id ELSE droppedAt[p]]
        /\ toVmm' = Append(toVmm, [kind |-> "Response", of |-> r,
                                   data |-> IF r.kind = "page" THEN Content(r) ELSE "ok"])
    /\ UNCHANGED <<vmmVars, peer, lastRequest, peerUp, toPeer, clientVars>>

\* The peer goes away, after reporting a terminal category or not, or it answers a request it
\* answered before.
PeerMisbehaves ==
    /\ peerUp
    /\ \/ /\ "die" \in PeerFaults
          /\ peerUp' = FALSE /\ accepted' = {} /\ toPeer' = <<>>
          /\ toVmm' \in {toVmm, Append(toVmm, Msg("Terminal"))}
       \/ /\ "replay" \in PeerFaults /\ peer = "Active" /\ vmm = "Active"
          /\ lastRequest \notin {r.id : r \in accepted}
          /\ \A i \in DOMAIN toVmm : toVmm[i].kind # "Replay"
          /\ toVmm' = Append(toVmm, Msg("Replay"))
          /\ UNCHANGED <<accepted, peerUp, toPeer>>
    /\ UNCHANGED <<vmmVars, peer, lastRequest, droppedAt, clientVars>>

-----------------------------------------------------------------------------
(* The client.                                                               *)

\* ClientInner::terminalize up to the first unlock: the first failure wins and takes every
\* completion; the observer and the completions follow in Observed and ReleasePending.
Terminalize ==
    IF client \in {"Closed", "Terminal"}
    THEN UNCHANGED <<client, pending, taken, fanout>>
    ELSE /\ client' = "Terminal"
         /\ taken' = {q[2] : q \in pending} /\ pending' = {}
         /\ fanout' = "observe"

\* The observer returned; LazyMemory adds what it does.
Observed ==
    /\ fanout = "observe" /\ fanout' = "release"
    /\ UNCHANGED <<vmmVars, peerVars, toPeer, toVmm, client, pending, control, answer, reply,
                   worker, taken>>

ReleasePending ==
    /\ fanout = "release" /\ fanout' = "done"
    /\ reply' = [c \in Callers |-> IF c \in taken THEN "err" ELSE reply[c]]
    /\ taken' = {}
    /\ answer' = IF control # "none" THEN "err" ELSE answer
    /\ control' = "none"
    /\ UNCHANGED <<vmmVars, peerVars, toPeer, toVmm, client, pending, worker>>

\* PagerClient::submit with VmmSession::request_page or remove.  The request is refused by a
\* client that is not active, by a session a bad frame has ended, or at the in-flight limit;
\* when the stream is gone the caller itself starts the terminal fan-out.
SubmitRefused ==
    client # "Active" \/ vmm # "Active" \/ Cardinality(outstanding) >= selected

Submit(c, kind, pages, gen) ==
    LET r == [kind |-> kind, id |-> nextRequest, pages |-> pages, gen |-> gen]
    IN IF SubmitRefused
       THEN /\ reply' = [reply EXCEPT ![c] = "err"]
            /\ UNCHANGED <<vmmVars, toPeer, client, pending, fanout, taken>>
       ELSE /\ outstanding' = outstanding \cup {r}
            /\ nextRequest' = nextRequest + 1
            /\ IF peerUp
               THEN /\ toPeer' = Append(toPeer, r)
                    /\ pending' = pending \cup {<<r.id, c>>}
                    /\ UNCHANGED <<reply, client, fanout, taken>>
               ELSE /\ Terminalize
                    /\ reply' = [reply EXCEPT ![c] = "err"]
                    /\ UNCHANGED toPeer
            /\ UNCHANGED <<vmm, selected>>

\* VmmSession::receive_inner: only a response that repeats an outstanding tuple, the awaited
\* confirmation of a cancel or shutdown, or nothing at all is acceptable.
FrameIsValid(f) ==
    \/ f.kind = "Response" /\ vmm = "Active" /\ f.of \in outstanding
    \/ f.kind = "Cancelled" /\ vmm = "AwaitCancelled"
    \/ f.kind = "ShutdownAck" /\ vmm = "AwaitShutdownAck"

\* receive_loop and process_frame for one frame; an invalid frame ends the session under the
\* lock and the client in a later step.
WorkerReceive ==
    /\ worker = "run" /\ client \notin {"Closed", "Terminal"} /\ toVmm # <<>>
    /\ toVmm' = Tail(toVmm)
    /\ LET f == Head(toVmm)
       IN IF ~FrameIsValid(f)
          THEN /\ vmm' = "Terminal" /\ outstanding' = {} /\ worker' = "failing"
               /\ UNCHANGED <<client, pending, control, answer, reply>>
          ELSE IF f.kind = "Response"
          THEN /\ outstanding' = outstanding \ {f.of}
               /\ pending' = {q \in pending : q[1] # f.of.id}
               /\ reply' = [c \in Callers |->
                               IF <<f.of.id, c>> \in pending THEN f.data ELSE reply[c]]
               /\ UNCHANGED <<vmm, client, control, answer, worker>>
          ELSE /\ vmm' = "Closed" /\ client' = "Closed"
               /\ control' = "none" /\ answer' = "ok"
               /\ UNCHANGED <<outstanding, pending, reply, worker>>
    /\ UNCHANGED <<nextRequest, selected, peerVars, toPeer, fanout, taken>>

\* Mutant: only a cancel or a shutdown has a deadline.
HasControlDeadline == control # "none"

\* request_timeout: the earliest deadline among the pending requests and the control.
HasDeadline == pending # {} \/ control # "none"

\* poll returned nothing before the earliest deadline, or the stream was closed.
WorkerPollFails ==
    /\ worker = "run" /\ client \notin {"Closed", "Terminal"} /\ toVmm = <<>>
    /\ ~peerUp \/ HasDeadline
    /\ worker' = "failing"
    /\ UNCHANGED <<vmmVars, peerVars, toPeer, toVmm, client, pending, control, answer, reply,
                   fanout, taken>>

\* The worker leaves: through terminalize after a failure, directly once the client stopped.
\* Nobody reads the stream or writes to it afterwards, so what the peer still does is left out.
WorkerExits ==
    /\ \/ worker = "failing" /\ Terminalize
       \/ worker = "run" /\ client \in {"Closed", "Terminal"}
          /\ UNCHANGED <<client, pending, taken, fanout>>
    /\ worker' = "exited"
    /\ peerUp' = FALSE /\ accepted' = {} /\ toPeer' = <<>> /\ toVmm' = <<>>
    /\ UNCHANGED <<vmmVars, peer, lastRequest, droppedAt, control, answer, reply>>

\* PagerClient::cancel: every pending caller is released with Cancelled.
Cancel ==
    IF client # "Active" \/ vmm # "Active"
    THEN /\ answer' = "err"
         /\ UNCHANGED <<vmmVars, toPeer, client, pending, control, reply, fanout, taken>>
    ELSE /\ vmm' = "AwaitCancelled" /\ outstanding' = {}
         /\ reply' = [c \in Callers |->
                         IF \E q \in pending : q[2] = c THEN "err" ELSE reply[c]]
         /\ pending' = {} /\ taken' = {}
         /\ IF peerUp
            THEN /\ client' = "AwaitCancelled" /\ control' = "cancel"
                 /\ toPeer' = Append(toPeer, Msg("Cancel"))
                 /\ UNCHANGED <<answer, fanout>>
            ELSE /\ client' = "Terminal" /\ fanout' = "observe" /\ answer' = "err"
                 /\ UNCHANGED <<toPeer, control>>
         /\ UNCHANGED <<nextRequest, selected>>

\* PagerClient::shutdown: refused unless the session is active and drained.
Shutdown ==
    IF client # "Active" \/ vmm # "Active" \/ outstanding # {}
    THEN /\ answer' = "err"
         /\ UNCHANGED <<vmmVars, toPeer, client, pending, control, reply, fanout, taken>>
    ELSE /\ vmm' = "AwaitShutdownAck"
         /\ IF peerUp
            THEN /\ client' = "AwaitShutdownAck" /\ control' = "shutdown"
                 /\ toPeer' = Append(toPeer, Msg("Shutdown"))
                 /\ UNCHANGED <<answer, pending, fanout, taken>>
            ELSE /\ Terminalize /\ answer' = "err"
                 /\ UNCHANGED <<toPeer, control>>
         /\ UNCHANGED <<outstanding, nextRequest, selected, reply>>
=============================================================================
