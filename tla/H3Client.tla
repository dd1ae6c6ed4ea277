------------------------------ MODULE H3Client ------------------------------
(***************************************************************************)
(* The client side of ngnet-h3's connection layer (crates/ngnet-h3/src/    *)
(* http): handles and response futures on the application's threads, the   *)
(* driver's pass (driver.rs, run), its park and its teardown, over a QUIC  *)
(* transport that queues events and opens streams up to the peer's limit.  *)
(*                                                                         *)
(* Every acquisition of a lock that a handle also takes is a step of its   *)
(* own; what only the driver can see (registry, nghttp3, transport) moves  *)
(* with the step that precedes it.  Streams are numbered in the order in   *)
(* which they are opened.  Body data is counted in chunks.                 *)
(*                                                                         *)
(* Left out: the server role, trailers, informational heads, QPACK's       *)
(* deferred credit, actions asked for by nghttp3, wake-ups of a body that  *)
(* has stopped, and the release of retained buffers.                       *)
(***************************************************************************)
EXTENDS Integers, Sequences, FiniteSets, Functions

CONSTANTS
    Requests,       \* calls of SendRequest::send_request
    EventsPerPass,  \* Config::events_per_pass
    Streams,        \* bidirectional streams the peer lets the client have open
    Window,         \* receive credit of the connection, in chunks
    Scenes          \* what a behaviour may consist of, one record each (see Scene)

\* calls: the requests that are made; uploads: those with a request body; data:
\* bound on the chunks the peer has for one response; moves: what application,
\* peer and transport may do besides what they must.
Scene == [calls : SUBSET Requests, uploads : SUBSET Requests, data : Nat,
          moves : SUBSET {"drop", "forget", "shutdown", "abort", "invalid", "goaway",
                          "reset", "stop", "badhead", "eof", "fault", "upload error",
                          "congest"}]

ASSUME H3Assumption ==
    /\ IsFiniteSet(Requests)
    /\ {EventsPerPass, Streams, Window} \subseteq Nat \ {0}
    /\ Scenes \subseteq Scene
    /\ \A s \in Scenes : s.uploads \subseteq s.calls

VARIABLES
    \* the application
    pc,         \* where each request's thread is
    unread,     \* chunks its body's drop has yet to credit
    read,       \* chunks it has been given
    result,     \* what it was told in the end
    complete,   \* bodies whose drop found the message complete
    handle,     \* the last SendRequest: "held" or "dropped"
    shutter,    \* a call of SendRequest::shutdown
    prod,       \* the producer of its request body
    \* Slot and Incoming
    slot,       \* Slot: "open", or how it was settled
    bound,      \* Slot::stream is set
    chunks,     \* Incoming::chunks
    finished, failed, abandoned,
    \* Shared and Queue
    queue, resets, credits, ready, asked, gone, refusing,
    registered, \* Inner::driver holds a waker
    notified,   \* the driver's task has been woken
    \* the driver
    drv,        \* where it is
    had,        \* this pass took events
    batch,      \* transport events still to be applied, control before data
    pushback,   \* an event taken while parking
    observed,   \* Events::observed
    cur,        \* the command being submitted, as a set of at most one
    spare,      \* a stream is opened and not used
    registry,   \* requests with an entry
    blocked,    \* streams the transport refused
    peerGone,
    \* nghttp3
    sid,        \* the stream of each request
    str,        \* the sending side of it
    rdshut,     \* requests whose receiving side is shut
    up,         \* its outgoing body
    barred,     \* it has seen a GOAWAY and accepts no further request
    \* the transport and the peer
    opened,     \* streams opened so far
    shut,       \* requests whose stream has closed
    owed,       \* chunks received and not credited
    wire,       \* events the transport holds
    peer, sent, cutoff,
    scene       \* the member of Scenes that this behaviour plays

appVars   == <<pc, unread, read, result, complete, handle, shutter>>
slotVars  == <<slot, bound>>
inVars    == <<chunks, finished, failed, abandoned>>
mailVars  == <<resets, credits, ready, asked>>
flagVars  == <<gone, refusing>>
passVars  == <<had, batch, pushback, observed, cur, spare, blocked, peerGone>>
h3Vars    == <<sid, str, rdshut, up, barred>>
peerVars  == <<peer, sent, cutoff, scene>>
netVars   == <<opened, shut, owed, wire, peerVars>>
vars == <<appVars, prod, slotVars, inVars, queue, mailVars, flagVars, registered,
          notified, drv, passVars, registry, h3Vars, netVars>>

Uploads == scene.uploads
MaxData == scene.data
Moves   == scene.moves

Pcs == {"new", "send", "push", "pushwake", "await", "dropped", "resetwake",
        "body", "credit", "creditwake", "look", "abandon", "unread", "unreadwake",
        "bodyreset", "done"}
\* Slot::fail and Slot::complete: who settled the slot, and how.
Settled == {"head", "closed", "refused", "stream", "body", "invalid", "dropped"}
Control == {"rst", "stop", "closed", "gone"}
Event == [k : {"head", "badhead", "data", "fin", "rst", "stop", "closed"}, r : Requests]
            \union [k : {"goaway"}, cut : Nat] \union [k : {"gone"}]

TypeOK ==
    /\ pc \in [Requests -> Pcs]
    /\ unread \in [Requests -> 0..Window] /\ read \in [Requests -> 0..MaxData]
    /\ result \in [Requests -> Settled \union {"none", "whole", "cut"}]
    /\ prod \in [Requests -> {"idle", "wake"}]
    /\ handle \in {"held", "dropped"} /\ shutter \in {"idle", "refuse", "wake", "done"}
    /\ slot \in [Requests -> Settled \union {"open"}] /\ bound \in [Requests -> BOOLEAN]
    /\ chunks \in [Requests -> 0..Window] /\ credits \in [Requests -> 0..Window]
    /\ {complete, finished, failed, abandoned, resets, ready, cur, registry, blocked,
        rdshut, shut} \subseteq SUBSET Requests
    /\ queue \in Seq(Requests)
    /\ {asked, gone, refusing, registered, notified, had, spare, peerGone, barred}
          \subseteq BOOLEAN
    /\ {batch, pushback, observed, wire} \subseteq Seq(Event)
    /\ Len(batch) <= EventsPerPass /\ Len(pushback) <= 1
    /\ sid \in [Requests -> Nat] /\ opened \in Nat
    /\ str \in [Requests -> {"none", "submitted", "open", "ended", "reset"}]
    /\ up \in [Requests -> {"none", "pull", "deferred", "clean", "failed", "over"}]
    /\ owed \in [Requests -> 0..Window]
    /\ peer \in [Requests -> {"none", "arrived", "acting", "headed", "ended", "reset"}]
    /\ sent \in [Requests -> 0..MaxData] /\ cutoff \in Nat \union {-1}

Zero == [r \in Requests |-> 0]
All(x) == [r \in Requests |-> x]

Init ==
    /\ scene \in Scenes
    /\ pc = [r \in Requests |-> IF r \in scene.calls THEN "new" ELSE "done"]
    /\ unread = Zero /\ read = Zero /\ result = All("none")
    /\ complete = {} /\ handle = "held" /\ shutter = "idle" /\ prod = All("idle")
    /\ slot = All("open") /\ bound = All(FALSE)
    /\ chunks = Zero /\ finished = {} /\ failed = {} /\ abandoned = {}
    /\ queue = <<>> /\ resets = {} /\ credits = Zero /\ ready = {} /\ asked = FALSE
    /\ gone = FALSE /\ refusing = FALSE /\ registered = FALSE /\ notified = FALSE
    /\ drv = "bind" /\ had = FALSE /\ batch = <<>> /\ pushback = <<>> /\ observed = <<>>
    /\ cur = {} /\ spare = FALSE /\ registry = {} /\ blocked = {} /\ peerGone = FALSE
    /\ sid = Zero /\ str = All("none") /\ rdshut = {} /\ up = All("none") /\ barred = FALSE
    /\ opened = 0 /\ shut = {} /\ owed = Zero /\ wire = <<>>
    /\ peer = All("none") /\ sent = Zero /\ cutoff = -1

-----------------------------------------------------------------------------
(* Shared objects                                                          *)

\* Shared::wake_driver: without a registered waker nobody is woken.
Wake == notified' = (notified \/ registered)

\* Slot::fail on each of a set: the first settlement stays.
Fail(rs, how) ==
    [r \in Requests |-> IF r \in rs /\ slot[r] = "open" THEN how ELSE slot[r]]

\* Incoming::fail on each of a set: a finished message stays whole.
FailIncoming(rs) == failed' = failed \union (rs \ finished)

\* Entries leave the registry, their slots and bodies failed.
FailEntries(rs, how) ==
    /\ registry' = registry \ rs
    /\ slot' = Fail(rs \intersect registry, how)
    /\ FailIncoming(rs \intersect registry)

\* Mutant: credit is not work.
HasWork_NoCredit == ready # {} \/ resets # {} \/ asked

\* Shared::inner_has_work
HasWork ==
    ready # {} \/ resets # {} \/ asked \/ \E r \in Requests : credits[r] > 0

\* ClientRole::busy, with ending_pending
Busy == queue # <<>> \/ \E r \in Requests : up[r] \in {"clean", "failed"}

-----------------------------------------------------------------------------
(* The application                                                         *)

Go(r, to) == pc' = [pc EXCEPT ![r] = to]
appRest == <<unread, read, result, complete, handle, shutter>>
driverVars == <<registered, drv, passVars, registry, h3Vars, netVars>>

\* send_request, the first look: a connection that is gone fails the future.
SendGone(r) ==
    /\ pc[r] = "new" /\ handle = "held"
    /\ IF gone THEN Go(r, "await") /\ slot' = Fail({r}, "closed")
               ELSE Go(r, "send") /\ UNCHANGED slot
    /\ UNCHANGED <<appRest, prod, bound, inVars, queue, mailVars, flagVars, notified,
                   driverVars>>

\* Its second look: one that refuses fails it as retriable.
SendRefusing(r) ==
    /\ pc[r] = "send"
    /\ IF refusing THEN Go(r, "await") /\ slot' = Fail({r}, "refused")
                   ELSE Go(r, "push") /\ UNCHANGED slot
    /\ UNCHANGED <<appRest, prod, bound, inVars, queue, mailVars, flagVars, notified,
                   driverVars>>

\* Queue::push
SendPush(r) ==
    /\ pc[r] = "push"
    /\ queue' = Append(queue, r)
    /\ Go(r, "pushwake")
    /\ UNCHANGED <<appRest, prod, slotVars, inVars, mailVars, flagVars, notified,
                   driverVars>>

AfterWake == [pushwake |-> "await", resetwake |-> "done", creditwake |-> "body",
              unreadwake |-> "bodyreset"]

\* wake_driver after a push, a reset or credit, and what comes after it.
WakeDriver(r) ==
    /\ pc[r] \in DOMAIN AfterWake
    /\ Wake
    /\ Go(r, AfterWake[pc[r]])
    /\ UNCHANGED <<appRest, prod, slotVars, inVars, queue, mailVars, flagVars, driverVars>>

\* ResponseFuture::poll
PollFuture(r) ==
    /\ pc[r] = "await" /\ slot[r] # "open"
    /\ IF slot[r] = "head"
         THEN Go(r, "body") /\ UNCHANGED result
         ELSE Go(r, "done") /\ result' = [result EXCEPT ![r] = slot[r]]
    /\ UNCHANGED <<unread, read, complete, handle, shutter, prod, slotVars, inVars, queue,
                   mailVars, flagVars, notified, driverVars>>

\* ResponseFuture::drop settles the slot ...
DropFuture(r) ==
    /\ "drop" \in Moves
    /\ pc[r] = "await"
    /\ slot' = Fail({r}, "dropped")
    /\ result' = [result EXCEPT ![r] = "dropped"]
    /\ Go(r, "dropped")
    /\ UNCHANGED <<unread, read, complete, handle, shutter, prod, bound, inVars, queue,
                   mailVars, flagVars, notified, driverVars>>

\* ... and asks for a reset of the stream, if there is one.
FutureReset(r) ==
    /\ pc[r] = "dropped"
    /\ IF bound[r] THEN Go(r, "resetwake") /\ resets' = resets \union {r}
                   ELSE Go(r, "done") /\ UNCHANGED resets
    /\ UNCHANGED <<appRest, prod, slotVars, inVars, queue, credits, ready, asked, flagVars,
                   notified, driverVars>>

\* IncomingBody::poll_frame takes a chunk ...
ReadChunk(r) ==
    /\ pc[r] = "body" /\ chunks[r] > 0
    /\ chunks' = [chunks EXCEPT ![r] = @ - 1]
    /\ read' = [read EXCEPT ![r] = @ + 1]
    /\ Go(r, "credit")
    /\ UNCHANGED <<unread, result, complete, handle, shutter, prod, slotVars, finished,
                   failed, abandoned, queue, mailVars, flagVars, notified, driverVars>>

\* ... and reports it, Shared::credit.
ReadCredit(r) ==
    /\ pc[r] = "credit"
    /\ credits' = [credits EXCEPT ![r] = @ + 1]
    /\ Go(r, "creditwake")
    /\ UNCHANGED <<appRest, prod, slotVars, inVars, queue, resets, ready, asked, flagVars,
                   notified, driverVars>>

\* Incoming::poll with nothing left: the failure, or the end.
ReadEnd(r) ==
    /\ pc[r] = "body" /\ chunks[r] = 0 /\ r \in finished \union failed
    /\ result' = [result EXCEPT ![r] = IF r \in failed THEN "cut" ELSE "whole"]
    /\ Go(r, "look")
    /\ UNCHANGED <<unread, read, complete, handle, shutter, prod, slotVars, inVars, queue,
                   mailVars, flagVars, notified, driverVars>>

DropBody(r) ==
    /\ "drop" \in Moves
    /\ pc[r] = "body"
    /\ result' = [result EXCEPT ![r] = "dropped"]
    /\ Go(r, "look")
    /\ UNCHANGED <<unread, read, complete, handle, shutter, prod, slotVars, inVars, queue,
                   mailVars, flagVars, notified, driverVars>>

\* IncomingBody::drop looks whether the message is complete, and remembers.
DropLook(r) ==
    /\ pc[r] = "look"
    /\ complete' = complete \union ({r} \intersect finished)
    /\ Go(r, "abandon")
    /\ UNCHANGED <<unread, read, result, handle, shutter, prod, slotVars, inVars, queue,
                   mailVars, flagVars, notified, driverVars>>

\* Incoming::abandon
DropAbandon(r) ==
    /\ pc[r] = "abandon"
    /\ unread' = [unread EXCEPT ![r] = chunks[r]]
    /\ chunks' = [chunks EXCEPT ![r] = 0]
    /\ abandoned' = abandoned \union {r}
    /\ Go(r, IF chunks[r] > 0 THEN "unread" ELSE "bodyreset")
    /\ UNCHANGED <<read, result, complete, handle, shutter, prod, slotVars, finished,
                   failed, queue, mailVars, flagVars, notified, driverVars>>

DropCredit(r) ==
    /\ pc[r] = "unread"
    /\ credits' = [credits EXCEPT ![r] = @ + unread[r]]
    /\ unread' = [unread EXCEPT ![r] = 0]
    /\ Go(r, "unreadwake")
    /\ UNCHANGED <<read, result, complete, handle, shutter, prod, slotVars, inVars, queue,
                   resets, ready, asked, flagVars, notified, driverVars>>

\* A response that was given up abandons its exchange.
DropReset(r) ==
    /\ pc[r] = "bodyreset"
    /\ IF r \in complete THEN Go(r, "done") /\ UNCHANGED resets
                         ELSE Go(r, "resetwake") /\ resets' = resets \union {r}
    /\ UNCHANGED <<appRest, prod, slotVars, inVars, queue, credits, ready, asked, flagVars,
                   notified, driverVars>>

\* The last SendRequest is dropped; no call on it is in progress.
DropHandle ==
    /\ "forget" \in Moves /\ handle = "held" /\ shutter \in {"idle", "done"}
    /\ \A r \in Requests : pc[r] \notin {"send", "push", "pushwake"}
    /\ handle' = "dropped"
    /\ UNCHANGED <<pc, unread, read, result, complete, shutter, prod, slotVars, inVars,
                   queue, mailVars, flagVars, notified, driverVars>>

\* SendRequest::shutdown: request_shutdown's two writes, then wake_driver.
Shutdown ==
    /\ \/ /\ "shutdown" \in Moves /\ handle = "held" /\ shutter = "idle"
          /\ shutter' = "refuse" /\ asked' = TRUE /\ UNCHANGED <<refusing, notified>>
       \/ /\ shutter = "refuse"
          /\ shutter' = "wake" /\ refusing' = TRUE /\ UNCHANGED <<asked, notified>>
       \/ /\ shutter = "wake"
          /\ shutter' = "done" /\ Wake /\ UNCHANGED <<asked, refusing>>
    /\ UNCHANGED <<pc, unread, read, result, complete, handle, prod, slotVars, inVars,
                   queue, resets, credits, ready, gone, driverVars>>

\* BodyWaker::wake_by_ref: a deferred body has more to give ...
Produce(r) ==
    /\ prod[r] = "idle" /\ up[r] = "deferred" /\ r \notin ready
    /\ ready' = ready \union {r}
    /\ prod' = [prod EXCEPT ![r] = "wake"]
    /\ UNCHANGED <<appVars, slotVars, inVars, queue, resets, credits, asked, flagVars,
                   notified, driverVars>>

\* ... and wakes the driver for it.
ProduceWake(r) ==
    /\ prod[r] = "wake"
    /\ prod' = [prod EXCEPT ![r] = "idle"]
    /\ Wake
    /\ UNCHANGED <<appVars, slotVars, inVars, queue, mailVars, flagVars, driverVars>>

-----------------------------------------------------------------------------
(* One pass of the driver                                                  *)

sharedVars == <<slotVars, inVars, queue, mailVars, flagVars>>

\* poll_bind: the three unidirectional streams, once.
Bind ==
    /\ drv = "bind"
    /\ drv' = "events"
    /\ UNCHANGED <<appVars, prod, sharedVars, registered, notified, passVars, registry,
                   h3Vars, netVars>>

\* What the transport has for the driver: the event kept while parking first.
Supply == pushback \o wire

\* Mutant: adapters that report the end of a stream behind other events.
BatchSize_NoGate == IF Len(Supply) < EventsPerPass THEN Len(Supply) ELSE EventsPerPass

\* The adapters begin a batch with an event that ends a stream or the
\* connection (BatchGate, ends_a_stream).
BatchSize ==
    LET sizes == {n \in 0..EventsPerPass :
                     /\ n <= Len(Supply)
                     /\ \A i \in 2..n : Supply[i].k \notin {"closed", "gone"}}
    IN  CHOOSE n \in sizes : \A m \in sizes : m <= n

\* take_events, and the two sweeps of apply_events.
TakeEvents ==
    /\ drv = "events"
    /\ LET took == SubSeq(Supply, 1, BatchSize)
       IN  /\ batch' = SelectSeq(took, LAMBDA e : e.k \in Control)
                         \o SelectSeq(took, LAMBDA e : e.k \notin Control)
           /\ had' = (took # <<>>)
           /\ wire' = SubSeq(Supply, BatchSize + 1, Len(Supply))
    /\ pushback' = <<>>
    /\ drv' = "apply"
    /\ UNCHANGED <<appVars, prod, sharedVars, registered, notified, observed, cur, spare,
                   blocked, peerGone, registry, h3Vars, opened, shut, owed, peerVars>>

Applied(k) ==
    /\ drv = "apply" /\ batch # <<>> /\ Head(batch).k \in k
    /\ batch' = Tail(batch)
    /\ UNCHANGED <<appVars, prod, bound, chunks, abandoned, queue, mailVars, flagVars,
                   registered, notified, drv, had, pushback, cur, spare, blocked, sid,
                   opened, shut, wire, peerVars>>

\* The streams' bodies are asked for nothing more.
Quit(rs) == [r \in Requests |->
                IF r \in rs /\ up[r] \in {"pull", "deferred"} THEN "over" ELSE up[r]]

\* Reset: shutdown_stream_read and fail_stream.
ApplyReset ==
    /\ Applied({"rst"})
    /\ rdshut' = rdshut \union {Head(batch).r}
    /\ FailEntries({Head(batch).r}, "stream")
    /\ UNCHANGED <<finished, observed, peerGone, str, up, barred, owed>>

\* StopSending: shutdown_stream_write.
ApplyStop ==
    /\ Applied({"stop"})
    /\ LET r == Head(batch).r
       IN  /\ str' = [str EXCEPT ![r] = IF @ = "open" THEN "ended" ELSE @]
           /\ up' = Quit({r})
    /\ UNCHANGED <<slot, finished, failed, observed, peerGone, registry, rdshut, barred, owed>>

\* StreamClosed: close_stream.
ApplyClosed ==
    /\ Applied({"closed"})
    /\ LET r == Head(batch).r
       IN  /\ registry' = registry \ {r}
           /\ finished' = finished \union ({r} \intersect registry)
           /\ slot' = Fail({r} \intersect registry, "stream")
           /\ up' = Quit({r})
    /\ UNCHANGED <<failed, observed, peerGone, str, rdshut, barred, owed>>

\* Closed
ApplyGone ==
    /\ Applied({"gone"})
    /\ peerGone' = TRUE
    /\ UNCHANGED <<slot, finished, failed, observed, registry, str, rdshut, up, barred, owed>>

\* Data: read_stream records what it finds.  On a stream whose receiving side
\* is shut it finds nothing, and the octets are credited at once.
ApplyData ==
    /\ Applied({"head", "badhead", "data", "fin"})
    /\ IF Head(batch).r \in rdshut
         THEN /\ owed' = [owed EXCEPT ![Head(batch).r] =
                             IF Head(batch).k = "data" THEN @ - 1 ELSE @]
              /\ UNCHANGED observed
         ELSE observed' = Append(observed, Head(batch)) /\ UNCHANGED owed
    /\ UNCHANGED <<slot, finished, failed, peerGone, registry, str, rdshut, up, barred>>

\* GOAWAY is data of the control stream.
ApplyGoaway ==
    /\ Applied({"goaway"})
    /\ barred' = TRUE
    /\ observed' = Append(observed, Head(batch))
    /\ UNCHANGED <<slot, finished, failed, peerGone, registry, str, rdshut, up, owed>>

\* Role::settle, finish_bodies: a failed body becomes a reset.  advance calls it
\* again, when nothing can have been added: bodies are polled in Transmit.
Settle ==
    /\ drv = "apply" /\ batch = <<>>
    /\ drv' = "drain"
    /\ LET broken == {r \in Requests : up[r] = "failed"}
       IN  /\ FailEntries(broken, "body")
           /\ resets' = resets \union broken
    /\ up' = [r \in Requests |-> IF up[r] \in {"clean", "failed"} THEN "over" ELSE up[r]]
    /\ UNCHANGED <<appVars, prod, bound, chunks, finished, abandoned, queue, credits, ready,
                   asked, flagVars, registered, notified, passVars, sid, str, rdshut,
                   barred, netVars>>

\* resume_stream
Resumed == [r \in Requests |->
               IF r \in ready \ resets /\ up[r] = "deferred" THEN "pull" ELSE Quit(resets)[r]]

\* Mutant: credit is granted and also kept for the next pass.
Drained_Twice == /\ credits' = credits /\ owed' = [r \in Requests |->
                        IF owed[r] < credits[r] THEN 0 ELSE owed[r] - credits[r]]

\* extend, for what callers have read or left unread.
Drained == /\ credits' = Zero /\ owed' = [r \in Requests |-> owed[r] - credits[r]]

\* drain_work, one lock for all of it, and what the driver does with each.  A
\* shutdown queues a GOAWAY of the client's own, which bars the peer's streams.
DrainWork ==
    /\ drv = "drain"
    /\ drv' = "open"
    /\ Drained
    /\ resets' = {} /\ ready' = {} /\ asked' = FALSE
    /\ rdshut' = rdshut \union resets
    /\ str' = [r \in Requests |-> IF r \in resets \ shut THEN "reset" ELSE str[r]]
    /\ up' = Resumed
    /\ UNCHANGED <<appVars, prod, slotVars, inVars, queue, flagVars, registered, notified,
                   passVars, registry, sid, barred, opened, shut, wire, peerVars>>

Room == opened - Cardinality(shut) < Streams

\* While the role needs a stream the driver waits here for one.
OpenStream ==
    /\ drv = "open"
    /\ IF spare \/ queue = <<>>
         THEN UNCHANGED <<opened, spare>>
         ELSE Room /\ opened' = opened + 1 /\ spare' = TRUE
    /\ drv' = "advance"
    /\ UNCHANGED <<appVars, prod, sharedVars, registered, notified, had, batch, pushback,
                   observed, cur, blocked, peerGone, registry, h3Vars, shut, owed, wire,
                   peerVars>>

\* advance takes a command and looks whether it was given up meanwhile.
AdvancePop ==
    /\ drv = "advance"
    /\ IF spare /\ queue # <<>>
         THEN /\ queue' = Tail(queue)
              /\ IF slot[Head(queue)] = "open"
                   THEN cur' = {Head(queue)} /\ drv' = "submit"
                   ELSE UNCHANGED <<cur, drv>>
         ELSE drv' = "dispatch" /\ UNCHANGED <<queue, cur>>
    /\ UNCHANGED <<appVars, prod, slotVars, inVars, mailVars, flagVars, registered, notified,
                   had, batch, pushback, observed, spare, blocked, peerGone, registry,
                   h3Vars, netVars>>

Submitting(r) ==
    /\ drv = "submit" /\ cur = {r}
    /\ drv' = "advance" /\ cur' = {} /\ spare' = FALSE
    /\ UNCHANGED <<appVars, prod, inVars, queue, mailVars, flagVars, registered, notified,
                   had, batch, pushback, observed, blocked, peerGone, rdshut, barred, netVars>>

\* A head that may not be sent, and a connection that takes no more: the
\* caller is told, and the stream is not used again.
SubmitRejected(r) ==
    /\ Submitting(r)
    /\ \/ "invalid" \in Moves /\ slot' = Fail({r}, "invalid")
       \/ barred /\ slot' = Fail({r}, "refused")
    /\ UNCHANGED <<bound, registry, sid, str, up>>

Submit(r) ==
    /\ Submitting(r)
    /\ ~barred
    /\ bound' = [bound EXCEPT ![r] = TRUE]
    /\ registry' = registry \union {r}
    /\ sid' = [sid EXCEPT ![r] = opened]
    /\ str' = [str EXCEPT ![r] = "submitted"]
    /\ up' = [up EXCEPT ![r] = IF r \in Uploads THEN "pull" ELSE "none"]
    /\ UNCHANGED slot

-----------------------------------------------------------------------------
(* dispatch                                                                *)

Dispatched(k) ==
    /\ drv = "dispatch" /\ observed # <<>> /\ Head(observed).k = k
    /\ observed' = Tail(observed)
    /\ UNCHANGED <<appVars, prod, bound, abandoned, queue, mailVars, gone, registered,
                   notified, had, batch, pushback, cur, spare, blocked, peerGone, h3Vars,
                   netVars>>

\* ClientRole::head
DispatchHead ==
    /\ Dispatched("head")
    /\ slot' = Fail({Head(observed).r} \intersect registry, "head")
    /\ UNCHANGED <<chunks, finished, failed, refusing, drv, registry>>

\* A head that is not one: response_head's error ends the connection.
DispatchBadHead ==
    /\ Dispatched("badhead")
    /\ drv' = "end"
    /\ UNCHANGED <<slot, chunks, finished, failed, refusing, registry>>

\* Incoming::push, which takes nothing for a body that was dropped.
DispatchData ==
    /\ Dispatched("data")
    /\ chunks' = [chunks EXCEPT ![Head(observed).r] =
                     IF Head(observed).r \in registry \ abandoned THEN @ + 1 ELSE @]
    /\ UNCHANGED <<slot, finished, failed, refusing, drv, registry>>

\* Incoming::finish
DispatchEnd ==
    /\ Dispatched("fin")
    /\ finished' = finished \union ({Head(observed).r} \intersect registry)
    /\ UNCHANGED <<slot, chunks, failed, refusing, drv, registry>>

\* refuse_from: streams at or above the cut-off.
Above(cut) == {r \in registry : sid[r] >= cut}

DispatchGoaway ==
    /\ Dispatched("goaway")
    /\ refusing' = TRUE
    /\ FailEntries(Above(Head(observed).cut), "refused")
    /\ UNCHANGED <<chunks, finished, drv>>

DispatchDone ==
    /\ drv = "dispatch" /\ observed = <<>>
    /\ drv' = "transmit"
    /\ UNCHANGED <<appVars, prod, sharedVars, registered, notified, passVars, registry,
                   h3Vars, netVars>>

-----------------------------------------------------------------------------
(* Transmit, park                                                          *)

Sendable == {r \in Requests : str[r] = "submitted" \/ (str[r] = "open" /\ up[r] = "pull")}

\* Outgoing::next: a body that is pulled defers, ends, or fails.
Outcomes == IF "upload error" \in Moves THEN {"deferred", "clean", "failed"}
                                        ELSE {"deferred", "clean"}

\* poll_transmit pulls from Offers until nothing more is taken.  Streams that the
\* transport refuses, twice in this pass, are blocked; a failed body carries no
\* end marker.
Transmit ==
    /\ drv = "transmit"
    /\ drv' = "quiet"
    /\ \E no \in IF "congest" \in Moves THEN SUBSET Sendable ELSE {{}} :
       \E out \in [(Sendable \ no) \intersect Uploads -> Outcomes] :
          /\ blocked' = no
          /\ up' = [r \in Requests |-> IF r \in DOMAIN out THEN out[r] ELSE up[r]]
          /\ str' = [r \in Requests |->
                        CASE r \in DOMAIN out -> IF out[r] = "clean" THEN "ended" ELSE "open"
                          [] r \in (Sendable \ no) \ Uploads -> "ended"
                          [] OTHER -> str[r]]
          /\ peer' = [r \in Requests |->
                         IF r \in Sendable \ no /\ peer[r] = "none" THEN "arrived" ELSE peer[r]]
    /\ UNCHANGED <<appVars, prod, sharedVars, registered, notified, had, batch, pushback,
                   observed, cur, spare, peerGone, registry, sid, rdshut, barred, opened,
                   shut, owed, wire, sent, cutoff, scene>>

\* ClientRole::done and an empty registry.
Finished == handle = "dropped" /\ queue = <<>> /\ registry = {}

\* Finished, busy or idle?
Quiet ==
    /\ drv = "quiet"
    /\ drv' = CASE peerGone -> "end"
                [] ~peerGone /\ Finished -> IF HasWork THEN "events" ELSE "end"
                [] OTHER -> IF had \/ Busy \/ HasWork THEN "events" ELSE "register"
    /\ UNCHANGED <<appVars, prod, sharedVars, registered, notified, passVars, registry,
                   h3Vars, netVars>>

\* refresh_driver_and_work_pending: the waker and the second look under one lock.
ParkRegister ==
    /\ drv = "register"
    /\ registered' = TRUE
    /\ drv' = IF HasWork THEN "events" ELSE "poll"
    /\ UNCHANGED <<appVars, prod, sharedVars, notified, passVars, registry, h3Vars, netVars>>

\* The queue once more, then poll_event: an event it takes is kept.
ParkPoll ==
    /\ drv = "poll"
    /\ IF ~Busy /\ wire # <<>>
         THEN pushback' = <<Head(wire)>> /\ wire' = Tail(wire)
         ELSE UNCHANGED <<pushback, wire>>
    /\ drv' = IF Busy \/ wire # <<>> THEN "events" ELSE "parked"
    /\ UNCHANGED <<appVars, prod, sharedVars, registered, notified, had, batch, observed,
                   cur, spare, blocked, peerGone, registry, h3Vars, opened, shut, owed,
                   peerVars>>

\* Woken: with a stream blocked that alone is worth a pass.
Woken ==
    /\ drv = "parked" /\ notified
    /\ notified' = FALSE
    /\ drv' = IF blocked # {} THEN "events" ELSE "register"
    /\ UNCHANGED <<appVars, prod, sharedVars, registered, passVars, registry, h3Vars, netVars>>

-----------------------------------------------------------------------------
(* The end of the driver: DriverGuard::drop                                *)

\* The future is dropped where it waits, or the transport fails under it.
DropDriver ==
    /\ \/ "abort" \in Moves /\ drv \in {"bind", "open", "transmit", "parked"}
       \/ "fault" \in Moves /\ drv \in {"bind", "events", "open", "transmit"}
    /\ drv' = "end"
    /\ UNCHANGED <<appVars, prod, sharedVars, registered, notified, passVars, registry,
                   h3Vars, netVars>>

SetGone ==
    /\ drv = "end"
    /\ drv' = "fail"
    /\ gone' = TRUE /\ refusing' = TRUE
    /\ UNCHANGED <<appVars, prod, slotVars, inVars, queue, mailVars, registered, notified,
                   passVars, registry, h3Vars, netVars>>

FailTracked ==
    /\ drv = "fail"
    /\ drv' = "abandon"
    /\ FailEntries(registry, "closed")
    /\ UNCHANGED <<appVars, prod, bound, chunks, finished, abandoned, queue, mailVars,
                   flagVars, registered, notified, passVars, h3Vars, netVars>>

\* Queue::abandon
AbandonQueue ==
    /\ drv = "abandon"
    /\ drv' = "over"
    /\ queue' = <<>>
    /\ slot' = Fail(Range(queue), "closed")
    /\ UNCHANGED <<appVars, prod, bound, inVars, mailVars, flagVars, registered, notified,
                   passVars, registry, h3Vars, netVars>>

-----------------------------------------------------------------------------
(* The transport and the peer (external)                                   *)

Alive == drv \notin {"end", "fail", "abandon", "over"}

\* An event reaches the transport; a driver that sleeps on it is woken.
Arrives(e) ==
    /\ Alive /\ ~peerGone
    /\ \A f \in Range(wire) \union Range(batch) \union Range(pushback) : f.k # "gone"
    /\ wire' = Append(wire, e)
    /\ notified' = (notified \/ drv = "parked")
    /\ UNCHANGED <<appVars, prod, sharedVars, registered, drv, passVars, registry, h3Vars,
                   opened>>

\* It begins on a request, unless it has said that it will not.
PeerActs(r) ==
    /\ peer[r] = "arrived" /\ (cutoff = -1 \/ sid[r] < cutoff)
    /\ peer' = [peer EXCEPT ![r] = "acting"]
    /\ UNCHANGED <<appVars, prod, sharedVars, registered, notified, drv, passVars, registry,
                   h3Vars, opened, shut, owed, wire, sent, cutoff, scene>>

PeerHead(r) ==
    /\ peer[r] = "acting" /\ str[r] # "reset"
    /\ \E k \in {"head"} \union ({"badhead"} \intersect Moves) : Arrives([k |-> k, r |-> r])
    /\ peer' = [peer EXCEPT ![r] = "headed"]
    /\ UNCHANGED <<shut, owed, sent, cutoff, scene>>

\* Chunks of all streams are bounded by what the connection was granted.
PeerData(r) ==
    /\ peer[r] = "headed" /\ str[r] # "reset" /\ sent[r] < MaxData
    /\ FoldFunction(LAMBDA a, b : a + b, 0, owed) < Window
    /\ Arrives([k |-> "data", r |-> r])
    /\ sent' = [sent EXCEPT ![r] = @ + 1]
    /\ owed' = [owed EXCEPT ![r] = @ + 1]
    /\ UNCHANGED <<shut, peer, cutoff, scene>>

PeerEnd(r) ==
    /\ peer[r] = "headed" /\ str[r] # "reset"
    /\ Arrives([k |-> "fin", r |-> r])
    /\ peer' = [peer EXCEPT ![r] = "ended"]
    /\ UNCHANGED <<shut, owed, sent, cutoff, scene>>

PeerReset(r) ==
    /\ "reset" \in Moves
    /\ peer[r] \in {"arrived", "acting", "headed"} /\ str[r] # "reset"
    /\ Arrives([k |-> "rst", r |-> r])
    /\ peer' = [peer EXCEPT ![r] = "reset"]
    /\ UNCHANGED <<shut, owed, sent, cutoff, scene>>

\* It wants no more of the request's body.
PeerStop(r) ==
    /\ "stop" \in Moves
    /\ peer[r] # "none" /\ str[r] = "open" /\ r \notin shut
    /\ \A f \in Range(wire) \union Range(batch) \union Range(pushback) : f.k # "stop"
    /\ Arrives([k |-> "stop", r |-> r])
    /\ UNCHANGED <<shut, owed, peerVars>>

\* GOAWAY: nothing it has begun is at or above the cut-off.
PeerGoaway ==
    /\ "goaway" \in Moves /\ cutoff = -1
    /\ \E cut \in 1..(Cardinality(Requests) + 1) :
          /\ \A r \in Requests : peer[r] \in {"acting", "headed", "ended"} => sid[r] < cut
          /\ cutoff' = cut
          /\ Arrives([k |-> "goaway", cut |-> cut])
    /\ UNCHANGED <<shut, owed, peer, sent, scene>>

PeerLeaves ==
    /\ "eof" \in Moves
    /\ Arrives([k |-> "gone"])
    /\ UNCHANGED <<shut, owed, peerVars>>

\* Both directions of a stream are over, or were given up here.
StreamCloses(r) ==
    /\ r \notin shut /\ str[r] \in {"ended", "reset"}
    /\ peer[r] \in {"ended", "reset"} \/ str[r] = "reset"
    /\ Arrives([k |-> "closed", r |-> r])
    /\ shut' = shut \union {r}
    /\ UNCHANGED <<owed, peerVars>>

\* A transport that refused a write says when it may be tried again.
Writable ==
    /\ drv = "parked" /\ blocked # {}
    /\ notified' = TRUE
    /\ UNCHANGED <<appVars, prod, sharedVars, registered, drv, passVars, registry, h3Vars,
                   netVars>>

-----------------------------------------------------------------------------
AppStep ==
    \/ \E r \in Requests :
          \/ SendRefusing(r) \/ SendPush(r) \/ WakeDriver(r) \/ FutureReset(r)
          \/ ReadCredit(r) \/ DropLook(r) \/ DropAbandon(r) \/ DropCredit(r)
          \/ DropReset(r) \/ ProduceWake(r)
    \/ shutter # "idle" /\ Shutdown

AppChoice ==
    \/ \E r \in Requests :
          \/ SendGone(r) \/ PollFuture(r) \/ DropFuture(r) \/ ReadChunk(r) \/ ReadEnd(r)
          \/ DropBody(r) \/ Produce(r)
    \/ DropHandle
    \/ shutter = "idle" /\ Shutdown

DriverStep ==
    \/ Bind \/ TakeEvents
    \/ ApplyReset \/ ApplyStop \/ ApplyClosed \/ ApplyGone \/ ApplyData \/ ApplyGoaway
    \/ Settle \/ DrainWork \/ OpenStream \/ AdvancePop
    \/ \E r \in Requests : SubmitRejected(r) \/ Submit(r)
    \/ DispatchHead \/ DispatchBadHead \/ DispatchData \/ DispatchEnd \/ DispatchGoaway
    \/ DispatchDone \/ Transmit \/ Quiet \/ ParkRegister \/ ParkPoll \/ Woken
    \/ SetGone \/ FailTracked \/ AbandonQueue

PeerStep ==
    \/ \E r \in Requests :
          \/ PeerActs(r) \/ PeerHead(r) \/ PeerData(r) \/ PeerEnd(r) \/ PeerReset(r)
          \/ PeerStop(r) \/ StreamCloses(r)
    \/ PeerGoaway \/ PeerLeaves \/ Writable

\* The driver task sleeps and nothing has woken it.
AtRest == drv = "parked" /\ ~notified

\* A driver at rest, without a stream it asked for, or gone may stay so.
Waits == (AtRest \/ drv = "over" \/ (drv = "open" /\ ~Room)) /\ UNCHANGED vars

Next == AppStep \/ AppChoice \/ DriverStep \/ DropDriver \/ PeerStep \/ Waits

Spec == Init /\ [][Next]_vars

-----------------------------------------------------------------------------
(* Correctness                                                             *)

(***************************************************************************)
(* No lost wake-up (driver.rs, run's park; Shared::                        *)
(* refresh_driver_and_work_pending, wake_driver, mark_ready): while the    *)
(* driver sleeps, a command, credit, reset, readiness note or shutdown it  *)
(* has not seen belongs to a thread which has yet to wake it, and no       *)
(* event, observation or body's ending is left over from its last pass.    *)
(***************************************************************************)
NothingWaitsAtRest ==
    AtRest =>
      /\ \A r \in Range(queue) : pc[r] = "pushwake"
      /\ \A r \in Requests : credits[r] > 0 => pc[r] \in {"creditwake", "unreadwake"}
      /\ \A r \in resets : pc[r] = "resetwake"
      /\ \A r \in ready : prod[r] = "wake"
      /\ asked => shutter \in {"refuse", "wake"}
      /\ wire = <<>> /\ pushback = <<>> /\ batch = <<>> /\ observed = <<>>
      /\ \A r \in Requests : up[r] \notin {"clean", "failed"}

DataFor(q, r) == Cardinality({i \in 1..Len(q) : q[i].k = "data" /\ q[i].r = r})

\* Chunks of a response that are under way to its reader or to be credited.
Held(r) == chunks[r] + credits[r] + unread[r] + (IF pc[r] = "credit" THEN 1 ELSE 0)
             + DataFor(wire, r) + DataFor(pushback, r) + DataFor(batch, r)
             + DataFor(observed, r)

(***************************************************************************)
(* Receive credit (read, DrainWork's extend, Incoming::push and abandon,   *)
(* IncomingBody::credit): no chunk is credited twice, and while its        *)
(* exchange is tracked and its body not dropped none is lost either.       *)
(***************************************************************************)
WindowConserved ==
    Alive => \A r \in Requests :
        /\ owed[r] >= Held(r)
        /\ r \in registry \ abandoned => owed[r] = Held(r)

(***************************************************************************)
(* A body that ended without an error was given everything the peer sent,  *)
(* and the peer had ended it (apply_events' two sweeps, close_stream's     *)
(* finish, Incoming::fail): closure reported with data of the same stream  *)
(* behind it would make a truncated message look whole.                    *)
(***************************************************************************)
WholeMeansAll ==
    \A r \in Requests :
        result[r] = "whole" => peer[r] = "ended" /\ read[r] = sent[r]

(***************************************************************************)
(* Once the driver is over, whoever waits without an answer pushed its     *)
(* request after the guard had emptied the queue (DriverGuard::drop,       *)
(* Queue::abandon): everything tracked or queued before is answered, and   *)
(* so is every body.                                                       *)
(***************************************************************************)
AnsweredUnlessLate ==
    drv = "over" => \A r \in Requests :
        /\ pc[r] = "await" /\ slot[r] = "open" => r \in Range(queue)
        /\ pc[r] = "body" => r \in finished \union failed

(***************************************************************************)
(* A request failed as refused, the error a caller may retry, was never    *)
(* begun by the peer (dispatch's Shutdown arm, refuse_from, is_refusing,   *)
(* advance's refusal).                                                     *)
(***************************************************************************)
RefusedIsUnprocessed ==
    \A r \in Requests :
        slot[r] = "refused" => peer[r] \notin {"acting", "headed", "ended"}

(***************************************************************************)
(* Whoever waits, driver or caller, waits for something still to come, but *)
(* for those who came too late to be swept.                                *)
(***************************************************************************)
NobodyWaitsInVain == NothingWaitsAtRest /\ AnsweredUnlessLate

(***************************************************************************)
(* No caller is told an outcome that is not so: refused of a request the   *)
(* peer began, complete of a message that was cut.                         *)
(***************************************************************************)
OutcomesAreHonest == RefusedIsUnprocessed /\ WholeMeansAll

=============================================================================
