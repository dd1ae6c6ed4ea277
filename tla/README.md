# ngnet in TLA+

ngnet is a workspace of Rust crates that put safe, asynchronous layers over
C protocol libraries: HTTP/2 over libnghttp2, HTTP/3 over nghttp3, QUIC over
ngtcp2 and QMux over dwnx, with a pooling HTTP client and an axum server on top.
The libraries parse and frame; what the crates add, and what this project
models, is the concurrency around them: drivers that sleep and are woken,
handles that are cloned and dropped on any thread, futures cancelled at any
await, buffers written in part, shutdowns that must reach everyone.

Paths below are relative to the repository root, and mostly to `crates/`.
`PROJECT.json` maps every definition to its lines and lists the hazards the
properties are for.

## 1. The system

### Components, their state and operations

| component | state | operations | hard because |
|---|---|---|---|
| client pool, `ngnet-util` | one slot per origin (idle, dialing, ready, failed) with a settle counter; acquire count; driver tasks; closed and finished flags | `request`, `acquire`, `dial_into`, `shutdown`, `drain`, the two guards' drops | two locks never held together, cancellation at each await, a drain that outlives its caller |
| HTTP/2 client connection, `ngnet-h2/src/http` | command queue, registry of streams, per-request slot, incoming body, mailbox of credits, resets, readiness and shutdown, inbox of the reading half | `send_request`, polling and dropping futures and bodies, `shutdown`, one driver pass, park, teardown | every mailbox entry races the driver's decision to sleep or to end |
| HTTP/2 server connection, same crate | handler tasks, their wakers, the loss signal of each stream, the drain handle | start, poll, answer, lose, drain | handlers outlive their streams; the cap is enforced against handlers; the last look before an end |
| HTTP/2 write path, same crate | body, records beside the block, list of regions, cursor | coalesced, gathering and owned flush, trailers | partial acceptance, a bounded list, octets that are lent |
| axum server, `ngnet-axum` | registry of connections with abort and drain handles, close channel | accept, register, spawn, backfill, deregister, report, drain, drop | a task may end before its spawn has returned |
| HTTP/3 client connection, `ngnet-h3/src/http` | command queue, registry, slots and bodies, one mailbox emptied as a snapshot, blocked streams, an event kept from parking | as HTTP/2 | the same driver problem, with events applied out of order and a pass that waits for stream capacity |
| HTTP/3 server connection, same crate | handler tasks, resets whose head is in the same batch | start, poll, drain | an exchange that does not exist yet when it is reset |
| QUIC endpoint, `ngnet-quic/src/endpoint` | connection table, dials, accept and detach queues, close datagrams, wakers in three lists | dial, accept, lend, close, give up; receive, expire, flush, evict | look-then-register windows, one poll of bounded length, a driver that dies |
| QUIC retained data, `ngnet-quic/src/retain.rs` | chunks by cumulative offset | stage, commit, acknowledge, forget | the library keeps the address of what it was given |
| QMux connection, `ngnet-qmux/src/io` | outbound buffer with two cursors, read allowance, latched ending | pump, offer, credit, close | ceilings, partial writes, wake-ups |
| HTTP/3 over QMux, `ngnet-qmux-h3` | event batch, one event held back, coalesced credit | pump, translate, open, transmit, finish | what may park the task, and what must come last |
| HTTP/3 over QUIC, `ngnet-quic-h3` | datagram queues shared with the endpoint, event batch, one registered sleep | pump, open, transmit, release, arm | deadlines that move, writes displaced by retransmissions |
| hyperium h3 over QMux, `h3-ngnet-qmux` | a Core behind a lock, waiters per stream, a wake that is deferred | driver poll; accept, open, send, finish, read, stop, reset, drop, close | handles and driver on different threads, two atomics |
| hyperium h3 over QUIC, `h3-ngnet-quic` | a Core behind a lock, wakers by connection and stream, one timer | every poll is also a pass of the connection | no driver: whoever polls must tell everyone else |
| quinn adapter, `ngnet-h3-quinn` | two directions of each stream, releases | translate events | ordering of release and closure |
| session wrappers and bindings | foreign objects | calls across the boundary | memory layout, not ordering |

### How they interact

`Client::request` acquires a `SendRequest` from the pool and calls
`send_request` on it. The pool runs one HTTP/2 driver task per connection and
joins it at shutdown. A driver and its handles share only `Shared`: handles
push into mutex-protected queues and then wake the driver; the driver empties
them each pass and looks at them again before it sleeps. The axum server runs
one driver of the server role per accepted connection and reaches it through a
drain handle and an abort handle. The HTTP/3 layer has the same shape over any
transport that implements its `quic` traits, which the adapters do for quinn,
ngnet-quic and QMux: the adapter's polls run inside the HTTP/3 driver's task. A
QUIC connection is either driven by the endpoint's task or lent to an adapter,
which then shares two datagram queues and two lists of wakers with the endpoint.

### What makes each part correct

- Pool: one dial at a time per origin; nobody parked behind a dial that is not
  happening; shutdown reports completion only when every connection is gone,
  and does report it.
- HTTP/2 and HTTP/3 clients: nothing is queued for a driver that sleeps unwoken;
  everyone who waits on a driver that ends is answered; window is conserved;
  what is called safe to retry was never begun; a complete message is not
  reported as truncated, and one that ends cleanly is complete.
- HTTP/2 server: every handler's waker is where something can call it; a handler
  that outlives its stream is told; no more handlers than the cap; a drain ends
  the connection, once nothing is owed.
- HTTP/2 write path: octets are written once and in order whatever the transport
  takes; frames hold what their headers say; the list of regions fits.
- axum server: the registry does not leak; drain and drop reach every
  connection; the server resolves only when all is closed.
- Endpoint: no caller sleeps on an answer that is there, no work waits for a
  sleeping driver, one owner per connection, a datagram is kept until it is taken.
- Send side of QUIC: what the library may read again is held and what it may not
  is let go; the end is reported only when it was taken.
- The adapters: a parked task has nothing to do; the layer above is told exactly
  what was packed; ends come last; every octet delivered is kept until it is
  taken and credited once; a stream is forgotten only when nobody can reach it.

## 2. The modules

| module | models | granularity |
|---|---|---|
| `ClientPool` | `ngnet-util/src/{pool,client,connect}.rs`, and of a connection only what the pool sees of it | every critical section of either lock is an action; every await is a state |
| `AxumServe` | `ngnet-axum/src/server.rs`, `listener/` | the accept loop and a task per connection |
| `H2Client` | `ngnet-h2/src/http/{client,driver,shared,waker,connection}.rs`, `body/{incoming,outgoing}.rs` | application threads, driver task and peer interleave between any two lock acquisitions |
| `H2Server` | `ngnet-h2/src/http/{server,tasks}.rs` and the driver where the role differs | as `H2Client`; a handler's poll is one step, a wake from outside three |
| `H2Send` | `ngnet-h2/src/{callbacks,session}.rs` (sending), `http/driver.rs` (flush), `http/body/{outgoing,shared}.rs`, `http/transport/mod.rs` | one call of the session or of the transport |
| `H3Client` | `ngnet-h3/src/http/{client,driver,shared,events}.rs`, `body/{incoming,outgoing}.rs`, the event gate of the adapters | as `H2Client`, over a transport that queues events |
| `QuicEndpoint` | `ngnet-quic/src/endpoint/{driver,handle,shared,connection,validate}.rs`, `accept.rs` | handles: one lock or atomic; driver: one stage of its pass |
| `QuicSend` | `ngnet-quic/src/{retain,stream_io}.rs` | one write with its staging and its outcome |
| `StableSend` | the abstract specification of a send stream | |
| `QuicPump` | `ngnet-quic-h3/src`, extends `QuicSend` | one acquisition of the lock shared with the endpoint |
| `QmuxOut` | the write half of `ngnet-qmux/src/io/conn.rs` | one record, one write |
| `QmuxPump` | the rest of `ngnet-qmux/src/io` under `ngnet-qmux-h3/src`, extends `QmuxOut` | one call of the byte stream |
| `QmuxCore` | `h3-ngnet-qmux/src` | one critical section of the Core, one atomic |
| `QuicCore` | `h3-ngnet-quic/src` | one stage of a pass; the lock is held between them |
| `ClientPoolProofs`, `AxumServeProofs`, `H2ClientProofs`, `H2ServerProofs`, `QuicEndpointProofs`, `QuicSendProofs`, `QuicPumpProofs`, `QmuxPumpProofs` | the proofs | |
| `MC...` | the instances TLC checks | |

**Scenes.** In most modules the optional moves of application, peer and
transport (drop a future, reset a stream, break, drain, ...) are chosen by the
initial state: the constant `Scenes` is a set of scenes, each naming who takes
part and what may happen. One run then covers several circumstances without
their product. A scene only removes moves of the environment, never a step of
the code.

**ClientPool.** `pc[r]` follows one call of `Client::request` from the closed
check through `AcquireGuard::register` ("register"), `slot_for` ("slot"), the
decision under the slot lock ("decide"), parking ("waiting"), the dial
("dialing", "file", "publish" or "winddown" and "unpublish"), the release of
the guard and the exchange. `dial`, `ready`, `failedBy` and `gen` are
`Slot::state` and `Slot::settled`; `mapped`, `drivers`, `closed`, `acquires`
are `State`; `drain`, `toWind`, `toJoin`, `finished` are the drain task. A
request dropped mid-dial leaves in two steps because its two guards drop one
after the other: `CancelDial`, `DropDial`. Connections are abstract: open
until their driver ends, which needs no handle and no stream, and possibly
refusing after a GOAWAY.

**AxumServe.** `loop` is the accept loop between awaits and between the
statements that another thread can observe: "insert", "spawn", "backfill". The
select is biased and is modelled so: `PollSelect` looks at the stop signal
first, `PollPending` suspends. A failing listener retries and pauses
(`AcceptFails`, `PaceEnds`), and each failure gives the thread back. A
connection's task runs, ends, removes its entry, reports, and only then releases
its token of the close channel. `DropServer` is possible wherever the loop is
suspended and nowhere else.

**H2Client.** The application side has a small program counter per request, so
that "push, then wake" and "check, push, check again" are separate steps. The
driver's pass is `AdvanceTake`, `AdvanceCheck`, `AdvanceBind` (the role's
queue), `TakeCredits`, `TakeResets`, `TakeShutdown`, `TakeReady` (the mailbox),
`FeedOne`, `DispatchOne` (what was read), `Flush`, then the end conditions and
`Park`, which evaluates its predicate one source at a time. The reading half is
`Poll` and its `intake` signal, bounded by `ReadAhead`. `FailTracked` and
`AbandonQueue` are the guard's teardown. libnghttp2 is external and modelled by
what the driver relies on: a submitted request is queued until flushed; a
stream that is not open ignores a reset; a received GOAWAY closes queued
requests unsent; a stream with a reset pending receives nothing more; and the
receive window is returned only by `consume`. `Flush` may fail and is otherwise
one step; its inside is `H2Send`.

**H2Server.** `running` are the handlers the driver holds, `ready` the shared set
their wakers mark, and `atBody`, `atLoss`, `atOutside` where each left its waker
when it was last polled. Something outside wakes a handler in three steps
(`OutsideUpgrades`, `OutsideMarks`, `OutsideWakes`: upgrade the weak reference,
mark ready, wake the driver) that interleave with the driver's. A pass polls
handlers (`PollBegins`, `HandlerStep`), empties the mailbox, feeds and dispatches,
flushes, checks whether it is done and parks. A handler may read, drop its
request, watch for its loss, wait outside, or return one of every kind of
response. The reading half is collapsed into the pass; dropping a body with a
registered waker deregisters it. The order in which libnghttp2 reports the closures
of one flush is left open.

**H2Send.** A body is a script of frames, pauses and one of its endings. Under the
plan "push" octets are copied into the session's block; under "shared" the callback
leaves a record beside it, and the flush weaves the two. `Coalesce`,
`CoalescedTail` are the one-buffer flush; `CloseRun`, `FrameRecord`, `JoinRun`,
`BlockGoesOut`, `LastBlock`, `GatheredTail` the gathering one, with borrowed and
with owned regions; `WriteSome` takes any positive part of what is offered and
`WriteFails` none. `said` is what the session serialised, `wire` what the transport
took: properties compare the two. Gathering emulated by plain writes gives no
outcome that a native gathering write lacks.

**H3Client.** The application side is that of `H2Client` with this crate's own
steps: `send_request` looks at `gone`, then at `refusing`, then pushes, then
wakes, and looks no more. One pass of the driver is `Bind`, `TakeEvents` (which
orders the batch as the two sweeps of `apply_events` do, control before data),
one `Apply...` per event, `Settle` (bodies that ended), `DrainWork` (the whole
mailbox under one lock), `OpenStream` (which waits when the peer's limit is
reached, and the pass with it), `AdvancePop` and `Submit` per command,
one `Dispatch...` per observation, `Transmit`, `Quiet`. The park is
`ParkRegister` (waker and second look under one lock), `ParkPoll` (the queue,
then the transport, whose event is kept in `pushback`) and `Woken`. The guard's
drop is `SetGone`, `FailTracked`, `AbandonQueue`. nghttp3 and the transport are
external: a stream whose receiving side is shut yields nothing and its octets
are credited at once; payload is otherwise credited only by its reader; a
connection that has received a GOAWAY refuses submissions (the comment at
`ngnet-h3/src/http/client.rs:312` and `tests/body.rs:898`); an adapter reports the
end of a stream or of the connection only at the head of a batch (`BatchGate`,
`ends_a_stream`); a transport that refused a write wakes the task when it may be
tried again. h2 keeps a list of wakers for a cancelled stream, h3 a single one.

**QuicEndpoint.** A task's `pc` follows the futures `Connecting`, `Accepting`,
`Detaching` and their detached forms: look, register, and (only where the code
does) look again. The driver's poll is `PollStart`, `DrainDials`, `Receive` with
`HandOver` and `RingQueue`, `ReadDone`, `Notice`, `Service`, `Flush`, `Evict`,
`Rearm`, repeated at most `Passes` times, and `FailAll`, `FailDials`, `MarkGone`
when the socket fails or the driver is dropped. ngtcp2 and the socket answer with
any outcome the code distinguishes; a datagram is one that begins a connection,
completes its handshake, closes it or is bad, and an unmatched one is accepted,
answered with a Retry or refused. The accept queue is a set: a search rotates it, so
no order of it is promised. `close` and `drop` of a connection may each push a
command (`CloseManaged`, `DropManaged`), and what `Service` writes for them goes into
the connection's slot or, behind it, into the outbox; `owed` counts, peer by peer, what
was written or refused and not yet taken. A hand-over on an endpoint that was not built
to detach fails the connection. The streams of a connection the endpoint keeps are not
modelled.

**QuicSend and StableSend.** The layer offers octets, ngtcp2 takes any part of them
into a datagram and keeps their address; `chunks` and `nextOffset` are retention's
own account of it. `WriteTaken` is one call with its staging, its outcome (cut,
displaced, blocked, gone) and the verdict the layer is told; `Commit` cuts the
staged chunk at what was taken, `Acked` releases. `StableSend` is what the caller
is promised: octets taken once and in order, and kept until confirmed or the stream
is over. `KeepsPromise` is the refinement, an INSTANCE with
`upto <- taken`, `fin <- ended`, the referenced octets for `owed` and the held ones
for `kept`.

**QuicPump.** One task, driven by the HTTP/3 driver's calls. Each call pumps:
register, read what was routed, expire, produce until the outbound queue has no
room, collect what the handlers saw. Then events are handed over in batches
(`PollEmits`, `PollPostpones`), streams are opened (`Opens`, `OpenParks`) and
packets are filled from the stream (`DrainTakes`, `DrainDisplaced`,
`DrainBlocked`, `DrainGone`, `DrainFails`). Every call into ngtcp2 may move the expiry.
`PollParks` arms the sleep. The endpoint's thread
delivers, takes datagrams out and lets time pass between any two steps. `cut` records
that a produce ended at its budget. The peer opens no stream here: what closes
(`StreamDone`) is the driver's own request stream, so `collect` never raises the peer's
limit.

**QmuxOut and QmuxPump.** `outbound` with the cursors `filled` and `written` is
the buffer; records are sequences of units (header, control frame, STREAM header,
octets), so that a write can stop inside one. `QmuxPump` adds the read side with its
allowance, the latched ending, the adapter's event queue with the one event held
back, coalesced credit, opens, offers and their verdicts (`AcceptedOr`), the flush
before a park, and the tail: drain, close record, write, shut down.

**QmuxCore.** The Core is `streams`, `pending`, waiters, `terminal`, `close`. The
driver registers, locks, routes up to a budget, writes, reads, pumps, leaves and
then fires the wakers it collected (`due`); each handle operation is one critical
section followed by its own wakes (`Applies`). `LowerWake` is two atomics: `ready`
and `defer`. While the driver holds the lock others are let in only where it calls
below or gives the lock back, which loses nothing (comment at `Next`). The
connection below is `QmuxPump`'s in less detail.

**QuicCore.** There is no driver: `holder` is the task that polls, `step` the
stage of its pass (read, expire, route, produce, its own operation, re-arm), and
`Delivers` the wakes after the lock. Sends are in units, with what ngtcp2 was given
in `wire`; an offer may be accepted, displaced, blocked by window or pace, or fail, as
may the `produce` at the end of an operation (`ProducedIn`) and an open.
Both handles of a bidirectional stream are retained in one step; the extra no-op
pass of `poll_finish` is merged into the next.

## 3. What TLC checks

| run | instance | shows |
|---|---|---|
| `client_pool` | 2 requests to one origin, 2 connections, 1 shutdown call; dials fail, requests are cancelled, connections refuse or break | `OneDialer`: one dialer per slot. `ShutdownIsHonest`: a shutdown that reports completion left no driver. `AcquireEnds`, `ShutdownCompletes`: with fair scheduling and dials that end, every acquire ends, and a started shutdown completes although its caller gave up |
| `axum_serve` | 3 connections, failing and quiet listeners, stop and drop at any time | `NoLeak`, `DrainReachesAll`, `DropEndsAll`, `DoneMeansClosed`; `StopEnds`: a stop signal ends the server |
| `h2_exchange` | scenes: one exchange of two chunks through a window of one, broken off by caller or peer; one on a connection that fails; one with a deferred request body that may fail; two requests racing GOAWAY and end of input, or the drop of driver and handles | `NobodyWaitsInVain`: no lost wake-up, and a driver that is gone leaves nobody waiting. `NothingLeaks`: window and registry. `ErrorsAreHonest`: refused means unprocessed, whole messages stay whole. `UnsentCancelNeverSent`: a request dropped before it had a stream never reaches the peer |
| `h2_server` | 2 streams, caps of 1 and 2; eight scenes: handlers that outlive reset streams, bodies in both directions, refused heads, drains that race requests and waiting handlers, connections that end | `NobodyWaitsInVain`: no handler or driver waits for what has happened. `HandlersAreBounded`: the cap counts handlers whose stream is gone, and entries and window are accounted for. `DrainIsHonest`, and `DrainEnds` under fairness |
| `h2_send` | both plans over the four kinds of transport, six bodies (several frames, pauses, empty frames past their limit, trailers good and bad, errors), DATA frames of 1 or 2 octets, other frames in between, every short write, failures at every call | `OctetsInOrder`, `ListFits`, `FramesAreWhole` |
| `h3_exchange` | one exchange of two chunks; one with an upload that may fail, stopped or reset; one over a transport that refuses writes; two requests on one stream with GOAWAY at any cut-off, shutdown, early drop of the handle and the driver dropped at any await | `NobodyWaitsInVain`: no lost wake-up, teardown answers all it can reach. `WindowConserved`: no chunk credited twice, or forgotten while somebody may read it. `OutcomesAreHonest`: a body that ends cleanly is complete, refused means unprocessed |
| `quic_endpoint` | one dialer, one detached dialer, one acceptor, one taker, one peer, in fourteen scenes; datagrams, deadlines, refused and failed writes, an endpoint that cannot detach, socket failure, drop | `NobodySleepsOnIt`: no caller sleeps on its answer and no work on a sleeping driver; exempt is a task of `Accepting` or `Detaching` that looks before the event and registers after it. `OneOwner`. `KeptUntilTaken`: no datagram kept for a managed connection's peer is lost or sent twice, in slot or outbox, over refusals and evictions |
| `quic_pump` | a message of 2 octets, packets of 1; four scenes: acknowledgements and stops, timers, a peer that sends and ends, endings and failures | `ParkIsSafe`: a parked task has nothing to do but what a produce that used up its budget left, and a driver parked on its events has a sleep for its deadline. `EndsStartABatch`. `FinIsHonest`. `KeepsPromise`: the send side implements `StableSend` |
| `qmux_pump` | a message of 4 octets in records of 4 units below a ceiling of 9; five scenes, with short writes, refusals, breaks, closes and half closes | `WireIsKept`: what was produced reaches the wire once and in order, within the ceiling. `OfferIsHonest`. `NothingWaitsAtPark`. `EndsComeLast`: the ending told to the layer and the close record told to the peer |
| `qmux_core` | one peer stream of each kind and a local one; nine scenes that receive, send, give up, open at the limit, close, overload and break | `EveryoneIsTold`: at rest no waiting task's poll would return and the driver has nothing to do. `CreditedOnce`. `StreamsRetire`: handed out once, forgotten only when done |
| `quic_core` | two peer unidirectional streams, one bidirectional, one local; nineteen scenes | `NobodyWaitsInVain`: nobody waits for what another's pass found, and the timer stands for the last deadline. `SendsAreWhole`: finished means FIN on the wire after all data. `DeliveredIsKept`: what arrived for a stream somebody can reach is kept |
| `quic_uni_loss` | a unidirectional stream that begins and ends before it is accepted | expected to fail: section 6 |

Every property has a mutant of the mapped code that breaks it, listed in
`PROJECT.json`. `TypeOK` is checked by no run: a type error shows in the others,
and the definitions are kept for the proofs (section 4 says which are proved).

**Why the bounds are enough to be interesting.** Two requests are a dialer and
a waiter, either of which may be cancelled, fail or be overtaken by shutdown;
a third, a newcomer between the settle and the waiter's waking, is covered by
the theorems, which hold for any number. Two connections let one be evicted
and replaced while its last exchange runs. One origin makes all requests contend;
several share only the acquire count, the driver list and the drain, and the
theorems hold for any set of them. Three axum connections let one be set up while a
second ends and a third drains.

- `H2Client`: window 1 and a response of two chunks hold the peer up until credit
  is returned; `ReadAhead` is the code's `READ_AHEAD`, 2, which a head, a chunk and an
  end exceed, and which lets a malformed head and an end be observed in one pass. Two
  requests only where streams differ in their number
  (GOAWAY) or one is queued while another is tracked (teardown).
- `H3Client`: three events per pass are the fewest that let data, end and closure
  of one stream share a batch; one stream makes the second request wait.
- `H2Server`: `MaxStreams` 2, so that a handler outlives its stream while another
  request asks for its place under a cap of 1.
- `H2Send`: `MaxRegions` 3 leaves the list full with one block, a record and its
  successor; `Threshold` 2 and `Limits` {1, 2} give frames below and at it;
  `EmptyLimit` 2 is passed by three empty frames; `MaxCommands` 2.
- `QuicEndpoint`: `Passes` 2 (8 in the code), so that a poll ends with work left;
  `MaxTicks` 1; `MaxAnswers` 2, so that the socket takes one answer and refuses the
  next.
- `QuicPump`: `Queue` 3 (one slot is the close's), `Budget` 2, `Batch` 2; the clock
  to 3, 3 datagrams from the peer, `MaxOwed` 3 packets owed besides data: more than
  `Budget`, so that a produce is cut short at its bound.
- `QmuxPump`: `MaxRecord` 4 holds a record's and a frame's header and two octets,
  `Ceiling` 9 two records and a rest too small for a third, `Pieces` {1, 4} an
  offer that fits and one that does not; `Allowance`, `Batch` and `MaxOffers` 2;
  `MaxControl` 4.
- `QmuxCore`: `Allowance` 2, `Carry` 1, `RouteBudget` 3 (a turn ends with events
  left), `PendingLimit` 1 (a second arrival overloads), `MaxJams` 1.
- `QuicCore`: `Inbound` 2, `Outbound` 1 (every second packet waits), `TimerTurns` 2,
  the clock to 3, `MaxDisplaced` 1.

**Symmetry** is used for requests in `h2_exchange` and `h3_exchange`, which check
safety and whose sets of scenes treat requests alike.

**Deadlock** is checked where the module has a step that stutters when all work is
over, so a state in which somebody still waits and nothing can happen is reported.
`h2_send`, `h2_server`, `qmux_core`, `quic_core` and `quic_uni_loss` say
`CHECK_DEADLOCK FALSE`: these systems come to rest whenever peer and application
have nothing more to do, and their `...InVain`, `...Told` and parked-means-flushed
properties say what must not be left over when they do.

**Fairness.** Weak fairness only:

- a task that was woken is polled, a handler's poll returns, and a thread inside a
  call leaves it (`LoopStep`, `DrainStep`, `TaskStep`, `H2Server`'s `DriverStep` and
  `ThreadStep`): the runtime's contract, and no lock of this code is held across
  an await;
- a dial, an exchange, and a connection that was asked to drain end one way or
  another (`RequestStep`, `TaskEnds` of a drained connection). The code sets
  no deadline by design and says that the caller is to bound these
  (`ngnet-util/src/client.rs`, "There is no deadline"), so shutdown completes
  only under that assumption;
- a driver with no handle and no stream returns (`DriverEnds` in `ClientPool`),
  which is what `H2Client` models in detail.

Nobody is obliged to send a request, read or drop a body, call shutdown or give
up on one, and the peer and the network owe nothing: `DrainEnds` speaks of a
connection whose streams are gone. The other modules state their liveness in its
safety form, which needs no fairness beyond "a woken task is polled": whoever is
parked and unwoken has nothing it could do. What that form does not say is that a
pass, once begun, achieves what it was woken for; for HTTP/3's writability wake
(`ngnet-h3/src/http/driver.rs:1022`) no property does.

## 4. What is proved

Eight modules are checked by TLAPS, for every value of the constants that satisfies
the assumptions their specifications name:

| module | for every | assumption |
|---|---|---|
| `ClientPoolProofs` | finite set of requests, any origins, connections, callers | `PoolAssumption` |
| `AxumServeProofs` | set of connections | none |
| `H2ClientProofs` | finite set of requests, read-ahead, window, scenes | `H2Assumption`: read-ahead and window are positive, scenes are scenes |
| `H2ServerProofs` | number of streams, caps, scenes | `ServerAssumption`: these are numbers and scenes |
| `QuicEndpointProofs` | set of connections and callers, passes of a poll, scenes | `EndpointAssumption`: a connection is dialled, dialled detached or incoming, a task makes one kind of call, a poll has a pass |
| `QuicSendProofs` | message length, packet size | `SizeAssumption` |
| `QuicPumpProofs` | bounds of queues, batches and passes, clock, traffic | `SizeAssumption`; `QueueAssumption`: a queue has two slots at least (one is the close's), the others are numbers, positive where the code has them so; nothing relates what is owed to the budget |
| `QmuxPumpProofs` | record size, buffer ceiling, message length, piece sizes, read-ahead, batches, offers, scenes | `RecordAssumption`: a record has room for a header, a frame and an octet; `CeilingAssumption`: the buffer for a record; `PumpAssumption`: the others are numbers, and positive where the code has them so |

**The pool.** The stated invariants are not inductive. `PoolInv` adds:

- `HoldsDialled`: a request about to file, publish or wind down has a handle;
- `SeenIsPast`: a captured generation is not ahead of its slot's, without which a
  settle might "reach" a waiter's generation again;
- `DrainOrder`: how far the drain has got and what that excludes. The count is
  exact (`CountIsExact`), so the drain passes its wait only when nobody is inside
  `acquire`; `closed` keeps others from entering, so this lasts; hence no claim
  is open when slots are overwritten, and every driver was filed before the list
  was taken.

From it follow `TypeCorrect`, `SingleFlight`, `BellsAreHeard`,
`CountsAndDrivers`, `HonestShutdown`, and the action property
`BellOnEverySettle`, whose one difficult step is the drain's, which overwrites
slots without ringing.

**The axum server.** `ServeInv` adds `SetupOrder` (what a connection being set up
has), `LiveIsKnown` (a task that has not deregistered has an entry, one that has
not reported holds a token), `LiveIsAbortable` (a live task has its abort handle
unless the loop is between spawn and backfill, where it cannot be dropped),
`DrainProgress`, `FailuresHeld` and `ClosedHolds`. From it follow
`RegistryDoesNotLeak`, `EveryoneIsDrained`, `ResolvesWhenClosed`,
`DropAbortsEveryone`.

**The send side of QUIC.** `SendInv` is `SendTypeOK`, `OffsetsAgree` (retention's
offset is the library's and the layer's, while the entry lives), `FinIsHonest`,
`EveryOctetHeld` (each octet the library may read again lies in a retained chunk)
and `HeldIsReferenced` (the converse: no chunk is kept for nothing). The argument
turns on `OffsetsAgree`: an acknowledgement is an offset of the library's, and
releases the right chunks only because retention counts the same octets. From it
follow `SendKeepsReferenced`, `SendLetsGo`, `SendFinIsHonest`, and `SendImplements`:
every step of `QuicSend` is a step of `StableSend` or changes nothing it can see.

**The pump around it.** `QuicPumpProofs` extends that proof. `PumpInv` adds
`PassOrder` (which call is at which step, and that an empty batch has let go of
`emitted`), `ClosedEnds` (a closed connection is neither waited for nor written to),
`ReadBehind` (the task registered before it read, so what is unread has woken it),
`OwedWaits` (a produce ends for want of packets, of room that it is registered
for, or with its budget, and then it is `cut`) and `ShelvedWaits` (a stream set aside is offered again by a pass that something
will start). `PumpInvariant` proves it together with `SendInv`, and that every step
of the composition is a step of `QuicSend` or none: the adapter adds no write and no
release of its own. From it follow `PumpParksSafely`, `PumpEndsStartABatch`,
`PumpFinIsHonest` and `PumpKeepsPromise`, the refinement of `StableSend` by the whole
pump. What is hard is that a park is safe for a reason laid down several steps before
it, under a lock that was released in between; each layer carries one such reason
along the steps of a pass.

**The QUIC endpoint.** `EndpointInv` has layers, each proved from those before it.
`Owned` says who can still get a connection: only what was asked for detached is
handed over, and from the table (`HandedOver`); a dial is in the table only after it
left the list (`DialsFirst`); a peer opens a connection once and it goes one of two
ways (`OpenedByPeer`); who was given one is its only holder (`Given`).
`DriverAwake` says that work arriving behind the stage that would take it has woken
the driver. `DialsTold`, `LentTold`, `AcceptsTold` say, for each kind of caller, with
what it is registered before it looks again, and that none of it has happened. From it
follow `EndpointTypeCorrect`, `ConnectionsHaveOneOwner` and `EndpointNobodySleeps`.
`EndpointNobodySleeps` does not speak of `late` tasks, those that register after what
they wait for has rung: those may sleep for good (section 6).
`ManagedDatagramsKept` counts: every step that sets a datagram aside, moves it between
slot, outbox and owner's queue, or gives it to the socket changes `owed` and `Kept`
alike, and eviction, the only step that throws one away, spares a managed connection
whose slot is full and the outbox of everybody.

**The HTTP/2 client.** `ClientInv` is the types and

- `Place`: where a pass is, what it has drained and observed there, and that a driver
  past its end tracks nothing;
- `Commands`: a command is pushed once, is in the queue or in the batch, and has no
  stream there; `Unbound`: without a stream there is no entry, no head and no end;
- `Awaited`: a future that waits for an answer is queued, drained or tracked, and a body
  in somebody's hands is tracked or has its end;
- `Refusals`: the peer has begun nothing above what its GOAWAY named, and a slot failed
  as refused is of such a stream or never had one;
- `Heads`: a response has one head, good or malformed, and a malformed one finds its slot
  without a head;
- `Tracked`: a stream the session can report on has its entry, an entry whose stream has
  closed has the closure among the events, and a GOAWAY among them finds nothing open
  that it refuses;
- `WindowConserved` and `Unreported`: every chunk taken is queued, observed, reported, or in
  the hands of a thread at the step that reports it;
- `Reading`: the reading half waits on an empty transport with its waker left, or on an
  inbox that the pass is about to empty;
- `ParkedQueue`, `ParkedSets`, `ParkedInbox`: each conjunct of the park predicate that was
  found true still is, but for a thread whose wake is owed.

From it follow `H2ClientTypes`, `H2ClientNobodyWaitsInVain`, `H2ClientNothingLeaks`,
`H2ClientErrorsAreHonest` and the action property `H2ClientCancelIsKept`. The proof found
that `WholeMessagesStayWhole` could not say that no message is both finished and failed:
a malformed head and the end behind it, observed in one pass, leave its `Incoming` both
(`fail`, then `finish`), which a read-ahead of one buffer hides. It is said of responses
whose head a caller can have, and the runs use the code's read-ahead.

**The HTTP/2 server.** Most of what goes wrong here is between queues: the peer's
frames, the session's events, the mailbox, and the registry that follows them. The
proof speaks of a queue through a few predicates (`HasHead`, `OneHead`, `Says`,
`ClosesLater`, `InOrder`), with lemmas on taking the first, appending and
concatenating. `ServerInv` is the types and

- `Phases`: what each stage of a pass holds, and what it has put down;
- `Waiting`: every handler is ready, being polled, about to be marked by a thread
  that has upgraded its waker, or has left its waker somewhere;
- `Told`: a handler whose stream is gone is told, and nobody waits for a loss or the
  end of a request that has happened; `Dry`: nor for a chunk that is there;
- `Fresh`: the peer opens its streams in order and once each, and a stream unknown
  to the session but not to the peer has its head on the wire;
- `Pending`: session, registry and events agree about each stream: one the session
  has is tracked or its head is to come, and the entry of a closed one has its
  closure to come, behind its head;
- `Answered`: a stream that closed was answered, given up by an end, or left out by
  the GOAWAY; `Goaway`: it names streams that were taken, once a drain was heard;
- `Window`: what the session took and was not given back is in the events, in a body
  or in the mailbox;
- `ParkQuiet`: what the park predicate has looked at, source by source, stays so but
  for a thread that has still to wake the driver;
- `Capped`: the handlers, those of closed streams included, are within the cap.

From it follow `ServerTypeCorrect`, `ServerNobodyWaits`, `ServerHandlersBounded` and
`ServerDrainIsHonest`. `Pending` is the centre: that a closure is always reported
behind its head, in whatever order a flush reports closures, is what keeps the
registry from leaking an entry and a handler from being left without its loss.

**HTTP/3 over QMux.** `QmuxPumpProofs` covers the write half (`QmuxOut`) and the task
above it (`QmuxPump`) together. `PumpInv` is the types and

- `Buffer`: wire and buffer together are what was produced, within the ceiling, and a
  buffer that is written out starts again at its front (`Tidy`);
- `Account`: what was delivered and not credited is with the adapter, the application
  or the deferred sum, so the sum never credits more than was delivered;
- `Order`: which step belongs to which call, and which pump to which step;
- `Endings`, `TailOrder`: an ending is latched below before it is told above, and how far
  the tail is says what is written;
- `Queued`, `Full`, `Unwritten`: what dwnx has queued is noticed, a pump ends with it
  produced or without room, and what has no room was offered to the byte stream;
- `Unread`: a pump that returns has read, or has left its waker where more will come,
  and this lasts through the rest of the call to the park;
- `Seen`: what `poll_event` has looked at when it decides;
- `Shelved`: a stream set aside waits for the window, for room, or for a pass that an
  event already taken will start;
- `Finality`, `OfferIsHonest`: octets and end of the message, in the middle of an offer
  too; `Batches` and `Closed`: endings and the close record.

From it follow `QmuxTypes`, `QmuxWireIsKept`, `QmuxOfferIsHonest`,
`QmuxNothingWaitsAtPark` and `QmuxEndsComeLast`. Two things are hard. A record's units
are appended to a sequence whose octets, counted from its beginning, must stay
`1..(sent + taken)` in order: `OfferFits` says what a record of an offer holds for every
room, window and number of control frames in front of it, and `HonestGrows` that this
continues the sequence. And a park is safe for what two or three earlier pumps left
behind: `Unread`, `Unwritten` and `Shelved` name, at every step of a pass, what the next
one may still rely on.

All eight have one case per action and below it one per conjunct the action
can disturb. There is no assumption beyond the named ones.

**Only model-checked.** The safety of `H2Send`, `H3Client`, `QmuxCore` and `QuicCore`, and all
liveness: `AcquireEnds`, `ShutdownCompletes`, `StopEnds`, `DrainEnds`. Liveness under fairness and ENABLED are
out of this prover's reach, as is what a recursive definition computes for every input.

## 5. What is not modelled

- HTTP/3 server role (`ngnet-h3/src/http/{server,tasks}.rs`): the shape of
  `H2Server` over the driver of `H3Client`; see the plan.
- HTTP/3 releases and tombstones, deferred QPACK credit, actions nghttp3 asks for;
  trailers and informational heads in both clients.
- The streams of a QUIC connection that the endpoint itself keeps
  (`endpoint/driver.rs` 502-620).
- The quinn adapter: it stands over a third-party library whose wake-ups and
  states a model would have to invent.
- QMux's buffered write (`poll_write_stream`, `park_credit`), the early flush of
  `MAX_PENDING_STREAMS` and its clock; `WORK_BUDGET` of `h3-ngnet-quic`.
- The adapters of ngnet-h2's transports over tokio and compio: they forward.
- The rules of `head.rs`, `origin.rs` and `header.rs`: pure validation; the models
  keep only whether it accepts.
- The C libraries and the wrappers' pointer discipline: external. So are libnghttp2's
  own frames in `H2Send`.
- TLS, packet protection and token cryptography.
- Diagnostics, test transports, generated bindings.

The map covers less than a fifth of the repository's lines. The models stand for the
asynchronous layers and the adapters, where the concurrency is; the larger part is
wrappers over the C libraries (some 15 000 lines), the TLS bridge, diagnostics,
in-memory transports for tests, and validation, in which there is no order of events
to get wrong and nothing a state machine would add.

## 6. Where code and comment disagree

`quic_uni_loss` is a run in which TLC exhibits the behaviour: a unidirectional
stream whose data and FIN arrive in one datagram is closed by ngtcp2 at once.
`route_observed` removes a closed stream's entry when `handles == 0`
(`h3-ngnet-quic/src/pump.rs:231`, "nothing can reach this entry again"), but its id
still waits in `accept_uni`: it is handed out with an empty entry, and its reader
parks for good. The passing run `quic_core` has no scene in which a unidirectional
stream ends before it is accepted.

The following were met while modelling and are not given a run.

*Pool and axum.*

- A waiter of the pool that wakes and is overtaken by a newcomer's claim is
  answered with the newcomer's failure, because `waited` stays set (`pool.rs:285`;
  the comment at 286 says it waited for the dial that failed).
- `closed` is read when a driver is filed; a shutdown before the settle leaves the
  connection published and returned (`pool.rs:393` against the comment at 384).
  `HonestShutdown` is not affected: the request is still counted.
- ngnet-axum's `on_error` says it is invoked "whether accepting or on a
  connection"; accept failures are swallowed by the retry and never reported.

*HTTP/2.*

- A response future dropped after its head was delivered and before it was polled
  resets nothing (`client.rs:565` against 547).
- A future dropped between the driver binding its stream and the same pass taking
  the resets asks for the reset of a stream whose request is still queued; it is
  discarded and the request is sent (`driver.rs:711` against `client.rs:563`).
- `driver.rs:812` ends a quiet connection without looking at the command queue
  again; `send_request`'s second look answers the caller. After `shutdown()` the
  driver does not finish while a handle is held (`client.rs:499`).
- A request still queued when a GOAWAY arrives is closed by the library and
  reported as a stream error, which is not retriable (`driver.rs:1146`).
- `drain()` called between `take_shutdown` and the done check (`driver.rs:812`) ends
  an idle connection without a GOAWAY (`connection.rs:95`,
  `docs/h2/pending-work.md:215`). `DrainIsHonest` exempts it.
- The GOAWAY's last stream is computed at `take_shutdown`, before the same pass
  feeds its input (`driver.rs:716-726`, `session.rs:966`). Handlers whose stream is
  gone are dropped at the end of a drain and at end of input.

*HTTP/3.*

- `send_request` reads `gone`, the driver is dropped and empties its queue, the
  request is pushed (`client.rs:133`): its future never resolves, against
  `doc_driver_guarantee.md:37`. `AnsweredUnlessLate` shows that a driver that is gone
  leaves nobody else waiting. ngnet-h2 looks again after pushing.
- A chunk that arrives between the drop of a response body and the pass that
  resets its stream is thrown away without credit (`shared.rs:590` against
  `body/incoming.rs:123`); `WindowConserved` exempts abandoned requests.
- Dropping the last handle wakes nobody (`client.rs:99-101`). A future dropped between
  `is_settled` and `bind` finds no stream to reset and the request is sent
  (`client.rs:282-335`). A refused head or submission uses up an opened stream
  (`client.rs:286-332`).
- At the stream limit `poll_open_bi` stops the whole pass, credit and resets included
  (`docs/h3/design.md:52`, `driver.rs:924`); over QMux the credit that would let the
  connection read on is then not returned either.

*QUIC endpoint.*

- A detached connection's close datagram is taken out of its owner's queue by
  `next_datagram` (`endpoint/driver.rs:676`), refused by the socket and kept in
  `pending`; the same pass's `evict` asks only `is_terminal` and `has_outbound`
  (`driver.rs:782`) and removes the entry with it, although "evicting one with a close
  datagram still queued would drop the packet that tells the peer why"
  (`driver.rs` 760-762). `KeptUntilTaken` speaks of the connections the endpoint
  drives; asked of every connection, TLC finds it violated in this way.
- `Accepting::poll` looks at `is_gone`, registers, and looks again at the accept queue
  only (`handle.rs` 766-775); `Detaching::poll` looks at nothing after it has registered
  (`handle.rs` 561-573). A driver dropped in between has rung already, and the task
  sleeps for good, although "the useful behaviour is for every pending operation to fail
  at once rather than wait for a driver that will never run" (`handle.rs` 1206-1208). A
  connection delivered, or a detached dial failed, between look and registration of
  `Detaching::poll` is missed in the same way, and so is a `connect` that looks at
  `is_gone` before the drop and pushes after it. `SleepersAreTold` names these tasks
  (`late`) and shows that nobody else sleeps; without that exemption TLC finds it
  violated.
- A deadline that is still due after the last of its bounded passes leaves the driver
  parked with no sleep registered and no wake of its own (`handle.rs` 1175-1192).
  `NothingWaitsForSleeper` allows that case and no other: every pass of the poll found
  a deadline passed.
- An abandoned `connect_detached` strands its connection (`handle.rs:526-529`);
  dropping `Connecting` leaves a connection nobody closes; `absorb` discards the
  `LocallyOpened` of a cancelled open; `take_ready` rotates arrivals out of order; a
  blocked open is requeued and spins; a managed `write` may be overtaken
  (`driver.rs` 502-620, comment at 542); some endings are not marked on the connection
  (`driver.rs` 682, 720-736 against 762-767).

*ngnet-quic-h3 and ngnet-qmux-h3.*

- A drain that stops for want of room leaves no blocked stream behind, so room alone
  wakes a pass that tries nothing (`ngnet-quic-h3/src/transmit.rs` 42-48,
  `ngnet-qmux-h3/src/transmit.rs:49`, `ngnet-h3/src/http/driver.rs:1014`). The parked
  properties speak of a message that was set aside, not of one that was never offered.
- `poll_open` parks at the stream limit without arming the timer
  (`ngnet-quic-h3/src/connection.rs` 305-310 against `pump.rs` 215): `DeadlineArmed`
  speaks of a driver parked on its events.
- A produce cut short at its bound of 64 (`pump.rs:167`) leaves packets owed, registers
  for no capacity and wakes nobody: it relies on the expiry, or on a drain, to be called
  again. `NothingWaitsAtPark` exempts what such a produce left (`cut`), and a stream set
  aside by the drain that ran behind it; TLC finds either one violated without its
  exemption.
- After the closed event the same pass's `poll_transmit` returns an error
  (`pump.rs` 71-80 against `ngnet-h3`'s `quic.rs`, about 185). `docs/quic-h3/design.md`
  127-128 contradicts `transmit.rs` 93-103.
- QMux's `poll_open` returns the ending ahead of events decoded before it; the wake of
  read-ahead on credit and the flush of credit in `poll_flush` are redundant.

*h3-ngnet-qmux and h3-ngnet-quic.*

- `LowerWake` is stored with Release and read with Acquire: the store and the load
  of the two atomics may pass each other (`state.rs:117` against `end_defer`). The
  model is sequentially consistent.
- `poll_send` looks at the ending under one lock and parks under another
  (`stream.rs` 366-436). Internal failures met by a handle, and endings latched below,
  end the Core without waking the driver or routing what was decoded; `poll_data`
  reports the ending ahead of queued data.
- An idle timeout met inside `rearm` wakes nobody, against
  `docs/h3-ngnet-quic/invariants.md`, nor does a failure of the `produce` there;
  `TasksAreTold` leaves both out, and leaves to the timer a pace that was released and the
  failure that an offer, an open or an operation's own `produce` met (`core.fail` alone
  wakes nobody). A pass that handles a passed deadline cancels
  the wake that was for it.
- `Accepted(0)` of a non-empty offer and a `produce` without room return pending
  without registering for it; events read before a CONNECTION_CLOSE in one pass are
  never routed; `StreamGone` cannot be reached.

## 7. Plan

1. `H3Server` and `H3Releases`: handlers, resets that arrive with their head, the
   drain; offsets acknowledged and released, tombstones and their eviction
   (`ngnet-h3/src/http/driver.rs:93`).
2. `QuinnLifecycle`: the two directions of a stream, releases before closure, one
   closure per stream.
3. The managed streams of `QuicEndpoint`.

Abstract specifications worth stating next: the pool as "at most one live claim per
origin, and a completion that means empty", implemented by `ClientPool`; a
mailbox with a sleeping consumer ("whatever is put is taken"), implemented by
the drivers; a buffered channel that `QmuxOut` and `H2Send` implement.

Theorems worth proving next: `H3Client`'s `WindowConserved` and `NobodyWaitsInVain`, along
the layers of `H2ClientProofs`; then `H2Send`'s `OctetsInOrder`.
