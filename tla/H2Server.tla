------------------------------ MODULE H2Server ------------------------------
(***************************************************************************)
(* One server connection of ngnet-h2's asynchronous layer (http/server.rs, *)
(* http/tasks.rs, and http/driver.rs where the role differs): handlers are *)
(* futures the driver holds and polls itself, each with a waker of its own *)
(* that names its stream.  Handlers outlive their streams, are told of     *)
(* their loss, and are counted against the connection's cap; a drain ends  *)
(* the connection once no stream is left.                                  *)
(*                                                                         *)
(* A handler does what it likes when polled: reads its request, drops it,  *)
(* asks to be told of its stream's loss, waits for something outside, or   *)
(* returns a response.  What is outside wakes it from another thread, as   *)
(* the response's body and the caller of Drain::drain do.  libnghttp2 is   *)
(* reduced to what the layer sees of it, as in H2Client, where the steps   *)
(* between the reading half and the driver are also told apart.            *)
(***************************************************************************)
EXTENDS Integers, Sequences, FiniteSets

CONSTANTS
    MaxStreams, \* bound: requests the peer makes, on streams 1..MaxStreams
    Scenes      \* what a behaviour may consist of (see Scene)

Streams == 1..MaxStreams

\* cap: max_concurrent_streams; requests, data: bounds on the requests the peer makes and on
\* the chunks of one; moves: what handlers, the caller, the peer and the transport may do
\* besides what they must.
Scene == [cap : Nat \ {0}, requests : 0..MaxStreams, data : Nat,
          moves : SUBSET {"read", "watch", "outside", "body", "bad head", "bad request",
                          "bad trailers", "reset", "drain", "eof", "write error", "abort"}]

ASSUME ServerAssumption == MaxStreams \in Nat /\ Scenes \subseteq Scene

VARIABLES
    \* Tasks, and what its handlers wait for
    running,    \* streams whose handler is alive
    ready,      \* Ready
    atBody,     \* handlers whose waker Incoming holds
    atLoss,     \* handlers whose waker CancelState holds
    atOutside,  \* handlers whose waker something outside holds
    waker,      \* each HandlerWaker outside: "idle", "upgraded", "marked"
    losses,     \* ServerRole::losses
    lost,       \* streams whose CancelState has tripped
    \* Incoming of each request
    chunks, finished, failed, unwanted,
    \* Shared and Registry
    registry, credits, resumable, draining, shutdown, notified,
    prod,       \* the producer of a response's body: "idle", "wake", "done"
    drainer,    \* one call of Drain::drain: "idle", "wake", "done"
    \* the driver task
    drv, parkAt, woken, polled, events, ended,
    \* the session
    str,        \* each stream: idle, open, rst (reset submitted), closed
    rended,     \* streams whose request has ended
    resp,       \* each response: none, whole, held, deferred, resumed, sent, or a reset
    owed,       \* chunks received on each stream whose window is not given back
    seen,       \* last_processed_stream
    named,      \* the last stream the GOAWAY submitted names, -1 before
    said,       \* it has been sent
    \* the peer
    peer, sent, wire,
    scene

taskVars == <<running, ready, atBody, atLoss, atOutside, waker, losses, lost>>
inVars   == <<chunks, finished, failed, unwanted>>
noteVars == <<credits, resumable, draining, shutdown>>
sideVars == <<prod, drainer>>
passVars == <<parkAt, woken, polled, ended>>
sessVars == <<str, rended, resp, owed, seen, named, said>>
peerVars == <<peer, sent, scene>>
vars == <<taskVars, inVars, registry, noteVars, notified, sideVars, drv, passVars, events,
          sessVars, peerVars, wire>>

Moves == scene.moves
None == [s \in Streams |-> 0]
All(what) == [s \in Streams |-> what]

DriverPcs == {"advance", "poll", "credits", "shutdown", "resume", "feed", "dispatch", "flush",
              "dispatch2", "check", "park", "parked", "over"}

\* What the connection below reports, and what the peer sends.
Events == [k : {"head", "bad request", "data", "end", "bad trailers", "close"}, s : Streams]
Frames == [k : {"head", "bad request", "data", "end", "bad trailers", "rst"}, s : Streams]
            \union {[k |-> "eof"]}

TaskTypes ==
    /\ running \subseteq Streams /\ ready \subseteq Streams /\ woken \subseteq Streams
    /\ atBody \subseteq Streams /\ atLoss \subseteq Streams /\ atOutside \subseteq Streams
    /\ waker \in [Streams -> {"idle", "upgraded", "marked"}]
    /\ losses \subseteq Streams /\ lost \subseteq Streams /\ registry \subseteq Streams
    /\ finished \subseteq Streams /\ failed \subseteq Streams /\ unwanted \subseteq Streams
    /\ resumable \subseteq Streams /\ rended \subseteq Streams

PassTypes ==
    /\ draining \in BOOLEAN /\ shutdown \in BOOLEAN /\ notified \in BOOLEAN /\ said \in BOOLEAN
    /\ drv \in DriverPcs /\ parkAt \in {1, 2, 3, 4} /\ polled \in {0} \union Streams
    /\ ended \in {"no", "eof", "error", "drained", "dropped"}
    /\ drainer \in {"idle", "wake", "done"}

SessionTypes ==
    /\ str \in [Streams -> {"idle", "open", "rst", "closed"}]
    /\ resp \in [Streams -> {"none", "whole", "held", "deferred", "resumed", "sent", "reset"}]
    /\ peer \in [Streams -> {"idle", "open", "ended", "reset"}]
    /\ prod \in [Streams -> {"idle", "wake", "done"}]

QueueTypes ==
    /\ events \in Seq(Events) /\ wire \in Seq(Frames)
    /\ scene \in Scenes

CountTypes ==
    /\ chunks \in [Streams -> Nat] /\ credits \in [Streams -> Nat] /\ sent \in [Streams -> Nat]
    /\ seen \in 0..MaxStreams /\ named \in -1..MaxStreams

\* The variables have their types; that no more window is given back than was taken is
\* one of them.
TypeOK ==
    /\ TaskTypes /\ PassTypes /\ SessionTypes /\ QueueTypes /\ CountTypes
    /\ owed \in [Streams -> Nat]

Init ==
    /\ scene \in Scenes
    /\ running = {} /\ ready = {} /\ atBody = {} /\ atLoss = {} /\ atOutside = {}
    /\ waker = All("idle") /\ losses = {} /\ lost = {}
    /\ chunks = None /\ finished = {} /\ failed = {} /\ unwanted = {}
    /\ registry = {} /\ credits = None /\ resumable = {}
    /\ draining = FALSE /\ shutdown = FALSE /\ notified = FALSE
    /\ prod = All("idle") /\ drainer = "idle"
    /\ drv = "advance" /\ parkAt = 1 /\ woken = {} /\ polled = 0 /\ events = <<>> /\ ended = "no"
    /\ str = All("idle") /\ rended = {} /\ resp = All("none") /\ owed = None
    /\ seen = 0 /\ named = -1 /\ said = FALSE
    /\ peer = All("idle") /\ sent = None /\ wire = <<>>

-----------------------------------------------------------------------------
(* Helpers                                                                 *)

\* HandlerWaker::wake of the driver's own thread: mark, if the handler lives, and wake.
Wakes(ss) ==
    /\ ready' = ready \union (ss \intersect running)
    /\ notified' = (notified \/ ss \intersect running # {})

\* Incoming::fail: a message that has ended stays ended.
Fails(ss) == failed' = failed \union (ss \ finished)

\* IncomingBody::drop of a request: what is queued becomes credit, and nothing is reset.
DropsBody(s) ==
    /\ unwanted' = unwanted \union {s}
    /\ chunks' = [chunks EXCEPT ![s] = 0]
    /\ credits' = [credits EXCEPT ![s] = @ + chunks[s]]
    /\ notified' = (notified \/ chunks[s] > 0)

Has(s) == s \notin unwanted

\* reset_stream: the next flush sends it.
Resets(s) ==
    /\ str' = [str EXCEPT ![s] = IF @ = "open" THEN "rst" ELSE @]
    /\ resp' = [resp EXCEPT ![s] = IF str[s] = "open" THEN "reset" ELSE @]

-----------------------------------------------------------------------------
(* ServerRole::advance: the handlers that were woken are polled            *)

Advance ==
    /\ drv = "advance"
    /\ woken' = ready /\ ready' = {} /\ drv' = "poll"
    /\ UNCHANGED <<running, atBody, atLoss, atOutside, waker, losses, lost, inVars, registry,
                   noteVars, notified, sideVars, parkAt, polled, ended, events, sessVars,
                   peerVars, wire>>

\* Tasks::poll of one of them; a handler that has ended since is nobody's.
PollBegins ==
    /\ drv = "poll" /\ polled = 0
    /\ IF woken = {} THEN drv' = "credits" /\ UNCHANGED <<woken, polled>>
       ELSE \E s \in woken :
              /\ woken' = woken \ {s}
              /\ polled' = IF s \in running THEN s ELSE 0
              /\ UNCHANGED drv
    /\ UNCHANGED <<taskVars, inVars, registry, noteVars, notified, sideVars, parkAt, ended,
                   events, sessVars, peerVars, wire>>

Polling(s) == drv = "poll" /\ polled = s

\* poll_frame hands a chunk over, and its window goes back.
HandlerReads(s) ==
    /\ Polling(s) /\ "read" \in Moves /\ Has(s) /\ chunks[s] > 0
    /\ chunks' = [chunks EXCEPT ![s] = @ - 1]
    /\ credits' = [credits EXCEPT ![s] = @ + 1] /\ notified' = TRUE
    /\ UNCHANGED <<taskVars, finished, failed, unwanted, registry, resumable, draining, shutdown,
                   sideVars, drv, passVars, events, sessVars, peerVars, wire>>

\* poll_frame has nothing yet.
HandlerAwaitsBody(s) ==
    /\ Polling(s) /\ "read" \in Moves /\ Has(s)
    /\ chunks[s] = 0 /\ s \notin finished \union failed
    /\ atBody' = atBody \union {s}
    /\ UNCHANGED <<running, ready, atLoss, atOutside, waker, losses, lost, inVars, registry,
                   noteVars, notified, sideVars, drv, passVars, events, sessVars, peerVars, wire>>

\* Cancelled::cancelled has not tripped yet.
HandlerAwaitsLoss(s) ==
    /\ Polling(s) /\ "watch" \in Moves /\ s \notin lost
    /\ atLoss' = atLoss \union {s}
    /\ UNCHANGED <<running, ready, atBody, atOutside, waker, losses, lost, inVars, registry,
                   noteVars, notified, sideVars, drv, passVars, events, sessVars, peerVars, wire>>

\* Pending, with something outside as well that will wake it.
HandlerAwaitsOutside(s) ==
    /\ Polling(s) /\ "outside" \in Moves
    /\ atOutside' = atOutside \union {s} /\ polled' = 0
    /\ UNCHANGED <<running, ready, atBody, atLoss, waker, losses, lost, inVars, registry,
                   noteVars, notified, sideVars, drv, parkAt, woken, ended, events, sessVars,
                   peerVars, wire>>

HandlerDropsBody(s) ==
    /\ Polling(s) /\ "read" \in Moves /\ Has(s)
    /\ DropsBody(s) /\ atBody' = atBody \ {s}
    /\ UNCHANGED <<running, ready, atLoss, atOutside, waker, losses, lost, finished, failed,
                   registry, resumable, draining, shutdown, sideVars, drv, passVars, events,
                   sessVars, peerVars, wire>>

\* Pending, with a waker left wherever it waits.
HandlerPends(s) ==
    /\ Polling(s) /\ s \in atBody \union atLoss
    /\ polled' = 0
    /\ UNCHANGED <<taskVars, inVars, registry, noteVars, notified, sideVars, drv, parkAt, woken,
                   ended, events, sessVars, peerVars, wire>>

\* Ready: the handler is forgotten, its body is dropped with it, and respond submits the
\* response if there is still a stream.  A head that cannot be sent costs the stream.
HandlerReturns(s) ==
    /\ Polling(s)
    /\ polled' = 0
    /\ running' = running \ {s} /\ ready' = ready \ {s}
    /\ atBody' = atBody \ {s} /\ atLoss' = atLoss \ {s} /\ atOutside' = atOutside \ {s}
    /\ losses' = losses \ {s}
    /\ DropsBody(s)
    /\ \/ str[s] = "closed" /\ UNCHANGED <<resp, str, failed>>
       \/ /\ str[s] = "open"
          /\ \E kind \in {"whole", "held"} :
                /\ kind = "held" => "body" \in Moves
                /\ resp' = [resp EXCEPT ![s] = kind]
          /\ UNCHANGED <<str, failed>>
       \/ /\ str[s] = "open" /\ "bad head" \in Moves
          /\ Fails({s} \intersect registry) /\ Resets(s)
    /\ UNCHANGED <<waker, lost, finished, registry, resumable, draining, shutdown, sideVars, drv,
                   parkAt, woken, ended, events, rended, owed, seen, named, said, peerVars, wire>>

HandlerStep(s) ==
    \/ HandlerReads(s) \/ HandlerAwaitsBody(s) \/ HandlerAwaitsLoss(s)
    \/ HandlerAwaitsOutside(s) \/ HandlerDropsBody(s) \/ HandlerPends(s) \/ HandlerReturns(s)

-----------------------------------------------------------------------------
(* What the pass takes from Shared                                         *)

TakeCredits ==
    /\ drv = "credits"
    /\ owed' = [s \in Streams |-> owed[s] - credits[s]] /\ credits' = None
    /\ drv' = "shutdown"
    /\ UNCHANGED <<taskVars, inVars, registry, resumable, draining, shutdown, notified, sideVars,
                   passVars, events, str, rended, resp, seen, named, said, peerVars, wire>>

\* A drain names what the session has processed so far.
TakeShutdown ==
    /\ drv = "shutdown"
    /\ shutdown' = FALSE
    /\ named' = IF shutdown THEN seen ELSE named
    /\ drv' = "resume"
    /\ UNCHANGED <<taskVars, inVars, registry, credits, resumable, draining, notified, sideVars,
                   passVars, events, str, rended, resp, owed, seen, said, peerVars, wire>>

\* resume_body, which a stream that is gone ignores.
TakeReady ==
    /\ drv = "resume"
    /\ resp' = [s \in Streams |-> IF s \in resumable /\ resp[s] = "deferred" /\ str[s] = "open"
                                    THEN "resumed" ELSE resp[s]]
    /\ resumable' = {}
    /\ drv' = "feed"
    /\ UNCHANGED <<taskVars, inVars, registry, credits, draining, shutdown, notified, sideVars,
                   passVars, events, str, rended, owed, seen, named, said, peerVars, wire>>

-----------------------------------------------------------------------------
(* What the peer sent                                                      *)

Counted == {s \in Streams : str[s] \in {"open", "rst"}}

\* Session::recv for one frame.  libnghttp2 takes a new stream unless it has sent a GOAWAY
\* or counts as many as were advertised, and refuses it by itself then.
Observe(f) ==
    LET taken == f.k \in {"head", "bad request"} /\ ~said /\ Cardinality(Counted) < scene.cap
        told == taken \/ (f.k \in {"data", "end", "bad trailers"} /\ str[f.s] = "open")
        last == told /\ f.k \in {"end", "bad trailers"}
        closes == \/ f.k = "rst" /\ str[f.s] \in {"open", "rst"}
                  \/ last /\ resp[f.s] = "sent"
        refused == f.k \in {"head", "bad request"} /\ ~taken
    IN /\ str' = [str EXCEPT ![f.s] = IF taken THEN "open"
                                      ELSE IF closes \/ refused THEN "closed" ELSE @]
       /\ resp' = IF refused THEN [resp EXCEPT ![f.s] = "reset"] ELSE resp
       /\ seen' = IF taken THEN f.s ELSE seen
       /\ rended' = IF last THEN rended \union {f.s} ELSE rended
       /\ owed' = IF f.k = "data" /\ told THEN [owed EXCEPT ![f.s] = @ + 1] ELSE owed
       /\ events' = events \o (IF told THEN <<f>> ELSE <<>>)
                           \o (IF last /\ f.k # "end" THEN <<[k |-> "end", s |-> f.s]>> ELSE <<>>)
                           \o (IF closes THEN <<[k |-> "close", s |-> f.s]>> ELSE <<>>)

AtEof == wire # <<>> /\ Head(wire).k = "eof"

FeedOne ==
    /\ drv = "feed" /\ wire # <<>> /\ ~AtEof
    /\ Observe(Head(wire)) /\ wire' = Tail(wire)
    /\ UNCHANGED <<taskVars, inVars, registry, noteVars, notified, sideVars, drv, passVars,
                   named, said, peerVars>>

FeedDone ==
    /\ drv = "feed" /\ (wire = <<>> \/ AtEof)
    /\ drv' = "dispatch"
    /\ UNCHANGED <<taskVars, inVars, registry, noteVars, notified, sideVars, passVars, events,
                   sessVars, peerVars, wire>>

\* Mutant: the streams libnghttp2 still counts are counted instead.
AtCap_Open == Cardinality(Counted \intersect running) >= scene.cap

\* The cap counts every handler, those whose stream is gone included.
AtCap == Cardinality(running) >= scene.cap

\* ServerRole::head: refuse, reject or start.
DispatchHead(e) ==
    /\ e.k \in {"head", "bad request"}
    /\ registry' = registry \union {e.s}
    /\ \/ /\ AtCap \/ e.k = "bad request"
          /\ unwanted' = unwanted \union {e.s}
          /\ Resets(e.s)
          /\ UNCHANGED <<losses, running, ready>>
       \/ /\ ~AtCap /\ e.k = "head"
          /\ losses' = losses \union {e.s}
          /\ running' = running \union {e.s} /\ ready' = ready \union {e.s}
          /\ UNCHANGED <<unwanted, str, resp>>
    /\ UNCHANGED <<atBody, atLoss, lost, chunks, finished, failed, notified, owed>>

\* Incoming::push; what nobody will read is consumed on the spot.
DispatchData(e) ==
    /\ e.k = "data"
    /\ IF e.s \in registry /\ Has(e.s)
         THEN /\ chunks' = [chunks EXCEPT ![e.s] = @ + 1]
              /\ Wakes(atBody \intersect {e.s}) /\ atBody' = atBody \ {e.s}
              /\ UNCHANGED owed
         ELSE owed' = [owed EXCEPT ![e.s] = @ - 1]
              /\ UNCHANGED <<chunks, ready, notified, atBody>>
    /\ UNCHANGED <<running, atLoss, losses, lost, finished, failed, unwanted, registry, str, resp>>

DispatchEnd(e) ==
    /\ e.k = "end"
    /\ finished' = finished \union ({e.s} \intersect registry)
    /\ Wakes(atBody \intersect {e.s} \intersect registry)
    /\ atBody' = atBody \ ({e.s} \intersect registry)
    /\ UNCHANGED <<running, atLoss, losses, lost, chunks, failed, unwanted, registry, str, resp,
                   owed>>

\* deliver_trailers: trailers that cannot be read fail the request and cost the stream.
DispatchBadTrailers(e) ==
    /\ e.k = "bad trailers" /\ e.s \in registry
    /\ Fails({e.s}) /\ Resets(e.s)
    /\ Wakes((atBody \intersect {e.s}) \ finished) /\ atBody' = atBody \ {e.s}
    /\ UNCHANGED <<running, atLoss, losses, lost, chunks, finished, unwanted, registry, owed>>

\* Mutant: a handler whose request had ended is not told.
Trips_Unended(ss) == (ss \intersect losses) \ finished

\* closed trips the loss of a handler that is still running.
Trips(ss) == ss \intersect losses

\* The stream is gone: its entry is removed, its handler told and its request failed.
DispatchClose(e) ==
    /\ e.k = "close"
    /\ LET ss == {e.s} \intersect registry
           told == (atBody \intersect (ss \ finished)) \union (atLoss \intersect Trips(ss))
       IN /\ registry' = registry \ ss
          /\ losses' = losses \ ss /\ lost' = lost \union Trips(ss)
          /\ Fails(ss) /\ Wakes(told)
          /\ atLoss' = atLoss \ Trips(ss) /\ atBody' = atBody \ (ss \ finished)
    /\ UNCHANGED <<running, chunks, finished, unwanted, str, resp, owed>>

DispatchOne ==
    /\ drv \in {"dispatch", "dispatch2"} /\ events # <<>>
    /\ LET e == Head(events)
       IN DispatchHead(e) \/ DispatchData(e) \/ DispatchEnd(e) \/ DispatchBadTrailers(e)
            \/ DispatchClose(e)
    /\ events' = Tail(events)
    /\ UNCHANGED <<atOutside, waker, noteVars, sideVars, drv, passVars, rended, seen, named, said,
                   peerVars, wire>>

DispatchDone ==
    /\ drv \in {"dispatch", "dispatch2"} /\ events = <<>>
    /\ drv' = IF drv = "dispatch" THEN "flush" ELSE "check"
    /\ UNCHANGED <<taskVars, inVars, registry, noteVars, notified, sideVars, passVars, events,
                   sessVars, peerVars, wire>>

-----------------------------------------------------------------------------
(* Writing, and the end of the pass                                        *)

\* The ways to go through a set of streams; which one libnghttp2 takes is its own affair.
Orders(ss) == {order \in [1..Cardinality(ss) -> ss] :
                  \A s \in ss : \E i \in DOMAIN order : order[i] = s}

\* Everything the session has to say: resets, responses as far as their bodies go, and the
\* GOAWAY, with which libnghttp2 closes what it does not name.
Flush ==
    /\ drv = "flush"
    /\ LET goes == named >= 0 /\ ~said
           ends == {s \in Streams : str[s] = "open" /\ resp[s] \in {"whole", "resumed"}}
           gone == {s \in Streams : \/ str[s] = "rst"
                                    \/ s \in ends /\ s \in rended
                                    \/ goes /\ str[s] = "open" /\ s > named}
       IN /\ said' = (said \/ goes)
          /\ resp' = [s \in Streams |-> IF s \in ends THEN "sent"
                                        ELSE IF str[s] = "open" /\ resp[s] = "held" THEN "deferred"
                                        ELSE resp[s]]
          /\ str' = [s \in Streams |-> IF s \in gone THEN "closed" ELSE str[s]]
          /\ \E order \in Orders(gone) :
                events' = events \o [i \in DOMAIN order |-> [k |-> "close", s |-> order[i]]]
    /\ drv' = "dispatch2"
    /\ UNCHANGED <<taskVars, inVars, registry, noteVars, notified, sideVars, passVars, rended,
                   owed, seen, named, peerVars, wire>>

\* The session has something to say.
WantWrite ==
    \/ named >= 0 /\ ~said
    \/ \E s \in Streams : \/ str[s] = "rst"
                          \/ str[s] = "open" /\ resp[s] \in {"whole", "held", "resumed"}

\* DriverGuard::drop: everything tracked is failed, every loss trips, and the handlers are
\* dropped with the bodies they hold.
Ends(why) ==
    /\ drv' = "over" /\ ended' = why
    /\ registry' = {} /\ Fails(registry)
    /\ losses' = {} /\ lost' = lost \union losses
    /\ running' = {} /\ atBody' = {} /\ atLoss' = {} /\ atOutside' = {}
    /\ unwanted' = unwanted \union running
    /\ chunks' = [s \in Streams |-> IF s \in running THEN 0 ELSE chunks[s]]
    /\ credits' = [s \in Streams |-> IF s \in running THEN credits[s] + chunks[s] ELSE credits[s]]
    /\ UNCHANGED <<ready, waker, finished, resumable, draining, shutdown, notified, sideVars,
                   parkAt, woken, polled, events, sessVars, peerVars, wire>>

\* Mutant: a drain alone will do.
Done_Draining == draining

\* Mutant: a server never decides when it is finished.
Done_Never == FALSE

\* signals.done and an empty registry.
Done == draining /\ registry = {}

\* The peer has stopped, or the drain has nothing left to wait for.
Check ==
    /\ drv = "check"
    /\ \/ AtEof /\ Ends("eof")
       \/ ~AtEof /\ Done /\ ~WantWrite /\ Ends("drained")
       \/ /\ ~AtEof /\ ~(Done /\ ~WantWrite)
          /\ drv' = "park" /\ parkAt' = 1
          /\ UNCHANGED <<taskVars, inVars, registry, noteVars, notified, sideVars, woken, polled,
                         ended, events, sessVars, peerVars, wire>>

\* The conjuncts of the park predicate, behind a lock each.
ParkStep ==
    <<ready = {}, resumable = {} /\ credits = None, ~shutdown,
      wire = <<>> /\ ~WantWrite /\ ~Done>>

Park ==
    /\ drv = "park"
    /\ drv' = IF ~ParkStep[parkAt] THEN "advance" ELSE IF parkAt < 4 THEN "park" ELSE "parked"
    /\ parkAt' = IF ParkStep[parkAt] /\ parkAt < 4 THEN parkAt + 1 ELSE 1
    /\ UNCHANGED <<taskVars, inVars, registry, noteVars, notified, sideVars, woken, polled, ended,
                   events, sessVars, peerVars, wire>>

\* A wake, or octets from the peer: the predicate is evaluated again.
Poll ==
    /\ drv = "parked" /\ notified
    /\ drv' = "park" /\ notified' = FALSE
    /\ UNCHANGED <<taskVars, inVars, registry, noteVars, sideVars, passVars, events, sessVars,
                   peerVars, wire>>

FlushFails == "write error" \in Moves /\ drv = "flush" /\ Ends("error")
DropDriver == "abort" \in Moves /\ drv \in {"flush", "parked"} /\ Ends("dropped")

-----------------------------------------------------------------------------
(* Other threads                                                           *)

\* HandlerWaker::wake_by_ref: is the handler alive ...
OutsideUpgrades(s) ==
    /\ s \in atOutside /\ waker[s] = "idle"
    /\ waker' = [waker EXCEPT ![s] = "upgraded"] /\ atOutside' = atOutside \ {s}
    /\ UNCHANGED <<running, ready, atBody, atLoss, losses, lost, inVars, registry, noteVars,
                   notified, sideVars, drv, passVars, events, sessVars, peerVars, wire>>

\* ... Ready::mark ...
OutsideMarks(s) ==
    /\ waker[s] = "upgraded"
    /\ waker' = [waker EXCEPT ![s] = "marked"] /\ ready' = ready \union {s}
    /\ UNCHANGED <<running, atBody, atLoss, atOutside, losses, lost, inVars, registry, noteVars,
                   notified, sideVars, drv, passVars, events, sessVars, peerVars, wire>>

\* ... Shared::wake_driver.
OutsideWakes(s) ==
    /\ waker[s] = "marked"
    /\ waker' = [waker EXCEPT ![s] = "idle"] /\ notified' = TRUE
    /\ UNCHANGED <<running, ready, atBody, atLoss, atOutside, losses, lost, inVars, registry,
                   noteVars, sideVars, drv, passVars, events, sessVars, peerVars, wire>>

\* StreamWaker: a response's body can go on, if its stream is still tracked.
Produce(s) ==
    /\ resp[s] = "deferred" /\ prod[s] = "idle"
    /\ IF s \in registry
         THEN resumable' = resumable \union {s} /\ prod' = [prod EXCEPT ![s] = "wake"]
         ELSE UNCHANGED resumable /\ prod' = [prod EXCEPT ![s] = "done"]
    /\ UNCHANGED <<taskVars, inVars, registry, credits, draining, shutdown, notified, drainer, drv,
                   passVars, events, sessVars, peerVars, wire>>

ProduceWake(s) ==
    /\ prod[s] = "wake"
    /\ prod' = [prod EXCEPT ![s] = "done"] /\ notified' = TRUE
    /\ UNCHANGED <<taskVars, inVars, registry, noteVars, drainer, drv, passVars, events, sessVars,
                   peerVars, wire>>

\* Drain::drain: request_drain, then the wake.
Drain ==
    /\ "drain" \in Moves /\ drainer = "idle"
    /\ drainer' = "wake" /\ draining' = TRUE /\ shutdown' = TRUE
    /\ UNCHANGED <<taskVars, inVars, registry, credits, resumable, notified, prod, drv, passVars,
                   events, sessVars, peerVars, wire>>

DrainWake ==
    /\ drainer = "wake"
    /\ drainer' = "done" /\ notified' = TRUE
    /\ UNCHANGED <<taskVars, inVars, registry, noteVars, prod, drv, passVars, events, sessVars,
                   peerVars, wire>>

-----------------------------------------------------------------------------
(* The peer and the transport (external)                                   *)

Quiet == \A i \in DOMAIN wire : wire[i].k # "eof"

\* The reading half moves only when the task is polled: before a pass, and while a write
\* waits.
PeerSends(f) ==
    /\ drv \in {"parked", "flush"} /\ Quiet
    /\ wire' = Append(wire, f) /\ notified' = TRUE
    /\ UNCHANGED <<taskVars, inVars, registry, noteVars, sideVars, drv, passVars, events, sessVars,
                   scene>>

PeerOpens(s) ==
    /\ peer[s] = "idle" /\ s <= scene.requests /\ \A t \in 1..(s - 1) : peer[t] # "idle"
    /\ peer' = [peer EXCEPT ![s] = "open"] /\ UNCHANGED sent
    /\ \E k \in {"head"} \union ({"bad request"} \intersect Moves) :
          PeerSends([k |-> k, s |-> s])

PeerData(s) ==
    /\ peer[s] = "open" /\ sent[s] < scene.data
    /\ sent' = [sent EXCEPT ![s] = @ + 1] /\ UNCHANGED peer
    /\ PeerSends([k |-> "data", s |-> s])

PeerEnds(s) ==
    /\ peer[s] = "open"
    /\ \E k \in {"end"} \union ({"bad trailers", "reset"} \intersect Moves) :
          /\ peer' = [peer EXCEPT ![s] = IF k = "reset" THEN "reset" ELSE "ended"]
          /\ PeerSends([k |-> IF k = "reset" THEN "rst" ELSE k, s |-> s])
    /\ UNCHANGED sent

\* A reset may also follow the end of the request.
PeerResets(s) ==
    /\ peer[s] = "ended" /\ "reset" \in Moves
    /\ peer' = [peer EXCEPT ![s] = "reset"] /\ UNCHANGED sent
    /\ PeerSends([k |-> "rst", s |-> s])

PeerStops ==
    /\ "eof" \in Moves /\ PeerSends([k |-> "eof"])
    /\ UNCHANGED <<peer, sent>>

-----------------------------------------------------------------------------
DriverStep ==
    \/ Advance \/ PollBegins \/ \E s \in Streams : HandlerStep(s)
    \/ TakeCredits \/ TakeShutdown \/ TakeReady
    \/ FeedOne \/ FeedDone \/ DispatchOne \/ DispatchDone
    \/ Flush \/ Check \/ Park \/ Poll

\* What another thread has begun it finishes.
ThreadStep ==
    \/ \E s \in Streams : OutsideMarks(s) \/ OutsideWakes(s) \/ ProduceWake(s)
    \/ DrainWake

Choice ==
    \/ \E s \in Streams : \/ OutsideUpgrades(s) \/ Produce(s)
                          \/ PeerOpens(s) \/ PeerData(s) \/ PeerEnds(s) \/ PeerResets(s)
    \/ Drain \/ PeerStops \/ FlushFails \/ DropDriver

Next == DriverStep \/ ThreadStep \/ Choice

\* A woken task is run, a handler's poll returns, and a thread inside a call of this layer
\* leaves it.  What handlers wait for and what the peer does is up to them.
Spec == Init /\ [][Next]_vars /\ WF_vars(DriverStep) /\ WF_vars(ThreadStep)

-----------------------------------------------------------------------------
(* Correctness                                                             *)

Alive == drv # "over"
AtRest == drv = "parked" /\ ~notified

\* While the driver sleeps unwoken, what is ready, resumable or asked for belongs to a thread
\* that has yet to wake it, nothing waits to be read or written, and every handler has left
\* its waker somewhere that can still call it (HandlerWaker, Ready, the park predicate).
RestIsQuiet ==
    AtRest =>
      /\ \A s \in ready : waker[s] = "marked"
      /\ \A s \in resumable : prod[s] = "wake"
      /\ credits = None
      /\ shutdown \/ Done => drainer = "wake"
      /\ wire = <<>> /\ events = <<>> /\ ~WantWrite
      /\ \A s \in running : \/ s \in ready \union atBody \union atLoss \union atOutside
                            \/ waker[s] # "idle"

\* A handler that outlives its stream is told: the loss has tripped once the stream is no
\* longer tracked, and neither the loss nor the end of the request leaves a handler waiting
\* for it (ServerRole::closed and abandon, CancelState::trip, Incoming::fail and finish).
LossIsTold ==
    /\ running \ registry \subseteq lost
    /\ atLoss \intersect lost = {}
    /\ \A s \in atBody : Has(s) => chunks[s] = 0 /\ s \notin finished \union failed
    /\ ~Alive => losses = {} /\ running = {}

\* Nobody waits for what has already happened: neither the driver nor a handler.
NobodyWaitsInVain == RestIsQuiet /\ LossIsTold

Observed(s) == Cardinality({i \in DOMAIN events : events[i].k = "data" /\ events[i].s = s})

\* What a connection holds is bounded and accounted for: no more handlers than the cap, with
\* those whose stream is gone, no entry without a stream whose closure is still to come, and
\* no window that is neither queued, observed nor reported (ServerRole::head, dispatch).
HandlersAreBounded ==
    /\ Cardinality(running) <= scene.cap
    /\ Alive => \A s \in Streams :
         /\ s \in registry /\ str[s] = "closed" =>
               \E i \in DOMAIN events : events[i] = [k |-> "close", s |-> s]
         /\ owed[s] = chunks[s] + credits[s] + Observed(s)

\* A connection that ends for a drain owes nothing: every stream it took has closed, every
\* one its GOAWAY names was answered in full unless either end reset it, and the GOAWAY was
\* sent, unless the drain was asked for after the pass had looked (Drain::drain, run).
DrainIsHonest ==
    ended = "drained" =>
      /\ \A s \in Streams : str[s] \in {"idle", "closed"}
      /\ \A s \in 1..named : resp[s] \in {"sent", "reset"} \/ peer[s] = "reset"
      /\ said \/ shutdown

\* A drained connection ends once no stream is left, without the peer's help.
DrainEnds == []((draining /\ [](registry = {})) => <>(drv = "over"))
=============================================================================
