------------------------------ MODULE QmuxCore ------------------------------
(***************************************************************************)
(* h3-ngnet-qmux: hyperium's HTTP/3 traits over one QMux connection.  The  *)
(* connection, its openers and the halves of its streams are handles that  *)
(* tasks poll on threads of their own; all of them, and the one driver,    *)
(* share a Core behind a lock.  Only the driver asks the byte stream.  A   *)
(* handle that finds nothing leaves its waker in the Core and wakes the    *)
(* driver if it left work; the driver routes what the connection decoded   *)
(* and wakes whoever waits for it, after the lock is given back.           *)
(*                                                                         *)
(* The byte stream knows one waker, LowerWake.  It wakes the driver, but   *)
(* while somebody is inside the Core it only leaves a flag, and the last   *)
(* one out looks at it.  Flag and count are two atomics.                   *)
(***************************************************************************)
EXTENDS Integers, Sequences, SequencesExt

CONSTANTS
    PeerUni,      \* streams the peer may open, unidirectional
    PeerBidi,     \* and bidirectional
    LocalBidi,    \* streams this end may open
    Allowance,    \* Config::read_ahead, in units of data
    Carry,        \* OUTBOUND_CARRY; a record is one unit, so the ceiling is Carry + 1
    RouteBudget,  \* ROUTE_BUDGET
    PendingLimit, \* pending_limit: streams that wait to be accepted
    MaxJams,      \* bound on how often the byte stream stops taking output
    Scenes        \* what the peer, the handles' owners and the byte stream may do

ASSUME CoreAssumption ==
    /\ PeerUni \cap PeerBidi = {} /\ PeerUni \cap LocalBidi = {} /\ PeerBidi \cap LocalBidi = {}
    /\ Allowance \in Nat \ {0} /\ Carry \in Nat /\ RouteBudget \in Nat \ {0}
    /\ PendingLimit \in Nat /\ MaxJams \in Nat

VARIABLES
    \* Core
    streams,      \* Core::streams
    pending,      \* Core::pending_uni and pending_bidi
    acceptWaiter, \* Core::accept_uni and accept_bidi
    openWaiter,   \* the opener's slot in Core::openers
    terminal,     \* Core::terminal
    close,        \* Core::close is Some
    closeIsFailure,
    complete,     \* Core::driver_complete with driver_error: "no", "ok" or "err"
    lock,         \* the driver holds the lock on the Core
    \* LowerWake
    ready, defer,
    slot,         \* LowerWake::driver holds the driver's waker
    \* the driver
    turn,         \* how far its poll is
    scheduled,    \* the driver is woken
    routed, queuedBefore, eventReady,
    due,          \* the Effects of its turn
    \* the connection below, ngnet_qmux::io::Connection
    net,          \* what the byte stream has for reading
    events,       \* Connection::events
    ahead,        \* Connection::read_ahead
    latched,      \* Connection::terminal
    filled,       \* Connection::filled
    control,      \* dwnx has frames to send, and produce_pending says so
    closing,      \* Connection::closing
    sock,         \* the byte stream: "takes", "full" or "broken"
    waits,        \* where LowerWake is registered: "read", "write", "ahead"
    dwnx,         \* dwnx: windows, stream limit and the halves that ended
    \* the reactor
    calls,        \* wakes of LowerWake it still owes
    \* the tasks that own the handles
    stage, doing, effects, runnable, phase,
    \* bounds
    sent, jams, scene,
    \* history
    accepted      \* how often each stream was handed out

coreVars == <<streams, pending, acceptWaiter, openWaiter, terminal, close, closeIsFailure>>
flagVars == <<ready, slot, scheduled>>
wakeVars == <<flagVars, defer>>
turnVars == <<turn, routed, queuedBefore, eventReady, due, complete, lock>>
lowerVars == <<net, events, ahead, latched, filled, control, closing, sock, waits, dwnx>>
reactorVars == <<calls>>
taskVars == <<stage, doing, effects, runnable, phase>>
boundVars == <<sent, jams, scene>>
vars == <<coreVars, wakeVars, turnVars, lowerVars, reactorVars, taskVars, boundVars, accepted>>

Ids == PeerUni \cup PeerBidi \cup LocalBidi
Sending == PeerBidi \cup LocalBidi      \* streams with a send half here
Kinds == {"uni", "bidi"}
KindOf(s) == IF s \in PeerUni THEN "uni" ELSE "bidi"

\* A task for each accept loop, for the opener and for each half of a stream.
Acceptor(k) == <<"accept", k>>
Opener == <<"open", "bidi">>
Reader(s) == <<"recv", s>>
Writer(s) == <<"send", s>>
Readers == {Reader(s) : s \in Ids}
Closer == <<"close", "connection">>
Writers == {Writer(s) : s \in Sending}
Acceptors == {Acceptor(k) : k \in Kinds}
Tasks == Acceptors \cup {Opener, Closer} \cup Readers \cup Writers

\* Effects: the wakers to fire, and whether the driver has more to do.
NoEffects == [wakes |-> {}, continuation |-> FALSE]
Continue == [wakes |-> {}, continuation |-> TRUE]
Merge(a, b) ==
    [wakes |-> a.wakes \cup b.wakes, continuation |-> a.continuation \/ b.continuation]
Wakes(tasks) == [wakes |-> tasks, continuation |-> FALSE]

\* StreamState::default.
NewStream ==
    [pendingAccept |-> FALSE, lowerClosed |-> FALSE, sendHandle |-> FALSE, recvHandle |-> FALSE,
     recv |-> <<>>, recvTerminal |-> "none", sendTerminal |-> "none",
     recvShut |-> FALSE, sendShut |-> FALSE,
     recvWaiter |-> FALSE, sendWaiter |-> FALSE, finishWaiter |-> FALSE,
     sendOutput |-> FALSE, finishOutput |-> FALSE, writing |-> <<>>]

Init ==
    /\ scene \in Scenes
    /\ streams = [s \in {} |-> NewStream]
    /\ pending = [k \in Kinds |-> <<>>]
    /\ acceptWaiter = [k \in Kinds |-> FALSE] /\ openWaiter = FALSE
    /\ terminal = "no" /\ close = FALSE /\ closeIsFailure = FALSE
    /\ complete = "no" /\ lock = FALSE
    /\ ready = FALSE /\ defer = 0 /\ slot = FALSE
    /\ turn = "parked" /\ scheduled = TRUE
    /\ routed = 0 /\ queuedBefore = 0 /\ eventReady = FALSE /\ due = NoEffects
    /\ net = <<>> /\ events = <<>> /\ ahead = 0 /\ latched = "no"
    /\ filled = 0 /\ control = TRUE /\ closing = "no" /\ sock = "takes" /\ waits = {}
    /\ dwnx = [stream |-> [s \in Sending |-> scene.window], conn |-> scene.window, limit |-> scene.limit,
               open |-> {}, rx |-> {}, tx |-> PeerUni]
    /\ calls = 0
    /\ stage = [t \in Tasks |->
                  IF \/ t \in {Acceptor(KindOf(s)) : s \in scene.streams \ LocalBidi}
                     \/ t = Opener /\ "open" \in scene.does
                     \/ t = Closer /\ "close" \in scene.does
                  THEN "rest" ELSE "absent"]
    /\ doing = [t \in Tasks |-> "nothing"]
    /\ effects = [t \in Tasks |-> NoEffects]
    /\ runnable = [t \in Tasks |-> TRUE]
    /\ phase = [s \in Sending |-> "new"]
    /\ sent = 0 /\ jams = 0
    /\ accepted = [s \in Ids |-> 0]

Does(move) == move \in scene.does

-----------------------------------------------------------------------------
(* LowerWake.                                                              *)

\* wake_driver: whoever takes the waker out of the slot fires it.
WakeDriver(wanted) ==
    /\ slot' = (slot /\ ~wanted)
    /\ scheduled' = (scheduled \/ (wanted /\ slot))

\* lower_ready: the flag is stored and the count loaded; with nobody inside the Core the
\* driver is woken.
LowerReady ==
    /\ calls > 0
    /\ calls' = calls - 1
    /\ ready' = TRUE
    /\ WakeDriver(defer = 0)
    /\ UNCHANGED <<defer, coreVars, turnVars, lowerVars, taskVars, boundVars, accepted>>

-----------------------------------------------------------------------------
(* The byte stream and the peer.                                           *)

Frame(kind, s, fin) == [kind |-> kind, stream |-> s, fin |-> fin]

\* What the peer has said so far on a stream, read or not.
PeerEnded(s) ==
    \/ s \in dwnx.rx
    \/ \E i \in DOMAIN net : net[i].stream = s /\ (net[i].fin \/ net[i].kind = "reset")

\* What the peer may send next: frames of a stream until it ended it, and nothing after
\* a close or the end of the byte stream.
Sendable ==
    {f \in {Frame(k, s, b) : k \in {"data", "end", "reset", "stop", "window"}, s \in Ids, b \in BOOLEAN} :
        /\ f.kind \in scene.peer /\ f.stream \in scene.streams
        /\ f.stream \in LocalBidi => f.stream \in dwnx.open
        /\ f.kind \in {"data", "end", "reset"} => ~PeerEnded(f.stream)
        /\ f.kind = "end" => f.fin
        /\ f.kind \in {"reset", "stop", "window"} => ~f.fin
        /\ f.kind \in {"stop", "window"} => f.stream \in Sending \cap dwnx.open}
    \cup {Frame(k, "none", FALSE) : k \in {"credit", "limit", "params", "half", "ping", "close", "eof"} \cap scene.peer}

Arrive(f) ==
    /\ sent < scene.sends
    /\ latched = "no" /\ sock # "broken"
    /\ net # <<>> => Last(net).kind \notin {"close", "eof"}
    /\ f \in Sendable
    /\ sent' = sent + 1
    /\ net' = Append(net, f)
    /\ waits' = waits \ {"read"}
    /\ calls' = calls + Cardinality(waits \cap {"read"})
    /\ UNCHANGED <<coreVars, wakeVars, turnVars, events, ahead, latched, filled, control, closing,
                   sock, dwnx, taskVars, jams, scene, accepted>>

\* The byte stream takes nothing for a while; a write that stops part of the way is one
\* that is refused, for the buffer is only reused once it is empty.
Jam ==
    /\ jams < MaxJams /\ Does("jam")
    /\ sock = "takes"
    /\ sock' = "full" /\ jams' = jams + 1
    /\ UNCHANGED <<coreVars, wakeVars, turnVars, net, events, ahead, latched, filled, control, closing,
                   waits, dwnx, reactorVars, taskVars, sent, scene, accepted>>

Drains ==
    /\ sock = "full"
    /\ sock' = "takes"
    /\ waits' = waits \ {"write"}
    /\ calls' = calls + Cardinality(waits \cap {"write"})
    /\ UNCHANGED <<coreVars, wakeVars, turnVars, net, events, ahead, latched, filled, control, closing,
                   dwnx, taskVars, boundVars, accepted>>

Breaks ==
    /\ Does("breaks")
    /\ sock # "broken"
    /\ sock' = "broken"
    /\ waits' = waits \ {"read", "write"}
    /\ calls' = calls + Cardinality(waits \cap {"read", "write"})
    /\ UNCHANGED <<coreVars, wakeVars, turnVars, net, events, ahead, latched, filled, control, closing,
                   dwnx, taskVars, boundVars, accepted>>

-----------------------------------------------------------------------------
(* ngnet_qmux::io::Connection, as this adapter uses it.                    *)

Room == filled <= Carry

\* write_side: output that leaves no room is offered first; frames go behind it; the
\* forced form offers everything.
Stuck == ~Room /\ sock # "takes"
Produced == (IF Room THEN filled ELSE 0) + (IF control THEN 1 ELSE 0)
WriteFails(force) ==
    sock = "broken" /\ (~Room \/ (force /\ filled + (IF control THEN 1 ELSE 0) > 0))

WriteSide(force) ==
    IF Stuck
    THEN waits' = waits \cup {"write"} /\ UNCHANGED <<filled, control>>
    ELSE /\ control' = FALSE
         /\ IF (force \/ Produced > Carry) /\ Produced > 0
            THEN IF sock = "takes" THEN filled' = 0 /\ UNCHANGED waits
                 ELSE filled' = Produced /\ waits' = waits \cup {"write"}
            ELSE filled' = Produced /\ UNCHANGED waits

\* dwnx, external: what a frame is decoded to.  A stream's first frame opens it; it is
\* closed when both halves have ended.
Event(kind, s, size, fin) == [kind |-> kind, stream |-> s, size |-> size, fin |-> fin]

Opening(f) ==
    IF f.stream \in (PeerUni \cup PeerBidi) \ dwnx.open
    THEN <<Event("opened", f.stream, 0, FALSE)>> ELSE <<>>

EndsRx(f) == f.fin \/ f.kind = "reset"
ClosedBy(s, rx, tx) == IF s \in rx \cap tx THEN <<Event("closed", s, 0, FALSE)>> ELSE <<>>

Decoded(f) ==
    CASE f.kind = "data" ->
           Opening(f) \o <<Event("data", f.stream, 1, f.fin)>>
      [] f.kind = "end" ->
           Opening(f) \o <<Event("data", f.stream, 0, TRUE)>>
      [] f.kind \in {"reset", "stop", "window"} ->
           Opening(f) \o <<Event(f.kind, f.stream, 0, FALSE)>>
      [] f.kind \in {"credit", "limit", "params"} -> <<Event(f.kind, "none", 0, FALSE)>>
      [] OTHER -> <<>>

Closed(f) ==
    IF EndsRx(f) THEN ClosedBy(f.stream, {f.stream}, dwnx.tx)
    ELSE IF f.kind = "stop" /\ f.stream \notin dwnx.tx THEN ClosedBy(f.stream, dwnx.rx, {f.stream})
    ELSE <<>>

AfterFrame(f) ==
    [dwnx EXCEPT !.open = @ \cup ({f.stream} \cap Ids),
                 !.rx = IF EndsRx(f) THEN @ \cup {f.stream} ELSE @,
                 !.tx = IF f.kind = "stop" THEN @ \cup {f.stream} ELSE @,
                 !.stream = IF f.kind = "window" THEN [@ EXCEPT ![f.stream] = @ + 1] ELSE @,
                 !.conn = IF f.kind = "credit" THEN @ + 1 ELSE @,
                 !.limit = IF f.kind \in {"limit", "params"} THEN @ + 1 ELSE @]

\* extend_connection_credit: queues a frame and wakes a reader that read-ahead stopped.
CreditConnection(delivered, units) ==
    /\ ahead' = ahead + delivered - units
    /\ control' = TRUE
    /\ IF ahead' < Allowance /\ "ahead" \in waits
       THEN waits' = waits \ {"ahead"} /\ ready' = TRUE
       ELSE UNCHANGED <<waits, ready>>

-----------------------------------------------------------------------------
(* The Core: what is done under its lock.                                  *)

With(s, state) == (s :> state) @@ streams

\* The tasks whose wakers a stream holds; a finish that waits is forgotten in the second.
RecvTaken(s) == IF streams[s].recvWaiter THEN {Reader(s)} ELSE {}

SendTaken(s) == IF streams[s].sendWaiter \/ streams[s].finishWaiter THEN {Writer(s)} ELSE {}

AcceptTaken(k) == IF acceptWaiter[k] THEN {Acceptor(k)} ELSE {}
OpenTaken == IF openWaiter THEN {Opener} ELSE {}

\* fail: the first ending is kept, everybody who waits is woken, retained sends go.
FailWakes ==
    IF terminal # "no" THEN NoEffects
    ELSE Wakes(OpenTaken \cup UNION {AcceptTaken(k) : k \in Kinds}
               \cup UNION {RecvTaken(s) \cup SendTaken(s) : s \in DOMAIN streams})

Failed(all) ==
    IF terminal # "no" THEN all
    ELSE [s \in DOMAIN all |->
            [all[s] EXCEPT !.recvWaiter = FALSE, !.sendWaiter = FALSE, !.finishWaiter = FALSE,
                           !.writing = <<>>]]

FailSlots(why) ==
    IF terminal # "no" THEN UNCHANGED <<acceptWaiter, openWaiter, terminal>>
    ELSE /\ terminal' = why
         /\ acceptWaiter' = [k \in Kinds |-> FALSE] /\ openWaiter' = FALSE

Fail(why) == FailSlots(why) /\ streams' = Failed(streams)

\* Retires a stream whether or not the connection below is done with it.
Retired_Early(state) ==
    /\ ~state.pendingAccept /\ ~state.sendHandle /\ ~state.recvHandle
    /\ state.recv = <<>>

\* cleanup: nobody has a handle or is to get one, nothing is left to read, and the
\* connection below has closed the stream.
Retired(state) ==
    /\ ~state.pendingAccept /\ state.lowerClosed
    /\ ~state.sendHandle /\ ~state.recvHandle
    /\ state.recv = <<>>

Cleaned(all, s) ==
    IF s \in DOMAIN all /\ Retired(all[s]) THEN [x \in DOMAIN all \ {s} |-> all[x]] ELSE all

\* wake_output_senders.
OutputWoken ==
    [s \in DOMAIN streams |->
        [streams[s] EXCEPT !.sendWaiter = @ /\ ~streams[s].sendOutput, !.sendOutput = FALSE,
                           !.finishWaiter = @ /\ ~streams[s].finishOutput, !.finishOutput = FALSE]]
OutputWakes ==
    Wakes({Writer(s) : s \in {x \in DOMAIN streams :
              \/ streams[x].sendOutput /\ streams[x].sendWaiter
              \/ streams[x].finishOutput /\ streams[x].finishWaiter}})

-----------------------------------------------------------------------------
(* route: what the driver does with one event.                             *)

Discovering(s) == s \notin DOMAIN streams
Pendings == Len(pending["uni"]) + Len(pending["bidi"])
Overloaded == Pendings >= PendingLimit

\* discover_peer: the stream waits to be accepted.
Discovered == [NewStream EXCEPT !.pendingAccept = TRUE]
Discover(s) ==
    IF Discovering(s)
    THEN /\ pending' = [pending EXCEPT ![KindOf(s)] = Append(@, s)]
         /\ acceptWaiter' = [acceptWaiter EXCEPT ![KindOf(s)] = FALSE]
    ELSE UNCHANGED <<pending, acceptWaiter>>
DiscoverWakes(s) == IF Discovering(s) THEN AcceptTaken(KindOf(s)) ELSE {}

\* A stream too many ends the connection, with a close that is a failure; so does one
\* of this end's own that is not known.
RouteRefused(e) ==
    /\ e.kind \in {"data", "opened"} /\ Discovering(e.stream)
    /\ e.stream \in LocalBidi \/ Overloaded
    /\ IF e.stream \in LocalBidi THEN Fail("internal") /\ UNCHANGED <<close, closeIsFailure>>
       ELSE Fail("overload") /\ close' = TRUE /\ closeIsFailure' = TRUE
    /\ due' = Merge(due, FailWakes)
    /\ ahead' = ahead + e.size
    /\ UNCHANGED <<pending, control, waits, ready>>

RouteOpened(e) ==
    /\ e.kind = "opened"
    /\ Discovering(e.stream) => ~Overloaded
    /\ Discover(e.stream)
    /\ streams' = IF Discovering(e.stream) THEN With(e.stream, Discovered) ELSE streams
    /\ due' = Merge(due, Wakes(DiscoverWakes(e.stream)))
    /\ UNCHANGED <<openWaiter, terminal, close, closeIsFailure, ahead, control, waits, ready>>

\* Data of a half that was shut is not kept; it is credited to the connection alone.
RouteLateData(e) ==
    /\ e.kind = "data"
    /\ ~Discovering(e.stream) /\ streams[e.stream].recvShut
    /\ IF e.size = 0
       THEN UNCHANGED <<coreVars, due, ahead, control, waits, ready>>
       ELSE IF latched # "no"
       THEN /\ Fail(latched) /\ due' = Merge(due, FailWakes)
            /\ ahead' = ahead + e.size
            /\ UNCHANGED <<pending, close, closeIsFailure, control, waits, ready>>
       ELSE /\ CreditConnection(e.size, e.size)
            /\ UNCHANGED <<coreVars, due>>

RouteData(e) ==
    LET s == e.stream
        state == IF Discovering(s) THEN Discovered ELSE streams[s]
        kept == e.size = 1 \/ (e.fin /\ state.recvTerminal = "none")
    IN /\ e.kind = "data"
       /\ IF Discovering(s) THEN s \notin LocalBidi /\ ~Overloaded ELSE ~streams[s].recvShut
       /\ Discover(s)
       /\ streams' = With(s,
            IF ~kept THEN state
            ELSE IF e.size = 1
            THEN [state EXCEPT !.recv = Append(@, e.fin), !.recvWaiter = FALSE]
            ELSE [state EXCEPT !.recvTerminal = "finished", !.recvWaiter = FALSE])
       /\ due' = Merge(due, Wakes(DiscoverWakes(s) \cup
                    (IF kept /\ state.recvWaiter THEN {Reader(s)} ELSE {})))
       /\ ahead' = ahead + e.size
       /\ UNCHANGED <<openWaiter, terminal, close, closeIsFailure, control, waits, ready>>

Known(e) == e.stream \in DOMAIN streams

RouteClosed(e) ==
    /\ e.kind = "closed"
    /\ IF Known(e)
       THEN LET s == e.stream IN
            /\ streams' = Cleaned(With(s, [streams[s] EXCEPT
                   !.lowerClosed = TRUE,
                   !.recvTerminal = IF @ = "none" THEN "finished" ELSE @,
                   !.sendTerminal = IF @ = "none" THEN "finished" ELSE @,
                   !.recvWaiter = FALSE, !.sendWaiter = FALSE, !.finishWaiter = FALSE]), s)
            /\ due' = Merge(due, Wakes(RecvTaken(s) \cup SendTaken(s)))
       ELSE UNCHANGED <<streams, due>>
    /\ UNCHANGED <<pending, acceptWaiter, openWaiter, terminal, close, closeIsFailure, ahead,
                   control, waits, ready>>

RouteReset(e) ==
    /\ e.kind = "reset"
    /\ IF Known(e)
       THEN /\ streams' = [streams EXCEPT ![e.stream].recvTerminal = IF @ = "none" THEN "reset" ELSE @,
                                          ![e.stream].recvWaiter = FALSE]
            /\ due' = Merge(due, Wakes(RecvTaken(e.stream)))
       ELSE UNCHANGED <<streams, due>>
    /\ UNCHANGED <<pending, acceptWaiter, openWaiter, terminal, close, closeIsFailure, ahead,
                   control, waits, ready>>

\* StopSending and StreamDataCredit: the writer of that stream.
RouteToWriter(e) ==
    /\ e.kind \in {"stop", "window"}
    /\ IF Known(e)
       THEN LET stop == e.kind = "stop" IN
            /\ streams' = [streams EXCEPT
                   ![e.stream].sendTerminal = IF stop /\ @ = "none" THEN "stopped" ELSE @,
                   ![e.stream].writing = IF stop THEN <<>> ELSE @,
                   ![e.stream].sendWaiter = FALSE, ![e.stream].finishWaiter = FALSE]
            /\ due' = Merge(due, Wakes(SendTaken(e.stream)))
       ELSE UNCHANGED <<streams, due>>
    /\ UNCHANGED <<pending, acceptWaiter, openWaiter, terminal, close, closeIsFailure, ahead,
                   control, waits, ready>>

\* ConnectionDataCredit, StreamLimit and PeerTransportParams: all writers, the openers,
\* or both.
RouteToAll(e) ==
    /\ e.kind \in {"credit", "limit", "params"}
    /\ LET writers == e.kind # "limit"
           openers == e.kind # "credit"
       IN /\ streams' = IF writers
                        THEN [s \in DOMAIN streams |->
                               [streams[s] EXCEPT !.sendWaiter = FALSE, !.finishWaiter = FALSE,
                                                  !.sendOutput = FALSE, !.finishOutput = FALSE]]
                        ELSE streams
          /\ openWaiter' = (openWaiter /\ ~openers)
          /\ due' = Merge(due, Wakes((IF openers THEN OpenTaken ELSE {}) \cup
                      (IF writers THEN UNION {SendTaken(s) : s \in DOMAIN streams} ELSE {})))
    /\ UNCHANGED <<pending, acceptWaiter, terminal, close, closeIsFailure, ahead, control, waits,
                   ready>>

Route(e) ==
    \/ RouteRefused(e) \/ RouteOpened(e) \/ RouteLateData(e) \/ RouteData(e)
    \/ RouteClosed(e) \/ RouteReset(e) \/ RouteToWriter(e) \/ RouteToAll(e)

-----------------------------------------------------------------------------
(* The driver's poll.  The lock is held from DriverLocks to DriverLeaves.  *)

driverRest == <<reactorVars, taskVars, boundVars, accepted>>

\* register_driver and take_ready.
DriverRegisters ==
    /\ turn = "parked" /\ scheduled
    /\ turn' = "registered"
    /\ scheduled' = FALSE /\ slot' = TRUE
    /\ ready' = FALSE
    /\ UNCHANGED <<defer, coreVars, routed, queuedBefore, eventReady, due, complete, lock,
                   lowerVars, driverRest>>

\* begin_defer and the lock.  A close that was asked for is delivered; a connection that
\* failed has no turn.
DriverLocks ==
    /\ turn = "registered"
    /\ lock' = TRUE /\ defer' = defer + 1
    /\ turn' = IF close THEN "closing" ELSE IF terminal # "no" THEN "settle" ELSE "drain"
    /\ queuedBefore' = filled
    /\ UNCHANGED <<flagVars, coreVars, routed, eventReady, due, complete, lowerVars, driverRest>>

\* drive_turn: decoded events, then one read, then what that read decoded.
RouteOne ==
    /\ turn \in {"drain", "polled", "polled read", "rest"}
    /\ events # <<>> /\ terminal = "no" /\ routed < RouteBudget
    /\ Route(Head(events))
    /\ events' = Tail(events)
    /\ routed' = routed + 1
    /\ turn' = IF turn = "drain" THEN "drain" ELSE "rest"
    /\ eventReady' = (eventReady \/ turn \in {"polled", "polled read"})
    /\ UNCHANGED <<defer, slot, scheduled, queuedBefore, complete, lock, net, latched, filled,
                   closing, sock, dwnx, driverRest>>

DrainEnds ==
    /\ turn \in {"drain", "rest"}
    /\ events = <<>> \/ terminal # "no" \/ routed = RouteBudget
    /\ turn' = IF turn = "drain"
               THEN IF terminal # "no" THEN "settle"
                    ELSE IF routed = RouteBudget THEN "after" ELSE "poll"
               ELSE "after"
    /\ UNCHANGED <<wakeVars, coreVars, routed, queuedBefore, eventReady, due, complete, lock,
                   lowerVars, driverRest>>

\* pump_bounded: write to make room, read once, and write what the read left to say.
PollWrites ==
    /\ turn \in {"poll", "batch"}
    /\ IF latched # "no" /\ turn = "poll"
       THEN turn' = "polled" /\ UNCHANGED <<latched, filled, control, waits>>
       ELSE IF WriteFails(FALSE)
       THEN turn' = "polled" /\ latched' = "io" /\ UNCHANGED <<filled, control, waits>>
       ELSE /\ WriteSide(FALSE)
            /\ turn' = IF turn = "poll" THEN "read" ELSE "polled read"
            /\ UNCHANGED latched
    /\ UNCHANGED <<wakeVars, coreVars, routed, queuedBefore, eventReady, due, complete, lock, net,
                   events, ahead, closing, sock, dwnx, driverRest>>

Readable == sock # "broken" /\ net # <<>> /\ Head(net).kind # "eof"

\* read_once that reads nothing.
ReadNothing ==
    /\ turn = "read"
    /\ ~(ahead < Allowance /\ Readable)
    /\ IF ahead >= Allowance
       THEN waits' = waits \cup {"ahead"} /\ UNCHANGED latched
       ELSE IF sock = "broken" THEN latched' = "io" /\ UNCHANGED waits
       ELSE IF net = <<>> THEN waits' = waits \cup {"read"} /\ UNCHANGED latched
       ELSE latched' = "eof" /\ UNCHANGED waits
    /\ turn' = "polled"
    /\ UNCHANGED <<wakeVars, coreVars, routed, queuedBefore, eventReady, due, complete, lock, net,
                   events, ahead, filled, control, closing, sock, dwnx, driverRest>>

\* read_once: a frame, and perhaps another one of the same batch.
ReadOne ==
    /\ turn = "batch" \/ (turn = "read" /\ ahead < Allowance)
    /\ Readable
    /\ LET f == Head(net) IN
       /\ net' = Tail(net)
       /\ events' = events \o Decoded(f) \o Closed(f)
       /\ dwnx' = AfterFrame(f)
       /\ latched' = IF f.kind = "close" THEN "peer" ELSE latched
       /\ control' = (control \/ f.kind = "ping")
       /\ turn' = IF f.kind = "close" THEN "polled" ELSE "batch"
    /\ UNCHANGED <<wakeVars, coreVars, routed, queuedBefore, eventReady, due, complete, lock, ahead,
                   filled, closing, sock, waits, driverRest>>

\* poll_next_event without an event: the ending, or a wait.  A read that ended inside a
\* record wakes its own waker.
PollEnds ==
    /\ turn \in {"polled", "polled read"}
    /\ events = <<>>
    /\ turn' = "after"
    /\ IF latched # "no"
       THEN Fail(latched) /\ due' = Merge(due, FailWakes) /\ UNCHANGED ready
       ELSE /\ ready' = (ready \/ turn = "polled read")
            /\ UNCHANGED <<streams, acceptWaiter, openWaiter, terminal, due>>
    /\ UNCHANGED <<defer, slot, scheduled, pending, close, closeIsFailure, routed, queuedBefore,
                   eventReady, complete, lock, lowerVars, driverRest>>

\* The end of drive_turn: output that left lets its senders try again.
AfterTurn ==
    /\ turn = "after"
    /\ turn' = "settle"
    /\ LET more == routed = RouteBudget \/ eventReady IN
       IF terminal = "no" /\ filled < queuedBefore
       THEN /\ streams' = OutputWoken
            /\ due' = Merge(Merge(due, OutputWakes), [wakes |-> {}, continuation |-> more])
       ELSE due' = Merge(due, [wakes |-> {}, continuation |-> more]) /\ UNCHANGED streams
    /\ UNCHANGED <<wakeVars, pending, acceptWaiter, openWaiter, terminal, close, closeIsFailure,
                   routed, queuedBefore, eventReady, complete, lock, lowerVars, driverRest>>

\* Driver::poll after the turn: an ending completes it, an overload is closed first, and
\* only a turn without more to do is followed by the forced flush.
Settle ==
    /\ turn = "settle"
    /\ IF terminal # "no"
       THEN IF close /\ closeIsFailure
            THEN due' = Merge(due, Continue) /\ UNCHANGED complete
            ELSE complete' = "err" /\ UNCHANGED due
       ELSE UNCHANGED <<due, complete>>
    /\ turn' = IF terminal = "no" /\ ~due.continuation THEN "pump" ELSE "leave"
    /\ UNCHANGED <<wakeVars, coreVars, routed, queuedBefore, eventReady, lock, lowerVars, driverRest>>

\* poll_pump: the forced flush.
Pump ==
    /\ turn = "pump"
    /\ turn' = "leave"
    /\ IF latched # "no" \/ WriteFails(TRUE)
       THEN /\ latched' = IF latched # "no" THEN latched ELSE "io"
            /\ Fail(latched') /\ due' = Merge(due, FailWakes)
            /\ complete' = "err"
            /\ UNCHANGED <<filled, control, waits>>
       ELSE /\ WriteSide(TRUE)
            /\ IF filled' < filled
               THEN streams' = OutputWoken /\ due' = Merge(due, OutputWakes)
               ELSE UNCHANGED <<streams, due>>
            /\ UNCHANGED <<latched, complete, acceptWaiter, openWaiter, terminal>>
    /\ UNCHANGED <<wakeVars, pending, close, closeIsFailure, routed, queuedBefore, eventReady, lock,
                   net, events, ahead, closing, sock, dwnx, driverRest>>

\* poll_close: what is queued, then the close, then the end of the byte stream.
CloseFails ==
    sock = "broken" /\ IF closing = "no" THEN WriteFails(TRUE) ELSE filled > 0

PollClose ==
    /\ turn = "closing"
    /\ IF CloseFails
       THEN /\ complete' = "err"
            /\ latched' = IF latched = "no" THEN "io" ELSE latched
            /\ turn' = "leave"
            /\ UNCHANGED <<filled, control, waits, closing>>
       ELSE IF closing = "no" /\ filled + (IF control THEN 1 ELSE 0) > 0
       THEN /\ WriteSide(TRUE)
            /\ turn' = IF filled' > 0 THEN "leave" ELSE "closing"
            /\ UNCHANGED <<complete, latched, closing>>
       ELSE IF closing = "no"
       THEN /\ filled' = 1 /\ closing' = "queued"
            /\ latched' = IF latched = "no" THEN "local" ELSE latched
            /\ UNCHANGED <<control, waits, complete, turn>>
       ELSE IF sock = "full" /\ filled > 0
       THEN /\ waits' = waits \cup {"write"} /\ turn' = "leave"
            /\ UNCHANGED <<filled, control, closing, latched, complete>>
       ELSE /\ filled' = 0 /\ closing' = "complete"
            /\ complete' = IF closeIsFailure THEN "err" ELSE "ok"
            /\ turn' = "leave"
            /\ UNCHANGED <<control, waits, latched>>
    /\ UNCHANGED <<wakeVars, coreVars, routed, queuedBefore, eventReady, due, lock, net, events,
                   ahead, sock, dwnx, driverRest>>

\* The lock is given back and end_defer counts down.
DriverLeaves ==
    /\ turn = "leave"
    /\ turn' = IF defer = 1 THEN "last" ELSE "left"
    /\ lock' = FALSE /\ defer' = defer - 1
    /\ UNCHANGED <<ready, slot, scheduled, coreVars, routed, queuedBefore, eventReady, due,
                   complete, lowerVars, driverRest>>

\* The last one out looks at the flag; then the effects.
DriverApplies ==
    /\ turn \in {"left", "last"}
    /\ turn' = IF complete # "no" THEN "over" ELSE "parked"
    /\ WakeDriver((turn = "last" /\ ready) \/ due.continuation)
    /\ runnable' = [t \in Tasks |-> runnable[t] \/ t \in due.wakes]
    /\ due' = NoEffects
    /\ routed' = 0 /\ queuedBefore' = 0 /\ eventReady' = FALSE
    /\ UNCHANGED <<ready, defer, coreVars, complete, lock, lowerVars, reactorVars, stage, doing,
                   effects, phase, boundVars, accepted>>

-----------------------------------------------------------------------------
(* The handles.  with_core counts in, does its work under the lock, counts *)
(* out, and applies its effects.                                           *)

taskRest == <<turnVars, reactorVars, boundVars>>

\* begin_defer.  A poll uses up the wake that led to it.
Begin(t, op) ==
    /\ stage[t] = "rest" \/ (stage[t] = "over" /\ op = "drop")
    /\ stage' = [stage EXCEPT ![t] = "begun"]
    /\ doing' = [doing EXCEPT ![t] = op]
    /\ defer' = defer + 1
    /\ UNCHANGED <<ready, slot, scheduled, coreVars, lowerVars, effects, phase, taskRest, accepted>>

BeginPoll(t, op) == runnable[t] /\ runnable' = [runnable EXCEPT ![t] = FALSE] /\ Begin(t, op)
BeginCall(t, op) == Begin(t, op) /\ UNCHANGED runnable

\* What an operation leaves: its effects, whether its owner goes on, and what becomes of
\* the handle.
Leaves(t, eff, goesOn, next) ==
    /\ effects' = [effects EXCEPT ![t] = eff]
    /\ doing' = [doing EXCEPT ![t] = next]
    /\ runnable' = [runnable EXCEPT ![t] = @ \/ goesOn]

Inside(t, op) == stage[t] = "begun" /\ doing[t] = op
Out == IF defer = 1 THEN "last" ELSE "left"

\* end_defer counts down behind the operation; nothing tells the two apart.
Did(t, eff, goesOn, next) ==
    /\ Leaves(t, eff, goesOn, next)
    /\ stage' = [stage EXCEPT ![t] = Out]
    /\ defer' = defer - 1

\* The last one out does not look at the flag.
Applies_Blind(t) ==
    /\ stage[t] \in {"left", "last"}
    /\ stage' = [stage EXCEPT ![t] = doing[t]]
    /\ doing' = [doing EXCEPT ![t] = "nothing"]
    /\ WakeDriver(effects[t].continuation)
    /\ runnable' = [u \in Tasks |-> runnable[u] \/ u \in effects[t].wakes]
    /\ effects' = [effects EXCEPT ![t] = NoEffects]
    /\ UNCHANGED <<ready, defer, coreVars, lowerVars, phase, taskRest, accepted>>

\* The last one out looks at the flag; then apply_effects.
Applies(t) ==
    /\ stage[t] \in {"left", "last"}
    /\ stage' = [stage EXCEPT ![t] = doing[t]]
    /\ doing' = [doing EXCEPT ![t] = "nothing"]
    /\ WakeDriver((stage[t] = "last" /\ ready) \/ effects[t].continuation)
    /\ runnable' = [u \in Tasks |-> runnable[u] \/ u \in effects[t].wakes]
    /\ effects' = [effects EXCEPT ![t] = NoEffects]
    /\ UNCHANGED <<ready, defer, coreVars, lowerVars, phase, taskRest, accepted>>

lowerRest == <<net, events, ahead, latched, filled, control, closing, sock, waits, dwnx>>

\* An operation that finds the connection below ended ends this one.
FailBelow(t) ==
    /\ Fail(latched)
    /\ Did(t, FailWakes, TRUE, "over")
    /\ UNCHANGED <<pending, close, closeIsFailure, flagVars, lowerRest, phase, accepted, taskRest>>

\* replace_waiter: a waker that was not there yet is work for the driver.
Newly(held) == [wakes |-> {}, continuation |-> ~held]

-----------------------------------------------------------------------------
(* Connection and OpenStreams.                                             *)

\* A half that its owner uses, or only keeps.
Owned(t) == IF Does(t[1]) THEN "rest" ELSE "kept"

\* accept.  It takes the lock alone.
Accept(k) ==
    /\ stage[Acceptor(k)] = "rest" /\ runnable[Acceptor(k)]
    /\ IF terminal # "no"
       THEN /\ stage' = [stage EXCEPT ![Acceptor(k)] = "over"]
            /\ UNCHANGED <<streams, pending, acceptWaiter, accepted, doing, effects, runnable>>
       ELSE IF pending[k] # <<>>
       THEN LET s == Head(pending[k]) IN
            /\ pending' = [pending EXCEPT ![k] = Tail(@)]
            /\ streams' = [streams EXCEPT ![s].pendingAccept = FALSE, ![s].recvHandle = TRUE,
                                          ![s].sendHandle = @ \/ k = "bidi"]
            /\ accepted' = [accepted EXCEPT ![s] = @ + 1]
            /\ stage' = [t \in Tasks |->
                           IF t \in {Reader(s)} \cup (IF k = "bidi" THEN {Writer(s)} ELSE {})
                           THEN Owned(t) ELSE stage[t]]
            /\ UNCHANGED <<acceptWaiter, doing, effects, runnable>>
       ELSE /\ acceptWaiter' = [acceptWaiter EXCEPT ![k] = TRUE]
            /\ stage' = [stage EXCEPT ![Acceptor(k)] = "left"]
            /\ effects' = [effects EXCEPT ![Acceptor(k)] = Newly(acceptWaiter[k])]
            /\ doing' = [doing EXCEPT ![Acceptor(k)] = "rest"]
            /\ runnable' = [runnable EXCEPT ![Acceptor(k)] = FALSE]
            /\ UNCHANGED <<streams, pending, accepted>>
    /\ UNCHANGED <<openWaiter, terminal, close, closeIsFailure, wakeVars, lowerVars, phase, taskRest>>

BeginOpen == LocalBidi \ dwnx.open # {} /\ BeginPoll(Opener, "open")

\* open.
Open ==
    /\ Inside(Opener, "open")
    /\ IF terminal # "no"
       THEN /\ Did(Opener, NoEffects, TRUE, "over")
            /\ UNCHANGED <<coreVars, flagVars, lowerRest, phase, taskRest, accepted>>
       ELSE IF latched # "no" THEN FailBelow(Opener)
       ELSE IF dwnx.limit = 0
       THEN /\ openWaiter' = TRUE
            /\ Did(Opener, Newly(openWaiter), FALSE, "rest")
            /\ UNCHANGED <<streams, pending, acceptWaiter, terminal, close, closeIsFailure, flagVars,
                           lowerRest, phase, taskRest, accepted>>
       ELSE \E s \in LocalBidi \ dwnx.open :
            /\ dwnx' = [dwnx EXCEPT !.limit = @ - 1, !.open = @ \cup {s}]
            /\ streams' = With(s, [NewStream EXCEPT !.sendHandle = TRUE, !.recvHandle = TRUE])
            /\ accepted' = [accepted EXCEPT ![s] = @ + 1]
            /\ Leaves(Opener, Continue, TRUE, "rest")
            /\ defer' = defer - 1
            /\ stage' = [stage EXCEPT ![Opener] = Out, ![Reader(s)] = Owned(Reader(s)),
                                       ![Writer(s)] = Owned(Writer(s))]
            /\ UNCHANGED <<pending, acceptWaiter, openWaiter, terminal, close, closeIsFailure,
                           flagVars, net, events, ahead, latched, filled, control, closing, sock,
                           waits, phase, taskRest>>

\* close: the first reason counts.  It takes the lock alone.
Close ==
    /\ stage[Closer] = "rest"
    /\ stage' = [stage EXCEPT ![Closer] = "left"]
    /\ IF close
       THEN Leaves(Closer, Continue, TRUE, "over") /\ UNCHANGED coreVars
       ELSE /\ close' = TRUE
            /\ Fail("app")
            /\ Leaves(Closer, Merge(FailWakes, Continue), TRUE, "over")
            /\ UNCHANGED <<pending, closeIsFailure>>
    /\ UNCHANGED <<wakeVars, lowerVars, phase, taskRest, accepted>>

-----------------------------------------------------------------------------
(* RecvStream.                                                             *)

BeginRecv(s) ==
    /\ stage[Reader(s)] \in {"rest", "over"}
    /\ \/ BeginPoll(Reader(s), "data")
       \/ Does("halt") /\ streams[s].recvTerminal = "none" /\ BeginCall(Reader(s), "halt")
       \/ Does("drop") /\ BeginCall(Reader(s), "drop")

\* poll_data: what was taken is credited to both windows; an end is told again and again.
PollData(s) ==
    LET state == streams[s]
        t == Reader(s)
    IN /\ Inside(t, "data")
       /\ IF terminal # "no"
          THEN /\ Did(t, NoEffects, TRUE, "over")
               /\ UNCHANGED <<coreVars, flagVars, lowerRest, phase, taskRest, accepted>>
          ELSE IF state.recv # <<>>
          THEN IF latched # "no"
               THEN /\ FailSlots(latched)
                    /\ streams' = Failed([streams EXCEPT ![s].recv = Tail(@)])
                    /\ Did(t, FailWakes, TRUE, "over")
                    /\ UNCHANGED <<pending, close, closeIsFailure, flagVars, lowerRest, phase,
                                   taskRest, accepted>>
               ELSE /\ CreditConnection(0, 1)
                    /\ streams' = [streams EXCEPT ![s].recv = Tail(@),
                          ![s].recvTerminal = IF Head(state.recv) THEN "finished" ELSE @]
                    /\ Did(t, Continue, TRUE, "rest")
                    /\ UNCHANGED <<pending, acceptWaiter, openWaiter, terminal, close,
                                   closeIsFailure, slot, scheduled, net, events, latched,
                                   filled, closing, sock, dwnx, phase, taskRest, accepted>>
          ELSE IF state.recvTerminal # "none"
          THEN /\ Did(t, NoEffects, TRUE, "over")
               /\ UNCHANGED <<coreVars, flagVars, lowerRest, phase, taskRest, accepted>>
          ELSE /\ streams' = [streams EXCEPT ![s].recvWaiter = TRUE]
               /\ Did(t, Newly(state.recvWaiter), FALSE, "rest")
               /\ UNCHANGED <<pending, acceptWaiter, openWaiter, terminal, close, closeIsFailure,
                              flagVars, lowerRest, phase, taskRest, accepted>>

\* The bytes that are thrown away are not credited.
DiscardCredit_None(units) ==
    UNCHANGED <<ahead, control, waits, ready>>

\* discard_receive: the bytes that are thrown away are credited to the connection alone.
DiscardCredit(units) == CreditConnection(0, units)

\* stop_sending, and the drop of the handle: discard_receive, then drop_direction.
Discard(s, op) ==
    LET state == streams[s]
        t == Reader(s)
        live == state.recvTerminal = "none"
        shuts == live /\ ~state.recvShut
        refused == shuts /\ latched # "no"
        units == Len(state.recv)
        unpaid == ~refused /\ units > 0 /\ latched # "no"
        emptied == IF refused THEN state
                   ELSE [state EXCEPT !.recvShut = @ \/ shuts, !.recv = <<>>,
                                      !.recvTerminal = IF live THEN "stopped" ELSE @]
        done == IF refused \/ unpaid THEN Failed(With(s, emptied)) ELSE With(s, emptied)
    IN /\ Inside(t, op)
       /\ streams' = IF op = "drop"
                     THEN Cleaned([done EXCEPT ![s].recvHandle = FALSE], s) ELSE done
       /\ IF refused \/ unpaid
          THEN /\ FailSlots(latched)
               /\ Did(t, Merge(FailWakes, Continue), TRUE, IF op = "drop" THEN "absent" ELSE "rest")
               /\ UNCHANGED <<ahead, control, waits, ready>>
          ELSE /\ Did(t, Continue, TRUE, IF op = "drop" THEN "absent" ELSE "rest")
               /\ IF units > 0 THEN DiscardCredit(units)
                  ELSE control' = (control \/ shuts) /\ UNCHANGED <<ahead, waits, ready>>
               /\ UNCHANGED <<acceptWaiter, openWaiter, terminal>>
       /\ UNCHANGED <<pending, close, closeIsFailure, slot, scheduled, net, events, latched,
                      filled, closing, sock, dwnx, phase, taskRest, accepted>>

-----------------------------------------------------------------------------
(* SendStream.  Its owner sends a message, finishes, and may give up at    *)
(* any time; an unframed owner sends one octet instead of the message.     *)

coreRest == <<pending, acceptWaiter, openWaiter, terminal, close, closeIsFailure>>

\* send_data: the message is retained.  It takes the lock alone.
SendData(s) ==
    LET t == Writer(s) IN
    /\ stage[t] = "rest" /\ runnable[t]
    /\ phase[s] = "new"
    /\ Does("unframed") => terminal # "no" \/ streams[s].sendTerminal # "none"
    /\ IF terminal # "no" \/ streams[s].sendTerminal # "none"
       THEN /\ stage' = [stage EXCEPT ![t] = "over"]
            /\ UNCHANGED <<streams, phase, doing, effects, runnable>>
       ELSE /\ streams' = [streams EXCEPT ![s].writing = scene.message]
            /\ phase' = [phase EXCEPT ![s] = "sending"]
            /\ stage' = [stage EXCEPT ![t] = "left"]
            /\ Leaves(t, Continue, TRUE, "rest")
    /\ UNCHANGED <<coreRest, wakeVars, lowerVars, taskRest, accepted>>

\* A poll that sends without a message looks for an ending first, in a lock of its own.
BeginSend(s) ==
    /\ stage[Writer(s)] \in {"rest", "over"}
    /\ \/ phase[s] = "sending" /\ BeginPoll(Writer(s), "ready")
       \/ phase[s] = "sent" /\ BeginPoll(Writer(s), "finish")
       \/ /\ phase[s] = "new" /\ Does("unframed")
          /\ terminal = "no" /\ streams[s].sendTerminal = "none"
          /\ BeginPoll(Writer(s), "unframed")
       \/ Does("reset") /\ streams[s].sendTerminal = "none" /\ BeginCall(Writer(s), "reset")
       \/ Does("drop") /\ BeginCall(Writer(s), "drop")

\* try_write_stream: as much as the windows and the buffer have room for.
Taken(s, offered) ==
    IF Room THEN Min({offered, dwnx.stream[s], dwnx.conn, Carry + 1 - filled}) ELSE 0

TryWrite(s, units) ==
    /\ filled' = filled + units
    /\ dwnx' = [dwnx EXCEPT !.stream[s] = @ - units, !.conn = @ - units]
    /\ UNCHANGED <<net, events, ahead, latched, control, closing, sock, waits>>

\* waiting_for_output, after the write.
WaitingForOutput == filled' >= Carry

\* park_send.
Parked(state, finish, output) ==
    IF finish THEN [state EXCEPT !.finishWaiter = TRUE, !.finishOutput = output]
    ELSE [state EXCEPT !.sendWaiter = TRUE, !.sendOutput = output]

\* The ends of a poll for sending.
Over(t) ==
    /\ Did(t, NoEffects, TRUE, "over")
    /\ UNCHANGED <<coreVars, flagVars, lowerRest, phase, taskRest, accepted>>

Waits(s, state, finish, output, eff) ==
    /\ streams' = [streams EXCEPT ![s] = Parked(state, finish, output)]
    /\ Did(Writer(s), Merge(eff, Newly(IF finish THEN state.finishWaiter ELSE state.sendWaiter)),
           FALSE, "rest")
    /\ UNCHANGED <<coreRest, flagVars, phase, taskRest, accepted>>

GoesOn(s, state, to) ==
    /\ streams' = [streams EXCEPT ![s] = state]
    /\ phase' = [phase EXCEPT ![s] = to]
    /\ Did(Writer(s), Continue, TRUE, "rest")
    /\ UNCHANGED <<coreRest, flagVars, taskRest, accepted>>

\* poll_retained: chunk after chunk of what is retained.
PollReady(s) ==
    LET state == streams[s]
        t == Writer(s)
        offered == Head(state.writing)
        units == Taken(s, offered)
    IN /\ Inside(t, "ready")
       /\ IF terminal # "no" \/ state.sendTerminal # "none" THEN Over(t)
          ELSE IF latched # "no" THEN FailBelow(t)
          ELSE IF s \in dwnx.tx
          THEN Waits(s, state, FALSE, FALSE, NoEffects) /\ UNCHANGED lowerRest
          ELSE /\ TryWrite(s, units)
               /\ IF units = 0
                  THEN Waits(s, state, FALSE, WaitingForOutput, NoEffects)
                  ELSE IF units < offered
                  THEN Waits(s, [state EXCEPT !.writing[1] = @ - units], FALSE,
                             WaitingForOutput, Continue)
                  ELSE GoesOn(s, [state EXCEPT !.writing = Tail(@)],
                              IF Len(state.writing) = 1 THEN "sent" ELSE "sending")

\* poll_send: an octet that is not retained.  The ending is not looked for again.
PollSend(s) ==
    LET t == Writer(s)
        units == Taken(s, 1)
    IN /\ Inside(t, "unframed")
       /\ IF latched # "no" THEN FailBelow(t)
          ELSE IF s \in dwnx.tx
          THEN Waits(s, streams[s], FALSE, FALSE, NoEffects) /\ UNCHANGED lowerRest
          ELSE /\ TryWrite(s, units)
               /\ IF units = 0
                  THEN Waits(s, streams[s], FALSE, WaitingForOutput, NoEffects)
                  ELSE GoesOn(s, streams[s], "sent")

\* poll_finish, with nothing retained any more: one FIN.
PollFinish(s) ==
    LET state == streams[s]
        t == Writer(s)
    IN /\ Inside(t, "finish")
       /\ IF terminal # "no" \/ state.sendTerminal # "none" THEN Over(t)
          ELSE IF latched # "no" THEN FailBelow(t)
          ELSE IF s \in dwnx.tx
          THEN Waits(s, state, TRUE, FALSE, NoEffects) /\ UNCHANGED lowerRest
          ELSE IF ~Room
          THEN /\ UNCHANGED lowerRest
               /\ Waits(s, state, TRUE, WaitingForOutput, NoEffects)
          ELSE /\ streams' = [streams EXCEPT ![s].sendTerminal = "finished"]
               /\ filled' = filled + 1
               /\ dwnx' = [dwnx EXCEPT !.tx = @ \cup {s}]
               /\ events' = events \o ClosedBy(s, dwnx.rx, {s})
               /\ Did(t, Continue, TRUE, "over")
               /\ UNCHANGED <<coreRest, flagVars, net, ahead, latched, control, closing, sock, waits,
                              phase, taskRest, accepted>>

\* reset, and the drop of the handle: reset_send, then drop_direction.
Abandon(s, op) ==
    LET state == [streams[s] EXCEPT !.writing = <<>>]
        t == Writer(s)
        live == state.sendTerminal = "none"
        refused == live /\ latched # "no"
        shuts == live /\ ~refused /\ s \notin dwnx.tx
        ended == IF live /\ ~refused
                 THEN [state EXCEPT !.sendShut = TRUE, !.sendTerminal = "reset"] ELSE state
        done == IF refused THEN Failed(With(s, ended)) ELSE With(s, ended)
        next == IF op = "drop" THEN "absent" ELSE "rest"
    IN /\ Inside(t, op)
       /\ streams' = IF op = "drop"
                     THEN Cleaned([done EXCEPT ![s].sendHandle = FALSE], s) ELSE done
       /\ IF refused
          THEN FailSlots(latched) /\ Did(t, Merge(FailWakes, Continue), TRUE, next)
          ELSE UNCHANGED <<acceptWaiter, openWaiter, terminal>> /\ Did(t, Continue, TRUE, next)
       /\ control' = (control \/ (live /\ ~refused))
       /\ dwnx' = IF shuts THEN [dwnx EXCEPT !.tx = @ \cup {s}] ELSE dwnx
       /\ events' = IF shuts THEN events \o ClosedBy(s, dwnx.rx, {s}) ELSE events
       /\ UNCHANGED <<pending, close, closeIsFailure, flagVars, net, ahead, latched, filled, closing,
                      sock, waits, phase, taskRest, accepted>>

-----------------------------------------------------------------------------
DriverStep ==
    \/ DriverRegisters \/ DriverLocks
    \/ RouteOne \/ DrainEnds \/ PollWrites \/ ReadNothing \/ ReadOne \/ PollEnds
    \/ AfterTurn \/ Settle \/ Pump \/ PollClose \/ DriverLeaves \/ DriverApplies

HandleStep ==
    \/ \E t \in Tasks : Applies(t)
    \/ \E k \in Kinds : Accept(k)
    \/ BeginOpen \/ Open \/ Close
    \/ \E s \in Ids : BeginRecv(s) \/ PollData(s) \/ Discard(s, "halt") \/ Discard(s, "drop")
    \/ \E s \in Sending :
          \/ SendData(s) \/ BeginSend(s) \/ PollReady(s) \/ PollSend(s) \/ PollFinish(s)
          \/ Abandon(s, "reset") \/ Abandon(s, "drop")

Outside ==
    \/ (lock => turn = "read") /\ \E f \in Sendable : Arrive(f)
    \/ (lock => turn \in {"read", "pump", "closing"}) /\ (Jam \/ Drains \/ Breaks)
    \/ (lock => turn = "leave") /\ LowerReady

\* What the others do while the driver holds the lock changes nothing it looks at before
\* its next call below, and nothing it does is seen before the lock is given back: it is
\* enough to let them go on before such a call and before the lock is given back.
Next == DriverStep \/ (~lock /\ HandleStep) \/ Outside

Spec == Init /\ [][Next]_vars

-----------------------------------------------------------------------------
(* Properties.                                                             *)

TypeOK ==
    /\ DOMAIN streams \subseteq Ids
    /\ defer \in 0..(Cardinality(Tasks) + 1) /\ calls \in Nat
    /\ filled \in 0..(Carry + 1) /\ ahead \in Nat
    /\ terminal \in {"no", "app", "overload", "internal", "peer", "eof", "io", "local"}
    /\ complete \in {"no", "ok", "err"}

\* Nobody is in the middle of anything and no wake is on its way.
Quiet ==
    /\ \A t \in Tasks : stage[t] \in {"absent", "kept", "rest", "over"}
    /\ turn \in {"parked", "over"} /\ (turn = "parked" => ~scheduled)
    /\ calls = 0

\* What a task's next poll would return with.
CouldAccept(k) == terminal # "no" \/ pending[k] # <<>>
CouldOpen == terminal # "no" \/ dwnx.limit > 0
CouldRead(s) ==
    terminal # "no" \/ streams[s].recv # <<>> \/ streams[s].recvTerminal # "none"
CouldSend(s) ==
    \/ terminal # "no" \/ streams[s].sendTerminal # "none"
    \/ Room /\ (phase[s] = "sent" \/ (dwnx.stream[s] > 0 /\ dwnx.conn > 0))

\* A handle that waits has nothing to wait for no longer: at rest, what would let its
\* next poll return has woken it, whoever brought it about and on whichever thread.
HandlesAreTold ==
    Quiet =>
        /\ \A k \in Kinds :
              stage[Acceptor(k)] = "rest" /\ ~runnable[Acceptor(k)] => ~CouldAccept(k)
        /\ stage[Opener] = "rest" /\ ~runnable[Opener] => ~CouldOpen
        /\ \A s \in Ids : stage[Reader(s)] = "rest" /\ ~runnable[Reader(s)] => ~CouldRead(s)
        /\ \A s \in Sending : stage[Writer(s)] = "rest" /\ ~runnable[Writer(s)] => ~CouldSend(s)

\* A driver that waits has nothing to do: no ending or close to deliver, no event to
\* route, nothing to read unless read-ahead stopped it with data that somebody holds,
\* nothing to write that the byte stream would take.
DriverIsTold ==
    Quiet /\ complete = "no" =>
        /\ terminal = "no" \/ (close /\ filled > 0 /\ sock = "full" /\ "write" \in waits)
        /\ terminal = "no" =>
              /\ events = <<>>
              /\ net # <<>> => ahead >= Allowance /\ "ahead" \in waits
              /\ net = <<>> => "read" \in waits \/ ("ahead" \in waits /\ ahead >= Allowance)
              /\ filled > 0 \/ control => sock = "full" /\ "write" \in waits

Held == FoldFunction(+, 0, [s \in DOMAIN streams |-> Len(streams[s].recv)])

\* Every octet the connection delivered is with a stream or was credited to the
\* connection, once, whether it was read, thrown away or came too late; and what waits
\* in a stream has a reader or will get one.
CreditedOnce ==
    /\ latched = "no" /\ terminal = "no" => ahead = Held
    /\ \A s \in DOMAIN streams :
          streams[s].recv # <<>> /\ terminal = "no" /\ latched = "no" =>
              streams[s].pendingAccept \/ streams[s].recvHandle

\* A stream is handed out once, however late its last data come, and is forgotten when
\* the connection below is done with it and nobody has a handle.
StreamsRetire ==
    /\ \A s \in Ids : accepted[s] <= 1
    /\ \A s \in DOMAIN streams : ~Retired(streams[s])
    /\ \A s \in Ids :
          stage[Reader(s)] \in {"rest", "over"} => s \in DOMAIN streams /\ streams[s].recvHandle

\* Everybody who waits, handle or driver, has been told of what would let it go on.
EveryoneIsTold == HandlesAreTold /\ DriverIsTold

=============================================================================
