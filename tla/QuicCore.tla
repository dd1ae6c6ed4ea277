------------------------------ MODULE QuicCore ------------------------------
(***************************************************************************)
(* h3-ngnet-quic: hyperium's HTTP/3 traits over one detached QUIC          *)
(* connection, without a driver.  Whoever polls a handle takes the lock on *)
(* the Core, pumps the connection (read, expire, route, produce, arm the   *)
(* timer), does what it came for, arms the timer again, gives the lock     *)
(* back and wakes whom the pass concerned.  A task that finds nothing      *)
(* registers before the lock is given back.                                *)
(*                                                                         *)
(* Three things wake a task: a datagram the endpoint routes here wakes     *)
(* every waker registered below; a pass wakes the registry of this crate   *)
(* for what it changed; and the one timer, whose waker belongs to the Core *)
(* and not to a task, wakes the whole registry.                            *)
(***************************************************************************)
EXTENDS Integers, Sequences, SequencesExt

CONSTANTS
    PeerUni,     \* streams the peer may open, unidirectional
    PeerBidi,    \* and bidirectional
    LocalBidi,   \* streams this end may open
    Inbound,     \* DATAGRAM_QUEUE for datagrams routed here
    Outbound,    \* OUTBOUND_DATA_QUEUE
    TimerTurns,  \* TIMER_TURNS
    MaxTime,     \* bound on the clock
    MaxDisplaced,\* bound on the offers that another frame displaces
    Scenes       \* what the peer, the handles' owners and ngtcp2 may do

ASSUME CoreAssumption ==
    /\ PeerUni \cap PeerBidi = {} /\ PeerUni \cap LocalBidi = {} /\ PeerBidi \cap LocalBidi = {}
    /\ Inbound \in Nat \ {0} /\ Outbound \in Nat \ {0} /\ TimerTurns \in Nat \ {0}

VARIABLES
    \* Core
    streams,     \* Core::streams
    accepts,     \* Core::accept_uni and accept_bidi
    terminal,    \* Core::terminal
    released,    \* Core::released
    sleeping,    \* Core::sleeping_until, with the sleep it is for
    \* Wakers
    atConn,      \* WakerSet::connection
    atStream,    \* WakerSet::streams
    \* the lock on the Core and the pass of the task that holds it
    holder, step, turn, changed,
    \* what is shared with the endpoint
    inbound, outbound, closeOut,
    routed,      \* ConnectionInner::wakers
    capacity,    \* ConnectionInner::capacity_wakers
    \* ngtcp2, and what its handlers recorded
    quic, observed,
    \* the tasks that own the handles
    stage, doing, next, due, runnable, phase, got,
    \* the world
    now, sent, displaced, scene,
    \* history
    arrived, taken, wire

Ids == PeerUni \cup PeerBidi \cup LocalBidi
Sending == PeerBidi \cup LocalBidi
Kinds == {"uni", "bidi"}
KindOf(s) == IF s \in PeerUni THEN "uni" ELSE "bidi"

coreVars == <<streams, accepts, terminal, released, sleeping>>
registryVars == <<atConn, atStream>>
passVars == <<holder, step, turn, changed>>
queueVars == <<inbound, outbound, closeOut, routed, capacity>>
quicVars == <<quic, observed>>
taskVars == <<stage, doing, next, due, runnable, phase, got>>
worldVars == <<now, sent, displaced, scene>>
historyVars == <<arrived, taken, wire>>
vars == <<coreVars, registryVars, passVars, queueVars, quicVars, taskVars, worldVars, historyVars>>

Acceptor(k) == <<"accept", k>>
Opener == <<"open", "bidi">>
Closer == <<"close", "connection">>
Reader(s) == <<"recv", s>>
Writer(s) == <<"send", s>>
Tasks == {Acceptor(k) : k \in Kinds} \cup {Opener, Closer}
         \cup {Reader(s) : s \in Ids} \cup {Writer(s) : s \in Sending}
Nobody == <<"nobody", "none">>
None == 0                      \* no deadline; the clock starts at 1

Does(move) == move \in scene.does

\* Changed: whom a pass concerns.
Unchanged == [connection |-> FALSE, streams |-> {}]
Everything == [connection |-> TRUE, streams |-> Ids]
\* wake_everything: the streams that have an entry.
Everyone == [connection |-> TRUE, streams |-> changed.streams \cup DOMAIN streams]

\* StreamState::default.
NewStream ==
    [incoming |-> 0, finished |-> FALSE, recvTerminal |-> FALSE, sendTerminal |-> FALSE,
     writing |-> 0, sendFinished |-> FALSE, sendReset |-> FALSE, handles |-> 0]

Init ==
    /\ scene \in Scenes
    /\ streams = [s \in {} |-> NewStream] /\ accepts = [k \in Kinds |-> <<>>]
    /\ terminal = "no" /\ released = FALSE /\ sleeping = None
    /\ atConn = {} /\ atStream = [s \in Ids |-> {}]
    /\ holder = Nobody /\ step = "free" /\ turn = 0 /\ changed = Unchanged
    /\ inbound = <<>> /\ outbound = 0 /\ closeOut = FALSE /\ routed = {} /\ capacity = {}
    /\ quic = [owes |-> FALSE, expiry |-> IF Does("timer") THEN 2 ELSE None, paced |-> FALSE, limit |-> scene.limit,
               window |-> [s \in Sending |-> scene.window],
               open |-> {}, rx |-> {}, tx |-> PeerUni, acked |-> PeerUni]
    /\ observed = <<>>
    /\ stage = [t \in Tasks |->
                  IF \/ t \in {Acceptor(KindOf(s)) : s \in scene.streams \ LocalBidi}
                     \/ t = Opener /\ Does("open")
                     \/ t = Closer /\ (Does("close") \/ Does("abandon"))
                  THEN "rest" ELSE "absent"]
    /\ doing = [t \in Tasks |-> "nothing"] /\ next = [t \in Tasks |-> "rest"]
    /\ due = [t \in Tasks |-> Unchanged]
    /\ runnable = [t \in Tasks |-> TRUE]
    /\ phase = [s \in Sending |-> "new"] /\ got = {}
    /\ now = 1 /\ sent = 0 /\ displaced = 0
    /\ arrived = [s \in Ids |-> 0] /\ taken = [s \in Ids |-> 0]
    /\ wire = [s \in Sending |-> [units |-> 0, fin |-> FALSE]]

-----------------------------------------------------------------------------
(* Wakers and the timer's waker.                                           *)

Woken(tasks) == runnable' = [t \in Tasks |-> runnable[t] \/ t \in tasks]

\* wake_connection and wake_stream: the lists are drained, then woken.
WakesOf(who) ==
    (IF who.connection THEN atConn ELSE {}) \cup UNION {atStream[s] : s \in who.streams}
Drained(who) ==
    /\ atConn' = IF who.connection THEN {} ELSE atConn
    /\ atStream' = [s \in Ids |-> IF s \in who.streams THEN {} ELSE atStream[s]]

\* The reactor reaches the moment the sleep was registered for: TimerWake::wake.
Fires(time) == sleeping # None /\ sleeping <= time

-----------------------------------------------------------------------------
(* The endpoint and the clock.  They interleave with a pass that holds the *)
(* Core where it matters: after it read and before it looks.               *)

Between == step \in {"free", "then"}

\* The clock.  A punctual reactor wakes the registry at once; a late one may be beaten by
\* a pass that looks at the clock itself.
Tick ==
    /\ now < MaxTime /\ Does("timer")
    /\ IF Does("late") THEN Between ELSE step = "free"
    /\ now' = now + 1
    /\ IF Fires(now + 1) /\ ~Does("late")
       THEN Woken(WakesOf(Everything)) /\ Drained(Everything)
       ELSE UNCHANGED <<runnable, registryVars>>
    /\ UNCHANGED <<coreVars, passVars, queueVars, quicVars, stage, doing, next, due, phase, got,
                   sent, displaced, scene, historyVars>>

\* The late reactor gets there, if the sleep is still registered.
TimerWake ==
    /\ Does("late") /\ Between
    /\ Fires(now)
    /\ WakesOf(Everything) # {}
    /\ Woken(WakesOf(Everything)) /\ Drained(Everything)
    /\ UNCHANGED <<coreVars, passVars, queueVars, quicVars, stage, doing, next, due, phase, got,
                   worldVars, historyVars>>

Frame(kind, s, fin) == [kind |-> kind, stream |-> s, fin |-> fin]

PeerEnded(s) ==
    \/ s \in quic.rx
    \/ \E i \in DOMAIN inbound : inbound[i].stream = s /\ (inbound[i].fin \/ inbound[i].kind = "reset")

\* What the peer may send next.
Sendable ==
    {f \in {Frame(k, s, b) : k \in {"data", "reset", "stop", "credit", "ack"} \cap scene.peer,
                             s \in scene.streams, b \in {FALSE} \cup {TRUE : x \in {"fin"} \cap scene.peer}} :
        /\ f.stream \in LocalBidi => f.stream \in quic.open
        /\ f.kind \in {"data", "reset"} => ~PeerEnded(f.stream)
        /\ f.kind # "data" => ~f.fin
        /\ f.kind \in {"stop", "credit"} => f.stream \in (Sending \cap quic.open) \ quic.tx
        /\ f.kind = "ack" => f.stream \in quic.tx \ quic.acked}
    \cup {Frame(k, "none", FALSE) : k \in {"streams", "close", "bad"} \cap scene.peer}

\* deliver_inbound: a datagram that finds the queue full is lost; one that does not wakes
\* everybody who registered.  A connection that was released is not routed to.
Deliver(f) ==
    /\ Between
    /\ sent < scene.sends /\ ~released
    /\ f \in Sendable
    /\ sent' = sent + 1
    /\ IF Len(inbound) >= Inbound
       THEN UNCHANGED <<inbound, routed, runnable>>
       ELSE inbound' = Append(inbound, f) /\ Woken(routed) /\ routed' = {}
    /\ UNCHANGED <<coreVars, registryVars, passVars, outbound, closeOut, capacity, quicVars, stage,
                   doing, next, due, phase, got, now, displaced, scene, historyVars>>

\* take_outbound: the step from full to not full wakes who waits for room.
TakeOutbound ==
    /\ Between
    /\ outbound > 0 \/ closeOut
    /\ IF outbound > 0 THEN outbound' = outbound - 1 /\ UNCHANGED closeOut
       ELSE closeOut' = FALSE /\ UNCHANGED outbound
    /\ IF outbound = Outbound THEN Woken(capacity) /\ capacity' = {}
       ELSE UNCHANGED <<runnable, capacity>>
    /\ UNCHANGED <<coreVars, registryVars, passVars, inbound, routed, quicVars, stage, doing, next,
                   due, phase, got, worldVars, historyVars>>

Endpoint == (\E f \in Sendable : Deliver(f)) \/ TakeOutbound \/ Tick \/ TimerWake

-----------------------------------------------------------------------------
(* ngtcp2, external.  Its deadline is never far and may have passed.       *)

Deadlines ==
    IF ~Does("timer") THEN {quic.expiry}
    ELSE (IF Does("due") THEN {now} ELSE {}) \cup {now + 1}

\* A stream's first frame opens it; it is closed when nothing more can come or be
\* acknowledged on either half.
Event(kind, s, fin) == [kind |-> kind, stream |-> s, fin |-> fin]
ClosedBy(s, rx, acked) == IF s \in rx \cap acked THEN <<Event("closed", s, FALSE)>> ELSE <<>>

Observes(f) ==
    LET s == f.stream
        opening == IF s \in (PeerUni \cup PeerBidi) \ quic.open
                   THEN <<Event("opened", s, FALSE)>> ELSE <<>>
    IN CASE f.kind = "data" ->
              opening \o <<Event("data", s, f.fin)>>
              \o (IF f.fin THEN ClosedBy(s, {s}, quic.acked) ELSE <<>>)
         [] f.kind = "reset" ->
              opening \o <<Event("reset", s, FALSE)>> \o ClosedBy(s, {s}, quic.acked)
         [] f.kind = "stop" -> <<Event("stop", s, FALSE)>>
         [] f.kind = "ack" -> ClosedBy(s, quic.rx, {s})
         [] f.kind = "streams" -> <<Event("streams", s, FALSE)>>
         [] OTHER -> <<>>

AfterFrame(f) ==
    [quic EXCEPT !.open = @ \cup ({f.stream} \cap Ids),
                 !.rx = IF f.fin \/ f.kind = "reset" THEN @ \cup {f.stream} ELSE @,
                 !.tx = IF f.kind = "stop" THEN @ \cup {f.stream} ELSE @,
                 !.acked = IF f.kind = "ack" THEN @ \cup {f.stream} ELSE @,
                 !.window = IF f.kind = "credit" THEN [@ EXCEPT ![f.stream] = @ + 1] ELSE @,
                 !.limit = IF f.kind = "streams" THEN @ + 1 ELSE @,
                 !.owes = @ \/ Does("acks"),
                 !.paced = @ /\ f.kind # "ack"]

-----------------------------------------------------------------------------
(* The Core.                                                               *)

Room == outbound < Outbound

State(s) == IF s \in DOMAIN streams THEN streams[s] ELSE NewStream
With(s, state) == (s :> state) @@ streams
Without(s) == [x \in DOMAIN streams \ {s} |-> streams[x]]

\* fail: the first reason stays, and every retained send of the table goes.
FailWith(table, why) ==
    IF terminal # "no" THEN streams' = table /\ UNCHANGED terminal
    ELSE /\ terminal' = why
         /\ streams' = [s \in DOMAIN table |-> [table[s] EXCEPT !.writing = 0]]
Fail(why) == FailWith(streams, why)

\* produce, where room lets it: one datagram carries whatever ngtcp2 owes.
Produced(q) ==
    /\ quic' = IF q.owes /\ Room THEN [q EXCEPT !.owes = FALSE] ELSE q
    /\ outbound' = IF q.owes /\ Room THEN outbound + 1 ELSE outbound

\* produce for nobody, within an operation that leaves the streams as in table: the
\* failure of write_pkt is recorded, and the operation goes on as if there were none.
ProducedIn(table, q, why) ==
    \/ Produced(q) /\ streams' = table /\ UNCHANGED terminal
    \/ /\ Room /\ Does("fails")
       /\ quic' = q /\ UNCHANGED outbound
       /\ FailWith(table, why)

-----------------------------------------------------------------------------
(* pump: the pass of the task that holds the Core.                         *)

passRest == <<taskVars, worldVars, historyVars>>

\* A handle is polled: the lock, and a registration below before anything is read.
Enter(t, op) ==
    /\ step = "free"
    /\ stage[t] = "rest" /\ runnable[t]
    /\ runnable' = [runnable EXCEPT ![t] = FALSE]
    /\ doing' = [doing EXCEPT ![t] = op]
    /\ holder' = t /\ turn' = 1 /\ changed' = Unchanged
    /\ routed' = routed \cup {t}
    /\ step' = "read"
    /\ UNCHANGED <<coreVars, registryVars, inbound, outbound, closeOut, capacity, quicVars, stage,
                   next, due, phase, got, worldVars, historyVars>>

\* read_inbound: one datagram after another.
ReadOne ==
    /\ step = "read" /\ inbound # <<>>
    /\ Head(inbound).kind \notin {"close", "bad"}
    /\ inbound' = Tail(inbound)
    /\ observed' = observed \o Observes(Head(inbound))
    /\ quic' = AfterFrame(Head(inbound))
    /\ UNCHANGED <<coreVars, registryVars, passVars, outbound, closeOut, routed, capacity, passRest>>

\* The connection ended: nothing more is read, and what was observed stays where it is.
ReadEnds ==
    /\ step = "read" /\ inbound # <<>>
    /\ Head(inbound).kind \in {"close", "bad"}
    /\ inbound' = Tail(inbound)
    /\ Fail(IF Head(inbound).kind = "close" THEN "closed" ELSE "failed")
    /\ step' = "ended"
    /\ UNCHANGED <<accepts, released, sleeping, registryVars, holder, turn, changed, outbound,
                   closeOut, routed, capacity, quicVars, passRest>>

\* arm_timer: a sleep for the deadline of now, polled under the Core's own waker.
Passed(q) == q.expiry # None /\ q.expiry <= now
Armed(q) == IF Passed(q) THEN None ELSE q.expiry

\* expire.
\* handle_expiry: a probe to send, perhaps a pace released, and a new deadline.
Expired(q) ==
    \E deadline \in Deadlines :
        q = [quic EXCEPT !.expiry = deadline, !.owes = TRUE, !.paced = FALSE]

Expire ==
    /\ step = "read" /\ inbound = <<>> /\ terminal = "no"
    /\ IF ~Passed(quic) THEN step' = "route" /\ UNCHANGED <<coreVars, quic>>
       ELSE \/ step' = "route"
               /\ Expired(quic') /\ UNCHANGED coreVars
            \/ Does("idle") /\ step' = "ended"
               /\ Fail("idle") /\ UNCHANGED <<quic, accepts, released, sleeping>>
    /\ UNCHANGED <<registryVars, holder, turn, changed, queueVars, observed, passRest>>

\* route_observed: what each event does to its stream.
Touched(s) == [changed EXCEPT !.streams = @ \cup {s}]

RouteData(e) ==
    /\ e.kind = "data"
    /\ streams' = With(e.stream, [State(e.stream) EXCEPT !.incoming = @ + 1,
                                                         !.finished = @ \/ e.fin])
    /\ arrived' = [arrived EXCEPT ![e.stream] = @ + 1]
    /\ changed' = Touched(e.stream)
    /\ UNCHANGED accepts

\* record_opened.
RouteOpened(e) ==
    /\ e.kind = "opened"
    /\ streams' = With(e.stream, State(e.stream))
    /\ accepts' = [accepts EXCEPT ![KindOf(e.stream)] = Append(@, e.stream)]
    /\ changed' = [changed EXCEPT !.connection = TRUE]
    /\ UNCHANGED arrived

RouteReset(e) ==
    /\ e.kind = "reset"
    /\ streams' = With(e.stream, [State(e.stream) EXCEPT !.recvTerminal = TRUE])
    /\ changed' = Touched(e.stream)
    /\ UNCHANGED <<accepts, arrived>>

RouteStop(e) ==
    /\ e.kind = "stop"
    /\ streams' = With(e.stream, [State(e.stream) EXCEPT !.sendTerminal = TRUE, !.writing = 0])
    /\ changed' = Touched(e.stream)
    /\ UNCHANGED <<accepts, arrived>>

\* StreamsExtended: waking is all of acting on it.
RouteStreams(e) ==
    /\ e.kind = "streams"
    /\ changed' = [changed EXCEPT !.connection = TRUE]
    /\ UNCHANGED <<streams, accepts, arrived>>

\* The entry goes whether or not a handle is left.
Forgotten_Always(s) == s \in DOMAIN streams

\* The entry goes with its stream when no handle is left.
Forgotten(s) == s \in DOMAIN streams /\ streams[s].handles = 0

RouteClosed(e) ==
    /\ e.kind = "closed"
    /\ streams' = IF Forgotten(e.stream) THEN Without(e.stream) ELSE streams
    /\ changed' = Touched(e.stream)
    /\ UNCHANGED <<accepts, arrived>>

RouteOne ==
    /\ step = "route" /\ observed # <<>>
    /\ LET e == Head(observed) IN
       \/ RouteData(e) \/ RouteOpened(e) \/ RouteReset(e) \/ RouteStop(e) \/ RouteStreams(e)
       \/ RouteClosed(e)
    /\ observed' = Tail(observed)
    /\ UNCHANGED <<terminal, released, sleeping, registryVars, holder, step, turn, queueVars, quic,
                   taskVars, worldVars, taken, wire>>

\* write_pkt fails.
ProduceFails ==
    /\ step = "route" /\ observed = <<>> /\ Does("fails")
    /\ Room
    /\ Fail("failed") /\ step' = "ended"
    /\ UNCHANGED <<accepts, released, sleeping, registryVars, holder, turn, changed, queueVars,
                   quicVars, passRest>>

\* produce for the task that pumps: where there is no room, it registers for room.  A
\* deadline that has passed is another turn of the loop, and after the last one everybody is
\* woken instead.
Produce ==
    /\ step = "route" /\ observed = <<>>
    /\ IF quic.owes /\ Room
       THEN \E deadline \in Deadlines : Produced([quic EXCEPT !.expiry = deadline])
       ELSE UNCHANGED <<quic, outbound>>
    /\ capacity' = IF outbound' < Outbound THEN capacity ELSE capacity \cup {holder}
    /\ sleeping' = Armed(quic')
    /\ IF ~Passed(quic') THEN step' = "then" /\ UNCHANGED <<turn, changed>>
       ELSE IF turn < TimerTurns THEN step' = "read" /\ turn' = turn + 1 /\ UNCHANGED changed
       ELSE step' = "then" /\ changed' = Everyone /\ UNCHANGED turn
    /\ UNCHANGED <<streams, accepts, terminal, released, registryVars, holder, inbound, closeOut,
                   routed, observed, passRest>>

\* An ending concerns everybody, and the endpoint is told.
Ended ==
    /\ step = "ended" \/ (step = "read" /\ inbound = <<>> /\ terminal # "no")
    /\ changed' = Everyone
    /\ released' = TRUE
    /\ step' = "then"
    /\ UNCHANGED <<streams, accepts, terminal, sleeping, registryVars, holder, turn, queueVars,
                   quicVars, passRest>>

\* The lock is given back.
Unlocks(who) ==
    /\ step' = "free" /\ holder' = Nobody /\ turn' = 0 /\ changed' = Unchanged
    /\ stage' = [stage EXCEPT ![holder] = "out"]
    /\ due' = [due EXCEPT ![holder] = who]

\* The timer stays as the pass found it.
Rearm_Never ==
    /\ step = "rearm"
    /\ Unlocks(changed)
    /\ UNCHANGED <<coreVars, registryVars, queueVars, quicVars, doing, next, runnable, phase, got,
                   worldVars, historyVars>>

\* rearm, for the state that is left behind; the end is looked for before the first turn.
Rearm ==
    /\ step = "rearm"
    /\ LET over == terminal # "no" /\ turn = 0 IN
       /\ IF over THEN UNCHANGED sleeping ELSE sleeping' = Armed(quic)
       /\ IF ~over /\ Passed(quic)
          THEN step' = "expire again" /\ UNCHANGED <<holder, turn, changed, stage, due>>
          ELSE Unlocks(changed)
    /\ UNCHANGED <<streams, accepts, terminal, released, registryVars, queueVars, quicVars, doing,
                   next, runnable, phase, got, worldVars, historyVars>>

\* A deadline that has passed meanwhile.  What that changes is ignored here, the end of the
\* connection too; only a timer that is still due after the last turn wakes everybody.
RearmExpires ==
    /\ step = "expire again"
    /\ \/ /\ terminal = "no"
          /\ \E q \in {[quic EXCEPT !.expiry = d, !.owes = TRUE, !.paced = FALSE] : d \in Deadlines} :
               ProducedIn(streams, q, "unseen")
          /\ IF turn + 1 >= TimerTurns THEN Unlocks(Everyone)
             ELSE step' = "rearm" /\ turn' = turn + 1 /\ UNCHANGED <<holder, changed, stage, due>>
       \/ /\ terminal = "no" /\ Does("idle")
          /\ Fail("unseen") /\ Unlocks(changed)
          /\ UNCHANGED <<quic, outbound>>
       \/ /\ terminal # "no"
          /\ Expired(quic') /\ Unlocks(changed)
          /\ UNCHANGED <<streams, terminal, outbound>>
    /\ UNCHANGED <<accepts, released, sleeping, registryVars, inbound, closeOut, routed, capacity,
                   observed, doing, next, runnable, phase, got, worldVars, historyVars>>

\* Changed::deliver, with the registry alone.
Delivers(t) ==
    /\ stage[t] = "out"
    /\ stage' = [stage EXCEPT ![t] = next[t]]
    /\ doing' = [doing EXCEPT ![t] = "nothing"]
    /\ Woken(WakesOf(due[t])) /\ Drained(due[t])
    /\ due' = [due EXCEPT ![t] = Unchanged]
    /\ UNCHANGED <<coreVars, passVars, queueVars, quicVars, next, phase, got, worldVars,
                   historyVars>>


-----------------------------------------------------------------------------
(* What a task came for: `then`, under the same lock.                      *)

Holds(t, op) == step = "then" /\ holder = t /\ doing[t] = op

\* The operation is over; the task is polled again, waits, or does not come back.
Returns(t, place, again) ==
    /\ step' = "rearm" /\ turn' = 0
    /\ next' = [next EXCEPT ![t] = place]
    /\ runnable' = [runnable EXCEPT ![t] = @ \/ again]
Parks(t) == Returns(t, "rest", FALSE)

thenRest == <<released, sleeping, holder, changed, inbound, closeOut, routed, observed, stage, doing,
              due, now, sent, scene>>

\* Frames of ngtcp2's own that an operation gives it to send.
Owing(q) == [q EXCEPT !.owes = @ \/ Does("acks")]

\* poll_accept: a stream in the queue is handed out even after the end.
Accept(k) ==
    LET t == Acceptor(k) IN
    /\ Holds(t, "accept")
    /\ \/ /\ accepts[k] # <<>>
          /\ accepts' = [accepts EXCEPT ![k] = Tail(@)]
          /\ got' = got \cup {<<t, Head(accepts[k])>>}
          /\ ProducedIn(streams, Owing(quic), "quiet")
          /\ Returns(t, "retain", TRUE)
          /\ UNCHANGED atConn
       \/ /\ accepts[k] = <<>> /\ terminal # "no"
          /\ Returns(t, "ended", FALSE)
          /\ UNCHANGED <<streams, terminal, accepts, got, quic, outbound, atConn>>
       \/ /\ accepts[k] = <<>> /\ terminal = "no"
          /\ atConn' = atConn \cup {t}
          /\ Parks(t)
          /\ UNCHANGED <<streams, terminal, accepts, got, quic, outbound>>
    /\ UNCHANGED <<thenRest, atStream, capacity, phase, displaced, historyVars>>

\* poll_open.  A refusal that is not the stream limit fails the connection, and only the
\* caller hears of it.
Open ==
    LET t == Opener
        s == CHOOSE x \in LocalBidi \ quic.open : TRUE
    IN
    /\ Holds(t, "open")
    /\ \/ /\ terminal = "no" /\ quic.limit > 0
          /\ ProducedIn(With(s, State(s)),
                        [quic EXCEPT !.limit = @ - 1, !.open = @ \cup {s}], "quiet")
          /\ got' = got \cup {<<t, s>>}
          /\ Returns(t, "retain", TRUE)
          /\ UNCHANGED atConn
       \/ /\ terminal = "no" /\ quic.limit > 0 /\ Does("fails")
          /\ Fail("quiet")
          /\ Returns(t, "ended", FALSE)
          /\ UNCHANGED <<got, quic, outbound, atConn>>
       \/ /\ terminal # "no"
          /\ Returns(t, "ended", FALSE)
          /\ UNCHANGED <<streams, terminal, got, quic, outbound, atConn>>
       \/ /\ terminal = "no" /\ quic.limit = 0
          /\ atConn' = atConn \cup {t}
          /\ Parks(t)
          /\ UNCHANGED <<streams, terminal, got, quic, outbound>>
    /\ UNCHANGED <<thenRest, accepts, atStream, capacity, phase, displaced, historyVars>>

\* RecvStream::new and SendStream::new: the handles are counted once the pass is over, each
\* under the lock.
Halves(s) == {Reader(s)} \cup (IF s \in Sending THEN {Writer(s)} ELSE {})

Retain(t, s) ==
    /\ step = "free" /\ stage[t] = "retain" /\ <<t, s>> \in got
    /\ got' = got \ {<<t, s>>}
    /\ streams' = With(s, [State(s) EXCEPT !.handles = IF s \in Sending THEN 2 ELSE 1])
    /\ stage' = [x \in Tasks |-> IF x \in Halves(s) THEN "rest"
                                 ELSE IF x # t THEN stage[x]
                                 ELSE IF t = Opener /\ LocalBidi \subseteq quic.open THEN "ended"
                                 ELSE "rest"]
    /\ UNCHANGED <<accepts, terminal, released, sleeping, registryVars, passVars, queueVars, quicVars,
                   doing, next, due, runnable, phase, worldVars, historyVars>>

\* poll_data: what was delivered comes out before any ending, and a clean end before an
\* abnormal one.
PollData(s) ==
    LET t == Reader(s) IN
    /\ Holds(t, "recv")
    /\ \/ /\ State(s).incoming > 0
          /\ taken' = [taken EXCEPT ![s] = @ + 1]
          /\ ProducedIn(With(s, [State(s) EXCEPT !.incoming = @ - 1]), Owing(quic), "quiet")
          /\ Returns(t, "rest", TRUE)
          /\ UNCHANGED atStream
       \/ /\ State(s).incoming = 0
          /\ State(s).finished \/ State(s).recvTerminal \/ terminal # "no"
          /\ Returns(t, "ended", FALSE)
          /\ UNCHANGED <<streams, terminal, taken, quic, outbound, atStream>>
       \/ /\ State(s).incoming = 0
          /\ ~State(s).finished /\ ~State(s).recvTerminal /\ terminal = "no"
          /\ atStream' = [atStream EXCEPT ![s] = @ \cup {t}]
          /\ Parks(t)
          /\ UNCHANGED <<streams, terminal, taken, quic, outbound>>
    /\ UNCHANGED <<thenRest, accepts, atConn, capacity, phase, got, displaced, arrived, wire>>

-----------------------------------------------------------------------------
(* Offers.                                                                 *)

\* What ngtcp2 may say to an offer (external).  A half that is shut is never offered to: the
\* stop, the reset and the FIN that shut it are in the state the caller looks at first.
MayAccept(s, fin) == Room /\ ~quic.paced /\ (fin \/ quic.window[s] > 0)
MayDisplace == Room /\ Does("displace") /\ displaced < MaxDisplaced
MayBlock(s, fin) == Room /\ ~MayAccept(s, fin)

\* A datagram with a frame of the stream; the pace it leaves behind has a deadline.
Accepts(s, fin) ==
    /\ MayAccept(s, fin)
    /\ outbound' = outbound + 1
    /\ \E paced \in {FALSE} \cup {Does("paced")}, deadline \in Deadlines :
        /\ paced => deadline > now
        /\ quic' = [quic EXCEPT !.window[s] = IF fin THEN @ ELSE @ - 1,
                                !.tx = IF fin THEN @ \cup {s} ELSE @,
                                !.paced = paced, !.expiry = deadline]
    /\ wire' = [wire EXCEPT ![s] = IF fin THEN [@ EXCEPT !.fin = TRUE]
                                   ELSE [@ EXCEPT !.units = @ + 1]]
    /\ UNCHANGED <<capacity, displaced>>

\* A datagram without one.
Displaces ==
    /\ MayDisplace
    /\ outbound' = outbound + 1 /\ displaced' = displaced + 1
    /\ quic' = [quic EXCEPT !.owes = FALSE]
    /\ UNCHANGED <<capacity, wire>>

\* poll_outbound_capacity registers where there is no room; nothing else is done.
NotNow(t, s, fin) ==
    /\ ~Room \/ MayBlock(s, fin)
    /\ capacity' = IF Room THEN capacity ELSE capacity \cup {t}
    /\ UNCHANGED <<quic, outbound, displaced, wire>>

Breaks ==
    /\ Room /\ Does("fails")
    /\ Fail("quiet")
    /\ UNCHANGED <<quic, outbound, capacity, displaced, wire>>

Shut(s) == terminal # "no" \/ State(s).sendTerminal
offerRest == <<thenRest, accepts, atConn, got, arrived, taken>>

\* The sending half is refused: by the end of the connection, or of the half.
Refuses(t, s) ==
    /\ Shut(s)
    /\ phase' = [phase EXCEPT ![s] = "refused"]
    /\ Returns(t, "ended", FALSE)
    /\ UNCHANGED <<streams, terminal, atStream, quic, outbound, capacity, displaced, wire>>

\* poll_retained: the retained send is offered and put back without the accepted prefix.
PollReady(s) ==
    LET t == Writer(s)
        left == State(s).writing
    IN
    /\ Holds(t, "ready") \/ (Holds(t, "finish") /\ left > 0)
    /\ \/ Refuses(t, s)
       \/ /\ ~Shut(s) /\ left > 0
          /\ \/ /\ Accepts(s, FALSE)
                /\ streams' = With(s, [State(s) EXCEPT !.writing = left - 1])
                /\ phase' = [phase EXCEPT ![s] = IF left = 1 THEN "written" ELSE @]
                /\ Returns(t, "rest", TRUE)
                /\ UNCHANGED <<terminal, atStream>>
             \/ /\ Displaces
                /\ Returns(t, "rest", TRUE)
                /\ UNCHANGED <<streams, phase, terminal, atStream>>
             \/ /\ NotNow(t, s, FALSE)
                /\ atStream' = [atStream EXCEPT ![s] = @ \cup {t}]
                /\ Parks(t)
                /\ UNCHANGED <<streams, phase, terminal>>
             \/ /\ Breaks
                /\ phase' = [phase EXCEPT ![s] = "refused"]
                /\ Returns(t, "ended", FALSE)
                /\ UNCHANGED atStream
    /\ UNCHANGED offerRest

\* A packet that went to other frames is taken for the FIN.
FinOut_Displaced(s, out) == out \in {"accepted", "displaced"}

\* poll_finish: the FIN is out when a STREAM frame was written, and only then.
FinOut(s, out) == out = "accepted"

PollFinish(s) ==
    LET t == Writer(s) IN
    /\ Holds(t, "finish") /\ State(s).writing = 0
    /\ \/ Refuses(t, s)
       \/ /\ ~Shut(s)
          /\ \/ \E out \in {"accepted", "displaced"} :
                /\ IF out = "accepted" THEN Accepts(s, TRUE) ELSE Displaces
                /\ IF FinOut(s, out)
                   THEN /\ streams' = With(s, [State(s) EXCEPT !.sendFinished = TRUE])
                        /\ phase' = [phase EXCEPT ![s] = "finished"]
                        /\ Returns(t, "ended", FALSE)
                   ELSE Returns(t, "rest", TRUE) /\ UNCHANGED <<streams, phase>>
                /\ UNCHANGED <<terminal, atStream>>
             \/ /\ NotNow(t, s, TRUE)
                /\ atStream' = [atStream EXCEPT ![s] = @ \cup {t}]
                /\ Parks(t)
                /\ UNCHANGED <<streams, phase, terminal>>
             \/ /\ Breaks
                /\ phase' = [phase EXCEPT ![s] = "refused"]
                /\ Returns(t, "ended", FALSE)
                /\ UNCHANGED atStream
    /\ UNCHANGED offerRest

\* poll_send: the caller keeps its buffer and advances by what was taken.
PollSend(s) ==
    LET t == Writer(s) IN
    /\ Holds(t, "send")
    /\ \/ Refuses(t, s)
       \/ /\ ~Shut(s)
          /\ \/ /\ Accepts(s, FALSE)
                /\ phase' = [phase EXCEPT ![s] = IF wire'[s].units = scene.units THEN "written" ELSE @]
                /\ Returns(t, "rest", TRUE)
                /\ UNCHANGED <<streams, terminal, atStream>>
             \/ /\ Displaces
                /\ Returns(t, "rest", TRUE)
                /\ UNCHANGED <<streams, terminal, phase, atStream>>
             \/ /\ NotNow(t, s, FALSE)
                /\ atStream' = [atStream EXCEPT ![s] = @ \cup {t}]
                /\ Parks(t)
                /\ UNCHANGED <<streams, terminal, phase>>
             \/ /\ Breaks
                /\ phase' = [phase EXCEPT ![s] = "refused"]
                /\ Returns(t, "ended", FALSE)
                /\ UNCHANGED atStream
    /\ UNCHANGED offerRest

-----------------------------------------------------------------------------
(* What is done under the lock without a pass.                             *)

lockRest == <<accepts, terminal, released, sleeping, queueVars, quicVars, worldVars, historyVars>>

\* send_data, with one logical send at a time.
SendData(s) ==
    LET t == Writer(s) IN
    /\ step = "free" /\ stage[t] = "rest"
    /\ phase[s] = "new" /\ ~Does("unframed")
    /\ IF Shut(s)
       THEN /\ phase' = [phase EXCEPT ![s] = "refused"]
            /\ stage' = [stage EXCEPT ![t] = "ended"]
            /\ UNCHANGED <<streams, runnable>>
       ELSE /\ phase' = [phase EXCEPT ![s] = "writing"]
            /\ streams' = With(s, [State(s) EXCEPT !.writing = scene.units])
            /\ runnable' = [runnable EXCEPT ![t] = TRUE]
            /\ UNCHANGED stage
    /\ UNCHANGED <<lockRest, registryVars, passVars, doing, next, due, got>>

\* Produce for nobody, and arm: reset, stop_sending and the drop of an unfinished send.
Sends(t, table, q, place) ==
    /\ ProducedIn(table, q, "quiet")
    /\ holder' = t /\ turn' = 0 /\ changed' = Unchanged /\ step' = "rearm"
    /\ stage' = [stage EXCEPT ![t] = "inside"]
    /\ next' = [next EXCEPT ![t] = place]
    /\ UNCHANGED <<accepts, released, sleeping, atConn, inbound, closeOut, routed, capacity,
                   observed, doing, due, runnable, got, worldVars, historyVars>>

Abandoned(s) == [State(s) EXCEPT !.sendReset = TRUE, !.sendTerminal = TRUE, !.writing = 0]
ResetSent(s) == [quic EXCEPT !.tx = @ \cup {s}, !.owes = TRUE]
Unfinished(s) == ~State(s).sendReset /\ ~State(s).sendFinished

Reset(s) ==
    LET t == Writer(s) IN
    /\ step = "free" /\ stage[t] \in {"rest", "ended"} /\ Does("reset")
    /\ terminal = "no" /\ Unfinished(s)
    /\ phase' = [phase EXCEPT ![s] = "refused"]
    /\ Sends(t, With(s, Abandoned(s)), ResetSent(s), "ended")
    /\ UNCHANGED atStream

\* stop_sending.
Halt(s) ==
    LET t == Reader(s) IN
    /\ step = "free" /\ stage[t] = "rest" /\ Does("halt")
    /\ terminal = "no"
    /\ Sends(t, streams, [quic EXCEPT !.owes = TRUE], "ended")
    /\ UNCHANGED <<phase, atStream>>

\* release_handle and forget_stream: the last handle takes the entry and its wakers along.
Released(s, state) ==
    IF state.handles <= 1 THEN Without(s) ELSE With(s, [state EXCEPT !.handles = @ - 1])
Deserted(s) == [atStream EXCEPT ![s] = IF State(s).handles <= 1 THEN {} ELSE @]

\* Drop for SendStream, where nothing has to be said.
DropSend(s) ==
    LET t == Writer(s) IN
    /\ step = "free" /\ stage[t] \in {"rest", "ended"} /\ Does("drop")
    /\ terminal # "no" \/ ~Unfinished(s) \/ State(s).sendTerminal
    /\ streams' = Released(s, State(s)) /\ atStream' = Deserted(s)
    /\ stage' = [stage EXCEPT ![t] = "gone"]
    /\ UNCHANGED <<lockRest, atConn, passVars, doing, next, due, runnable, phase, got>>

\* An unfinished send says so once.
DropUnfinished(s) ==
    LET t == Writer(s) IN
    /\ step = "free" /\ stage[t] \in {"rest", "ended"} /\ Does("drop")
    /\ terminal = "no" /\ Unfinished(s) /\ ~State(s).sendTerminal
    /\ atStream' = Deserted(s)
    /\ phase' = [phase EXCEPT ![s] = "refused"]
    /\ Sends(t, Released(s, Abandoned(s)), ResetSent(s), "gone")

\* Drop for RecvStream.
DropRecv(s) ==
    LET t == Reader(s) IN
    /\ step = "free" /\ stage[t] \in {"rest", "ended"} /\ Does("drop")
    /\ streams' = Released(s, State(s)) /\ atStream' = Deserted(s)
    /\ stage' = [stage EXCEPT ![t] = "gone"]
    /\ UNCHANGED <<lockRest, atConn, passVars, doing, next, due, runnable, phase, got>>

\* close_connection.
CloseConnection ==
    /\ step = "free" /\ stage[Closer] = "rest" /\ Does("close")
    /\ stage' = [stage EXCEPT ![Closer] = "gone"]
    /\ IF terminal # "no"
       THEN UNCHANGED <<streams, terminal, released, closeOut, runnable, registryVars>>
       ELSE /\ Fail("application") /\ released' = TRUE /\ closeOut' = TRUE
            /\ Woken(WakesOf(Everything)) /\ Drained(Everything)
    /\ UNCHANGED <<accepts, sleeping, passVars, inbound, outbound, routed, capacity, quicVars, doing,
                   next, due, phase, got, worldVars, historyVars>>

\* Drop for Connection: the endpoint routes nothing here any more.
Abandon ==
    /\ step = "free" /\ stage[Closer] = "rest" /\ Does("abandon")
    /\ stage' = [stage EXCEPT ![Closer] = "gone"]
    /\ released' = TRUE
    /\ UNCHANGED <<streams, accepts, terminal, sleeping, registryVars, passVars, queueVars, quicVars,
                   doing, next, due, runnable, phase, got, worldVars, historyVars>>

-----------------------------------------------------------------------------
(* The owners: who polls what, and when.                                   *)

Polls ==
    \/ \E k \in Kinds : Enter(Acceptor(k), "accept")
    \/ Enter(Opener, "open")
    \/ \E s \in Ids : Enter(Reader(s), "recv")
    \/ \E s \in Sending :
        \/ phase[s] = "writing" /\ (Enter(Writer(s), "ready") \/ Enter(Writer(s), "finish"))
        \/ phase[s] = "written" /\ Enter(Writer(s), "finish")
        \/ phase[s] = "new" /\ Does("unframed") /\ Enter(Writer(s), "send")

Pass ==
    \/ ReadOne \/ ReadEnds \/ Expire \/ RouteOne \/ Produce \/ ProduceFails \/ Ended
    \/ Rearm \/ RearmExpires
    \/ \E t \in Tasks : Delivers(t)

Then ==
    \/ \E k \in Kinds : Accept(k)
    \/ Open
    \/ \E s \in Ids : PollData(s)
    \/ \E s \in Sending : PollReady(s) \/ PollFinish(s) \/ PollSend(s)

Handles ==
    \/ \E t \in Tasks, s \in Ids : Retain(t, s)
    \/ \E s \in Ids : Halt(s) \/ DropRecv(s)
    \/ \E s \in Sending : SendData(s) \/ Reset(s) \/ DropSend(s) \/ DropUnfinished(s)
    \/ CloseConnection \/ Abandon

Next == Endpoint \/ Polls \/ Pass \/ Then \/ Handles

Spec == Init /\ [][Next]_vars

-----------------------------------------------------------------------------
(* Properties.                                                             *)

Parked(t) == stage[t] = "rest" /\ ~runnable[t]
AtRest == step = "free" /\ \A t \in Tasks : stage[t] # "out"

\* What a parked task waits for is there.
Answerable(t) ==
    \/ terminal \notin {"no", "quiet", "unseen"}
    \/ \E k \in Kinds : t = Acceptor(k) /\ accepts[k] # <<>>
    \/ t = Opener /\ quic.limit > 0
    \/ \E s \in DOMAIN streams :
        \/ t = Reader(s) /\ (streams[s].incoming > 0 \/ streams[s].finished \/ streams[s].recvTerminal)
        \/ s \in Sending /\ t = Writer(s) /\ streams[s].sendTerminal

\* What it waits for is there too, but only the timer says so: the room of a pace that a
\* pass released, and a failure that another task's own operation met.
AnswerableLater(t) ==
    \/ terminal = "quiet"
    \/ \E s \in Sending : /\ t = Writer(s) /\ phase[s] \in {"new", "writing", "written"}
                          /\ MayAccept(s, phase[s] = "written")

\* [stream.rs, Shared::pump and park_on_stream] A task that waits is in the registry, and no
\* task waits for what is already there: whoever found it, in whatever order the passes ran,
\* woke the one it was for.  A pace released, an offer or an open that failed and a packet an
\* operation could not write are left to the timer, which is then armed; the idle timeout and
\* the failure that rearm itself meets are left out, they are told to nobody.
TasksAreTold ==
    AtRest => \A t \in Tasks : Parked(t) =>
        /\ t \in atConn \cup UNION {atStream[s] : s \in Ids} \/ t = Closer
        /\ ~Answerable(t)
        /\ AnswerableLater(t) => sleeping # None

\* [pump.rs, rearm] While somebody waits and the connection lives, the one timer stands for
\* the deadline ngtcp2 gave last, whatever operation moved it.
DeadlineIsArmed ==
    (/\ AtRest /\ terminal = "no"
     /\ \E t \in Tasks \ {Closer} : Parked(t)
     /\ \A t \in Tasks \ {Closer} : stage[t] # "retain" /\ (stage[t] = "rest" => ~runnable[t]))
    => sleeping = quic.expiry

\* [stream.rs, pump.rs] Whoever waits is woken by the one who finds its answer or by the timer.
NobodyWaitsInVain == TasksAreTold /\ DeadlineIsArmed

\* [stream.rs, poll_retained and poll_finish] Every unit of a send is offered once and none is
\* lost to a packet that went to other frames, and a send that is finished has its FIN on the
\* wire, after all of its data.
SendsAreWhole ==
    \A s \in Sending :
        /\ (phase[s] = "writing" /\ terminal = "no" /\ ~State(s).sendTerminal
            /\ stage[Writer(s)] # "gone") => wire[s].units + State(s).writing = scene.units
        /\ phase[s] \in {"written", "finished"} => wire[s].units = scene.units
        /\ phase[s] = "finished" \/ State(s).sendFinished => wire[s].fin
        /\ wire[s].fin => wire[s].units = scene.units

\* A stream somebody reads or can still accept.
Reachable(s) ==
    \/ \E k \in Kinds : s \in Range(accepts[k])
    \/ \E t \in Tasks : <<t, s>> \in got
    \/ stage[Reader(s)] \in {"rest", "out", "inside"}

\* [pump.rs, route_observed] What arrived for a stream that is queued for accept or held by a
\* reader was taken or is still there, and so is the way the stream ended.
DeliveredIsKept ==
    \A s \in Ids : Reachable(s) =>
        /\ arrived[s] = taken[s] + State(s).incoming
        /\ s \in quic.rx /\ AtRest /\ observed = <<>> /\ terminal = "no"
            => State(s).finished \/ State(s).recvTerminal

=============================================================================
