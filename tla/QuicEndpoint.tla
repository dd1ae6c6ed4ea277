---------------------------- MODULE QuicEndpoint ----------------------------
(***************************************************************************)
(* The endpoint of ngnet-quic: one driver owns the socket and every        *)
(* connection; handles on other threads dial, accept, close, give up, and  *)
(* in the detached mode take a connection away to drive it themselves.     *)
(* What they share is a mailbox, three lists of wakers and a queue of      *)
(* connections on their way to an owner.                                   *)
(*                                                                         *)
(* A step of a handle is one lock acquisition or atomic access; a step of  *)
(* the driver is one stage of its pass, split where a handle on another    *)
(* thread can see the difference.  ngtcp2 and the socket are external:     *)
(* they answer with any outcome the driver's code distinguishes.           *)
(***************************************************************************)
EXTENDS Integers

CONSTANTS
    Dialled,    \* connections asked for with connect()
    Lent,       \* connections asked for with connect_detached()
    Incoming,   \* connections a peer opens
    Acceptors,  \* tasks in accept()
    Takers,     \* tasks in accept_detached()
    Passes,     \* passes of one poll of the driver (8 in the code)
    MaxTicks,   \* bound: how often a deadline passes
    MaxAnswers, \* bound: connectionless answers waiting for one peer
    Scenes      \* who takes part, and what callers, peers and socket may do

Conns == Dialled \cup Lent \cup Incoming
Tasks == Dialled \cup Lent \cup Acceptors \cup Takers
NoConn == "none"

\* A connection has one role and a task one call; a poll makes at least one pass.
ASSUME EndpointAssumption ==
    /\ Dialled \cap Lent = {} /\ Dialled \cap Incoming = {} /\ Lent \cap Incoming = {}
    /\ Acceptors \cap Takers = {} /\ (Acceptors \cup Takers) \cap Conns = {}
    /\ NoConn \notin Conns
    /\ Passes \in Nat \ {0} /\ MaxTicks \in Nat /\ MaxAnswers \in Nat

VARIABLES
    pc,           \* where each task is in its future
    woken,        \* tasks whose waker was called
    got,          \* what an acceptor or taker was given
    closed,       \* ConnectionShared::closed
    established,  \* ConnectionShared::established
    terminal,     \* ConnectionInner::terminal
    connWait,     \* ConnectionInner::wakers
    commands,     \* Close commands queued for each connection
    outbound,     \* lent connections with a datagram in close_outbound
    epWait,       \* EndpointInner::wakers
    dials,        \* EndpointInner::dials
    accepted,     \* EndpointInner::accepted
    lendAccepts,  \* EndpointShared::detached_accepts
    gone,         \* EndpointShared::gone
    ready,        \* DetachQueue::ready
    queueWait,    \* DetachQueue::wakers
    table,        \* Inner::connections: absent, held (conn is Some) or lent
    toAcceptor,   \* ConnectionShared::detach_to_acceptor
    finished,     \* Tracked::finished
    draining,     \* ngtcp2: the peer has closed
    pending,      \* Tracked::pending
    outbox,       \* Inner::outbox: how many datagrams it holds for each peer
    due,          \* connections whose deadline has passed
    net,          \* datagrams in the socket's buffer
    said,         \* what each peer has sent so far
    drv,          \* the stage of the driver
    cur,          \* the connection the driver is at
    pass, read,   \* passes of this poll, whether one has received
    drvWaker,     \* EndpointInner::driver_waker is Some
    drvWoken,     \* the driver's task is scheduled
    armed,        \* a sleep is registered with the runtime
    ticks,        \* bound: deadlines that passed so far
    scene,        \* the member of Scenes that this behaviour plays
    late,         \* history: tasks that registered after what they wait for
    owed          \* history: datagrams set aside for each peer, less those taken

handleVars == <<pc, woken, got>>
sharedVars == <<closed, established, terminal, connWait, commands, outbound>>
endpointVars == <<epWait, dials, accepted, lendAccepts, gone>>
queueVars == <<ready, queueWait>>
tableVars == <<table, toAcceptor, finished, draining, pending, outbox, due>>
netVars == <<net, said, ticks>>
passVars == <<drv, cur, pass, read>>
wakeVars == <<drvWaker, drvWoken, armed>>
history == <<late, owed, scene>>
vars == <<handleVars, sharedVars, endpointVars, queueVars, tableVars, netVars,
          passVars, wakeVars, history>>

Stages == {"parked", "dials", "read", "lend", "ring", "notice", "service",
           "flush", "evict", "rearm", "failing", "failGone", "drop", "dropDials",
           "dropGone", "gone"}
Kinds == {"hello", "done", "close", "bad"}   \* of datagrams
Moves == scene.moves

Init ==
    /\ scene \in Scenes
    /\ pc = [t \in Tasks |-> IF t \in scene.cast THEN "idle" ELSE "absent"]
    /\ said = [c \in Conns |-> IF c \in scene.cast THEN {} ELSE Kinds]
    /\ woken = {}
    /\ got = [t \in Tasks |-> NoConn]
    /\ closed = {} /\ established = {} /\ terminal = {}
    /\ connWait = [c \in Conns |-> {}]
    /\ commands = [c \in Conns |-> 0] /\ outbound = {}
    /\ epWait = {} /\ dials = {} /\ accepted = {}
    /\ lendAccepts = FALSE /\ gone = FALSE
    /\ ready = {} /\ queueWait = {}
    /\ table = [c \in Conns |-> "absent"]
    /\ toAcceptor = {} /\ finished = {} /\ draining = {} /\ pending = {}
    /\ outbox = [c \in Conns |-> 0] /\ due = {}
    /\ net = {} /\ ticks = 0
    /\ drv = "parked" /\ cur = NoConn /\ pass = 0 /\ read = FALSE
    /\ drvWaker = FALSE /\ drvWoken = TRUE /\ armed = FALSE
    /\ late = {} /\ owed = [c \in Conns |-> 0]

-----------------------------------------------------------------------------
(* Wakers.  wake_driver takes the one waker; the lists are taken whole.    *)

WakeDriver ==
    /\ drvWaker' = FALSE
    /\ drvWoken' = (drvWoken \/ drvWaker)

\* ConnectionShared::fail for every connection of C, with the wake it ends in.
Fail(C) ==
    /\ closed' = closed \cup C
    /\ woken' = woken \cup UNION {connWait[c] : c \in C}
    /\ connWait' = [c \in Conns |-> IF c \in C THEN {} ELSE connWait[c]]

\* EndpointShared::wake_acceptors
RingEndpoint ==
    /\ woken' = woken \cup epWait
    /\ epWait' = {}

-----------------------------------------------------------------------------
(* Dialling.  connect and connect_detached look whether the driver is      *)
(* gone, push the request, wake the driver and return a future.            *)

First(t) == IF t \in Dialled THEN "look" ELSE "take"

\* A caller that finds the driver gone gets a connection that has failed.
Connect(t) ==
    /\ t \in Dialled \cup Lent
    /\ pc[t] = "idle"
    /\ pc' = [pc EXCEPT ![t] = IF gone THEN First(t) ELSE "push"]
    /\ closed' = IF gone THEN closed \cup {t} ELSE closed
    /\ UNCHANGED <<woken, got, established, terminal, connWait, commands, outbound,
                   endpointVars, queueVars, tableVars, netVars, passVars, wakeVars, history>>

\* The push and the wake that follows it; a driver that drains in between only
\* finds itself woken once more.
PushDial(t) ==
    /\ pc[t] = "push"
    /\ pc' = [pc EXCEPT ![t] = First(t)]
    /\ dials' = dials \cup {t}
    /\ WakeDriver
    /\ late' = late \cup (IF drv \in {"dropGone", "gone"} THEN {t} ELSE {})
    /\ UNCHANGED <<woken, got, sharedVars, epWait, accepted, lendAccepts, gone,
                   queueVars, tableVars, netVars, passVars, armed, owed, scene>>

\* accept() makes no call; accept_detached() asks for the hand-over first.
Accept(t) ==
    /\ t \in Acceptors \cup Takers
    /\ pc[t] = "idle"
    /\ pc' = [pc EXCEPT ![t] = "take"]
    /\ lendAccepts' = (lendAccepts \/ t \in Takers)
    /\ IF t \in Takers THEN WakeDriver ELSE UNCHANGED <<drvWaker, drvWoken>>
    /\ UNCHANGED <<woken, got, sharedVars, epWait, dials, accepted, gone, queueVars,
                   tableVars, netVars, passVars, armed, history>>

-----------------------------------------------------------------------------
(* Connecting::poll: look, register, look again, sleep.                    *)

Answer(t) == IF t \in established THEN "held" ELSE "failed"

Look(t) ==
    /\ t \in Dialled
    /\ pc[t] \in {"look", "again"}
    /\ pc' = [pc EXCEPT ![t] = IF t \in established \cup closed THEN Answer(t)
                               ELSE IF pc[t] = "look" THEN "register" ELSE "parked"]
    /\ woken' = IF pc[t] = "look" THEN woken \ {t} ELSE woken
    /\ UNCHANGED <<got, sharedVars, endpointVars, queueVars, tableVars, netVars,
                   passVars, wakeVars, history>>

RegisterDial(t) ==
    /\ t \in Dialled
    /\ pc[t] = "register"
    /\ pc' = [pc EXCEPT ![t] = "again"]
    /\ connWait' = [connWait EXCEPT ![t] = @ \cup {t}]
    /\ UNCHANGED <<woken, got, closed, established, terminal, commands, outbound,
                   endpointVars, queueVars, tableVars, netVars, passVars, wakeVars, history>>

\* A woken task is polled again, from the top of its future.
Repoll(t) ==
    /\ pc[t] = "parked"
    /\ t \in woken
    /\ pc' = [pc EXCEPT ![t] = First(t)]
    /\ UNCHANGED <<woken, got, sharedVars, endpointVars, queueVars, tableVars,
                   netVars, passVars, wakeVars, history>>

(* Detaching::poll: take from the queue under its key, look at the         *)
(* connection and at the endpoint, register in three places, sleep.        *)

\* Mutant: an acceptor matches whatever is in the queue.
AnyKey(t) == IF t \in Lent THEN ready \cap {t} ELSE ready

\* DetachQueue::take: zero is the key of whatever a peer opened.
Key(t) == IF t \in Lent THEN ready \cap {t} ELSE ready \cap toAcceptor

TakeLent(t) ==
    /\ t \in Lent \cup Takers
    /\ pc[t] = "take"
    /\ woken' = woken \ {t}
    /\ \/ \E c \in Key(t) :
            /\ ready' = ready \ {c}
            /\ got' = [got EXCEPT ![t] = c]
            /\ pc' = [pc EXCEPT ![t] = "held"]
       \/ /\ Key(t) = {}
          /\ pc' = [pc EXCEPT ![t] = "check"]
          /\ UNCHANGED <<ready, got>>
    /\ UNCHANGED <<sharedVars, endpointVars, queueWait, tableVars, netVars,
                   passVars, wakeVars, history>>

CheckEnded(t) ==
    /\ t \in Lent \cup Takers
    /\ pc[t] = "check"
    /\ pc' = [pc EXCEPT ![t] = IF t \in closed \/ gone THEN "failed" ELSE "register"]
    /\ UNCHANGED <<woken, got, sharedVars, endpointVars, queueVars, tableVars,
                   netVars, passVars, wakeVars, history>>

\* The three registrations of Detaching::poll, after which nothing is looked at.
RegisterLent(t) ==
    /\ t \in Lent \cup Takers
    /\ pc[t] = "register"
    /\ pc' = [pc EXCEPT ![t] = "parked"]
    /\ queueWait' = queueWait \cup {t}
    /\ epWait' = epWait \cup {t}
    /\ connWait' = [c \in Conns |-> IF c = t THEN connWait[c] \cup {t} ELSE connWait[c]]
    /\ late' = (late \ {t}) \cup (IF gone \/ t \in closed \/ Key(t) # {} THEN {t} ELSE {})
    /\ UNCHANGED <<woken, got, closed, established, terminal, commands, outbound,
                   dials, accepted, lendAccepts, gone, ready, tableVars, netVars,
                   passVars, wakeVars, owed, scene>>

(* Accepting::poll: take, look whether the driver is gone, register, take  *)
(* again, sleep.                                                           *)

\* Accepting::take_ready: an established connection is taken, and the closed ones
\* met before it are discarded; with none to take, every closed one is.  The queue
\* rotates as it is searched, so which comes first is left open.
TakeAccepted(t) ==
    /\ t \in Acceptors
    /\ pc[t] \in {"take", "retake"}
    /\ woken' = IF pc[t] = "take" THEN woken \ {t} ELSE woken
    /\ \/ \E c \in accepted \cap established,
            discarded \in SUBSET ((accepted \cap closed) \ established) :
            /\ accepted' = accepted \ (discarded \cup {c})
            /\ got' = [got EXCEPT ![t] = c]
            /\ pc' = [pc EXCEPT ![t] = "held"]
       \/ /\ accepted \cap established = {}
          /\ accepted' = accepted \ closed
          /\ pc' = [pc EXCEPT ![t] = IF pc[t] = "take" THEN "check" ELSE "parked"]
          /\ UNCHANGED got
    /\ UNCHANGED <<sharedVars, epWait, dials, lendAccepts, gone, queueVars, tableVars,
                   netVars, passVars, wakeVars, history>>

CheckGone(t) ==
    /\ t \in Acceptors
    /\ pc[t] = "check"
    /\ pc' = [pc EXCEPT ![t] = IF gone THEN "failed" ELSE "register"]
    /\ UNCHANGED <<woken, got, sharedVars, endpointVars, queueVars, tableVars,
                   netVars, passVars, wakeVars, history>>

RegisterAccept(t) ==
    /\ t \in Acceptors
    /\ pc[t] = "register"
    /\ pc' = [pc EXCEPT ![t] = "retake"]
    /\ epWait' = epWait \cup {t}
    /\ late' = (late \ {t}) \cup (IF gone THEN {t} ELSE {})
    /\ UNCHANGED <<woken, got, sharedVars, dials, accepted, lendAccepts, gone,
                   queueVars, tableVars, netVars, passVars, wakeVars, owed, scene>>

-----------------------------------------------------------------------------
(* What an owner does with a connection, and callers that give up.         *)

Managed == Dialled \cup (Incoming \ toAcceptor)

\* The connection a task was given, or dialled.
Mine(t) == IF t \in Dialled \cup Lent THEN t ELSE got[t]

\* ConnectionShared::push of a Close command.
PushClose(c) ==
    /\ commands' = [commands EXCEPT ![c] = @ + 1]
    /\ WakeDriver

\* Connection::close asks whether or not the connection has closed.  A handle is
\* closed at most once here before it is dropped.
CloseManaged(t) ==
    /\ pc[t] = "held"
    /\ Mine(t) \in Managed
    /\ pc' = [pc EXCEPT ![t] = "closing"]
    /\ PushClose(Mine(t))
    /\ UNCHANGED <<woken, got, closed, established, terminal, connWait, outbound,
                   endpointVars, queueVars, tableVars, netVars, passVars, armed, history>>

\* The drop of a Connection asks once more, unless it has closed by then.
DropManaged(t) ==
    /\ pc[t] \in {"held", "closing"}
    /\ Mine(t) \in Managed
    /\ pc' = [pc EXCEPT ![t] = "done"]
    /\ IF Mine(t) \in closed THEN UNCHANGED <<commands, drvWaker, drvWoken>>
       ELSE PushClose(Mine(t))
    /\ UNCHANGED <<woken, got, closed, established, terminal, connWait, outbound,
                   endpointVars, queueVars, tableVars, netVars, passVars, armed, history>>

\* DetachedConnection::send_close: the reserved slot, then the wake.
SendClose(t) ==
    /\ pc[t] = "held"
    /\ Mine(t) \notin Managed
    /\ Mine(t) \notin outbound
    /\ pc' = [pc EXCEPT ![t] = "closing"]
    /\ outbound' = outbound \cup {Mine(t)}
    /\ owed' = [owed EXCEPT ![Mine(t)] = @ + 1]
    /\ WakeDriver
    /\ UNCHANGED <<woken, got, closed, established, terminal, connWait, commands,
                   endpointVars, queueVars, tableVars, netVars, passVars, armed, late, scene>>

\* DetachedConnection::release, which the drop of the owner's pump calls too.
Release(t) ==
    /\ pc[t] \in {"held", "closing"}
    /\ Mine(t) \notin Managed
    /\ pc' = [pc EXCEPT ![t] = "done"]
    /\ terminal' = terminal \cup {Mine(t)}
    /\ WakeDriver
    /\ UNCHANGED <<woken, got, closed, established, connWait, commands, outbound,
                   endpointVars, queueVars, tableVars, netVars, passVars, armed, history>>

\* A future dropped while it waits.  Only Detaching with a key cleans up.
GiveUp(t) ==
    /\ "give up" \in Moves
    /\ pc[t] = "parked"
    /\ pc' = [pc EXCEPT ![t] = "done"]
    /\ IF t \in Lent
       THEN /\ ready' = ready \ {t}
            /\ terminal' = terminal \cup {t}
            /\ WakeDriver
       ELSE UNCHANGED <<ready, terminal, drvWaker, drvWoken>>
    /\ UNCHANGED <<woken, got, closed, established, connWait, commands, outbound,
                   endpointVars, queueWait, tableVars, netVars, passVars, armed, history>>

-----------------------------------------------------------------------------
(* The driver: EndpointDriver::poll, one stage a step.                     *)

InTable(s) == {c \in Conns : table[c] = s}
Go(s) == drv' = s

\* Its task is polled and registers its waker before it looks at anything.
PollStart ==
    /\ drv = "parked"
    /\ drvWoken
    /\ Go("dials")
    /\ drvWoken' = FALSE
    /\ drvWaker' = TRUE
    /\ pass' = 1
    /\ read' = FALSE
    /\ UNCHANGED <<handleVars, sharedVars, endpointVars, queueVars, tableVars, netVars,
                   cur, armed, history>>

\* drain_dials: a dial that cannot be built fails its caller.
DrainDials ==
    /\ drv = "dials"
    /\ Go("read")
    /\ \E bad \in SUBSET dials :
        /\ "bad dial" \in Moves \/ bad = {}
        /\ table' = [c \in Conns |-> IF c \in dials \ bad THEN "held" ELSE table[c]]
        /\ Fail(bad)
    /\ dials' = {}
    /\ UNCHANGED <<pc, got, established, terminal, commands, outbound, epWait, accepted,
                   lendAccepts, gone, queueVars, toAcceptor, finished, draining, pending,
                   outbox, due, netVars, cur, pass, read, wakeVars, history>>

Detaches(c) == c \in Lent \cup toAcceptor

\* begin: the first packet of an unknown peer.  The connection goes on the
\* accept queue, or is marked for whoever takes detached connections.
Begin(c) ==
    /\ table[c] = "absent"
    /\ table' = [table EXCEPT ![c] = "held"]
    /\ IF lendAccepts
       THEN /\ toAcceptor' = toAcceptor \cup {c}
            /\ UNCHANGED <<accepted, epWait, woken>>
       ELSE /\ accepted' = accepted \cup {c}
            /\ RingEndpoint
            /\ UNCHANGED toAcceptor
    /\ UNCHANGED <<drv, cur, closed, established, connWait, draining, finished>>

\* deliver, for a connection the endpoint holds: the handshake completes, the
\* peer closes, or the transport gives up.  absorb follows.
Feed(c, k) ==
    /\ table[c] = "held"
    /\ \/ /\ k = "done"
          /\ established' = established \cup {c}
          /\ woken' = woken \cup connWait[c]
          /\ connWait' = [connWait EXCEPT ![c] = {}]
          /\ drv' = IF Detaches(c) THEN "lend" ELSE drv
          /\ cur' = IF Detaches(c) THEN c ELSE cur
          /\ UNCHANGED <<closed, draining, finished>>
       \/ /\ k \in {"close", "bad"}
          /\ Fail({c})
          /\ draining' = IF k = "close" THEN draining \cup {c} ELSE draining
          /\ finished' = IF k = "bad" THEN finished \cup {c} ELSE finished
          /\ UNCHANGED <<established, drv, cur>>
    /\ UNCHANGED <<table, toAcceptor, accepted, epWait>>

\* deliver, for a connection somebody else holds: queued for that owner.
Forward(c) ==
    /\ table[c] = "lent"
    /\ woken' = woken \cup connWait[c]
    /\ connWait' = [connWait EXCEPT ![c] = {}]
    /\ UNCHANGED <<closed, established, draining, finished, drv, cur, table, toAcceptor,
                   accepted, epWait>>

\* What matches no connection changes none.  An endpoint that validates addresses
\* may answer it through the outbox, with a Retry the peer follows by another
\* first packet or with a stateless reset; the reset's budget may be spent.
Unmatched(c, k) ==
    /\ table[c] \in {"absent", "evicted"}
    /\ k # "hello" \/ ("validate" \in Moves /\ table[c] = "absent")
    /\ \/ UNCHANGED <<outbox, owed>>
       \/ /\ "validate" \in Moves
          /\ outbox[c] < MaxAnswers
          /\ outbox' = [outbox EXCEPT ![c] = @ + 1]
          /\ owed' = [owed EXCEPT ![c] = @ + 1]
    /\ said' = IF k = "hello" /\ outbox' # outbox
                THEN [said EXCEPT ![c] = @ \ {k}] ELSE said
    /\ UNCHANGED <<closed, established, draining, finished, drv, cur, table, toAcceptor,
                   accepted, epWait, connWait, woken>>

Receive ==
    /\ drv = "read"
    /\ \E d \in net :
        /\ net' = net \ {d}
        /\ \/ /\ \/ d[2] = "hello" /\ Begin(d[1])
                 \/ Feed(d[1], d[2])
                 \/ Forward(d[1])
              /\ UNCHANGED <<outbox, owed, said>>
           \/ Unmatched(d[1], d[2])
    /\ read' = TRUE
    /\ UNCHANGED <<pc, got, terminal, commands, outbound, dials, lendAccepts, gone,
                   queueVars, pending, due, ticks, pass, wakeVars, late, scene>>

\* hand_over: the protocol state leaves the table and goes on the queue.  An
\* endpoint that was not built to detach fails the connection and keeps it.
HandOver ==
    /\ drv = "lend"
    /\ Go("ring")
    /\ \/ /\ "undetachable" \notin Moves
          /\ table' = [table EXCEPT ![cur] = "lent"]
          /\ ready' = ready \cup {cur}
          /\ UNCHANGED <<woken, closed, connWait>>
       \/ /\ "undetachable" \in Moves
          /\ Fail({cur})
          /\ UNCHANGED <<table, ready>>
    /\ UNCHANGED <<pc, got, established, terminal, commands, outbound, endpointVars,
                   queueWait, toAcceptor, finished, draining, pending, outbox, due, netVars,
                   cur, pass, read, wakeVars, history>>

\* DetachQueue::deliver's wake if there was a hand-over, then the one absorb ends
\* with.
Delivered == IF table[cur] = "lent" THEN queueWait ELSE {}

RingQueue ==
    /\ drv = "ring"
    /\ Go("read")
    /\ cur' = NoConn
    /\ woken' = woken \cup Delivered \cup connWait[cur]
    /\ queueWait' = queueWait \ Delivered
    /\ connWait' = [connWait EXCEPT ![cur] = {}]
    /\ UNCHANGED <<pc, got, closed, established, terminal, commands, outbound, endpointVars,
                   ready, tableVars, netVars, pass, read, wakeVars, history>>

\* The socket is empty, or a batch of datagrams_per_pass has been read.
ReadDone ==
    /\ drv = "read"
    /\ net = {} \/ read
    /\ Go("notice")
    /\ UNCHANGED <<handleVars, sharedVars, endpointVars, queueVars, tableVars, netVars,
                   cur, pass, read, wakeVars, history>>

\* Acceptors are woken only for something they can take or discard.
Notice ==
    /\ drv = "notice"
    /\ Go("service")
    /\ IF accepted \cap (established \cup closed) # {}
       THEN RingEndpoint
       ELSE UNCHANGED <<woken, epWait>>
    /\ UNCHANGED <<pc, got, sharedVars, dials, accepted, lendAccepts, gone, queueVars,
                   tableVars, netVars, cur, pass, read, wakeVars, history>>

\* What is at most n, peer by peer.
UpTo(n) == {f \in [Conns -> UNION {0..n[c] : c \in Conns}] : \A c \in Conns : f[c] <= n[c]}
Count(b) == IF b THEN 1 ELSE 0

\* apply_commands, close_connection and handle_expiry of every connection held.
\* ngtcp2 writes a close for a command or has none to write; the first waits in
\* the slot if that is free, the others queue behind in the outbox.  A deadline
\* that has passed is handled and moves on, ends the connection, or is answered
\* with an error, which fails the connection, leaves finished unset and the
\* deadline where it is.
Asked == [c \in Conns |-> IF table[c] = "held" THEN commands[c] ELSE 0]
Closers == {c \in Conns : Asked[c] > 0}

Service ==
    /\ drv = "service"
    /\ Go("flush")
    /\ \E written \in UpTo(Asked),
          ended \in SUBSET (due \cap InTable("held")),
          erred \in SUBSET (due \cap InTable("held")) :
        /\ ended \cap erred = {}
        /\ "expiry error" \in Moves \/ erred = {}
        /\ pending' = pending \cup {c \in Conns : written[c] > 0}
        /\ outbox' = [c \in Conns |->
                        outbox[c] + written[c] - Count(c \notin pending /\ written[c] > 0)]
        /\ owed' = [c \in Conns |-> owed[c] + written[c]]
        /\ finished' = finished \cup Closers \cup ended
        /\ due' = (due \ InTable("held")) \cup ended \cup erred
        /\ Fail(Closers \cup ended \cup erred)
    /\ commands' = [c \in Conns |-> commands[c] - Asked[c]]
    /\ UNCHANGED <<pc, got, established, terminal, outbound, endpointVars, queueVars, table,
                   toAcceptor, draining, netVars, cur, pass, read, wakeVars, late, scene>>

\* Where the socket may refuse a connection: at the datagram pending, at the one a
\* detached owner queued, or at one that ngtcp2 writes.
Points == {"pending", "queued", "fresh", "none"}
CanRefuse(c, p) ==
    CASE p = "pending" -> c \in pending
      [] p = "queued" -> c \in outbound
      [] p = "fresh" -> c \in InTable("held") \ closed
      [] OTHER -> TRUE

\* flush: outbox first, then for each connection what is pending, what a
\* detached owner queued, what ngtcp2 writes, until the socket refuses.  What it
\* refuses is pending again.  A write that fails ends its connection.
Flush ==
    /\ drv = "flush"
    /\ Go("evict")
    /\ \E at \in [Conns -> Points], left \in UpTo(outbox),
          broken \in SUBSET (InTable("held") \ closed) :
        /\ \A c \in Conns : CanRefuse(c, at[c])
        /\ "busy" \in Moves \/ (left = [c \in Conns |-> 0] /\ \A c \in Conns : at[c] = "none")
        /\ "write error" \in Moves \/ broken = {}
        /\ \A c \in broken : at[c] = "none"
        /\ outbox' = left
        /\ pending' = {c \in Conns : at[c] # "none"}
        /\ outbound' = {c \in outbound : at[c] = "pending"}
        /\ owed' = [c \in Conns |->
                      owed[c] - (outbox[c] - left[c])
                              - Count(c \in pending /\ at[c] # "pending")
                              - Count(c \in outbound /\ at[c] \in {"fresh", "none"})
                              + Count(at[c] = "fresh")]
        /\ Fail(broken)
    /\ UNCHANGED <<pc, got, established, terminal, commands, endpointVars, queueVars, table,
                   toAcceptor, finished, draining, due, netVars, cur, pass, read, wakeVars,
                   late, scene>>

\* Mutant: a connection that has closed goes whether or not it was flushed.
EvictableUnsent ==
    {c \in InTable("held") : c \in closed /\ c \in draining \cup finished}
    \cup {c \in InTable("lent") : c \in terminal \ outbound}

\* evict: who has ended, by the two tests the code applies.
Evictable ==
    {c \in InTable("held") : c \in closed \ pending /\ c \in draining \cup finished}
    \cup {c \in InTable("lent") : c \in terminal \ outbound}

Evict ==
    /\ drv = "evict"
    /\ Go("rearm")
    /\ table' = [c \in Conns |-> IF c \in Evictable THEN "evicted" ELSE table[c]]
    /\ pending' = pending \ Evictable
    /\ due' = due \ Evictable
    /\ UNCHANGED <<handleVars, sharedVars, endpointVars, queueVars, toAcceptor, finished,
                   draining, outbox, netVars, cur, pass, read, wakeVars, history>>

\* rearm and the end of a pass.  A deadline already reached answers at once and
\* leaves no sleep behind; otherwise one is registered for the earliest.
Timed == InTable("held") \ finished
Fired == due \cap Timed # {}
HasPending == pending # {} \/ \E c \in Conns : outbox[c] > 0

Rearm ==
    /\ drv = "rearm"
    /\ armed' = (Timed # {} /\ ~Fired)
    /\ IF ~read /\ (Fired \/ HasPending) /\ pass < Passes
       THEN /\ Go("dials")
            /\ pass' = pass + 1
            /\ UNCHANGED <<read, drvWoken>>
       ELSE /\ Go("parked")
            /\ read' = FALSE
            /\ UNCHANGED pass
            /\ drvWoken' = (drvWoken \/ read)
    /\ UNCHANGED <<handleVars, sharedVars, endpointVars, queueVars, tableVars, netVars,
                   cur, drvWaker, history>>

-----------------------------------------------------------------------------
(* The end of the driver: the socket fails, or the future is dropped.      *)

SocketFails ==
    /\ "socket" \in Moves
    /\ drv \in {"read", "flush"}
    /\ Go("failing")
    /\ UNCHANGED <<handleVars, sharedVars, endpointVars, queueVars, tableVars, netVars,
                   cur, pass, read, wakeVars, history>>

\* Dropped where it waits.
DropDriver ==
    /\ "abort" \in Moves
    /\ drv = "parked"
    /\ Go("drop")
    /\ UNCHANGED <<handleVars, sharedVars, endpointVars, queueVars, tableVars, netVars,
                   cur, pass, read, wakeVars, history>>

\* fail_all, on either way out.
FailAll ==
    /\ drv \in {"failing", "drop"}
    /\ Go(IF drv = "failing" THEN "failGone" ELSE "dropDials")
    /\ Fail(InTable("held") \cup InTable("lent"))
    /\ UNCHANGED <<pc, got, established, terminal, commands, outbound, endpointVars,
                   queueVars, tableVars, netVars, cur, pass, read, wakeVars, history>>

\* Mutant: failing every connection is taken to reach everybody.
FailNoDials ==
    /\ drv = "dropDials"
    /\ Go("dropGone")
    /\ UNCHANGED <<handleVars, sharedVars, endpointVars, queueVars, tableVars, netVars, cur,
                   pass, read, wakeVars, history>>

\* Dials nobody picked up are failed as well.
FailDials ==
    /\ drv = "dropDials"
    /\ Go("dropGone")
    /\ Fail(dials)
    /\ dials' = {}
    /\ UNCHANGED <<pc, got, established, terminal, commands, outbound, epWait, accepted,
                   lendAccepts, gone, queueVars, tableVars, netVars, cur, pass, read,
                   wakeVars, history>>

\* mark_gone: the flag, then everybody in the endpoint's list.  A driver that
\* failed has returned, and is dropped in its turn.
MarkGone ==
    /\ drv \in {"failGone", "dropGone"}
    /\ Go(IF drv = "failGone" THEN "drop" ELSE "gone")
    /\ gone' = TRUE
    /\ RingEndpoint
    /\ UNCHANGED <<pc, got, sharedVars, dials, accepted, lendAccepts, queueVars, tableVars,
                   netVars, cur, pass, read, wakeVars, history>>

-----------------------------------------------------------------------------
(* Peers, the clock and the socket.                                        *)

\* A peer sends each kind once, a first packet before anything else.
Send(c, k) ==
    /\ drv # "gone"
    /\ k \notin said[c]
    /\ IF c \in Incoming THEN k = "hello" \/ "hello" \in said[c] ELSE k # "hello" /\ table[c] # "absent"
    /\ k \in {"hello", "done"} \/ k \in Moves
    /\ net' = net \cup {<<c, k>>}
    /\ said' = [said EXCEPT ![c] = @ \cup {k}]
    /\ drvWoken' = TRUE
    /\ UNCHANGED <<handleVars, sharedVars, endpointVars, queueVars, tableVars, ticks,
                   passVars, drvWaker, armed, history>>

\* A deadline passes.  Only a sleep that is registered wakes the driver.
Tick(c) ==
    /\ ticks < MaxTicks
    /\ c \in Timed \ due
    /\ drv # "gone"
    /\ ticks' = ticks + 1
    /\ due' = due \cup {c}
    /\ drvWoken' = (drvWoken \/ armed)
    /\ UNCHANGED <<handleVars, sharedVars, endpointVars, queueVars, table, toAcceptor,
                   finished, draining, pending, outbox, net, said, passVars, drvWaker,
                   armed, history>>

\* A socket that refused a datagram wakes the driver when it can take one.
Writable ==
    /\ drv = "parked"
    /\ HasPending
    /\ ~drvWoken
    /\ drvWoken' = TRUE
    /\ UNCHANGED <<handleVars, sharedVars, endpointVars, queueVars, tableVars, netVars,
                   passVars, drvWaker, armed, history>>

Rest ==
    /\ drv \in {"parked", "gone"}
    /\ \A t \in Tasks : pc[t] \in {"absent", "idle", "parked", "held", "closing", "done", "failed"}
    /\ UNCHANGED vars

-----------------------------------------------------------------------------

DriverStep ==
    \/ PollStart \/ DrainDials \/ Receive \/ HandOver \/ RingQueue \/ ReadDone
    \/ Notice \/ Service \/ Flush \/ Evict \/ Rearm
    \/ FailAll \/ FailDials \/ MarkGone

\* A task inside a poll, or woken and due to be polled.
TaskStep(t) ==
    \/ PushDial(t) \/ Look(t) \/ RegisterDial(t) \/ Repoll(t)
    \/ TakeLent(t) \/ CheckEnded(t) \/ RegisterLent(t)
    \/ TakeAccepted(t) \/ CheckGone(t) \/ RegisterAccept(t)

CallerStep(t) ==
    \/ Connect(t) \/ Accept(t) \/ GiveUp(t)
    \/ CloseManaged(t) \/ DropManaged(t) \/ SendClose(t) \/ Release(t)

Next ==
    \/ DriverStep
    \/ \E t \in Tasks : TaskStep(t) \/ CallerStep(t)
    \/ \E c \in Conns : Tick(c) \/ \E k \in Kinds : Send(c, k)
    \/ SocketFails \/ DropDriver \/ Writable
    \/ Rest

Spec == Init /\ [][Next]_vars

-----------------------------------------------------------------------------
(* Properties.                                                             *)

\* The variables have their types, and a connection's state in the table
\* follows absent, held, lent, evicted.
TypeOK ==
    /\ pc \in [Tasks -> {"absent", "idle", "push", "look", "register", "again", "parked",
                         "take", "check", "retake", "held", "closing", "done", "failed"}]
    /\ woken \subseteq Tasks
    /\ got \in [Tasks -> Conns \cup {NoConn}]
    /\ closed \cup established \cup terminal \cup outbound \subseteq Conns
    /\ finished \cup draining \cup pending \cup due \subseteq Conns
    /\ commands \in [Conns -> Nat] /\ outbox \in [Conns -> Nat] /\ owed \in [Conns -> Int]
    /\ dials \subseteq Dialled \cup Lent
    /\ ready \subseteq Conns
    /\ toAcceptor \cup accepted \subseteq Incoming
    /\ connWait \in [Conns -> SUBSET Tasks]
    /\ epWait \cup queueWait \cup late \subseteq Tasks
    /\ lendAccepts \in BOOLEAN /\ gone \in BOOLEAN /\ read \in BOOLEAN
    /\ drvWaker \in BOOLEAN /\ drvWoken \in BOOLEAN /\ armed \in BOOLEAN
    /\ table \in [Conns -> {"absent", "held", "lent", "evicted"}]
    /\ net \subseteq Conns \X Kinds
    /\ said \in [Conns -> SUBSET Kinds]
    /\ drv \in Stages /\ cur \in Conns \cup {NoConn}
    /\ pass \in 0..Passes /\ ticks \in 0..MaxTicks

Asleep(t) == pc[t] = "parked" /\ t \notin woken

\* Stages from which the driver rings the acceptors before it sleeps or is gone.
Ringing == {"read", "lend", "ring", "notice", "failing", "failGone", "drop", "dropDials",
            "dropGone"}

\* Nobody who waits sleeps on what it waits for.  connect() never does: an outcome
\* finds its caller awake in every state, and only a dial pushed after the drop
\* had drained the list outlives the driver.  accept() sleeps on an established
\* connection only while the driver is on its way to ring.  The detached forms and
\* a driver that is gone are missed by those alone who look before the event and
\* register after its wake (late): no poll of Detaching, and none of Accepting for
\* the gone flag, looks again after it has registered.
SleepersAreTold ==
    \A t \in Tasks : Asleep(t) =>
        /\ t \in Dialled => /\ t \notin established \cup closed
                            /\ drv = "gone" => t \in late
        /\ t \in Acceptors => /\ accepted \cap established # {} => drv \in Ringing
                              /\ gone => t \in late
        /\ t \in Lent \cup Takers /\ (Key(t) # {} \/ t \in closed \/ gone) =>
              t \in late \/ drv = "ring"

\* Whatever is put where only the driver takes it finds the driver awake: dials,
\* commands, datagrams, a detached close, a released connection, a deadline.
\* The exception is a deadline that every one of a poll's passes found passed.
NothingWaitsForSleeper ==
    drv = "parked" /\ ~drvWoken =>
        /\ dials = {}
        /\ Closers = {}
        /\ net = {}
        /\ outbound \subseteq pending
        /\ InTable("lent") \cap (terminal \ outbound) = {}
        /\ Fired => ~armed /\ pass = Passes

\* A connection has one owner: what was dialled detached reaches the task that
\* dialled it, an acceptor gets what a peer opened, and nobody gets it twice.
OneOwner ==
    /\ \A t \in Lent : got[t] \in {t, NoConn}
    /\ \A t \in Acceptors \cup Takers : got[t] \in Incoming \cup {NoConn}
    /\ \A t, u \in Tasks : got[t] = got[u] /\ got[t] # NoConn => t = u
    /\ \A t \in Lent \cup Takers : got[t] # NoConn =>
            got[t] \notin ready /\ table[got[t]] \in {"lent", "evicted"}

\* Where the datagrams kept for a peer are: the slot of its connection, the slot its
\* detached owner writes to, the outbox.
Kept(c) == Count(c \in pending) + Count(c \in outbound) + outbox[c]

\* No datagram kept for the peer of a managed connection is lost or sent twice: a
\* close that was written, a packet or an answer the socket refused is where a
\* later pass offers it again until the socket has taken it, whatever was pending
\* when it was written and whoever is evicted.  It is not true of a detached one:
\* evict asks has_outbound of it, and a close that flush took out of that queue and
\* the socket refused goes with the entry (driver.rs 676, 1001, 782).
KeptUntilTaken == \A c \in Managed : owed[c] = Kept(c)

\* Neither a caller nor the driver sleeps on what is there for it.
NobodySleepsOnIt == SleepersAreTold /\ NothingWaitsForSleeper

=============================================================================
