-------------------------- MODULE QuicEndpointProofs --------------------------
(***************************************************************************)
(* The endpoint's safety, for every set of connections and callers, every  *)
(* number of passes of a poll and every choice of moves.                   *)
(*                                                                         *)
(* The inductive invariant is a conjunction of layers, each proved from    *)
(* the layers above it: who owns what (Owned), when the driver is awake    *)
(* (DriverAwake), and what the sleepers of each kind are registered with   *)
(* (DialsTold, LentTold, AcceptsTold).  That no datagram is lost           *)
(* (KeptUntilTaken) is inductive beside it.                                *)
(***************************************************************************)
EXTENDS QuicEndpoint, TLAPS

-----------------------------------------------------------------------------
(* The inductive invariant                                                 *)

\* What is handed over was asked for detached, and is handed over from the table.
Detached == Lent \cup toAcceptor

HandedOver ==
    /\ \A c \in Conns : table[c] = "lent" => c \in Detached
    /\ drv \in {"lend", "ring"} => cur \in Detached
    /\ drv = "lend" => table[cur] = "held"
    /\ \A c \in ready : table[c] \in {"lent", "evicted"}

\* A dial is in the table only after it was taken off the list.
DialsFirst ==
    /\ \A c \in dials : table[c] = "absent"
    /\ \A t \in Tasks : pc[t] = "push" => t \in Dialled \cup Lent
    /\ \A t \in Dialled \cup Lent : pc[t] \in {"idle", "push"} =>
          table[t] = "absent" /\ t \notin dials

\* A peer opens what comes in, once, and it goes one of two ways.
OpenedByPeer ==
    /\ \A c \in Conns : <<c, "hello">> \in net => c \in Incoming
    /\ \A c \in toAcceptor \cup accepted : table[c] # "absent"
    /\ toAcceptor \cap accepted = {}

\* Who holds a connection has been given one, and nobody else can get it.
Given ==
    /\ \A t \in Dialled : got[t] = NoConn
    /\ \A t \in Tasks \ Dialled : pc[t] \in {"held", "closing"} => got[t] # NoConn
    /\ \A t \in Acceptors : got[t] # NoConn => /\ got[t] \notin accepted \cup toAcceptor
                                               /\ table[got[t]] # "absent"
    /\ \A t \in Takers : got[t] # NoConn => got[t] \in toAcceptor

Owned == HandedOver /\ DialsFirst /\ OpenedByPeer /\ Given /\ OneOwner

\* The driver has neither failed nor been dropped.
Passing == {"parked", "dials", "read", "lend", "ring", "notice", "service", "flush",
            "evict", "rearm"}

\* Work that arrives behind the stage that would take it has woken the driver.
DriverAwake ==
    /\ drvWoken \/ drvWaker
    /\ drv = "parked" => ~read
    /\ ~drvWoken =>
        /\ drv \in Passing \ {"dials"} => dials = {}
        /\ drv \in {"flush", "evict", "rearm", "parked"} =>
              \A c \in InTable("held") : commands[c] = 0
        /\ drv \in {"notice", "service", "flush", "evict", "rearm", "parked"} /\ ~read => net = {}
        /\ drv \in {"evict", "rearm", "parked"} => outbound \subseteq pending
        /\ drv \in {"rearm", "parked"} => InTable("lent") \cap (terminal \ outbound) = {}
        /\ drv = "parked" /\ armed => ~Fired
        /\ drv = "parked" /\ ~armed => Timed = {} \/ pass = Passes

\* A caller of connect() is registered before it looks again, and what it waits
\* for is on the list, in the table or over.
DialsTold ==
    /\ \A t \in Dialled :
        /\ pc[t] \in {"again", "parked"} => t \in woken \cup connWait[t]
        /\ Asleep(t) => t \notin established \cup closed
        /\ pc[t] \in {"look", "register", "again", "parked"} =>
              t \in dials \cup closed \/ table[t] = "held"
    /\ drv \in {"dropDials", "dropGone", "gone"} => InTable("held") \subseteq closed
    /\ drv \in {"dropGone", "gone"} => dials \cap Dialled \subseteq late

\* A caller that waits for a hand-over is registered with all that can end its
\* wait, and none of it has happened since.
LentTold ==
    \A t \in Lent \cup Takers : Asleep(t) /\ t \notin late =>
        /\ t \in queueWait /\ t \in epWait
        /\ t \in Lent => t \in connWait[t]
        /\ t \notin closed /\ ~gone
        /\ (drv = "ring" /\ table[cur] = "lent") \/ Key(t) = {}

\* A caller of accept() is registered before it looks again; the driver rings
\* before it goes on from the stage that could have given it something.
AcceptsTold ==
    /\ drv = "gone" => gone
    /\ gone => drv \in {"drop", "dropDials", "dropGone", "gone"}
    /\ \A t \in Acceptors :
        /\ pc[t] \in {"retake", "parked"} /\ t \notin woken =>
              t \in epWait /\ (gone => t \in late)
        /\ Asleep(t) /\ (gone \/ drv \in {"parked", "dials", "service", "flush", "evict",
                                          "rearm"}) =>
              accepted \cap established = {}

EndpointInv ==
    TypeOK /\ Owned /\ DriverAwake /\ DialsTold /\ LentTold /\ AcceptsTold

-----------------------------------------------------------------------------
(* Initially, and with every step                                          *)

\* The initial states satisfy the invariant.
LEMMA InitEndpoint == Init => EndpointInv
  <1> SUFFICES ASSUME Init PROVE EndpointInv
    OBVIOUS
  <1> USE EndpointAssumption DEF Init, Conns, Tasks
  <1>1. TypeOK
    <2>1. /\ pc \in [Tasks -> {"absent", "idle"}]
          /\ said \in [Conns -> SUBSET Kinds]
      OBVIOUS
    <2>2. /\ pass \in 0..Passes /\ ticks \in 0..MaxTicks
          /\ connWait \in [Conns -> SUBSET Tasks]
          /\ table \in [Conns -> {"absent", "held", "lent", "evicted"}]
          /\ got \in [Tasks -> Conns \cup {NoConn}]
      OBVIOUS
    <2>3. /\ lendAccepts \in BOOLEAN /\ gone \in BOOLEAN /\ read \in BOOLEAN
          /\ drvWaker \in BOOLEAN /\ drvWoken \in BOOLEAN /\ armed \in BOOLEAN
      OBVIOUS
    <2>4. /\ drv \in Stages /\ cur \in Conns \cup {NoConn}
          /\ net \subseteq Conns \X Kinds
      BY DEF Stages
    <2>5. /\ woken \cup epWait \cup queueWait \cup late \subseteq Tasks
          /\ closed \cup established \cup terminal \cup outbound \subseteq Conns
          /\ finished \cup draining \cup pending \cup due \subseteq Conns
          /\ commands \in [Conns -> Nat] /\ outbox \in [Conns -> Nat]
          /\ owed \in [Conns -> Int]
          /\ dials = {} /\ ready = {} /\ toAcceptor = {} /\ accepted = {}
      OBVIOUS
    <2> HIDE DEF Init
    <2> QED
      BY <2>1, <2>2, <2>3, <2>4, <2>5 DEF TypeOK
  <1>2. Owned
    BY DEF Owned, HandedOver, Detached, DialsFirst, OpenedByPeer, Given, OneOwner
  <1>3. DriverAwake
    BY DEF DriverAwake, Passing
  <1>4. DialsTold /\ LentTold /\ AcceptsTold
    BY DEF DialsTold, LentTold, AcceptsTold, Asleep
  <1> QED
    BY <1>1, <1>2, <1>3, <1>4 DEF EndpointInv

\* What service does to the datagrams that are kept, and to its connections.
LEMMA ServiceDoes ==
    Service => \E written \in UpTo(Asked),
                  ended \in SUBSET (due \cap InTable("held")),
                  erred \in SUBSET (due \cap InTable("held")) :
            /\ pending' = pending \cup {c \in Conns : written[c] > 0}
            /\ outbox' = [c \in Conns |->
                  outbox[c] + written[c] - Count(c \notin pending /\ written[c] > 0)]
            /\ owed' = [c \in Conns |-> owed[c] + written[c]]
            /\ finished' = finished \cup Closers \cup ended
            /\ due' = (due \ InTable("held")) \cup ended \cup erred
            /\ Fail(Closers \cup ended \cup erred)
  BY DEF Service

\* What flush does to them.
LEMMA FlushDoes ==
    Flush => \E at \in [Conns -> Points], left \in UpTo(outbox),
                  broken \in SUBSET (InTable("held") \ closed) :
            /\ \A c \in Conns : CanRefuse(c, at[c])
            /\ outbox' = left
            /\ pending' = {c \in Conns : at[c] # "none"}
            /\ outbound' = {c \in outbound : at[c] = "pending"}
            /\ owed' = [c \in Conns |->
                          owed[c] - (outbox[c] - left[c])
                                  - Count(c \in pending /\ at[c] # "pending")
                                  - Count(c \in outbound /\ at[c] \in {"fresh", "none"})
                                  + Count(at[c] = "fresh")]
            /\ Fail(broken)
  BY DEF Flush

\* The frame of every step.
USE EndpointAssumption DEF EndpointInv, Owned, TypeOK, Conns, Tasks, handleVars, sharedVars,
    endpointVars, queueVars, tableVars, netVars, passVars, wakeVars, history

\* connect() and connect_detached() keep the invariant: an idle caller's connection
\* is in no list, whether the driver is found gone or not.
LEMMA ConnectKeeps ==
    ASSUME NEW t \in Tasks, EndpointInv, Connect(t)
    PROVE  EndpointInv'
  <1>1. TypeOK'
    BY DEF Stages, Kinds, Connect, First
  <1>2. DialsFirst'
    BY DEF DialsFirst, HandedOver, Detached, OpenedByPeer, Connect, First
  <1>3. Given'
    BY DEF Given, HandedOver, Detached, DialsFirst, OpenedByPeer, OneOwner, Key,
       Connect, First
  <1>4. DialsTold'
    BY DEF DialsTold, Asleep, InTable, HandedOver, Detached, Connect, First
  <1>5. LentTold'
    BY DEF LentTold, Asleep, Key, HandedOver, Detached, Connect, First
  <1>6. AcceptsTold'
    BY DEF AcceptsTold, Asleep, Connect, First
  <1>7. HandedOver' /\ OpenedByPeer' /\ OneOwner' /\ DriverAwake'
    BY DEF HandedOver, Detached, OpenedByPeer, OneOwner, DriverAwake, Passing, Timed,
       Fired, InTable, Connect, First
  <1> QED
    BY <1>1, <1>2, <1>3, <1>4, <1>5, <1>6, <1>7

\* The push of a dial keeps it: the wake that follows finds the driver's waker, or
\* the driver awake.
LEMMA PushDialKeeps ==
    ASSUME NEW t \in Tasks, EndpointInv, PushDial(t)
    PROVE  EndpointInv'
  <1>1. TypeOK'
    <2>1. drvWoken' \in BOOLEAN /\ drvWaker' \in BOOLEAN
      BY Zenon DEF PushDial, WakeDriver
    <2> QED
      BY <2>1 DEF PushDial, First, DialsFirst
  <1>2. DialsFirst'
    BY DEF DialsFirst, HandedOver, Detached, OpenedByPeer, PushDial, First, WakeDriver
  <1>3. Given'
    BY DEF Given, HandedOver, Detached, DialsFirst, OpenedByPeer, OneOwner, Key,
       PushDial, First, WakeDriver
  <1>4. DriverAwake'
    BY DEF DriverAwake, Passing, Timed, Fired, InTable, PushDial, First, WakeDriver
  <1>5. DialsTold'
    BY DEF DialsTold, Asleep, InTable, HandedOver, Detached, PushDial, First,
       WakeDriver
  <1>6. LentTold'
    BY DEF LentTold, Asleep, Key, HandedOver, Detached, PushDial, First, WakeDriver
  <1>7. AcceptsTold'
    BY DEF AcceptsTold, Asleep, PushDial, First, WakeDriver
  <1>8. HandedOver' /\ OpenedByPeer' /\ OneOwner'
    BY DEF HandedOver, Detached, OpenedByPeer, OneOwner, PushDial, First, WakeDriver
  <1> QED
    BY <1>1, <1>2, <1>3, <1>4, <1>5, <1>6, <1>7, <1>8

\* The calls of accept() and accept_detached() keep it.
LEMMA AcceptKeeps ==
    ASSUME NEW t \in Tasks, EndpointInv, Accept(t)
    PROVE  EndpointInv'
  <1>a. drvWoken' \in BOOLEAN /\ drvWaker' \in BOOLEAN
    BY Zenon DEF Accept, WakeDriver
  <1>1. TypeOK'
    BY <1>a DEF Stages, Kinds, Accept, WakeDriver
  <1>2. DialsFirst'
    BY DEF DialsFirst, HandedOver, Detached, OpenedByPeer, Accept, WakeDriver
  <1>3. Given'
    BY DEF Given, HandedOver, Detached, DialsFirst, OpenedByPeer, OneOwner, Key,
       Accept, WakeDriver
  <1>4. DriverAwake'
    BY DEF DriverAwake, Passing, Timed, Fired, InTable, Accept, WakeDriver
  <1>5. DialsTold'
    BY DEF DialsTold, Asleep, InTable, HandedOver, Detached, Accept, WakeDriver
  <1>6. LentTold'
    BY DEF LentTold, Asleep, Key, HandedOver, Detached, Accept, WakeDriver
  <1>7. AcceptsTold'
    BY DEF AcceptsTold, Asleep, Accept, WakeDriver
  <1>8. HandedOver' /\ OpenedByPeer' /\ OneOwner'
    BY DEF HandedOver, Detached, OpenedByPeer, OneOwner, Accept, WakeDriver
  <1> QED
    BY <1>1, <1>2, <1>3, <1>4, <1>5, <1>6, <1>7, <1>8

\* Connecting's two looks keep it: a caller that sleeps has just seen nothing.
LEMMA LookKeeps ==
    ASSUME NEW t \in Tasks, EndpointInv, Look(t)
    PROVE  EndpointInv'
  <1>1. TypeOK'
    BY DEF Stages, Kinds, Look, Answer
  <1>2. DialsFirst'
    BY DEF DialsFirst, HandedOver, Detached, OpenedByPeer, Look, Answer
  <1>3. Given'
    BY DEF Given, HandedOver, Detached, DialsFirst, OpenedByPeer, OneOwner, Key, Look,
       Answer
  <1>4. DialsTold'
    BY DEF DialsTold, Asleep, InTable, HandedOver, Detached, Look, Answer
  <1>5. LentTold'
    BY DEF LentTold, Asleep, Key, HandedOver, Detached, Look, Answer
  <1>6. AcceptsTold'
    BY DEF AcceptsTold, Asleep, Look, Answer
  <1>7. HandedOver' /\ OpenedByPeer' /\ OneOwner' /\ DriverAwake'
    BY DEF HandedOver, Detached, OpenedByPeer, OneOwner, DriverAwake, Passing, Timed,
       Fired, InTable, Look, Answer
  <1> QED
    BY <1>1, <1>2, <1>3, <1>4, <1>5, <1>6, <1>7

\* Connecting's registration keeps it.
LEMMA RegisterDialKeeps ==
    ASSUME NEW t \in Tasks, EndpointInv, RegisterDial(t)
    PROVE  EndpointInv'
  <1>1. TypeOK'
    BY DEF Stages, Kinds, RegisterDial
  <1>2. DialsFirst'
    BY DEF DialsFirst, HandedOver, Detached, OpenedByPeer, RegisterDial
  <1>3. Given'
    BY DEF Given, HandedOver, Detached, DialsFirst, OpenedByPeer, OneOwner, Key,
       RegisterDial
  <1>4. DialsTold'
    BY DEF DialsTold, Asleep, InTable, HandedOver, Detached, RegisterDial
  <1>5. LentTold'
    BY DEF LentTold, Asleep, Key, HandedOver, Detached, RegisterDial
  <1>6. AcceptsTold'
    BY DEF AcceptsTold, Asleep, RegisterDial
  <1>7. HandedOver' /\ OpenedByPeer' /\ OneOwner' /\ DriverAwake'
    BY DEF HandedOver, Detached, OpenedByPeer, OneOwner, DriverAwake, Passing, Timed,
       Fired, InTable, RegisterDial
  <1> QED
    BY <1>1, <1>2, <1>3, <1>4, <1>5, <1>6, <1>7

\* A new poll of a woken task keeps it.
LEMMA RepollKeeps ==
    ASSUME NEW t \in Tasks, EndpointInv, Repoll(t)
    PROVE  EndpointInv'
  <1>1. TypeOK'
    BY DEF Stages, Kinds, Repoll, First
  <1>2. DialsFirst'
    BY DEF DialsFirst, HandedOver, Detached, OpenedByPeer, Repoll, First
  <1>3. Given'
    BY DEF Given, HandedOver, Detached, DialsFirst, OpenedByPeer, OneOwner, Key,
       Repoll, First
  <1>4. DialsTold'
    BY DEF DialsTold, Asleep, InTable, HandedOver, Detached, Repoll, First
  <1>5. LentTold'
    BY DEF LentTold, Asleep, Key, HandedOver, Detached, Repoll, First
  <1>6. AcceptsTold'
    BY DEF AcceptsTold, Asleep, Repoll, First
  <1>7. HandedOver' /\ OpenedByPeer' /\ OneOwner' /\ DriverAwake'
    BY DEF HandedOver, Detached, OpenedByPeer, OneOwner, DriverAwake, Passing, Timed,
       Fired, InTable, Repoll, First
  <1> QED
    BY <1>1, <1>2, <1>3, <1>4, <1>5, <1>6, <1>7

\* DetachQueue::take keeps it: what it takes leaves the queue, under the taker's key.
LEMMA TakeLentKeeps ==
    ASSUME NEW t \in Tasks, EndpointInv, TakeLent(t)
    PROVE  EndpointInv'
  <1>1. TypeOK'
    BY DEF Stages, Kinds, TakeLent, Key
  <1>2. HandedOver'
    BY DEF HandedOver, Detached, DialsFirst, OpenedByPeer, Given, OneOwner, Key,
       TakeLent
  <1>3. DialsFirst'
    BY DEF DialsFirst, HandedOver, Detached, OpenedByPeer, TakeLent, Key
  <1>4. Given'
    BY DEF Given, HandedOver, Detached, DialsFirst, OpenedByPeer, OneOwner, Key,
       TakeLent
  <1>5. OneOwner'
    BY DEF OneOwner, HandedOver, Detached, DialsFirst, OpenedByPeer, Given, Key,
       TakeLent
  <1>6. DialsTold'
    BY DEF DialsTold, Asleep, InTable, HandedOver, Detached, TakeLent, Key
  <1>7. LentTold'
    BY DEF LentTold, Asleep, Key, HandedOver, Detached, TakeLent
  <1>8. AcceptsTold'
    BY DEF AcceptsTold, Asleep, TakeLent, Key
  <1>9. OpenedByPeer' /\ DriverAwake'
    BY DEF OpenedByPeer, DriverAwake, Passing, Timed, Fired, InTable, TakeLent, Key
  <1> QED
    BY <1>1, <1>2, <1>3, <1>4, <1>5, <1>6, <1>7, <1>8, <1>9

\* Detaching's look at the connection and the endpoint keeps it.
LEMMA CheckEndedKeeps ==
    ASSUME NEW t \in Tasks, EndpointInv, CheckEnded(t)
    PROVE  EndpointInv'
  <1>1. TypeOK'
    BY DEF Stages, Kinds, CheckEnded
  <1>2. DialsFirst'
    BY DEF DialsFirst, HandedOver, Detached, OpenedByPeer, CheckEnded
  <1>3. Given'
    BY DEF Given, HandedOver, Detached, DialsFirst, OpenedByPeer, OneOwner, Key,
       CheckEnded
  <1>4. DialsTold'
    BY DEF DialsTold, Asleep, InTable, HandedOver, Detached, CheckEnded
  <1>5. LentTold'
    BY DEF LentTold, Asleep, Key, HandedOver, Detached, CheckEnded
  <1>6. AcceptsTold'
    BY DEF AcceptsTold, Asleep, CheckEnded
  <1>7. HandedOver' /\ OpenedByPeer' /\ OneOwner' /\ DriverAwake'
    BY DEF HandedOver, Detached, OpenedByPeer, OneOwner, DriverAwake, Passing, Timed,
       Fired, InTable, CheckEnded
  <1> QED
    BY <1>1, <1>2, <1>3, <1>4, <1>5, <1>6, <1>7

\* Detaching's registrations keep it: who registers too late is recorded.
LEMMA RegisterLentKeeps ==
    ASSUME NEW t \in Tasks, EndpointInv, RegisterLent(t)
    PROVE  EndpointInv'
  <1>1. TypeOK'
    BY DEF Stages, Kinds, RegisterLent, Key
  <1>2. DialsFirst'
    BY DEF DialsFirst, HandedOver, Detached, OpenedByPeer, RegisterLent, Key
  <1>3. Given'
    BY DEF Given, HandedOver, Detached, DialsFirst, OpenedByPeer, OneOwner, Key,
       RegisterLent
  <1>4. DialsTold'
    BY DEF DialsTold, Asleep, InTable, HandedOver, Detached, RegisterLent, Key
  <1>5. LentTold'
    BY DEF LentTold, Asleep, Key, HandedOver, Detached, RegisterLent
  <1>6. AcceptsTold'
    BY DEF AcceptsTold, Asleep, RegisterLent, Key
  <1>7. HandedOver' /\ OpenedByPeer' /\ OneOwner' /\ DriverAwake'
    BY DEF HandedOver, Detached, OpenedByPeer, OneOwner, DriverAwake, Passing, Timed,
       Fired, InTable, RegisterLent, Key
  <1> QED
    BY <1>1, <1>2, <1>3, <1>4, <1>5, <1>6, <1>7

\* Accepting::take_ready keeps it: what is taken leaves the accept queue.
LEMMA TakeAcceptedKeeps ==
    ASSUME NEW t \in Tasks, EndpointInv, TakeAccepted(t)
    PROVE  EndpointInv'
  <1>1. TypeOK'
    BY DEF Stages, Kinds, TakeAccepted
  <1>2. DialsFirst'
    BY DEF DialsFirst, HandedOver, Detached, OpenedByPeer, TakeAccepted
  <1>3. OpenedByPeer'
    BY DEF OpenedByPeer, TakeAccepted
  <1>4. Given'
    BY DEF Given, HandedOver, Detached, DialsFirst, OpenedByPeer, OneOwner, Key,
       TakeAccepted
  <1>5. OneOwner'
    BY DEF OneOwner, HandedOver, Detached, DialsFirst, OpenedByPeer, Given, Key,
       TakeAccepted
  <1>6. DialsTold'
    BY DEF DialsTold, Asleep, InTable, HandedOver, Detached, TakeAccepted
  <1>7. LentTold'
    BY DEF LentTold, Asleep, Key, HandedOver, Detached, TakeAccepted
  <1>8. AcceptsTold'
    BY DEF AcceptsTold, Asleep, TakeAccepted
  <1>9. HandedOver' /\ DriverAwake'
    BY DEF HandedOver, Detached, DriverAwake, Passing, Timed, Fired, InTable,
       TakeAccepted
  <1> QED
    BY <1>1, <1>2, <1>3, <1>4, <1>5, <1>6, <1>7, <1>8, <1>9

\* Accepting's look at the gone flag keeps it.
LEMMA CheckGoneKeeps ==
    ASSUME NEW t \in Tasks, EndpointInv, CheckGone(t)
    PROVE  EndpointInv'
  <1>1. TypeOK'
    BY DEF Stages, Kinds, CheckGone
  <1>2. DialsFirst'
    BY DEF DialsFirst, HandedOver, Detached, OpenedByPeer, CheckGone
  <1>3. Given'
    BY DEF Given, HandedOver, Detached, DialsFirst, OpenedByPeer, OneOwner, Key,
       CheckGone
  <1>4. DialsTold'
    BY DEF DialsTold, Asleep, InTable, HandedOver, Detached, CheckGone
  <1>5. LentTold'
    BY DEF LentTold, Asleep, Key, HandedOver, Detached, CheckGone
  <1>6. AcceptsTold'
    BY DEF AcceptsTold, Asleep, CheckGone
  <1>7. HandedOver' /\ OpenedByPeer' /\ OneOwner' /\ DriverAwake'
    BY DEF HandedOver, Detached, OpenedByPeer, OneOwner, DriverAwake, Passing, Timed,
       Fired, InTable, CheckGone
  <1> QED
    BY <1>1, <1>2, <1>3, <1>4, <1>5, <1>6, <1>7

\* Accepting's registration keeps it.
LEMMA RegisterAcceptKeeps ==
    ASSUME NEW t \in Tasks, EndpointInv, RegisterAccept(t)
    PROVE  EndpointInv'
  <1>1. TypeOK'
    BY DEF Stages, Kinds, RegisterAccept
  <1>2. DialsFirst'
    BY DEF DialsFirst, HandedOver, Detached, OpenedByPeer, RegisterAccept
  <1>3. Given'
    BY DEF Given, HandedOver, Detached, DialsFirst, OpenedByPeer, OneOwner, Key,
       RegisterAccept
  <1>4. DialsTold'
    BY DEF DialsTold, Asleep, InTable, HandedOver, Detached, RegisterAccept
  <1>5. LentTold'
    BY DEF LentTold, Asleep, Key, HandedOver, Detached, RegisterAccept
  <1>6. AcceptsTold'
    BY DEF AcceptsTold, Asleep, RegisterAccept
  <1>7. HandedOver' /\ OpenedByPeer' /\ OneOwner' /\ DriverAwake'
    BY DEF HandedOver, Detached, OpenedByPeer, OneOwner, DriverAwake, Passing, Timed,
       Fired, InTable, RegisterAccept
  <1> QED
    BY <1>1, <1>2, <1>3, <1>4, <1>5, <1>6, <1>7

\* Connection::close keeps it: the command is queued before the wake.
LEMMA CloseManagedKeeps ==
    ASSUME NEW t \in Tasks, EndpointInv, CloseManaged(t)
    PROVE  EndpointInv'
  <1>a. drvWoken' \in BOOLEAN /\ drvWaker' \in BOOLEAN
    BY Zenon DEF CloseManaged, PushClose, Managed, Mine, WakeDriver
  <1>1. TypeOK'
    <2>0. Mine(t) \in Conns
      BY DEF CloseManaged, Given, Mine
    <2>1. commands' \in [Conns -> Nat]
      BY <2>0 DEF CloseManaged, PushClose
    <2> QED
      BY <1>a, <2>1 DEF CloseManaged
  <1>2. DialsFirst'
    BY DEF DialsFirst, HandedOver, Detached, OpenedByPeer, CloseManaged
  <1>3. Given'
    BY DEF Given, HandedOver, Detached, DialsFirst, OpenedByPeer, OneOwner, Key, CloseManaged
  <1>4. DriverAwake'
    <2>1. (drvWoken' \/ drvWaker') /\ (~drvWoken' => ~drvWoken /\ commands' = commands)
      BY Zenon DEF DriverAwake, CloseManaged, PushClose, Managed, Mine, WakeDriver
    <2> QED
      BY <2>1 DEF DriverAwake, Passing, Timed, Fired, InTable, CloseManaged
  <1>5. DialsTold'
    BY DEF DialsTold, Asleep, InTable, HandedOver, Detached, CloseManaged
  <1>6. LentTold'
    BY DEF LentTold, Asleep, Key, HandedOver, Detached, CloseManaged
  <1>7. AcceptsTold'
    BY DEF AcceptsTold, Asleep, CloseManaged
  <1>8. HandedOver' /\ OpenedByPeer' /\ OneOwner'
    BY DEF HandedOver, Detached, OpenedByPeer, OneOwner, CloseManaged
  <1> QED
    BY <1>1, <1>2, <1>3, <1>4, <1>5, <1>6, <1>7, <1>8

\* The drop of a Connection keeps it.
LEMMA DropManagedKeeps ==
    ASSUME NEW t \in Tasks, EndpointInv, DropManaged(t)
    PROVE  EndpointInv'
  <1>a. drvWoken' \in BOOLEAN /\ drvWaker' \in BOOLEAN
    BY Zenon DEF DropManaged, PushClose, Managed, Mine, WakeDriver
  <1>1. TypeOK'
    <2>0. Mine(t) \in Conns
      BY DEF DropManaged, Given, Mine
    <2>1. commands' \in [Conns -> Nat]
      BY <2>0 DEF DropManaged, PushClose
    <2> QED
      BY <1>a, <2>1 DEF DropManaged
  <1>2. DialsFirst'
    BY DEF DialsFirst, HandedOver, Detached, OpenedByPeer, DropManaged
  <1>3. Given'
    BY DEF Given, HandedOver, Detached, DialsFirst, OpenedByPeer, OneOwner, Key, DropManaged
  <1>4. DriverAwake'
    <2>1. (drvWoken' \/ drvWaker') /\ (~drvWoken' => ~drvWoken /\ commands' = commands)
      BY Zenon DEF DriverAwake, DropManaged, PushClose, Managed, Mine, WakeDriver
    <2> QED
      BY <2>1 DEF DriverAwake, Passing, Timed, Fired, InTable, DropManaged
  <1>5. DialsTold'
    BY DEF DialsTold, Asleep, InTable, HandedOver, Detached, DropManaged
  <1>6. LentTold'
    BY DEF LentTold, Asleep, Key, HandedOver, Detached, DropManaged
  <1>7. AcceptsTold'
    BY DEF AcceptsTold, Asleep, DropManaged
  <1>8. HandedOver' /\ OpenedByPeer' /\ OneOwner'
    BY DEF HandedOver, Detached, OpenedByPeer, OneOwner, DropManaged
  <1> QED
    BY <1>1, <1>2, <1>3, <1>4, <1>5, <1>6, <1>7, <1>8

\* DetachedConnection::send_close keeps it.
LEMMA SendCloseKeeps ==
    ASSUME NEW t \in Tasks, EndpointInv, SendClose(t)
    PROVE  EndpointInv'
  <1>1. TypeOK'
    <2>1. Mine(t) \in Conns
      BY DEF SendClose, Given, Mine
    <2>2. drvWoken' \in BOOLEAN /\ drvWaker' \in BOOLEAN
      BY Zenon DEF SendClose, WakeDriver
    <2>3. owed' \in [Conns -> Int]
      BY <2>1 DEF SendClose
    <2> QED
      BY <2>1, <2>2, <2>3 DEF SendClose
  <1>2. DialsFirst'
    BY DEF DialsFirst, HandedOver, Detached, OpenedByPeer, SendClose, Managed, Mine,
       WakeDriver
  <1>3. Given'
    BY DEF Given, HandedOver, Detached, DialsFirst, OpenedByPeer, OneOwner, Key,
       SendClose, Managed, Mine, WakeDriver
  <1>4. DriverAwake'
    BY DEF DriverAwake, Passing, Timed, Fired, InTable, SendClose, Managed, Mine,
       WakeDriver
  <1>5. DialsTold'
    BY DEF DialsTold, Asleep, InTable, HandedOver, Detached, SendClose, Managed, Mine,
       WakeDriver
  <1>6. LentTold'
    BY DEF LentTold, Asleep, Key, HandedOver, Detached, SendClose, Managed, Mine,
       WakeDriver
  <1>7. AcceptsTold'
    BY DEF AcceptsTold, Asleep, SendClose, Managed, Mine, WakeDriver
  <1>8. HandedOver' /\ OpenedByPeer' /\ OneOwner'
    BY DEF HandedOver, Detached, OpenedByPeer, OneOwner, SendClose, Managed, Mine,
       WakeDriver
  <1> QED
    BY <1>1, <1>2, <1>3, <1>4, <1>5, <1>6, <1>7, <1>8

\* DetachedConnection::release keeps it.
LEMMA ReleaseKeeps ==
    ASSUME NEW t \in Tasks, EndpointInv, Release(t)
    PROVE  EndpointInv'
  <1>1. TypeOK'
    <2>1. Mine(t) \in Conns
      BY DEF Release, Given, Mine
    <2>2. drvWoken' \in BOOLEAN /\ drvWaker' \in BOOLEAN
      BY Zenon DEF Release, WakeDriver
    <2> QED
      BY <2>1, <2>2 DEF Release
  <1>2. DialsFirst'
    BY DEF DialsFirst, HandedOver, Detached, OpenedByPeer, Release, Managed, Mine,
       WakeDriver
  <1>3. Given'
    BY DEF Given, HandedOver, Detached, DialsFirst, OpenedByPeer, OneOwner, Key,
       Release, Managed, Mine, WakeDriver
  <1>4. DriverAwake'
    BY DEF DriverAwake, Passing, Timed, Fired, InTable, Release, Managed, Mine,
       WakeDriver
  <1>5. DialsTold'
    BY DEF DialsTold, Asleep, InTable, HandedOver, Detached, Release, Managed, Mine,
       WakeDriver
  <1>6. LentTold'
    BY DEF LentTold, Asleep, Key, HandedOver, Detached, Release, Managed, Mine,
       WakeDriver
  <1>7. AcceptsTold'
    BY DEF AcceptsTold, Asleep, Release, Managed, Mine, WakeDriver
  <1>8. HandedOver' /\ OpenedByPeer' /\ OneOwner'
    BY DEF HandedOver, Detached, OpenedByPeer, OneOwner, Release, Managed, Mine,
       WakeDriver
  <1> QED
    BY <1>1, <1>2, <1>3, <1>4, <1>5, <1>6, <1>7, <1>8

\* A dropped future keeps it, the one of Detaching with what it cleans up.
LEMMA GiveUpKeeps ==
    ASSUME NEW t \in Tasks, EndpointInv, GiveUp(t)
    PROVE  EndpointInv'
  <1>a. /\ pc' = [pc EXCEPT ![t] = "done"] /\ pc[t] = "parked"
        /\ t \in Lent => /\ ready' = ready \ {t}
                         /\ terminal' = terminal \cup {t}
        /\ t \notin Lent => UNCHANGED <<ready, terminal, drvWaker, drvWoken>>
        /\ UNCHANGED <<woken, got, closed, established, connWait, commands, outbound,
                       endpointVars, queueWait, tableVars, netVars, passVars, armed, history>>
    BY DEF GiveUp
  <1>b. t \in Lent => /\ drvWaker' = FALSE
                     /\ drvWoken' = (drvWoken \/ drvWaker)
    BY Zenon DEF GiveUp, WakeDriver
  <1>1. TypeOK'
    <2>1. drvWoken' \in BOOLEAN /\ drvWaker' \in BOOLEAN
      BY Zenon, <1>a, <1>b
    <2> QED
      BY <1>a, <2>1
  <1>2. HandedOver'
    BY <1>a DEF HandedOver, Detached
  <1>3. DialsFirst'
    BY DEF DialsFirst, HandedOver, Detached, OpenedByPeer, GiveUp, WakeDriver
  <1>4. Given'
    BY DEF Given, HandedOver, Detached, DialsFirst, OpenedByPeer, OneOwner, Key,
       GiveUp, WakeDriver
  <1>5. OneOwner'
    BY <1>a DEF OneOwner
  <1>6. DriverAwake'
    BY <1>a, <1>b DEF DriverAwake, Passing, Timed, Fired, InTable
  <1>7. DialsTold'
    BY DEF DialsTold, Asleep, InTable, HandedOver, Detached, GiveUp, WakeDriver
  <1>8. LentTold'
    BY <1>a DEF LentTold, Asleep, Key
  <1>9. AcceptsTold'
    BY DEF AcceptsTold, Asleep, GiveUp, WakeDriver
  <1>10. OpenedByPeer'
    BY <1>a DEF OpenedByPeer
  <1> QED
    BY <1>1, <1>2, <1>3, <1>4, <1>5, <1>6, <1>7, <1>8, <1>9, <1>10

\* The start of a poll keeps it: the waker is registered before anything is read.
LEMMA PollStartKeeps ==
    ASSUME EndpointInv, PollStart
    PROVE  EndpointInv'
  <1>1. TypeOK'
    <2>1. pass' \in 0..Passes
      BY DEF PollStart
    <2>2. drv' \in Stages
      BY DEF PollStart, Stages, Go
    <2> QED
      BY <2>1, <2>2 DEF PollStart
  <1>2. HandedOver'
    BY DEF HandedOver, Detached, DialsFirst, OpenedByPeer, Given, OneOwner, Key,
       PollStart, Go
  <1>3. DriverAwake'
    BY DEF DriverAwake, Passing, Timed, Fired, InTable, PollStart, Go
  <1>4. DialsTold'
    BY DEF DialsTold, Asleep, InTable, HandedOver, Detached, PollStart, Go
  <1>5. LentTold'
    BY DEF LentTold, Asleep, Key, HandedOver, Detached, PollStart, Go
  <1>6. AcceptsTold'
    BY DEF AcceptsTold, Asleep, PollStart, Go
  <1>7. DialsFirst' /\ OpenedByPeer' /\ Given' /\ OneOwner'
    BY DEF DialsFirst, OpenedByPeer, Given, OneOwner, PollStart, Go
  <1> QED
    BY <1>1, <1>2, <1>3, <1>4, <1>5, <1>6, <1>7

\* drain_dials keeps it: a dial moves from the list to the table or fails.
LEMMA DrainDialsKeeps ==
    ASSUME EndpointInv, DrainDials
    PROVE  EndpointInv'
  <1>a. PICK bad \in SUBSET dials :
            /\ table' = [c \in Conns |-> IF c \in dials \ bad THEN "held" ELSE table[c]]
            /\ Fail(bad)
    BY DEF DrainDials
  <1>b. /\ drv = "dials" /\ drv' = "read" /\ dials' = {}
        /\ UNCHANGED <<pc, got, established, terminal, commands, outbound, epWait, accepted,
                       lendAccepts, gone, queueVars, toAcceptor, finished, draining, pending,
                       outbox, due, netVars, cur, pass, read, wakeVars, history>>
    BY DEF DrainDials, Go
  <1>1. TypeOK'
    BY <1>a, <1>b DEF Fail, Stages
  <1>2. HandedOver'
    BY <1>a, <1>b DEF HandedOver, Detached, DialsFirst
  <1>3. DialsFirst'
    BY <1>a, <1>b DEF DialsFirst
  <1>4. OpenedByPeer'
    BY <1>a, <1>b DEF OpenedByPeer
  <1>5. Given'
    BY <1>a, <1>b DEF Given
  <1>6. OneOwner'
    BY <1>a, <1>b DEF OneOwner, DialsFirst
  <1>7. DriverAwake'
    BY <1>a, <1>b DEF DriverAwake, Passing
  <1>8. DialsTold'
    BY <1>a, <1>b DEF DialsTold, Asleep, Fail, InTable
  <1>9. LentTold'
    BY <1>a, <1>b DEF LentTold, Asleep, Key, Fail
  <1>10. AcceptsTold'
    BY <1>a, <1>b DEF AcceptsTold, Asleep, Fail
  <1> QED
    BY <1>1, <1>2, <1>3, <1>4, <1>5, <1>6, <1>7, <1>8, <1>9, <1>10

\* A datagram delivered keeps it, whatever it is and whoever it is for.
LEMMA ReceiveKeeps ==
    ASSUME EndpointInv, Receive
    PROVE  EndpointInv'
  <1>1. TypeOK'
    <2>1. PICK d \in net : /\ net' = net \ {d}
                           /\ \/ d[2] = "hello" /\ Begin(d[1])
                              \/ Feed(d[1], d[2])
                              \/ Forward(d[1])
                              \/ Unmatched(d[1], d[2])
      BY DEF Receive
    <2>2. d[1] \in Conns /\ d = <<d[1], d[2]>>
      OBVIOUS
    <2>3. /\ UNCHANGED <<pc, got, terminal, commands, outbound, dials, lendAccepts, gone,
                         queueVars, pending, due, ticks, pass, wakeVars, late, scene>>
          /\ read' = TRUE /\ drv = "read"
      BY DEF Receive
    <2>4. /\ woken' \subseteq Tasks /\ connWait' \in [Conns -> SUBSET Tasks]
          /\ epWait' \subseteq Tasks
      BY <2>1, <2>2 DEF Begin, Feed, Forward, Unmatched, RingEndpoint, Fail
    <2>5. /\ closed' \cup established' \cup finished' \cup draining' \subseteq Conns
          /\ table' \in [Conns -> {"absent", "held", "lent", "evicted"}]
          /\ drv' \in {"read", "lend"} /\ cur' \in Conns \cup {NoConn}
      BY <2>1, <2>2, <2>3 DEF Begin, Feed, Forward, Unmatched, Fail
    <2>6. toAcceptor' \cup accepted' \subseteq Incoming
      BY <2>1, <2>2 DEF Begin, Feed, Forward, Unmatched, OpenedByPeer
    <2>7. /\ outbox' \in [Conns -> Nat] /\ owed' \in [Conns -> Int]
          /\ said' \in [Conns -> SUBSET Kinds]
      BY <2>1, <2>2 DEF Receive, Unmatched
    <2> QED
      BY <2>1, <2>3, <2>4, <2>5, <2>6, <2>7 DEF Stages
  <1>2. HandedOver'
    BY DEF HandedOver, Detached, DialsFirst, OpenedByPeer, Given, OneOwner, Key,
       Receive, Begin, Feed, Forward, Unmatched, Detaches, RingEndpoint, Fail
  <1>3. DialsFirst'
    BY DEF DialsFirst, HandedOver, Detached, OpenedByPeer, Receive, Begin, Feed,
       Forward, Unmatched, Detaches, RingEndpoint, Fail
  <1>4. OpenedByPeer'
    BY DEF OpenedByPeer, Receive, Begin, Feed, Forward, Unmatched, Detaches,
       RingEndpoint, Fail
  <1>5. Given'
    BY DEF Given, HandedOver, Detached, DialsFirst, OpenedByPeer, OneOwner, Key,
       Receive, Begin, Feed, Forward, Unmatched, Detaches, RingEndpoint, Fail
  <1>6. OneOwner'
    BY DEF OneOwner, HandedOver, Detached, DialsFirst, OpenedByPeer, Given, Key,
       Receive, Begin, Feed, Forward, Unmatched, Detaches, RingEndpoint, Fail
  <1>7. DriverAwake'
    BY DEF DriverAwake, Passing, Timed, Fired, InTable, Receive, Begin, Feed, Forward,
       Unmatched, Detaches, RingEndpoint, Fail
  <1>8. DialsTold'
    BY DEF DialsTold, Asleep, InTable, HandedOver, Detached, Receive, Begin, Feed,
       Forward, Unmatched, Detaches, RingEndpoint, Fail
  <1>9. LentTold'
    BY DEF LentTold, Asleep, Key, HandedOver, Detached, Receive, Begin, Feed, Forward,
       Unmatched, Detaches, RingEndpoint, Fail
  <1>10. AcceptsTold'
    BY DEF AcceptsTold, Asleep, Receive, Begin, Feed, Forward, Unmatched, Detaches,
       RingEndpoint, Fail
  <1> QED
    BY <1>1, <1>2, <1>3, <1>4, <1>5, <1>6, <1>7, <1>8, <1>9, <1>10

\* hand_over keeps it: nobody holds what was still in the table.
LEMMA HandOverKeeps ==
    ASSUME EndpointInv, HandOver
    PROVE  EndpointInv'
  <1>1. TypeOK'
    BY DEF HandOver, Go, Fail, Stages, HandedOver, Detached
  <1>2. HandedOver'
    BY DEF HandedOver, Detached, DialsFirst, OpenedByPeer, Given, OneOwner, Key,
       HandOver, Go, Fail
  <1>3. DialsFirst'
    BY DEF DialsFirst, HandedOver, Detached, OpenedByPeer, HandOver, Go, Fail
  <1>4. OpenedByPeer'
    BY DEF OpenedByPeer, HandOver, Go, Fail
  <1>5. Given'
    BY DEF Given, HandedOver, Detached, DialsFirst, OpenedByPeer, OneOwner, Key,
       HandOver, Go, Fail
  <1>6. OneOwner'
    BY DEF OneOwner, HandedOver, Detached, DialsFirst, OpenedByPeer, Given, Key,
       HandOver, Go, Fail
  <1>7. DriverAwake'
    BY DEF DriverAwake, Passing, Timed, Fired, InTable, HandOver, Go, Fail
  <1>8. DialsTold'
    BY DEF DialsTold, Asleep, InTable, HandedOver, Detached, HandOver, Go, Fail
  <1>9. LentTold'
    BY DEF LentTold, Asleep, Key, HandedOver, Detached, HandOver, Go, Fail
  <1>10. AcceptsTold'
    BY DEF AcceptsTold, Asleep, HandOver, Go, Fail
  <1> QED
    BY <1>1, <1>2, <1>3, <1>4, <1>5, <1>6, <1>7, <1>8, <1>9, <1>10

\* The wakes that follow a hand-over keep it.
LEMMA RingQueueKeeps ==
    ASSUME EndpointInv, RingQueue
    PROVE  EndpointInv'
  <1>1. TypeOK'
    BY DEF RingQueue, Go, Delivered, Stages, HandedOver, Detached
  <1>2. HandedOver'
    BY DEF HandedOver, Detached, DialsFirst, OpenedByPeer, Given, OneOwner, Key,
       RingQueue, Go, Delivered
  <1>3. DriverAwake'
    BY DEF DriverAwake, Passing, Timed, Fired, InTable, RingQueue, Go, Delivered
  <1>4. DialsTold'
    BY DEF DialsTold, Asleep, InTable, HandedOver, Detached, RingQueue, Go, Delivered
  <1>5. LentTold'
    BY DEF LentTold, Asleep, Key, HandedOver, Detached, RingQueue, Go, Delivered
  <1>6. AcceptsTold'
    BY DEF AcceptsTold, Asleep, RingQueue, Go, Delivered
  <1>7. DialsFirst' /\ OpenedByPeer' /\ Given' /\ OneOwner'
    BY DEF DialsFirst, OpenedByPeer, Given, OneOwner, RingQueue, Go, Delivered
  <1> QED
    BY <1>1, <1>2, <1>3, <1>4, <1>5, <1>6, <1>7

\* The end of the reading keeps it: an empty socket, or a pass to come.
LEMMA ReadDoneKeeps ==
    ASSUME EndpointInv, ReadDone
    PROVE  EndpointInv'
  <1>1. TypeOK'
    BY DEF Stages, Kinds, ReadDone, Go
  <1>2. HandedOver'
    BY DEF HandedOver, Detached, DialsFirst, OpenedByPeer, Given, OneOwner, Key,
       ReadDone, Go
  <1>3. DriverAwake'
    BY DEF DriverAwake, Passing, Timed, Fired, InTable, ReadDone, Go
  <1>4. DialsTold'
    BY DEF DialsTold, Asleep, InTable, HandedOver, Detached, ReadDone, Go
  <1>5. LentTold'
    BY DEF LentTold, Asleep, Key, HandedOver, Detached, ReadDone, Go
  <1>6. AcceptsTold'
    BY DEF AcceptsTold, Asleep, ReadDone, Go
  <1>7. DialsFirst' /\ OpenedByPeer' /\ Given' /\ OneOwner'
    BY DEF DialsFirst, OpenedByPeer, Given, OneOwner, ReadDone, Go
  <1> QED
    BY <1>1, <1>2, <1>3, <1>4, <1>5, <1>6, <1>7

\* The wake of the acceptors keeps it.
LEMMA NoticeKeeps ==
    ASSUME EndpointInv, Notice
    PROVE  EndpointInv'
  <1>1. TypeOK'
    BY DEF Stages, Kinds, Notice, Go, RingEndpoint
  <1>2. HandedOver'
    BY DEF HandedOver, Detached, DialsFirst, OpenedByPeer, Given, OneOwner, Key,
       Notice, Go, RingEndpoint
  <1>3. DriverAwake'
    BY DEF DriverAwake, Passing, Timed, Fired, InTable, Notice, Go, RingEndpoint
  <1>4. DialsTold'
    BY DEF DialsTold, Asleep, InTable, HandedOver, Detached, Notice, Go, RingEndpoint
  <1>5. LentTold'
    BY DEF LentTold, Asleep, Key, HandedOver, Detached, Notice, Go, RingEndpoint
  <1>6. AcceptsTold'
    BY DEF AcceptsTold, Asleep, Notice, Go, RingEndpoint
  <1>7. DialsFirst' /\ OpenedByPeer' /\ Given' /\ OneOwner'
    BY DEF DialsFirst, OpenedByPeer, Given, OneOwner, Notice, Go, RingEndpoint
  <1> QED
    BY <1>1, <1>2, <1>3, <1>4, <1>5, <1>6, <1>7

\* What UpTo ranges over.
LEMMA UpToBounded ==
    ASSUME NEW n \in [Conns -> Nat], NEW f \in UpTo(n)
    PROVE  f \in [Conns -> Nat] /\ \A c \in Conns : f[c] <= n[c]
  <1>1. UNION {0..n[c] : c \in Conns} \subseteq Nat
    OBVIOUS
  <1> QED
    BY <1>1 DEF UpTo

\* Commands and deadlines keep it: every command of a held connection is taken.
LEMMA ServiceKeeps ==
    ASSUME EndpointInv, Service
    PROVE  EndpointInv'
  <1>a. PICK written \in UpTo(Asked),
              ended \in SUBSET (due \cap InTable("held")),
              erred \in SUBSET (due \cap InTable("held")) :
            /\ pending' = pending \cup {c \in Conns : written[c] > 0}
            /\ outbox' = [c \in Conns |->
                  outbox[c] + written[c] - Count(c \notin pending /\ written[c] > 0)]
            /\ owed' = [c \in Conns |-> owed[c] + written[c]]
            /\ finished' = finished \cup Closers \cup ended
            /\ due' = (due \ InTable("held")) \cup ended \cup erred
            /\ Fail(Closers \cup ended \cup erred)
    BY ServiceDoes
  <1>b. /\ drv = "service" /\ drv' = "flush"
        /\ commands' = [c \in Conns |-> commands[c] - Asked[c]]
        /\ UNCHANGED <<pc, got, established, terminal, outbound, endpointVars, queueVars,
                       table, toAcceptor, draining, netVars, cur, pass, read, wakeVars,
                       late, scene>>
    BY DEF Service, Go
  <1>d. Closers \subseteq InTable("held")
    <2> SUFFICES ASSUME NEW c \in Conns, Asked[c] > 0 PROVE table[c] = "held"
      BY DEF Closers, InTable
    <2>1. Asked[c] = IF table[c] = "held" THEN commands[c] ELSE 0
      BY DEF Asked
    <2> QED
      BY <2>1
  <1>c. PICK C : C \subseteq InTable("held") /\ Fail(C)
    BY <1>a, <1>d
  <1>e. /\ written \in [Conns -> Nat] /\ Asked \in [Conns -> Nat]
        /\ \A c \in Conns : written[c] <= Asked[c]
    <2>1. Asked \in [Conns -> Nat]
      BY DEF Asked
    <2> QED
      BY <1>a, <2>1, UpToBounded
  <1>1. TypeOK'
    <2>1. /\ outbox' \in [Conns -> Nat] /\ owed' \in [Conns -> Int]
          /\ commands' \in [Conns -> Nat]
      BY <1>a, <1>b, <1>e DEF Count, Asked
    <2> QED
      BY <1>a, <1>b, <1>c, <1>d, <2>1 DEF InTable, Fail, Stages
  <1>2. HandedOver'
    BY <1>b DEF HandedOver, Detached
  <1>3. DriverAwake'
    <2>1. \A c \in InTable("held") : commands'[c] = 0
      BY <1>b DEF Asked, InTable
    <2> QED
      BY <1>a, <1>b, <2>1 DEF DriverAwake, Passing, InTable
  <1>4. DialsTold'
    BY <1>b, <1>c DEF DialsTold, Asleep, Fail, InTable
  <1>5. LentTold'
    <2> SUFFICES ASSUME NEW t \in Lent \cup Takers, Asleep(t)', t \notin late'
                 PROVE  /\ t \in queueWait' /\ t \in epWait'
                        /\ t \in Lent => t \in connWait'[t]
                        /\ t \notin closed' /\ ~gone'
                        /\ (drv' = "ring" /\ table'[cur'] = "lent") \/ Key(t)' = {}
      BY DEF LentTold
    <2>1. Asleep(t) /\ t \notin late
      BY <1>b, <1>c DEF Asleep, Fail
    <2>2. /\ t \in queueWait /\ t \in epWait
          /\ t \in Lent => t \in connWait[t]
          /\ t \notin closed /\ ~gone
          /\ (drv = "ring" /\ table[cur] = "lent") \/ Key(t) = {}
      BY <2>1 DEF LentTold
    <2>3. t \in Lent => t \notin C
      BY <2>2, <1>c DEF Asleep, Fail
    <2>4. Key(t)' = Key(t)
      BY <1>b DEF Key
    <2> QED
      BY <2>2, <2>3, <2>4, <1>b, <1>c DEF Fail, InTable
  <1>6. AcceptsTold'
    BY <1>b, <1>c DEF AcceptsTold, Asleep, Fail
  <1>7. DialsFirst' /\ OpenedByPeer' /\ Given' /\ OneOwner'
    BY <1>b DEF DialsFirst, OpenedByPeer, Given, OneOwner
  <1> QED
    BY <1>1, <1>2, <1>3, <1>4, <1>5, <1>6, <1>7

\* flush keeps it: what stays in a detached owner's slot has a datagram pending.
LEMMA FlushKeeps ==
    ASSUME EndpointInv, Flush
    PROVE  EndpointInv'
  <1>a. PICK at \in [Conns -> Points], left \in UpTo(outbox),
              broken \in SUBSET (InTable("held") \ closed) :
            /\ \A c \in Conns : CanRefuse(c, at[c])
            /\ outbox' = left
            /\ pending' = {c \in Conns : at[c] # "none"}
            /\ outbound' = {c \in outbound : at[c] = "pending"}
            /\ owed' = [c \in Conns |->
                          owed[c] - (outbox[c] - left[c])
                                  - Count(c \in pending /\ at[c] # "pending")
                                  - Count(c \in outbound /\ at[c] \in {"fresh", "none"})
                                  + Count(at[c] = "fresh")]
            /\ Fail(broken)
    BY FlushDoes
  <1>b. /\ drv = "flush" /\ drv' = "evict"
        /\ UNCHANGED <<pc, got, established, terminal, commands, endpointVars, queueVars,
                       table, toAcceptor, finished, draining, due, netVars, cur, pass, read,
                       wakeVars, late, scene>>
    BY DEF Flush, Go
  <1>d. outbound' \subseteq outbound \cap pending'
    BY <1>a
  <1>e. left \in [Conns -> Nat]
    BY <1>a, UpToBounded
  <1>c. PICK C : C \subseteq InTable("held") /\ Fail(C)
    BY <1>a
  <1>1. TypeOK'
    <2>1. owed' \in [Conns -> Int]
      BY <1>a, <1>e DEF Count
    <2> QED
      BY <1>a, <1>b, <1>c, <1>d, <1>e, <2>1 DEF InTable, Fail, Stages
  <1>2. HandedOver'
    BY <1>b DEF HandedOver, Detached
  <1>3. DriverAwake'
    BY <1>a, <1>b, <1>d DEF DriverAwake, Passing, InTable
  <1>4. DialsTold'
    BY <1>b, <1>c DEF DialsTold, Asleep, Fail, InTable
  <1>5. LentTold'
    <2> SUFFICES ASSUME NEW t \in Lent \cup Takers, Asleep(t)', t \notin late'
                 PROVE  /\ t \in queueWait' /\ t \in epWait'
                        /\ t \in Lent => t \in connWait'[t]
                        /\ t \notin closed' /\ ~gone'
                        /\ (drv' = "ring" /\ table'[cur'] = "lent") \/ Key(t)' = {}
      BY DEF LentTold
    <2>1. Asleep(t) /\ t \notin late
      BY <1>b, <1>c DEF Asleep, Fail
    <2>2. /\ t \in queueWait /\ t \in epWait
          /\ t \in Lent => t \in connWait[t]
          /\ t \notin closed /\ ~gone
          /\ (drv = "ring" /\ table[cur] = "lent") \/ Key(t) = {}
      BY <2>1 DEF LentTold
    <2>3. t \in Lent => t \notin C
      BY <2>2, <1>c DEF Asleep, Fail
    <2>4. Key(t)' = Key(t)
      BY <1>b DEF Key
    <2> QED
      BY <2>2, <2>3, <2>4, <1>b, <1>c DEF Fail, InTable
  <1>6. AcceptsTold'
    BY <1>b, <1>c DEF AcceptsTold, Asleep, Fail
  <1>7. DialsFirst' /\ OpenedByPeer' /\ Given' /\ OneOwner'
    BY <1>b DEF DialsFirst, OpenedByPeer, Given, OneOwner
  <1> QED
    BY <1>1, <1>2, <1>3, <1>4, <1>5, <1>6, <1>7

\* evict keeps it: who waits for a connection has seen it close.
LEMMA EvictKeeps ==
    ASSUME EndpointInv, Evict
    PROVE  EndpointInv'
  <1>1. TypeOK'
    BY DEF Stages, Kinds, Evict, Go, Evictable, InTable
  <1>2. HandedOver'
    BY DEF HandedOver, Detached, DialsFirst, OpenedByPeer, Given, OneOwner, Key,
       Evict, Go, Evictable, InTable
  <1>3. DialsFirst'
    BY DEF DialsFirst, HandedOver, Detached, OpenedByPeer, Evict, Go, Evictable,
       InTable
  <1>4. OpenedByPeer'
    BY DEF OpenedByPeer, Evict, Go, Evictable, InTable
  <1>5. Given'
    BY DEF Given, HandedOver, Detached, DialsFirst, OpenedByPeer, OneOwner, Key,
       Evict, Go, Evictable, InTable
  <1>6. OneOwner'
    BY DEF OneOwner, HandedOver, Detached, DialsFirst, OpenedByPeer, Given, Key,
       Evict, Go, Evictable, InTable
  <1>7. DriverAwake'
    BY DEF DriverAwake, Passing, Timed, Fired, InTable, Evict, Go, Evictable
  <1>8. DialsTold'
    BY DEF DialsTold, Asleep, InTable, HandedOver, Detached, Evict, Go, Evictable
  <1>9. LentTold'
    BY DEF LentTold, Asleep, Key, HandedOver, Detached, Evict, Go, Evictable, InTable
  <1>10. AcceptsTold'
    BY DEF AcceptsTold, Asleep, Evict, Go, Evictable, InTable
  <1> QED
    BY <1>1, <1>2, <1>3, <1>4, <1>5, <1>6, <1>7, <1>8, <1>9, <1>10

\* rearm keeps it: a poll ends with a sleep registered, or after its last pass.
LEMMA RearmKeeps ==
    ASSUME EndpointInv, Rearm
    PROVE  EndpointInv'
  <1>1. TypeOK'
    <2>1. pass' \in 0..Passes
      BY DEF Rearm
    <2>2. drv' \in Stages
      BY DEF Rearm, Stages, Go
    <2>3. read' \in BOOLEAN /\ drvWoken' \in BOOLEAN /\ armed' \in BOOLEAN
      BY Zenon DEF Rearm
    <2> QED
      BY <2>1, <2>2, <2>3 DEF Rearm
  <1>2. HandedOver'
    BY DEF HandedOver, Detached, DialsFirst, OpenedByPeer, Given, OneOwner, Key,
       Rearm, Go, Timed, Fired, HasPending, InTable
  <1>3. DriverAwake'
    BY DEF DriverAwake, Passing, Timed, Fired, InTable, Rearm, Go, HasPending
  <1>4. DialsTold'
    BY DEF DialsTold, Asleep, InTable, HandedOver, Detached, Rearm, Go, Timed, Fired,
       HasPending
  <1>5. LentTold'
    BY DEF LentTold, Asleep, Key, HandedOver, Detached, Rearm, Go, Timed, Fired,
       HasPending, InTable
  <1>6. AcceptsTold'
    BY DEF AcceptsTold, Asleep, Rearm, Go, Timed, Fired, HasPending, InTable
  <1>7. DialsFirst' /\ OpenedByPeer' /\ Given' /\ OneOwner'
    BY DEF DialsFirst, OpenedByPeer, Given, OneOwner, Rearm, Go, Timed, Fired,
       HasPending, InTable
  <1> QED
    BY <1>1, <1>2, <1>3, <1>4, <1>5, <1>6, <1>7

\* A failed socket keeps it.
LEMMA SocketFailsKeeps ==
    ASSUME EndpointInv, SocketFails
    PROVE  EndpointInv'
  <1>1. TypeOK'
    BY DEF Stages, Kinds, SocketFails, Go
  <1>2. HandedOver'
    BY DEF HandedOver, Detached, DialsFirst, OpenedByPeer, Given, OneOwner, Key,
       SocketFails, Go
  <1>3. DriverAwake'
    BY DEF DriverAwake, Passing, Timed, Fired, InTable, SocketFails, Go
  <1>4. DialsTold'
    BY DEF DialsTold, Asleep, InTable, HandedOver, Detached, SocketFails, Go
  <1>5. LentTold'
    BY DEF LentTold, Asleep, Key, HandedOver, Detached, SocketFails, Go
  <1>6. AcceptsTold'
    BY DEF AcceptsTold, Asleep, SocketFails, Go
  <1>7. DialsFirst' /\ OpenedByPeer' /\ Given' /\ OneOwner'
    BY DEF DialsFirst, OpenedByPeer, Given, OneOwner, SocketFails, Go
  <1> QED
    BY <1>1, <1>2, <1>3, <1>4, <1>5, <1>6, <1>7

\* A dropped driver keeps it.
LEMMA DropDriverKeeps ==
    ASSUME EndpointInv, DropDriver
    PROVE  EndpointInv'
  <1>1. TypeOK'
    BY DEF Stages, Kinds, DropDriver, Go
  <1>2. HandedOver'
    BY DEF HandedOver, Detached, DialsFirst, OpenedByPeer, Given, OneOwner, Key,
       DropDriver, Go
  <1>3. DriverAwake'
    BY DEF DriverAwake, Passing, Timed, Fired, InTable, DropDriver, Go
  <1>4. DialsTold'
    BY DEF DialsTold, Asleep, InTable, HandedOver, Detached, DropDriver, Go
  <1>5. LentTold'
    BY DEF LentTold, Asleep, Key, HandedOver, Detached, DropDriver, Go
  <1>6. AcceptsTold'
    BY DEF AcceptsTold, Asleep, DropDriver, Go
  <1>7. DialsFirst' /\ OpenedByPeer' /\ Given' /\ OneOwner'
    BY DEF DialsFirst, OpenedByPeer, Given, OneOwner, DropDriver, Go
  <1> QED
    BY <1>1, <1>2, <1>3, <1>4, <1>5, <1>6, <1>7

\* fail_all keeps it: whoever waits for a connection of the table is woken.
LEMMA FailAllKeeps ==
    ASSUME EndpointInv, FailAll
    PROVE  EndpointInv'
  <1>1. TypeOK'
    BY DEF Stages, Kinds, FailAll, Go, Fail, InTable
  <1>2. HandedOver'
    BY DEF HandedOver, Detached, DialsFirst, OpenedByPeer, Given, OneOwner, Key,
       FailAll, Go, Fail, InTable
  <1>3. DriverAwake'
    BY DEF DriverAwake, Passing, Timed, Fired, InTable, FailAll, Go, Fail
  <1>4. DialsTold'
    BY DEF DialsTold, Asleep, InTable, HandedOver, Detached, FailAll, Go, Fail
  <1>5. LentTold'
    BY DEF LentTold, Asleep, Key, HandedOver, Detached, FailAll, Go, Fail, InTable
  <1>6. AcceptsTold'
    BY DEF AcceptsTold, Asleep, FailAll, Go, Fail, InTable
  <1>7. DialsFirst' /\ OpenedByPeer' /\ Given' /\ OneOwner'
    BY DEF DialsFirst, OpenedByPeer, Given, OneOwner, FailAll, Go, Fail, InTable
  <1> QED
    BY <1>1, <1>2, <1>3, <1>4, <1>5, <1>6, <1>7

\* The dials that nobody picked up are failed, which keeps it.
LEMMA FailDialsKeeps ==
    ASSUME EndpointInv, FailDials
    PROVE  EndpointInv'
  <1>1. TypeOK'
    BY DEF Stages, Kinds, FailDials, Go, Fail
  <1>2. HandedOver'
    BY DEF HandedOver, Detached, DialsFirst, OpenedByPeer, Given, OneOwner, Key,
       FailDials, Go, Fail
  <1>3. DialsFirst'
    BY DEF DialsFirst, HandedOver, Detached, OpenedByPeer, FailDials, Go, Fail
  <1>4. DriverAwake'
    BY DEF DriverAwake, Passing, Timed, Fired, InTable, FailDials, Go, Fail
  <1>5. DialsTold'
    BY DEF DialsTold, Asleep, InTable, HandedOver, Detached, FailDials, Go, Fail
  <1>6. LentTold'
    BY DEF LentTold, Asleep, Key, HandedOver, Detached, FailDials, Go, Fail
  <1>7. AcceptsTold'
    BY DEF AcceptsTold, Asleep, FailDials, Go, Fail
  <1>8. OpenedByPeer' /\ Given' /\ OneOwner'
    BY DEF OpenedByPeer, Given, OneOwner, FailDials, Go, Fail
  <1> QED
    BY <1>1, <1>2, <1>3, <1>4, <1>5, <1>6, <1>7, <1>8

\* mark_gone keeps it: whoever is in the endpoint's list is woken.
LEMMA MarkGoneKeeps ==
    ASSUME EndpointInv, MarkGone
    PROVE  EndpointInv'
  <1>1. TypeOK'
    BY DEF Stages, Kinds, MarkGone, Go, RingEndpoint
  <1>2. HandedOver'
    BY DEF HandedOver, Detached, DialsFirst, OpenedByPeer, Given, OneOwner, Key,
       MarkGone, Go, RingEndpoint
  <1>3. DriverAwake'
    BY DEF DriverAwake, Passing, Timed, Fired, InTable, MarkGone, Go, RingEndpoint
  <1>4. DialsTold'
    BY DEF DialsTold, Asleep, InTable, HandedOver, Detached, MarkGone, Go,
       RingEndpoint
  <1>5. LentTold'
    BY DEF LentTold, Asleep, Key, HandedOver, Detached, MarkGone, Go, RingEndpoint
  <1>6. AcceptsTold'
    BY DEF AcceptsTold, Asleep, MarkGone, Go, RingEndpoint
  <1>7. DialsFirst' /\ OpenedByPeer' /\ Given' /\ OneOwner'
    BY DEF DialsFirst, OpenedByPeer, Given, OneOwner, MarkGone, Go, RingEndpoint
  <1> QED
    BY <1>1, <1>2, <1>3, <1>4, <1>5, <1>6, <1>7

\* A deadline that passes keeps it: the sleep that is registered wakes the driver.
LEMMA TickKeeps ==
    ASSUME NEW c \in Conns, EndpointInv, Tick(c)
    PROVE  EndpointInv'
  <1>1. TypeOK'
    BY DEF Stages, Kinds, Tick, Timed, InTable
  <1>2. DriverAwake'
    BY DEF DriverAwake, Passing, Timed, Fired, InTable, Tick
  <1>3. HandedOver' /\ DialsFirst' /\ OpenedByPeer' /\ Given' /\ OneOwner' /\
         DialsTold' /\ LentTold' /\ AcceptsTold'
    BY DEF HandedOver, Detached, DialsFirst, OpenedByPeer, Given, OneOwner, DialsTold,
       Asleep, InTable, LentTold, Key, AcceptsTold, Tick, Timed
  <1> QED
    BY <1>1, <1>2, <1>3

\* A datagram that arrives keeps it.
LEMMA SendKeeps ==
    ASSUME NEW c \in Conns, NEW k \in Kinds, EndpointInv, Send(c, k)
    PROVE  EndpointInv'
  <1>1. TypeOK'
    BY DEF Stages, Kinds, Send
  <1>2. OpenedByPeer'
    BY DEF OpenedByPeer, Send
  <1>3. DriverAwake'
    BY DEF DriverAwake, Passing, Timed, Fired, InTable, Send
  <1>4. HandedOver' /\ DialsFirst' /\ Given' /\ OneOwner' /\ DialsTold' /\ LentTold'
         /\ AcceptsTold'
    BY DEF HandedOver, Detached, DialsFirst, Given, OneOwner, DialsTold, Asleep,
       InTable, LentTold, Key, AcceptsTold, Send
  <1> QED
    BY <1>1, <1>2, <1>3, <1>4

\* A socket that can write again keeps it.
LEMMA WritableKeeps ==
    ASSUME EndpointInv, Writable
    PROVE  EndpointInv'
  <1>1. TypeOK'
    BY DEF Stages, Kinds, Writable
  <1>2. DriverAwake'
    BY DEF DriverAwake, Passing, Timed, Fired, InTable, Writable
  <1>3. HandedOver' /\ DialsFirst' /\ OpenedByPeer' /\ Given' /\ OneOwner' /\
         DialsTold' /\ LentTold' /\ AcceptsTold'
    BY DEF HandedOver, Detached, DialsFirst, OpenedByPeer, Given, OneOwner, DialsTold,
       Asleep, InTable, LentTold, Key, AcceptsTold, Writable
  <1> QED
    BY <1>1, <1>2, <1>3

\* So does a step that changes nothing.
LEMMA StutterKeeps ==
    ASSUME EndpointInv, UNCHANGED vars
    PROVE  EndpointInv'
  <1>1. TypeOK'
    BY DEF vars
  <1>2. Owned'
    BY DEF vars, HandedOver, Detached, DialsFirst, OpenedByPeer, Given, OneOwner
  <1>3. DriverAwake'
    BY DEF vars, DriverAwake, Timed, Fired, InTable
  <1>4. DialsTold' /\ LentTold' /\ AcceptsTold'
    BY DEF vars, DialsTold, LentTold, AcceptsTold, Asleep, InTable, Key
  <1> QED
    BY <1>1, <1>2, <1>3, <1>4

HIDE EndpointAssumption DEF EndpointInv, Owned, TypeOK, Conns, Tasks, handleVars, sharedVars,
    endpointVars, queueVars, tableVars, netVars, passVars, wakeVars, history

\* Every step of the system keeps the invariant.
LEMMA EndpointStep == EndpointInv /\ [Next]_vars => EndpointInv'
  <1> SUFFICES ASSUME EndpointInv, [Next]_vars PROVE EndpointInv'
    OBVIOUS
  <1>1. CASE DriverStep
    BY <1>1, PollStartKeeps, DrainDialsKeeps, ReceiveKeeps, HandOverKeeps,
       RingQueueKeeps, ReadDoneKeeps, NoticeKeeps, ServiceKeeps, FlushKeeps, EvictKeeps,
       RearmKeeps, FailAllKeeps, FailDialsKeeps, MarkGoneKeeps DEF DriverStep
  <1>2. CASE \E t \in Tasks : TaskStep(t)
    BY <1>2, PushDialKeeps, LookKeeps, RegisterDialKeeps, RepollKeeps, TakeLentKeeps,
       CheckEndedKeeps, RegisterLentKeeps, TakeAcceptedKeeps, CheckGoneKeeps,
       RegisterAcceptKeeps DEF TaskStep
  <1>3. CASE \E t \in Tasks : CallerStep(t)
    BY <1>3, ConnectKeeps, AcceptKeeps, CloseManagedKeeps, SendCloseKeeps, ReleaseKeeps,
       DropManagedKeeps, GiveUpKeeps DEF CallerStep
  <1>4. CASE \E c \in Conns : Tick(c) \/ \E k \in Kinds : Send(c, k)
    BY <1>4, TickKeeps, SendKeeps
  <1>5. CASE SocketFails \/ DropDriver \/ Writable \/ Rest
    BY <1>5, SocketFailsKeeps, DropDriverKeeps, WritableKeeps, StutterKeeps DEF Rest
  <1>6. CASE UNCHANGED vars
    BY <1>6, StutterKeeps
  <1> QED
    BY <1>1, <1>2, <1>3, <1>4, <1>5, <1>6 DEF Next

\* Where the datagrams are does not change, and who is managed only shrinks.
LEMMA KeptUnmoved ==
    ASSUME KeptUntilTaken, UNCHANGED <<pending, outbound, outbox, owed>>,
           toAcceptor \subseteq toAcceptor'
    PROVE  KeptUntilTaken'
  BY DEF KeptUntilTaken, Kept, Managed

\* A datagram for nobody is answered through the outbox, or changes nothing kept.
LEMMA ReceiveKept ==
    ASSUME EndpointInv, KeptUntilTaken, Receive
    PROVE  KeptUntilTaken'
  <1>1. PICK d \in net :
            \/ /\ (d[2] = "hello" /\ Begin(d[1])) \/ Feed(d[1], d[2]) \/ Forward(d[1])
               /\ UNCHANGED <<outbox, owed>>
            \/ Unmatched(d[1], d[2])
    BY DEF Receive
  <1>2. UNCHANGED <<pending, outbound>>
    BY DEF Receive
  <1>3. toAcceptor \subseteq toAcceptor'
    BY <1>1 DEF Begin, Feed, Forward, Unmatched
  <1>4. CASE UNCHANGED <<outbox, owed>>
    BY <1>2, <1>3, <1>4, KeptUnmoved
  <1>5. CASE /\ outbox' = [outbox EXCEPT ![d[1]] = @ + 1]
             /\ owed' = [owed EXCEPT ![d[1]] = @ + 1]
    <2>1. \A c \in Conns : outbox'[c] - outbox[c] = owed'[c] - owed[c]
      BY <1>5 DEF EndpointInv, TypeOK
    <2>2. \A c \in Conns : Kept(c)' - Kept(c) = owed'[c] - owed[c]
      BY <1>2, <1>5, <2>1 DEF Kept, Count, EndpointInv, TypeOK
    <2> QED
      BY <1>2, <1>3, <1>5, <2>2 DEF KeptUntilTaken, Managed, Kept, Count, EndpointInv, TypeOK,
         Conns
  <1> QED
    BY <1>1, <1>4, <1>5 DEF Unmatched

\* A close that a detached owner queues is kept in the slot it is queued in.
LEMMA SendCloseKept ==
    ASSUME EndpointInv, KeptUntilTaken, NEW t \in Tasks, SendClose(t)
    PROVE  KeptUntilTaken'
  <1>1. \A c \in Managed : owed'[c] = owed[c] /\ (c \in outbound' <=> c \in outbound)
    BY DEF SendClose, EndpointInv, TypeOK, Managed, Conns
  <1>2. UNCHANGED <<pending, outbox, toAcceptor>>
    BY DEF SendClose, tableVars
  <1> QED
    BY <1>1, <1>2 DEF KeptUntilTaken, Kept, Managed, Count

\* A close goes to the slot or, with the slot taken, to the outbox.
LEMMA ServiceKept ==
    ASSUME EndpointInv, KeptUntilTaken, Service
    PROVE  KeptUntilTaken'
  <1>1. PICK written \in UpTo(Asked) :
            /\ pending' = pending \cup {c \in Conns : written[c] > 0}
            /\ outbox' = [c \in Conns |->
                  outbox[c] + written[c] - Count(c \notin pending /\ written[c] > 0)]
            /\ owed' = [c \in Conns |-> owed[c] + written[c]]
    BY DEF Service
  <1>2. Asked \in [Conns -> Nat]
    BY DEF Asked, EndpointInv, TypeOK
  <1>3. written \in [Conns -> Nat]
    BY <1>2, UpToBounded
  <1>4. UNCHANGED <<outbound, toAcceptor>>
    BY DEF Service
  <1> SUFFICES ASSUME NEW c \in Managed PROVE owed'[c] = Kept(c)'
    BY <1>4 DEF KeptUntilTaken, Managed
  <1>5. c \in Conns /\ owed[c] = Kept(c)
    BY DEF KeptUntilTaken, Managed, Conns
  <1> QED
    BY <1>1, <1>3, <1>4, <1>5 DEF Kept, Count, EndpointInv, TypeOK

\* What the socket takes is kept no longer, and what it refuses is.
LEMMA FlushKept ==
    ASSUME EndpointInv, KeptUntilTaken, Flush
    PROVE  KeptUntilTaken'
  <1>1. PICK at \in [Conns -> Points], left \in UpTo(outbox) :
            /\ \A c \in Conns : CanRefuse(c, at[c])
            /\ outbox' = left
            /\ pending' = {c \in Conns : at[c] # "none"}
            /\ outbound' = {c \in outbound : at[c] = "pending"}
            /\ owed' = [c \in Conns |->
                          owed[c] - (outbox[c] - left[c])
                                  - Count(c \in pending /\ at[c] # "pending")
                                  - Count(c \in outbound /\ at[c] \in {"fresh", "none"})
                                  + Count(at[c] = "fresh")]
    BY DEF Flush
  <1>2. left \in [Conns -> Nat]
    BY <1>1, UpToBounded DEF EndpointInv, TypeOK
  <1>3. UNCHANGED toAcceptor
    BY DEF Flush
  <1> SUFFICES ASSUME NEW c \in Managed PROVE owed'[c] = Kept(c)'
    BY <1>3 DEF KeptUntilTaken, Managed
  <1>4. c \in Conns /\ owed[c] = Kept(c)
    BY DEF KeptUntilTaken, Managed, Conns
  <1>5. at[c] \in Points /\ CanRefuse(c, at[c])
    BY <1>1, <1>4
  <1>6. outbox[c] \in Nat /\ left[c] \in Nat /\ owed[c] \in Int
    BY <1>2, <1>4 DEF EndpointInv, TypeOK
  <1>7. CASE at[c] = "pending"
    <2>1. c \in pending
      BY <1>5, <1>7 DEF CanRefuse
    <2> QED
      BY <1>1, <1>4, <1>6, <1>7, <2>1 DEF Kept, Count
  <1>8. CASE at[c] = "queued"
    <2>1. c \in outbound
      BY <1>5, <1>8 DEF CanRefuse
    <2> QED
      BY <1>1, <1>4, <1>6, <1>8, <2>1 DEF Kept, Count
  <1>9. CASE at[c] \in {"fresh", "none"}
    BY <1>1, <1>4, <1>6, <1>9 DEF Kept, Count
  <1> QED
    BY <1>5, <1>7, <1>8, <1>9 DEF Points

\* Only a detached connection is evicted with a datagram pending.
LEMMA EvictKept ==
    ASSUME EndpointInv, KeptUntilTaken, Evict
    PROVE  KeptUntilTaken'
  <1>1. UNCHANGED <<outbound, outbox, owed, toAcceptor>> /\ pending' = pending \ Evictable
    BY DEF Evict, sharedVars, history
  <1>2. ASSUME NEW c \in Managed, c \in Evictable PROVE c \notin pending
    <2>1. c \in Conns /\ c \notin Detached
      BY EndpointAssumption DEF Managed, Detached, Conns, EndpointInv, TypeOK
    <2>2. table[c] # "lent"
      BY <2>1 DEF EndpointInv, Owned, HandedOver
    <2> QED
      BY <1>2, <2>2 DEF Evictable, InTable
  <1> QED
    BY <1>1, <1>2 DEF KeptUntilTaken, Kept, Managed

\* Every step keeps what is kept.
LEMMA KeptStep == EndpointInv /\ KeptUntilTaken /\ [Next]_vars => KeptUntilTaken'
  <1> SUFFICES ASSUME EndpointInv, KeptUntilTaken, [Next]_vars PROVE KeptUntilTaken'
    OBVIOUS
  <1> USE DEF handleVars, sharedVars, endpointVars, queueVars, tableVars, netVars, passVars,
          wakeVars, history
  <1>1. CASE DriverStep
    <2>1. CASE PollStart \/ DrainDials \/ HandOver \/ RingQueue \/ ReadDone \/ Notice
      BY <2>1, KeptUnmoved DEF PollStart, DrainDials, HandOver, RingQueue, ReadDone, Notice
    <2>2. CASE Rearm \/ FailAll \/ FailDials \/ MarkGone
      BY <2>2, KeptUnmoved DEF Rearm, FailAll, FailDials, MarkGone
    <2> QED
      BY <1>1, <2>1, <2>2, ReceiveKept, ServiceKept, FlushKept, EvictKept DEF DriverStep
  <1>2. CASE \E t \in Tasks : TaskStep(t)
    BY <1>2, KeptUnmoved DEF TaskStep, PushDial, Look, RegisterDial, Repoll, TakeLent,
       CheckEnded, RegisterLent, TakeAccepted, CheckGone, RegisterAccept
  <1>3. CASE \E t \in Tasks : CallerStep(t)
    BY <1>3, KeptUnmoved, SendCloseKept DEF CallerStep, Connect, Accept, CloseManaged,
       DropManaged, Release, GiveUp
  <1>4. CASE \E c \in Conns : Tick(c) \/ \E k \in Kinds : Send(c, k)
    BY <1>4, KeptUnmoved DEF Tick, Send
  <1>5. CASE SocketFails \/ DropDriver \/ Writable \/ Rest \/ UNCHANGED vars
    BY <1>5, KeptUnmoved DEF SocketFails, DropDriver, Writable, Rest, vars
  <1> QED
    BY <1>1, <1>2, <1>3, <1>4, <1>5 DEF Next

-----------------------------------------------------------------------------
(* What holds of every behaviour                                           *)

\* The invariant holds throughout.
THEOREM EndpointInvariant == Spec => []EndpointInv
  <1>1. Init => EndpointInv
    BY InitEndpoint
  <1>2. EndpointInv /\ [Next]_vars => EndpointInv'
    BY EndpointStep
  <1> QED
    BY <1>1, <1>2, PTL DEF Spec

\* Every variable of the endpoint keeps its type.
THEOREM EndpointTypeCorrect == Spec => []TypeOK
  <1>1. EndpointInv => TypeOK
    BY DEF EndpointInv
  <1> QED
    BY <1>1, EndpointInvariant, PTL

\* A connection has one owner, however many tasks dial, accept and take: the key
\* of the detach queue and the mark begin() makes are enough.
THEOREM ConnectionsHaveOneOwner == Spec => []OneOwner
  <1>1. EndpointInv => OneOwner
    BY DEF EndpointInv, Owned
  <1> QED
    BY <1>1, EndpointInvariant, PTL

\* No datagram kept for a managed connection is lost or sent twice.
THEOREM ManagedDatagramsKept == Spec => []KeptUntilTaken
  <1>1. Init => KeptUntilTaken
    BY DEF Init, KeptUntilTaken, Kept, Count, Managed, Conns
  <1>2. EndpointInv /\ KeptUntilTaken /\ [Next]_vars => KeptUntilTaken'
    BY KeptStep
  <1> QED
    BY <1>1, <1>2, EndpointInvariant, PTL DEF Spec

\* Neither a caller nor the driver sleeps on what is there for it: the order of
\* registering and looking on one side, of changing and waking on the other.
THEOREM EndpointNobodySleeps == Spec => []NobodySleepsOnIt
  <1>1. EndpointInv => NothingWaitsForSleeper
    BY DEF EndpointInv, DriverAwake, NothingWaitsForSleeper, Passing, Fired, TypeOK,
       Closers, Asked, InTable
  <1>2. EndpointInv => SleepersAreTold
    <2> SUFFICES ASSUME EndpointInv, NEW t \in Tasks, Asleep(t)
                 PROVE  /\ t \in Dialled => /\ t \notin established \cup closed
                                            /\ drv = "gone" => t \in late
                        /\ t \in Acceptors =>
                              /\ accepted \cap established # {} => drv \in Ringing
                              /\ gone => t \in late
                        /\ t \in Lent \cup Takers /\ (Key(t) # {} \/ t \in closed \/ gone) =>
                              t \in late \/ drv = "ring"
      BY DEF SleepersAreTold
    <2> USE EndpointAssumption DEF EndpointInv, Conns, Tasks
    <2>1. CASE t \in Dialled
      BY <2>1 DEF DialsTold, Asleep, InTable
    <2>2. CASE t \in Lent \cup Takers
      BY <2>2 DEF LentTold
    <2>3. CASE t \in Acceptors
      BY <2>3 DEF AcceptsTold, Asleep, TypeOK, Stages, Ringing
    <2> QED
      BY <2>1, <2>2, <2>3
  <1> QED
    BY <1>1, <1>2, EndpointInvariant, PTL DEF NobodySleepsOnIt
=============================================================================
