----------------------------- MODULE ClientPool -----------------------------
(***************************************************************************)
(* The connection pool of ngnet-util (crates/ngnet-util/src/pool.rs) and   *)
(* the request path that uses it (client.rs, connect.rs).                  *)
(*                                                                         *)
(* One slot per origin holds at most one connection.  A request that finds *)
(* the slot empty claims it and dials; requests that find it claimed park  *)
(* on the slot's generation number and are woken when the claim settles.   *)
(* Shutdown sets a flag, waits for the requests that are inside `acquire`, *)
(* winds every slot down, awaits every driver task, publishes completion.  *)
(*                                                                         *)
(* Every critical section of the pool lock and of a slot lock is one       *)
(* action, and so is every await that resolves.  A request future may be   *)
(* dropped at any await (the Cancel actions).  A request is one call of    *)
(* `Client::request`, so each member of Requests is used once and the      *)
(* generation numbers need no bound of their own.                          *)
(***************************************************************************)
EXTENDS Integers, FiniteSets

CONSTANTS
    Requests,       \* calls of Client::request
    Origins,        \* the origins they go to
    Conns,          \* connections that dials can produce
    Callers,        \* calls of Client::shutdown
    OriginOf,       \* the origin of each request
    NoConn,         \* no connection
    NoRequest       \* no request

ASSUME PoolAssumption ==
    /\ IsFiniteSet(Requests)
    /\ OriginOf \in [Requests -> Origins]
    /\ NoConn \notin Conns
    /\ NoRequest \notin Requests

VARIABLES
    pc,         \* where each request is
    hold,       \* the SendRequest handle each request holds
    stream,     \* the connection each request has an open stream on
    waited,     \* acquire's local `waited`
    seen,       \* the generation each waiter captured
    outcome,    \* what the caller of each request is told
    retriable,  \* what ngnet-h2 said of a failed exchange, until classified
    dial,       \* Slot::state, the variant
    ready,      \* Slot::state, the handle of Dial::Ready
    failedBy,   \* Slot::state, the request whose error Dial::Failed carries
    gen,        \* Slot::settled
    mapped,     \* State::connections, the origins that have a slot
    drivers,    \* State::drivers
    closed,     \* State::closed and Pool::closed
    acquires,   \* State::acquires and its watch
    finished,   \* Pool::finished
    drain,      \* where the drain task is
    toWind,     \* slots the drain has taken and not yet wound down
    toJoin,     \* drivers the drain has taken and not yet joined
    conn,       \* each connection: unused, open (driver running), ended
    refusing,   \* Shared::refusing of each connection
    caller      \* each call of shutdown

reqVars   == <<pc, hold, stream, waited, seen, outcome, retriable>>
slotVars  == <<dial, ready, failedBy, gen>>
stateVars == <<mapped, drivers, closed, acquires>>
drainVars == <<finished, drain, toWind, toJoin>>
connVars  == <<conn, refusing>>
vars == <<pc, hold, stream, waited, seen, outcome, retriable,
          dial, ready, failedBy, gen, mapped, drivers, closed, acquires,
          finished, drain, toWind, toJoin, conn, refusing, caller>>

-----------------------------------------------------------------------------
(* Where a request can be.                                                 *)

\* Dialling: the slot is Dialing on this request's behalf.
DialerPcs == {"dialing", "file", "publish", "winddown", "unpublish", "unwind"}
\* Inside acquire: an AcquireGuard is alive.
AcquirePcs == DialerPcs \union {"slot", "decide", "waiting", "release"}
\* After acquire: sending, waiting for the head, or failed and unclassified.
ExchangePcs == {"send", "head", "classify"}
Pcs == AcquirePcs \union ExchangePcs \union {"new", "register", "body", "done"}

Outcomes == {"none", "Ok", "Uri", "Connect", "Closed", "Retriable", "Exchange",
             "Cancelled"}

Registered == {r \in Requests : pc[r] \in AcquirePcs}
Dialers(o) == {r \in Requests : OriginOf[r] = o /\ pc[r] \in DialerPcs}

RequestTypes ==
    /\ pc \in [Requests -> Pcs]
    /\ hold \in [Requests -> Conns \union {NoConn}]
    /\ stream \in [Requests -> Conns \union {NoConn}]
    /\ waited \in [Requests -> BOOLEAN]
    /\ seen \in [Requests -> Nat]
    /\ outcome \in [Requests -> Outcomes]
    /\ retriable \in [Requests -> BOOLEAN]

SlotTypes ==
    /\ dial \in [Origins -> {"Idle", "Dialing", "Ready", "Failed"}]
    /\ ready \in [Origins -> Conns \union {NoConn}]
    /\ failedBy \in [Origins -> Requests \union {NoRequest}]
    /\ gen \in [Origins -> Nat]

StateTypes ==
    /\ mapped \subseteq Origins
    /\ drivers \subseteq Conns
    /\ closed \in BOOLEAN
    /\ finished \in BOOLEAN
    /\ drain \in {"none", "acquires", "take", "winding", "done"}
    /\ toWind \subseteq Origins
    /\ toJoin \subseteq Conns
    /\ conn \in [Conns -> {"unused", "open", "ended"}]
    /\ refusing \in [Conns -> BOOLEAN]
    /\ caller \in [Callers -> {"idle", "waiting", "returned", "gaveup"}]

\* The shape of the state; `acquires` never goes negative, which rests on
\* every AcquireGuard being dropped exactly once.
TypeOK == RequestTypes /\ SlotTypes /\ StateTypes /\ acquires \in Nat

Init ==
    /\ pc = [r \in Requests |-> "new"]
    /\ hold = [r \in Requests |-> NoConn]
    /\ stream = [r \in Requests |-> NoConn]
    /\ waited = [r \in Requests |-> FALSE]
    /\ seen = [r \in Requests |-> 0]
    /\ outcome = [r \in Requests |-> "none"]
    /\ retriable = [r \in Requests |-> FALSE]
    /\ dial = [o \in Origins |-> "Idle"]
    /\ ready = [o \in Origins |-> NoConn]
    /\ failedBy = [o \in Origins |-> NoRequest]
    /\ gen = [o \in Origins |-> 0]
    /\ mapped = {}
    /\ drivers = {}
    /\ closed = FALSE
    /\ acquires = 0
    /\ finished = FALSE
    /\ drain = "none"
    /\ toWind = {}
    /\ toJoin = {}
    /\ conn = [c \in Conns |-> "unused"]
    /\ refusing = [c \in Conns |-> FALSE]
    /\ caller = [k \in Callers |-> "idle"]

Goto(r, where) == pc' = [pc EXCEPT ![r] = where]

\* Leave for `where` with `what` as the caller's answer.
Answer(r, where, what) ==
    /\ Goto(r, where)
    /\ outcome' = [outcome EXCEPT ![r] = what]

-----------------------------------------------------------------------------
(* Slot::settle, Slot::state and handles                                   *)

\* Publishes a new state of a slot and rings the bell, under the slot lock.
Settle(o, state, c, r) ==
    /\ dial' = [dial EXCEPT ![o] = state]
    /\ ready' = [ready EXCEPT ![o] = c]
    /\ failedBy' = [failedBy EXCEPT ![o] = r]
    /\ gen' = [gen EXCEPT ![o] = @ + 1]

\* Moves a slot to Dialing under the slot lock; no bell.
ClaimSlot(o) ==
    /\ dial' = [dial EXCEPT ![o] = "Dialing"]
    /\ ready' = [ready EXCEPT ![o] = NoConn]
    /\ failedBy' = [failedBy EXCEPT ![o] = NoRequest]
    /\ UNCHANGED gen

\* SendRequest::is_closed or is_refusing of the handle in a Ready slot.
Ineligible(c) == conn[c] = "ended" \/ refusing[c]

\* The strong count of a connection's HandleToken is zero.
NoHandles(c) ==
    /\ \A o \in Origins : ready[o] # c
    /\ \A r \in Requests : hold[r] # c

\* The connection's stream registry is empty.
NoStreams(c) == \A r \in Requests : stream[r] # c

-----------------------------------------------------------------------------
(* Client::request up to acquire                                           *)

\* The lock-free closed check, then Origin::from_uri, which may reject.
Offer(r) ==
    /\ pc[r] = "new"
    /\ \/ closed /\ Answer(r, "done", "Closed")
       \/ ~closed /\ Answer(r, "done", "Uri")
       \/ ~closed /\ Goto(r, "register") /\ UNCHANGED outcome
    /\ UNCHANGED <<hold, stream, waited, seen, retriable, slotVars,
                   stateVars, drainVars, connVars, caller>>

\* AcquireGuard::register, under the pool lock.
Register(r) ==
    /\ pc[r] = "register"
    /\ \/ closed /\ Answer(r, "done", "Closed") /\ UNCHANGED acquires
       \/ /\ ~closed
          /\ acquires' = acquires + 1
          /\ Goto(r, "slot")
          /\ UNCHANGED outcome
    /\ UNCHANGED <<hold, stream, waited, seen, retriable, slotVars,
                   mapped, drivers, closed, drainVars, connVars, caller>>

\* Pool::slot_for, under the pool lock.
SlotFor(r) ==
    /\ pc[r] = "slot"
    /\ \/ closed /\ Answer(r, "release", "Closed") /\ UNCHANGED mapped
       \/ /\ ~closed
          /\ mapped' = mapped \union {OriginOf[r]}
          /\ Goto(r, "decide")
          /\ UNCHANGED outcome
    /\ UNCHANGED <<hold, stream, waited, seen, retriable, slotVars,
                   drivers, closed, acquires, drainVars, connVars, caller>>

-----------------------------------------------------------------------------
(* One pass of acquire's loop, under the slot lock                         *)

\* A usable connection: its handle is cloned out.
TakeReady(r) ==
    LET o == OriginOf[r] IN
    /\ pc[r] = "decide"
    /\ dial[o] = "Ready" /\ ~Ineligible(ready[o])
    /\ hold' = [hold EXCEPT ![r] = ready[o]]
    /\ Goto(r, "release")
    /\ UNCHANGED <<stream, waited, seen, outcome, retriable, slotVars,
                   stateVars, drainVars, connVars, caller>>

\* A dead or refusing connection, nothing, or a stale failure: claim and dial.
Claim(r) ==
    LET o == OriginOf[r] IN
    /\ pc[r] = "decide"
    /\ \/ dial[o] = "Ready" /\ Ineligible(ready[o])
       \/ dial[o] = "Idle"
       \/ dial[o] = "Failed" /\ ~waited[r]
    /\ ClaimSlot(o)
    /\ Goto(r, "dialing")
    /\ UNCHANGED <<hold, stream, waited, seen, outcome, retriable,
                   stateVars, drainVars, connVars, caller>>

\* The failure of the dial this request waited for becomes its answer.
Inherit(r) ==
    /\ pc[r] = "decide"
    /\ dial[OriginOf[r]] = "Failed" /\ waited[r]
    /\ Answer(r, "release", "Connect")
    /\ UNCHANGED <<hold, stream, waited, seen, retriable, slotVars,
                   stateVars, drainVars, connVars, caller>>

\* Somebody is dialling: capture the generation under the lock and park.
Park(r) ==
    LET o == OriginOf[r] IN
    /\ pc[r] = "decide"
    /\ dial[o] = "Dialing"
    /\ seen' = [seen EXCEPT ![r] = gen[o]]
    /\ waited' = [waited EXCEPT ![r] = TRUE]
    /\ Goto(r, "waiting")
    /\ UNCHANGED <<hold, stream, outcome, retriable, slotVars, stateVars,
                   drainVars, connVars, caller>>

\* wait_for sees a generation other than the captured one.
Wake(r) ==
    /\ pc[r] = "waiting"
    /\ gen[OriginOf[r]] # seen[r]
    /\ Goto(r, "decide")
    /\ seen' = [seen EXCEPT ![r] = 0]
    /\ UNCHANGED <<hold, stream, waited, outcome, retriable, slotVars,
                   stateVars, drainVars, connVars, caller>>

-----------------------------------------------------------------------------
(* Pool::dial_into                                                         *)

\* dial() connects and spawns the driver.
DialOk(r) ==
    /\ pc[r] = "dialing"
    /\ \E c \in Conns :
         /\ conn[c] = "unused"
         /\ conn' = [conn EXCEPT ![c] = "open"]
         /\ hold' = [hold EXCEPT ![r] = c]
    /\ Goto(r, "file")
    /\ UNCHANGED <<stream, waited, seen, outcome, retriable, slotVars,
                   stateVars, drainVars, refusing, caller>>

\* dial() fails: the failure is published for the waiters and returned.
DialErr(r) ==
    /\ pc[r] = "dialing"
    /\ Settle(OriginOf[r], "Failed", NoConn, r)
    /\ Answer(r, "release", "Connect")
    /\ UNCHANGED <<hold, stream, waited, seen, retriable, stateVars,
                   drainVars, connVars, caller>>

\* Mutant: a driver is filed only while the pool is open.
File_OnlyWhenOpen(r) ==
    /\ pc[r] = "file"
    /\ drivers' = {d \in drivers : conn[d] # "ended"}
                    \union (IF closed THEN {} ELSE {hold[r]})
    /\ Goto(r, IF closed THEN "winddown" ELSE "publish")
    /\ UNCHANGED <<hold, stream, waited, seen, outcome, retriable,
                   slotVars, mapped, closed, acquires, drainVars, connVars,
                   caller>>

\* Under the pool lock: reap finished drivers, file this one, read `closed`.
File(r) ==
    /\ pc[r] = "file"
    /\ drivers' = {d \in drivers : conn[d] # "ended"} \union {hold[r]}
    /\ Goto(r, IF closed THEN "winddown" ELSE "publish")
    /\ UNCHANGED <<hold, stream, waited, seen, outcome, retriable,
                   slotVars, mapped, closed, acquires, drainVars, connVars,
                   caller>>

\* The pool was open when the driver was filed: publish the connection.
Publish(r) ==
    /\ pc[r] = "publish"
    /\ Settle(OriginOf[r], "Ready", hold[r], NoRequest)
    /\ Goto(r, "release")
    /\ UNCHANGED <<hold, stream, waited, seen, outcome, retriable,
                   stateVars, drainVars, connVars, caller>>

\* The pool was closed: SendRequest::shutdown, then the handle is dropped.
WindDown(r) ==
    /\ pc[r] = "winddown"
    /\ refusing' = [refusing EXCEPT ![hold[r]] = TRUE]
    /\ hold' = [hold EXCEPT ![r] = NoConn]
    /\ Goto(r, "unpublish")
    /\ UNCHANGED <<stream, waited, seen, outcome, retriable, slotVars,
                   stateVars, drainVars, conn, caller>>

\* ... and the slot goes back to Idle.
Unpublish(r) ==
    /\ pc[r] = "unpublish"
    /\ Settle(OriginOf[r], "Idle", NoConn, NoRequest)
    /\ Answer(r, "release", "Closed")
    /\ UNCHANGED <<hold, stream, waited, seen, retriable, stateVars,
                   drainVars, connVars, caller>>

\* AcquireGuard::drop, under the pool lock: acquire returns, or unwinds, and
\* its locals go with it.
Release(r) ==
    /\ pc[r] = "release"
    /\ acquires' = acquires - 1
    /\ Goto(r, IF outcome[r] = "none" THEN "send" ELSE "done")
    /\ waited' = [waited EXCEPT ![r] = FALSE]
    /\ UNCHANGED <<hold, stream, seen, outcome, retriable, slotVars, mapped,
                   drivers, closed, drainVars, connVars, caller>>

-----------------------------------------------------------------------------
(* The exchange                                                            *)

\* SendRequest::send_request: refused at once, or handed to the driver.
Send(r) ==
    LET c == hold[r] IN
    /\ pc[r] = "send"
    /\ \/ /\ conn[c] = "ended"
          /\ retriable' = [retriable EXCEPT ![r] = FALSE]
          /\ Goto(r, "classify")
          /\ UNCHANGED stream
       \/ /\ conn[c] # "ended" /\ refusing[c]
          /\ retriable' = [retriable EXCEPT ![r] = TRUE]
          /\ Goto(r, "classify")
          /\ UNCHANGED stream
       \/ /\ conn[c] # "ended" /\ ~refusing[c]
          /\ stream' = [stream EXCEPT ![r] = c]
          /\ Goto(r, "head")
          /\ UNCHANGED retriable
    /\ UNCHANGED <<hold, waited, seen, outcome, slotVars, stateVars,
                   drainVars, connVars, caller>>

\* The response head arrives; the request future ends and drops its handle.
Head(r) ==
    /\ pc[r] = "head" /\ conn[stream[r]] = "open"
    /\ Answer(r, "body", "Ok")
    /\ hold' = [hold EXCEPT ![r] = NoConn]
    /\ UNCHANGED <<stream, waited, seen, retriable, slotVars,
                   stateVars, drainVars, connVars, caller>>

\* The exchange fails: the peer reset or refused it, or the connection went.
ExchangeFails(r) ==
    /\ pc[r] = "head"
    /\ \E safe \in BOOLEAN :
         /\ safe => conn[stream[r]] = "open"
         /\ retriable' = [retriable EXCEPT ![r] = safe]
    /\ stream' = [stream EXCEPT ![r] = NoConn]
    /\ Goto(r, "classify")
    /\ UNCHANGED <<hold, waited, seen, outcome, slotVars, stateVars,
                   drainVars, connVars, caller>>

\* classify(), which reads `closed` after the failure is known.
Classify(r) ==
    /\ pc[r] = "classify"
    /\ Answer(r, "done", CASE retriable[r] /\ closed -> "Closed"
                           [] retriable[r] /\ ~closed -> "Retriable"
                           [] OTHER -> "Exchange")
    /\ hold' = [hold EXCEPT ![r] = NoConn]
    /\ retriable' = [retriable EXCEPT ![r] = FALSE]
    /\ UNCHANGED <<stream, waited, seen, slotVars, stateVars,
                   drainVars, connVars, caller>>

\* The stream closes: body read, body dropped, reset acknowledged, or lost.
StreamEnds(r) ==
    /\ pc[r] = "body"
    /\ stream' = [stream EXCEPT ![r] = NoConn]
    /\ Goto(r, "done")
    /\ UNCHANGED <<hold, waited, seen, outcome, retriable, slotVars,
                   stateVars, drainVars, connVars, caller>>

-----------------------------------------------------------------------------
(* The request future is dropped at an await                               *)

\* Parked behind a dial: only the AcquireGuard unwinds.
CancelWait(r) ==
    /\ pc[r] = "waiting"
    /\ Answer(r, "release", "Cancelled")
    /\ seen' = [seen EXCEPT ![r] = 0]
    /\ UNCHANGED <<hold, stream, waited, retriable, slotVars,
                   stateVars, drainVars, connVars, caller>>

\* Mutant: there is no DialGuard, so only the AcquireGuard unwinds.
CancelDial_NoGuard(r) ==
    /\ pc[r] = "dialing"
    /\ Answer(r, "release", "Cancelled")
    /\ UNCHANGED <<hold, stream, waited, seen, retriable, slotVars,
                   stateVars, drainVars, connVars, caller>>

\* Mid-dial: the DialGuard is about to unwind.
CancelDial(r) ==
    /\ pc[r] = "dialing"
    /\ Answer(r, "unwind", "Cancelled")
    /\ UNCHANGED <<hold, stream, waited, seen, retriable, slotVars,
                   stateVars, drainVars, connVars, caller>>

\* DialGuard::drop of a dial that never settled.
DropDial(r) ==
    /\ pc[r] = "unwind"
    /\ Settle(OriginOf[r], "Idle", NoConn, NoRequest)
    /\ Goto(r, "release")
    /\ UNCHANGED <<hold, stream, waited, seen, outcome, retriable,
                   stateVars, drainVars, connVars, caller>>

\* Waiting for the head: the handle goes, the stream stays until it is reset.
CancelExchange(r) ==
    /\ pc[r] = "head"
    /\ Answer(r, "body", "Cancelled")
    /\ hold' = [hold EXCEPT ![r] = NoConn]
    /\ UNCHANGED <<stream, waited, seen, retriable, slotVars,
                   stateVars, drainVars, connVars, caller>>

-----------------------------------------------------------------------------
(* Connections (the ngnet-h2 driver as the pool sees it)                   *)

\* The peer's GOAWAY: the driver marks the connection refusing.
PeerGoaway(c) ==
    /\ conn[c] = "open" /\ ~refusing[c]
    /\ refusing' = [refusing EXCEPT ![c] = TRUE]
    /\ UNCHANGED <<reqVars, slotVars, stateVars, drainVars, conn, caller>>

\* The transport fails or the peer closes it: the driver ends at once.
ConnLost(c) ==
    /\ conn[c] = "open"
    /\ conn' = [conn EXCEPT ![c] = "ended"]
    /\ UNCHANGED <<reqVars, slotVars, stateVars, drainVars, refusing, caller>>

\* Nothing left to do: no handle can ask for more and no stream is open.
DriverEnds(c) ==
    /\ conn[c] = "open" /\ NoHandles(c) /\ NoStreams(c)
    /\ conn' = [conn EXCEPT ![c] = "ended"]
    /\ UNCHANGED <<reqVars, slotVars, stateVars, drainVars, refusing, caller>>

-----------------------------------------------------------------------------
(* Pool::shutdown and Pool::drain                                          *)

\* Set the flag under the pool lock; the first caller spawns the drain.
Shutdown(k) ==
    /\ caller[k] = "idle"
    /\ closed' = TRUE
    /\ drain' = IF closed THEN drain ELSE "acquires"
    /\ caller' = [caller EXCEPT ![k] = "waiting"]
    /\ UNCHANGED <<reqVars, slotVars, mapped, drivers, acquires, finished,
                   toWind, toJoin, connVars>>

\* The completion is observed.
ShutdownReturns(k) ==
    /\ caller[k] = "waiting" /\ finished
    /\ caller' = [caller EXCEPT ![k] = "returned"]
    /\ UNCHANGED <<reqVars, slotVars, stateVars, drainVars, connVars>>

\* Mutant: the drain runs inside the shutdown future and dies with it.
GiveUp_InlineDrain(k) ==
    /\ caller[k] = "waiting"
    /\ caller' = [caller EXCEPT ![k] = "gaveup"]
    /\ drain' = IF finished THEN drain ELSE "none"
    /\ UNCHANGED <<reqVars, slotVars, stateVars, finished, toWind, toJoin,
                   connVars>>

\* The caller's own timeout drops the shutdown future.
GiveUp(k) ==
    /\ caller[k] = "waiting"
    /\ caller' = [caller EXCEPT ![k] = "gaveup"]
    /\ UNCHANGED <<reqVars, slotVars, stateVars, drainVars, connVars>>

\* wait_for(count == 0).
DrainWaits ==
    /\ drain = "acquires" /\ acquires = 0
    /\ drain' = "take"
    /\ UNCHANGED <<reqVars, slotVars, stateVars, finished, toWind, toJoin,
                   connVars, caller>>

\* Take the map and the drivers, under the pool lock.
DrainTake ==
    /\ drain = "take"
    /\ drain' = "winding"
    /\ toWind' = mapped /\ mapped' = {}
    /\ toJoin' = drivers /\ drivers' = {}
    /\ UNCHANGED <<reqVars, slotVars, closed, acquires, finished, connVars,
                   caller>>

\* Replace one slot's state by Idle and shut down the handle it held.
DrainSlot(o) ==
    /\ drain = "winding" /\ o \in toWind
    /\ toWind' = toWind \ {o}
    /\ dial' = [dial EXCEPT ![o] = "Idle"]
    /\ ready' = [ready EXCEPT ![o] = NoConn]
    /\ failedBy' = [failedBy EXCEPT ![o] = NoRequest]
    /\ refusing' = [c \in Conns |-> refusing[c] \/ c = ready[o]]
    /\ UNCHANGED <<reqVars, gen, stateVars, finished, drain, toJoin, conn,
                   caller>>

\* Join one driver that has ended.
DrainJoin(c) ==
    /\ drain = "winding" /\ toWind = {}
    /\ c \in toJoin /\ conn[c] = "ended"
    /\ toJoin' = toJoin \ {c}
    /\ UNCHANGED <<reqVars, slotVars, stateVars, finished, drain, toWind,
                   connVars, caller>>

\* Every slot wound down and every driver joined: publish completion.
DrainFinish ==
    /\ drain = "winding" /\ toWind = {} /\ toJoin = {}
    /\ drain' = "done"
    /\ finished' = TRUE
    /\ UNCHANGED <<reqVars, slotVars, stateVars, toWind, toJoin, connVars,
                   caller>>

-----------------------------------------------------------------------------
\* What a request's own task does next, cancellation apart.
RequestStep(r) ==
    \/ Register(r) \/ SlotFor(r)
    \/ TakeReady(r) \/ Claim(r) \/ Inherit(r) \/ Park(r) \/ Wake(r)
    \/ DialOk(r) \/ DialErr(r) \/ File(r) \/ Publish(r)
    \/ WindDown(r) \/ Unpublish(r) \/ Release(r)
    \/ Send(r) \/ Head(r) \/ ExchangeFails(r) \/ Classify(r) \/ StreamEnds(r)
    \/ DropDial(r)

Cancel(r) == CancelWait(r) \/ CancelDial(r) \/ CancelExchange(r)

DrainStep ==
    \/ DrainWaits \/ DrainTake \/ DrainFinish
    \/ \E o \in Origins : DrainSlot(o)
    \/ \E c \in Conns : DrainJoin(c)

\* Every request answered and every shutdown call over: nothing is left to do.
Quiet ==
    /\ \A r \in Requests : pc[r] = "done"
    /\ \A k \in Callers : caller[k] \in {"returned", "gaveup"}
    /\ finished
    /\ UNCHANGED vars

Next ==
    \/ \E r \in Requests : Offer(r) \/ RequestStep(r) \/ Cancel(r)
    \/ \E c \in Conns : PeerGoaway(c) \/ ConnLost(c) \/ DriverEnds(c)
    \/ \E k \in Callers : Shutdown(k) \/ ShutdownReturns(k) \/ GiveUp(k)
    \/ DrainStep
    \/ Quiet

\* Tasks are polled when woken, a dial and an exchange end one way or the
\* other, and a driver with nothing left to do returns.  Nobody is obliged to
\* offer a request, to call shutdown or to give up on one.
Fairness ==
    /\ \A r \in Requests : WF_vars(RequestStep(r))
    /\ \A c \in Conns : WF_vars(DriverEnds(c))
    /\ \A k \in Callers : WF_vars(ShutdownReturns(k))
    /\ WF_vars(DrainStep)

Spec == Init /\ [][Next]_vars
FairSpec == Spec /\ Fairness

-----------------------------------------------------------------------------
(* Properties                                                              *)

\* A slot is Dialing exactly while one request is responsible for settling
\* it (acquire claims under the slot lock; DialGuard settles on every exit).
\* Two dialers would open two connections, none would park everyone for ever.
OneDialer ==
    \A o \in Origins :
        /\ dial[o] = "Dialing" <=> Dialers(o) # {}
        /\ \A r, s \in Dialers(o) : r = s

\* The unlock/subscribe window of Decision::Wait is closed: a parked request
\* whose captured generation is still current is parked behind a live claim.
NoMissedBell ==
    \A r \in Requests :
        pc[r] = "waiting" /\ seen[r] = gen[OriginOf[r]]
            => dial[OriginOf[r]] = "Dialing"

\* State::acquires counts the live AcquireGuards, however an acquire ended.
CountIsExact == acquires = Cardinality(Registered)

\* Client::shutdown: "when it returns, the connections really are gone".
ShutdownIsHonest == finished => \A c \in Conns : conn[c] # "open"

\* No driver task is detached: a running one is filed, is being joined, or
\* was spawned by a dial that still holds its acquire count and will file it.
\* An evicted connection stays filed while its last exchanges run.
NoStrayDriver ==
    \A c \in Conns :
        conn[c] = "open" =>
            \/ c \in drivers \union toJoin
            \/ \E r \in Requests : pc[r] = "file" /\ hold[r] = c

\* No step takes a slot out of Dialing without ringing the bell; the drain,
\* which overwrites slots without ringing it, must never meet a claimed one.
DialingEndsWithBell ==
    [][\A o \in Origins :
        dial[o] = "Dialing" /\ dial'[o] # "Dialing" => gen'[o] # gen[o]]_vars

\* Every request that has entered acquire leaves it: no caller is stranded
\* behind a dial that was cancelled, failed or landed in a closed pool.
AcquireEnds ==
    \A r \in Requests : pc[r] \in AcquirePcs ~> pc[r] \notin AcquirePcs

\* A shutdown once started completes, even when the caller that started it
\* gives up, so that a later call of shutdown can still return.
ShutdownCompletes == closed ~> finished

=============================================================================
