------------------------------ MODULE QuicPump ------------------------------
(***************************************************************************)
(* ngnet-quic-h3: one detached QUIC connection driven by the HTTP/3        *)
(* driver's own task.  The endpoint's thread routes datagrams in and takes *)
(* datagrams out; between them stand two bounded queues and two lists of   *)
(* wakers.  Everything else is the task's: it pumps at every call the      *)
(* HTTP/3 driver makes, hands over events in batches, fills packets from   *)
(* the layer's stream (QuicSend) and arms the connection's deadline before *)
(* it parks.                                                               *)
(*                                                                         *)
(* A step of the task is one acquisition of the shared lock with what the  *)
(* task does before the next; ngtcp2, external, is entered in between.     *)
(***************************************************************************)
EXTENDS QuicSend, Sequences, SequencesExt

CONSTANTS
    Queue,      \* DATAGRAM_QUEUE: most datagrams either way, one kept for a close
    Budget,     \* most datagrams of one produce or drain (64 in the code)
    Batch,      \* Config::events_per_pass
    MaxTime,    \* bound on the clock
    MaxSent,    \* bound on the datagrams the peer sends
    MaxOwed,    \* bound on the packets ngtcp2 has ready besides stream data
    Scenes      \* what peer, ngtcp2 and layer may do

ASSUME QueueAssumption ==
    /\ Queue \in Nat \ {0, 1} /\ Batch \in Nat \ {0} /\ Budget \in Nat \ {0}
    /\ MaxTime \in Nat /\ MaxSent \in Nat /\ MaxOwed \in Nat

VARIABLES
    inbound,    \* ConnectionInner::inbound
    outbound,   \* length of ConnectionInner::outbound
    closeOut,   \* ConnectionInner::close_outbound is Some
    connWait,   \* the task's waker is in ConnectionInner::wakers
    capWait,    \* the task's waker is in ConnectionInner::capacity_wakers
    observed,   \* ConnectionInner::observed
    owes,       \* ngtcp2: packets write_pkt would produce
    expiry,     \* ngtcp2: its deadline
    streams,    \* ngtcp2: streams the peer still lets this end open
    heard,      \* ngtcp2: what it has processed of the peer's datagrams
    records,    \* Shared::pending
    emitted,    \* State::emitted_since_pending
    closed,     \* State::closed
    reported,   \* State::reported_closed
    sleep,      \* State::sleeping_until, with the sleep it is for
    call,       \* the call of the HTTP/3 driver
    step,       \* how far the call is
    at,         \* the time pump read at its start
    spent,      \* datagrams of this produce or drain
    batch,      \* events taken in this pass
    wanted,     \* request streams the HTTP/3 layer still wants
    shelved,    \* the stream is in Driver::blocked
    retried,    \* Offers::retried
    left,       \* history: why the last drain ended
    cut,        \* history: the last produce ended at its budget
    woken,      \* the task is scheduled
    now,        \* the endpoint's clock
    total,      \* bound: datagrams the peer has sent
    scene       \* the member of Scenes that this behaviour plays

sharedVars == <<inbound, outbound, closeOut, connWait, capWait>>
quicVars == <<owes, expiry, streams, heard>>
adapterVars == <<records, emitted, closed, reported, sleep>>
driverVars == <<batch, wanted, shelved, retried, left, cut>>
worldVars == <<now, total, scene>>
vars == <<sendVars, sharedVars, observed, quicVars, adapterVars, call, step, at, spent,
          driverVars, woken, worldVars>>

None == 0                      \* no deadline; the clock starts at 1
OutboundData == Queue - 1      \* OUTBOUND_DATA_QUEUE
Moves == scene
Kinds == {"data", "end", "ack", "stop", "limit", "close", "bad"}
Calls == {"bind", "events", "act", "open", "transmit", "idle", "over"}

Init ==
    /\ SendInit
    /\ scene \in Scenes
    /\ inbound = <<>> /\ outbound = 0 /\ closeOut = FALSE
    /\ connWait = FALSE /\ capWait = FALSE /\ observed = <<>>
    /\ owes = 0 /\ expiry = None /\ heard = {}
    /\ streams = IF "limit" \in scene THEN 1 ELSE 2
    /\ records = <<>> /\ emitted = FALSE /\ closed = FALSE /\ reported = FALSE
    /\ sleep = None
    /\ call = "bind" /\ step = "enter" /\ at = 1 /\ spent = 0
    /\ batch = <<>> /\ wanted = 1
    /\ shelved = FALSE /\ retried = FALSE /\ left = "nothing" /\ cut = FALSE
    /\ woken = FALSE
    /\ now = 1 /\ total = 0

-----------------------------------------------------------------------------
(* ngtcp2 as the adapter sees it: any call into it may move its deadline,  *)
(* which nobody asks for any more once the connection has closed.          *)

Deadlines == {None} \cup ((now + 1)..(now + 2))
MoveExpiry == expiry' \in IF "timer" \in Moves THEN Deadlines ELSE {expiry}

\* One more packet to send: an acknowledgement, a probe, a reset, new credit.
MoreOwed == IF owes < MaxOwed THEN owes + 1 ELSE owes

-----------------------------------------------------------------------------
(* The endpoint's side of the queues.                                      *)

\* What the peer may still say: a stream ends after its octets, and only what was
\* sent is acknowledged.  A datagram that was lost is sent again.
Sendable ==
    {d \in Kinds \cap Moves :
        /\ d \notin heard
        /\ d = "end" => "data" \in heard \cup Range(inbound)
        /\ d = "ack" => acked < sent}

\* deliver_inbound: a full queue drops the datagram and wakes nobody.
Deliver(d) ==
    /\ total < MaxSent
    /\ d \in Sendable
    /\ total' = total + 1
    /\ IF Len(inbound) >= Queue
       THEN UNCHANGED <<inbound, connWait, woken>>
       ELSE /\ inbound' = Append(inbound, d)
            /\ woken' = (woken \/ connWait)
            /\ connWait' = FALSE
    /\ UNCHANGED <<sendVars, outbound, closeOut, capWait, observed, quicVars,
                   adapterVars, call, step, at, spent, driverVars, now, scene>>

\* take_outbound: data before the close, and the one step from full to not full
\* wakes whoever waits for room.
TakeOutbound ==
    /\ outbound > 0 \/ closeOut
    /\ IF outbound > 0
       THEN outbound' = outbound - 1 /\ UNCHANGED closeOut
       ELSE closeOut' = FALSE /\ UNCHANGED outbound
    /\ IF outbound = OutboundData
       THEN woken' = (woken \/ capWait) /\ capWait' = FALSE
       ELSE UNCHANGED <<woken, capWait>>
    /\ UNCHANGED <<sendVars, inbound, connWait, observed, quicVars, adapterVars, call,
                   step, at, spent, driverVars, worldVars>>

\* Time passes, and a sleep that was registered for this moment wakes the task.
Tick ==
    /\ now < MaxTime /\ "timer" \in Moves
    /\ now' = now + 1
    /\ woken' = (woken \/ (sleep # None /\ sleep = now + 1))
    /\ UNCHANGED <<sendVars, sharedVars, observed, quicVars, adapterVars, call, step, at,
                   spent, driverVars, total, scene>>

-----------------------------------------------------------------------------
(* pump: register, read, expire, produce.                                  *)

\* Where a pump that found the connection alive goes on.
Pumping == call \in {"bind", "events", "open", "transmit", "idle"}

\* Registered before reading, so a datagram that arrives later wakes the task.
Enter ==
    /\ Pumping /\ step = "enter"
    /\ connWait' = TRUE
    /\ at' = now
    /\ spent' = 0
    /\ step' = "read"
    /\ UNCHANGED <<sendVars, inbound, outbound, closeOut, capWait, observed, quicVars,
                   adapterVars, call, driverVars, woken, worldVars>>

\* The driver's future ends: NgtcpConnection is dropped and released.
End ==
    /\ call' = "over"
    /\ step' = "enter"

\* What ngtcp2's handlers record while it processes a datagram, in the order the
\* stream delivers it; a repeated datagram says nothing new.
Process(d) ==
    /\ heard' = IF d = "ack" THEN heard ELSE heard \cup {d}
    /\ observed' = IF d = "ack" \/ d \in heard THEN observed ELSE Append(observed, d)
    /\ owes' = IF d = "ack" THEN owes ELSE MoreOwed
    /\ streams' = IF d = "limit" /\ d \notin heard THEN streams + 1 ELSE streams
    /\ MoveExpiry
    /\ \/ d = "ack" /\ Acked(sent)
       \/ d = "ack" /\ (acked = sent \/ stream = "closed") /\ UNCHANGED sendVars
       \/ d = "stop" /\ Shut
       \/ d = "stop" /\ stream # "open" /\ UNCHANGED sendVars
       \/ d \in {"data", "end", "limit"} /\ UNCHANGED sendVars

ReadOne ==
    /\ step = "read"
    /\ inbound # <<>>
    /\ Head(inbound) \notin {"close", "bad"}
    /\ inbound' = Tail(inbound)
    /\ Process(Head(inbound))
    /\ UNCHANGED <<outbound, closeOut, connWait, capWait, adapterVars, call, step, at,
                   spent, driverVars, woken, worldVars>>

\* Draining or closing: recorded at once, ahead of what collect has yet to move, and
\* nothing more is read.
ReadClose ==
    /\ step = "read"
    /\ inbound # <<>>
    /\ Head(inbound) = "close"
    /\ inbound' = Tail(inbound)
    /\ heard' = heard \cup {"close"}
    /\ closed' = TRUE
    /\ records' = Append(records, "closed")
    /\ step' = "collect"
    /\ UNCHANGED <<sendVars, outbound, closeOut, connWait, capWait, observed, owes, expiry,
                   streams, emitted, reported, sleep, call, at, spent, driverVars, woken,
                   worldVars>>

\* An error of read_pkt ends the call, and the driver with it.
ReadError ==
    /\ step = "read"
    /\ inbound # <<>>
    /\ Head(inbound) = "bad"
    /\ inbound' = Tail(inbound)
    /\ closed' = TRUE
    /\ records' = Append(records, "closed")
    /\ End
    /\ UNCHANGED <<sendVars, outbound, closeOut, connWait, capWait, observed, quicVars,
                   emitted, reported, sleep, at, spent, driverVars, woken, worldVars>>

\* The deadline, against the time the pump started at.
Expired == expiry # None /\ expiry <= at

ReadDone ==
    /\ step = "read"
    /\ inbound = <<>>
    /\ step' = IF closed THEN "collect" ELSE IF Expired THEN "expire" ELSE "produce"
    /\ UNCHANGED <<sendVars, sharedVars, observed, quicVars, adapterVars, call, at, spent,
                   driverVars, woken, worldVars>>

ExpireHandled ==
    /\ step = "expire"
    /\ owes' = MoreOwed
    /\ expiry' \in Deadlines
    /\ step' = "produce"
    /\ UNCHANGED <<sendVars, sharedVars, observed, streams, heard, adapterVars, call, at,
                   spent, driverVars, woken, worldVars>>

\* The idle timeout, or the end of a closing period.
ExpireEnds ==
    /\ step = "expire"
    /\ "idle" \in Moves
    /\ closed' = TRUE
    /\ records' = Append(records, "closed")
    /\ step' = "collect"
    /\ UNCHANGED <<sendVars, sharedVars, observed, quicVars, emitted, reported, sleep, call,
                   at, spent, driverVars, woken, worldVars>>

\* outbound_ready_or_register: the look and the registration are one step.
Room == outbound < OutboundData

\* produce is the end of a pump, and once more what follows an opened stream.  At its
\* budget it ends without another look: it neither asks for room nor comes back.
Producing == step \in {"produce", "produce more"}
Produced == IF step = "produce" THEN "collect" ELSE "opened"

ProduceWaits ==
    /\ Producing
    /\ ~Room
    /\ capWait' = TRUE
    /\ cut' = FALSE
    /\ step' = Produced
    /\ UNCHANGED <<sendVars, inbound, outbound, closeOut, connWait, observed, quicVars,
                   adapterVars, call, at, spent, batch, wanted, shelved, retried, left, woken,
                   worldVars>>

ProduceOne ==
    /\ Producing
    /\ Room /\ owes > 0
    /\ outbound' = outbound + 1
    /\ owes' = owes - 1
    /\ MoveExpiry
    /\ spent' = spent + 1
    /\ cut' = (spent + 1 = Budget)
    /\ step' = IF cut' THEN Produced ELSE step
    /\ UNCHANGED <<sendVars, inbound, closeOut, connWait, capWait, observed, streams, heard,
                   adapterVars, call, at, batch, wanted, shelved, retried, left, woken,
                   worldVars>>

ProduceDone ==
    /\ Producing
    /\ Room /\ owes = 0
    /\ MoveExpiry
    /\ cut' = FALSE
    /\ step' = Produced
    /\ UNCHANGED <<sendVars, sharedVars, observed, owes, streams, heard, adapterVars, call, at,
                   spent, batch, wanted, shelved, retried, left, woken, worldVars>>

\* write_pkt failed; the driver ends without an event.
ProduceFails ==
    /\ Producing
    /\ Room
    /\ "fails" \in Moves
    /\ closed' = TRUE
    /\ End
    /\ UNCHANGED <<sendVars, sharedVars, observed, quicVars, records, emitted, reported,
                   sleep, at, spent, driverVars, woken, worldVars>>

\* What of it becomes records: all but a raised limit, of which there is one, and
\* which wakes the openers: this very task.
Recorded(seen) ==
    LET raised == {i \in DOMAIN seen : seen[i] = "limit"}
    IN  IF raised = {} THEN seen ELSE RemoveAt(seen, CHOOSE i \in raised : TRUE)

\* collect moves what the handlers observed.
Collect ==
    /\ Pumping /\ step = "collect"
    /\ observed' = <<>>
    /\ records' = records \o Recorded(observed)
    /\ spent' = 0
    /\ step' = "go on"
    /\ UNCHANGED <<sendVars, sharedVars, quicVars, emitted, closed, reported, sleep, call, at,
                   driverVars, woken, worldVars>>

-----------------------------------------------------------------------------
(* poll_timer, for the deadline the connection has now.                    *)

\* An earlier sleep is not given up for a later deadline while it still runs.
Earlier == sleep # None /\ expiry # None /\ sleep < expiry

\* Arms a sleep only where there is none.
Armed_Once ==
    IF expiry = None THEN None
    ELSE IF sleep # None THEN sleep
    ELSE IF expiry <= now THEN None ELSE expiry

\* The sleep that is registered afterwards.
Armed ==
    IF expiry = None THEN None
    ELSE IF Earlier /\ now < sleep THEN sleep
    ELSE IF expiry <= now THEN None ELSE expiry

\* Whether a deadline has passed already, the earlier one or the present one.
Ready ==
    /\ expiry # None
    /\ \/ expiry <= now
       \/ Earlier /\ sleep <= now

PollTimer ==
    /\ sleep' = Armed
    /\ woken' = (woken \/ Ready)

-----------------------------------------------------------------------------
(* poll_event, from take_events and from the driver's park.                *)

InEvent == call \in {"events", "idle"} /\ step = "go on"

EndsStream(r) == r \in {"end", "done", "closed"}

\* Events handed over as they come.
Postpone_Never == records # <<>> /\ FALSE

\* The end of a stream waits for a batch of its own.
Postpone == records # <<>> /\ EndsStream(Head(records)) /\ emitted

\* A call of poll_event that is Pending ends the batch, or parks the task.
Pending ==
    /\ emitted' = FALSE
    /\ IF call = "events"
       THEN call' = "act" /\ step' = "enter"
       ELSE UNCHANGED call /\ step' = "parked"

PollPostpones ==
    /\ InEvent
    /\ Postpone
    /\ woken' = TRUE
    /\ Pending
    /\ UNCHANGED <<sendVars, sharedVars, observed, quicVars, records, closed, reported, sleep,
                   at, spent, driverVars, worldVars>>

\* An event is handed over: take_events goes on to the next poll unless the batch is
\* full or the event was the last, the park keeps it for the next pass.
PollEmits ==
    /\ InEvent
    /\ records # <<>>
    /\ ~Postpone
    /\ records' = Tail(records)
    /\ emitted' = TRUE
    /\ reported' = (reported \/ Head(records) = "closed")
    /\ IF call = "idle"
       THEN batch' = <<Head(records)>>
       ELSE batch' = Append(batch, Head(records))
    /\ call' = IF Len(batch') < Batch /\ (Head(records) # "closed" \/ call = "idle")
               THEN "events" ELSE "act"
    /\ step' = "enter"
    /\ UNCHANGED <<sendVars, sharedVars, observed, quicVars, closed, sleep, at, spent, wanted,
                   shelved, retried, left, cut, woken, worldVars>>

\* Nothing to report: the timer is armed, or found due.
PollParks ==
    /\ InEvent
    /\ records = <<>>
    /\ closed => reported
    /\ PollTimer
    /\ Pending
    /\ UNCHANGED <<sendVars, sharedVars, observed, quicVars, records, closed, reported, at,
                   spent, driverVars, worldVars>>

-----------------------------------------------------------------------------
(* The rest of a pass of the HTTP/3 driver.                                *)

\* Resets, stop_sending and credit the layer asks for.  They are produced at once as
\* far as there is room; nobody is registered here, a later pump finds the rest.
Act ==
    /\ call = "act"
    /\ \E asked \in IF "act" \in Moves /\ ~closed THEN {0, 1} ELSE {0} :
          LET ready == IF asked = 1 THEN owes + 1 ELSE 0
              room == OutboundData - outbound
              out == CHOOSE n \in {ready, room, Budget} :
                        n <= ready /\ n <= room /\ n <= Budget
          IN /\ owes + asked - out <= MaxOwed
             /\ outbound' = outbound + out
             /\ owes' = owes + asked - out
             /\ IF asked = 1 THEN MoveExpiry ELSE UNCHANGED expiry
    /\ call' = IF wanted > 0 THEN "open" ELSE "transmit"
    /\ step' = "enter"
    /\ retried' = FALSE
    /\ UNCHANGED <<sendVars, inbound, closeOut, connWait, capWait, observed, streams, heard,
                   adapterVars, at, spent, batch, wanted, shelved, left, cut, woken,
                   worldVars>>

\* A reset ngtcp2 refuses, or a packet it fails to write: the driver ends.
ActFails ==
    /\ call = "act"
    /\ {"act", "fails"} \subseteq Moves
    /\ closed' \in {closed, TRUE}
    /\ End
    /\ UNCHANGED <<sendVars, sharedVars, observed, quicVars, records, emitted, reported,
                   sleep, at, spent, driverVars, woken, worldVars>>

InOpen == call \in {"bind", "open"} /\ step = "go on"

OpenEnded ==
    /\ InOpen
    /\ closed
    /\ End
    /\ UNCHANGED <<sendVars, sharedVars, observed, quicVars, adapterVars, at, spent,
                   driverVars, woken, worldVars>>

Opens ==
    /\ InOpen
    /\ ~closed
    /\ streams > 0
    /\ streams' = streams - 1
    /\ wanted' = IF call = "bind" THEN wanted ELSE wanted - 1
    /\ MoveExpiry
    /\ step' = "produce more"
    /\ UNCHANGED <<sendVars, sharedVars, observed, owes, heard, adapterVars, call, at, spent,
                   batch, shelved, retried, left, cut, woken, worldVars>>

Opened ==
    /\ step = "opened"
    /\ call' = IF call = "bind" THEN "events" ELSE "transmit"
    /\ step' = "enter"
    /\ UNCHANGED <<sendVars, sharedVars, observed, quicVars, adapterVars, at, spent,
                   driverVars, woken, worldVars>>

\* At the peer's limit the call is Pending, and no timer is polled.
OpenParks ==
    /\ InOpen
    /\ ~closed
    /\ streams = 0
    /\ step' = "parked"
    /\ UNCHANGED <<sendVars, sharedVars, observed, quicVars, adapterVars, call, at, spent,
                   driverVars, woken, worldVars>>

-----------------------------------------------------------------------------
(* poll_transmit: drain, one offer at a time, then the timer.              *)

InDrain == call = "transmit" /\ step = "go on" /\ ~closed

\* Whether the layer has something to offer: a stream that was set aside is put back
\* once in a pass.
Message == ~ended /\ ~given /\ "send" \in Moves /\ wanted = 0
Offering == Message /\ (shelved => ~retried)

\* A drain that follows a produce cut at its budget may find packets still owed.
DrainEnds(why) ==
    /\ left' = IF cut THEN "behind" ELSE why
    /\ step' = "settle"

TransmitEnded ==
    /\ call = "transmit" /\ step = "go on"
    /\ closed
    /\ End
    /\ UNCHANGED <<sendVars, sharedVars, observed, quicVars, adapterVars, at, spent,
                   driverVars, woken, worldVars>>

DrainWaits ==
    /\ InDrain
    /\ ~Room
    /\ capWait' = TRUE
    /\ DrainEnds("room")
    /\ UNCHANGED <<sendVars, inbound, outbound, closeOut, connWait, observed, quicVars,
                   adapterVars, call, at, spent, batch, wanted, shelved, retried, cut, woken,
                   worldVars>>

DrainDone ==
    /\ InDrain
    /\ Room
    /\ ~Offering
    /\ DrainEnds(IF Message THEN "tried" ELSE "nothing")
    /\ UNCHANGED <<sendVars, sharedVars, observed, quicVars, adapterVars, call, at, spent,
                   batch, wanted, shelved, retried, cut, woken, worldVars>>

\* The bookkeeping of one datagram: the loop goes round unless it is told to stop.
Spend(why) ==
    /\ spent' = spent + 1
    /\ IF why # "" THEN DrainEnds(why)
       ELSE IF spent + 1 = Budget THEN DrainEnds("cut")
       ELSE UNCHANGED <<step, left>>

\* Some of the offer, or a lone FIN, goes into a datagram; octets taken are released
\* to the layer at once, and a short write sets the stream aside.
DrainTakes(m, fin, k) ==
    /\ InDrain /\ Room /\ Offering
    /\ WriteTaken(m, fin, "copied", k)
    /\ outbound' = outbound + 1
    /\ MoveExpiry
    /\ records' = IF k > 0 THEN Append(records, "released") ELSE records
    /\ retried' = (retried \/ shelved)
    /\ shelved' = (k < m)
    /\ Spend(IF k = 0 THEN "native" ELSE "")
    /\ UNCHANGED <<inbound, closeOut, connWait, capWait, observed, owes, streams, heard,
                   emitted, closed, reported, sleep, call, at, batch, wanted, cut, woken,
                   worldVars>>

\* The packet went to frames that were waiting: the loop goes on and offers again.
DrainDisplaced(m, fin) ==
    /\ InDrain /\ Room /\ Offering
    /\ owes > 0
    /\ WriteRefused(m, fin, "displaced")
    /\ outbound' = outbound + 1
    /\ owes' = owes - 1
    /\ MoveExpiry
    /\ retried' = (retried \/ shelved)
    /\ shelved' = TRUE
    /\ Spend("")
    /\ UNCHANGED <<inbound, closeOut, connWait, capWait, observed, streams, heard, adapterVars,
                   call, at, batch, wanted, cut, woken, worldVars>>

\* Flow control or congestion: the loop ends.
DrainBlocked(m, fin) ==
    /\ InDrain /\ Room /\ Offering
    /\ "blocked" \in Moves
    /\ WriteRefused(m, fin, "blocked")
    /\ retried' = (retried \/ shelved)
    /\ shelved' = TRUE
    /\ MoveExpiry
    /\ spent' = spent
    /\ DrainEnds("native")
    /\ UNCHANGED <<sharedVars, observed, owes, streams, heard, adapterVars, call, at, batch,
                   wanted, cut, woken, worldVars>>

DrainGone(m, fin) ==
    /\ InDrain /\ Room /\ Offering
    /\ WriteGone(m, fin)
    /\ retried' = (retried \/ shelved)
    /\ shelved' = FALSE
    /\ MoveExpiry
    /\ Spend("")
    /\ UNCHANGED <<sharedVars, observed, owes, streams, heard, adapterVars, call, at, batch,
                   wanted, cut, woken, worldVars>>

\* Any other error: the layer is told the stream is blocked, and the driver ends.
DrainFails(m, fin) ==
    /\ InDrain /\ Room /\ Offering
    /\ "fails" \in Moves
    /\ WriteRefused(m, fin, "blocked")
    /\ retried' = (retried \/ shelved)
    /\ shelved' = TRUE
    /\ closed' = TRUE
    /\ End
    /\ UNCHANGED <<sharedVars, observed, quicVars, records, emitted, reported, sleep, at,
                   spent, batch, wanted, left, cut, woken, worldVars>>

\* The end of the pass: the timer for the deadline the writes left behind, and then
\* the driver is finished, goes round, or is idle.
Settle ==
    /\ call = "transmit" /\ step = "settle"
    /\ PollTimer
    /\ IF "closed" \in Range(batch)
       THEN End
       ELSE /\ call' = IF batch # <<>> THEN "events" ELSE "idle"
            /\ step' = "enter"
    /\ batch' = <<>>
    /\ UNCHANGED <<sendVars, sharedVars, observed, quicVars, records, emitted, closed,
                   reported, at, spent, wanted, shelved, retried, left, cut, worldVars>>

\* A driver that is done closes: the datagram is queued in the slot kept for it.
Close ==
    /\ call = "transmit" /\ step = "settle"
    /\ ended \/ given
    /\ "finish" \in Moves
    /\ closeOut' = TRUE
    /\ closed' = TRUE
    /\ End
    /\ UNCHANGED <<sendVars, inbound, outbound, connWait, capWait, observed, quicVars,
                   records, emitted, reported, sleep, at, spent, driverVars, woken, worldVars>>

\* A woken task polls again: an opener its call, the idle driver another poll_event,
\* or a pass when a stream was set aside.
Resume ==
    /\ step = "parked"
    /\ woken
    /\ woken' = FALSE
    /\ step' = "enter"
    /\ call' = IF call = "idle" /\ shelved THEN "events" ELSE call
    /\ UNCHANGED <<sendVars, sharedVars, observed, quicVars, adapterVars, at, spent,
                   driverVars, worldVars>>

\* stream_close2_cb: ngtcp2 is done with the layer's stream, and says so.
StreamDone ==
    /\ step = "read"
    /\ Closed
    /\ observed' = Append(observed, "done")
    /\ UNCHANGED <<sharedVars, quicVars, adapterVars, call, step, at, spent,
                   driverVars, woken, worldVars>>

\* Nothing is left to happen.
Rest ==
    /\ call = "over" \/ (step = "parked" /\ ~woken)
    /\ UNCHANGED vars

Endpoint ==
    \/ \E d \in Kinds : Deliver(d)
    \/ TakeOutbound
    \/ Tick

Pump ==
    \/ Enter
    \/ ReadOne
    \/ ReadClose
    \/ ReadError
    \/ ReadDone
    \/ StreamDone
    \/ ExpireHandled
    \/ ExpireEnds
    \/ ProduceWaits
    \/ ProduceOne
    \/ ProduceDone
    \/ ProduceFails
    \/ Collect

Drain ==
    \/ DrainWaits
    \/ DrainDone
    \/ \E m \in 0..Total, fin \in BOOLEAN :
          \/ \E k \in 0..Total : DrainTakes(m, fin, k)
          \/ DrainDisplaced(m, fin)
          \/ DrainBlocked(m, fin)
          \/ DrainGone(m, fin)
          \/ DrainFails(m, fin)

Driver ==
    \/ PollPostpones
    \/ PollEmits
    \/ PollParks
    \/ Act
    \/ ActFails
    \/ OpenEnded
    \/ Opens
    \/ Opened
    \/ OpenParks
    \/ TransmitEnded
    \/ Settle
    \/ Close
    \/ Resume

Next == Endpoint \/ Pump \/ Drain \/ Driver \/ Rest

Spec == Init /\ [][Next]_vars

-----------------------------------------------------------------------------
(* Properties.                                                             *)

Steps == {"enter", "read", "expire", "produce", "produce more", "collect", "go on", "opened",
          "settle", "parked"}
Seen == Kinds \cup {"done"}
Records == Seen \cup {"released", "closed"}

SeqTypes ==
    /\ inbound \in Seq(Kinds) /\ Len(inbound) <= Queue
    /\ observed \in Seq(Seen) /\ records \in Seq(Records)
    /\ batch \in Seq(Records) /\ Len(batch) <= Batch

\* The bound on outbound is the one queue_outbound asserts, a slot short of the queue
\* so that a close always finds its own.
CountTypes ==
    /\ outbound \in 0..OutboundData /\ total \in 0..MaxSent
    /\ owes \in 0..MaxOwed /\ spent \in 0..Budget
    /\ streams \in Nat /\ wanted \in Nat
    /\ now \in 1..(MaxTime + 1) /\ at \in 1..(MaxTime + 1)
    /\ expiry \in 0..(MaxTime + 3) /\ sleep \in 0..(MaxTime + 3)

FlagTypes ==
    /\ connWait \in BOOLEAN /\ capWait \in BOOLEAN /\ closeOut \in BOOLEAN
    /\ emitted \in BOOLEAN /\ closed \in BOOLEAN /\ reported \in BOOLEAN
    /\ shelved \in BOOLEAN /\ retried \in BOOLEAN /\ woken \in BOOLEAN
    /\ cut \in BOOLEAN

\* The variables have their types, the send side's included.
TypeOK ==
    /\ SendTypeOK /\ SeqTypes /\ CountTypes /\ FlagTypes
    /\ call \in Calls /\ step \in Steps /\ heard \subseteq Kinds

Parked == step = "parked" /\ ~woken

\* A parked task that nobody has woken has nothing to do: nothing routed to it is
\* unread (register before read, pump.rs), nothing the handlers saw is unreported,
\* and a packet that is owed waits for room the endpoint has promised to announce
\* (outbound_ready_or_register) unless the produce before the park ended at its budget,
\* which asks for nothing.  A message that was set aside waits for ngtcp2's own
\* progress or for room, or was drained behind such a produce.
NothingWaitsAtPark ==
    Parked =>
        /\ connWait /\ inbound = <<>> /\ observed = <<>>
        /\ owes > 0 => (capWait /\ ~Room) \/ cut
        /\ call = "idle" => records = <<>>
        /\ shelved /\ Message => left \in {"native", "behind"} \/ capWait

\* poll_timer: whenever the driver is parked on its events, a sleep is registered for
\* the connection's deadline or before it; a deadline that moved while an earlier
\* sleep was running has lost neither.
DeadlineArmed ==
    (Parked /\ call = "idle" /\ ~closed /\ expiry # None) =>
        sleep # None /\ sleep <= expiry /\ now < sleep

\* A pass handles control-plane events before data, so the end of a stream is the
\* first event of its batch and shares it with nothing that came before
\* (emitted_since_pending).
EndsStartABatch == \A i \in DOMAIN batch : EndsStream(batch[i]) => i = 1

\* What may wait while the task is parked is what NothingWaitsAtPark lists, and a task
\* parked on its events (a parked opener polls no timer) has a sleep for its deadline.
\* Neither speaks of a message that was not set aside when a drain ended for room.
ParkIsSafe == NothingWaitsAtPark /\ DeadlineArmed

=============================================================================
