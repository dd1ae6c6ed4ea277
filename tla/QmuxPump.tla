------------------------------ MODULE QmuxPump ------------------------------
(***************************************************************************)
(* HTTP/3 over QMux: ngnet-qmux's Connection under ngnet-qmux-h3's adapter *)
(* under a pass of ngnet-h3's driver.  It is one task.  Every call of the  *)
(* driver pumps the byte stream; what the task produces may wait in the    *)
(* buffer (QmuxOut) until the driver is about to park, and a park is ended *)
(* only by a waker: the byte stream's for reading or writing, the one for  *)
(* read-ahead, the one of a waiting open, or the task's own.               *)
(*                                                                         *)
(* A step of the task ends where the byte stream is asked, so that what    *)
(* the peer does falls between any two of them.                            *)
(***************************************************************************)
EXTENDS QmuxOut

CONSTANTS
    Total,      \* octets of the message this end sends
    Pieces,     \* how many of them nghttp3 offers at a time
    Allowance,  \* Config::read_ahead, in deliveries
    Batch,      \* Config::events_per_pass
    MaxOffers,  \* MAX_OFFERS of one transmit pass
    Scenes      \* what peer, layer and byte stream may do, and a bound on what
                \* the peer sends

ASSUME PumpAssumption ==
    /\ Total \in Nat /\ Pieces \subseteq Nat \ {0} /\ Allowance \in Nat \ {0} /\ Batch \in Nat \ {0}
    /\ MaxOffers \in Nat \ {0}

VARIABLES
    inbound,    \* what the byte stream has for reading
    boundary,   \* RecordFramer::at_boundary
    readWait,   \* the byte stream holds the task's waker for reading
    events,     \* Connection::events
    ahead,      \* Connection::read_ahead, delivered and not credited
    aheadWait,  \* Signals: the task's waker waits for read-ahead
    terminal,   \* Connection::terminal
    window,     \* dwnx: octets the peer still lets this end send
    shut,       \* dwnx: the peer wants no more of the message
    streams,    \* dwnx: streams the peer still lets this end open
    ending,     \* Inner::ending
    releases,   \* length of Inner::releases
    next,       \* Inner::next
    emitted,    \* Inner::emitted_since_pending
    reported,   \* Inner::reported_ending
    close,      \* Inner::close is Some
    finished,   \* Inner::finished
    credit,     \* Inner::credit, the connection's sum
    openWait,   \* Inner::open_bidi_waiter is Some
    call,       \* the call of the HTTP/3 driver, or the tail
    step,       \* how far the call is
    pump,       \* the pump that runs: "none" or its form
    back,       \* the step it returns to
    polled,     \* fill: "no", "yes" or "progress" of the one lower poll
    batch,      \* events taken in this pass
    wanted,     \* request streams the layer still wants
    offers,     \* offers of this transmit pass
    offered,    \* octets of the offer being written
    ends,       \* that offer ends the message
    taken,      \* octets of the offer that are packed
    sent,       \* octets the layer was told are taken
    message,    \* "going", "ended" once the layer was told its end is taken, "reset"
    shelved,    \* the stream is in Driver::blocked
    retried,    \* Offers::retried
    held,       \* deliveries the application has and has not read
    work,       \* Shared: work for the driver
    woken,      \* the task is scheduled
    total,      \* bound: what the peer has sent
    scene       \* the member of Scenes that this behaviour plays

peerVars == <<inbound, readWait, total, scene>>
connVars == <<boundary, shut, events, ahead, aheadWait, terminal, window, streams>>
adapterVars == <<ending, releases, next, emitted, reported, close, finished, credit,
                 openWait, polled>>
pumpVars == <<pump, back>>
offerVars == <<offers, offered, ends, taken, sent, message, shelved, retried>>
driverVars == <<batch, wanted, held, work>>
vars == <<outVars, peerVars, connVars, adapterVars, call, step, pumpVars, offerVars, driverVars,
          woken>>

Nothing == "nothing"
Kinds == {"data", "half", "end", "stop", "window", "limit", "ping", "close", "eof"}
Visible == {"data", "end", "stop"}        \* events that HTTP/3 sees
Moves == scene.does

\* ErrorKind::is_orderly
Kind(error) == IF error \in {"peer", "eof", "local"} THEN "orderly" ELSE "failure"

Init ==
    /\ OutInit
    /\ scene \in Scenes
    /\ inbound = <<>> /\ readWait = FALSE /\ total = 0
    /\ boundary = TRUE /\ shut = FALSE /\ events = <<>> /\ ahead = 0 /\ aheadWait = FALSE /\ terminal = "no"
    /\ window = IF "window" \in scene.does THEN 1 ELSE Total
    /\ streams = IF "limit" \in scene.does THEN 0 ELSE 2
    /\ ending = "no" /\ releases = 0 /\ next = Nothing /\ emitted = FALSE
    /\ reported = FALSE /\ close = FALSE /\ finished = FALSE /\ credit = 0
    /\ openWait = FALSE /\ polled = "no"
    /\ call = "bind" /\ step = "enter" /\ pump = "none" /\ back = "none"
    /\ batch = <<>> /\ wanted = 1 /\ held = 0 /\ work = FALSE
    /\ offers = 0 /\ offered = 0 /\ ends = FALSE /\ taken = 0 /\ sent = 0 /\ message = "going"
    /\ shelved = FALSE /\ retried = FALSE
    /\ woken = FALSE

-----------------------------------------------------------------------------
(* The peer, the byte stream and the application.                          *)

\* A stream ends after its data, and nothing follows a close or the end of the byte
\* stream.
Sendable ==
    {d \in Kinds \cap Moves :
        /\ inbound # <<>> => Last(inbound) \notin {"close", "eof"}
        /\ terminal = "no"}

Arrive(d) ==
    /\ total < scene.sends
    /\ d \in Sendable
    /\ total' = total + 1
    /\ inbound' = Append(inbound, d)
    /\ woken' = (woken \/ readWait)
    /\ readWait' = FALSE
    /\ UNCHANGED <<outVars, scene, connVars, adapterVars, call, step, pumpVars, offerVars,
                   driverVars>>

Drains ==
    /\ Writable
    /\ woken' = (woken \/ writeWait)
    /\ UNCHANGED <<peerVars, connVars, adapterVars, call, step, pumpVars, offerVars, driverVars>>

\* The byte stream fails; whoever waits for it is woken.
Breaks ==
    /\ "breaks" \in Moves
    /\ ~broken
    /\ broken' = TRUE
    /\ woken' = (woken \/ readWait \/ writeWait)
    /\ readWait' = FALSE /\ writeWait' = FALSE
    /\ UNCHANGED <<bufferVars, producePending, closing, control, space, made, inbound, total,
                   scene, connVars, adapterVars, call, step, pumpVars, offerVars, driverVars>>

\* The application reads what it holds, which is work for the driver.
AppReads ==
    /\ held > 0
    /\ ~work
    /\ call # "tail"
    /\ work' = TRUE
    /\ woken' = TRUE
    /\ UNCHANGED <<outVars, peerVars, connVars, adapterVars, call, step, pumpVars, offerVars,
                   batch, wanted, held>>

-----------------------------------------------------------------------------
(* flush_credit: the deferred sum is applied before anything below is      *)
(* asked; a connection that has ended drops it.  Crediting queues MAX_DATA *)
(* and wakes a reader that read-ahead had stopped.                         *)

Applies == credit > 0 /\ ending = "no" /\ terminal = "no"
CreditFrames == IF Applies THEN <<"credit">> ELSE <<>>

FlushCredit ==
    /\ credit' = 0
    /\ ahead' = IF Applies THEN ahead - credit ELSE ahead
    /\ IF Applies /\ ahead' < Allowance
       THEN woken' = (woken \/ aheadWait) /\ aheadWait' = FALSE
       ELSE UNCHANGED <<aheadWait, woken>>

\* Nothing is asked of dwnx where there is nothing to say.
QueueAfterCredit(frames) ==
    IF CreditFrames \o frames = <<>>
    THEN UNCHANGED <<control, producePending>>
    ELSE Queue(CreditFrames \o frames)

UnlessCredited == <<outbound, written, wire, closing, space, broken, writeWait, made, peerVars,
                    boundary, shut, events, terminal, window, streams>>

StopPump == pump' = "none" /\ back' = "none"

\* Starts a pump that returns to a step of the call; a connection that has ended is
\* not pumped.
StartPump(kind, to) ==
    IF ending # "no" /\ kind # "finish"
    THEN step' = to /\ StopPump
    ELSE step' = "write" /\ pump' = kind /\ back' = to

-----------------------------------------------------------------------------
(* The pump: write_side, read_once, and write_side again for what the read *)
(* left to say.  The forced pump and the tail's write only.                *)

Writing == step \in {"write", "write again"}
Forced == pump \in {"forced", "finish"}

\* pump_bounded and poll_pump report a connection that has ended at once.
PumpEnded ==
    /\ step = "write" /\ pump # "finish"
    /\ terminal # "no"
    /\ step' = "pumped"
    /\ UNCHANGED <<outVars, peerVars, connVars, adapterVars, call, pumpVars, offerVars,
                   driverVars, woken>>

InPump == pump # "none" /\ (terminal = "no" \/ pump = "finish")

\* The write side has nothing more to do, or cannot.
WriteEnds ==
    step' = IF step = "write" /\ ~Forced THEN "read" ELSE "pumped"

\* What a read leaves to say is written in the same pass.
ReadEnds(more) == step' = IF more THEN "write again" ELSE "pumped"

\* A buffer without room for a record is offered to the byte stream.
WriteMakesRoom ==
    /\ InPump /\ Writing
    /\ ~RoomForRecord
    /\ ~FlushFails
    /\ Flush
    /\ IF Flushed THEN UNCHANGED step ELSE WriteEnds
    /\ UNCHANGED <<producePending, closing, control, broken, made, peerVars, connVars,
                   adapterVars, call, pumpVars, offerVars, driverVars, woken>>

WriteProduces ==
    /\ InPump /\ Writing
    /\ ProduceControl
    /\ UNCHANGED <<peerVars, connVars, adapterVars, call, step, pumpVars, offerVars, driverVars,
                   woken>>

\* Nothing more to produce: the forced form writes the buffer out.
WriteDone ==
    /\ InPump /\ Writing
    /\ RoomForRecord
    /\ ~Producing
    /\ ~(Forced /\ FlushFails)
    /\ IF Forced THEN Flush ELSE UNCHANGED <<bufferVars, space, writeWait>>
    /\ WriteEnds
    /\ UNCHANGED <<producePending, closing, control, broken, made, peerVars, connVars,
                   adapterVars, call, pumpVars, offerVars, driverVars, woken>>

\* fail: the first ending is kept.
Latch(what) == terminal' = IF terminal = "no" THEN what ELSE terminal

WriteFails ==
    /\ InPump /\ Writing
    /\ FlushFails
    /\ ~RoomForRecord \/ (~Producing /\ Forced)
    /\ Latch("io")
    /\ step' = "pumped"
    /\ UNCHANGED <<outVars, peerVars, boundary, shut, events, ahead, aheadWait, window, streams, adapterVars,
                   call, pumpVars, offerVars, driverVars, woken>>

\* A caller that is behind is not read for; credit ends that wait.
ReadStops ==
    /\ InPump /\ step = "read"
    /\ ahead >= Allowance
    /\ aheadWait' = TRUE
    /\ ReadEnds(producePending)
    /\ UNCHANGED <<outVars, peerVars, boundary, shut, events, ahead, terminal, window, streams, adapterVars,
                   call, pumpVars, offerVars, driverVars, woken>>

ReadPending ==
    /\ InPump /\ step = "read"
    /\ ahead < Allowance
    /\ inbound = <<>> /\ ~broken
    /\ readWait' = TRUE
    /\ ReadEnds(producePending)
    /\ UNCHANGED <<outVars, inbound, total, scene, connVars, adapterVars, call, pumpVars,
                   offerVars, driverVars, woken>>

\* The end of the byte stream, or its failure.
ReadFails ==
    /\ InPump /\ step = "read"
    /\ ahead < Allowance
    /\ \/ inbound # <<>> /\ Head(inbound) = "eof"
          /\ Latch(IF boundary THEN "eof" ELSE "truncated")
       \/ inbound = <<>> /\ broken /\ Latch("io")
    /\ step' = "pumped"
    /\ UNCHANGED <<outVars, peerVars, boundary, shut, events, ahead, aheadWait, window, streams, adapterVars,
                   call, pumpVars, offerVars, driverVars, woken>>

\* Which of the first n items are of a kind, and those that make an event, in their order.
Items(n, kinds) == {i \in 1..n : inbound[i] \in kinds}
Count(n, kind) == Cardinality(Items(n, {kind}))
Ordered(indices) ==
    {f \in [1..Cardinality(indices) -> indices] : \A i, j \in DOMAIN f : i < j => f[i] < f[j]}

\* One batch of k items: the framer and dwnx take it, the handlers queue what it says, a
\* PING is answered.  A close ends what is decoded, the first n: these stay queued behind
\* the ending.
ReadSome(k, n) ==
    /\ InPump /\ step = "read"
    /\ ahead < Allowance
    /\ Items(k, {"eof"}) = {} /\ Items(n, {"close"}) = {}
    /\ n < k => inbound[n + 1] = "close"
    /\ inbound' = SubSeq(inbound, k + 1, Len(inbound))
    /\ \E f \in Ordered(Items(n, Kinds \ {"half", "ping"})) :
           events' = events \o [i \in DOMAIN f |-> inbound[f[i]]]
    /\ boundary' = (n > 0 => inbound[n] # "half")
    /\ shut' = (shut \/ Items(n, {"stop"}) # {})
    /\ window' = window + Count(n, "window")
    /\ streams' = streams + Count(n, "limit")
    /\ Queue([i \in 1..Count(n, "ping") |-> "pong"])
    /\ IF n < k
       THEN /\ Latch("peer")
            /\ step' = "pumped"
            /\ UNCHANGED woken
       ELSE /\ woken' = (woken \/ pump = "buffered" \/ (pump = "event" /\ events' = <<>>))
            /\ ReadEnds(TRUE)
            /\ UNCHANGED terminal
    /\ UNCHANGED <<bufferVars, closing, space, broken, writeWait, made, readWait, total,
                   scene, ahead, aheadWait, adapterVars, call, pumpVars, offerVars, driverVars>>

\* The adapter latches the ending a pump met; fill does it only once the events in
\* front of it are taken.
Pumped ==
    /\ step = "pumped" /\ pump \in {"buffered", "forced"}
    /\ ending' = IF terminal = "no" THEN ending ELSE Kind(terminal)
    /\ step' = back
    /\ StopPump
    /\ woken' = (woken \/ (pump = "forced" /\ ending' # ending))
    /\ UNCHANGED <<outVars, peerVars, connVars, releases, next, emitted, reported, close,
                   finished, credit, openWait, polled, call, offerVars, driverVars>>

-----------------------------------------------------------------------------
(* poll_event, from take_events and from the driver's park.                *)

InEvent == call \in {"events", "idle"}

EventEnter ==
    /\ InEvent /\ step = "enter"
    /\ FlushCredit /\ QueueAfterCredit(<<>>)
    /\ polled' = "no"
    /\ IF releases > 0 \/ next # Nothing
       THEN StartPump("buffered", "release")
       ELSE step' = "fill" /\ UNCHANGED pumpVars
    /\ UNCHANGED <<UnlessCredited, ending, releases, next, emitted, reported, close, finished,
                   openWait, call, offerVars, driverVars>>

\* The driver has an event: take_events polls for the next unless the batch is full
\* or this was the last, the park keeps it for the next pass.
HandOver(event) ==
    /\ emitted' = TRUE
    /\ batch' = IF call = "idle" THEN <<event>> ELSE Append(batch, event)
    /\ call' = IF Len(batch') < Batch /\ (event # "closed" \/ call = "idle")
               THEN "events" ELSE "act"
    /\ step' = "enter"

Release ==
    /\ InEvent /\ step = "release"
    /\ IF releases > 0
       THEN releases' = releases - 1 /\ HandOver("released")
       ELSE step' = "decide" /\ UNCHANGED <<releases, emitted, batch, call>>
    /\ UNCHANGED <<outVars, peerVars, connVars, ending, next, reported, close, finished,
                   credit, openWait, polled, pumpVars, offerVars, wanted, held, work, woken>>

\* fill with something decoded: what only the adapter wants is routed, a limit that
\* rose wakes the waiting open, the rest is translated.
FillTakes ==
    /\ InEvent /\ step = "fill"
    /\ next = Nothing /\ events # <<>>
    /\ events' = Tail(events)
    /\ ahead' = IF Head(events) = "data" THEN ahead + 1 ELSE ahead
    /\ next' = IF Head(events) \in Visible THEN Head(events) ELSE Nothing
    /\ IF Head(events) = "limit"
       THEN woken' = (woken \/ openWait) /\ openWait' = FALSE
       ELSE UNCHANGED <<woken, openWait>>
    /\ UNCHANGED <<outVars, peerVars, boundary, shut, aheadWait, terminal, window, streams, ending, releases,
                   emitted, reported, close, finished, credit, polled, call, step, pumpVars,
                   offerVars, driverVars>>

FillPolls ==
    /\ InEvent /\ step = "fill"
    /\ next = Nothing /\ events = <<>> /\ polled = "no"
    /\ step' = "write" /\ pump' = "event" /\ back' = "fill"
    /\ UNCHANGED <<outVars, peerVars, connVars, adapterVars, call, offerVars, driverVars,
                   woken>>

\* poll_next_event has pumped: an event it finds is progress; an ending is latched if
\* there was none.
FillPolled ==
    /\ step = "pumped" /\ pump = "event"
    /\ polled' = IF events # <<>> THEN "progress" ELSE "yes"
    /\ ending' = IF events # <<>> \/ terminal = "no" \/ ending # "no" THEN ending ELSE Kind(terminal)
    /\ step' = "fill"
    /\ StopPump
    /\ UNCHANGED <<outVars, peerVars, connVars, releases, next, emitted, reported, close,
                   finished, credit, openWait, call, offerVars, driverVars, woken>>

\* The adapter's own events are taken for nothing.
FillEnds_Quiet ==
    /\ InEvent /\ step = "fill"
    /\ next # Nothing \/ (events = <<>> /\ polled # "no")
    /\ step' = "decide"
    /\ UNCHANGED <<outVars, peerVars, connVars, adapterVars, call, pumpVars, offerVars,
                   driverVars, woken>>

\* Nothing came but what the adapter kept for itself: the task comes round again.
FillEnds ==
    /\ InEvent /\ step = "fill"
    /\ next # Nothing \/ (events = <<>> /\ polled # "no")
    /\ woken' = (woken \/ (polled = "progress" /\ next = Nothing /\ ending = "no"))
    /\ step' = "decide"
    /\ UNCHANGED <<outVars, peerVars, connVars, adapterVars, call, pumpVars, offerVars,
                   driverVars>>

-----------------------------------------------------------------------------
(* What poll_event answers.                                                *)

\* An ending that is told as soon as it is known.
Ended_AtOnce == ending # "no" /\ ~reported

\* The ending comes after every event.
Ended == next = Nothing /\ ending # "no" /\ ~reported

\* The end of a stream, or of them all, begins a batch.
Postponed == emitted /\ (next = "end" \/ Ended)

\* Pending ends the driver's batch, or its pass: the park flushes first.
Pending ==
    /\ emitted' = FALSE
    /\ IF call = "events"
       THEN call' = "act" /\ step' = "enter"
       ELSE UNCHANGED call /\ step' = "flush"

EventPostponed ==
    /\ InEvent /\ step = "decide"
    /\ Postponed
    /\ woken' = TRUE
    /\ Pending
    /\ UNCHANGED <<outVars, peerVars, connVars, ending, releases, next, reported, close,
                   finished, credit, openWait, polled, pumpVars, offerVars, driverVars>>

EventHanded ==
    /\ InEvent /\ step = "decide"
    /\ ~Postponed /\ ~Ended
    /\ next # Nothing
    /\ next' = Nothing
    /\ held' = IF next = "data" THEN held + 1 ELSE held
    /\ HandOver(next)
    /\ UNCHANGED <<outVars, peerVars, connVars, ending, releases, reported, close, finished,
                   credit, openWait, polled, pumpVars, offerVars, wanted, work, woken>>

\* An orderly ending is an event, a failure ends the driver.
EventEnding ==
    /\ InEvent /\ step = "decide"
    /\ ~Postponed /\ Ended
    /\ reported' = TRUE
    /\ IF ending = "orderly"
       THEN HandOver("closed")
       ELSE call' = "tail" /\ step' = "enter" /\ emitted' = TRUE /\ UNCHANGED batch
    /\ UNCHANGED <<outVars, peerVars, connVars, ending, releases, next, close, finished, credit,
                   openWait, polled, pumpVars, offerVars, wanted, held, work, woken>>

EventPending ==
    /\ InEvent /\ step = "decide"
    /\ ~Postponed /\ ~Ended /\ next = Nothing
    /\ Pending
    /\ UNCHANGED <<outVars, peerVars, connVars, ending, releases, next, reported, close,
                   finished, credit, openWait, polled, pumpVars, offerVars, driverVars, woken>>

-----------------------------------------------------------------------------
(* The rest of a pass of the driver.                                       *)

\* Credit for what the application has read is only noted, where there is no ending.
Act ==
    /\ call = "act"
    /\ work' = FALSE
    /\ IF work
       THEN /\ credit' = IF ending = "no" THEN credit + held ELSE credit
            /\ held' = 0
       ELSE UNCHANGED <<credit, held>>
    /\ call' = IF wanted > 0 THEN "open" ELSE "transmit"
    /\ step' = "enter"
    /\ UNCHANGED <<outVars, peerVars, connVars, ending, releases, next, emitted, reported,
                   close, finished, openWait, polled, pumpVars, offerVars, batch, wanted, woken>>

\* reset and stop_sending of the message's stream: credit first, then the frame is
\* queued.  A connection whose ending the adapter has not met yet fails the driver.
Shutdown ==
    /\ call = "act"
    /\ "reset" \in Moves
    /\ wanted = 0 /\ message = "going"
    /\ ending = "no"
    /\ FlushCredit
    /\ IF terminal = "no"
       THEN /\ QueueAfterCredit(<<"reset">>)
            /\ message' = "reset"
            /\ shelved' = FALSE
            /\ UNCHANGED <<ending, call, step>>
       ELSE /\ ending' = Kind(terminal)
            /\ call' = "tail" /\ step' = "enter"
            /\ UNCHANGED <<control, producePending, message, shelved>>
    /\ UNCHANGED <<UnlessCredited, releases, next, emitted, reported, close, finished,
                   openWait, polled, pumpVars, offers, offered, ends, taken, sent, retried, driverVars>>

-----------------------------------------------------------------------------
(* poll_open_uni of the bind and poll_open_bi of a request.                *)

InOpen == call \in {"bind", "open"}

OpenEnter ==
    /\ InOpen /\ step = "enter"
    /\ FlushCredit /\ QueueAfterCredit(<<>>)
    /\ StartPump("buffered", "open")
    /\ UNCHANGED <<UnlessCredited, ending, releases, next, emitted, reported, close, finished,
                   openWait, polled, call, offerVars, driverVars>>

\* An ending met here ends the driver, whatever was decoded before it.
OpenFails ==
    /\ InOpen /\ step = "open"
    /\ ending # "no"
    /\ call' = "tail" /\ step' = "enter"
    /\ UNCHANGED <<outVars, peerVars, connVars, adapterVars, pumpVars, offerVars, driverVars,
                   woken>>

\* The stream is there at once, and pumped once more.
Opens ==
    /\ InOpen /\ step = "open"
    /\ ending = "no" /\ streams > 0
    /\ streams' = streams - 1
    /\ wanted' = IF call = "bind" THEN wanted ELSE wanted - 1
    /\ producePending' = TRUE
    /\ StartPump("buffered", "opened")
    /\ UNCHANGED <<bufferVars, closing, control, space, broken, writeWait, made, peerVars,
                   boundary, shut, events, ahead, aheadWait, terminal, window, adapterVars, call, offerVars,
                   batch, held, work, woken>>

Opened ==
    /\ InOpen /\ step = "opened"
    /\ call' = IF call = "bind" THEN "events" ELSE "transmit"
    /\ step' = "enter"
    /\ UNCHANGED <<outVars, peerVars, connVars, adapterVars, pumpVars, offerVars, driverVars,
                   woken>>

\* At the peer's limit the open waits, for good once the driver has flushed.
OpenWaits ==
    /\ InOpen /\ step = "open"
    /\ ending = "no" /\ streams = 0
    /\ openWait' = TRUE
    /\ step' = "flush"
    /\ UNCHANGED <<outVars, peerVars, connVars, ending, releases, next, emitted, reported,
                   close, finished, credit, polled, call, pumpVars, offerVars, driverVars, woken>>

-----------------------------------------------------------------------------
(* poll_transmit: drain, which pumps before each offer, and after them.    *)

TransmitEnter ==
    /\ call = "transmit" /\ step = "enter"
    /\ FlushCredit /\ QueueAfterCredit(<<>>)
    /\ StartPump("buffered", "offer")
    /\ offers' = 0
    /\ retried' = FALSE
    /\ UNCHANGED <<UnlessCredited, ending, releases, next, emitted, reported, close, finished,
                   openWait, polled, call, offered, ends, taken, sent, message, shelved, driverVars>>

\* What nghttp3 offers: some of the message, with its end or before the end is
\* known; a stream that was set aside is put back once in a pass.
Message == message = "going" /\ wanted = 0 /\ "send" \in Moves
Offering == Message /\ (shelved => ~retried)

\* The pass ends with the connection, for want of room, or with nothing to offer.
DrainEnds ==
    /\ call = "transmit" /\ step = "offer"
    /\ ending # "no" \/ ~RoomForRecord \/ ~Offering \/ offers = MaxOffers
    /\ StartPump("buffered", "settle")
    /\ UNCHANGED <<outVars, peerVars, connVars, adapterVars, call, offerVars, driverVars,
                   woken>>

DrainOffers(size, fin) ==
    /\ call = "transmit" /\ step = "offer"
    /\ ending = "no" /\ RoomForRecord /\ Offering /\ offers < MaxOffers
    /\ size \in {Lower(piece, Total - sent) : piece \in Pieces}
    /\ fin => size = Total - sent
    /\ size = 0 => fin
    /\ offers' = offers + 1
    /\ retried' = (retried \/ shelved)
    /\ shelved' = FALSE
    /\ offered' = size /\ ends' = fin
    /\ taken' = 0
    /\ step' = "records"
    /\ UNCHANGED <<outVars, peerVars, connVars, adapterVars, call, pumpVars, sent, message,
                   driverVars, woken>>

\* A refusal that forgets what was packed before it.
AcceptedOr_Refusal(n, verdict) == IF verdict = "accepted" THEN n ELSE 0

\* accepted_or: a count that is not zero is the answer, whatever refused the rest.
AcceptedOr(n, verdict) == n

\* try_write_stream_vectored is done, and the layer is told: nothing taken is a
\* refusal and the offer is made again; what was taken is released at once; a short
\* write sets the stream aside.
OfferEnds(n, verdict) ==
    LET k == AcceptedOr(n, verdict)
        refused == k = 0 /\ (offered > 0 \/ verdict # "accepted")
    IN /\ sent' = sent + k
       /\ releases' = IF k > 0 THEN releases + 1 ELSE releases
       /\ shelved' = (refused \/ k < offered)
       /\ message' = IF ends /\ ~refused /\ k = offered THEN "ended" ELSE message
       /\ offered' = 0 /\ ends' = FALSE
       /\ taken' = 0
       /\ StartPump("buffered", "offer")

\* No room for the next record.
OfferStops ==
    /\ step = "records"
    /\ RoomFor(offered - taken, taken > 0) = 0
    /\ OfferEnds(taken, "blocked")
    /\ UNCHANGED <<outVars, peerVars, connVars, ending, next, emitted, reported, close,
                   finished, credit, openWait, polled, call, offers, retried, driverVars,
                   woken>>

\* One record of an offer.
OfferRecord ==
    /\ step = "records"
    /\ ~shut
    /\ LET remaining == offered - taken
           room == RoomFor(remaining, taken > 0)
           k == PackedOctets(room, remaining, window)
           frame == StreamFrame(room, sent + taken, remaining, ends, window)
       IN /\ room > 0
          /\ Serialise(room, Controls(room) \o frame)
          /\ window' = window - k
          /\ IF k = remaining
             THEN OfferEnds(taken + k, "accepted")
             ELSE IF k = 0 \/ window = k
             THEN OfferEnds(taken + k, "blocked")
             ELSE /\ taken' = taken + k
                  /\ UNCHANGED <<sent, releases, shelved, message, offered, ends, step, pumpVars>>
    /\ UNCHANGED <<written, producePending, closing, space, broken, writeWait, wire, peerVars,
                   boundary, shut, events, ahead, aheadWait, terminal, streams, ending, next, emitted,
                   reported, close, finished, credit, openWait, polled, call, offers, retried,
                   driverVars, woken>>

\* A stream that takes nothing any more: the record has what else there was, and the
\* layer gives the message up.
OfferGone ==
    /\ step = "records"
    /\ shut
    /\ Serialise(MaxRecord, Controls(MaxRecord))
    /\ message' = "reset"
    /\ offered' = 0 /\ ends' = FALSE
    /\ StartPump("buffered", "offer")
    /\ UNCHANGED <<written, producePending, closing, space, broken, writeWait, wire, peerVars,
                   connVars, adapterVars, call, offers, taken, sent, shelved, retried,
                   driverVars, woken>>

-----------------------------------------------------------------------------
(* The end of a pass, and the park.                                        *)

\* Gone with the peer, once more round, or idle.
Settle ==
    /\ call = "transmit" /\ step = "settle"
    /\ call' = IF Contains(batch, "closed") THEN "tail"
               ELSE IF batch # <<>> \/ work THEN "events" ELSE "idle"
    /\ step' = "enter"
    /\ batch' = <<>>
    /\ UNCHANGED <<outVars, peerVars, connVars, adapterVars, pumpVars, offerVars, wanted, held,
                   work, woken>>

\* A driver that is done asks for a close, which the tail writes.
Close ==
    /\ call = "transmit" /\ step = "settle"
    /\ "finish" \in Moves
    /\ message # "going" /\ ~Contains(batch, "closed")
    /\ FlushCredit /\ QueueAfterCredit(<<>>)
    /\ close' = TRUE
    /\ call' = "tail" /\ step' = "enter"
    /\ UNCHANGED <<UnlessCredited, ending, releases, next, emitted, reported, finished,
                   openWait, polled, pumpVars, offerVars, driverVars>>

\* poll_flush, which the driver calls before it returns Pending.
FlushEnter ==
    /\ step = "flush"
    /\ FlushCredit /\ QueueAfterCredit(<<>>)
    /\ StartPump("forced", "parked")
    /\ UNCHANGED <<UnlessCredited, ending, releases, next, emitted, reported, close, finished,
                   openWait, polled, call, offerVars, driverVars>>

\* A woken task polls again: an open its call, the tail its own, the idle driver
\* another poll_event, or a pass for work or for a stream that was set aside.
Resume ==
    /\ step = "parked"
    /\ woken
    /\ woken' = FALSE
    /\ step' = "enter"
    /\ call' = IF call = "idle" /\ (shelved \/ work) THEN "events" ELSE call
    /\ UNCHANGED <<outVars, peerVars, connVars, adapterVars, pumpVars, offerVars, driverVars>>

-----------------------------------------------------------------------------
(* The tail: Connection::poll once the driver is done, with poll_close or  *)
(* with poll_pump and poll_finish.                                         *)

\* What dwnx has queued is produced and written before anything else.
TailEnter ==
    /\ call = "tail" /\ step = "enter"
    /\ FlushCredit /\ QueueAfterCredit(<<>>)
    /\ IF closing = "no"
       THEN step' = "write" /\ pump' = "finish" /\ back' = "drained"
       ELSE step' = "drained" /\ UNCHANGED pumpVars
    /\ UNCHANGED <<UnlessCredited, ending, releases, next, emitted, reported, close, finished,
                   openWait, polled, call, offerVars, driverVars>>

\* The write side failed: there is nobody left to tell.
TailDrained ==
    /\ step = "pumped" /\ pump = "finish"
    /\ IF FlushFails
       THEN finished' = TRUE /\ step' = "done"
       ELSE /\ step' = IF written < filled THEN "parked" ELSE "drained"
            /\ UNCHANGED finished
    /\ StopPump
    /\ UNCHANGED <<outVars, peerVars, connVars, ending, releases, next, emitted, reported,
                   close, credit, openWait, polled, call, offerVars, driverVars, woken>>

\* The close record follows what was queued, and stops production.
TailCloses ==
    /\ call = "tail" /\ step = "drained"
    /\ close /\ closing = "no"
    /\ AppendClose
    /\ Latch("local")
    /\ UNCHANGED <<written, producePending, control, space, broken, writeWait, wire, peerVars,
                   boundary, shut, events, ahead, aheadWait, window, streams, adapterVars, call, step, pumpVars,
                   offerVars, driverVars, woken>>

TailWrites ==
    /\ call = "tail" /\ step = "drained"
    /\ closing = "queued" /\ ~FlushFails
    /\ Flush
    /\ closing' = IF Flushed THEN "written" ELSE closing
    /\ step' = IF Flushed THEN step ELSE "parked"
    /\ UNCHANGED <<producePending, control, broken, made, peerVars, connVars, adapterVars,
                   call, pumpVars, offerVars, driverVars, woken>>

\* The shutdown of the byte stream, or the failure of the close.
TailShuts ==
    /\ call = "tail" /\ step = "drained"
    /\ IF close THEN closing = "written" \/ (closing = "queued" /\ FlushFails) ELSE TRUE
    /\ closing' = IF broken THEN closing ELSE "complete"
    /\ finished' = TRUE
    /\ step' = "done"
    /\ UNCHANGED <<bufferVars, producePending, control, space, broken, writeWait, made,
                   peerVars, connVars, ending, releases, next, emitted, reported, close,
                   credit, openWait, polled, call, pumpVars, offerVars, driverVars, woken>>

\* Nothing is left to happen.
Rest ==
    /\ finished \/ (step = "parked" /\ ~woken)
    /\ UNCHANGED vars

World ==
    \/ \E d \in Kinds : Arrive(d)
    \/ Drains
    \/ Breaks
    \/ AppReads

Pump ==
    \/ PumpEnded
    \/ WriteMakesRoom
    \/ WriteProduces
    \/ WriteDone
    \/ WriteFails
    \/ ReadStops
    \/ ReadPending
    \/ ReadFails
    \/ \E k \in 1..Len(inbound) : \E n \in 0..k : ReadSome(k, n)
    \/ Pumped

Event ==
    \/ EventEnter
    \/ Release
    \/ FillTakes
    \/ FillPolls
    \/ FillPolled
    \/ FillEnds
    \/ EventPostponed
    \/ EventHanded
    \/ EventEnding
    \/ EventPending

Driver ==
    \/ Act
    \/ Shutdown
    \/ OpenEnter
    \/ OpenFails
    \/ Opens
    \/ Opened
    \/ OpenWaits
    \/ TransmitEnter
    \/ DrainEnds
    \/ \E size \in 0..Total, fin \in BOOLEAN : DrainOffers(size, fin)
    \/ OfferStops
    \/ OfferRecord
    \/ OfferGone
    \/ Settle
    \/ Close
    \/ FlushEnter
    \/ Resume

EndOfIt ==
    \/ TailEnter
    \/ TailDrained
    \/ TailCloses
    \/ TailWrites
    \/ TailShuts

Next == World \/ Pump \/ Event \/ Driver \/ EndOfIt \/ Rest

Spec == Init /\ [][Next]_vars

-----------------------------------------------------------------------------
(* Properties.                                                             *)

Units(kind) == {i \in 1..Len(made) : made[i][1] = kind}

TypeOK ==
    /\ written \in 0..filled /\ space \in 0..Ceiling
    /\ closing \in {"no", "queued", "written", "complete"}
    /\ terminal \in {"no", "io", "eof", "truncated", "peer", "local"}
    /\ ending \in {"no", "orderly", "failure"}
    /\ next \in Visible \cup {Nothing}
    /\ ahead \in Nat /\ window \in Nat /\ streams \in Nat /\ credit \in Nat
    /\ taken \in 0..offered /\ sent \in 0..Total
    /\ message \in {"going", "ended", "reset"}
    /\ pump \in {"none", "buffered", "event", "forced", "finish"}

\* The octets of the message are produced once each and in order, as many as the
\* layer is told: a refusal never hides octets that are in a record already, or the
\* layer would offer them again (accepted_or).  FIN is with the last octet and
\* nowhere else, and a message the layer takes for ended has it: an offer of nothing
\* but FIN is answered as accepted even where the record had no room left for it.
OfferIsHonest ==
    /\ {made[i][2] : i \in Units("octet")} = 1..(sent + taken)
    /\ \A i, j \in Units("octet") : i < j => made[i][2] < made[j][2]
    /\ Units("fin") # {} => sent + taken = Total /\ Cardinality(Units("fin")) = 1
    /\ message = "ended" => Units("fin") # {}

\* The task parks only with nothing it could still do: what is decoded is handed
\* over, what is queued is produced and what is produced is written unless the byte
\* stream refuses; it reads on unless the application is behind; credit is passed on;
\* a stream that was set aside can really take nothing; an open waits only at the
\* limit, and the ending has been told.
NothingWaitsAtPark ==
    step = "parked" /\ ~woken =>
        /\ written < filled => writeWait /\ space = 0
        /\ control # <<>> => writeWait /\ ~RoomForRecord
        /\ call # "tail" =>
              /\ credit = 0
              /\ inbound # <<>> => ahead >= Allowance /\ aheadWait
              /\ inbound = <<>> /\ ahead < Allowance => readWait \/ terminal # "no"
              /\ call = "idle" => /\ events = <<>> /\ next = Nothing /\ releases = 0
                                  /\ ~work
                                  /\ shelved => window = 0 \/ writeWait \/ reported
                                  /\ ending # "no" => reported
              /\ call # "idle" => streams = 0

\* The ending is told after everything that was decoded before it, and by itself: the
\* driver applies ends before data within a batch.
EndingIsLast ==
    /\ Contains(batch, "closed") => batch = <<"closed">> /\ events = <<>> /\ next = Nothing
    /\ Contains(batch, "end") => Head(batch) = "end"

\* A connection that finishes has said everything: what was queued before the close
\* precedes it, nothing follows it, and unless the byte stream broke all of it is
\* with the peer.
CloseIsLast ==
    /\ Units("close") # {} => Units("close") = {Len(made)} /\ control = <<>>
    /\ finished /\ ~broken => wire = made /\ control = <<>> /\ (close => Units("close") # {})

\* The peer gets what was produced, within the ceiling the buffer was given.
WireIsKept == WireIsMade /\ CeilingKept

\* Endings come last, the one the layer above is told and the one the peer is.
EndsComeLast == EndingIsLast /\ CloseIsLast

=============================================================================
