--------------------------- MODULE QmuxPumpProofs ---------------------------
(***************************************************************************)
(* The safety of HTTP/3 over QMux, for every size of record, buffer,       *)
(* message, batch and allowance.                                           *)
(***************************************************************************)
EXTENDS QmuxPump, SequenceTheorems, FiniteSetTheorems, TLAPS

-----------------------------------------------------------------------------
(* The inductive invariant                                                 *)

Frames == {"params", "credit", "pong", "reset"}
UnitKinds == Frames \cup {"record", "stream", "fin", "octet", "close"}
Unit == UnitKinds \X Nat
Batched == Visible \cup {"released", "closed"}
Calls == {"bind", "events", "act", "open", "transmit", "idle", "tail"}
Steps == {"enter", "write", "write again", "read", "pumped", "release", "fill", "decide",
          "flush", "open", "opened", "offer", "records", "settle", "parked", "drained", "done"}
InsidePump == {"write", "write again", "read", "pumped"}

OutTypes ==
    /\ outbound \in Seq(Unit) /\ wire \in Seq(Unit) /\ made \in Seq(Unit)
    /\ control \in Seq(Frames)
    /\ written \in Nat /\ space \in 0..Ceiling
OutFlags ==
    /\ closing \in {"no", "queued", "written", "complete"}
    /\ producePending \in BOOLEAN /\ broken \in BOOLEAN /\ writeWait \in BOOLEAN
SeqTypes == inbound \in Seq(Kinds) /\ events \in Seq(Kinds) /\ batch \in Seq(Batched)
CountTypes ==
    /\ ahead \in Nat /\ window \in Nat /\ streams \in Nat /\ releases \in Nat /\ credit \in Nat
    /\ held \in Nat /\ wanted \in {0, 1}
ConnFlags == boundary \in BOOLEAN /\ shut \in BOOLEAN /\ readWait \in BOOLEAN /\ aheadWait \in BOOLEAN
AdapterFlags ==
    /\ emitted \in BOOLEAN /\ reported \in BOOLEAN /\ close \in BOOLEAN /\ finished \in BOOLEAN
    /\ openWait \in BOOLEAN
TaskFlags ==
    /\ work \in BOOLEAN /\ woken \in BOOLEAN
    /\ ends \in BOOLEAN /\ shelved \in BOOLEAN /\ retried \in BOOLEAN
NameTypes ==
    /\ terminal \in {"no", "io", "eof", "truncated", "peer", "local"}
    /\ ending \in {"no", "orderly", "failure"}
    /\ next \in Visible \cup {Nothing} /\ polled \in {"no", "yes", "progress"}
    /\ message \in {"going", "ended", "reset"}
    /\ call \in Calls /\ step \in Steps
    /\ pump \in {"none", "buffered", "event", "forced", "finish"}
OfferTypes ==
    /\ offers \in 0..MaxOffers /\ offered \in Nat /\ taken \in 0..offered /\ sent \in Nat
    /\ sent + offered <= Total

\* The buffer is reused from its front once all of it is written.
Tidy == written < filled \/ (outbound = <<>> /\ written = 0)
Buffer == WireIsMade /\ CeilingKept /\ Tidy

\* What was delivered and not credited is with the adapter, the application or the sum.
Account == (IF next = "data" THEN 1 ELSE 0) + held + credit <= ahead

\* Which step belongs to which call, and which pump to which step.
Order ==
    /\ pump = "none" <=> step \notin InsidePump
    /\ pump = "none" => back = "none"
    /\ step \in {"write again", "read"} => pump \in {"buffered", "event"}
    /\ pump = "event" => back = "fill"
    /\ pump = "forced" => back = "parked" /\ call \in {"bind", "open", "idle"}
    /\ pump = "finish" => back = "drained" /\ call = "tail"
    /\ pump = "buffered" => \/ call \in {"events", "idle"} /\ back = "release"
                            \/ call \in {"bind", "open"} /\ back \in {"open", "opened"}
                            \/ call = "transmit" /\ back \in {"offer", "settle"}
    /\ pump = "event" \/ step \in {"release", "fill", "decide"} => call \in {"events", "idle"}
    /\ step \in {"open", "opened"} => call \in {"bind", "open"}
    /\ step \in {"offer", "records", "settle"} => call = "transmit"
    /\ step = "flush" => call \in {"bind", "open", "idle"}
    /\ step = "parked" => call \in {"bind", "open", "idle", "tail"}
    /\ step \in {"drained", "done"} => call = "tail"
    /\ call = "act" => step = "enter"
    /\ call = "open" /\ step \notin {"opened"} /\ back # "opened" => wanted = 1

\* An ending is latched from below first, and told once.
Endings ==
    /\ ending # "no" => terminal # "no"
    /\ reported => ending # "no"
    /\ call \in {"bind", "open", "transmit"} /\ pump = "none" /\ step # "enter" /\ ending = "no" =>
          terminal = "no"
    /\ step = "release" /\ ending = "no" => terminal = "no"
    /\ step = "parked" /\ ~woken /\ call # "tail" => ending = "no" /\ terminal = "no"
    /\ call \in {"bind", "open"} /\ step \in {"flush"} => ending = "no"
    /\ call = "idle" => ~reported
    /\ step = "flush" /\ ~woken => ending = "no"
    /\ pump = "forced" => ending = "no"
    /\ step = "records" => ending = "no"

\* The tail's stages.
TailOrder ==
    /\ closing # "no" => terminal # "no" /\ call = "tail" /\ pump = "none"
    /\ closing \in {"queued", "written"} => close
    /\ closing = "written" => outbound = <<>>
    /\ closing = "complete" => step = "done"
    /\ finished <=> step = "done"
    /\ close => call = "tail"
    /\ call = "tail" => close \/ terminal # "no"
    /\ step = "drained" => control = <<>> /\ (closing = "no" => outbound = <<>>)
    /\ step = "done" /\ ~broken => control = <<>> /\ outbound = <<>> /\ (close => closing = "complete")
    /\ closing # "no" => control = <<>>
    /\ step = "pumped" /\ pump = "finish" /\ outbound = <<>> => control = <<>>

\* What is queued is noticed, and a pump that ends has produced it or has no room.
Queued ==
    /\ ~producePending => control = <<>>
    /\ pump \in {"buffered", "event"} /\ step = "read" =>
          ~producePending \/ ~RoomForRecord
    /\ step = "pumped" /\ pump \in {"buffered", "event"} /\ terminal = "no" =>
          ~producePending \/ ~RoomForRecord
    /\ step \in {"offer", "settle"} /\ ending = "no" => control = <<>> \/ ~RoomForRecord
    /\ step = "records" => control = <<>> /\ (taken = 0 => RoomForRecord)

\* A buffer without room has been offered to the byte stream.
Full ==
    ~RoomForRecord /\ ~woken =>
       /\ step = "read" => writeWait
       /\ step = "pumped" /\ pump = "buffered" /\ terminal = "no" => writeWait
       /\ step = "offer" /\ ending = "no" => writeWait

\* What the forced pump and the tail leave unwritten is waited for.
Unwritten ==
    /\ step = "pumped" /\ pump = "forced" /\ terminal = "no" /\ ~woken =>
          /\ written < filled => writeWait /\ space = 0
          /\ control # <<>> => writeWait /\ ~RoomForRecord
    /\ step = "pumped" /\ pump = "finish" /\ ~broken /\ ~woken =>
          /\ written < filled => writeWait /\ space = 0
          /\ control # <<>> => writeWait /\ ~RoomForRecord
    /\ step = "parked" /\ ~woken =>
          /\ written < filled => writeWait /\ space = 0
          /\ control # <<>> => writeWait /\ ~RoomForRecord

\* A pump that read nothing has left its waker where more will come.
Registered == (ahead >= Allowance /\ aheadWait) \/ (inbound = <<>> /\ readWait)

Unread ==
    ~woken =>
       /\ step = "write again" /\ pump = "buffered" => Registered
       /\ step = "write again" /\ pump = "event" => Registered \/ events # <<>>
       /\ step = "pumped" /\ pump = "buffered" /\ terminal = "no" => Registered
       /\ step = "pumped" /\ pump = "event" /\ terminal = "no" => Registered \/ events # <<>>
       /\ step = "open" /\ ending = "no" => Registered
       /\ step = "fill" /\ polled = "yes" /\ ending = "no" => Registered
       /\ step = "decide" /\ next = Nothing /\ ending = "no" => Registered
       /\ step = "flush" => Registered
       /\ pump = "forced" => Registered
       /\ step = "parked" /\ call # "tail" => Registered

\* What poll_event has seen when it decides.
Seen ==
    /\ step = "decide" => next # Nothing \/ events = <<>>
    /\ step \in {"fill", "decide"} \/ pump = "event" => releases = 0
    /\ step = "release" \/ (pump = "buffered" /\ back = "release") => releases > 0 \/ next # Nothing
    /\ pump = "event" => next = Nothing
    /\ step = "fill" /\ polled = "yes" => events = <<>>
    /\ pump = "event" /\ step \in {"write", "read"} => events = <<>>
    /\ call = "idle" /\ step = "flush" /\ ~woken => events = <<>> /\ next = Nothing
    /\ call = "idle" /\ pump = "forced" /\ ~woken => events = <<>> /\ next = Nothing
    /\ call = "idle" /\ step = "parked" /\ ~woken => events = <<>> /\ next = Nothing
    /\ call = "idle" /\ (step \in {"flush", "parked"} \/ pump = "forced") => releases = 0
    /\ step = "parked" \/ pump = "forced" => call = "tail" \/ credit = 0
    /\ call = "idle" /\ ~woken => ~work
    /\ call \in {"bind", "open"} /\ (step \in {"flush", "parked"} \/ pump = "forced") => streams = 0

\* A stream set aside waits for the window, for room, or for a pass that is bound to come.
Retry == window = 0 \/ releases > 0 \/ writeWait \/ ending # "no"
Shelved ==
    /\ shelved => message = "going" /\ wanted = 0 /\ "send" \in Moves
    /\ step = "records" => Message /\ ~shelved /\ offers > 0
    /\ retried => offers > 0
    /\ call = "transmit" /\ shelved /\ ~woken =>
          /\ offers > 0 /\ pump # "none" => Retry \/ terminal # "no"
          /\ offers > 0 /\ step = "offer" => Retry
          /\ step = "settle" => Retry
          /\ back = "settle" => Retry \/ terminal # "no"
    /\ call = "idle" /\ shelved /\ ~woken =>
          \/ Retry \/ next # Nothing
          \/ step = "fill" /\ polled = "progress"
          \/ pump = "event" /\ events # <<>>
          \/ step = "pumped" /\ terminal # "no"

\* The octets of the message, and its end.
Finality ==
    /\ message = "ended" => sent = Total /\ taken = 0
    /\ Units("fin") # {} => message = "ended"
    /\ step = "records" => message = "going" /\ (ends => sent + offered = Total)
    /\ step = "records" => offered > taken \/ (offered = 0 /\ ends)
    /\ step # "records" => offered = 0
    /\ step = "records" /\ shut => taken = 0

\* Batches.
Batches ==
    /\ call = "events" /\ batch # <<>> => emitted
    /\ call \in {"idle", "bind"} => batch = <<>>
    /\ Contains(batch, "closed") => ending # "no" /\ reported
    /\ reported => call = "tail" \/ Contains(batch, "closed")
    /\ Contains(batch, "closed") /\ call = "events" => releases = 0
    /\ EndingIsLast

Closed ==
    /\ closing = "no" => Units("close") = {}
    /\ closing \in {"queued", "written"} => Units("close") = {Len(made)}
    /\ closing = "complete" /\ close => Units("close") = {Len(made)}
    /\ Units("close") # {} => Units("close") = {Len(made)} /\ closing # "no"

PumpInv ==
    /\ OutTypes /\ OutFlags /\ SeqTypes /\ CountTypes /\ ConnFlags /\ AdapterFlags
    /\ TaskFlags /\ NameTypes /\ OfferTypes
    /\ Buffer /\ Account /\ Order /\ Endings /\ TailOrder /\ Queued /\ Full /\ Unwritten
    /\ Unread /\ Seen /\ Shelved /\ Finality /\ OfferIsHonest /\ Batches /\ Closed

-----------------------------------------------------------------------------
(* Each layer is kept by a step that leaves its variables alone.            *)

\* The buffer, the wire and what dwnx has queued.
LEMMA OutTypesStays ==
    ASSUME OutTypes, UNCHANGED <<outbound, wire, made, control, written, space>>
    PROVE  OutTypes'
  BY DEF OutTypes

\* The flags of the write half.
LEMMA OutFlagsStays ==
    ASSUME OutFlags, UNCHANGED <<closing, producePending, broken, writeWait>>
    PROVE  OutFlags'
  BY DEF OutFlags

\* What is read, decoded and taken.
LEMMA SeqTypesStays ==
    ASSUME SeqTypes, UNCHANGED <<inbound, events, batch>>
    PROVE  SeqTypes'
  BY DEF SeqTypes, Kinds, Visible, Batched

\* The counters.
LEMMA CountTypesStays ==
    ASSUME CountTypes, UNCHANGED <<ahead, window, streams, releases, credit, held,
           wanted>>
    PROVE  CountTypes'
  BY DEF CountTypes

\* The flags of the connection.
LEMMA ConnFlagsStays ==
    ASSUME ConnFlags, UNCHANGED <<boundary, shut, readWait, aheadWait>>
    PROVE  ConnFlags'
  BY DEF ConnFlags

\* The flags of the adapter.
LEMMA AdapterFlagsStays ==
    ASSUME AdapterFlags, UNCHANGED <<emitted, reported, close, finished, openWait>>
    PROVE  AdapterFlags'
  BY DEF AdapterFlags

\* The flags of the driver and its task.
LEMMA TaskFlagsStays ==
    ASSUME TaskFlags, UNCHANGED <<work, woken, ends, shelved, retried>>
    PROVE  TaskFlags'
  BY DEF TaskFlags

\* Where each part is.
LEMMA NameTypesStays ==
    ASSUME NameTypes, UNCHANGED <<terminal, ending, next, polled, message, call, step,
           pump>>
    PROVE  NameTypes'
  BY DEF NameTypes

\* The offer.
LEMMA OfferTypesStays ==
    ASSUME OfferTypes, UNCHANGED <<offers, offered, taken, sent>>
    PROVE  OfferTypes'
  BY DEF OfferTypes

\* The buffer against the wire.
LEMMA BufferStays ==
    ASSUME Buffer, UNCHANGED <<outbound, written, wire, made>>
    PROVE  Buffer'
  BY DEF Buffer, WireIsMade, CeilingKept, Tidy, Unsent, filled

\* The account of deliveries.
LEMMA AccountStays ==
    ASSUME Account, UNCHANGED <<next, held, credit, ahead>>
    PROVE  Account'
  BY DEF Account

\* Calls, steps and pumps.
LEMMA OrderStays ==
    ASSUME Order, UNCHANGED <<pump, step, back, call, wanted>>
    PROVE  Order'
  BY DEF Order, InsidePump

\* Endings.
LEMMA EndingsStays ==
    ASSUME Endings, UNCHANGED <<ending, terminal, reported, call, pump, step, woken>>
    PROVE  Endings'
  BY DEF Endings

\* The stages of the tail.
LEMMA TailOrderStays ==
    ASSUME TailOrder, UNCHANGED <<closing, terminal, call, pump, close, outbound,
           finished, step, control, broken>>
    PROVE  TailOrder'
  BY DEF TailOrder

\* What is queued.
LEMMA QueuedStays ==
    ASSUME Queued, UNCHANGED <<producePending, control, pump, step, outbound,
           terminal, ending, taken>>
    PROVE  Queued'
  BY DEF Queued, RoomForRecord, filled

\* A full buffer.
LEMMA FullStays ==
    ASSUME Full, UNCHANGED <<outbound, woken, step, pump, terminal, ending,
           writeWait>>
    PROVE  Full'
  BY DEF Full, RoomForRecord, filled

\* What is unwritten.
LEMMA UnwrittenStays ==
    ASSUME Unwritten, UNCHANGED <<step, pump, terminal, woken, written, outbound,
           writeWait, space, control, broken>>
    PROVE  Unwritten'
  BY DEF Unwritten, RoomForRecord, filled

\* What is unread.
LEMMA UnreadStays ==
    ASSUME Unread, UNCHANGED <<woken, ahead, aheadWait, inbound, readWait, step, pump,
           events, terminal, ending, polled, next, call>>
    PROVE  Unread'
  BY DEF Unread, Registered

\* What poll_event has seen.
LEMMA SeenStays ==
    ASSUME Seen, UNCHANGED <<step, next, events, releases, pump, polled, call, woken,
           credit, work, streams, back>>
    PROVE  Seen'
  BY DEF Seen

\* A stream set aside.
LEMMA ShelvedStays ==
    ASSUME Shelved, UNCHANGED <<window, releases, writeWait, ending, shelved, message,
           wanted, scene, step, offers, call, retried, woken, pump, terminal, back,
           events, next, polled>>
    PROVE  Shelved'
  BY DEF Shelved, Retry, Message, Moves

\* The message's end.
LEMMA FinalityStays ==
    ASSUME Finality, UNCHANGED <<message, sent, taken, made, step, offered, ends,
           shut>>
    PROVE  Finality'
  BY DEF Finality, Units

\* The octets of the message.
LEMMA OfferIsHonestStays ==
    ASSUME OfferIsHonest, UNCHANGED <<made, sent, taken, message>>
    PROVE  OfferIsHonest'
  BY DEF OfferIsHonest, Units

\* Batches.
LEMMA BatchesStays ==
    ASSUME Batches, UNCHANGED <<call, batch, emitted, ending, reported, releases,
           events, next>>
    PROVE  Batches'
  BY DEF Batches, EndingIsLast, Contains

\* The close record.
LEMMA ClosedStays ==
    ASSUME Closed, UNCHANGED <<closing, made, close>>
    PROVE  Closed'
  BY DEF Closed, Units

-----------------------------------------------------------------------------
(* The write half                                                          *)

\* What is unsent grows by what is appended.
LEMMA UnsentAppended ==
    ASSUME NEW S, NEW s \in Seq(S), NEW r \in Seq(S), NEW a \in 0..Len(s)
    PROVE  SubSeq(s \o r, a + 1, Len(s) + Len(r)) = SubSeq(s, a + 1, Len(s)) \o r
  <1> DEFINE x == s \o r
             y == SubSeq(s, a + 1, Len(s))
             u == SubSeq(x, a + 1, Len(s) + Len(r))
             v == y \o r
  <1>1. /\ x \in Seq(S) /\ Len(x) = Len(s) + Len(r) /\ Len(s) \in Nat /\ Len(r) \in Nat
        /\ \A i \in 1..(Len(s) + Len(r)) : x[i] = IF i <= Len(s) THEN s[i] ELSE r[i - Len(s)]
    BY ConcatProperties
  <1>2. /\ y \in Seq(S) /\ Len(y) = Len(s) - a
        /\ \A i \in 1..(Len(s) - a) : y[i] = s[a + i]
    OBVIOUS
  <1> HIDE DEF x, y
  <1>3. /\ a + 1 \in Int /\ Len(x) \in Int
        /\ \A i \in (a + 1)..Len(x) : x[i] \in S
    BY <1>1
  <1>4. /\ SubSeq(x, a + 1, Len(x)) \in Seq(S)
        /\ Len(SubSeq(x, a + 1, Len(x)))
             = IF a + 1 <= Len(x) THEN Len(x) - (a + 1) + 1 ELSE 0
        /\ \A i \in 1..(Len(x) - (a + 1) + 1) : SubSeq(x, a + 1, Len(x))[i] = x[a + 1 + i - 1]
    BY <1>3, SubSeqProperties
  <1>5. u = SubSeq(x, a + 1, Len(x))
    BY <1>1
  <1> HIDE DEF u
  <1>6. /\ u \in Seq(S) /\ Len(u) = Len(s) + Len(r) - a
        /\ \A i \in 1..(Len(s) + Len(r) - a) : u[i] = x[a + i]
    BY <1>1, <1>4, <1>5
  <1>7. /\ v \in Seq(S) /\ Len(v) = Len(y) + Len(r)
        /\ \A i \in 1..(Len(y) + Len(r)) : v[i] = IF i <= Len(y) THEN y[i] ELSE r[i - Len(y)]
    BY <1>2, ConcatProperties
  <1> HIDE DEF v
  <1>8. /\ v \in Seq(S) /\ Len(v) = Len(s) - a + Len(r)
        /\ \A i \in 1..(Len(s) - a + Len(r)) :
              v[i] = IF i <= Len(s) - a THEN y[i] ELSE r[i - (Len(s) - a)]
    BY <1>2, <1>7
  <1>9. \A i \in 1..Len(u) : u[i] = v[i]
    <2> SUFFICES ASSUME NEW i \in 1..Len(u) PROVE u[i] = v[i]
      OBVIOUS
    <2>1. CASE i <= Len(s) - a
      BY <1>1, <1>2, <1>6, <1>8, <2>1
    <2>2. CASE i > Len(s) - a
      <3>1. /\ a + i \in 1..(Len(s) + Len(r)) /\ ~(a + i <= Len(s))
            /\ (a + i) - Len(s) = i - (Len(s) - a)
            /\ i \in 1..(Len(s) + Len(r) - a) /\ i \in 1..(Len(s) - a + Len(r))
            /\ ~(i <= Len(s) - a)
        BY <1>1, <1>6, <2>2
      <3>2. u[i] = r[(a + i) - Len(s)]
        BY <1>1, <1>6, <3>1
      <3>3. v[i] = r[i - (Len(s) - a)]
        BY <1>8, <3>1
      <3> QED
        BY <3>1, <3>2, <3>3
    <2> QED
      BY <1>1, <1>6, <2>1, <2>2
  <1>10. u = v
    <2>1. Len(u) = Len(v) /\ u \in Seq(S) /\ v \in Seq(S)
      BY <1>1, <1>6, <1>8
    <2> QED
      BY <1>9, <2>1, SeqEqual, Zenon
  <1> QED
    BY <1>10 DEF u, v, x, y

\* What is written and what is left of it are what was unsent.
LEMMA UnsentSplit ==
    ASSUME NEW S, NEW w \in Seq(S), NEW s \in Seq(S), NEW a \in 0..Len(s),
           NEW b \in a..Len(s)
    PROVE  (w \o SubSeq(s, a + 1, b)) \o SubSeq(s, b + 1, Len(s))
             = w \o SubSeq(s, a + 1, Len(s))
  <1> DEFINE u == SubSeq(s, a + 1, b)
             v == SubSeq(s, b + 1, Len(s))
  <1>1. u \in Seq(S) /\ v \in Seq(S)
    OBVIOUS
  <1>2. u \o v = SubSeq(s, a + 1, Len(s))
    <2> DEFINE m == a + 1
    <2>1. /\ m \in 1..(Len(s) + 1) /\ b \in (m - 1)..Len(s) /\ Len(s) \in b..Len(s)
      OBVIOUS
    <2> HIDE DEF m
    <2>2. SubSeq(s, m, b) \o SubSeq(s, b + 1, Len(s)) = SubSeq(s, m, Len(s))
      BY <2>1, ConcatAdjacentSubSeq
    <2> QED
      BY <2>2 DEF m
  <1> HIDE DEF u, v
  <1>3. (w \o u) \o v = w \o (u \o v)
    BY <1>1, ConcatAssociative
  <1> QED
    BY <1>2, <1>3 DEF u, v

\* flush moves the cursor by what the byte stream takes: either all of it is written
\* and the buffer starts again, or the waker is left with the byte stream.
LEMMA FlushMoves ==
    ASSUME OutTypes, OutFlags, Buffer, Flush, UNCHANGED made
    PROVE  /\ outbound' \in Seq(Unit) /\ wire' \in Seq(Unit) /\ written' \in Nat
           /\ space' \in 0..Ceiling /\ writeWait' \in BOOLEAN
           /\ Buffer'
           /\ \/ outbound' = <<>> /\ written' = 0 /\ writeWait' = writeWait
              \/ /\ outbound' = outbound /\ written' < Len(outbound)
                 /\ writeWait' /\ space' = 0
  <1> DEFINE n == Lower(space, filled - written)
  <1>1. /\ outbound \in Seq(Unit) /\ wire \in Seq(Unit) /\ made \in Seq(Unit)
        /\ written \in Nat /\ space \in Nat /\ space <= Ceiling /\ Len(outbound) \in Nat
        /\ written <= Len(outbound) /\ Len(outbound) <= Ceiling
    BY CeilingAssumption DEF OutTypes, Buffer, Tidy, CeilingKept, filled
  <1>2. /\ n \in Nat /\ n <= space /\ written + n <= Len(outbound)
        /\ written + n < Len(outbound) => n = space
    BY <1>1 DEF Lower, filled
  <1>3. /\ wire' = wire \o SubSeq(outbound, written + 1, written + n)
        /\ space' = space - n
        /\ IF written + n = Len(outbound)
           THEN outbound' = <<>> /\ written' = 0 /\ writeWait' = writeWait
           ELSE written' = written + n /\ writeWait' = TRUE /\ outbound' = outbound
    BY DEF Flush, filled
  <1>4. wire \o SubSeq(outbound, written + 1, Len(outbound)) = made
    BY DEF Buffer, WireIsMade, Unsent, filled
  <1> HIDE DEF n
  <1>5. SubSeq(outbound, written + 1, written + n) \in Seq(Unit)
    BY <1>1, <1>2
  <1>6. wire' \in Seq(Unit)
    BY <1>1, <1>3, <1>5
  <1>7. writeWait' \in BOOLEAN
    BY <1>3, Zenon DEF OutFlags
  <1>8. space' \in 0..Ceiling
    BY <1>1, <1>2, <1>3, CeilingAssumption
  <1>9. wire' \in Seq(Unit) /\ space' \in 0..Ceiling /\ writeWait' \in BOOLEAN
    BY <1>6, <1>7, <1>8
  <1>10. CASE written + n = Len(outbound)
    <2>1. outbound' = <<>> /\ written' = 0 /\ writeWait' = writeWait
      BY <1>3, <1>10
    <2>2. wire' = made
      BY <1>3, <1>4, <1>10
    <2>3. made' \in Seq(Unit) /\ made' = made
      BY <1>1
    <2>4. SubSeq(outbound', 1, 0) = <<>> /\ Len(outbound') = 0
      BY <2>1
    <2>5. wire' \o SubSeq(outbound', written' + 1, Len(outbound')) = made'
      BY <2>1, <2>2, <2>3, <2>4
    <2> QED
      BY <1>9, <2>1, <2>4, <2>5, CeilingAssumption
      DEF Buffer, WireIsMade, CeilingKept, Tidy, Unsent, filled
  <1>11. CASE written + n # Len(outbound)
    <2>1. /\ outbound' = outbound /\ written' = written + n /\ writeWait' = TRUE
          /\ written' < Len(outbound) /\ space' = 0
      BY <1>1, <1>2, <1>3, <1>11
    <2>2. SubSeq(outbound, written + n + 1, Len(outbound)) \in Seq(Unit)
      BY <1>1, <1>2
    <2>3. written \in 0..Len(outbound) /\ written + n \in written..Len(outbound)
      BY <1>1, <1>2
    <2>4. wire' \o SubSeq(outbound, written + n + 1, Len(outbound)) = made
      BY <1>1, <1>3, <1>4, <2>3, UnsentSplit
    <2>5. wire' \o SubSeq(outbound', written' + 1, Len(outbound')) = made'
      BY <1>1, <1>2, <2>1, <2>4
    <2>6. Len(outbound') <= Ceiling /\ written' < Len(outbound') /\ written' \in Nat
      BY <1>1, <1>2, <2>1
    <2> QED
      BY <1>1, <1>9, <2>1, <2>5, <2>6
      DEF Buffer, WireIsMade, CeilingKept, Tidy, Unsent, filled
  <1> QED
    BY <1>10, <1>11

\* serialise and poll_close append a record where there is room for it.
LEMMA AppendKeeps ==
    ASSUME OutTypes, Buffer, NEW r \in Seq(Unit), Len(outbound) + Len(r) <= Ceiling,
           outbound' = outbound \o r, made' = made \o r, UNCHANGED <<written, wire>>
    PROVE  /\ outbound' \in Seq(Unit) /\ made' \in Seq(Unit)
           /\ Len(outbound') = Len(outbound) + Len(r)
           /\ Buffer'
  <1>1. /\ outbound \in Seq(Unit) /\ wire \in Seq(Unit) /\ made \in Seq(Unit)
        /\ written \in Nat /\ written <= Len(outbound)
    BY DEF OutTypes, Buffer, Tidy, filled
  <1>2. /\ outbound' \in Seq(Unit) /\ made' \in Seq(Unit)
        /\ Len(outbound') = Len(outbound) + Len(r)
    BY <1>1
  <1>3. wire \o SubSeq(outbound, written + 1, Len(outbound)) = made
    BY DEF Buffer, WireIsMade, Unsent, filled
  <1>4. SubSeq(outbound \o r, written + 1, Len(outbound) + Len(r))
          = SubSeq(outbound, written + 1, Len(outbound)) \o r
    <2>1. written \in 0..Len(outbound)
      BY <1>1
    <2> QED
      BY <1>1, <2>1, UnsentAppended, Zenon
  <1>5. wire' \o SubSeq(outbound', written' + 1, Len(outbound')) = made'
    <2> DEFINE u == SubSeq(outbound, written + 1, Len(outbound))
    <2>1. u \in Seq(Unit)
      BY <1>1
    <2>2. (wire \o u) \o r = wire \o (u \o r)
      <3>1. \A a, b, c \in Seq(Unit) : (a \o b) \o c = a \o (b \o c)
        BY ConcatAssociative
      <3> HIDE DEF u
      <3> QED
        BY <1>1, <2>1, <3>1, Zenon
    <2>3. wire \o (SubSeq(outbound, written + 1, Len(outbound)) \o r) = made \o r
      BY <1>3, <2>2
    <2> QED
      BY <1>2, <1>4, <2>3
  <1>6. \/ written' < Len(outbound')
        \/ outbound' = <<>> /\ written' = 0
    BY <1>1, <1>2 DEF Buffer, Tidy, filled
  <1> QED
    BY <1>2, <1>5, <1>6 DEF Buffer, WireIsMade, CeilingKept, Tidy, Unsent, filled

\* The units of a kind after a record is appended.
LEMMA UnitsAppended ==
    ASSUME made \in Seq(Unit), NEW r \in Seq(Unit), made' = made \o r
    PROVE  /\ Len(made') = Len(made) + Len(r)
           /\ \A i \in 1..Len(made) : made'[i] = made[i]
           /\ \A i \in 1..Len(r) : made'[Len(made) + i] = r[i]
           /\ \A kind, i : i \in Units(kind)' <=>
                 \/ i \in Units(kind)
                 \/ \E j \in 1..Len(r) : i = Len(made) + j /\ r[j][1] = kind
  <1>1. /\ Len(made') = Len(made) + Len(r)
        /\ \A i \in 1..Len(made) : made'[i] = made[i]
        /\ \A i \in 1..Len(r) : made'[Len(made) + i] = r[i]
    OBVIOUS
  <1>2. Len(made) \in Nat /\ Len(r) \in Nat
    OBVIOUS
  <1>3. \A i : i \in 1..Len(made') <=>
               \/ i \in 1..Len(made)
               \/ \E j \in 1..Len(r) : i = Len(made) + j
    <2>1. \A i \in 1..(Len(made) + Len(r)) : i > Len(made) =>
             i - Len(made) \in 1..Len(r) /\ i = Len(made) + (i - Len(made))
      BY <1>2
    <2>2. ASSUME NEW i \in 1..Len(made')
          PROVE  i \in 1..Len(made) \/ \E j \in 1..Len(r) : i = Len(made) + j
      <3>1. CASE i > Len(made)
        BY <1>1, <2>1, <3>1
      <3>2. CASE ~(i > Len(made))
        BY <1>1, <1>2, <3>2
      <3> QED
        BY <3>1, <3>2
    <2>3. ASSUME NEW i, i \in 1..Len(made) \/ \E j \in 1..Len(r) : i = Len(made) + j
          PROVE  i \in 1..Len(made')
      BY <1>1, <1>2, <2>3
    <2> QED
      BY <2>2, <2>3
  <1>4. ASSUME NEW kind, NEW i
        PROVE  i \in Units(kind)' <=>
                 \/ i \in Units(kind)
                 \/ \E j \in 1..Len(r) : i = Len(made) + j /\ r[j][1] = kind
    <2>1. i \in Units(kind) <=> i \in 1..Len(made) /\ made[i][1] = kind
      BY DEF Units
    <2>2. i \in Units(kind)' <=> i \in 1..Len(made') /\ made'[i][1] = kind
      BY DEF Units
    <2>3. CASE i \in 1..Len(made)
      <3>1. ~\E j \in 1..Len(r) : i = Len(made) + j
        BY <1>2, <2>3
      <3> QED
        BY <1>1, <1>3, <2>1, <2>2, <2>3, <3>1
    <2>4. CASE \E j \in 1..Len(r) : i = Len(made) + j
      <3>1. PICK j \in 1..Len(r) : i = Len(made) + j
        BY <2>4
      <3>2. i \notin 1..Len(made) /\ i \in 1..Len(made') /\ made'[i] = r[j]
        BY <1>1, <1>2, <3>1
      <3>3. \A m \in 1..Len(r) : i = Len(made) + m => m = j
        BY <1>2, <3>1
      <3>4. (\E m \in 1..Len(r) : i = Len(made) + m /\ r[m][1] = kind) <=> r[j][1] = kind
        BY <3>1, <3>3
      <3> QED
        BY <2>1, <2>2, <3>2, <3>4
    <2>5. CASE i \notin 1..Len(made')
      BY <1>3, <2>1, <2>2, <2>5
    <2> QED
      BY <1>3, <2>3, <2>4, <2>5, Zenon
  <1> QED
    BY <1>1, <1>4

-----------------------------------------------------------------------------
(* What goes into a record                                                 *)

\* With nothing queued a record has no control frames.
LEMMA NoControls ==
    ASSUME control = <<>>, NEW room \in Nat, room > 0
    PROVE  /\ PackedControl(room) = <<>> /\ Controls(room) = <<>>
           /\ SubSeq(control, Len(PackedControl(room)) + 1, Len(control)) = <<>>
  <1>1. Len(control) = 0 /\ Lower(0, room - 1) = 0
    BY DEF Lower
  <1>2. PackedControl(room) = <<>>
    BY <1>1 DEF PackedControl
  <1>3. Len(PackedControl(room)) = 0
    BY <1>2
  <1>4. Controls(room) = <<>>
    BY <1>3 DEF Controls
  <1>5. SubSeq(control, 1, 0) = <<>>
    OBVIOUS
  <1> QED
    BY <1>1, <1>2, <1>3, <1>4, <1>5

\* A record of control frames fits, and says nothing of the message.
LEMMA ControlsFit ==
    ASSUME control \in Seq(Frames), control # <<>>
    PROVE  /\ Record(Controls(MaxRecord)) \in Seq(Unit)
           /\ Len(Record(Controls(MaxRecord))) <= MaxRecord
           /\ \A j \in 1..Len(Record(Controls(MaxRecord))) :
                 Record(Controls(MaxRecord))[j][1] \in Frames \cup {"record"}
           /\ SubSeq(control, Len(PackedControl(MaxRecord)) + 1, Len(control)) \in Seq(Frames)
  <1> DEFINE p == PackedControl(MaxRecord)
             c == Controls(MaxRecord)
             h == <<Header("record")>>
             r == h \o c
  <1>1. /\ MaxRecord \in Nat /\ MaxRecord >= 3 /\ Len(control) \in Nat /\ Len(control) > 0
    BY RecordAssumption
  <1>2. /\ Lower(Len(control), MaxRecord - 1) \in 1..Len(control)
        /\ Lower(Len(control), MaxRecord - 1) <= MaxRecord - 1
    BY <1>1 DEF Lower
  <1>3. /\ p \in Seq(Frames) /\ Len(p) \in Nat /\ Len(p) >= 1 /\ Len(p) <= MaxRecord - 1
        /\ Len(p) <= Len(control)
    BY <1>1, <1>2 DEF PackedControl
  <1>4. SubSeq(control, Len(p) + 1, Len(control)) \in Seq(Frames)
    BY <1>1, <1>3
  <1>5. \A i \in 1..Len(p) : p[i] \in Frames
    BY <1>3
  <1> HIDE DEF p
  <1>6. c = [i \in 1..Len(p) |-> <<p[i], 0>>]
    BY DEF Controls, Header, p
  <1>7. \A i \in 1..Len(p) : <<p[i], 0>> \in Unit /\ <<p[i], 0>>[1] \in Frames
    BY <1>5 DEF Unit, UnitKinds
  <1>8. /\ c \in Seq(Unit) /\ Len(c) = Len(p)
        /\ \A i \in 1..Len(c) : c[i][1] \in Frames
    BY <1>3, <1>6, <1>7
  <1>9. h \in Seq(Unit) /\ Len(h) = 1 /\ h[1][1] = "record"
    BY DEF Header, Unit, UnitKinds
  <1> HIDE DEF c, h
  <1>10. /\ r \in Seq(Unit) /\ Len(r) = 1 + Len(c)
         /\ \A i \in 1..(1 + Len(c)) : r[i] = IF i <= 1 THEN h[i] ELSE c[i - 1]
    <2>1. /\ r \in Seq(Unit) /\ Len(r) = Len(h) + Len(c)
          /\ \A i \in 1..(Len(h) + Len(c)) : r[i] = IF i <= Len(h) THEN h[i] ELSE c[i - Len(h)]
      BY <1>8, <1>9, ConcatProperties, Zenon
    <2> QED
      BY <1>3, <1>8, <1>9, <2>1
  <1>11. Record(c) = r
    BY <1>3, <1>8 DEF Record, h
  <1> HIDE DEF r
  <1>12. \A j \in 1..Len(r) : r[j][1] \in Frames \cup {"record"}
    <2> SUFFICES ASSUME NEW j \in 1..Len(r) PROVE r[j][1] \in Frames \cup {"record"}
      OBVIOUS
    <2>1. CASE j = 1
      BY <1>3, <1>8, <1>9, <1>10, <2>1
    <2>2. CASE j # 1
      <3>1. j - 1 \in 1..Len(c) /\ r[j] = c[j - 1]
        BY <1>3, <1>8, <1>10, <2>2
      <3> QED
        BY <1>8, <3>1
    <2> QED
      BY <2>1, <2>2
  <1>13. Len(r) <= MaxRecord
    BY <1>1, <1>3, <1>8, <1>10
  <1> QED
    BY <1>4, <1>10, <1>11, <1>12, <1>13 DEF p, c

\* How much of an offer goes into a record.
LEMMA OctetsPacked ==
    ASSUME control = <<>>, NEW room \in Nat, room > 0, NEW size \in Nat, NEW win \in Nat
    PROVE  /\ PackedOctets(room, size, win) \in 0..size
           /\ PackedOctets(room, size, win) <= win
           /\ PackedOctets(room, size, win) > 0 => PackedOctets(room, size, win) + 2 <= room
           /\ room >= 3 /\ PackedOctets(room, size, win) = 0 => size = 0 \/ win = 0
           /\ \A fin : PackedFin(room, size, fin, win) <=>
                         /\ fin /\ PackedOctets(room, size, win) = size
                         /\ size = 0 => room >= 2
  <1>1. Len(PackedControl(room)) = 0
    BY NoControls
  <1> QED
    BY <1>1 DEF PackedOctets, PackedFin, Lower

\* A record with k octets after the first of them, and with FIN where they are the last.
Carries(r, from, k, last) ==
    /\ Len(r) = IF k > 0 \/ last THEN k + 2 ELSE 0
    /\ \A j \in 1..Len(r) : r[j][1] = "octet" <=> j > 2
    /\ \A j \in 1..Len(r) : j > 2 => r[j][2] = from + (j - 2)
    /\ \A j \in 1..Len(r) : r[j][1] = "fin" <=> j = 2 /\ last
    /\ \A j \in 1..Len(r) : r[j][1] # "close"

\* The record of an offer: its octets follow those packed before, and FIN is with the
\* last of them.
LEMMA OfferFits ==
    ASSUME control = <<>>, NEW room \in Nat, room > 0, NEW from \in Nat, NEW size \in Nat,
           NEW fin \in BOOLEAN, NEW win \in Nat
    PROVE  /\ Record(Controls(room) \o StreamFrame(room, from, size, fin, win)) \in Seq(Unit)
           /\ Len(Record(Controls(room) \o StreamFrame(room, from, size, fin, win))) <= room
           /\ Carries(Record(Controls(room) \o StreamFrame(room, from, size, fin, win)), from,
                      PackedOctets(room, size, win), PackedFin(room, size, fin, win))
  <1> DEFINE k == PackedOctets(room, size, win)
             last == PackedFin(room, size, fin, win)
             r == Record(Controls(room) \o StreamFrame(room, from, size, fin, win))
             o == Octets(from, k)
             g == IF last THEN Header("fin") ELSE Header("stream")
             h == <<Header("record")>>
             f == <<g>>
  <1>1. /\ k \in Nat /\ k <= size /\ (k > 0 => k + 2 <= room)
        /\ last <=> fin /\ k = size /\ (size = 0 => room >= 2)
    <2>1. k \in 0..size /\ (k > 0 => k + 2 <= room)
      BY OctetsPacked
    <2>2. \A e : PackedFin(room, size, e, win) <=>
                     /\ e /\ PackedOctets(room, size, win) = size
                     /\ size = 0 => room >= 2
      BY OctetsPacked
    <2>3. last <=> fin /\ k = size /\ (size = 0 => room >= 2)
      BY <2>2, Zenon
    <2> QED
      BY <2>1, <2>3
  <1>2. Controls(room) = <<>>
    BY NoControls
  <1>3. StreamFrame(room, from, size, fin, win) = IF k > 0 \/ last THEN f \o o ELSE <<>>
    BY <1>1 DEF StreamFrame
  <1>4. r = Record(Controls(room) \o StreamFrame(room, from, size, fin, win))
    OBVIOUS
  <1> SUFFICES r \in Seq(Unit) /\ Len(r) <= room /\ Carries(r, from, k, last)
    OBVIOUS
  <1> HIDE DEF k, last, r
  <1>5. o = [i \in 1..k |-> <<"octet", from + i>>]
    BY DEF Octets
  <1>6. \A i \in 1..k : <<"octet", from + i>> \in Unit
    BY <1>1 DEF Unit, UnitKinds
  <1>7. /\ o \in Seq(Unit) /\ Len(o) = k
        /\ \A i \in 1..k : o[i][1] = "octet" /\ o[i][2] = from + i
    <2> HIDE DEF o
    <2>1. o \in [1..k -> Unit] /\ \A i \in 1..k : o[i] = <<"octet", from + i>>
      BY <1>5, <1>6
    <2>2. o \in Seq(Unit) /\ Len(o) = k
      BY <1>1, <2>1
    <2> QED
      BY <2>1, <2>2
  <1>8. /\ f \in Seq(Unit) /\ Len(f) = 1 /\ f[1] = g /\ f # <<>>
        /\ g[1] = IF last THEN "fin" ELSE "stream"
    BY DEF Header, Unit, UnitKinds
  <1>9. h \in Seq(Unit) /\ Len(h) = 1 /\ h[1][1] = "record"
    BY DEF Header, Unit, UnitKinds
  <1> HIDE DEF o, g, h, f
  <1>10. CASE k > 0 \/ last
    <2> DEFINE q == f \o o
    <2>1. /\ q \in Seq(Unit) /\ Len(q) = 1 + k /\ q # <<>>
          /\ \A i \in 1..(1 + k) : q[i] = IF i <= 1 THEN f[i] ELSE o[i - 1]
      <3>1. o \in Seq(Unit) /\ f \in Seq(Unit)
        BY <1>7, <1>8
      <3>2. /\ q \in Seq(Unit) /\ Len(q) = Len(f) + Len(o)
            /\ \A i \in 1..(Len(f) + Len(o)) : q[i] = IF i <= Len(f) THEN f[i] ELSE o[i - Len(f)]
        BY <3>1, ConcatProperties, Zenon
      <3> QED
        BY <1>1, <1>7, <1>8, <3>2
    <2>2. <<>> \o q = q
      BY <2>1, ConcatEmptySeq
    <2>3. r = h \o q
      <3> HIDE DEF q
      <3>1. Controls(room) \o StreamFrame(room, from, size, fin, win) = q
        BY <1>2, <1>3, <1>10, <2>2 DEF q
      <3> QED
        BY <1>4, <2>1, <3>1 DEF Record, h
    <2> HIDE DEF q
    <2>4. /\ r \in Seq(Unit) /\ Len(r) = k + 2
          /\ \A i \in 1..(k + 2) : r[i] = IF i <= 1 THEN h[i] ELSE q[i - 1]
      <3> DEFINE x == h \o q
      <3>1. h \in Seq(Unit) /\ q \in Seq(Unit)
        BY <1>9, <2>1
      <3>2. /\ x \in Seq(Unit) /\ Len(x) = Len(h) + Len(q)
            /\ \A i \in 1..(Len(h) + Len(q)) : x[i] = IF i <= Len(h) THEN h[i] ELSE q[i - Len(h)]
        BY <3>1, ConcatProperties, Zenon
      <3>3. /\ r \in Seq(Unit) /\ Len(r) = Len(h) + Len(q)
            /\ \A i \in 1..(Len(h) + Len(q)) : r[i] = IF i <= Len(h) THEN h[i] ELSE q[i - Len(h)]
        BY <2>3, <3>2
      <3> QED
        BY <1>1, <1>9, <2>1, <3>3
    <2>5. Len(r) <= room
      BY <1>1, <1>10, <2>4
    <2>6. ASSUME NEW j \in 1..Len(r)
          PROVE  /\ r[j][1] = "octet" <=> j > 2
                 /\ j > 2 => r[j][2] = from + (j - 2)
                 /\ r[j][1] = "fin" <=> j = 2 /\ last
                 /\ r[j][1] # "close"
      <3>1. CASE j = 1
        BY <1>1, <1>9, <2>4, <3>1
      <3>2. CASE j = 2
        <4>1. r[j] = g
          BY <1>1, <1>8, <2>1, <2>4, <3>2
        <4> QED
          BY <1>8, <3>2, <4>1
      <3>3. CASE j > 2
        <4>1. j - 2 \in 1..k /\ r[j] = o[j - 2]
          <5>1. j - 1 \in 1..(1 + k) /\ ~(j - 1 <= 1) /\ (j - 1) - 1 = j - 2 /\ j - 2 \in 1..k
            BY <1>1, <2>4, <3>3
          <5>2. r[j] = q[j - 1]
            BY <1>1, <2>4, <3>3
          <5> QED
            BY <2>1, <5>1, <5>2
        <4>2. j # 2
          BY <3>3
        <4> QED
          BY <1>7, <3>3, <4>1, <4>2
      <3> QED
        BY <2>4, <1>1, <3>1, <3>2, <3>3
    <2> QED
      BY <1>10, <2>4, <2>5, <2>6 DEF Carries
  <1>11. CASE ~(k > 0 \/ last)
    <2>1. r = <<>>
      BY <1>2, <1>3, <1>11, <1>4 DEF Record
    <2> QED
      BY <1>11, <2>1 DEF Carries
  <1> QED
    BY <1>10, <1>11

\* A record that says nothing of the message leaves the account of it as it was.
LEMMA QuietUnits ==
    ASSUME made \in Seq(Unit), NEW r \in Seq(Unit), made' = made \o r,
           NEW kind, \A j \in 1..Len(r) : r[j][1] # kind
    PROVE  Units(kind)' = Units(kind) /\ \A i \in Units(kind) : made'[i] = made[i]
  <1>1. \A i : i \in Units(kind)' <=>
              \/ i \in Units(kind)
              \/ \E j \in 1..Len(r) : i = Len(made) + j /\ r[j][1] = kind
    BY UnitsAppended
  <1>2. \A i : i \in Units(kind)' <=> i \in Units(kind)
    BY <1>1, Zenon
  <1>3. \A i \in Units(kind) : made'[i] = made[i]
    BY UnitsAppended DEF Units
  <1> QED
    BY <1>2, <1>3

\* The same for what the layer above was told, while it is told nothing new.
LEMMA HonestStays ==
    ASSUME made \in Seq(Unit), NEW r \in Seq(Unit), made' = made \o r, OfferIsHonest,
           \A j \in 1..Len(r) : r[j][1] # "octet", \A j \in 1..Len(r) : r[j][1] # "fin",
           UNCHANGED <<sent, taken>>, message' = message \/ message' = "reset"
    PROVE  OfferIsHonest'
  <1>1. /\ Units("octet")' = Units("octet")
        /\ \A i \in Units("octet") : made'[i] = made[i]
        /\ Units("fin")' = Units("fin")
    BY QuietUnits
  <1>2. {made'[i][2] : i \in Units("octet")'} = {made[i][2] : i \in Units("octet")}
    BY <1>1
  <1>3. {made'[i][2] : i \in Units("octet")'} = 1..(sent' + taken')
    BY <1>2 DEF OfferIsHonest
  <1>4. \A i, j \in Units("octet")' : i < j => made'[i][2] < made'[j][2]
    BY <1>1 DEF OfferIsHonest
  <1>5. Units("fin")' # {} => sent' + taken' = Total /\ Cardinality(Units("fin")') = 1
    BY <1>1 DEF OfferIsHonest
  <1>6. message' = "ended" => Units("fin")' # {}
    BY <1>1 DEF OfferIsHonest
  <1> QED
    BY <1>3, <1>4, <1>5, <1>6 DEF OfferIsHonest

\* The octets of an offer's record go on where the last one stopped.
LEMMA HonestGrows ==
    ASSUME made \in Seq(Unit), NEW r \in Seq(Unit), made' = made \o r, OfferIsHonest,
           NEW n \in Nat, n = sent + taken, NEW k \in Nat, sent' + taken' = n + k,
           NEW last \in BOOLEAN, Units("fin") = {}, last => n + k = Total,
           message' = "ended" => last, Carries(r, n, k, last)
    PROVE  OfferIsHonest'
  <1> DEFINE m == Len(made)
  <1>1. /\ Len(r) = IF k > 0 \/ last THEN k + 2 ELSE 0
        /\ \A j \in 1..Len(r) : r[j][1] = "octet" <=> j > 2
        /\ \A j \in 1..Len(r) : j > 2 => r[j][2] = n + (j - 2)
        /\ \A j \in 1..Len(r) : r[j][1] = "fin" <=> j = 2 /\ last
    BY DEF Carries
  <1>2. /\ m \in Nat
        /\ \A i \in 1..m : made'[i] = made[i]
        /\ \A i \in 1..Len(r) : made'[m + i] = r[i]
    BY UnitsAppended
  <1>3. \A kind, i : i \in Units(kind)' <=>
              i \in Units(kind) \/ \E j \in 1..Len(r) : i = m + j /\ r[j][1] = kind
    BY UnitsAppended
  <1>4. \A i \in Units("octet") : i \in 1..m /\ made'[i] = made[i]
    BY <1>2 DEF Units
  <1> HIDE DEF m
  <1>5. \A i : i \in Units("octet")' <=>
              i \in Units("octet") \/ \E j \in 1..k : i = m + 2 + j
    <2>1. ASSUME NEW i, NEW j \in 1..Len(r), i = m + j, r[j][1] = "octet"
          PROVE  \E l \in 1..k : i = m + 2 + l
      <3>1. j > 2 /\ j - 2 \in 1..k /\ i = m + 2 + (j - 2)
        BY <1>2, <1>1, <2>1
      <3> QED
        BY <3>1
    <2>2. ASSUME NEW i, NEW l \in 1..k, i = m + 2 + l
          PROVE  \E j \in 1..Len(r) : i = m + j /\ r[j][1] = "octet"
      <3>1. l + 2 \in 1..Len(r) /\ l + 2 > 2 /\ i = m + (l + 2)
        BY <1>2, <1>1, <2>2
      <3> QED
        BY <1>1, <3>1
    <2>3. \A i : i \in Units("octet")' <=>
              i \in Units("octet") \/ \E j \in 1..Len(r) : i = m + j /\ r[j][1] = "octet"
      BY <1>3
    <2>4. \A i : (\E j \in 1..Len(r) : i = m + j /\ r[j][1] = "octet") =>
                  \E l \in 1..k : i = m + 2 + l
      BY <2>1, Zenon
    <2>5. \A i : (\E l \in 1..k : i = m + 2 + l) =>
                  \E j \in 1..Len(r) : i = m + j /\ r[j][1] = "octet"
      BY <2>2, Zenon
    <2> SUFFICES ASSUME NEW i
                 PROVE  i \in Units("octet")' <=>
                          i \in Units("octet") \/ \E j \in 1..k : i = m + 2 + j
      OBVIOUS
    <2>6. i \in Units("octet")' <=>
              i \in Units("octet") \/ \E j \in 1..Len(r) : i = m + j /\ r[j][1] = "octet"
      BY <2>3
    <2>7. (\E j \in 1..Len(r) : i = m + j /\ r[j][1] = "octet") <=>
              \E l \in 1..k : i = m + 2 + l
      BY <2>4, <2>5, Zenon
    <2> QED
      BY <2>6, <2>7, Zenon
  <1>6. \A j \in 1..k : m + 2 + j > m /\ made'[m + 2 + j][2] = n + j
    <2> SUFFICES ASSUME NEW j \in 1..k PROVE m + 2 + j > m /\ made'[m + 2 + j][2] = n + j
      OBVIOUS
    <2>1. /\ j + 2 \in 1..Len(r) /\ j + 2 > 2 /\ m + 2 + j = m + (j + 2)
          /\ n + ((j + 2) - 2) = n + j
      BY <1>2, <1>1
    <2>2. made'[m + (j + 2)] = r[j + 2] /\ r[j + 2][2] = n + ((j + 2) - 2)
      BY <1>2, <1>1, <2>1
    <2>3. m + 2 + j > m
      BY <1>2
    <2> QED
      BY <2>1, <2>2, <2>3, Zenon
  <1>7. {made[i][2] : i \in Units("octet")} = 1..n
    BY DEF OfferIsHonest
  <1>8. \A i \in Units("octet") : made[i][2] \in 1..n
    BY <1>7
  <1>9. {made'[i][2] : i \in Units("octet")'} = 1..(n + k)
    <2>1. ASSUME NEW i \in Units("octet")' PROVE made'[i][2] \in 1..(n + k)
      <3>1. (\A v \in 1..n : v \in 1..(n + k)) /\ (\A j \in 1..k : n + j \in 1..(n + k))
        OBVIOUS
      <3>2. CASE i \in Units("octet")
        BY <1>4, <1>8, <3>1, <3>2, Zenon
      <3>3. CASE \E j \in 1..k : i = m + 2 + j
        BY <1>6, <3>1, <3>3, Zenon
      <3> QED
        BY <1>5, <2>1, <3>2, <3>3
    <2>2. ASSUME NEW v \in 1..(n + k) PROVE \E i \in Units("octet")' : v = made'[i][2]
      <3>1. CASE v \in 1..n
        <4>1. PICK i \in Units("octet") : v = made[i][2]
          BY <1>7, <3>1
        <4> QED
          BY <1>4, <1>5, <4>1
      <3>2. CASE v \notin 1..n
        <4>1. v - n \in 1..k /\ n + (v - n) = v
          BY <3>2
        <4>2. made'[m + 2 + (v - n)][2] = v
          BY <1>6, <4>1
        <4>3. m + 2 + (v - n) \in Units("octet")'
          BY <1>5, <4>1
        <4> QED
          BY <4>2, <4>3
      <3> QED
        BY <3>1, <3>2
    <2> QED
      BY <2>1, <2>2
  <1>10. \A i, j \in Units("octet")' : i < j => made'[i][2] < made'[j][2]
    <2> SUFFICES ASSUME NEW i \in Units("octet")', NEW j \in Units("octet")', i < j
                 PROVE  made'[i][2] < made'[j][2]
      OBVIOUS
    <2>1. CASE i \in Units("octet") /\ j \in Units("octet")
      BY <1>4, <2>1 DEF OfferIsHonest
    <2>2. CASE i \in Units("octet") /\ \E l \in 1..k : j = m + 2 + l
      <3>1. \A v \in 1..n, l \in 1..k : v < n + l
        OBVIOUS
      <3> QED
        <4>1. PICK l \in 1..k : j = m + 2 + l
          BY <2>2
        <4>2. made'[i][2] \in 1..n
          BY <1>4, <1>8, <2>2
        <4>3. made'[j][2] = n + l
          BY <1>6, <4>1
        <4> QED
          BY <3>1, <4>2, <4>3
    <2>3. CASE (\E l \in 1..k : i = m + 2 + l) /\ j \in Units("octet")
      <3>1. \A l \in 1..k, a \in 1..m : ~(m + 2 + l < a)
        BY <1>2
      <3>2. PICK l \in 1..k : i = m + 2 + l
        BY <2>3
      <3>3. j \in 1..m
        BY <1>4, <2>3
      <3> QED
        BY <3>1, <3>2, <3>3
    <2>4. CASE (\E l \in 1..k : i = m + 2 + l) /\ \E l \in 1..k : j = m + 2 + l
      <3>1. PICK a \in 1..k : i = m + 2 + a
        BY <2>4
      <3>2. PICK b \in 1..k : j = m + 2 + b
        BY <2>4
      <3>3. n + a < n + b
        BY <1>2, <3>1, <3>2
      <3> QED
        BY <1>6, <3>1, <3>2, <3>3, Zenon
    <2> QED
      BY <1>5, <2>1, <2>2, <2>3, <2>4
  <1>11. Units("fin")' = IF last THEN {m + 2} ELSE {}
    <2>1. CASE last
      <3>1. 2 \in 1..Len(r)
        BY <1>1, <2>1
      <3>2. \A i : (\E j \in 1..Len(r) : i = m + j /\ r[j][1] = "fin") <=> i = m + 2
        BY <1>1, <2>1, <3>1
      <3> QED
        BY <1>3, <2>1, <3>2
    <2>2. CASE ~last
      BY <1>3, <1>1, <2>2
    <2> QED
      BY <2>1, <2>2
  <1>12. last => Cardinality({m + 2}) = 1
    BY FS_Singleton
  <1>13. Units("fin")' # {} => sent' + taken' = Total /\ Cardinality(Units("fin")') = 1
    BY <1>11, <1>12
  <1>14. message' = "ended" => Units("fin")' # {}
    BY <1>11
  <1> QED
    BY <1>9, <1>10, <1>13, <1>14 DEF OfferIsHonest

-----------------------------------------------------------------------------
(* The deferred credit                                                     *)

\* flush_credit: what it queues is noticed, the sum is gone, and a reader that
\* read-ahead had stopped either still waits or is woken.
LEMMA CreditPassed ==
    ASSUME NEW frames \in {<<>>, <<"reset">>}, OutTypes, OutFlags, CountTypes, ConnFlags,
           TaskFlags, Account, ~producePending => control = <<>>,
           FlushCredit, QueueAfterCredit(frames), UNCHANGED <<next, held>>
    PROVE  /\ control' \in Seq(Frames) /\ producePending' \in BOOLEAN
           /\ ~producePending' => control' = <<>>
           /\ frames = <<>> /\ (ending # "no" \/ terminal # "no") =>
                 UNCHANGED <<control, producePending>>
           /\ ahead' \in Nat /\ credit' = 0 /\ aheadWait' \in BOOLEAN /\ woken' \in BOOLEAN
           /\ Account'
           /\ woken => woken'
           /\ ~woken' /\ ahead >= Allowance /\ aheadWait => ahead' >= Allowance /\ aheadWait'
  <1>1. /\ ahead \in Nat /\ credit \in Nat /\ held \in Nat /\ credit + held <= ahead
        /\ Allowance \in Nat
    BY PumpAssumption DEF CountTypes, Account
  <1>2. credit' = 0 /\ ahead' = IF Applies THEN ahead - credit ELSE ahead
    BY DEF FlushCredit
  <1>3. ahead' \in Nat
    BY <1>1, <1>2
  <1>4. Account'
    BY <1>1, <1>2 DEF Account
  <1>5. aheadWait \in BOOLEAN /\ woken \in BOOLEAN /\ producePending \in BOOLEAN
    BY DEF ConnFlags, TaskFlags, OutFlags
  <1>6. \/ woken' = (woken \/ aheadWait) /\ aheadWait' = FALSE /\ Applies /\ ahead' < Allowance
        \/ /\ woken' = woken /\ aheadWait' = aheadWait
           /\ ~Applies \/ ~(ahead' < Allowance)
    BY Zenon DEF FlushCredit
  <1>7. aheadWait' \in BOOLEAN /\ woken' \in BOOLEAN /\ (woken => woken')
    BY <1>5, <1>6, Zenon
  <1>8. ~woken' /\ ahead >= Allowance /\ aheadWait => ahead' >= Allowance /\ aheadWait'
    <2>1. CASE Applies /\ ahead' < Allowance
      BY <1>6, <2>1, Zenon
    <2>2. CASE ~Applies
      BY <1>2, <1>6, <2>2, Zenon
    <2>3. CASE ~(ahead' < Allowance)
      <3>1. ahead' >= Allowance
        BY <1>1, <1>3, <2>3
      <3> QED
        BY <1>6, <2>3, <3>1, Zenon
    <2> QED
      BY <2>1, <2>2, <2>3
  <1> DEFINE q == CreditFrames \o frames
  <1>9. q \in Seq(Frames)
    <2>1. <<>> \in Seq(Frames) /\ <<"credit">> \in Seq(Frames) /\ <<"reset">> \in Seq(Frames)
      BY DEF Frames
    <2>2. CreditFrames \in Seq(Frames) /\ frames \in Seq(Frames)
      BY <2>1, Zenon DEF CreditFrames
    <2> QED
      BY <2>2, ConcatProperties
  <1>10. frames = <<>> /\ ~Applies => q = <<>>
    BY DEF CreditFrames
  <1>11. \/ q = <<>> /\ UNCHANGED <<control, producePending>>
         \/ q # <<>> /\ control' = control \o q /\ producePending' = TRUE
    BY DEF QueueAfterCredit, Queue
  <1> HIDE DEF q
  <1>12. control' \in Seq(Frames)
    <2>1. control \in Seq(Frames)
      BY DEF OutTypes
    <2>2. control \o q \in Seq(Frames)
      BY <1>9, <2>1, ConcatProperties
    <2> QED
      BY <1>11, <2>1, <2>2, Zenon
  <1>13. producePending' \in BOOLEAN /\ (~producePending' => control' = <<>>)
    BY <1>5, <1>11, Zenon
  <1>14. frames = <<>> /\ (ending # "no" \/ terminal # "no") =>
            UNCHANGED <<control, producePending>>
    BY <1>10, <1>11, Zenon DEF Applies
  <1> QED
    BY <1>2, <1>3, <1>4, <1>7, <1>8, <1>12, <1>13, <1>14

\* A record of two units.
LEMMA TwoUnits ==
    ASSUME NEW S, NEW a \in S, NEW b \in S
    PROVE  <<a>> \o <<b>> = <<a, b>>
  <1> DEFINE f == <<a>>
             g == <<b>>
             x == f \o g
             y == <<a, b>>
  <1>1. f \in Seq(S) /\ Len(f) = 1 /\ f[1] = a /\ g \in Seq(S) /\ Len(g) = 1 /\ g[1] = b
    OBVIOUS
  <1>2. y \in Seq(S) /\ Len(y) = 2 /\ y[1] = a /\ y[2] = b
    OBVIOUS
  <1> HIDE DEF f, g, y
  <1>3. /\ x \in Seq(S) /\ Len(x) = Len(f) + Len(g)
        /\ \A i \in 1..(Len(f) + Len(g)) : x[i] = IF i <= Len(f) THEN f[i] ELSE g[i - Len(f)]
    BY <1>1, ConcatProperties
  <1> HIDE DEF x
  <1>4. Len(x) = Len(y) /\ \A i \in 1..Len(x) : x[i] = y[i]
    BY <1>1, <1>2, <1>3
  <1>5. x = y
    BY <1>2, <1>3, <1>4, SeqEqual
  <1> QED
    BY <1>5 DEF x, y, f, g

\* What the layer is told when an offer is over.
LEMMA OfferTold ==
    ASSUME NEW n \in Nat, NEW verdict \in {"accepted", "blocked"}, OfferEnds(n, verdict),
           ending = "no", offered \in Nat, n <= offered, releases \in Nat, sent \in Nat
    PROVE  /\ sent' = sent + n /\ offered' = 0 /\ taken' = 0 /\ ends' = FALSE
           /\ releases' \in Nat /\ (n > 0 => releases' > 0) /\ releases' >= releases
           /\ step' = "write" /\ pump' = "buffered" /\ back' = "offer"
           /\ n < offered => shelved' = TRUE /\ message' = message
           /\ n = offered /\ verdict = "accepted" =>
                 shelved' = FALSE /\ message' = IF ends THEN "ended" ELSE message
  <1> DEFINE refused == n = 0 /\ (offered > 0 \/ verdict # "accepted")
  <1>1. /\ sent' = sent + n
        /\ releases' = IF n > 0 THEN releases + 1 ELSE releases
        /\ offered' = 0 /\ taken' = 0
    BY DEF OfferEnds, AcceptedOr
  <1>2. /\ shelved' = (refused \/ n < offered)
        /\ message' = IF ends /\ ~refused /\ n = offered THEN "ended" ELSE message
        /\ ends' = FALSE /\ StartPump("buffered", "offer")
    BY Zenon DEF OfferEnds, AcceptedOr
  <1>3. step' = "write" /\ pump' = "buffered" /\ back' = "offer"
    BY <1>2, Zenon DEF StartPump
  <1>4. n < offered => n # offered
    OBVIOUS
  <1>5. n = offered => ~(n < offered) /\ (n = 0 => ~(offered > 0))
    OBVIOUS
  <1>6. n < offered => shelved' = TRUE /\ message' = message
    BY <1>2, <1>4, Zenon
  <1>7. n = offered /\ verdict = "accepted" =>
           shelved' = FALSE /\ message' = IF ends THEN "ended" ELSE message
    BY <1>2, <1>5, Zenon
  <1>8. releases' \in Nat /\ (n > 0 => releases' > 0) /\ releases' >= releases
    BY <1>1
  <1> QED
    BY <1>1, <1>2, <1>3, <1>6, <1>7, <1>8, Zenon

-----------------------------------------------------------------------------
(* What a read decodes                                                     *)

\* The items of some kinds among those decoded can be counted.
LEMMA ItemsCounted ==
    ASSUME inbound \in Seq(Kinds), NEW n \in Nat, NEW kinds
    PROVE  /\ Cardinality(Items(n, kinds)) \in Nat
           /\ Items(n, kinds) \subseteq 1..n
           /\ Cardinality(Items(n, kinds)) = 0 <=> Items(n, kinds) = {}
  <1>1. IsFiniteSet(1..n)
    BY FS_Interval
  <1>2. Items(n, kinds) \subseteq 1..n
    BY DEF Items
  <1>3. IsFiniteSet(Items(n, kinds))
    BY <1>1, <1>2, FS_Subset
  <1> QED
    BY <1>2, <1>3, FS_CardinalityType, FS_EmptySet

\* The handlers queue every item that is an event.  A window that is raised is one.
LEMMA EventsQueued ==
    ASSUME inbound \in Seq(Kinds), events \in Seq(Kinds), window \in Nat, NEW n \in 0..Len(inbound),
           NEW f \in Ordered(Items(n, Kinds \ {"half", "ping"})),
           events' = events \o [i \in DOMAIN f |-> inbound[f[i]]],
           window' = window + Count(n, "window")
    PROVE  /\ events' \in Seq(Kinds) /\ window' \in Nat
           /\ events # <<>> => events' # <<>>
           /\ window' = window \/ events' # <<>>
  <1> DEFINE I == Items(n, Kinds \ {"half", "ping"})
             W == Items(n, {"window"})
             g == [i \in DOMAIN f |-> inbound[f[i]]]
  <1>1. n \in Nat /\ Len(inbound) \in Nat /\ \A i \in 1..n : inbound[i] \in Kinds
    OBVIOUS
  <1>2. /\ Cardinality(I) \in Nat /\ I \subseteq 1..n /\ (Cardinality(I) = 0 <=> I = {})
        /\ Cardinality(W) \in Nat /\ (Cardinality(W) = 0 <=> W = {})
    BY <1>1, ItemsCounted
  <1>3. W \subseteq I
    BY DEF Items, Kinds
  <1>4. window' = window + Cardinality(W)
    BY DEF Count
  <1>5. f \in [1..Cardinality(I) -> I]
    BY DEF Ordered
  <1> HIDE DEF I, W
  <1>6. DOMAIN f = 1..Cardinality(I) /\ \A i \in 1..Cardinality(I) : inbound[f[i]] \in Kinds
    BY <1>1, <1>2, <1>5
  <1>7. g \in [1..Cardinality(I) -> Kinds]
    BY <1>6
  <1> HIDE DEF g
  <1>8. g \in Seq(Kinds) /\ Len(g) = Cardinality(I)
    <2> DEFINE c == Cardinality(I)
    <2>1. c \in Nat /\ g \in [1..c -> Kinds]
      BY <1>2, <1>7
    <2> HIDE DEF c
    <2>2. g \in Seq(Kinds) /\ Len(g) = c
      BY <2>1
    <2> QED
      BY <2>2 DEF c
  <1>9. events' = events \o g
    BY DEF g
  <1>10. events' \in Seq(Kinds) /\ Len(events') = Len(events) + Len(g) /\ Len(events) \in Nat
    <2>1. /\ events \o g \in Seq(Kinds) /\ Len(events \o g) = Len(events) + Len(g)
      BY <1>8, ConcatProperties
    <2>2. Len(events) \in Nat
      OBVIOUS
    <2> QED
      BY <1>9, <2>1, <2>2, Zenon
  <1>11. events # <<>> => events' # <<>>
    BY <1>2, <1>8, <1>10
  <1>12. window' \in Nat
    BY <1>2, <1>4
  <1>13. window' # window => W # {}
    BY <1>2, <1>4
  <1>14. W # {} => Cardinality(I) > 0
    <2>1. W # {} => I # {}
      BY <1>3, Zenon
    <2> DEFINE c == Cardinality(I)
    <2>2. c \in Nat /\ (I # {} => c # 0)
      BY <1>2
    <2> HIDE DEF c
    <2>3. I # {} => c > 0
      BY <2>2
    <2> QED
      BY <2>1, <2>3 DEF c
  <1>15. Cardinality(I) > 0 => events' # <<>>
    BY <1>2, <1>8, <1>10
  <1> QED
    BY <1>10, <1>11, <1>12, <1>13, <1>14, <1>15

-----------------------------------------------------------------------------
(* Batches                                                                 *)

\* An event that is handed over is the last of the batch.
LEMMA Handed ==
    ASSUME batch \in Seq(Batched), call = "idle" => batch = <<>>, NEW e \in Batched,
           HandOver(e)
    PROVE  /\ batch' \in Seq(Batched) /\ batch' # <<>>
           /\ \A x : Contains(batch', x) <=> e = x \/ Contains(batch, x)
           /\ Head(batch') = IF batch = <<>> THEN e ELSE Head(batch)
           /\ batch = <<>> => batch' = <<e>>
           /\ emitted' = TRUE /\ step' = "enter" /\ call' \in {"events", "act"}
  <1>1. emitted' = TRUE /\ step' = "enter" /\ (call' = "events" \/ call' = "act")
    BY Zenon DEF HandOver
  <1>2. batch' = IF call = "idle" THEN <<e>> ELSE Append(batch, e)
    BY DEF HandOver
  <1>3. CASE batch = <<>>
    <2>1. batch' = <<e>>
      BY <1>2, <1>3
    <2>2. /\ batch' \in Seq(Batched) /\ batch' # <<>> /\ Head(batch') = e
          /\ Len(batch') = 1 /\ batch'[1] = e
      BY <2>1
    <2>3. \A x : Contains(batch', x) <=> e = x
      BY <2>2 DEF Contains
    <2>4. \A x : ~Contains(batch, x)
      BY <1>3 DEF Contains
    <2> QED
      BY <1>1, <1>3, <2>1, <2>2, <2>3, <2>4
  <1>4. CASE batch # <<>>
    <2>1. batch' = Append(batch, e)
      BY <1>2, <1>4
    <2>2. Len(batch) \in Nat /\ Len(batch) > 0
      BY <1>4
    <2>3. /\ batch' \in Seq(Batched) /\ batch' # <<>>
          /\ Len(batch') = Len(batch) + 1 /\ batch'[Len(batch) + 1] = e
          /\ \A i \in 1..Len(batch) : batch'[i] = batch[i]
      BY <2>1
    <2>4. Head(batch') = Head(batch)
      BY <2>2, <2>3
    <2>5. ASSUME NEW x PROVE Contains(batch', x) <=> e = x \/ Contains(batch, x)
      <3>1. ASSUME Contains(batch', x), e # x PROVE Contains(batch, x)
        <4>1. PICK i \in 1..Len(batch') : batch'[i] = x
          BY <3>1 DEF Contains
        <4>2. i \in 1..Len(batch)
          BY <2>2, <2>3, <3>1, <4>1
        <4> QED
          BY <2>3, <4>1, <4>2 DEF Contains
      <3>2. ASSUME Contains(batch, x) PROVE Contains(batch', x)
        <4>1. PICK i \in 1..Len(batch) : batch[i] = x
          BY <3>2 DEF Contains
        <4>2. i \in 1..Len(batch')
          BY <2>2, <2>3
        <4> QED
          BY <2>3, <4>1, <4>2 DEF Contains
      <3>3. ASSUME e = x PROVE Contains(batch', x)
        <4>1. Len(batch) + 1 \in 1..Len(batch')
          BY <2>2, <2>3
        <4> QED
          BY <2>3, <3>3, <4>1 DEF Contains
      <3> QED
        BY <3>1, <3>2, <3>3
    <2> QED
      BY <1>1, <1>4, <2>3, <2>4, <2>5
  <1> QED
    BY <1>3, <1>4

-----------------------------------------------------------------------------
(* One lemma for each action                                               *)

USE PumpAssumption, RecordAssumption, CeilingAssumption
    DEF PumpInv, bufferVars, outVars, peerVars, connVars, adapterVars, pumpVars, offerVars, driverVars, UnlessCredited

\* What the peer sends wakes a task that waits for it, so that Registered survives.
LEMMA ArriveKeeps ==
    ASSUME NEW d \in Kinds, PumpInv, Arrive(d)
    PROVE  PumpInv'
  <1>1. SeqTypes'
    BY DEF SeqTypes, Kinds, Visible, Batched, Arrive, Sendable
  <1>2. ConnFlags'
    <2>1. UNCHANGED <<boundary, shut, aheadWait>>
      BY DEF Arrive
    <2>2. readWait' \in BOOLEAN
      BY Zenon DEF ConnFlags, Arrive, Sendable
    <2> QED
      BY <2>1, <2>2, Zenon DEF ConnFlags
  <1>3. TaskFlags'
    <2>1. UNCHANGED <<work, ends, shelved, retried>>
      BY DEF Arrive
    <2>2. woken' \in BOOLEAN
      BY Zenon DEF TaskFlags, Arrive, Sendable
    <2> QED
      BY <2>1, <2>2, Zenon DEF TaskFlags
  <1>4. Endings'
    BY DEF Endings, Arrive, Sendable
  <1>5. Full'
    BY DEF Full, RoomForRecord, filled, Arrive, Sendable
  <1>6. Unwritten'
    BY DEF Unwritten, RoomForRecord, filled, Arrive, Sendable
  <1>7. Unread'
    BY DEF Unread, Registered, Arrive, Sendable
  <1>8. Seen'
    BY DEF Seen, Arrive, Sendable
  <1>9. Shelved'
    BY DEF Shelved, Retry, Message, Moves, Arrive, Sendable
  <1>10. UNCHANGED <<outbound, wire, made, control, written, space, closing,
          producePending, broken, writeWait, ahead, window, streams, releases,
          credit, held, wanted, emitted, reported, close, finished, openWait,
          terminal, ending, next, polled, message, call, step, pump, offers, offered,
          taken, sent, back, ends, shut, batch, events>>
    BY DEF Arrive
  <1>11. OutTypes' /\ OutFlags' /\ CountTypes' /\ AdapterFlags' /\ NameTypes' /\
         OfferTypes' /\ Buffer' /\ Account' /\ Order' /\ TailOrder' /\ Queued' /\
         Finality' /\ OfferIsHonest' /\ Batches' /\ Closed'
    BY <1>10, OutTypesStays, OutFlagsStays, CountTypesStays, AdapterFlagsStays,
       NameTypesStays, OfferTypesStays, BufferStays, AccountStays, OrderStays,
       TailOrderStays, QueuedStays, FinalityStays, OfferIsHonestStays, BatchesStays,
       ClosedStays
  <1> QED
    BY <1>1, <1>2, <1>3, <1>4, <1>5, <1>6, <1>7, <1>8, <1>9, <1>11

\* Room again on the byte stream: its waiter is woken, and forgotten.
LEMMA DrainsKeeps ==
    ASSUME PumpInv, Drains
    PROVE  PumpInv'
  <1>1. OutTypes'
    BY DEF OutTypes, Drains, Writable
  <1>2. OutFlags'
    BY DEF OutFlags, Drains, Writable
  <1>3. TaskFlags'
    <2>1. UNCHANGED <<work, ends, shelved, retried>>
      BY DEF Drains
    <2>2. woken' \in BOOLEAN
      BY Zenon DEF TaskFlags, Drains, Writable
    <2> QED
      BY <2>1, <2>2, Zenon DEF TaskFlags
  <1>4. Endings'
    BY DEF Endings, Drains, Writable
  <1>5. Full'
    BY DEF Full, RoomForRecord, filled, Drains, Writable
  <1>6. Unwritten'
    BY DEF Unwritten, RoomForRecord, filled, Drains, Writable
  <1>7. Unread'
    BY DEF Unread, Registered, Drains, Writable
  <1>8. Seen'
    BY DEF Seen, Drains, Writable
  <1>9. Shelved'
    BY DEF Shelved, Retry, Message, Moves, Drains, Writable
  <1>10. UNCHANGED <<inbound, events, batch, ahead, window, streams, releases,
          credit, held, wanted, boundary, shut, readWait, aheadWait, emitted,
          reported, close, finished, openWait, terminal, ending, next, polled,
          message, call, step, pump, offers, offered, taken, sent, outbound, written,
          wire, made, back, closing, control, broken, producePending, ends>>
    BY DEF Drains, Writable
  <1>11. SeqTypes' /\ CountTypes' /\ ConnFlags' /\ AdapterFlags' /\ NameTypes' /\
         OfferTypes' /\ Buffer' /\ Account' /\ Order' /\ TailOrder' /\ Queued' /\
         Finality' /\ OfferIsHonest' /\ Batches' /\ Closed'
    BY <1>10, SeqTypesStays, CountTypesStays, ConnFlagsStays, AdapterFlagsStays,
       NameTypesStays, OfferTypesStays, BufferStays, AccountStays, OrderStays,
       TailOrderStays, QueuedStays, FinalityStays, OfferIsHonestStays, BatchesStays,
       ClosedStays
  <1> QED
    BY <1>1, <1>2, <1>3, <1>4, <1>5, <1>6, <1>7, <1>8, <1>9, <1>11

\* A byte stream that fails wakes both of its waiters.
LEMMA BreaksKeeps ==
    ASSUME PumpInv, Breaks
    PROVE  PumpInv'
  <1>1. OutFlags'
    BY DEF OutFlags, Breaks
  <1>2. ConnFlags'
    <2>1. UNCHANGED <<boundary, shut, aheadWait>>
      BY DEF Breaks
    <2>2. readWait' \in BOOLEAN
      BY Zenon DEF ConnFlags, Breaks
    <2> QED
      BY <2>1, <2>2, Zenon DEF ConnFlags
  <1>3. TaskFlags'
    <2>1. UNCHANGED <<work, ends, shelved, retried>>
      BY DEF Breaks
    <2>2. woken' \in BOOLEAN
      BY Zenon DEF TaskFlags, Breaks
    <2> QED
      BY <2>1, <2>2, Zenon DEF TaskFlags
  <1>4. Endings'
    BY DEF Endings, Breaks
  <1>5. TailOrder'
    BY DEF TailOrder, Breaks
  <1>6. Full'
    BY DEF Full, RoomForRecord, filled, Breaks
  <1>7. Unwritten'
    BY DEF Unwritten, RoomForRecord, filled, Breaks
  <1>8. Unread'
    BY DEF Unread, Registered, Breaks
  <1>9. Seen'
    BY DEF Seen, Breaks
  <1>10. Shelved'
    BY DEF Shelved, Retry, Message, Moves, Breaks
  <1>11. UNCHANGED <<outbound, wire, made, control, written, space, inbound, events,
          batch, ahead, window, streams, releases, credit, held, wanted, emitted,
          reported, close, finished, openWait, terminal, ending, next, polled,
          message, call, step, pump, offers, offered, taken, sent, back,
          producePending, ends, shut, closing>>
    BY DEF Breaks
  <1>12. OutTypes' /\ SeqTypes' /\ CountTypes' /\ AdapterFlags' /\ NameTypes' /\
         OfferTypes' /\ Buffer' /\ Account' /\ Order' /\ Queued' /\ Finality' /\
         OfferIsHonest' /\ Batches' /\ Closed'
    BY <1>11, OutTypesStays, SeqTypesStays, CountTypesStays, AdapterFlagsStays,
       NameTypesStays, OfferTypesStays, BufferStays, AccountStays, OrderStays,
       QueuedStays, FinalityStays, OfferIsHonestStays, BatchesStays, ClosedStays
  <1> QED
    BY <1>1, <1>2, <1>3, <1>4, <1>5, <1>6, <1>7, <1>8, <1>9, <1>10, <1>12

\* What the application reads is work, and work wakes the driver.
LEMMA AppReadsKeeps ==
    ASSUME PumpInv, AppReads
    PROVE  PumpInv'
  <1>1. TaskFlags'
    <2>1. UNCHANGED <<ends, shelved, retried>>
      BY DEF AppReads
    <2>2. work' \in BOOLEAN
      BY Zenon DEF TaskFlags, AppReads
    <2>3. woken' \in BOOLEAN
      BY Zenon DEF TaskFlags, AppReads
    <2> QED
      BY <2>1, <2>2, <2>3, Zenon DEF TaskFlags
  <1>2. Endings'
    BY DEF Endings, AppReads
  <1>3. Full'
    BY DEF Full, RoomForRecord, filled, AppReads
  <1>4. Unwritten'
    BY DEF Unwritten, RoomForRecord, filled, AppReads
  <1>5. Unread'
    BY DEF Unread, Registered, AppReads
  <1>6. Seen'
    BY DEF Seen, AppReads
  <1>7. Shelved'
    BY DEF Shelved, Retry, Message, Moves, AppReads
  <1>8. UNCHANGED <<outbound, wire, made, control, written, space, closing,
         producePending, broken, writeWait, inbound, events, batch, ahead, window,
         streams, releases, credit, held, wanted, boundary, shut, readWait,
         aheadWait, emitted, reported, close, finished, openWait, terminal, ending,
         next, polled, message, call, step, pump, offers, offered, taken, sent,
         back, ends>>
    BY DEF AppReads
  <1>9. OutTypes' /\ OutFlags' /\ SeqTypes' /\ CountTypes' /\ ConnFlags' /\
         AdapterFlags' /\ NameTypes' /\ OfferTypes' /\ Buffer' /\ Account' /\ Order'
         /\ TailOrder' /\ Queued' /\ Finality' /\ OfferIsHonest' /\ Batches' /\
         Closed'
    BY <1>8, OutTypesStays, OutFlagsStays, SeqTypesStays, CountTypesStays,
       ConnFlagsStays, AdapterFlagsStays, NameTypesStays, OfferTypesStays,
       BufferStays, AccountStays, OrderStays, TailOrderStays, QueuedStays,
       FinalityStays, OfferIsHonestStays, BatchesStays, ClosedStays
  <1> QED
    BY <1>1, <1>2, <1>3, <1>4, <1>5, <1>6, <1>7, <1>9

\* A pump of a connection that has ended does nothing.
LEMMA PumpEndedKeeps ==
    ASSUME PumpInv, PumpEnded
    PROVE  PumpInv'
  <1>1. NameTypes'
    <2>1. UNCHANGED <<terminal, ending, next, polled, message, call, pump>>
      BY DEF PumpEnded
    <2>2. step' \in Steps
      BY DEF NameTypes, Steps, PumpEnded
    <2> QED
      BY <2>1, <2>2 DEF NameTypes
  <1>2. Order'
    BY DEF Order, InsidePump, PumpEnded
  <1>3. Endings'
    BY DEF Endings, PumpEnded
  <1>4. TailOrder'
    BY DEF TailOrder, PumpEnded
  <1>5. Queued'
    BY DEF Queued, RoomForRecord, filled, PumpEnded
  <1>6. Full'
    BY DEF Full, RoomForRecord, filled, PumpEnded
  <1>7. Unwritten'
    BY DEF Unwritten, RoomForRecord, filled, PumpEnded
  <1>8. Unread'
    BY DEF Unread, Registered, PumpEnded
  <1>9. Seen'
    BY DEF Seen, PumpEnded
  <1>10. Shelved'
    BY DEF Shelved, Retry, Message, Moves, PumpEnded
  <1>11. Finality'
    BY DEF Finality, Units, PumpEnded
  <1>12. UNCHANGED <<outbound, wire, made, control, written, space, closing,
          producePending, broken, writeWait, inbound, events, batch, ahead, window,
          streams, releases, credit, held, wanted, boundary, shut, readWait,
          aheadWait, emitted, reported, close, finished, openWait, work, woken, ends,
          shelved, retried, offers, offered, taken, sent, next, message, call,
          ending>>
    BY DEF PumpEnded
  <1>13. OutTypes' /\ OutFlags' /\ SeqTypes' /\ CountTypes' /\ ConnFlags' /\
         AdapterFlags' /\ TaskFlags' /\ OfferTypes' /\ Buffer' /\ Account' /\
         OfferIsHonest' /\ Batches' /\ Closed'
    BY <1>12, OutTypesStays, OutFlagsStays, SeqTypesStays, CountTypesStays,
       ConnFlagsStays, AdapterFlagsStays, TaskFlagsStays, OfferTypesStays,
       BufferStays, AccountStays, OfferIsHonestStays, BatchesStays, ClosedStays
  <1> QED
    BY <1>1, <1>2, <1>3, <1>4, <1>5, <1>6, <1>7, <1>8, <1>9, <1>10, <1>11, <1>13

\* Without room for a record the buffer is written first: it is empty afterwards, or the
\* waker is with the byte stream.
LEMMA WriteMakesRoomKeeps ==
    ASSUME PumpInv, WriteMakesRoom
    PROVE  PumpInv'
  <1>1. /\ outbound' \in Seq(Unit) /\ wire' \in Seq(Unit) /\ written' \in Nat
        /\ space' \in 0..Ceiling /\ writeWait' \in BOOLEAN
        /\ Buffer'
        /\ \/ outbound' = <<>> /\ written' = 0 /\ writeWait' = writeWait
           \/ /\ outbound' = outbound /\ written' < Len(outbound)
              /\ writeWait' /\ space' = 0
    BY FlushMoves DEF WriteMakesRoom
  <1>2. Flushed <=> outbound' = <<>>
    BY <1>1 DEF Flushed, Buffer, Tidy, filled
  <1>3. Len(outbound) \in Nat /\ (outbound = <<>> => RoomForRecord)
    BY DEF OutTypes, RoomForRecord, filled
  <1>4. outbound' = <<>> => RoomForRecord' /\ ~(written' < Len(outbound'))
    BY <1>1 DEF RoomForRecord, filled
  <1>5. outbound' = outbound => RoomForRecord' = RoomForRecord
    BY DEF RoomForRecord, filled
  <1>6. writeWait => writeWait'
    BY <1>1
  <1>7. OutTypes'
    BY <1>1 DEF OutTypes, WriteMakesRoom
  <1>8. OutFlags'
    BY <1>1, <1>2, <1>3, <1>4, <1>5 DEF OutFlags, WriteMakesRoom, InPump, Writing,
       FlushFails, WriteEnds, Forced
  <1>9. NameTypes'
    <2>1. step' \in {step, "read", "pumped"}
      BY Zenon DEF WriteMakesRoom, WriteEnds
    <2>2. step' \in Steps
      BY <2>1 DEF NameTypes, Steps
    <2> QED
      BY <2>2 DEF NameTypes, WriteMakesRoom
  <1>10. Buffer'
    BY <1>1
  <1>11. Order'
    BY <1>2 DEF Order, InsidePump, NameTypes, WriteMakesRoom, InPump, Writing,
       FlushFails, WriteEnds, Forced
  <1>12. Endings'
    BY <1>1, <1>2, <1>3, <1>4, <1>5 DEF Endings, WriteMakesRoom, InPump, Writing,
       FlushFails, WriteEnds, Forced
  <1>13. TailOrder'
    BY <1>1, <1>2, <1>3, <1>4, <1>5 DEF TailOrder, WriteMakesRoom, InPump, Writing,
       FlushFails, WriteEnds, Forced
  <1>14. Queued'
    BY <1>1, <1>2, <1>3, <1>4, <1>5 DEF Queued, filled, WriteMakesRoom, InPump,
       Writing, FlushFails, WriteEnds, Forced
  <1>15. Full'
    BY <1>1, <1>2, <1>3, <1>4, <1>5 DEF Full, filled, WriteMakesRoom, InPump, Writing,
       FlushFails, WriteEnds, Forced
  <1>16. Unwritten'
    BY <1>1, <1>2, <1>3, <1>4, <1>5 DEF Unwritten, filled, WriteMakesRoom, InPump,
       Writing, FlushFails, WriteEnds, Forced
  <1>17. Unread'
    BY DEF Unread, Registered, WriteMakesRoom, InPump, Writing, FlushFails, WriteEnds,
       Forced
  <1>18. Seen'
    BY <1>1, <1>2, <1>3, <1>4, <1>5 DEF Seen, WriteMakesRoom, InPump, Writing,
       FlushFails, WriteEnds, Forced
  <1>19. Shelved'
    BY <1>6 DEF Shelved, Retry, Message, Moves, WriteMakesRoom, InPump, Writing,
       FlushFails, WriteEnds, Forced
  <1>20. Finality'
    BY <1>1, <1>2, <1>3, <1>4, <1>5 DEF Finality, Units, WriteMakesRoom, InPump,
       Writing, FlushFails, WriteEnds, Forced
  <1>21. UNCHANGED <<inbound, events, batch, ahead, window, streams, releases,
          credit, held, wanted, boundary, shut, readWait, aheadWait, emitted,
          reported, close, finished, openWait, work, woken, ends, shelved, retried,
          offers, offered, taken, sent, next, made, message, call, ending, closing>>
    BY DEF WriteMakesRoom
  <1>22. SeqTypes' /\ CountTypes' /\ ConnFlags' /\ AdapterFlags' /\ TaskFlags' /\
         OfferTypes' /\ Account' /\ OfferIsHonest' /\ Batches' /\ Closed'
    BY <1>21, SeqTypesStays, CountTypesStays, ConnFlagsStays, AdapterFlagsStays,
       TaskFlagsStays, OfferTypesStays, AccountStays, OfferIsHonestStays,
       BatchesStays, ClosedStays
  <1> QED
    BY <1>7, <1>8, <1>9, <1>10, <1>11, <1>12, <1>13, <1>14, <1>15, <1>16, <1>17, <1>18,
       <1>19, <1>20, <1>22

\* A record of control frames, or the end of production.
LEMMA WriteProducesKeeps ==
    ASSUME PumpInv, WriteProduces
    PROVE  PumpInv'
  <1> DEFINE r == IF control = <<>> THEN <<>> ELSE Record(Controls(MaxRecord))
  <1>1. /\ outbound \in Seq(Unit) /\ made \in Seq(Unit) /\ control \in Seq(Frames)
        /\ Len(outbound) \in Nat
    BY DEF OutTypes
  <1>2. /\ r \in Seq(Unit) /\ Len(r) <= MaxRecord
        /\ \A j \in 1..Len(r) : r[j][1] \in Frames \cup {"record"}
        /\ SubSeq(control, Len(PackedControl(MaxRecord)) + 1, Len(control)) \in Seq(Frames)
           \/ control = <<>>
    BY <1>1, ControlsFit, RecordAssumption
  <1>3. /\ outbound' = outbound \o r /\ made' = made \o r
        /\ control' \in Seq(Frames) /\ UNCHANGED <<written, wire>>
        /\ Len(outbound) + MaxRecord <= Ceiling
        /\ producePending' \in {producePending, FALSE} /\ (~producePending' => control' = <<>>)
    <2>1. CASE control = <<>>
      BY <1>1, <2>1, ConcatEmptySeq DEF WriteProduces, ProduceControl, RoomForRecord, filled
    <2>2. CASE control # <<>>
      BY <1>2, <2>2 DEF WriteProduces, ProduceControl, Producing, Serialise, RoomForRecord, filled
    <2> QED
      BY <2>1, <2>2
  <1>4. /\ \A j \in 1..Len(r) : r[j][1] # "octet"
        /\ \A j \in 1..Len(r) : r[j][1] # "fin"
        /\ \A j \in 1..Len(r) : r[j][1] # "close"
    BY <1>2 DEF Frames
  <1> HIDE DEF r
  <1>5. /\ outbound' \in Seq(Unit) /\ made' \in Seq(Unit)
        /\ Buffer'
    <2>1. Len(outbound) + Len(r) <= Ceiling
      BY <1>1, <1>2, <1>3, RecordAssumption, CeilingAssumption
    <2> QED
      BY <1>2, <1>3, <2>1, AppendKeeps
  <1>6. Units("fin")' = Units("fin") /\ Units("close")' = Units("close")
    BY <1>1, <1>2, <1>3, <1>4, QuietUnits
  <1>7. OutTypes'
    BY <1>3, <1>5 DEF OutTypes, WriteProduces, ProduceControl
  <1>8. OutFlags'
    BY <1>3 DEF OutFlags, WriteProduces, ProduceControl
  <1>9. Buffer'
    BY <1>5
  <1>10. TailOrder'
    BY <1>3 DEF TailOrder, ProduceControl, WriteProduces, InPump, Writing, Producing
  <1>11. Queued'
    BY <1>3 DEF Queued, RoomForRecord, filled, ProduceControl, WriteProduces, InPump,
       Writing, Producing
  <1>12. Full'
    BY <1>3 DEF Full, RoomForRecord, filled, ProduceControl, WriteProduces, InPump,
       Writing, Producing
  <1>13. Unwritten'
    BY <1>3 DEF Unwritten, RoomForRecord, filled, ProduceControl, WriteProduces,
       InPump, Writing, Producing
  <1>14. Finality'
    BY <1>6 DEF Finality, WriteProduces
  <1>15. OfferIsHonest'
    <2>1. UNCHANGED <<sent, taken, message>>
      BY DEF WriteProduces
    <2> QED
      BY <1>1, <1>2, <1>3, <1>4, <2>1, HonestStays
  <1>16. Closed'
    <2>1. closing = "no" /\ closing' = closing
      BY DEF WriteProduces, ProduceControl, Producing
    <2> QED
      BY <1>6, <2>1 DEF Closed
  <1>17. UNCHANGED <<inbound, events, batch, ahead, window, streams, releases,
          credit, held, wanted, boundary, shut, readWait, aheadWait, emitted,
          reported, close, finished, openWait, work, woken, ends, shelved, retried,
          terminal, ending, next, polled, message, call, step, pump, offers, offered,
          taken, sent, back, writeWait, scene>>
    BY DEF WriteProduces, ProduceControl
  <1>18. SeqTypes' /\ CountTypes' /\ ConnFlags' /\ AdapterFlags' /\ TaskFlags' /\
         NameTypes' /\ OfferTypes' /\ Account' /\ Order' /\ Endings' /\ Unread' /\
         Seen' /\ Shelved' /\ Batches'
    BY <1>17, SeqTypesStays, CountTypesStays, ConnFlagsStays, AdapterFlagsStays,
       TaskFlagsStays, NameTypesStays, OfferTypesStays, AccountStays, OrderStays,
       EndingsStays, UnreadStays, SeenStays, ShelvedStays, BatchesStays
  <1> QED
    BY <1>7, <1>8, <1>9, <1>10, <1>11, <1>12, <1>13, <1>14, <1>15, <1>16, <1>18

\* The write side ends with nothing left to produce; the forced form leaves nothing in the
\* buffer that the byte stream would take.
LEMMA WriteDoneKeeps ==
    ASSUME PumpInv, WriteDone
    PROVE  PumpInv'
  <1>1. Forced => /\ outbound' \in Seq(Unit) /\ wire' \in Seq(Unit) /\ written' \in Nat
                  /\ space' \in 0..Ceiling /\ writeWait' \in BOOLEAN
                  /\ Buffer'
                  /\ \/ outbound' = <<>> /\ written' = 0 /\ writeWait' = writeWait
                     \/ /\ outbound' = outbound /\ written' < Len(outbound)
                        /\ writeWait' /\ space' = 0
    BY FlushMoves DEF WriteDone
  <1>2. ~Forced => UNCHANGED <<outbound, written, wire, space, writeWait>>
    BY DEF WriteDone
  <1>3. Len(outbound) \in Nat /\ RoomForRecord
    BY DEF OutTypes, WriteDone
  <1>4. outbound' = <<>> => RoomForRecord' /\ ~(written' < Len(outbound'))
    BY <1>1, <1>2, <1>3, CeilingAssumption DEF RoomForRecord, filled, OutTypes
  <1>5. outbound' = outbound => RoomForRecord' = RoomForRecord
    BY DEF RoomForRecord, filled
  <1>6. ~producePending
    BY DEF WriteDone, InPump, Producing, TailOrder
  <1>7. control = <<>>
    BY <1>6 DEF Queued
  <1>8. writeWait => writeWait'
    BY <1>1, <1>2
  <1>9. OutTypes'
    BY <1>1, <1>2 DEF OutTypes, WriteDone
  <1>10. OutFlags'
    BY <1>1, <1>2, <1>3, <1>4, <1>5 DEF OutFlags, WriteDone, InPump, Writing,
       Producing, Forced, FlushFails, WriteEnds
  <1>11. NameTypes'
    <2>1. UNCHANGED <<terminal, ending, next, polled, message, call, pump>>
      BY DEF WriteDone
    <2>2. step' \in Steps
      BY DEF NameTypes, Steps, WriteDone, InPump, Forced, WriteEnds
    <2> QED
      BY <2>1, <2>2 DEF NameTypes
  <1>12. Buffer'
    BY <1>1, <1>2, BufferStays DEF WriteDone
  <1>13. Order'
    BY DEF Order, InsidePump, NameTypes, WriteDone, InPump, Writing, Producing,
       Forced, FlushFails, WriteEnds
  <1>14. Endings'
    BY <1>1, <1>2, <1>3, <1>4, <1>5 DEF Endings, WriteDone, InPump, Writing,
       Producing, Forced, FlushFails, WriteEnds
  <1>15. TailOrder'
    BY <1>1, <1>2, <1>3, <1>4, <1>5, <1>6, <1>7 DEF TailOrder, WriteDone, InPump,
       Writing, Producing, Forced, FlushFails, WriteEnds
  <1>16. Queued'
    BY <1>1, <1>2, <1>3, <1>4, <1>5, <1>6, <1>7 DEF Queued, filled, WriteDone, InPump,
       Writing, Producing, Forced, FlushFails, WriteEnds
  <1>17. Full'
    BY <1>1, <1>2, <1>3, <1>4, <1>5 DEF Full, filled, WriteDone, InPump, Writing,
       Producing, Forced, FlushFails, WriteEnds
  <1>18. Unwritten'
    BY <1>1, <1>2, <1>3, <1>4, <1>5, <1>6, <1>7 DEF Unwritten, filled, WriteDone,
       InPump, Writing, Producing, Forced, FlushFails, WriteEnds
  <1>19. Unread'
    BY DEF Unread, Registered, WriteDone, InPump, Writing, Producing, Forced,
       FlushFails, WriteEnds
  <1>20. Seen'
    BY <1>1, <1>2, <1>3, <1>4, <1>5 DEF Seen, WriteDone, InPump, Writing, Producing,
       Forced, FlushFails, WriteEnds
  <1>21. Shelved'
    BY <1>8 DEF Shelved, Retry, Message, Moves, WriteDone, InPump, Writing, Producing,
       Forced, FlushFails, WriteEnds
  <1>22. Finality'
    BY <1>1, <1>2, <1>3, <1>4, <1>5 DEF Finality, Units, WriteDone, InPump, Writing,
       Producing, Forced, FlushFails, WriteEnds
  <1>23. UNCHANGED <<inbound, events, batch, ahead, window, streams, releases,
          credit, held, wanted, boundary, shut, readWait, aheadWait, emitted,
          reported, close, finished, openWait, work, woken, ends, shelved, retried,
          offers, offered, taken, sent, next, made, message, call, ending, closing>>
    BY DEF WriteDone
  <1>24. SeqTypes' /\ CountTypes' /\ ConnFlags' /\ AdapterFlags' /\ TaskFlags' /\
         OfferTypes' /\ Account' /\ OfferIsHonest' /\ Batches' /\ Closed'
    BY <1>23, SeqTypesStays, CountTypesStays, ConnFlagsStays, AdapterFlagsStays,
       TaskFlagsStays, OfferTypesStays, AccountStays, OfferIsHonestStays,
       BatchesStays, ClosedStays
  <1> QED
    BY <1>9, <1>10, <1>11, <1>12, <1>13, <1>14, <1>15, <1>16, <1>17, <1>18, <1>19, <1>20,
       <1>21, <1>22, <1>24

\* A write that fails ends the connection.
LEMMA WriteFailsKeeps ==
    ASSUME PumpInv, WriteFails
    PROVE  PumpInv'
  <1>1. outbound # <<>>
    BY DEF WriteFails, FlushFails, filled, OutTypes
  <1>2. NameTypes'
    <2>1. UNCHANGED <<ending, next, polled, message, call, pump>>
      BY DEF WriteFails
    <2>2. terminal' \in {"no", "io", "eof", "truncated", "peer", "local"}
      BY DEF NameTypes, Order, InsidePump, WriteFails, InPump, Latch, Forced
    <2>3. step' \in Steps
      BY DEF NameTypes, Steps, Order, InsidePump, WriteFails, InPump, Latch, Forced
    <2> QED
      BY <2>1, <2>2, <2>3 DEF NameTypes
  <1>3. Order'
    BY DEF Order, InsidePump, WriteFails, InPump, Writing, FlushFails, Latch, Forced,
       Producing
  <1>4. Endings'
    BY DEF Endings, WriteFails, InPump, Writing, FlushFails, Latch, Forced, Producing
  <1>5. TailOrder'
    BY <1>1 DEF TailOrder, Order, InsidePump, WriteFails, InPump, Writing, FlushFails,
       Latch, Forced, Producing
  <1>6. Queued'
    BY DEF Queued, RoomForRecord, filled, WriteFails, InPump, Writing, FlushFails,
       Latch, Forced, Producing
  <1>7. Full'
    BY DEF Full, RoomForRecord, filled, WriteFails, InPump, Writing, FlushFails,
       Latch, Forced, Producing
  <1>8. Unwritten'
    BY DEF Unwritten, RoomForRecord, filled, WriteFails, InPump, Writing, FlushFails,
       Latch, Forced, Producing
  <1>9. Unread'
    BY DEF Unread, Registered, WriteFails, InPump, Writing, FlushFails, Latch, Forced,
       Producing
  <1>10. Seen'
    BY DEF Seen, WriteFails, InPump, Writing, FlushFails, Latch, Forced, Producing
  <1>11. Shelved'
    BY DEF Shelved, Retry, Message, Moves, WriteFails, InPump, Writing, FlushFails,
       Latch, Forced, Producing
  <1>12. Finality'
    BY DEF Finality, Units, WriteFails, InPump, Writing, FlushFails, Latch, Forced,
       Producing
  <1>13. UNCHANGED <<outbound, wire, made, control, written, space, closing,
          producePending, broken, writeWait, inbound, events, batch, ahead, window,
          streams, releases, credit, held, wanted, boundary, shut, readWait,
          aheadWait, emitted, reported, close, finished, openWait, work, woken, ends,
          shelved, retried, offers, offered, taken, sent, next, message, call,
          ending>>
    BY DEF WriteFails
  <1>14. OutTypes' /\ OutFlags' /\ SeqTypes' /\ CountTypes' /\ ConnFlags' /\
         AdapterFlags' /\ TaskFlags' /\ OfferTypes' /\ Buffer' /\ Account' /\
         OfferIsHonest' /\ Batches' /\ Closed'
    BY <1>13, OutTypesStays, OutFlagsStays, SeqTypesStays, CountTypesStays,
       ConnFlagsStays, AdapterFlagsStays, TaskFlagsStays, OfferTypesStays,
       BufferStays, AccountStays, OfferIsHonestStays, BatchesStays, ClosedStays
  <1> QED
    BY <1>2, <1>3, <1>4, <1>5, <1>6, <1>7, <1>8, <1>9, <1>10, <1>11, <1>12, <1>14

\* The reader that read-ahead stops leaves its waker.
LEMMA ReadStopsKeeps ==
    ASSUME PumpInv, ReadStops
    PROVE  PumpInv'
  <1>1. ConnFlags'
    <2>1. UNCHANGED <<boundary, shut, readWait>>
      BY DEF ReadStops
    <2>2. aheadWait' \in BOOLEAN
      BY Zenon DEF ConnFlags, ReadStops, InPump, ReadEnds
    <2> QED
      BY <2>1, <2>2, Zenon DEF ConnFlags
  <1>2. NameTypes'
    <2>1. UNCHANGED <<terminal, ending, next, polled, message, call, pump>>
      BY DEF ReadStops
    <2>2. step' \in Steps
      BY DEF NameTypes, Steps, ReadStops, InPump, ReadEnds
    <2> QED
      BY <2>1, <2>2 DEF NameTypes
  <1>3. Order'
    BY DEF Order, InsidePump, ReadStops, InPump, ReadEnds
  <1>4. Endings'
    BY DEF Endings, ReadStops, InPump, ReadEnds
  <1>5. TailOrder'
    BY DEF TailOrder, Order, InsidePump, ReadStops, InPump, ReadEnds
  <1>6. Queued'
    BY DEF Queued, RoomForRecord, filled, ReadStops, InPump, ReadEnds
  <1>7. Full'
    BY DEF Full, RoomForRecord, filled, ReadStops, InPump, ReadEnds
  <1>8. Unwritten'
    BY DEF Unwritten, RoomForRecord, filled, Order, InsidePump, ReadStops, InPump,
       ReadEnds
  <1>9. Unread'
    BY DEF Unread, Registered, ReadStops, InPump, ReadEnds
  <1>10. Seen'
    BY DEF Seen, ReadStops, InPump, ReadEnds
  <1>11. Shelved'
    BY DEF Shelved, Retry, Message, Moves, ReadStops, InPump, ReadEnds
  <1>12. Finality'
    BY DEF Finality, Units, ReadStops, InPump, ReadEnds
  <1>13. UNCHANGED <<outbound, wire, made, control, written, space, closing,
          producePending, broken, writeWait, inbound, events, batch, ahead, window,
          streams, releases, credit, held, wanted, emitted, reported, close,
          finished, openWait, work, woken, ends, shelved, retried, offers, offered,
          taken, sent, next, message, call, ending>>
    BY DEF ReadStops
  <1>14. OutTypes' /\ OutFlags' /\ SeqTypes' /\ CountTypes' /\ AdapterFlags' /\
         TaskFlags' /\ OfferTypes' /\ Buffer' /\ Account' /\ OfferIsHonest' /\
         Batches' /\ Closed'
    BY <1>13, OutTypesStays, OutFlagsStays, SeqTypesStays, CountTypesStays,
       AdapterFlagsStays, TaskFlagsStays, OfferTypesStays, BufferStays, AccountStays,
       OfferIsHonestStays, BatchesStays, ClosedStays
  <1> QED
    BY <1>1, <1>2, <1>3, <1>4, <1>5, <1>6, <1>7, <1>8, <1>9, <1>10, <1>11, <1>12,
       <1>14

\* The reader that finds nothing leaves its waker with the byte stream.
LEMMA ReadPendingKeeps ==
    ASSUME PumpInv, ReadPending
    PROVE  PumpInv'
  <1>1. ConnFlags'
    <2>1. UNCHANGED <<boundary, shut, aheadWait>>
      BY DEF ReadPending
    <2>2. readWait' \in BOOLEAN
      BY Zenon DEF ConnFlags, ReadPending, InPump, ReadEnds
    <2> QED
      BY <2>1, <2>2, Zenon DEF ConnFlags
  <1>2. NameTypes'
    <2>1. UNCHANGED <<terminal, ending, next, polled, message, call, pump>>
      BY DEF ReadPending
    <2>2. step' \in Steps
      BY DEF NameTypes, Steps, ReadPending, InPump, ReadEnds
    <2> QED
      BY <2>1, <2>2 DEF NameTypes
  <1>3. Order'
    BY DEF Order, InsidePump, ReadPending, InPump, ReadEnds
  <1>4. Endings'
    BY DEF Endings, ReadPending, InPump, ReadEnds
  <1>5. TailOrder'
    BY DEF TailOrder, Order, InsidePump, ReadPending, InPump, ReadEnds
  <1>6. Queued'
    BY DEF Queued, RoomForRecord, filled, ReadPending, InPump, ReadEnds
  <1>7. Full'
    BY DEF Full, RoomForRecord, filled, ReadPending, InPump, ReadEnds
  <1>8. Unwritten'
    BY DEF Unwritten, RoomForRecord, filled, Order, InsidePump, ReadPending, InPump,
       ReadEnds
  <1>9. Unread'
    BY DEF Unread, Registered, ReadPending, InPump, ReadEnds
  <1>10. Seen'
    BY DEF Seen, ReadPending, InPump, ReadEnds
  <1>11. Shelved'
    BY DEF Shelved, Retry, Message, Moves, ReadPending, InPump, ReadEnds
  <1>12. Finality'
    BY DEF Finality, Units, ReadPending, InPump, ReadEnds
  <1>13. UNCHANGED <<outbound, wire, made, control, written, space, closing,
          producePending, broken, writeWait, inbound, events, batch, ahead, window,
          streams, releases, credit, held, wanted, emitted, reported, close,
          finished, openWait, work, woken, ends, shelved, retried, offers, offered,
          taken, sent, next, message, call, ending>>
    BY DEF ReadPending
  <1>14. OutTypes' /\ OutFlags' /\ SeqTypes' /\ CountTypes' /\ AdapterFlags' /\
         TaskFlags' /\ OfferTypes' /\ Buffer' /\ Account' /\ OfferIsHonest' /\
         Batches' /\ Closed'
    BY <1>13, OutTypesStays, OutFlagsStays, SeqTypesStays, CountTypesStays,
       AdapterFlagsStays, TaskFlagsStays, OfferTypesStays, BufferStays, AccountStays,
       OfferIsHonestStays, BatchesStays, ClosedStays
  <1> QED
    BY <1>1, <1>2, <1>3, <1>4, <1>5, <1>6, <1>7, <1>8, <1>9, <1>10, <1>11, <1>12,
       <1>14

\* The end of the byte stream, or its failure, is latched.
LEMMA ReadFailsKeeps ==
    ASSUME PumpInv, ReadFails
    PROVE  PumpInv'
  <1>1. NameTypes'
    <2>1. UNCHANGED <<ending, next, polled, message, call, pump>>
      BY DEF ReadFails
    <2>2. terminal' \in {"no", "io", "eof", "truncated", "peer", "local"}
      BY DEF NameTypes, ReadFails, InPump, Latch
    <2>3. step' \in Steps
      BY DEF NameTypes, Steps, ReadFails, InPump, Latch
    <2> QED
      BY <2>1, <2>2, <2>3 DEF NameTypes
  <1>2. Order'
    BY DEF Order, InsidePump, ReadFails, InPump, Latch
  <1>3. Endings'
    BY DEF Endings, ReadFails, InPump, Latch
  <1>4. TailOrder'
    BY DEF TailOrder, Order, InsidePump, ReadFails, InPump, Latch
  <1>5. Queued'
    BY DEF Queued, RoomForRecord, filled, ReadFails, InPump, Latch
  <1>6. Full'
    BY DEF Full, RoomForRecord, filled, ReadFails, InPump, Latch
  <1>7. Unwritten'
    BY DEF Unwritten, RoomForRecord, filled, Order, InsidePump, ReadFails, InPump,
       Latch
  <1>8. Unread'
    BY DEF Unread, Registered, ReadFails, InPump, Latch
  <1>9. Seen'
    BY DEF Seen, ReadFails, InPump, Latch
  <1>10. Shelved'
    BY DEF Shelved, Retry, Message, Moves, ReadFails, InPump, Latch
  <1>11. Finality'
    BY DEF Finality, Units, ReadFails, InPump, Latch
  <1>12. UNCHANGED <<outbound, wire, made, control, written, space, closing,
          producePending, broken, writeWait, inbound, events, batch, ahead, window,
          streams, releases, credit, held, wanted, boundary, shut, readWait,
          aheadWait, emitted, reported, close, finished, openWait, work, woken, ends,
          shelved, retried, offers, offered, taken, sent, next, message, call,
          ending>>
    BY DEF ReadFails
  <1>13. OutTypes' /\ OutFlags' /\ SeqTypes' /\ CountTypes' /\ ConnFlags' /\
         AdapterFlags' /\ TaskFlags' /\ OfferTypes' /\ Buffer' /\ Account' /\
         OfferIsHonest' /\ Batches' /\ Closed'
    BY <1>12, OutTypesStays, OutFlagsStays, SeqTypesStays, CountTypesStays,
       ConnFlagsStays, AdapterFlagsStays, TaskFlagsStays, OfferTypesStays,
       BufferStays, AccountStays, OfferIsHonestStays, BatchesStays, ClosedStays
  <1> QED
    BY <1>1, <1>2, <1>3, <1>4, <1>5, <1>6, <1>7, <1>8, <1>9, <1>10, <1>11, <1>13

\* A batch that is read: its events are queued and what it asks for is noticed.  A pump that
\* does not look at the events wakes the task for them.
LEMMA ReadSomeKeeps ==
    ASSUME NEW k \in 1..Len(inbound), NEW n \in 0..k, PumpInv, ReadSome(k, n)
    PROVE  PumpInv'
  <1>1. /\ inbound \in Seq(Kinds) /\ events \in Seq(Kinds) /\ Len(inbound) \in Nat
        /\ k \in Nat /\ k >= 1 /\ k <= Len(inbound) /\ n \in Nat /\ n \in 0..Len(inbound)
        /\ window \in Nat /\ streams \in Nat /\ control \in Seq(Frames)
    BY DEF SeqTypes, CountTypes, OutTypes
  <1>2. /\ pump \in {"buffered", "event"} /\ terminal = "no" /\ step = "read"
    BY DEF ReadSome, InPump, Order
  <1>3. ending = "no" /\ closing = "no"
    BY <1>2 DEF Endings, TailOrder
  <1>4. /\ events' \in Seq(Kinds) /\ window' \in Nat
        /\ events # <<>> => events' # <<>>
        /\ window' = window \/ events' # <<>>
    <2>1. PICK f \in Ordered(Items(n, Kinds \ {"half", "ping"})) :
              events' = events \o [i \in DOMAIN f |-> inbound[f[i]]]
      BY DEF ReadSome
    <2>2. window' = window + Count(n, "window")
      BY DEF ReadSome
    <2> QED
      BY <1>1, <2>1, <2>2, EventsQueued
  <1>5. inbound' \in Seq(Kinds)
    <2>1. inbound' = SubSeq(inbound, k + 1, Len(inbound))
      BY DEF ReadSome
    <2> QED
      BY <1>1, <2>1
  <1>6. streams' \in Nat
    <2>1. streams' = streams + Count(n, "limit")
      BY DEF ReadSome
    <2> QED
      BY <1>1, <2>1, ItemsCounted DEF Count
  <1>7. control' \in Seq(Frames) /\ producePending' = TRUE
    <2> DEFINE c == Count(n, "ping")
    <2>1. control' = control \o [i \in 1..c |-> "pong"] /\ producePending' = TRUE
      BY DEF ReadSome, Queue
    <2>2. c \in Nat
      BY <1>1, ItemsCounted DEF Count
    <2> HIDE DEF c
    <2>3. [i \in 1..c |-> "pong"] \in Seq(Frames)
      BY <2>2 DEF Frames
    <2> QED
      BY <1>1, <2>1, <2>3, ConcatProperties
  <1>8. boundary' \in BOOLEAN /\ shut' \in BOOLEAN /\ woken' \in BOOLEAN
    BY Zenon DEF ReadSome, ConnFlags, AdapterFlags, TaskFlags
  <1>9. \/ /\ step' = "pumped" /\ terminal' = "peer" /\ woken' = woken
        \/ /\ step' = "write again" /\ terminal' = "no"
           /\ woken' = (woken \/ pump = "buffered" \/ (pump = "event" /\ events' = <<>>))
    BY <1>2, Zenon DEF ReadSome, Latch, ReadEnds
  <1>10. UNCHANGED <<outbound, written, wire, closing, space, broken, writeWait, made, readWait,
                     total, scene, ahead, aheadWait, ending, releases, next, emitted, reported,
                     close, finished, credit, openWait, polled, call, pump, back, offers,
                     offered, ends, taken, sent, message, shelved, retried, batch, wanted,
                     held, work>>
    BY DEF ReadSome
  <1>11. OutTypes'
    BY <1>7, <1>10 DEF OutTypes
  <1>12. OutFlags'
    BY <1>7, <1>10 DEF OutFlags
  <1>13. SeqTypes'
    BY <1>4, <1>5, <1>10 DEF SeqTypes, Kinds, Visible, Batched
  <1>14. CountTypes'
    BY <1>4, <1>6, <1>10 DEF CountTypes
  <1>15. ConnFlags'
    <2>1. UNCHANGED <<readWait, aheadWait>>
      BY <1>8, <1>10
    <2>2. boundary' \in BOOLEAN
      BY <1>8
    <2>3. shut' \in BOOLEAN
      BY <1>8
    <2> QED
      BY <2>1, <2>2, <2>3, Zenon DEF ConnFlags
  <1>16. TaskFlags'
    <2>1. UNCHANGED <<work, ends, shelved, retried>>
      BY <1>8, <1>10
    <2>2. woken' \in BOOLEAN
      BY <1>8
    <2> QED
      BY <2>1, <2>2, Zenon DEF TaskFlags
  <1>17. NameTypes'
    BY <1>2, <1>3, <1>9, <1>10 DEF NameTypes, Calls, Steps
  <1>18. Order'
    BY <1>2, <1>3, <1>9, <1>10 DEF Order, InsidePump
  <1>19. Endings'
    BY <1>2, <1>3, <1>9, <1>10 DEF Endings
  <1>20. TailOrder'
    BY <1>2, <1>3, <1>9, <1>10, <1>7 DEF TailOrder, Order, InsidePump
  <1>21. Queued'
    BY <1>2, <1>3, <1>9, <1>10, <1>7 DEF Queued, RoomForRecord, filled
  <1>22. Full'
    BY <1>2, <1>3, <1>9, <1>10 DEF Full, RoomForRecord, filled
  <1>23. Unwritten'
    BY <1>2, <1>3, <1>9, <1>10, <1>7 DEF Unwritten, RoomForRecord, filled
  <1>24. Unread'
    BY <1>2, <1>3, <1>9, <1>10 DEF Unread, Registered
  <1>25. Seen'
    BY <1>2, <1>3, <1>9, <1>10 DEF Seen, Order, InsidePump
  <1>26. Shelved'
    <2>1. call = "transmit" => woken' \/ terminal' # "no"
      BY <1>2, <1>9 DEF Order
    <2>2. step' \in {"pumped", "write again"} /\ (woken => woken')
      <3>1. step' = "pumped" \/ step' = "write again"
        BY <1>9, Zenon
      <3>2. woken => woken'
        BY <1>9, Zenon
      <3> QED
        BY <3>1, <3>2
    <2>3. call = "idle" /\ shelved /\ ~woken' =>
            (pump' = "event" /\ events' # <<>>) \/ (step' = "pumped" /\ terminal' # "no")
      BY <1>2, <1>9, <1>10
    <2>4. retried' => offers' > 0
      BY <1>10 DEF Shelved
    <2>5. shelved' => message' = "going" /\ wanted' = 0 /\ "send" \in scene'.does
      BY <1>10 DEF Shelved, Moves
    <2> QED
      BY <1>10, <2>1, <2>2, <2>3, <2>4, <2>5 DEF Shelved, Moves
  <1>27. Finality'
    BY <1>2, <1>3, <1>9, <1>10 DEF Finality, Units
  <1>28. Batches'
    BY <1>2, <1>3, <1>9, <1>10 DEF Batches, EndingIsLast, Contains
  <1>29. UNCHANGED <<emitted, reported, close, finished, openWait, offers, offered,
          taken, sent, outbound, written, wire, made, next, held, credit, ahead,
          message, closing>>
    BY <1>10
  <1>30. AdapterFlags' /\ OfferTypes' /\ Buffer' /\ Account' /\ OfferIsHonest' /\
         Closed'
    BY <1>29, AdapterFlagsStays, OfferTypesStays, BufferStays, AccountStays,
       OfferIsHonestStays, ClosedStays
  <1> QED
    BY <1>11, <1>12, <1>13, <1>14, <1>15, <1>16, <1>17, <1>18, <1>19, <1>20, <1>21, <1>22,
       <1>23, <1>24, <1>25, <1>26, <1>27, <1>28, <1>30

\* The pump returns to its call with its promises: what it did not read or write has a
\* waker, or the ending is latched.
LEMMA PumpedKeeps ==
    ASSUME PumpInv, Pumped
    PROVE  PumpInv'
  <1>1. /\ pump \in {"buffered", "forced"} /\ step = "pumped" /\ step' = back
        /\ pump' = "none" /\ back' = "none"
        /\ back \in {"release", "open", "opened", "offer", "settle", "parked"}
        /\ back = "parked" <=> pump = "forced"
    BY DEF Pumped, StopPump, Order
  <1>2. /\ ending' = ending \/ ending' \in {"orderly", "failure"}
        /\ ending' = ending /\ pump = "forced" => terminal = "no"
    BY DEF Pumped, Kind, Endings
  <1>3. TaskFlags'
    <2>1. UNCHANGED <<work, ends, shelved, retried>>
      BY DEF Pumped
    <2>2. woken' \in BOOLEAN
      BY Zenon DEF TaskFlags, Pumped, Kind, StopPump
    <2> QED
      BY <2>1, <2>2, Zenon DEF TaskFlags
  <1>4. NameTypes'
    <2>1. step' \in Steps
      BY <1>1 DEF Steps
    <2>2. ending' \in {"no", "orderly", "failure"}
      BY <1>2 DEF NameTypes
    <2>3. pump' \in {"none", "buffered", "event", "forced", "finish"}
      BY <1>1
    <2>4. UNCHANGED <<terminal, next, polled, message, call>>
      BY DEF Pumped
    <2> QED
      BY <2>1, <2>2, <2>3, <2>4 DEF NameTypes
  <1>5. Order'
    BY DEF Order, InsidePump, Pumped, Kind, StopPump
  <1>6. Endings'
    BY DEF Endings, Order, InsidePump, Pumped, Kind, StopPump
  <1>7. TailOrder'
    BY DEF TailOrder, Order, InsidePump, Pumped, Kind, StopPump
  <1>8. Queued'
    BY DEF Queued, RoomForRecord, filled, Order, InsidePump, Pumped, Kind, StopPump
  <1>9. Full'
    BY DEF Full, RoomForRecord, filled, Order, InsidePump, Pumped, Kind, StopPump
  <1>10. Unwritten'
    <2>1. step' = "parked" /\ ~woken' => pump = "forced" /\ terminal = "no" /\ ~woken
      <3>1. ~woken' => ~woken /\ (pump = "forced" => ending' = ending)
        BY Zenon DEF Pumped
      <3> QED
        BY <1>1, <1>2, <3>1
    <2>2. UNCHANGED <<written, outbound, writeWait, space, control>>
      BY DEF Pumped
    <2>3. RoomForRecord' = RoomForRecord /\ filled' = filled
      BY <2>2 DEF RoomForRecord, filled
    <2> QED
      BY <1>1, <2>1, <2>2, <2>3 DEF Unwritten
  <1>11. Unread'
    BY DEF Unread, Registered, Order, InsidePump, Pumped, Kind, StopPump
  <1>12. Seen'
    BY DEF Seen, Order, InsidePump, Pumped, Kind, StopPump
  <1>13. Shelved'
    BY DEF Shelved, Retry, Message, Moves, Order, InsidePump, Pumped, Kind, StopPump
  <1>14. Finality'
    BY DEF Finality, Units, Order, InsidePump, Pumped, Kind, StopPump
  <1>15. Batches'
    BY DEF Batches, EndingIsLast, Contains, Pumped, Kind, StopPump
  <1>16. UNCHANGED <<outbound, wire, made, control, written, space, closing,
          producePending, broken, writeWait, inbound, events, batch, ahead, window,
          streams, releases, credit, held, wanted, boundary, shut, readWait,
          aheadWait, emitted, reported, close, finished, openWait, offers, offered,
          taken, sent, next, message>>
    BY DEF Pumped
  <1>17. OutTypes' /\ OutFlags' /\ SeqTypes' /\ CountTypes' /\ ConnFlags' /\
         AdapterFlags' /\ OfferTypes' /\ Buffer' /\ Account' /\ OfferIsHonest' /\
         Closed'
    BY <1>16, OutTypesStays, OutFlagsStays, SeqTypesStays, CountTypesStays,
       ConnFlagsStays, AdapterFlagsStays, OfferTypesStays, BufferStays, AccountStays,
       OfferIsHonestStays, ClosedStays
  <1> QED
    BY <1>3, <1>4, <1>5, <1>6, <1>7, <1>8, <1>9, <1>10, <1>11, <1>12, <1>13, <1>14,
       <1>15, <1>17

\* poll_event passes the credit on before it asks anything below.
LEMMA EventEnterKeeps ==
    ASSUME PumpInv, EventEnter
    PROVE  PumpInv'
  <1>1. /\ control' \in Seq(Frames) /\ producePending' \in BOOLEAN
        /\ ~producePending' => control' = <<>>
        /\ ending # "no" \/ terminal # "no" => UNCHANGED <<control, producePending>>
        /\ ahead' \in Nat /\ credit' = 0 /\ aheadWait' \in BOOLEAN /\ woken' \in BOOLEAN
        /\ Account'
        /\ woken => woken'
        /\ ~woken' /\ ahead >= Allowance /\ aheadWait => ahead' >= Allowance /\ aheadWait'
    <2>1. /\ FlushCredit /\ QueueAfterCredit(<<>>) /\ UNCHANGED <<next, held>>
          /\ <<>> \in {<<>>, <<"reset">>}
      BY DEF EventEnter, UnlessCredited
    <2>2. ~producePending => control = <<>>
      BY DEF Queued
    <2> QED
      BY <2>1, <2>2, CreditPassed
  <1>2. OutTypes'
    BY <1>1 DEF OutTypes, EventEnter, InEvent, StartPump, StopPump, UnlessCredited
  <1>3. OutFlags'
    BY <1>1 DEF OutFlags, EventEnter, InEvent, StartPump, StopPump, UnlessCredited
  <1>4. CountTypes'
    BY <1>1 DEF CountTypes, EventEnter, InEvent, StartPump, StopPump, UnlessCredited
  <1>5. ConnFlags'
    <2>1. UNCHANGED <<boundary, shut, readWait>>
      BY <1>1 DEF EventEnter, UnlessCredited
    <2>2. aheadWait' \in BOOLEAN
      BY <1>1, Zenon DEF ConnFlags, EventEnter, InEvent, StartPump, StopPump,
         UnlessCredited
    <2> QED
      BY <2>1, <2>2, Zenon DEF ConnFlags
  <1>6. TaskFlags'
    <2>1. UNCHANGED <<work, ends, shelved, retried>>
      BY <1>1 DEF EventEnter, UnlessCredited
    <2>2. woken' \in BOOLEAN
      BY <1>1, Zenon DEF TaskFlags, EventEnter, InEvent, StartPump, StopPump,
         UnlessCredited
    <2> QED
      BY <2>1, <2>2, Zenon DEF TaskFlags
  <1>7. NameTypes'
    <2>1. UNCHANGED <<terminal, ending, next, message, call>>
      BY <1>1 DEF EventEnter, UnlessCredited
    <2>2. polled' \in {"no", "yes", "progress"}
      BY <1>1 DEF NameTypes, EventEnter, InEvent, StartPump, StopPump, UnlessCredited
    <2>3. step' \in Steps
      BY <1>1 DEF NameTypes, Steps, EventEnter, InEvent, StartPump, StopPump,
         UnlessCredited
    <2>4. pump' \in {"none", "buffered", "event", "forced", "finish"}
      BY <1>1 DEF NameTypes, EventEnter, InEvent, StartPump, StopPump, UnlessCredited
    <2> QED
      BY <2>1, <2>2, <2>3, <2>4 DEF NameTypes
  <1>8. Account'
    BY <1>1
  <1>9. Order'
    BY <1>1 DEF Order, InsidePump, EventEnter, InEvent, StartPump, StopPump,
       UnlessCredited
  <1>10. Endings'
    BY <1>1 DEF Endings, EventEnter, InEvent, StartPump, StopPump, UnlessCredited
  <1>11. TailOrder'
    BY <1>1 DEF TailOrder, EventEnter, InEvent, StartPump, StopPump, UnlessCredited
  <1>12. Queued'
    BY <1>1 DEF Queued, RoomForRecord, filled, EventEnter, InEvent, StartPump,
       StopPump, UnlessCredited
  <1>13. Full'
    BY <1>1 DEF Full, RoomForRecord, filled, EventEnter, InEvent, StartPump, StopPump,
       UnlessCredited
  <1>14. Unwritten'
    BY <1>1 DEF Unwritten, RoomForRecord, filled, EventEnter, InEvent, StartPump,
       StopPump, UnlessCredited
  <1>15. Unread'
    BY <1>1 DEF Unread, Registered, EventEnter, InEvent, StartPump, StopPump,
       UnlessCredited
  <1>16. Seen'
    BY <1>1 DEF Seen, Order, InsidePump, CountTypes, EventEnter, InEvent, StartPump,
       StopPump, UnlessCredited
  <1>17. Shelved'
    BY <1>1 DEF Shelved, Retry, Message, Moves, EventEnter, InEvent, StartPump,
       StopPump, UnlessCredited
  <1>18. Finality'
    BY <1>1 DEF Finality, Units, EventEnter, InEvent, StartPump, StopPump,
       UnlessCredited
  <1>19. UNCHANGED <<inbound, events, batch, emitted, reported, close, finished,
          openWait, offers, offered, taken, sent, outbound, written, wire, made,
          message, call, ending, releases, next, closing>>
    BY DEF EventEnter
  <1>20. SeqTypes' /\ AdapterFlags' /\ OfferTypes' /\ Buffer' /\ OfferIsHonest' /\
         Batches' /\ Closed'
    BY <1>19, SeqTypesStays, AdapterFlagsStays, OfferTypesStays, BufferStays,
       OfferIsHonestStays, BatchesStays, ClosedStays
  <1> QED
    BY <1>2, <1>3, <1>4, <1>5, <1>6, <1>7, <1>8, <1>9, <1>10, <1>11, <1>12, <1>13,
       <1>14, <1>15, <1>16, <1>17, <1>18, <1>20

\* A release is handed over before the event that waits.
LEMMA ReleaseKeeps ==
    ASSUME PumpInv, Release
    PROVE  PumpInv'
  <1>1. batch \in Seq(Batched) /\ (call = "idle" => batch = <<>>)
    BY DEF SeqTypes, Batches
  <1>2. releases > 0 =>
           /\ batch' \in Seq(Batched) /\ batch' # <<>>
           /\ \A x : Contains(batch', x) <=> "released" = x \/ Contains(batch, x)
           /\ Head(batch') = IF batch = <<>> THEN "released" ELSE Head(batch)
           /\ emitted' = TRUE /\ step' = "enter" /\ call' \in {"events", "act"}
    <2>1. "released" \in Batched /\ (releases > 0 => HandOver("released"))
      BY DEF Batched, Release
    <2> QED
      BY <1>1, <2>1, Handed
  <1>3. ~(releases > 0) => step' = "decide" /\ UNCHANGED <<releases, emitted, batch, call>>
    BY DEF Release
  <1>4. \/ step' = "enter" /\ call' \in {"events", "act"} /\ releases > 0
        \/ step' = "decide" /\ call' = call /\ ~(releases > 0) /\ releases' = releases
    BY <1>2, <1>3
  <1>5. UNCHANGED <<terminal, ending, next, polled, message, pump, back, woken, events, inbound,
                    readWait, ahead, aheadWait, credit, work, streams>>
    BY DEF Release
  <1>6. /\ step = "release" /\ call \in {"events", "idle"} /\ pump = "none"
        /\ releases > 0 \/ next # Nothing
    BY DEF Release, InEvent, Order, InsidePump, Seen
  <1>7. SeqTypes'
    BY <1>2, <1>3 DEF SeqTypes, Release
  <1>8. CountTypes'
    BY <1>2, <1>3 DEF CountTypes, Release, InEvent
  <1>9. AdapterFlags'
    <2>1. UNCHANGED <<reported, close, finished, openWait>>
      BY <1>2, <1>3 DEF Release
    <2>2. emitted' \in BOOLEAN
      BY <1>2, <1>3, Zenon DEF AdapterFlags
    <2> QED
      BY <2>1, <2>2, Zenon DEF AdapterFlags
  <1>10. NameTypes'
    <2>1. step' \in Steps /\ call' \in Calls
      BY <1>4, <1>6 DEF Steps, Calls
    <2> QED
      BY <1>5, <2>1 DEF NameTypes
  <1>11. Order'
    BY <1>2, <1>3 DEF Order, InsidePump, Release, InEvent
  <1>12. Endings'
    BY <1>2, <1>3 DEF Endings, Release, InEvent
  <1>13. TailOrder'
    BY <1>2, <1>3 DEF TailOrder, Release, InEvent
  <1>14. Queued'
    BY <1>2, <1>3 DEF Queued, RoomForRecord, filled, Release, InEvent
  <1>15. Full'
    BY <1>2, <1>3 DEF Full, RoomForRecord, filled, Release, InEvent
  <1>16. Unwritten'
    BY <1>2, <1>3 DEF Unwritten, RoomForRecord, filled, Release, InEvent
  <1>17. Unread'
    BY <1>4, <1>5, <1>6 DEF Unread, Registered
  <1>18. Seen'
    <2>1. step' = "decide" => releases' = 0 /\ next' # Nothing
      BY <1>4, <1>5, <1>6 DEF CountTypes
    <2> QED
      BY <1>4, <1>5, <1>6, <2>1 DEF Seen
  <1>19. Shelved'
    BY <1>2, <1>3 DEF Shelved, Retry, Message, Moves, Release, InEvent
  <1>20. Finality'
    BY <1>2, <1>3 DEF Finality, Units, Release, InEvent
  <1>21. Batches'
    <2>1. CASE releases > 0
      <3>1. ~Contains(batch, "closed") /\ ~Contains(batch', "closed") /\ ~reported
        <4>1. ~Contains(batch, "closed") /\ call # "tail"
          BY <2>1 DEF Release, InEvent, Batches, EndingIsLast
        <4> QED
          BY <1>2, <2>1, <4>1, Zenon DEF Batches
      <3>2. Contains(batch', "end") => Head(batch') = "end"
        <4>1. Contains(batch, "end") => batch # <<>> /\ Head(batch) = "end"
          BY DEF Batches, EndingIsLast, Contains
        <4> QED
          BY <1>2, <2>1, <4>1, Zenon
      <3>3. emitted' = TRUE /\ call' \in {"events", "act"} /\ reported' = reported
        BY <1>2, <2>1 DEF Release
      <3> QED
        BY <3>1, <3>2, <3>3 DEF Batches, EndingIsLast
    <2>2. CASE ~(releases > 0)
      BY <1>3, <2>2, BatchesStays DEF Release
    <2> QED
      BY <2>1, <2>2
  <1>22. UNCHANGED <<outbound, wire, made, control, written, space, closing,
          producePending, broken, writeWait, boundary, shut, readWait, aheadWait,
          work, woken, ends, shelved, retried, offers, offered, taken, sent, next,
          held, credit, ahead, message, close>>
    BY DEF Release
  <1>23. OutTypes' /\ OutFlags' /\ ConnFlags' /\ TaskFlags' /\ OfferTypes' /\
         Buffer' /\ Account' /\ OfferIsHonest' /\ Closed'
    BY <1>22, OutTypesStays, OutFlagsStays, ConnFlagsStays, TaskFlagsStays,
       OfferTypesStays, BufferStays, AccountStays, OfferIsHonestStays, ClosedStays
  <1> QED
    BY <1>7, <1>8, <1>9, <1>10, <1>11, <1>12, <1>13, <1>14, <1>15, <1>16, <1>17, <1>18,
       <1>19, <1>20, <1>21, <1>23

\* The first event that HTTP/3 sees is taken, the others are used up.
LEMMA FillTakesKeeps ==
    ASSUME PumpInv, FillTakes
    PROVE  PumpInv'
  <1>1. woken' \in BOOLEAN /\ openWait' \in BOOLEAN
    <2>1. woken \in BOOLEAN /\ openWait \in BOOLEAN
      BY DEF TaskFlags, AdapterFlags
    <2>2. \/ woken' = (woken \/ openWait) /\ openWait' = FALSE
          \/ woken' = woken /\ openWait' = openWait
      BY Zenon DEF FillTakes
    <2> QED
      BY <2>1, <2>2, Zenon
  <1>2. SeqTypes'
    BY DEF SeqTypes, Kinds, Visible, Batched, FillTakes, InEvent
  <1>3. CountTypes'
    BY DEF CountTypes, FillTakes, InEvent
  <1>4. AdapterFlags'
    <2>1. UNCHANGED <<emitted, reported, close, finished>>
      BY DEF FillTakes
    <2>2. openWait' \in BOOLEAN
      BY <1>1
    <2> QED
      BY <2>1, <2>2, Zenon DEF AdapterFlags
  <1>5. TaskFlags'
    <2>1. UNCHANGED <<work, ends, shelved, retried>>
      BY DEF FillTakes
    <2>2. woken' \in BOOLEAN
      BY <1>1
    <2> QED
      BY <2>1, <2>2, Zenon DEF TaskFlags
  <1>6. NameTypes'
    <2>1. UNCHANGED <<terminal, ending, polled, message, call, step, pump>>
      BY DEF FillTakes
    <2>2. next' \in Visible \cup {Nothing}
      BY DEF NameTypes, Visible, FillTakes, InEvent
    <2> QED
      BY <2>1, <2>2 DEF NameTypes
  <1>7. Account'
    BY DEF Account, CountTypes, Nothing, Visible, FillTakes, InEvent
  <1>8. Endings'
    BY DEF Endings, FillTakes, InEvent
  <1>9. Full'
    BY DEF Full, RoomForRecord, filled, FillTakes, InEvent
  <1>10. Unwritten'
    BY DEF Unwritten, RoomForRecord, filled, FillTakes, InEvent
  <1>11. Unread'
    BY DEF Unread, Registered, Order, InsidePump, Seen, FillTakes, InEvent
  <1>12. Seen'
    BY DEF Seen, Order, InsidePump, FillTakes, InEvent
  <1>13. Shelved'
    BY DEF Shelved, Retry, Message, Moves, Order, InsidePump, Seen, NameTypes,
       FillTakes, InEvent
  <1>14. Batches'
    BY DEF Batches, EndingIsLast, Contains, FillTakes, InEvent
  <1>15. UNCHANGED <<outbound, wire, made, control, written, space, closing,
          producePending, broken, writeWait, boundary, shut, readWait, aheadWait,
          offers, offered, taken, sent, pump, step, back, call, wanted, terminal,
          close, finished, ending, message, ends>>
    BY DEF FillTakes
  <1>16. OutTypes' /\ OutFlags' /\ ConnFlags' /\ OfferTypes' /\ Buffer' /\ Order' /\
         TailOrder' /\ Queued' /\ Finality' /\ OfferIsHonest' /\ Closed'
    BY <1>15, OutTypesStays, OutFlagsStays, ConnFlagsStays, OfferTypesStays,
       BufferStays, OrderStays, TailOrderStays, QueuedStays, FinalityStays,
       OfferIsHonestStays, ClosedStays
  <1> QED
    BY <1>2, <1>3, <1>4, <1>5, <1>6, <1>7, <1>8, <1>9, <1>10, <1>11, <1>12, <1>13,
       <1>14, <1>16

\* With nothing queued the lower layer is polled once.
LEMMA FillPollsKeeps ==
    ASSUME PumpInv, FillPolls
    PROVE  PumpInv'
  <1>1. NameTypes'
    <2>1. UNCHANGED <<terminal, ending, next, polled, message, call>>
      BY DEF FillPolls
    <2>2. step' \in Steps
      BY DEF NameTypes, Steps, FillPolls, InEvent
    <2>3. pump' \in {"none", "buffered", "event", "forced", "finish"}
      BY DEF NameTypes, FillPolls, InEvent
    <2> QED
      BY <2>1, <2>2, <2>3 DEF NameTypes
  <1>2. Order'
    BY DEF Order, InsidePump, FillPolls, InEvent
  <1>3. Endings'
    BY DEF Endings, FillPolls, InEvent
  <1>4. TailOrder'
    BY DEF TailOrder, FillPolls, InEvent
  <1>5. Queued'
    BY DEF Queued, RoomForRecord, filled, FillPolls, InEvent
  <1>6. Full'
    BY DEF Full, RoomForRecord, filled, FillPolls, InEvent
  <1>7. Unwritten'
    BY DEF Unwritten, RoomForRecord, filled, FillPolls, InEvent
  <1>8. Unread'
    BY DEF Unread, Registered, FillPolls, InEvent
  <1>9. Seen'
    BY DEF Seen, FillPolls, InEvent
  <1>10. Shelved'
    BY DEF Shelved, Retry, Message, Moves, FillPolls, InEvent
  <1>11. Finality'
    BY DEF Finality, Units, FillPolls, InEvent
  <1>12. UNCHANGED <<outbound, wire, made, control, written, space, closing,
          producePending, broken, writeWait, inbound, events, batch, ahead, window,
          streams, releases, credit, held, wanted, boundary, shut, readWait,
          aheadWait, emitted, reported, close, finished, openWait, work, woken, ends,
          shelved, retried, offers, offered, taken, sent, next, message, call,
          ending>>
    BY DEF FillPolls
  <1>13. OutTypes' /\ OutFlags' /\ SeqTypes' /\ CountTypes' /\ ConnFlags' /\
         AdapterFlags' /\ TaskFlags' /\ OfferTypes' /\ Buffer' /\ Account' /\
         OfferIsHonest' /\ Batches' /\ Closed'
    BY <1>12, OutTypesStays, OutFlagsStays, SeqTypesStays, CountTypesStays,
       ConnFlagsStays, AdapterFlagsStays, TaskFlagsStays, OfferTypesStays,
       BufferStays, AccountStays, OfferIsHonestStays, BatchesStays, ClosedStays
  <1> QED
    BY <1>1, <1>2, <1>3, <1>4, <1>5, <1>6, <1>7, <1>8, <1>9, <1>10, <1>11, <1>13

\* What the lower poll came back with.
LEMMA FillPolledKeeps ==
    ASSUME PumpInv, FillPolled
    PROVE  PumpInv'
  <1>1. NameTypes'
    <2>1. UNCHANGED <<terminal, next, message, call>>
      BY DEF FillPolled
    <2>2. ending' \in {"no", "orderly", "failure"}
      BY DEF NameTypes, FillPolled, Kind, StopPump
    <2>3. polled' \in {"no", "yes", "progress"}
      BY DEF NameTypes, FillPolled, Kind, StopPump
    <2>4. step' \in Steps
      BY DEF NameTypes, Steps, FillPolled, Kind, StopPump
    <2>5. pump' \in {"none", "buffered", "event", "forced", "finish"}
      BY DEF NameTypes, FillPolled, Kind, StopPump
    <2> QED
      BY <2>1, <2>2, <2>3, <2>4, <2>5 DEF NameTypes
  <1>2. Order'
    BY DEF Order, InsidePump, FillPolled, Kind, StopPump
  <1>3. Endings'
    BY DEF Endings, Order, InsidePump, FillPolled, Kind, StopPump
  <1>4. TailOrder'
    BY DEF TailOrder, FillPolled, Kind, StopPump
  <1>5. Queued'
    BY DEF Queued, RoomForRecord, filled, FillPolled, Kind, StopPump
  <1>6. Full'
    BY DEF Full, RoomForRecord, filled, FillPolled, Kind, StopPump
  <1>7. Unwritten'
    BY DEF Unwritten, RoomForRecord, filled, FillPolled, Kind, StopPump
  <1>8. Unread'
    BY DEF Unread, Registered, FillPolled, Kind, StopPump
  <1>9. Seen'
    BY DEF Seen, FillPolled, Kind, StopPump
  <1>10. Shelved'
    BY DEF Shelved, Retry, Message, Moves, FillPolled, Kind, StopPump
  <1>11. Finality'
    BY DEF Finality, Units, FillPolled, Kind, StopPump
  <1>12. Batches'
    BY DEF Batches, EndingIsLast, Contains, FillPolled, Kind, StopPump
  <1>13. UNCHANGED <<outbound, wire, made, control, written, space, closing,
          producePending, broken, writeWait, inbound, events, batch, ahead, window,
          streams, releases, credit, held, wanted, boundary, shut, readWait,
          aheadWait, emitted, reported, close, finished, openWait, work, woken, ends,
          shelved, retried, offers, offered, taken, sent, next, message>>
    BY DEF FillPolled
  <1>14. OutTypes' /\ OutFlags' /\ SeqTypes' /\ CountTypes' /\ ConnFlags' /\
         AdapterFlags' /\ TaskFlags' /\ OfferTypes' /\ Buffer' /\ Account' /\
         OfferIsHonest' /\ Closed'
    BY <1>13, OutTypesStays, OutFlagsStays, SeqTypesStays, CountTypesStays,
       ConnFlagsStays, AdapterFlagsStays, TaskFlagsStays, OfferTypesStays,
       BufferStays, AccountStays, OfferIsHonestStays, ClosedStays
  <1> QED
    BY <1>1, <1>2, <1>3, <1>4, <1>5, <1>6, <1>7, <1>8, <1>9, <1>10, <1>11, <1>12,
       <1>14

\* Nothing more from below: the reader is registered, or an ending is there.
LEMMA FillEndsKeeps ==
    ASSUME PumpInv, FillEnds
    PROVE  PumpInv'
  <1>1. TaskFlags'
    <2>1. UNCHANGED <<work, ends, shelved, retried>>
      BY DEF FillEnds
    <2>2. woken' \in BOOLEAN
      BY Zenon DEF TaskFlags, FillEnds, InEvent
    <2> QED
      BY <2>1, <2>2, Zenon DEF TaskFlags
  <1>2. NameTypes'
    <2>1. UNCHANGED <<terminal, ending, next, polled, message, call, pump>>
      BY DEF FillEnds
    <2>2. step' \in Steps
      BY DEF NameTypes, Steps, FillEnds, InEvent
    <2> QED
      BY <2>1, <2>2 DEF NameTypes
  <1>3. Order'
    BY DEF Order, InsidePump, FillEnds, InEvent
  <1>4. Endings'
    BY DEF Endings, FillEnds, InEvent
  <1>5. TailOrder'
    BY DEF TailOrder, FillEnds, InEvent
  <1>6. Queued'
    BY DEF Queued, RoomForRecord, filled, FillEnds, InEvent
  <1>7. Full'
    BY DEF Full, RoomForRecord, filled, FillEnds, InEvent
  <1>8. Unwritten'
    BY DEF Unwritten, RoomForRecord, filled, FillEnds, InEvent
  <1>9. Unread'
    BY DEF Unread, Registered, NameTypes, FillEnds, InEvent
  <1>10. Seen'
    BY DEF Seen, FillEnds, InEvent
  <1>11. Shelved'
    BY DEF Shelved, Retry, Message, Moves, FillEnds, InEvent
  <1>12. Finality'
    BY DEF Finality, Units, FillEnds, InEvent
  <1>13. UNCHANGED <<outbound, wire, made, control, written, space, closing,
          producePending, broken, writeWait, inbound, events, batch, ahead, window,
          streams, releases, credit, held, wanted, boundary, shut, readWait,
          aheadWait, emitted, reported, close, finished, openWait, offers, offered,
          taken, sent, next, message, call, ending>>
    BY DEF FillEnds
  <1>14. OutTypes' /\ OutFlags' /\ SeqTypes' /\ CountTypes' /\ ConnFlags' /\
         AdapterFlags' /\ OfferTypes' /\ Buffer' /\ Account' /\ OfferIsHonest' /\
         Batches' /\ Closed'
    BY <1>13, OutTypesStays, OutFlagsStays, SeqTypesStays, CountTypesStays,
       ConnFlagsStays, AdapterFlagsStays, OfferTypesStays, BufferStays, AccountStays,
       OfferIsHonestStays, BatchesStays, ClosedStays
  <1> QED
    BY <1>1, <1>2, <1>3, <1>4, <1>5, <1>6, <1>7, <1>8, <1>9, <1>10, <1>11, <1>12,
       <1>14

\* An end waits for a batch of its own; the task wakes itself for it.
LEMMA EventPostponedKeeps ==
    ASSUME PumpInv, EventPostponed
    PROVE  PumpInv'
  <1>1. AdapterFlags'
    <2>1. UNCHANGED <<reported, close, finished, openWait>>
      BY DEF EventPostponed
    <2>2. emitted' \in BOOLEAN
      BY Zenon DEF AdapterFlags, EventPostponed, InEvent, Postponed, Pending, Ended
    <2> QED
      BY <2>1, <2>2, Zenon DEF AdapterFlags
  <1>2. TaskFlags'
    <2>1. UNCHANGED <<work, ends, shelved, retried>>
      BY DEF EventPostponed
    <2>2. woken' \in BOOLEAN
      BY Zenon DEF TaskFlags, EventPostponed, InEvent, Postponed, Pending, Ended
    <2> QED
      BY <2>1, <2>2, Zenon DEF TaskFlags
  <1>3. NameTypes'
    <2>1. step' \in Steps /\ call' \in Calls
      BY DEF EventPostponed, InEvent, Pending, Steps, Calls
    <2> QED
      BY <2>1 DEF NameTypes, EventPostponed
  <1>4. Order'
    BY DEF Order, InsidePump, EventPostponed, InEvent, Postponed, Pending, Ended
  <1>5. Endings'
    BY DEF Endings, EventPostponed, InEvent, Postponed, Pending, Ended
  <1>6. TailOrder'
    BY DEF TailOrder, EventPostponed, InEvent, Postponed, Pending, Ended
  <1>7. Queued'
    BY DEF Queued, RoomForRecord, filled, EventPostponed, InEvent, Postponed, Pending,
       Ended
  <1>8. Full'
    BY DEF Full, RoomForRecord, filled, EventPostponed, InEvent, Postponed, Pending,
       Ended
  <1>9. Unwritten'
    BY DEF Unwritten, RoomForRecord, filled, EventPostponed, InEvent, Postponed,
       Pending, Ended
  <1>10. Unread'
    BY DEF Unread, Registered, EventPostponed, InEvent, Postponed, Pending, Ended
  <1>11. Seen'
    BY DEF Seen, EventPostponed, InEvent, Postponed, Pending, Ended
  <1>12. Shelved'
    BY DEF Shelved, Retry, Message, Moves, EventPostponed, InEvent, Postponed,
       Pending, Ended
  <1>13. Finality'
    BY DEF Finality, Units, EventPostponed, InEvent, Postponed, Pending, Ended
  <1>14. Batches'
    BY DEF Batches, EndingIsLast, Contains, EventPostponed, InEvent, Postponed,
       Pending, Ended
  <1>15. UNCHANGED <<outbound, wire, made, control, written, space, closing,
          producePending, broken, writeWait, inbound, events, batch, ahead, window,
          streams, releases, credit, held, wanted, boundary, shut, readWait,
          aheadWait, offers, offered, taken, sent, next, message, close>>
    BY DEF EventPostponed
  <1>16. OutTypes' /\ OutFlags' /\ SeqTypes' /\ CountTypes' /\ ConnFlags' /\
         OfferTypes' /\ Buffer' /\ Account' /\ OfferIsHonest' /\ Closed'
    BY <1>15, OutTypesStays, OutFlagsStays, SeqTypesStays, CountTypesStays,
       ConnFlagsStays, OfferTypesStays, BufferStays, AccountStays, OfferIsHonestStays,
       ClosedStays
  <1> QED
    BY <1>1, <1>2, <1>3, <1>4, <1>5, <1>6, <1>7, <1>8, <1>9, <1>10, <1>11, <1>12,
       <1>13, <1>14, <1>16

\* An event goes to the driver.
LEMMA EventHandedKeeps ==
    ASSUME PumpInv, EventHanded
    PROVE  PumpInv'
  <1>1. batch \in Seq(Batched) /\ (call = "idle" => batch = <<>>)
    BY DEF SeqTypes, Batches
  <1>2. next \in Visible /\ next \in Batched /\ next # "closed" /\ HandOver(next)
    BY DEF NameTypes, EventHanded, Visible, Batched
  <1>3. /\ batch' \in Seq(Batched) /\ batch' # <<>>
        /\ \A x : Contains(batch', x) <=> next = x \/ Contains(batch, x)
        /\ Head(batch') = IF batch = <<>> THEN next ELSE Head(batch)
        /\ emitted' = TRUE /\ step' = "enter" /\ call' \in {"events", "act"}
    BY <1>1, <1>2, Handed
  <1>4. SeqTypes'
    BY <1>3 DEF SeqTypes, EventHanded
  <1>5. CountTypes'
    BY DEF CountTypes, EventHanded, InEvent, Postponed, Ended
  <1>6. AdapterFlags'
    <2>1. UNCHANGED <<reported, close, finished, openWait>>
      BY <1>3 DEF EventHanded
    <2>2. emitted' \in BOOLEAN
      BY <1>3, Zenon DEF AdapterFlags, EventHanded, InEvent, Postponed, Ended
    <2> QED
      BY <2>1, <2>2, Zenon DEF AdapterFlags
  <1>7. NameTypes'
    <2>1. UNCHANGED <<terminal, ending, polled, message, pump>>
      BY <1>3, <1>2 DEF EventHanded
    <2>2. next' \in Visible \cup {Nothing}
      BY <1>3, <1>2 DEF NameTypes, Visible, EventHanded, InEvent, Postponed, Ended
    <2>3. call' \in Calls
      BY <1>3, <1>2 DEF NameTypes, Calls, EventHanded, InEvent, Postponed, Ended
    <2>4. step' \in Steps
      BY <1>3, <1>2 DEF NameTypes, Steps, EventHanded, InEvent, Postponed, Ended
    <2> QED
      BY <2>1, <2>2, <2>3, <2>4 DEF NameTypes
  <1>8. Account'
    BY DEF Account, CountTypes, Nothing, EventHanded, InEvent, Postponed, Ended
  <1>9. Order'
    BY <1>3, <1>2 DEF Order, InsidePump, EventHanded, InEvent, Postponed, Ended
  <1>10. Endings'
    BY <1>3, <1>2 DEF Endings, EventHanded, InEvent, Postponed, Ended
  <1>11. TailOrder'
    BY <1>3, <1>2 DEF TailOrder, EventHanded, InEvent, Postponed, Ended
  <1>12. Queued'
    BY <1>3, <1>2 DEF Queued, RoomForRecord, filled, EventHanded, InEvent, Postponed,
       Ended
  <1>13. Full'
    BY <1>3, <1>2 DEF Full, RoomForRecord, filled, EventHanded, InEvent, Postponed,
       Ended
  <1>14. Unwritten'
    BY <1>3, <1>2 DEF Unwritten, RoomForRecord, filled, EventHanded, InEvent,
       Postponed, Ended
  <1>15. Unread'
    BY <1>3, <1>2 DEF Unread, Registered, EventHanded, InEvent, Postponed, Ended
  <1>16. Seen'
    BY <1>3, <1>2 DEF Seen, Order, InsidePump, EventHanded, InEvent, Postponed, Ended
  <1>17. Shelved'
    BY <1>3, <1>2 DEF Shelved, Retry, Message, Moves, EventHanded, InEvent, Postponed,
       Ended
  <1>18. Finality'
    BY <1>3, <1>2 DEF Finality, Units, EventHanded, InEvent, Postponed, Ended
  <1>19. Batches'
    <2>1. ~Contains(batch, "closed")
      BY DEF EventHanded, Batches, EndingIsLast
    <2>2. ~Contains(batch', "closed") /\ ~reported
      BY <1>3, <1>2, <2>1, Zenon DEF EventHanded, Batches, Endings, Order, InEvent
    <2>3. next = "end" => batch = <<>>
      BY <1>1 DEF EventHanded, InEvent, Postponed, Batches
    <2>4. Contains(batch', "end") => Head(batch') = "end"
      <3>1. CASE next = "end"
        BY <1>3, <2>3, <3>1
      <3>2. CASE next # "end"
        <4>1. Contains(batch, "end") => batch # <<>> /\ Head(batch) = "end"
          BY DEF Batches, EndingIsLast, Contains
        <4> QED
          BY <1>3, <3>2, <4>1, Zenon
      <3> QED
        BY <3>1, <3>2
    <2>5. emitted' = TRUE /\ call' \in {"events", "act"} /\ reported' = reported
      BY <1>3 DEF EventHanded
    <2> QED
      BY <2>2, <2>4, <2>5 DEF Batches, EndingIsLast
  <1>20. UNCHANGED <<outbound, wire, made, control, written, space, closing,
          producePending, broken, writeWait, boundary, shut, readWait, aheadWait,
          work, woken, ends, shelved, retried, offers, offered, taken, sent, message,
          close>>
    BY DEF EventHanded
  <1>21. OutTypes' /\ OutFlags' /\ ConnFlags' /\ TaskFlags' /\ OfferTypes' /\
         Buffer' /\ OfferIsHonest' /\ Closed'
    BY <1>20, OutTypesStays, OutFlagsStays, ConnFlagsStays, TaskFlagsStays,
       OfferTypesStays, BufferStays, OfferIsHonestStays, ClosedStays
  <1> QED
    BY <1>4, <1>5, <1>6, <1>7, <1>8, <1>9, <1>10, <1>11, <1>12, <1>13, <1>14, <1>15,
       <1>16, <1>17, <1>18, <1>19, <1>21

\* The ending goes to the driver, in a batch of its own.
LEMMA EventEndingKeeps ==
    ASSUME PumpInv, EventEnding
    PROVE  PumpInv'
  <1>1. batch \in Seq(Batched) /\ (call = "idle" => batch = <<>>)
    BY DEF SeqTypes, Batches
  <1>2. batch = <<>> /\ events = <<>> /\ releases = 0 /\ next = Nothing /\ ending # "no"
    BY <1>1 DEF EventEnding, InEvent, Postponed, Ended, Batches, Seen
  <1>3. ending = "orderly" =>
           /\ batch' = <<"closed">> /\ batch' \in Seq(Batched)
           /\ emitted' = TRUE /\ step' = "enter" /\ call' \in {"events", "act"}
    <2>1. "closed" \in Batched /\ (ending = "orderly" => HandOver("closed"))
      BY DEF Batched, EventEnding
    <2> QED
      BY <1>1, <1>2, <2>1, Handed
  <1>4. ending # "orderly" => call' = "tail" /\ step' = "enter" /\ emitted' = TRUE /\ batch' = batch
    BY DEF EventEnding
  <1>5. SeqTypes'
    BY <1>3, <1>4 DEF SeqTypes, EventEnding
  <1>6. AdapterFlags'
    <2>1. UNCHANGED <<close, finished, openWait>>
      BY <1>3, <1>4, <1>2 DEF EventEnding
    <2>2. emitted' \in BOOLEAN
      BY <1>3, <1>4, <1>2, Zenon DEF AdapterFlags, EventEnding, InEvent, Postponed,
         Ended
    <2>3. reported' \in BOOLEAN
      BY <1>3, <1>4, <1>2, Zenon DEF AdapterFlags, EventEnding, InEvent, Postponed,
         Ended
    <2> QED
      BY <2>1, <2>2, <2>3, Zenon DEF AdapterFlags
  <1>7. NameTypes'
    <2>1. UNCHANGED <<terminal, ending, next, polled, message, pump>>
      BY <1>3, <1>4, <1>2 DEF EventEnding
    <2>2. call' \in Calls
      BY <1>3, <1>4, <1>2 DEF NameTypes, Calls, EventEnding, InEvent, Postponed, Ended
    <2>3. step' \in Steps
      BY <1>3, <1>4, <1>2 DEF NameTypes, Steps, EventEnding, InEvent, Postponed, Ended
    <2> QED
      BY <2>1, <2>2, <2>3 DEF NameTypes
  <1>8. Order'
    BY <1>3, <1>4, <1>2 DEF Order, InsidePump, EventEnding, InEvent, Postponed, Ended
  <1>9. Endings'
    BY <1>3, <1>4, <1>2 DEF Endings, EventEnding, InEvent, Postponed, Ended
  <1>10. TailOrder'
    BY <1>3, <1>4, <1>2 DEF TailOrder, Endings, EventEnding, InEvent, Postponed, Ended
  <1>11. Queued'
    BY <1>3, <1>4, <1>2 DEF Queued, RoomForRecord, filled, EventEnding, InEvent,
       Postponed, Ended
  <1>12. Full'
    BY <1>3, <1>4, <1>2 DEF Full, RoomForRecord, filled, EventEnding, InEvent,
       Postponed, Ended
  <1>13. Unwritten'
    BY <1>3, <1>4, <1>2 DEF Unwritten, RoomForRecord, filled, EventEnding, InEvent,
       Postponed, Ended
  <1>14. Unread'
    BY <1>3, <1>4, <1>2 DEF Unread, Registered, EventEnding, InEvent, Postponed, Ended
  <1>15. Seen'
    BY <1>3, <1>4, <1>2 DEF Seen, EventEnding, InEvent, Postponed, Ended
  <1>16. Shelved'
    BY <1>3, <1>4, <1>2 DEF Shelved, Retry, Message, Moves, EventEnding, InEvent,
       Postponed, Ended
  <1>17. Finality'
    BY <1>3, <1>4, <1>2 DEF Finality, Units, EventEnding, InEvent, Postponed, Ended
  <1>18. Batches'
    <2>1. CASE ending = "orderly"
      <3>1. batch' = <<"closed">> /\ Len(batch') = 1 /\ batch'[1] = "closed"
        BY <1>3, <2>1
      <3>2. Contains(batch', "closed") /\ ~Contains(batch', "end")
        BY <3>1 DEF Contains
      <3>3. /\ emitted' = TRUE /\ reported' = TRUE /\ events' = <<>> /\ next' = Nothing
            /\ releases' = 0 /\ ending' # "no" /\ call' \in {"events", "act"}
        BY <1>3, <1>2, <2>1 DEF EventEnding
      <3> QED
        BY <3>1, <3>2, <3>3 DEF Batches, EndingIsLast
    <2>2. CASE ending # "orderly"
      <3>1. batch' = <<>> /\ call' = "tail"
        BY <1>4, <1>2, <2>2
      <3>2. \A x : ~Contains(batch', x)
        BY <3>1 DEF Contains
      <3> QED
        BY <3>1, <3>2 DEF Batches, EndingIsLast
    <2> QED
      BY <2>1, <2>2
  <1>19. UNCHANGED <<outbound, wire, made, control, written, space, closing,
          producePending, broken, writeWait, ahead, window, streams, releases,
          credit, held, wanted, boundary, shut, readWait, aheadWait, work, woken,
          ends, shelved, retried, offers, offered, taken, sent, next, message,
          close>>
    BY DEF EventEnding
  <1>20. OutTypes' /\ OutFlags' /\ CountTypes' /\ ConnFlags' /\ TaskFlags' /\
         OfferTypes' /\ Buffer' /\ Account' /\ OfferIsHonest' /\ Closed'
    BY <1>19, OutTypesStays, OutFlagsStays, CountTypesStays, ConnFlagsStays,
       TaskFlagsStays, OfferTypesStays, BufferStays, AccountStays, OfferIsHonestStays,
       ClosedStays
  <1> QED
    BY <1>5, <1>6, <1>7, <1>8, <1>9, <1>10, <1>11, <1>12, <1>13, <1>14, <1>15, <1>16,
       <1>17, <1>18, <1>20

\* Pending leaves the promises of the fill to the flush or to the rest of the pass.
LEMMA EventPendingKeeps ==
    ASSUME PumpInv, EventPending
    PROVE  PumpInv'
  <1>1. AdapterFlags'
    <2>1. UNCHANGED <<reported, close, finished, openWait>>
      BY DEF EventPending
    <2>2. emitted' \in BOOLEAN
      BY Zenon DEF AdapterFlags, EventPending, InEvent, Postponed, Ended, Pending
    <2> QED
      BY <2>1, <2>2, Zenon DEF AdapterFlags
  <1>2. NameTypes'
    <2>1. UNCHANGED <<terminal, ending, next, polled, message, pump>>
      BY DEF EventPending
    <2>2. call' \in Calls
      BY DEF NameTypes, Calls, EventPending, InEvent, Postponed, Ended, Pending
    <2>3. step' \in Steps
      BY DEF NameTypes, Steps, EventPending, InEvent, Postponed, Ended, Pending
    <2> QED
      BY <2>1, <2>2, <2>3 DEF NameTypes
  <1>3. Order'
    BY DEF Order, InsidePump, EventPending, InEvent, Postponed, Ended, Pending
  <1>4. Endings'
    BY DEF Endings, EventPending, InEvent, Postponed, Ended, Pending
  <1>5. TailOrder'
    BY DEF TailOrder, EventPending, InEvent, Postponed, Ended, Pending
  <1>6. Queued'
    BY DEF Queued, RoomForRecord, filled, EventPending, InEvent, Postponed, Ended,
       Pending
  <1>7. Full'
    BY DEF Full, RoomForRecord, filled, EventPending, InEvent, Postponed, Ended,
       Pending
  <1>8. Unwritten'
    BY DEF Unwritten, RoomForRecord, filled, EventPending, InEvent, Postponed, Ended,
       Pending
  <1>9. Unread'
    BY DEF Unread, Registered, Order, InsidePump, Endings, EventPending, InEvent,
       Postponed, Ended, Pending
  <1>10. Seen'
    BY DEF Seen, EventPending, InEvent, Postponed, Ended, Pending
  <1>11. Shelved'
    BY DEF Shelved, Retry, Message, Moves, EventPending, InEvent, Postponed, Ended,
       Pending
  <1>12. Finality'
    BY DEF Finality, Units, EventPending, InEvent, Postponed, Ended, Pending
  <1>13. Batches'
    BY DEF Batches, EndingIsLast, Contains, EventPending, InEvent, Postponed, Ended,
       Pending
  <1>14. UNCHANGED <<outbound, wire, made, control, written, space, closing,
          producePending, broken, writeWait, inbound, events, batch, ahead, window,
          streams, releases, credit, held, wanted, boundary, shut, readWait,
          aheadWait, work, woken, ends, shelved, retried, offers, offered, taken,
          sent, next, message, close>>
    BY DEF EventPending
  <1>15. OutTypes' /\ OutFlags' /\ SeqTypes' /\ CountTypes' /\ ConnFlags' /\
         TaskFlags' /\ OfferTypes' /\ Buffer' /\ Account' /\ OfferIsHonest' /\
         Closed'
    BY <1>14, OutTypesStays, OutFlagsStays, SeqTypesStays, CountTypesStays,
       ConnFlagsStays, TaskFlagsStays, OfferTypesStays, BufferStays, AccountStays,
       OfferIsHonestStays, ClosedStays
  <1> QED
    BY <1>1, <1>2, <1>3, <1>4, <1>5, <1>6, <1>7, <1>8, <1>9, <1>10, <1>11, <1>12,
       <1>13, <1>15

\* Credit of what the application read is noted, never more than was delivered.
LEMMA ActKeeps ==
    ASSUME PumpInv, Act
    PROVE  PumpInv'
  <1>1. CountTypes'
    BY DEF CountTypes, Act
  <1>2. TaskFlags'
    <2>1. UNCHANGED <<woken, ends, shelved, retried>>
      BY DEF Act
    <2>2. work' \in BOOLEAN
      BY Zenon DEF TaskFlags, Act
    <2> QED
      BY <2>1, <2>2, Zenon DEF TaskFlags
  <1>3. NameTypes'
    <2>1. UNCHANGED <<terminal, ending, next, polled, message, pump>>
      BY DEF Act
    <2>2. call' \in Calls
      BY DEF NameTypes, Calls, Act
    <2>3. step' \in Steps
      BY DEF NameTypes, Steps, Act
    <2> QED
      BY <2>1, <2>2, <2>3 DEF NameTypes
  <1>4. Account'
    BY DEF Account, CountTypes, Act
  <1>5. Order'
    BY DEF Order, InsidePump, CountTypes, Act
  <1>6. Endings'
    BY DEF Endings, Act
  <1>7. TailOrder'
    BY DEF TailOrder, Order, InsidePump, Act
  <1>8. Queued'
    BY DEF Queued, RoomForRecord, filled, Act
  <1>9. Full'
    BY DEF Full, RoomForRecord, filled, Act
  <1>10. Unwritten'
    BY DEF Unwritten, RoomForRecord, filled, Act
  <1>11. Unread'
    BY DEF Unread, Registered, Act
  <1>12. Seen'
    BY DEF Seen, Order, InsidePump, Act
  <1>13. Shelved'
    BY DEF Shelved, Retry, Message, Moves, Order, InsidePump, Act
  <1>14. Finality'
    BY DEF Finality, Units, Order, InsidePump, Act
  <1>15. Batches'
    BY DEF Batches, EndingIsLast, Contains, Act
  <1>16. UNCHANGED <<outbound, wire, made, control, written, space, closing,
          producePending, broken, writeWait, inbound, events, batch, boundary, shut,
          readWait, aheadWait, emitted, reported, close, finished, openWait, offers,
          offered, taken, sent, message>>
    BY DEF Act
  <1>17. OutTypes' /\ OutFlags' /\ SeqTypes' /\ ConnFlags' /\ AdapterFlags' /\
         OfferTypes' /\ Buffer' /\ OfferIsHonest' /\ Closed'
    BY <1>16, OutTypesStays, OutFlagsStays, SeqTypesStays, ConnFlagsStays,
       AdapterFlagsStays, OfferTypesStays, BufferStays, OfferIsHonestStays,
       ClosedStays
  <1> QED
    BY <1>1, <1>2, <1>3, <1>4, <1>5, <1>6, <1>7, <1>8, <1>9, <1>10, <1>11, <1>12,
       <1>13, <1>14, <1>15, <1>17

\* reset and stop_sending, or the ending they meet.
LEMMA ShutdownKeeps ==
    ASSUME PumpInv, Shutdown
    PROVE  PumpInv'
  <1>1. /\ call = "act" /\ step = "enter" /\ pump = "none" /\ ending = "no" /\ ~reported
        /\ message = "going" /\ wanted = 0 /\ closing = "no" /\ close = FALSE /\ finished = FALSE
    BY DEF Shutdown, Order, InsidePump, TailOrder, AdapterFlags, Endings
  <1>2. UNCHANGED <<outbound, written, wire, closing, space, broken, writeWait, made, inbound,
                    readWait, total, scene, boundary, shut, events, terminal, window, streams,
                    releases, next, emitted, reported, close, finished, openWait, polled, pump,
                    back, offers, offered, ends, taken, sent, retried, batch, wanted, held, work>>
    BY DEF Shutdown, UnlessCredited
  <1>3. \/ /\ terminal = "no" /\ QueueAfterCredit(<<"reset">>) /\ message' = "reset"
           /\ shelved' = FALSE /\ UNCHANGED <<ending, call, step>>
        \/ /\ terminal # "no" /\ ending' \in {"orderly", "failure"} /\ call' = "tail"
           /\ step' = "enter" /\ UNCHANGED <<control, producePending, message, shelved>>
    BY DEF Shutdown, Kind
  <1>4. /\ control' \in Seq(Frames) /\ producePending' \in BOOLEAN
        /\ ~producePending' => control' = <<>>
        /\ ahead' \in Nat /\ credit' = 0 /\ aheadWait' \in BOOLEAN /\ woken' \in BOOLEAN
        /\ Account'
    <2>1. FlushCredit /\ (~producePending => control = <<>>) /\ UNCHANGED <<next, held>>
      BY <1>2 DEF Shutdown, Queued
    <2>2. CASE terminal = "no"
      BY <1>3, <2>1, <2>2, CreditPassed
    <2>3. CASE terminal # "no"
      <3>1. credit' = 0 /\ UNCHANGED <<ahead, aheadWait, woken>>
        BY <2>1, <2>3 DEF FlushCredit, Applies
      <3>2. Account'
        BY <1>2, <3>1 DEF Account, CountTypes
      <3>3. UNCHANGED <<control, producePending>>
        BY <1>3, <2>3
      <3> QED
        BY <2>1, <3>1, <3>2, <3>3 DEF OutTypes, OutFlags, CountTypes, ConnFlags, AdapterFlags, TaskFlags
    <2> QED
      BY <2>2, <2>3
  <1>5. \/ /\ terminal = "no" /\ message' = "reset" /\ shelved' = FALSE
           /\ ending' = "no" /\ call' = "act" /\ step' = "enter"
        \/ /\ terminal # "no" /\ ending' \in {"orderly", "failure"} /\ call' = "tail"
           /\ step' = "enter" /\ message' = "going" /\ shelved' = shelved
    BY <1>1, <1>3
  <1>6. OutTypes'
    BY <1>4, <1>2 DEF OutTypes, Moves
  <1>7. OutFlags'
    BY <1>4, <1>2 DEF OutFlags, Moves
  <1>8. CountTypes'
    BY <1>4, <1>2 DEF CountTypes, Moves
  <1>9. ConnFlags'
    <2>1. UNCHANGED <<boundary, shut, readWait>>
      BY <1>1, <1>5, <1>2
    <2>2. aheadWait' \in BOOLEAN
      BY <1>4
    <2> QED
      BY <2>1, <2>2, Zenon DEF ConnFlags
  <1>10. TaskFlags'
    <2>1. UNCHANGED <<work, ends, retried>>
      BY <1>1, <1>5, <1>2
    <2>2. woken' \in BOOLEAN
      BY <1>4
    <2>3. shelved' \in BOOLEAN
      BY <1>5, Zenon DEF TaskFlags
    <2> QED
      BY <2>1, <2>2, <2>3, Zenon DEF TaskFlags
  <1>11. NameTypes'
    BY <1>1, <1>5, <1>2 DEF NameTypes, Calls, Steps, Moves
  <1>12. Account'
    BY <1>4
  <1>13. Order'
    BY <1>1, <1>5, <1>2 DEF Order, InsidePump, Moves
  <1>14. Endings'
    BY <1>1, <1>5, <1>2 DEF Endings, Moves
  <1>15. TailOrder'
    BY <1>1, <1>5, <1>2, <1>4 DEF TailOrder, Moves
  <1>16. Queued'
    BY <1>1, <1>5, <1>2, <1>4 DEF Queued, RoomForRecord, filled, Moves
  <1>17. Full'
    BY <1>1, <1>5, <1>2 DEF Full, RoomForRecord, filled, Moves
  <1>18. Unwritten'
    BY <1>1, <1>5, <1>2 DEF Unwritten, RoomForRecord, filled, Moves
  <1>19. Unread'
    BY <1>1, <1>5, <1>2 DEF Unread, Registered, Moves
  <1>20. Seen'
    BY <1>1, <1>5, <1>2, <1>4 DEF Seen, Moves
  <1>21. Shelved'
    BY <1>1, <1>5, <1>2 DEF Shelved, Retry, Message, Moves
  <1>22. Finality'
    BY <1>1, <1>5, <1>2 DEF Finality, Units, Moves
  <1>23. OfferIsHonest'
    BY <1>1, <1>5, <1>2 DEF OfferIsHonest, Units, Moves
  <1>24. Batches'
    BY <1>1, <1>5, <1>2 DEF Batches, EndingIsLast, Contains, Moves
  <1>25. UNCHANGED <<inbound, events, batch, emitted, reported, close, finished,
          openWait, offers, offered, taken, sent, outbound, written, wire, made,
          closing>>
    BY <1>2
  <1>26. SeqTypes' /\ AdapterFlags' /\ OfferTypes' /\ Buffer' /\ Closed'
    BY <1>25, SeqTypesStays, AdapterFlagsStays, OfferTypesStays, BufferStays,
       ClosedStays
  <1> QED
    BY <1>6, <1>7, <1>8, <1>9, <1>10, <1>11, <1>12, <1>13, <1>14, <1>15, <1>16, <1>17,
       <1>18, <1>19, <1>20, <1>21, <1>22, <1>23, <1>24, <1>26

\* An open pumps first.
LEMMA OpenEnterKeeps ==
    ASSUME PumpInv, OpenEnter
    PROVE  PumpInv'
  <1>1. /\ control' \in Seq(Frames) /\ producePending' \in BOOLEAN
        /\ ~producePending' => control' = <<>>
        /\ ending # "no" \/ terminal # "no" => UNCHANGED <<control, producePending>>
        /\ ahead' \in Nat /\ credit' = 0 /\ aheadWait' \in BOOLEAN /\ woken' \in BOOLEAN
        /\ Account'
        /\ woken => woken'
        /\ ~woken' /\ ahead >= Allowance /\ aheadWait => ahead' >= Allowance /\ aheadWait'
    <2>1. /\ FlushCredit /\ QueueAfterCredit(<<>>) /\ UNCHANGED <<next, held>>
          /\ <<>> \in {<<>>, <<"reset">>}
      BY DEF OpenEnter, UnlessCredited
    <2>2. ~producePending => control = <<>>
      BY DEF Queued
    <2> QED
      BY <2>1, <2>2, CreditPassed
  <1>2. OutTypes'
    BY <1>1 DEF OutTypes, OpenEnter, InOpen, StartPump, StopPump, UnlessCredited
  <1>3. OutFlags'
    BY <1>1 DEF OutFlags, OpenEnter, InOpen, StartPump, StopPump, UnlessCredited
  <1>4. CountTypes'
    BY <1>1 DEF CountTypes, OpenEnter, InOpen, StartPump, StopPump, UnlessCredited
  <1>5. ConnFlags'
    <2>1. UNCHANGED <<boundary, shut, readWait>>
      BY <1>1 DEF OpenEnter, UnlessCredited
    <2>2. aheadWait' \in BOOLEAN
      BY <1>1, Zenon DEF ConnFlags, OpenEnter, InOpen, StartPump, StopPump,
         UnlessCredited
    <2> QED
      BY <2>1, <2>2, Zenon DEF ConnFlags
  <1>6. TaskFlags'
    <2>1. UNCHANGED <<work, ends, shelved, retried>>
      BY <1>1 DEF OpenEnter, UnlessCredited
    <2>2. woken' \in BOOLEAN
      BY <1>1, Zenon DEF TaskFlags, OpenEnter, InOpen, StartPump, StopPump,
         UnlessCredited
    <2> QED
      BY <2>1, <2>2, Zenon DEF TaskFlags
  <1>7. NameTypes'
    <2>1. UNCHANGED <<terminal, ending, next, polled, message, call>>
      BY <1>1 DEF OpenEnter, UnlessCredited
    <2>2. step' \in Steps
      BY <1>1 DEF NameTypes, Steps, OpenEnter, InOpen, StartPump, StopPump,
         UnlessCredited
    <2>3. pump' \in {"none", "buffered", "event", "forced", "finish"}
      BY <1>1 DEF NameTypes, OpenEnter, InOpen, StartPump, StopPump, UnlessCredited
    <2> QED
      BY <2>1, <2>2, <2>3 DEF NameTypes
  <1>8. Account'
    BY <1>1
  <1>9. Order'
    BY <1>1 DEF Order, InsidePump, OpenEnter, InOpen, StartPump, StopPump,
       UnlessCredited
  <1>10. Endings'
    BY <1>1 DEF Endings, OpenEnter, InOpen, StartPump, StopPump, UnlessCredited
  <1>11. TailOrder'
    BY <1>1 DEF TailOrder, OpenEnter, InOpen, StartPump, StopPump, UnlessCredited
  <1>12. Queued'
    BY <1>1 DEF Queued, RoomForRecord, filled, OpenEnter, InOpen, StartPump, StopPump,
       UnlessCredited
  <1>13. Full'
    BY <1>1 DEF Full, RoomForRecord, filled, OpenEnter, InOpen, StartPump, StopPump,
       UnlessCredited
  <1>14. Unwritten'
    BY <1>1 DEF Unwritten, RoomForRecord, filled, OpenEnter, InOpen, StartPump,
       StopPump, UnlessCredited
  <1>15. Unread'
    BY <1>1 DEF Unread, Registered, OpenEnter, InOpen, StartPump, StopPump,
       UnlessCredited
  <1>16. Seen'
    BY <1>1 DEF Seen, OpenEnter, InOpen, StartPump, StopPump, UnlessCredited
  <1>17. Shelved'
    BY <1>1 DEF Shelved, Retry, Message, Moves, OpenEnter, InOpen, StartPump,
       StopPump, UnlessCredited
  <1>18. Finality'
    BY <1>1 DEF Finality, Units, OpenEnter, InOpen, StartPump, StopPump,
       UnlessCredited
  <1>19. UNCHANGED <<inbound, events, batch, emitted, reported, close, finished,
          openWait, offers, offered, taken, sent, outbound, written, wire, made,
          message, call, ending, releases, next, closing>>
    BY DEF OpenEnter
  <1>20. SeqTypes' /\ AdapterFlags' /\ OfferTypes' /\ Buffer' /\ OfferIsHonest' /\
         Batches' /\ Closed'
    BY <1>19, SeqTypesStays, AdapterFlagsStays, OfferTypesStays, BufferStays,
       OfferIsHonestStays, BatchesStays, ClosedStays
  <1> QED
    BY <1>2, <1>3, <1>4, <1>5, <1>6, <1>7, <1>8, <1>9, <1>10, <1>11, <1>12, <1>13,
       <1>14, <1>15, <1>16, <1>17, <1>18, <1>20

\* An open that meets the ending ends the driver.
LEMMA OpenFailsKeeps ==
    ASSUME PumpInv, OpenFails
    PROVE  PumpInv'
  <1>1. NameTypes'
    <2>1. UNCHANGED <<terminal, ending, next, polled, message, pump>>
      BY DEF OpenFails
    <2>2. call' \in Calls
      BY DEF NameTypes, Calls, OpenFails, InOpen
    <2>3. step' \in Steps
      BY DEF NameTypes, Steps, OpenFails, InOpen
    <2> QED
      BY <2>1, <2>2, <2>3 DEF NameTypes
  <1>2. Order'
    BY DEF Order, InsidePump, OpenFails, InOpen
  <1>3. Endings'
    BY DEF Endings, OpenFails, InOpen
  <1>4. TailOrder'
    BY DEF TailOrder, Endings, OpenFails, InOpen
  <1>5. Queued'
    BY DEF Queued, RoomForRecord, filled, OpenFails, InOpen
  <1>6. Full'
    BY DEF Full, RoomForRecord, filled, OpenFails, InOpen
  <1>7. Unwritten'
    BY DEF Unwritten, RoomForRecord, filled, OpenFails, InOpen
  <1>8. Unread'
    BY DEF Unread, Registered, OpenFails, InOpen
  <1>9. Seen'
    BY DEF Seen, OpenFails, InOpen
  <1>10. Shelved'
    BY DEF Shelved, Retry, Message, Moves, OpenFails, InOpen
  <1>11. Finality'
    BY DEF Finality, Units, OpenFails, InOpen
  <1>12. Batches'
    BY DEF Batches, EndingIsLast, Contains, OpenFails, InOpen
  <1>13. UNCHANGED <<outbound, wire, made, control, written, space, closing,
          producePending, broken, writeWait, inbound, events, batch, ahead, window,
          streams, releases, credit, held, wanted, boundary, shut, readWait,
          aheadWait, emitted, reported, close, finished, openWait, work, woken, ends,
          shelved, retried, offers, offered, taken, sent, next, message>>
    BY DEF OpenFails
  <1>14. OutTypes' /\ OutFlags' /\ SeqTypes' /\ CountTypes' /\ ConnFlags' /\
         AdapterFlags' /\ TaskFlags' /\ OfferTypes' /\ Buffer' /\ Account' /\
         OfferIsHonest' /\ Closed'
    BY <1>13, OutTypesStays, OutFlagsStays, SeqTypesStays, CountTypesStays,
       ConnFlagsStays, AdapterFlagsStays, TaskFlagsStays, OfferTypesStays,
       BufferStays, AccountStays, OfferIsHonestStays, ClosedStays
  <1> QED
    BY <1>1, <1>2, <1>3, <1>4, <1>5, <1>6, <1>7, <1>8, <1>9, <1>10, <1>11, <1>12,
       <1>14

\* A stream is there.
LEMMA OpensKeeps ==
    ASSUME PumpInv, Opens
    PROVE  PumpInv'
  <1>1. OutFlags'
    BY DEF OutFlags, Opens, InOpen, StartPump, StopPump
  <1>2. CountTypes'
    BY DEF CountTypes, Order, InsidePump, Opens, InOpen, StartPump, StopPump
  <1>3. NameTypes'
    <2>1. UNCHANGED <<terminal, ending, next, polled, message, call>>
      BY DEF Opens
    <2>2. step' \in Steps
      BY DEF NameTypes, Steps, Opens, InOpen, StartPump, StopPump
    <2>3. pump' \in {"none", "buffered", "event", "forced", "finish"}
      BY DEF NameTypes, Opens, InOpen, StartPump, StopPump
    <2> QED
      BY <2>1, <2>2, <2>3 DEF NameTypes
  <1>4. Order'
    BY DEF Order, InsidePump, Opens, InOpen, StartPump, StopPump
  <1>5. Endings'
    BY DEF Endings, Opens, InOpen, StartPump, StopPump
  <1>6. TailOrder'
    BY DEF TailOrder, Opens, InOpen, StartPump, StopPump
  <1>7. Queued'
    BY DEF Queued, RoomForRecord, filled, Opens, InOpen, StartPump, StopPump
  <1>8. Full'
    BY DEF Full, RoomForRecord, filled, Opens, InOpen, StartPump, StopPump
  <1>9. Unwritten'
    BY DEF Unwritten, RoomForRecord, filled, Opens, InOpen, StartPump, StopPump
  <1>10. Unread'
    BY DEF Unread, Registered, Opens, InOpen, StartPump, StopPump
  <1>11. Seen'
    BY DEF Seen, Opens, InOpen, StartPump, StopPump
  <1>12. Shelved'
    BY DEF Shelved, Retry, Message, Moves, Order, InsidePump, Opens, InOpen,
       StartPump, StopPump
  <1>13. Finality'
    BY DEF Finality, Units, Opens, InOpen, StartPump, StopPump
  <1>14. UNCHANGED <<outbound, wire, made, control, written, space, inbound, events,
          batch, boundary, shut, readWait, aheadWait, emitted, reported, close,
          finished, openWait, work, woken, ends, shelved, retried, offers, offered,
          taken, sent, next, held, credit, ahead, message, call, ending, releases,
          closing>>
    BY DEF Opens
  <1>15. OutTypes' /\ SeqTypes' /\ ConnFlags' /\ AdapterFlags' /\ TaskFlags' /\
         OfferTypes' /\ Buffer' /\ Account' /\ OfferIsHonest' /\ Batches' /\ Closed'
    BY <1>14, OutTypesStays, SeqTypesStays, ConnFlagsStays, AdapterFlagsStays,
       TaskFlagsStays, OfferTypesStays, BufferStays, AccountStays, OfferIsHonestStays,
       BatchesStays, ClosedStays
  <1> QED
    BY <1>1, <1>2, <1>3, <1>4, <1>5, <1>6, <1>7, <1>8, <1>9, <1>10, <1>11, <1>12,
       <1>13, <1>15

\* The call goes on with its stream.
LEMMA OpenedKeeps ==
    ASSUME PumpInv, Opened
    PROVE  PumpInv'
  <1>1. NameTypes'
    <2>1. UNCHANGED <<terminal, ending, next, polled, message, pump>>
      BY DEF Opened
    <2>2. call' \in Calls
      BY DEF NameTypes, Calls, Opened, InOpen
    <2>3. step' \in Steps
      BY DEF NameTypes, Steps, Opened, InOpen
    <2> QED
      BY <2>1, <2>2, <2>3 DEF NameTypes
  <1>2. Order'
    BY DEF Order, InsidePump, Opened, InOpen
  <1>3. Endings'
    BY DEF Endings, Opened, InOpen
  <1>4. TailOrder'
    BY DEF TailOrder, Opened, InOpen
  <1>5. Queued'
    BY DEF Queued, RoomForRecord, filled, Opened, InOpen
  <1>6. Full'
    BY DEF Full, RoomForRecord, filled, Opened, InOpen
  <1>7. Unwritten'
    BY DEF Unwritten, RoomForRecord, filled, Opened, InOpen
  <1>8. Unread'
    BY DEF Unread, Registered, Opened, InOpen
  <1>9. Seen'
    BY DEF Seen, Opened, InOpen
  <1>10. Shelved'
    BY DEF Shelved, Retry, Message, Moves, Order, InsidePump, Opened, InOpen
  <1>11. Finality'
    BY DEF Finality, Units, Opened, InOpen
  <1>12. Batches'
    BY DEF Batches, EndingIsLast, Contains, Opened, InOpen
  <1>13. UNCHANGED <<outbound, wire, made, control, written, space, closing,
          producePending, broken, writeWait, inbound, events, batch, ahead, window,
          streams, releases, credit, held, wanted, boundary, shut, readWait,
          aheadWait, emitted, reported, close, finished, openWait, work, woken, ends,
          shelved, retried, offers, offered, taken, sent, next, message>>
    BY DEF Opened
  <1>14. OutTypes' /\ OutFlags' /\ SeqTypes' /\ CountTypes' /\ ConnFlags' /\
         AdapterFlags' /\ TaskFlags' /\ OfferTypes' /\ Buffer' /\ Account' /\
         OfferIsHonest' /\ Closed'
    BY <1>13, OutTypesStays, OutFlagsStays, SeqTypesStays, CountTypesStays,
       ConnFlagsStays, AdapterFlagsStays, TaskFlagsStays, OfferTypesStays,
       BufferStays, AccountStays, OfferIsHonestStays, ClosedStays
  <1> QED
    BY <1>1, <1>2, <1>3, <1>4, <1>5, <1>6, <1>7, <1>8, <1>9, <1>10, <1>11, <1>12,
       <1>14

\* An open at the limit waits, and flushes first.
LEMMA OpenWaitsKeeps ==
    ASSUME PumpInv, OpenWaits
    PROVE  PumpInv'
  <1>1. AdapterFlags'
    <2>1. UNCHANGED <<emitted, reported, close, finished>>
      BY DEF OpenWaits
    <2>2. openWait' \in BOOLEAN
      BY Zenon DEF AdapterFlags, OpenWaits, InOpen
    <2> QED
      BY <2>1, <2>2, Zenon DEF AdapterFlags
  <1>2. NameTypes'
    <2>1. UNCHANGED <<terminal, ending, next, polled, message, call, pump>>
      BY DEF OpenWaits
    <2>2. step' \in Steps
      BY DEF NameTypes, Steps, OpenWaits, InOpen
    <2> QED
      BY <2>1, <2>2 DEF NameTypes
  <1>3. Order'
    BY DEF Order, InsidePump, OpenWaits, InOpen
  <1>4. Endings'
    BY DEF Endings, OpenWaits, InOpen
  <1>5. TailOrder'
    BY DEF TailOrder, OpenWaits, InOpen
  <1>6. Queued'
    BY DEF Queued, RoomForRecord, filled, OpenWaits, InOpen
  <1>7. Full'
    BY DEF Full, RoomForRecord, filled, OpenWaits, InOpen
  <1>8. Unwritten'
    BY DEF Unwritten, RoomForRecord, filled, OpenWaits, InOpen
  <1>9. Unread'
    BY DEF Unread, Registered, OpenWaits, InOpen
  <1>10. Seen'
    BY DEF Seen, OpenWaits, InOpen
  <1>11. Shelved'
    BY DEF Shelved, Retry, Message, Moves, OpenWaits, InOpen
  <1>12. Finality'
    BY DEF Finality, Units, OpenWaits, InOpen
  <1>13. UNCHANGED <<outbound, wire, made, control, written, space, closing,
          producePending, broken, writeWait, inbound, events, batch, ahead, window,
          streams, releases, credit, held, wanted, boundary, shut, readWait,
          aheadWait, work, woken, ends, shelved, retried, offers, offered, taken,
          sent, next, message, call, emitted, ending, reported, close>>
    BY DEF OpenWaits
  <1>14. OutTypes' /\ OutFlags' /\ SeqTypes' /\ CountTypes' /\ ConnFlags' /\
         TaskFlags' /\ OfferTypes' /\ Buffer' /\ Account' /\ OfferIsHonest' /\
         Batches' /\ Closed'
    BY <1>13, OutTypesStays, OutFlagsStays, SeqTypesStays, CountTypesStays,
       ConnFlagsStays, TaskFlagsStays, OfferTypesStays, BufferStays, AccountStays,
       OfferIsHonestStays, BatchesStays, ClosedStays
  <1> QED
    BY <1>1, <1>2, <1>3, <1>4, <1>5, <1>6, <1>7, <1>8, <1>9, <1>10, <1>11, <1>12,
       <1>14

\* A pass of offers begins with a pump.
LEMMA TransmitEnterKeeps ==
    ASSUME PumpInv, TransmitEnter
    PROVE  PumpInv'
  <1>1. /\ control' \in Seq(Frames) /\ producePending' \in BOOLEAN
        /\ ~producePending' => control' = <<>>
        /\ ending # "no" \/ terminal # "no" => UNCHANGED <<control, producePending>>
        /\ ahead' \in Nat /\ credit' = 0 /\ aheadWait' \in BOOLEAN /\ woken' \in BOOLEAN
        /\ Account'
        /\ woken => woken'
        /\ ~woken' /\ ahead >= Allowance /\ aheadWait => ahead' >= Allowance /\ aheadWait'
    <2>1. /\ FlushCredit /\ QueueAfterCredit(<<>>) /\ UNCHANGED <<next, held>>
          /\ <<>> \in {<<>>, <<"reset">>}
      BY DEF TransmitEnter, UnlessCredited
    <2>2. ~producePending => control = <<>>
      BY DEF Queued
    <2> QED
      BY <2>1, <2>2, CreditPassed
  <1>2. OutTypes'
    BY <1>1 DEF OutTypes, TransmitEnter, StartPump, StopPump, UnlessCredited
  <1>3. OutFlags'
    BY <1>1 DEF OutFlags, TransmitEnter, StartPump, StopPump, UnlessCredited
  <1>4. CountTypes'
    BY <1>1 DEF CountTypes, TransmitEnter, StartPump, StopPump, UnlessCredited
  <1>5. ConnFlags'
    <2>1. UNCHANGED <<boundary, shut, readWait>>
      BY <1>1 DEF TransmitEnter, UnlessCredited
    <2>2. aheadWait' \in BOOLEAN
      BY <1>1, Zenon DEF ConnFlags, TransmitEnter, StartPump, StopPump, UnlessCredited
    <2> QED
      BY <2>1, <2>2, Zenon DEF ConnFlags
  <1>6. TaskFlags'
    <2>1. UNCHANGED <<work, ends, shelved>>
      BY <1>1 DEF TransmitEnter, UnlessCredited
    <2>2. woken' \in BOOLEAN
      BY <1>1, Zenon DEF TaskFlags, TransmitEnter, StartPump, StopPump, UnlessCredited
    <2>3. retried' \in BOOLEAN
      BY <1>1, Zenon DEF TaskFlags, TransmitEnter, StartPump, StopPump, UnlessCredited
    <2> QED
      BY <2>1, <2>2, <2>3, Zenon DEF TaskFlags
  <1>7. NameTypes'
    <2>1. UNCHANGED <<terminal, ending, next, polled, message, call>>
      BY <1>1 DEF TransmitEnter, UnlessCredited
    <2>2. step' \in Steps
      BY <1>1 DEF NameTypes, Steps, TransmitEnter, StartPump, StopPump, UnlessCredited
    <2>3. pump' \in {"none", "buffered", "event", "forced", "finish"}
      BY <1>1 DEF NameTypes, TransmitEnter, StartPump, StopPump, UnlessCredited
    <2> QED
      BY <2>1, <2>2, <2>3 DEF NameTypes
  <1>8. OfferTypes'
    BY <1>1 DEF OfferTypes, TransmitEnter, StartPump, StopPump, UnlessCredited
  <1>9. Account'
    BY <1>1
  <1>10. Order'
    BY <1>1 DEF Order, InsidePump, TransmitEnter, StartPump, StopPump, UnlessCredited
  <1>11. Endings'
    BY <1>1 DEF Endings, TransmitEnter, StartPump, StopPump, UnlessCredited
  <1>12. TailOrder'
    BY <1>1 DEF TailOrder, TransmitEnter, StartPump, StopPump, UnlessCredited
  <1>13. Queued'
    BY <1>1 DEF Queued, RoomForRecord, filled, TransmitEnter, StartPump, StopPump,
       UnlessCredited
  <1>14. Full'
    BY <1>1 DEF Full, RoomForRecord, filled, TransmitEnter, StartPump, StopPump,
       UnlessCredited
  <1>15. Unwritten'
    BY <1>1 DEF Unwritten, RoomForRecord, filled, TransmitEnter, StartPump, StopPump,
       UnlessCredited
  <1>16. Unread'
    BY <1>1 DEF Unread, Registered, TransmitEnter, StartPump, StopPump, UnlessCredited
  <1>17. Seen'
    BY <1>1 DEF Seen, TransmitEnter, StartPump, StopPump, UnlessCredited
  <1>18. Shelved'
    BY <1>1 DEF Shelved, Retry, Message, Moves, TransmitEnter, StartPump, StopPump,
       UnlessCredited
  <1>19. Finality'
    BY <1>1 DEF Finality, Units, TransmitEnter, StartPump, StopPump, UnlessCredited
  <1>20. UNCHANGED <<inbound, events, batch, emitted, reported, close, finished,
          openWait, outbound, written, wire, made, sent, taken, message, call,
          ending, releases, next, closing>>
    BY DEF TransmitEnter
  <1>21. SeqTypes' /\ AdapterFlags' /\ Buffer' /\ OfferIsHonest' /\ Batches' /\
         Closed'
    BY <1>20, SeqTypesStays, AdapterFlagsStays, BufferStays, OfferIsHonestStays,
       BatchesStays, ClosedStays
  <1> QED
    BY <1>2, <1>3, <1>4, <1>5, <1>6, <1>7, <1>8, <1>9, <1>10, <1>11, <1>12, <1>13,
       <1>14, <1>15, <1>16, <1>17, <1>18, <1>19, <1>21

\* The pass ends: a stream still set aside waits for the window or for room, which have
\* their wakers.
LEMMA DrainEndsKeeps ==
    ASSUME PumpInv, DrainEnds
    PROVE  PumpInv'
  <1>1. NameTypes'
    <2>1. UNCHANGED <<terminal, ending, next, polled, message, call>>
      BY DEF DrainEnds
    <2>2. step' \in Steps
      BY DEF NameTypes, Steps, DrainEnds, StartPump, StopPump
    <2>3. pump' \in {"none", "buffered", "event", "forced", "finish"}
      BY DEF NameTypes, DrainEnds, StartPump, StopPump
    <2> QED
      BY <2>1, <2>2, <2>3 DEF NameTypes
  <1>2. Order'
    BY DEF Order, InsidePump, DrainEnds, Offering, Message, RoomForRecord, StartPump,
       StopPump
  <1>3. Endings'
    BY DEF Endings, DrainEnds, Offering, Message, RoomForRecord, StartPump, StopPump
  <1>4. TailOrder'
    BY DEF TailOrder, DrainEnds, Offering, Message, RoomForRecord, StartPump, StopPump
  <1>5. Queued'
    BY DEF Queued, RoomForRecord, filled, DrainEnds, Offering, Message, StartPump,
       StopPump
  <1>6. Full'
    BY DEF Full, RoomForRecord, filled, DrainEnds, Offering, Message, StartPump,
       StopPump
  <1>7. Unwritten'
    BY DEF Unwritten, RoomForRecord, filled, DrainEnds, Offering, Message, StartPump,
       StopPump
  <1>8. Unread'
    BY DEF Unread, Registered, DrainEnds, Offering, Message, RoomForRecord, StartPump,
       StopPump
  <1>9. Seen'
    BY DEF Seen, DrainEnds, Offering, Message, RoomForRecord, StartPump, StopPump
  <1>10. Shelved'
    <2>1. shelved /\ ~woken => Retry
      BY DEF Shelved, Full, Offering, Message, DrainEnds, Retry
    <2>2. Retry' = Retry
      BY DEF Retry, DrainEnds
    <2>3. step' \in {"settle", "write"} /\ call' = "transmit"
      BY DEF DrainEnds, StartPump, StopPump
    <2> QED
      BY <2>1, <2>2, <2>3 DEF Shelved, DrainEnds, Moves
  <1>11. Finality'
    BY DEF Finality, Units, DrainEnds, Offering, Message, RoomForRecord, StartPump,
       StopPump
  <1>12. UNCHANGED <<outbound, wire, made, control, written, space, closing,
          producePending, broken, writeWait, inbound, events, batch, ahead, window,
          streams, releases, credit, held, wanted, boundary, shut, readWait,
          aheadWait, emitted, reported, close, finished, openWait, work, woken, ends,
          shelved, retried, offers, offered, taken, sent, next, message, call,
          ending>>
    BY DEF DrainEnds
  <1>13. OutTypes' /\ OutFlags' /\ SeqTypes' /\ CountTypes' /\ ConnFlags' /\
         AdapterFlags' /\ TaskFlags' /\ OfferTypes' /\ Buffer' /\ Account' /\
         OfferIsHonest' /\ Batches' /\ Closed'
    BY <1>12, OutTypesStays, OutFlagsStays, SeqTypesStays, CountTypesStays,
       ConnFlagsStays, AdapterFlagsStays, TaskFlagsStays, OfferTypesStays,
       BufferStays, AccountStays, OfferIsHonestStays, BatchesStays, ClosedStays
  <1> QED
    BY <1>1, <1>2, <1>3, <1>4, <1>5, <1>6, <1>7, <1>8, <1>9, <1>10, <1>11, <1>13

\* An offer never goes past the end of the message.
LEMMA DrainOffersKeeps ==
    ASSUME NEW size \in 0..Total, NEW fin \in BOOLEAN, PumpInv, DrainOffers(size, fin)
    PROVE  PumpInv'
  <1>1. /\ call = "transmit" /\ step = "offer" /\ ending = "no" /\ RoomForRecord /\ Message
        /\ offers < MaxOffers /\ offers' = offers + 1 /\ shelved' = FALSE
        /\ offered' = size /\ ends' = fin /\ taken' = 0 /\ step' = "records"
        /\ fin => size = Total - sent
        /\ size = 0 => fin
    BY DEF DrainOffers, Offering
  <1>2. size <= Total - sent
    <2>1. PICK piece \in Pieces : size = Lower(piece, Total - sent)
      BY DEF DrainOffers
    <2> QED
      BY <2>1 DEF Lower, OfferTypes
  <1>3. offered = 0 /\ taken = 0 /\ sent \in Nat /\ offers \in 0..MaxOffers /\ pump = "none"
    BY <1>1 DEF Finality, OfferTypes, Order, InsidePump
  <1>4. UNCHANGED <<outbound, wire, made, control, written, space, closing, producePending,
                    broken, writeWait, inbound, events, batch, ahead, window, streams,
                    releases, credit, held, wanted, next, call, emitted, ending, reported,
                    close, sent, message, scene, pump, back, woken, terminal, shut>>
    BY DEF DrainOffers
  <1>5. TaskFlags'
    <2>1. UNCHANGED <<work, woken>>
      BY DEF DrainOffers
    <2>2. ends' \in BOOLEAN
      BY Zenon DEF TaskFlags, DrainOffers, Offering, Message, RoomForRecord
    <2>3. shelved' \in BOOLEAN
      BY Zenon DEF TaskFlags, DrainOffers, Offering, Message, RoomForRecord
    <2>4. retried' \in BOOLEAN
      BY Zenon DEF TaskFlags, DrainOffers, Offering, Message, RoomForRecord
    <2> QED
      BY <2>1, <2>2, <2>3, <2>4, Zenon DEF TaskFlags
  <1>6. NameTypes'
    <2>1. UNCHANGED <<terminal, ending, next, polled, message, call, pump>>
      BY DEF DrainOffers
    <2>2. step' \in Steps
      BY DEF NameTypes, Steps, DrainOffers
    <2> QED
      BY <2>1, <2>2 DEF NameTypes
  <1>7. OfferTypes'
    BY <1>1, <1>2, <1>3, <1>4 DEF OfferTypes
  <1>8. Order'
    BY DEF Order, InsidePump, DrainOffers, Offering, Message, RoomForRecord
  <1>9. Endings'
    BY DEF Endings, DrainOffers, Offering, Message, RoomForRecord
  <1>10. TailOrder'
    BY DEF TailOrder, DrainOffers, Offering, Message, RoomForRecord
  <1>11. Queued'
    BY DEF Queued, RoomForRecord, filled, DrainOffers, Offering, Message
  <1>12. Full'
    BY DEF Full, RoomForRecord, filled, DrainOffers, Offering, Message
  <1>13. Unwritten'
    BY DEF Unwritten, RoomForRecord, filled, DrainOffers, Offering, Message
  <1>14. Unread'
    BY DEF Unread, Registered, DrainOffers, Offering, Message, RoomForRecord
  <1>15. Seen'
    BY DEF Seen, DrainOffers, Offering, Message, RoomForRecord
  <1>16. Shelved'
    <2>1. Message'
      BY <1>1, <1>4 DEF Message, Moves
    <2>2. offers' > 0
      BY <1>1, <1>3
    <2> QED
      BY <1>1, <1>3, <1>4, <2>1, <2>2 DEF Shelved
  <1>17. Finality'
    <2>1. message = "going" /\ Units("fin")' = Units("fin")
      BY <1>1, <1>4 DEF Message, Units
    <2>2. fin => sent + size = Total
      BY <1>1, <1>3
    <2> QED
      BY <1>1, <1>2, <1>3, <1>4, <2>1, <2>2 DEF Finality
  <1>18. OfferIsHonest'
    <2>1. UNCHANGED <<made, sent, taken, message>>
      BY <1>1, <1>3, <1>4
    <2> QED
      BY <2>1, OfferIsHonestStays
  <1>19. UNCHANGED <<outbound, wire, made, control, written, space, closing,
          producePending, broken, writeWait, inbound, events, batch, ahead, window,
          streams, releases, credit, held, wanted, boundary, shut, readWait,
          aheadWait, emitted, reported, close, finished, openWait, next, call,
          ending>>
    BY DEF DrainOffers
  <1>20. OutTypes' /\ OutFlags' /\ SeqTypes' /\ CountTypes' /\ ConnFlags' /\
         AdapterFlags' /\ Buffer' /\ Account' /\ Batches' /\ Closed'
    BY <1>19, OutTypesStays, OutFlagsStays, SeqTypesStays, CountTypesStays,
       ConnFlagsStays, AdapterFlagsStays, BufferStays, AccountStays, BatchesStays,
       ClosedStays
  <1> QED
    BY <1>5, <1>6, <1>7, <1>8, <1>9, <1>10, <1>11, <1>12, <1>13, <1>14, <1>15, <1>16,
       <1>17, <1>18, <1>20

\* An offer ends for want of room with what its records hold.
LEMMA OfferStopsKeeps ==
    ASSUME PumpInv, OfferStops
    PROVE  PumpInv'
  <1>1. /\ offered \in Nat /\ taken \in Nat /\ taken <= offered /\ sent \in Nat
        /\ sent + offered <= Total /\ Total \in Nat /\ releases \in Nat
        /\ offers \in 0..MaxOffers
    BY DEF OfferTypes, CountTypes
  <1>2. ending = "no" /\ call = "transmit" /\ step = "records" /\ message = "going"
    BY DEF OfferStops, Endings, Order, Finality
  <1>3. taken > 0
    <2>1. CASE taken = 0
      <3>1. RoomForRecord
        BY <1>2, <2>1 DEF Queued
      <3>2. Ceiling - filled >= MaxRecord /\ Len(outbound) \in Nat
        BY <3>1 DEF RoomForRecord, filled, OutTypes
      <3> QED
        BY <3>2 DEF OfferStops, RoomFor
    <2> QED
      BY <1>1, <2>1
  <1>4. taken < offered
    BY <1>2, <1>3, <1>1 DEF Finality
  <1>5. /\ sent' = sent + taken /\ releases' \in Nat /\ releases' > 0 /\ shelved' = TRUE
        /\ message' = message /\ offered' = 0 /\ ends' = FALSE /\ taken' = 0
        /\ step' = "write" /\ pump' = "buffered" /\ back' = "offer"
    <2>1. OfferEnds(taken, "blocked")
      BY DEF OfferStops
    <2> QED
      BY <1>2, <1>3, <1>4, <1>1, <2>1, OfferTold
  <1>6. CountTypes'
    BY <1>2, <1>3, <1>4, <1>5, <1>1 DEF CountTypes, OfferStops
  <1>7. TaskFlags'
    <2>1. UNCHANGED <<work, woken, retried>>
      BY <1>2, <1>5 DEF OfferStops
    <2>2. ends' \in BOOLEAN
      BY <1>2, <1>5, Zenon DEF TaskFlags, OfferStops
    <2>3. shelved' \in BOOLEAN
      BY <1>2, <1>5, Zenon DEF TaskFlags, OfferStops
    <2> QED
      BY <2>1, <2>2, <2>3, Zenon DEF TaskFlags
  <1>8. NameTypes'
    <2>1. UNCHANGED <<terminal, ending, next, polled, call>>
      BY <1>2, <1>5 DEF OfferStops
    <2>2. message' \in {"going", "ended", "reset"}
      BY <1>2, <1>5 DEF NameTypes, OfferStops
    <2>3. step' \in Steps
      BY <1>2, <1>5 DEF NameTypes, Steps, OfferStops
    <2>4. pump' \in {"none", "buffered", "event", "forced", "finish"}
      BY <1>2, <1>5 DEF NameTypes, OfferStops
    <2> QED
      BY <2>1, <2>2, <2>3, <2>4 DEF NameTypes
  <1>9. OfferTypes'
    BY <1>2, <1>3, <1>4, <1>5, <1>1 DEF OfferTypes, OfferStops
  <1>10. Order'
    BY <1>2, <1>5 DEF Order, InsidePump, OfferStops
  <1>11. Endings'
    BY <1>2, <1>5 DEF Endings, OfferStops
  <1>12. TailOrder'
    BY <1>2, <1>5 DEF TailOrder, Order, InsidePump, OfferStops
  <1>13. Queued'
    BY <1>2, <1>5 DEF Queued, RoomForRecord, filled, OfferStops
  <1>14. Full'
    BY <1>2, <1>5 DEF Full, RoomForRecord, filled, OfferStops
  <1>15. Unwritten'
    BY <1>2, <1>5 DEF Unwritten, RoomForRecord, filled, OfferStops
  <1>16. Unread'
    BY <1>2, <1>5 DEF Unread, Registered, OfferStops
  <1>17. Seen'
    BY <1>2, <1>5 DEF Seen, OfferStops
  <1>18. Shelved'
    BY <1>2, <1>3, <1>4, <1>5, <1>1 DEF Shelved, Retry, Message, Moves, OfferStops
  <1>19. Finality'
    BY <1>2, <1>3, <1>4, <1>5, <1>1 DEF Finality, Units, OfferStops
  <1>20. OfferIsHonest'
    <2>1. sent' + taken' = sent + taken /\ UNCHANGED <<made, message>>
      BY <1>5, <1>1 DEF OfferStops
    <2> QED
      BY <2>1 DEF OfferIsHonest, Units
  <1>21. Batches'
    BY <1>2, <1>5 DEF Batches, EndingIsLast, Contains, OfferStops
  <1>22. UNCHANGED <<outbound, wire, made, control, written, space, closing,
          producePending, broken, writeWait, inbound, events, batch, boundary, shut,
          readWait, aheadWait, emitted, reported, close, finished, openWait, next,
          held, credit, ahead>>
    BY DEF OfferStops
  <1>23. OutTypes' /\ OutFlags' /\ SeqTypes' /\ ConnFlags' /\ AdapterFlags' /\
         Buffer' /\ Account' /\ Closed'
    BY <1>22, OutTypesStays, OutFlagsStays, SeqTypesStays, ConnFlagsStays,
       AdapterFlagsStays, BufferStays, AccountStays, ClosedStays
  <1> QED
    BY <1>6, <1>7, <1>8, <1>9, <1>10, <1>11, <1>12, <1>13, <1>14, <1>15, <1>16, <1>17,
       <1>18, <1>19, <1>20, <1>21, <1>23

\* A record of an offer goes on where the last one stopped, and the answer counts them all.
LEMMA OfferRecordKeeps ==
    ASSUME PumpInv, OfferRecord
    PROVE  PumpInv'
  <1> DEFINE remaining == offered - taken
             room == RoomFor(remaining, taken > 0)
             k == PackedOctets(room, remaining, window)
             last == PackedFin(room, remaining, ends, window)
             r == Record(Controls(room) \o StreamFrame(room, sent + taken, remaining, ends, window))
  <1>1. /\ offered \in Nat /\ taken \in Nat /\ taken <= offered /\ sent \in Nat
        /\ sent + offered <= Total /\ Total \in Nat /\ releases \in Nat /\ window \in Nat
        /\ offers \in 0..MaxOffers /\ remaining \in Nat /\ sent + taken \in Nat
        /\ made \in Seq(Unit) /\ Len(outbound) \in Nat
    BY DEF OfferTypes, CountTypes, OutTypes
  <1>2. /\ ending = "no" /\ call = "transmit" /\ step = "records" /\ message = "going"
        /\ control = <<>> /\ ends \in BOOLEAN /\ pump = "none"
    BY DEF OfferRecord, Endings, Order, InsidePump, Finality, Queued, TaskFlags
  <1>3. /\ room \in Nat /\ room > 0 /\ Len(outbound) + room <= Ceiling
        /\ taken = 0 => room = MaxRecord
    <2>1. room > 0
      BY DEF OfferRecord
    <2>2. taken = 0 => Ceiling - Len(outbound) >= MaxRecord
      BY <1>2, <1>1 DEF Queued, RoomForRecord, filled
    <2> QED
      BY <1>1, <2>1, <2>2, RecordAssumption, CeilingAssumption DEF RoomFor, filled
  <1>4. /\ outbound' = outbound \o r /\ made' = made \o r
        /\ control' = SubSeq(control, Len(PackedControl(room)) + 1, Len(control))
        /\ window' = window - k /\ UNCHANGED <<written, wire>>
    BY DEF OfferRecord, Serialise
  <1>5. /\ k = remaining => OfferEnds(taken + k, "accepted")
        /\ k # remaining /\ (k = 0 \/ window = k) => OfferEnds(taken + k, "blocked")
        /\ k # remaining /\ ~(k = 0 \/ window = k) =>
              /\ taken' = taken + k
              /\ UNCHANGED <<sent, releases, shelved, message, offered, ends, step, pump, back>>
    BY DEF OfferRecord
  <1> HIDE DEF room, remaining
  <1>6. /\ k \in Nat /\ k <= remaining /\ k <= window
        /\ (room >= 3 /\ k = 0) => remaining = 0 \/ window = 0
    <2>1. /\ k \in 0..remaining /\ k <= window
          /\ (room >= 3 /\ k = 0) => remaining = 0 \/ window = 0
      BY <1>2, <1>3, <1>1, OctetsPacked
    <2> QED
      BY <1>1, <2>1
  <1>7. last <=> ends /\ k = remaining /\ (remaining = 0 => room >= 2)
    <2>1. \A e : PackedFin(room, remaining, e, window) <=>
                     /\ e /\ PackedOctets(room, remaining, window) = remaining
                     /\ remaining = 0 => room >= 2
      BY <1>2, <1>3, <1>1, OctetsPacked
    <2> QED
      BY <2>1, Zenon
  <1>8. r \in Seq(Unit) /\ Len(r) <= room /\ Carries(r, sent + taken, k, last)
    BY <1>2, <1>3, <1>1, OfferFits
  <1>9. \A j \in 1..Len(r) : /\ r[j][1] # "close"
                             /\ r[j][1] = "fin" => last
    BY <1>8 DEF Carries
  <1>10. control' = <<>>
    BY <1>2, <1>3, <1>4, NoControls
  <1>11. last \in BOOLEAN
    BY DEF PackedFin
  <1> HIDE DEF k, last, r
  <1>12. offered = 0 => ends
    BY <1>2, <1>1 DEF Finality
  <1>13. last <=> ends /\ k = remaining
    BY <1>3, <1>7, <1>1, <1>2, RecordAssumption DEF remaining, Finality
  <1>14. ~shelved
    BY <1>2 DEF Shelved
  <1>15. /\ offered' \in Nat /\ taken' \in 0..offered' /\ sent' \in Nat
         /\ sent' + offered' <= Total /\ sent' + taken' = sent + taken + k
         /\ releases' \in Nat
         /\ shelved' \in BOOLEAN /\ ends' \in BOOLEAN
         /\ last => message' = "ended" /\ taken' = 0 /\ shelved' = FALSE
         /\ ~last => message' = message
         /\ shelved' => window' = 0 \/ releases' > 0
         /\ \/ step' = "write" /\ pump' = "buffered" /\ back' = "offer" /\ offered' = 0
            \/ /\ step' = "records" /\ pump' = pump /\ back' = back /\ shelved' = FALSE
               /\ 0 < taken' /\ taken' < offered' /\ message' = message
               /\ sent' = sent /\ offered' = offered /\ ends' = ends
    <2>1. CASE k = remaining
      <3>1. taken + k = offered
        BY <1>1, <2>1 DEF remaining
      <3>2. OfferEnds(offered, "accepted")
        BY <1>5, <2>1, <3>1
      <3>3. /\ sent' = sent + offered /\ offered' = 0 /\ taken' = 0 /\ ends' = FALSE
            /\ releases' \in Nat
            /\ step' = "write" /\ pump' = "buffered" /\ back' = "offer"
            /\ shelved' = FALSE /\ message' = IF ends THEN "ended" ELSE message
        <4>1. offered <= offered /\ "accepted" \in {"accepted", "blocked"}
          BY <1>1
        <4> QED
          BY <1>2, <1>1, <3>2, <4>1, OfferTold
      <3>4. (last => message' = "ended") /\ (~last => message' = message)
        BY <1>13, <2>1, <3>3, Zenon
      <3>5. /\ offered' \in Nat /\ taken' \in 0..offered' /\ sent' \in Nat
            /\ sent' + offered' <= Total /\ sent' + taken' = sent + taken + k
        BY <1>6, <1>1, <3>1, <3>3
      <3> QED
        BY <3>3, <3>4, <3>5
    <2>2. CASE k # remaining /\ (k = 0 \/ window = k)
      <3>1. OfferEnds(taken + k, "blocked") /\ taken + k \in Nat /\ taken + k < offered
        BY <1>5, <1>6, <1>1, <2>2 DEF remaining
      <3>2. taken + k = 0 => window' = 0
        BY <1>3, <1>4, <1>6, <1>1, <2>2, RecordAssumption
      <3>3. taken + k <= offered
        BY <1>1, <3>1
      <3>4. /\ sent' = sent + (taken + k) /\ shelved' = TRUE
            /\ message' = message
            /\ releases' \in Nat /\ (taken + k > 0 => releases' > 0)
            /\ offered' = 0 /\ ends' = FALSE /\ taken' = 0
            /\ step' = "write" /\ pump' = "buffered" /\ back' = "offer"
        BY <1>2, <1>1, <3>1, <3>3, OfferTold
      <3>5. window' = 0 \/ releases' > 0
        BY <1>6, <1>1, <3>2, <3>4
      <3>6. ~last
        BY <1>13, <2>2
      <3>7. /\ offered' \in Nat /\ taken' \in 0..offered' /\ sent' \in Nat
            /\ sent' + offered' <= Total /\ sent' + taken' = sent + taken + k
        BY <1>6, <1>1, <3>1, <3>4
      <3> QED
        BY <3>4, <3>5, <3>6, <3>7
    <2>3. CASE k # remaining /\ ~(k = 0 \/ window = k)
      <3>1. k < remaining /\ k > 0
        BY <1>6, <1>1, <2>3
      <3>2. /\ taken' = taken + k
            /\ UNCHANGED <<sent, releases, shelved, message, offered, ends, step, pump, back>>
        BY <1>5, <2>3, Zenon
      <3>3. ~last
        BY <1>13, <2>3
      <3>4. /\ offered' \in Nat /\ taken' \in 0..offered' /\ sent' \in Nat
            /\ sent' + offered' <= Total /\ sent' + taken' = sent + taken + k
            /\ 0 < taken' /\ taken' < offered' /\ releases' \in Nat
        BY <1>6, <1>1, <3>1, <3>2 DEF remaining
      <3>5. shelved' = FALSE /\ ends' \in BOOLEAN
        BY <1>2, <1>14, <3>2, Zenon DEF TaskFlags
      <3> QED
        BY <1>2, <3>2, <3>3, <3>4, <3>5
    <2> QED
      BY <2>1, <2>2, <2>3
  <1>16. /\ outbound' \in Seq(Unit) /\ made' \in Seq(Unit)
         /\ Buffer'
    <2>1. Len(outbound) + Len(r) <= Ceiling
      BY <1>1, <1>3, <1>8, CeilingAssumption
    <2> QED
      BY <1>4, <1>8, <2>1, AppendKeeps
  <1>17. Units("close")' = Units("close")
    BY <1>1, <1>4, <1>9, <1>8, QuietUnits
  <1>18. Units("fin") = {}
    BY <1>2 DEF Finality
  <1>19. window' \in Nat
    BY <1>4, <1>6, <1>1
  <1>20. /\ offered' \in Nat /\ taken' \in 0..offered' /\ sent' \in Nat
         /\ sent' + offered' <= Total /\ sent' + taken' = sent + taken + k
         /\ releases' \in Nat
    BY <1>15, Zenon
  <1>21. shelved' \in BOOLEAN /\ ends' \in BOOLEAN
    BY <1>15, Zenon
  <1>22. /\ last => message' = "ended" /\ taken' = 0 /\ shelved' = FALSE
         /\ (~last => message' = message)
    BY <1>15, Zenon
  <1>23. shelved' => window' = 0 \/ releases' > 0
    BY <1>15, Zenon
  <1>24. \/ step' = "write" /\ offered' = 0
         \/ /\ step' = "records" /\ 0 < taken' /\ taken' < offered' /\ message' = message
            /\ sent' = sent /\ offered' = offered /\ ends' = ends
    BY <1>15, Zenon
  <1>25. ~shut
    BY DEF OfferRecord
  <1>26. ends => sent + offered = Total
    BY <1>2 DEF Finality
  <1>27. back = "none"
    BY <1>2 DEF Order
  <1>28. /\ \/ step' = "write" /\ pump' = "buffered" /\ back' = "offer"
            \/ /\ step' = "records" /\ pump' = "none" /\ back' = "none" /\ shelved' = FALSE
               /\ message' = "going"
         /\ message' \in {"going", "ended"}
    BY <1>2, <1>15, <1>27, Zenon
  <1>29. UNCHANGED <<written, producePending, closing, space, broken, writeWait, wire, inbound,
                     readWait, total, scene, boundary, shut, events, ahead, aheadWait,
                     terminal, streams, ending, next, emitted, reported, close, finished,
                     credit, openWait, polled, call, offers, retried, batch, wanted, held,
                     work, woken>>
    BY DEF OfferRecord
  <1>30. OutTypes'
    <2>1. control' \in Seq(Frames)
      BY <1>10
    <2> QED
      BY <1>16, <1>29, <2>1 DEF OutTypes
  <1>31. CountTypes'
    <2>1. releases' \in Nat
      BY <1>20
    <2> QED
      BY <1>19, <1>29, <2>1 DEF CountTypes
  <1>32. TaskFlags'
    <2>1. UNCHANGED <<work, woken, retried>>
      BY <1>21, <1>29
    <2>2. ends' \in BOOLEAN
      BY <1>21, <1>29, Zenon DEF TaskFlags
    <2>3. shelved' \in BOOLEAN
      BY <1>21, <1>29, Zenon DEF TaskFlags
    <2> QED
      BY <2>1, <2>2, <2>3, Zenon DEF TaskFlags
  <1>33. NameTypes'
    BY <1>2, <1>28, <1>29 DEF NameTypes, Calls, Steps, Visible
  <1>34. OfferTypes'
    <2>1. /\ offered' \in Nat /\ taken' \in 0..offered' /\ sent' \in Nat
          /\ sent' + offered' <= Total
      BY <1>20
    <2> QED
      BY <1>29, <2>1 DEF OfferTypes
  <1>35. Buffer'
    BY <1>16
  <1>36. Order'
    BY <1>2, <1>28, <1>29 DEF Order, InsidePump
  <1>37. Endings'
    BY <1>2, <1>28, <1>29 DEF Endings
  <1>38. TailOrder'
    BY <1>2, <1>10, <1>28, <1>29 DEF TailOrder, Order
  <1>39. Queued'
    <2>1. step' = "records" => taken' # 0
      BY <1>24
    <2> QED
      BY <1>2, <1>10, <1>28, <1>29, <2>1 DEF Queued
  <1>40. Full'
    BY <1>2, <1>28, <1>29 DEF Full
  <1>41. Unwritten'
    BY <1>2, <1>28, <1>29 DEF Unwritten
  <1>42. Unread'
    BY <1>2, <1>28, <1>29 DEF Unread, Registered
  <1>43. Seen'
    BY <1>2, <1>28, <1>29 DEF Seen
  <1>44. Shelved'
    <2>1. shelved' => Retry'
      BY <1>23 DEF Retry
    <2>2. shelved' => step' = "write" /\ message' = "going"
      BY <1>2, <1>22, <1>28
    <2>3. /\ call' = "transmit" /\ wanted' = wanted /\ scene' = scene /\ offers' = offers
          /\ retried' = retried /\ offers > 0 /\ Message
      BY <1>2, <1>29 DEF Shelved
    <2>4. step' = "records" => Message' /\ ~shelved'
      BY <1>28, <2>3 DEF Message, Moves
    <2>5. shelved' => message' = "going" /\ wanted' = 0 /\ "send" \in scene'.does
      BY <2>2, <2>3 DEF Message, Moves
    <2> QED
      BY <2>1, <2>3, <2>4, <2>5 DEF Shelved, Moves
  <1>45. Finality'
    <2>1. Units("fin")' # {} => last
      BY <1>4, <1>9, <1>8, <1>1, <1>18, QuietUnits
    <2>2. message' = "ended" => sent' = Total /\ taken' = 0
      <3>1. message' = "ended" => last
        BY <1>2, <1>22
      <3>2. last => sent' + taken' = Total
        <4>1. sent' + taken' = sent + taken + k
          BY <1>20
        <4>2. last => k = offered - taken
          BY <1>13 DEF remaining
        <4>3. last => sent + offered = Total
          BY <1>13, <1>26
        <4>4. sent \in Nat /\ taken \in Nat /\ offered \in Nat /\ k \in Nat
          BY <1>1, <1>6
        <4> QED
          BY <4>1, <4>2, <4>3, <4>4
      <3>3. last => taken' = 0
        BY <1>22
      <3>4. taken' = 0 => sent' + taken' = sent'
        <4>1. sent' \in Nat /\ taken' \in 0..offered' /\ offered' \in Nat
          BY <1>20
        <4>2. \A a \in Nat : a + 0 = a
          OBVIOUS
        <4> QED
          BY <4>1, <4>2, Zenon
      <3> QED
        BY <3>1, <3>2, <3>3, <3>4, Zenon
    <2>3. last => message' = "ended"
      BY <1>22
    <2>4. step' = "records" =>
            /\ message' = "going" /\ (ends' => sent' + offered' = Total)
            /\ offered' > taken' /\ ~shut'
      BY <1>2, <1>24, <1>1, <1>25, <1>29 DEF Finality
    <2>5. step' # "records" => offered' = 0
      BY <1>24
    <2> QED
      BY <2>1, <2>2, <2>3, <2>4, <2>5 DEF Finality
  <1>46. OfferIsHonest'
    <2> DEFINE n == sent + taken
    <2>1. last => n + k = Total
      BY <1>6, <1>13, <1>26, <1>1 DEF remaining
    <2>2. message' = "ended" => last
      BY <1>2, <1>22
    <2>3. n \in Nat /\ n = sent + taken /\ sent' + taken' = n + k /\ Carries(r, n, k, last)
      BY <1>8, <1>1, <1>20
    <2> HIDE DEF n
    <2> QED
      BY <1>4, <1>6, <1>8, <1>11, <1>1, <1>18, <2>1, <2>2, <2>3, HonestGrows
  <1>47. Batches'
    BY <1>2, <1>28, <1>29 DEF Batches, EndingIsLast, Contains
  <1>48. Closed'
    <2>1. closing = "no" /\ closing' = closing
      BY <1>2, <1>29 DEF TailOrder
    <2> QED
      BY <1>17, <2>1 DEF Closed
  <1>49. UNCHANGED <<closing, producePending, broken, writeWait, inbound, events,
          batch, boundary, shut, readWait, aheadWait, emitted, reported, close,
          finished, openWait, next, held, credit, ahead>>
    BY <1>29
  <1>50. OutFlags' /\ SeqTypes' /\ ConnFlags' /\ AdapterFlags' /\ Account'
    BY <1>49, OutFlagsStays, SeqTypesStays, ConnFlagsStays, AdapterFlagsStays,
       AccountStays
  <1> QED
    BY <1>30, <1>31, <1>32, <1>33, <1>34, <1>35, <1>36, <1>37, <1>38, <1>39, <1>40, <1>41,
       <1>42, <1>43, <1>44, <1>45, <1>46, <1>47, <1>48, <1>50

\* A stream the peer does not want: the record has what else there was.
LEMMA OfferGoneKeeps ==
    ASSUME PumpInv, OfferGone
    PROVE  PumpInv'
  <1>1. control = <<>>
    BY DEF OfferGone, Queued
  <1>2. /\ Controls(MaxRecord) = <<>>
        /\ SubSeq(control, Len(PackedControl(MaxRecord)) + 1, Len(control)) = <<>>
    BY <1>1, NoControls, RecordAssumption
  <1>3. outbound \in Seq(Unit) /\ made \in Seq(Unit)
    BY DEF OutTypes
  <1>4. UNCHANGED <<outbound, made, control>>
    BY <1>1, <1>2, <1>3, ConcatEmptySeq DEF OfferGone, Serialise, Record
  <1>5. step' = "write" /\ pump' = "buffered" /\ back' = "offer"
    BY DEF OfferGone, StartPump, Endings
  <1>6. taken = 0
    BY DEF OfferGone, Finality
  <1>7. OutTypes'
    BY <1>4, OutTypesStays DEF OfferGone
  <1>8. TaskFlags'
    <2>1. UNCHANGED <<work, woken, shelved, retried>>
      BY <1>4, <1>5 DEF OfferGone
    <2>2. ends' \in BOOLEAN
      BY <1>4, <1>5, Zenon DEF TaskFlags, OfferGone
    <2> QED
      BY <2>1, <2>2, Zenon DEF TaskFlags
  <1>9. NameTypes'
    <2>1. UNCHANGED <<terminal, ending, next, polled, call>>
      BY <1>4, <1>5 DEF OfferGone
    <2>2. message' \in {"going", "ended", "reset"}
      BY <1>4, <1>5 DEF NameTypes, OfferGone
    <2>3. step' \in Steps
      BY <1>4, <1>5 DEF NameTypes, Steps, OfferGone
    <2>4. pump' \in {"none", "buffered", "event", "forced", "finish"}
      BY <1>4, <1>5 DEF NameTypes, OfferGone
    <2> QED
      BY <2>1, <2>2, <2>3, <2>4 DEF NameTypes
  <1>10. OfferTypes'
    BY <1>6 DEF OfferTypes, OfferGone
  <1>11. Buffer'
    BY <1>4, BufferStays DEF OfferGone
  <1>12. Order'
    BY <1>4, <1>5 DEF Order, InsidePump, OfferGone
  <1>13. Endings'
    BY <1>4, <1>5 DEF Endings, OfferGone
  <1>14. TailOrder'
    BY <1>4, <1>5 DEF TailOrder, Order, InsidePump, OfferGone
  <1>15. Queued'
    BY <1>4, <1>5 DEF Queued, RoomForRecord, filled, OfferGone
  <1>16. Full'
    BY <1>4, <1>5 DEF Full, RoomForRecord, filled, OfferGone
  <1>17. Unwritten'
    BY <1>4, <1>5 DEF Unwritten, RoomForRecord, filled, OfferGone
  <1>18. Unread'
    BY <1>4, <1>5 DEF Unread, Registered, OfferGone
  <1>19. Seen'
    BY <1>4, <1>5 DEF Seen, OfferGone
  <1>20. Shelved'
    BY <1>4, <1>5 DEF Shelved, Retry, Message, Moves, OfferGone
  <1>21. Finality'
    BY <1>4, <1>5, <1>6 DEF Finality, Units, OfferGone
  <1>22. OfferIsHonest'
    BY <1>4, <1>5 DEF OfferIsHonest, Units, OfferGone
  <1>23. Closed'
    BY <1>4, ClosedStays DEF OfferGone
  <1>24. UNCHANGED <<closing, producePending, broken, writeWait, inbound, events,
          batch, ahead, window, streams, releases, credit, held, wanted, boundary,
          shut, readWait, aheadWait, emitted, reported, close, finished, openWait,
          next, call, ending>>
    BY DEF OfferGone
  <1>25. OutFlags' /\ SeqTypes' /\ CountTypes' /\ ConnFlags' /\ AdapterFlags' /\
         Account' /\ Batches'
    BY <1>24, OutFlagsStays, SeqTypesStays, CountTypesStays, ConnFlagsStays,
       AdapterFlagsStays, AccountStays, BatchesStays
  <1> QED
    BY <1>7, <1>8, <1>9, <1>10, <1>11, <1>12, <1>13, <1>14, <1>15, <1>16, <1>17, <1>18,
       <1>19, <1>20, <1>21, <1>22, <1>23, <1>25

\* The pass is over, and goes on wherever something was done.
LEMMA SettleKeeps ==
    ASSUME PumpInv, Settle
    PROVE  PumpInv'
  <1>1. SeqTypes'
    BY DEF SeqTypes, Kinds, Visible, Batched, Settle
  <1>2. NameTypes'
    <2>1. UNCHANGED <<terminal, ending, next, polled, message, pump>>
      BY DEF Settle
    <2>2. call' \in Calls
      BY DEF NameTypes, Calls, Settle
    <2>3. step' \in Steps
      BY DEF NameTypes, Steps, Settle
    <2> QED
      BY <2>1, <2>2, <2>3 DEF NameTypes
  <1>3. Order'
    BY DEF Order, InsidePump, Settle
  <1>4. Endings'
    BY DEF Endings, Batches, Settle
  <1>5. TailOrder'
    BY DEF TailOrder, Order, InsidePump, Endings, Batches, Settle
  <1>6. Queued'
    BY DEF Queued, RoomForRecord, filled, Settle
  <1>7. Full'
    BY DEF Full, RoomForRecord, filled, Settle
  <1>8. Unwritten'
    BY DEF Unwritten, RoomForRecord, filled, Settle
  <1>9. Unread'
    BY DEF Unread, Registered, Settle
  <1>10. Seen'
    BY DEF Seen, Order, InsidePump, Settle
  <1>11. Shelved'
    BY DEF Shelved, Retry, Message, Moves, Settle
  <1>12. Finality'
    BY DEF Finality, Units, Settle
  <1>13. Batches'
    BY DEF Batches, EndingIsLast, Contains, Settle
  <1>14. UNCHANGED <<outbound, wire, made, control, written, space, closing,
          producePending, broken, writeWait, ahead, window, streams, releases,
          credit, held, wanted, boundary, shut, readWait, aheadWait, emitted,
          reported, close, finished, openWait, work, woken, ends, shelved, retried,
          offers, offered, taken, sent, next, message>>
    BY DEF Settle
  <1>15. OutTypes' /\ OutFlags' /\ CountTypes' /\ ConnFlags' /\ AdapterFlags' /\
         TaskFlags' /\ OfferTypes' /\ Buffer' /\ Account' /\ OfferIsHonest' /\
         Closed'
    BY <1>14, OutTypesStays, OutFlagsStays, CountTypesStays, ConnFlagsStays,
       AdapterFlagsStays, TaskFlagsStays, OfferTypesStays, BufferStays, AccountStays,
       OfferIsHonestStays, ClosedStays
  <1> QED
    BY <1>1, <1>2, <1>3, <1>4, <1>5, <1>6, <1>7, <1>8, <1>9, <1>10, <1>11, <1>12,
       <1>13, <1>15

\* A driver that is done asks for a close.
LEMMA CloseKeeps ==
    ASSUME PumpInv, Close
    PROVE  PumpInv'
  <1>1. /\ control' \in Seq(Frames) /\ producePending' \in BOOLEAN
        /\ ~producePending' => control' = <<>>
        /\ ending # "no" \/ terminal # "no" => UNCHANGED <<control, producePending>>
        /\ ahead' \in Nat /\ credit' = 0 /\ aheadWait' \in BOOLEAN /\ woken' \in BOOLEAN
        /\ Account'
        /\ woken => woken'
        /\ ~woken' /\ ahead >= Allowance /\ aheadWait => ahead' >= Allowance /\ aheadWait'
    <2>1. /\ FlushCredit /\ QueueAfterCredit(<<>>) /\ UNCHANGED <<next, held>>
          /\ <<>> \in {<<>>, <<"reset">>}
      BY DEF Close, UnlessCredited
    <2>2. ~producePending => control = <<>>
      BY DEF Queued
    <2> QED
      BY <2>1, <2>2, CreditPassed
  <1>2. OutTypes'
    BY <1>1 DEF OutTypes, Close, Moves, UnlessCredited
  <1>3. OutFlags'
    BY <1>1 DEF OutFlags, Close, Moves, UnlessCredited
  <1>4. CountTypes'
    BY <1>1 DEF CountTypes, Close, Moves, UnlessCredited
  <1>5. ConnFlags'
    <2>1. UNCHANGED <<boundary, shut, readWait>>
      BY <1>1 DEF Close, UnlessCredited
    <2>2. aheadWait' \in BOOLEAN
      BY <1>1, Zenon DEF ConnFlags, Close, Moves, UnlessCredited
    <2> QED
      BY <2>1, <2>2, Zenon DEF ConnFlags
  <1>6. AdapterFlags'
    <2>1. UNCHANGED <<emitted, reported, finished, openWait>>
      BY <1>1 DEF Close, UnlessCredited
    <2>2. close' \in BOOLEAN
      BY <1>1, Zenon DEF AdapterFlags, Close, Moves, UnlessCredited
    <2> QED
      BY <2>1, <2>2, Zenon DEF AdapterFlags
  <1>7. TaskFlags'
    <2>1. UNCHANGED <<work, ends, shelved, retried>>
      BY <1>1 DEF Close, UnlessCredited
    <2>2. woken' \in BOOLEAN
      BY <1>1, Zenon DEF TaskFlags, Close, Moves, UnlessCredited
    <2> QED
      BY <2>1, <2>2, Zenon DEF TaskFlags
  <1>8. NameTypes'
    <2>1. UNCHANGED <<terminal, ending, next, polled, message, pump>>
      BY <1>1 DEF Close, UnlessCredited
    <2>2. call' \in Calls
      BY <1>1 DEF NameTypes, Calls, Close, UnlessCredited
    <2>3. step' \in Steps
      BY <1>1 DEF NameTypes, Steps, Close, UnlessCredited
    <2> QED
      BY <2>1, <2>2, <2>3 DEF NameTypes
  <1>9. Account'
    BY <1>1
  <1>10. Order'
    BY <1>1 DEF Order, InsidePump, Close, Moves, UnlessCredited
  <1>11. Endings'
    BY <1>1 DEF Endings, Close, Moves, UnlessCredited
  <1>12. TailOrder'
    BY <1>1 DEF TailOrder, Close, Moves, UnlessCredited
  <1>13. Queued'
    BY <1>1 DEF Queued, RoomForRecord, filled, Close, Moves, UnlessCredited
  <1>14. Full'
    BY <1>1 DEF Full, RoomForRecord, filled, Close, Moves, UnlessCredited
  <1>15. Unwritten'
    BY <1>1 DEF Unwritten, RoomForRecord, filled, Close, Moves, UnlessCredited
  <1>16. Unread'
    BY <1>1 DEF Unread, Registered, Close, Moves, UnlessCredited
  <1>17. Seen'
    BY <1>1 DEF Seen, Close, Moves, UnlessCredited
  <1>18. Shelved'
    BY <1>1 DEF Shelved, Retry, Message, Moves, Close, UnlessCredited
  <1>19. Finality'
    BY <1>1 DEF Finality, Units, Close, Moves, UnlessCredited
  <1>20. Batches'
    BY <1>1 DEF Batches, EndingIsLast, Contains, Close, Moves, UnlessCredited
  <1>21. Closed'
    BY <1>1 DEF Closed, Units, TailOrder, Close, Moves, UnlessCredited
  <1>22. UNCHANGED <<inbound, events, batch, offers, offered, taken, sent, outbound,
          written, wire, made, message>>
    BY DEF Close
  <1>23. SeqTypes' /\ OfferTypes' /\ Buffer' /\ OfferIsHonest'
    BY <1>22, SeqTypesStays, OfferTypesStays, BufferStays, OfferIsHonestStays
  <1> QED
    BY <1>2, <1>3, <1>4, <1>5, <1>6, <1>7, <1>8, <1>9, <1>10, <1>11, <1>12, <1>13,
       <1>14, <1>15, <1>16, <1>17, <1>18, <1>19, <1>20, <1>21, <1>23

\* The park flushes, with the reader registered before.
LEMMA FlushEnterKeeps ==
    ASSUME PumpInv, FlushEnter
    PROVE  PumpInv'
  <1>1. /\ control' \in Seq(Frames) /\ producePending' \in BOOLEAN
        /\ ~producePending' => control' = <<>>
        /\ ending # "no" \/ terminal # "no" => UNCHANGED <<control, producePending>>
        /\ ahead' \in Nat /\ credit' = 0 /\ aheadWait' \in BOOLEAN /\ woken' \in BOOLEAN
        /\ Account'
        /\ woken => woken'
        /\ ~woken' /\ ahead >= Allowance /\ aheadWait => ahead' >= Allowance /\ aheadWait'
    <2>1. /\ FlushCredit /\ QueueAfterCredit(<<>>) /\ UNCHANGED <<next, held>>
          /\ <<>> \in {<<>>, <<"reset">>}
      BY DEF FlushEnter, UnlessCredited
    <2>2. ~producePending => control = <<>>
      BY DEF Queued
    <2> QED
      BY <2>1, <2>2, CreditPassed
  <1>2. OutTypes'
    BY <1>1 DEF OutTypes, FlushEnter, StartPump, StopPump, UnlessCredited
  <1>3. OutFlags'
    BY <1>1 DEF OutFlags, FlushEnter, StartPump, StopPump, UnlessCredited
  <1>4. CountTypes'
    BY <1>1 DEF CountTypes, FlushEnter, StartPump, StopPump, UnlessCredited
  <1>5. ConnFlags'
    <2>1. UNCHANGED <<boundary, shut, readWait>>
      BY <1>1 DEF FlushEnter, UnlessCredited
    <2>2. aheadWait' \in BOOLEAN
      BY <1>1, Zenon DEF ConnFlags, FlushEnter, StartPump, StopPump, UnlessCredited
    <2> QED
      BY <2>1, <2>2, Zenon DEF ConnFlags
  <1>6. TaskFlags'
    <2>1. UNCHANGED <<work, ends, shelved, retried>>
      BY <1>1 DEF FlushEnter, UnlessCredited
    <2>2. woken' \in BOOLEAN
      BY <1>1, Zenon DEF TaskFlags, FlushEnter, StartPump, StopPump, UnlessCredited
    <2> QED
      BY <2>1, <2>2, Zenon DEF TaskFlags
  <1>7. NameTypes'
    <2>1. UNCHANGED <<terminal, ending, next, polled, message, call>>
      BY <1>1 DEF FlushEnter, UnlessCredited
    <2>2. step' \in Steps
      BY <1>1 DEF NameTypes, Steps, FlushEnter, StartPump, StopPump, UnlessCredited
    <2>3. pump' \in {"none", "buffered", "event", "forced", "finish"}
      BY <1>1 DEF NameTypes, FlushEnter, StartPump, StopPump, UnlessCredited
    <2> QED
      BY <2>1, <2>2, <2>3 DEF NameTypes
  <1>8. Account'
    BY <1>1
  <1>9. Order'
    BY <1>1 DEF Order, InsidePump, FlushEnter, StartPump, StopPump, UnlessCredited
  <1>10. Endings'
    BY <1>1 DEF Endings, FlushEnter, StartPump, StopPump, UnlessCredited
  <1>11. TailOrder'
    BY <1>1 DEF TailOrder, Order, InsidePump, FlushEnter, StartPump, StopPump,
       UnlessCredited
  <1>12. Queued'
    BY <1>1 DEF Queued, RoomForRecord, filled, FlushEnter, StartPump, StopPump,
       UnlessCredited
  <1>13. Full'
    BY <1>1 DEF Full, RoomForRecord, filled, FlushEnter, StartPump, StopPump,
       UnlessCredited
  <1>14. Unwritten'
    BY <1>1 DEF Unwritten, RoomForRecord, filled, Endings, FlushEnter, StartPump,
       StopPump, UnlessCredited
  <1>15. Unread'
    BY <1>1 DEF Unread, Registered, FlushEnter, StartPump, StopPump, UnlessCredited
  <1>16. Seen'
    BY <1>1 DEF Seen, FlushEnter, StartPump, StopPump, UnlessCredited
  <1>17. Shelved'
    BY <1>1 DEF Shelved, Retry, Message, Moves, Order, InsidePump, FlushEnter,
       StartPump, StopPump, UnlessCredited
  <1>18. Finality'
    BY <1>1 DEF Finality, Units, FlushEnter, StartPump, StopPump, UnlessCredited
  <1>19. UNCHANGED <<inbound, events, batch, emitted, reported, close, finished,
          openWait, offers, offered, taken, sent, outbound, written, wire, made,
          message, call, ending, releases, next, closing>>
    BY DEF FlushEnter
  <1>20. SeqTypes' /\ AdapterFlags' /\ OfferTypes' /\ Buffer' /\ OfferIsHonest' /\
         Batches' /\ Closed'
    BY <1>19, SeqTypesStays, AdapterFlagsStays, OfferTypesStays, BufferStays,
       OfferIsHonestStays, BatchesStays, ClosedStays
  <1> QED
    BY <1>2, <1>3, <1>4, <1>5, <1>6, <1>7, <1>8, <1>9, <1>10, <1>11, <1>12, <1>13,
       <1>14, <1>15, <1>16, <1>17, <1>18, <1>20

\* A woken task polls again, and takes a stream set aside with it.
LEMMA ResumeKeeps ==
    ASSUME PumpInv, Resume
    PROVE  PumpInv'
  <1>1. TaskFlags'
    <2>1. UNCHANGED <<work, ends, shelved, retried>>
      BY DEF Resume
    <2>2. woken' \in BOOLEAN
      BY Zenon DEF TaskFlags, Resume
    <2> QED
      BY <2>1, <2>2, Zenon DEF TaskFlags
  <1>2. NameTypes'
    <2>1. UNCHANGED <<terminal, ending, next, polled, message, pump>>
      BY DEF Resume
    <2>2. call' \in Calls
      BY DEF NameTypes, Calls, Resume
    <2>3. step' \in Steps
      BY DEF NameTypes, Steps, Resume
    <2> QED
      BY <2>1, <2>2, <2>3 DEF NameTypes
  <1>3. Order'
    BY DEF Order, InsidePump, Resume
  <1>4. Endings'
    BY DEF Endings, Resume
  <1>5. TailOrder'
    BY DEF TailOrder, Resume
  <1>6. Queued'
    BY DEF Queued, RoomForRecord, filled, Resume
  <1>7. Full'
    BY DEF Full, RoomForRecord, filled, Resume
  <1>8. Unwritten'
    BY DEF Unwritten, RoomForRecord, filled, Resume
  <1>9. Unread'
    BY DEF Unread, Registered, Order, InsidePump, Resume
  <1>10. Seen'
    BY DEF Seen, Order, InsidePump, Resume
  <1>11. Shelved'
    BY DEF Shelved, Retry, Message, Moves, Order, InsidePump, Resume
  <1>12. Finality'
    BY DEF Finality, Units, Resume
  <1>13. Batches'
    BY DEF Batches, EndingIsLast, Contains, Resume
  <1>14. UNCHANGED <<outbound, wire, made, control, written, space, closing,
          producePending, broken, writeWait, inbound, events, batch, ahead, window,
          streams, releases, credit, held, wanted, boundary, shut, readWait,
          aheadWait, emitted, reported, close, finished, openWait, offers, offered,
          taken, sent, next, message>>
    BY DEF Resume
  <1>15. OutTypes' /\ OutFlags' /\ SeqTypes' /\ CountTypes' /\ ConnFlags' /\
         AdapterFlags' /\ OfferTypes' /\ Buffer' /\ Account' /\ OfferIsHonest' /\
         Closed'
    BY <1>14, OutTypesStays, OutFlagsStays, SeqTypesStays, CountTypesStays,
       ConnFlagsStays, AdapterFlagsStays, OfferTypesStays, BufferStays, AccountStays,
       OfferIsHonestStays, ClosedStays
  <1> QED
    BY <1>1, <1>2, <1>3, <1>4, <1>5, <1>6, <1>7, <1>8, <1>9, <1>10, <1>11, <1>12,
       <1>13, <1>15

\* The tail writes what is queued first.
LEMMA TailEnterKeeps ==
    ASSUME PumpInv, TailEnter
    PROVE  PumpInv'
  <1>1. /\ control' \in Seq(Frames) /\ producePending' \in BOOLEAN
        /\ ~producePending' => control' = <<>>
        /\ ending # "no" \/ terminal # "no" => UNCHANGED <<control, producePending>>
        /\ ahead' \in Nat /\ credit' = 0 /\ aheadWait' \in BOOLEAN /\ woken' \in BOOLEAN
        /\ Account'
        /\ woken => woken'
        /\ ~woken' /\ ahead >= Allowance /\ aheadWait => ahead' >= Allowance /\ aheadWait'
    <2>1. /\ FlushCredit /\ QueueAfterCredit(<<>>) /\ UNCHANGED <<next, held>>
          /\ <<>> \in {<<>>, <<"reset">>}
      BY DEF TailEnter, UnlessCredited
    <2>2. ~producePending => control = <<>>
      BY DEF Queued
    <2> QED
      BY <2>1, <2>2, CreditPassed
  <1>2. OutTypes'
    BY <1>1 DEF OutTypes, TailEnter, UnlessCredited
  <1>3. OutFlags'
    BY <1>1 DEF OutFlags, TailEnter, UnlessCredited
  <1>4. CountTypes'
    BY <1>1 DEF CountTypes, TailEnter, UnlessCredited
  <1>5. ConnFlags'
    <2>1. UNCHANGED <<boundary, shut, readWait>>
      BY <1>1 DEF TailEnter, UnlessCredited
    <2>2. aheadWait' \in BOOLEAN
      BY <1>1, Zenon DEF ConnFlags, TailEnter, UnlessCredited
    <2> QED
      BY <2>1, <2>2, Zenon DEF ConnFlags
  <1>6. TaskFlags'
    <2>1. UNCHANGED <<work, ends, shelved, retried>>
      BY <1>1 DEF TailEnter, UnlessCredited
    <2>2. woken' \in BOOLEAN
      BY <1>1, Zenon DEF TaskFlags, TailEnter, UnlessCredited
    <2> QED
      BY <2>1, <2>2, Zenon DEF TaskFlags
  <1>7. NameTypes'
    <2>1. UNCHANGED <<terminal, ending, next, polled, message, call>>
      BY <1>1 DEF TailEnter, UnlessCredited
    <2>2. step' \in Steps
      BY <1>1 DEF NameTypes, Steps, TailEnter, UnlessCredited
    <2>3. pump' \in {"none", "buffered", "event", "forced", "finish"}
      BY <1>1 DEF NameTypes, TailEnter, UnlessCredited
    <2> QED
      BY <2>1, <2>2, <2>3 DEF NameTypes
  <1>8. Account'
    BY <1>1
  <1>9. Order'
    BY <1>1 DEF Order, InsidePump, TailEnter, UnlessCredited
  <1>10. Endings'
    BY <1>1 DEF Endings, TailEnter, UnlessCredited
  <1>11. TailOrder'
    BY <1>1 DEF TailOrder, TailEnter, UnlessCredited
  <1>12. Queued'
    BY <1>1 DEF Queued, RoomForRecord, filled, TailEnter, UnlessCredited
  <1>13. Full'
    BY <1>1 DEF Full, RoomForRecord, filled, TailEnter, UnlessCredited
  <1>14. Unwritten'
    BY <1>1 DEF Unwritten, RoomForRecord, filled, TailEnter, UnlessCredited
  <1>15. Unread'
    BY <1>1 DEF Unread, Registered, TailEnter, UnlessCredited
  <1>16. Seen'
    BY <1>1 DEF Seen, TailEnter, UnlessCredited
  <1>17. Shelved'
    BY <1>1 DEF Shelved, Retry, Message, Moves, TailEnter, UnlessCredited
  <1>18. Finality'
    BY <1>1 DEF Finality, Units, TailEnter, UnlessCredited
  <1>19. UNCHANGED <<inbound, events, batch, emitted, reported, close, finished,
          openWait, offers, offered, taken, sent, outbound, written, wire, made,
          message, call, ending, releases, next, closing>>
    BY DEF TailEnter
  <1>20. SeqTypes' /\ AdapterFlags' /\ OfferTypes' /\ Buffer' /\ OfferIsHonest' /\
         Batches' /\ Closed'
    BY <1>19, SeqTypesStays, AdapterFlagsStays, OfferTypesStays, BufferStays,
       OfferIsHonestStays, BatchesStays, ClosedStays
  <1> QED
    BY <1>2, <1>3, <1>4, <1>5, <1>6, <1>7, <1>8, <1>9, <1>10, <1>11, <1>12, <1>13,
       <1>14, <1>15, <1>16, <1>17, <1>18, <1>20

\* The tail goes on once everything is written, waits, or is done on a byte stream that
\* broke.
LEMMA TailDrainedKeeps ==
    ASSUME PumpInv, TailDrained
    PROVE  PumpInv'
  <1>1. AdapterFlags'
    <2>1. UNCHANGED <<emitted, reported, close, openWait>>
      BY DEF TailDrained
    <2>2. finished' \in BOOLEAN
      <3>1. finished' = TRUE \/ finished' = finished
        BY Zenon DEF TailDrained
      <3> QED
        BY <3>1, Zenon DEF AdapterFlags
    <2> QED
      BY <2>1, <2>2, Zenon DEF AdapterFlags
  <1>2. NameTypes'
    <2>1. UNCHANGED <<terminal, ending, next, polled, message, call>>
      BY DEF TailDrained
    <2>2. step' \in Steps
      BY DEF NameTypes, Steps, TailDrained, StopPump
    <2>3. pump' \in {"none", "buffered", "event", "forced", "finish"}
      BY DEF NameTypes, TailDrained, StopPump
    <2> QED
      BY <2>1, <2>2, <2>3 DEF NameTypes
  <1>3. Order'
    BY DEF Order, InsidePump, TailDrained, FlushFails, StopPump, filled
  <1>4. Endings'
    BY DEF Endings, Order, InsidePump, TailDrained, FlushFails, StopPump, filled
  <1>5. TailOrder'
    <2>1. closing = "no" /\ call = "tail" /\ step = "pumped" /\ pump = "finish"
      BY DEF TailDrained, TailOrder, Order
    <2>2. \/ broken /\ finished' = TRUE /\ step' = "done"
          \/ finished' = finished /\ step' = "parked"
          \/ finished' = finished /\ step' = "drained" /\ ~(written < filled)
      BY Zenon DEF TailDrained, FlushFails
    <2>3. ~(written < filled) => outbound = <<>>
      BY DEF Buffer, Tidy
    <2>4. ~finished
      BY <2>1 DEF TailOrder
    <2>5. UNCHANGED <<closing, terminal, call, close, outbound, control, broken>> /\ pump' = "none"
      BY DEF TailDrained, StopPump
    <2> QED
      BY <2>1, <2>2, <2>3, <2>4, <2>5 DEF TailOrder
  <1>6. Queued'
    BY DEF Queued, RoomForRecord, filled, TailDrained, FlushFails, StopPump
  <1>7. Full'
    BY DEF Full, RoomForRecord, filled, TailDrained, FlushFails, StopPump
  <1>8. Unwritten'
    BY DEF Unwritten, RoomForRecord, filled, TailDrained, FlushFails, StopPump
  <1>9. Unread'
    BY DEF Unread, Registered, Order, InsidePump, TailDrained, FlushFails, StopPump,
       filled
  <1>10. Seen'
    BY DEF Seen, Order, InsidePump, TailDrained, FlushFails, StopPump, filled
  <1>11. Shelved'
    BY DEF Shelved, Retry, Message, Moves, Order, InsidePump, TailDrained, FlushFails,
       StopPump, filled
  <1>12. Finality'
    BY DEF Finality, Units, TailDrained, FlushFails, StopPump, filled
  <1>13. UNCHANGED <<outbound, wire, made, control, written, space, closing,
          producePending, broken, writeWait, inbound, events, batch, ahead, window,
          streams, releases, credit, held, wanted, boundary, shut, readWait,
          aheadWait, work, woken, ends, shelved, retried, offers, offered, taken,
          sent, next, message, call, emitted, ending, reported, close>>
    BY DEF TailDrained
  <1>14. OutTypes' /\ OutFlags' /\ SeqTypes' /\ CountTypes' /\ ConnFlags' /\
         TaskFlags' /\ OfferTypes' /\ Buffer' /\ Account' /\ OfferIsHonest' /\
         Batches' /\ Closed'
    BY <1>13, OutTypesStays, OutFlagsStays, SeqTypesStays, CountTypesStays,
       ConnFlagsStays, TaskFlagsStays, OfferTypesStays, BufferStays, AccountStays,
       OfferIsHonestStays, BatchesStays, ClosedStays
  <1> QED
    BY <1>1, <1>2, <1>3, <1>4, <1>5, <1>6, <1>7, <1>8, <1>9, <1>10, <1>11, <1>12,
       <1>14

\* The close record is the last: nothing is queued and the buffer is empty.
LEMMA TailClosesKeeps ==
    ASSUME PumpInv, TailCloses
    PROVE  PumpInv'
  <1> DEFINE r == <<Header("record"), Header("close")>>
  <1>1. /\ made \in Seq(Unit) /\ Len(made) \in Nat
    BY DEF OutTypes
  <1>2. outbound = <<>> /\ Len(outbound) = 0 /\ closing = "no" /\ control = <<>>
    BY DEF TailCloses, TailOrder
  <1>3. Header("record") \in Unit /\ Header("close") \in Unit
    BY DEF Header, Unit, UnitKinds
  <1>4. /\ r \in Seq(Unit) /\ Len(r) = 2
        /\ \A j \in 1..Len(r) : r[j][1] # "octet"
        /\ \A j \in 1..Len(r) : r[j][1] # "fin"
        /\ r[1][1] # "close" /\ r[2][1] = "close"
    BY <1>3 DEF Header
  <1>5. Record(<<Header("close")>>) = r
    <2>1. <<Header("close")>> # <<>>
      OBVIOUS
    <2>2. <<Header("record")>> \o <<Header("close")>> = r
      BY <1>3, TwoUnits
    <2> QED
      BY <2>1, <2>2 DEF Record
  <1>6. outbound' = outbound \o r /\ made' = made \o r /\ UNCHANGED <<written, wire>>
    BY <1>5 DEF TailCloses, AppendClose
  <1> HIDE DEF r
  <1>7. outbound' \in Seq(Unit) /\ made' \in Seq(Unit) /\ Buffer'
    <2>1. Len(outbound) + Len(r) <= Ceiling
      BY <1>2, <1>4, RecordAssumption, CeilingAssumption
    <2> QED
      BY <1>4, <1>6, <2>1, AppendKeeps
  <1>8. Units("fin")' = Units("fin")
    BY <1>1, <1>4, <1>6, QuietUnits
  <1>9. Units("close")' = {Len(made')}
    <2>1. /\ Len(made') = Len(made) + 2
          /\ \A i : i \in Units("close")' <=>
                 \/ i \in Units("close")
                 \/ \E j \in 1..Len(r) : i = Len(made) + j /\ r[j][1] = "close"
      <3>1. Len(made') = Len(made) + Len(r)
        BY <1>1, <1>4, <1>6, UnitsAppended
      <3>2. \A kind, i : i \in Units(kind)' <=>
                 \/ i \in Units(kind)
                 \/ \E j \in 1..Len(r) : i = Len(made) + j /\ r[j][1] = kind
        BY <1>1, <1>4, <1>6, UnitsAppended
      <3>3. \A i : i \in Units("close")' <=>
                 \/ i \in Units("close")
                 \/ \E j \in 1..Len(r) : i = Len(made) + j /\ r[j][1] = "close"
        BY <3>2, Zenon
      <3> QED
        BY <1>4, <3>1, <3>3
    <2>2. Units("close") = {}
      BY <1>2 DEF Closed
    <2>3. \A j \in 1..Len(r) : r[j][1] = "close" <=> j = 2
      BY <1>4
    <2>4. \A i : i \in Units("close")' <=> i = Len(made) + 2
      BY <1>4, <2>1, <2>2, <2>3
    <2> QED
      BY <2>1, <2>4
  <1>10. OutTypes'
    BY <1>7 DEF OutTypes, TailCloses
  <1>11. OutFlags'
    BY DEF OutFlags, TailCloses, AppendClose
  <1>12. NameTypes'
    <2>1. UNCHANGED <<ending, next, polled, message, call, step, pump>>
      BY DEF TailCloses
    <2>2. terminal' \in {"no", "io", "eof", "truncated", "peer", "local"}
      BY DEF NameTypes, TailCloses, Latch
    <2> QED
      BY <2>1, <2>2 DEF NameTypes
  <1>13. Buffer'
    BY <1>7
  <1>14. Endings'
    BY DEF Endings, TailCloses, Latch
  <1>15. TailOrder'
    BY <1>2 DEF TailOrder, TailCloses, AppendClose, Latch, Order, InsidePump
  <1>16. Queued'
    BY DEF Queued, RoomForRecord, filled, TailCloses, Latch
  <1>17. Full'
    BY DEF Full, RoomForRecord, filled, TailCloses, Latch
  <1>18. Unwritten'
    BY DEF Unwritten, RoomForRecord, filled, TailCloses, Latch
  <1>19. Unread'
    BY DEF Unread, Registered, TailCloses, Latch
  <1>20. Shelved'
    BY DEF Shelved, Retry, Message, Moves, TailCloses, Latch
  <1>21. Finality'
    BY <1>8 DEF Finality, TailCloses
  <1>22. OfferIsHonest'
    <2>1. UNCHANGED <<sent, taken, message>>
      BY DEF TailCloses
    <2> QED
      BY <1>1, <1>4, <1>6, <2>1, HonestStays
  <1>23. Closed'
    <2>1. closing' = "queued"
      BY DEF TailCloses, AppendClose
    <2> QED
      BY <1>9, <2>1 DEF Closed
  <1>24. UNCHANGED <<inbound, events, batch, ahead, window, streams, releases,
          credit, held, wanted, boundary, shut, readWait, aheadWait, emitted,
          reported, close, finished, openWait, work, woken, ends, shelved, retried,
          offers, offered, taken, sent, next, pump, step, back, call, polled,
          ending>>
    BY DEF TailCloses
  <1>25. SeqTypes' /\ CountTypes' /\ ConnFlags' /\ AdapterFlags' /\ TaskFlags' /\
         OfferTypes' /\ Account' /\ Order' /\ Seen' /\ Batches'
    BY <1>24, SeqTypesStays, CountTypesStays, ConnFlagsStays, AdapterFlagsStays,
       TaskFlagsStays, OfferTypesStays, AccountStays, OrderStays, SeenStays,
       BatchesStays
  <1> QED
    BY <1>10, <1>11, <1>12, <1>13, <1>14, <1>15, <1>16, <1>17, <1>18, <1>19, <1>20, <1>21,
       <1>22, <1>23, <1>25

\* The close record is written as far as the byte stream takes it.
LEMMA TailWritesKeeps ==
    ASSUME PumpInv, TailWrites
    PROVE  PumpInv'
  <1>1. /\ outbound' \in Seq(Unit) /\ wire' \in Seq(Unit) /\ written' \in Nat
        /\ space' \in 0..Ceiling /\ writeWait' \in BOOLEAN
        /\ Buffer'
        /\ \/ outbound' = <<>> /\ written' = 0 /\ writeWait' = writeWait
           \/ /\ outbound' = outbound /\ written' < Len(outbound)
              /\ writeWait' /\ space' = 0
    BY FlushMoves DEF TailWrites
  <1>2. Flushed <=> outbound' = <<>>
    BY <1>1 DEF Flushed, Buffer, Tidy, filled
  <1>3. Len(outbound) \in Nat /\ (outbound = <<>> => RoomForRecord)
    BY DEF OutTypes, RoomForRecord, filled
  <1>4. outbound' = <<>> => RoomForRecord' /\ ~(written' < Len(outbound'))
    BY <1>1 DEF RoomForRecord, filled
  <1>5. outbound' = outbound => RoomForRecord' = RoomForRecord
    BY DEF RoomForRecord, filled
  <1>6. OutTypes'
    BY <1>1 DEF OutTypes, TailWrites
  <1>7. OutFlags'
    BY <1>1, <1>2, <1>3, <1>4, <1>5 DEF OutFlags, TailWrites, FlushFails
  <1>8. NameTypes'
    <2>1. UNCHANGED <<terminal, ending, next, polled, message, call, pump>>
      BY DEF TailWrites
    <2>2. step' \in Steps
      BY DEF NameTypes, Steps, TailWrites
    <2> QED
      BY <2>1, <2>2 DEF NameTypes
  <1>9. Buffer'
    BY <1>1
  <1>10. Order'
    BY <1>2 DEF Order, InsidePump, TailWrites, FlushFails
  <1>11. Endings'
    BY <1>1, <1>2, <1>3, <1>4, <1>5 DEF Endings, TailWrites, FlushFails
  <1>12. TailOrder'
    BY <1>1, <1>2, <1>3, <1>4, <1>5 DEF TailOrder, TailWrites, FlushFails
  <1>13. Queued'
    BY <1>1, <1>2, <1>3, <1>4, <1>5 DEF Queued, filled, TailWrites, FlushFails
  <1>14. Full'
    BY <1>1, <1>2, <1>3, <1>4, <1>5 DEF Full, filled, TailWrites, FlushFails
  <1>15. Unwritten'
    BY <1>1, <1>2, <1>3, <1>4, <1>5 DEF Unwritten, filled, TailOrder, TailWrites,
       FlushFails
  <1>16. Unread'
    BY DEF Unread, Registered, TailWrites, FlushFails
  <1>17. Seen'
    BY <1>1, <1>2, <1>3, <1>4, <1>5 DEF Seen, TailWrites, FlushFails
  <1>18. Shelved'
    BY <1>1, <1>2, <1>3, <1>4, <1>5 DEF Shelved, Retry, Message, Moves, TailWrites,
       FlushFails
  <1>19. Finality'
    BY <1>1, <1>2, <1>3, <1>4, <1>5 DEF Finality, Units, TailWrites, FlushFails
  <1>20. Closed'
    BY <1>1, <1>2, <1>3, <1>4, <1>5 DEF Closed, Units, TailWrites, FlushFails
  <1>21. UNCHANGED <<inbound, events, batch, ahead, window, streams, releases,
          credit, held, wanted, boundary, shut, readWait, aheadWait, emitted,
          reported, close, finished, openWait, work, woken, ends, shelved, retried,
          offers, offered, taken, sent, next, made, message, call, ending>>
    BY DEF TailWrites
  <1>22. SeqTypes' /\ CountTypes' /\ ConnFlags' /\ AdapterFlags' /\ TaskFlags' /\
         OfferTypes' /\ Account' /\ OfferIsHonest' /\ Batches'
    BY <1>21, SeqTypesStays, CountTypesStays, ConnFlagsStays, AdapterFlagsStays,
       TaskFlagsStays, OfferTypesStays, AccountStays, OfferIsHonestStays, BatchesStays
  <1> QED
    BY <1>6, <1>7, <1>8, <1>9, <1>10, <1>11, <1>12, <1>13, <1>14, <1>15, <1>16, <1>17,
       <1>18, <1>19, <1>20, <1>22

\* The byte stream is shut down with nothing left in the buffer.
LEMMA TailShutsKeeps ==
    ASSUME PumpInv, TailShuts
    PROVE  PumpInv'
  <1>1. OutFlags'
    BY DEF OutFlags, TailShuts, FlushFails
  <1>2. AdapterFlags'
    <2>1. UNCHANGED <<emitted, reported, close, openWait>>
      BY DEF TailShuts
    <2>2. finished' \in BOOLEAN
      BY Zenon DEF AdapterFlags, TailShuts, FlushFails
    <2> QED
      BY <2>1, <2>2, Zenon DEF AdapterFlags
  <1>3. NameTypes'
    <2>1. UNCHANGED <<terminal, ending, next, polled, message, call, pump>>
      BY DEF TailShuts
    <2>2. step' \in Steps
      BY DEF NameTypes, Steps, TailShuts
    <2> QED
      BY <2>1, <2>2 DEF NameTypes
  <1>4. Order'
    BY DEF Order, InsidePump, TailShuts, FlushFails
  <1>5. Endings'
    BY DEF Endings, TailShuts, FlushFails
  <1>6. TailOrder'
    <2>1. /\ step = "drained" /\ call = "tail" /\ pump = "none"
          /\ terminal # "no" \/ close
          /\ control = <<>> /\ (closing = "no" => outbound = <<>>) /\ closing # "complete"
      BY DEF TailShuts, TailOrder, Order, InsidePump
    <2>2. /\ close => closing = "written" \/ (closing = "queued" /\ broken)
          /\ ~broken => closing' = "complete"
          /\ broken => closing' = closing
          /\ finished' = TRUE /\ step' = "done"
      BY DEF TailShuts, FlushFails
    <2>3. closing = "no" \/ outbound = <<>> \/ broken
      BY <2>1, <2>2 DEF TailOrder, OutFlags
    <2>4. closing' # "no" => terminal # "no"
      BY <2>1, <2>2 DEF TailOrder
    <2>5. UNCHANGED <<terminal, call, pump, close, outbound, control, broken>>
      BY DEF TailShuts
    <2>6. ~broken => outbound = <<>> /\ closing' = "complete"
      BY <2>1, <2>2, <2>3
    <2>7. closing' \in {"queued", "written"} => close /\ (closing' = "written" => outbound = <<>>)
      BY <2>2 DEF TailOrder
    <2> QED
      BY <2>1, <2>2, <2>4, <2>5, <2>6, <2>7 DEF TailOrder
  <1>7. Queued'
    BY DEF Queued, RoomForRecord, filled, TailShuts, FlushFails
  <1>8. Full'
    BY DEF Full, RoomForRecord, filled, TailShuts, FlushFails
  <1>9. Unwritten'
    BY DEF Unwritten, RoomForRecord, filled, TailShuts, FlushFails
  <1>10. Unread'
    BY DEF Unread, Registered, TailShuts, FlushFails
  <1>11. Seen'
    BY DEF Seen, TailShuts, FlushFails
  <1>12. Shelved'
    BY DEF Shelved, Retry, Message, Moves, TailShuts, FlushFails
  <1>13. Finality'
    BY DEF Finality, Units, TailShuts, FlushFails
  <1>14. Closed'
    BY DEF Closed, Units, TailShuts, FlushFails
  <1>15. UNCHANGED <<outbound, wire, made, control, written, space, inbound, events,
          batch, ahead, window, streams, releases, credit, held, wanted, boundary,
          shut, readWait, aheadWait, work, woken, ends, shelved, retried, offers,
          offered, taken, sent, next, message, call, emitted, ending, reported>>
    BY DEF TailShuts
  <1>16. OutTypes' /\ SeqTypes' /\ CountTypes' /\ ConnFlags' /\ TaskFlags' /\
         OfferTypes' /\ Buffer' /\ Account' /\ OfferIsHonest' /\ Batches'
    BY <1>15, OutTypesStays, SeqTypesStays, CountTypesStays, ConnFlagsStays,
       TaskFlagsStays, OfferTypesStays, BufferStays, AccountStays, OfferIsHonestStays,
       BatchesStays
  <1> QED
    BY <1>1, <1>2, <1>3, <1>4, <1>5, <1>6, <1>7, <1>8, <1>9, <1>10, <1>11, <1>12,
       <1>13, <1>14, <1>16

-----------------------------------------------------------------------------
(* From the initial states, over every step, to the properties.            *)

\* A connection that has just been made.
LEMMA InitHolds == Init => PumpInv
  <1> SUFFICES ASSUME Init PROVE PumpInv
    OBVIOUS
  <1>1. \A x : ~Contains(batch, x)
    BY DEF Init, Contains
  <1>2. made = <<>> /\ Len(made) = 0 /\ \A kind : Units(kind) = {}
    BY DEF Init, OutInit, Units
  <1>3. OutTypes
    BY DEF OutTypes, OutInit, Unit, UnitKinds, Frames, Init
  <1>4. OutFlags
    BY DEF OutFlags, OutInit, Init
  <1>5. SeqTypes
    BY DEF SeqTypes, Kinds, Visible, Batched, Init, Nothing
  <1>6. CountTypes
    BY DEF CountTypes, Init
  <1>7. ConnFlags
    BY DEF ConnFlags, Init
  <1>8. AdapterFlags
    BY DEF AdapterFlags, Init
  <1>9. TaskFlags
    BY DEF TaskFlags, Init
  <1>10. NameTypes
    BY DEF NameTypes, Calls, Steps, Init, Nothing, Visible
  <1>11. OfferTypes
    BY DEF OfferTypes, Init
  <1>12. Buffer
    BY DEF Buffer, WireIsMade, CeilingKept, Tidy, Unsent, filled, OutInit, Init
  <1>13. Account
    BY DEF Account, Init, Nothing, Visible
  <1>14. Order
    BY DEF Order, InsidePump, Init
  <1>15. Endings
    BY DEF Endings, Init
  <1>16. TailOrder
    BY DEF TailOrder, OutInit, Init
  <1>17. Queued
    BY DEF Queued, RoomForRecord, filled, OutInit, Init
  <1>18. Full
    BY DEF Full, RoomForRecord, filled, OutInit, Init
  <1>19. Unwritten
    BY DEF Unwritten, RoomForRecord, filled, OutInit, Init
  <1>20. Unread
    BY DEF Unread, Registered, Init
  <1>21. Seen
    BY DEF Seen, Init
  <1>22. Shelved
    BY DEF Shelved, Retry, Message, Moves, Init, Nothing, Visible
  <1>23. Finality
    BY <1>2 DEF Finality, Init
  <1>24. OfferIsHonest
    BY <1>2 DEF OfferIsHonest, Init
  <1>25. Batches
    BY <1>1 DEF Batches, EndingIsLast, Init
  <1>26. Closed
    BY <1>2 DEF Closed, OutInit, Init
  <1> QED
    BY <1>3, <1>4, <1>5, <1>6, <1>7, <1>8, <1>9, <1>10, <1>11, <1>12, <1>13, <1>14, <1>15, <1>16,
       <1>17, <1>18, <1>19, <1>20, <1>21, <1>22, <1>23, <1>24, <1>25, <1>26

\* What the peer, the byte stream and the application do.
LEMMA WorldKeeps ==
    ASSUME PumpInv, World
    PROVE  PumpInv'
  BY ArriveKeeps, DrainsKeeps, BreaksKeeps, AppReadsKeeps DEF World

\* The steps of a pump.
LEMMA PumpKeeps ==
    ASSUME PumpInv, Pump
    PROVE  PumpInv'
  BY PumpEndedKeeps, WriteMakesRoomKeeps, WriteProducesKeeps, WriteDoneKeeps,
     WriteFailsKeeps, ReadStopsKeeps, ReadPendingKeeps, ReadFailsKeeps, ReadSomeKeeps,
     PumpedKeeps DEF Pump

\* The steps of poll_event.
LEMMA EventKeeps ==
    ASSUME PumpInv, Event
    PROVE  PumpInv'
  BY EventEnterKeeps, ReleaseKeeps, FillTakesKeeps, FillPollsKeeps, FillPolledKeeps,
     FillEndsKeeps, EventPostponedKeeps, EventHandedKeeps, EventEndingKeeps,
     EventPendingKeeps DEF Event

\* The rest of a pass of the driver, and the park.
LEMMA DriverKeeps ==
    ASSUME PumpInv, Driver
    PROVE  PumpInv'
  BY ActKeeps, ShutdownKeeps, OpenEnterKeeps, OpenFailsKeeps, OpensKeeps, OpenedKeeps,
     OpenWaitsKeeps, TransmitEnterKeeps, DrainEndsKeeps, DrainOffersKeeps,
     OfferStopsKeeps, OfferRecordKeeps, OfferGoneKeeps, SettleKeeps, CloseKeeps,
     FlushEnterKeeps, ResumeKeeps DEF Driver

\* The tail.
LEMMA EndOfItKeeps ==
    ASSUME PumpInv, EndOfIt
    PROVE  PumpInv'
  BY TailEnterKeeps, TailDrainedKeeps, TailClosesKeeps, TailWritesKeeps,
     TailShutsKeeps DEF EndOfIt

\* A step that leaves everything alone.
LEMMA StutterKeeps ==
    ASSUME PumpInv, UNCHANGED vars
    PROVE  PumpInv'
  <1>1. UNCHANGED <<outbound, wire, made, control, written, space, closing,
         producePending, broken, writeWait, inbound, events, batch, ahead, window,
         streams, releases, credit, held, wanted, boundary, shut, readWait, aheadWait,
         emitted, reported, close, finished, openWait, work, woken, ends, shelved,
         retried, terminal, ending, next, polled, message, call, step, pump, offers,
         offered, taken, sent, back, scene>>
    BY DEF vars
  <1>2. OutTypes'
    BY <1>1, OutTypesStays
  <1>3. OutFlags'
    BY <1>1, OutFlagsStays
  <1>4. SeqTypes'
    BY <1>1, SeqTypesStays
  <1>5. CountTypes'
    BY <1>1, CountTypesStays
  <1>6. ConnFlags'
    BY <1>1, ConnFlagsStays
  <1>7. AdapterFlags'
    BY <1>1, AdapterFlagsStays
  <1>8. TaskFlags'
    BY <1>1, TaskFlagsStays
  <1>9. NameTypes'
    BY <1>1, NameTypesStays
  <1>10. OfferTypes'
    BY <1>1, OfferTypesStays
  <1>11. Buffer'
    BY <1>1, BufferStays
  <1>12. Account'
    BY <1>1, AccountStays
  <1>13. Order'
    BY <1>1, OrderStays
  <1>14. Endings'
    BY <1>1, EndingsStays
  <1>15. TailOrder'
    BY <1>1, TailOrderStays
  <1>16. Queued'
    BY <1>1, QueuedStays
  <1>17. Full'
    BY <1>1, FullStays
  <1>18. Unwritten'
    BY <1>1, UnwrittenStays
  <1>19. Unread'
    BY <1>1, UnreadStays
  <1>20. Seen'
    BY <1>1, SeenStays
  <1>21. Shelved'
    BY <1>1, ShelvedStays
  <1>22. Finality'
    BY <1>1, FinalityStays
  <1>23. OfferIsHonest'
    BY <1>1, OfferIsHonestStays
  <1>24. Batches'
    BY <1>1, BatchesStays
  <1>25. Closed'
    BY <1>1, ClosedStays
  <1> QED
    BY <1>2, <1>3, <1>4, <1>5, <1>6, <1>7, <1>8, <1>9, <1>10, <1>11, <1>12, <1>13, <1>14, <1>15,
       <1>16, <1>17, <1>18, <1>19, <1>20, <1>21, <1>22, <1>23, <1>24, <1>25

\* The inductive invariant: every layer of it holds from bind to the end of the tail,
\* whatever the peer, the byte stream and the application do between two steps of the
\* task.
THEOREM QmuxInvariant == Spec => []PumpInv
  <1>1. Init => PumpInv
    BY InitHolds
  <1>2. PumpInv /\ [Next]_vars => PumpInv'
    <2> SUFFICES ASSUME PumpInv, [Next]_vars PROVE PumpInv'
      OBVIOUS
    <2>1. CASE World
      BY <2>1, WorldKeeps
    <2>2. CASE Pump
      BY <2>2, PumpKeeps
    <2>3. CASE Event
      BY <2>3, EventKeeps
    <2>4. CASE Driver
      BY <2>4, DriverKeeps
    <2>5. CASE EndOfIt
      BY <2>5, EndOfItKeeps
    <2>6. CASE UNCHANGED vars
      BY <2>6, StutterKeeps
    <2>7. Rest => UNCHANGED vars
      BY DEF Rest
    <2> QED
      BY <2>1, <2>2, <2>3, <2>4, <2>5, <2>6, <2>7, Zenon DEF Next
  <1> QED
    BY <1>1, <1>2, PTL DEF Spec

\* Every variable keeps the values its field in Connection, Inner or Driver can have.
THEOREM QmuxTypes == Spec => []TypeOK
  <1>1. PumpInv => TypeOK
    <2> SUFFICES ASSUME PumpInv PROVE TypeOK
      OBVIOUS
    <2>1. written \in 0..filled /\ space \in 0..Ceiling
      BY DEF OutTypes, Buffer, Tidy, filled
    <2>2. sent \in 0..Total /\ taken \in 0..offered
      BY DEF OfferTypes
    <2> QED
      BY <2>1, <2>2 DEF TypeOK, OutFlags, CountTypes, NameTypes
  <1> QED
    BY <1>1, QmuxInvariant, PTL

\* However the byte stream stops a write, what it has taken and what Connection::outbound
\* still holds from the cursor on are together what was produced, and the buffer never
\* outgrows OUTBOUND_CEILING, for every record size and every ceiling that fits one.
THEOREM QmuxWireIsKept == Spec => []WireIsKept
  <1>1. PumpInv => WireIsKept
    BY DEF Buffer, WireIsKept
  <1> QED
    BY <1>1, QmuxInvariant, PTL

\* try_write_stream_vectored tells the layer above exactly the octets its records hold,
\* over any number of records, refusals and retries, and FIN is with the last octet.
THEOREM QmuxOfferIsHonest == Spec => []OfferIsHonest
  <1>1. PumpInv => OfferIsHonest
    OBVIOUS
  <1> QED
    BY <1>1, QmuxInvariant, PTL

\* A task that parks unwoken has left nothing it could still do: each thing that waits
\* waits for the peer, the byte stream or the application, and its waker is with them.
THEOREM QmuxNothingWaitsAtPark == Spec => []NothingWaitsAtPark
  <1>1. PumpInv => NothingWaitsAtPark
    <2> SUFFICES ASSUME PumpInv, step = "parked", ~woken PROVE NothingWaitsAtPark
      BY DEF NothingWaitsAtPark
    <2>1. /\ written < filled => writeWait /\ space = 0
          /\ control # <<>> => writeWait /\ ~RoomForRecord
      BY DEF Unwritten
    <2>2. pump = "none" /\ call \in {"bind", "open", "idle", "tail"}
      BY DEF Order, InsidePump
    <2>3. call # "tail" =>
            /\ credit = 0 /\ ending = "no"
            /\ inbound # <<>> => ahead >= Allowance /\ aheadWait
            /\ inbound = <<>> /\ ahead < Allowance => readWait
      BY DEF Seen, Endings, Unread, Registered, CountTypes
    <2>4. call = "idle" => events = <<>> /\ next = Nothing /\ releases = 0 /\ ~work
      BY DEF Seen
    <2>5. call = "idle" /\ shelved => window = 0 \/ writeWait
      BY <2>2, <2>3, <2>4 DEF Shelved, Retry
    <2>6. call \in {"bind", "open"} => streams = 0
      BY DEF Seen
    <2> QED
      BY <2>1, <2>2, <2>3, <2>4, <2>5, <2>6 DEF NothingWaitsAtPark
  <1> QED
    BY <1>1, QmuxInvariant, PTL

\* The ending is told after every event decoded before it and alone in its batch; the
\* close record is behind everything else that was produced, and a tail that finishes on
\* a byte stream that works has written all of it.
THEOREM QmuxEndsComeLast == Spec => []EndsComeLast
  <1>1. PumpInv => EndsComeLast
    <2> SUFFICES ASSUME PumpInv PROVE EndsComeLast
      OBVIOUS
    <2>1. EndingIsLast
      BY DEF Batches
    <2>2. Units("close") # {} => Units("close") = {Len(made)} /\ control = <<>>
      BY DEF Closed, TailOrder
    <2>3. ASSUME finished, ~broken
          PROVE  wire = made /\ control = <<>> /\ (close => Units("close") # {})
      <3>1. control = <<>> /\ outbound = <<>> /\ (close => closing = "complete")
        BY <2>3 DEF TailOrder
      <3>2. close => Units("close") # {}
        BY <3>1 DEF Closed
      <3>3. wire = made
        <4>1. Unsent = <<>>
          BY <3>1 DEF Unsent, filled, OutTypes
        <4> QED
          BY <4>1, ConcatEmptySeq DEF Buffer, WireIsMade, OutTypes
      <3> QED
        BY <3>1, <3>2, <3>3
    <2> QED
      BY <2>1, <2>2, <2>3 DEF EndsComeLast, CloseIsLast
  <1> QED
    BY <1>1, QmuxInvariant, PTL
=============================================================================
