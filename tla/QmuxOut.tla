------------------------------ MODULE QmuxOut ------------------------------
(***************************************************************************)
(* ngnet-qmux, the write half of io::Connection.  Records are serialised   *)
(* one after the other into the tail of one buffer, and the byte stream is *)
(* offered everything from the cursor on; it may stop anywhere, inside a   *)
(* record too.  What the peer has is compared with what was produced.      *)
(*                                                                         *)
(* The buffer holds units: a record's header, a control frame, a STREAM    *)
(* frame's header (with or without FIN) and one unit for each octet.       *)
(***************************************************************************)
EXTENDS Integers, Sequences, FiniteSets, SequencesExt

CONSTANTS
    MaxRecord,  \* MAX_RECORD: the largest record
    Ceiling,    \* OUTBOUND_CEILING: the most the buffer holds
    MaxControl  \* bound on the control frames dwnx has queued

ASSUME RecordAssumption == MaxRecord \in Nat /\ MaxRecord >= 3
ASSUME CeilingAssumption == Ceiling \in Nat /\ Ceiling >= MaxRecord

VARIABLES
    outbound,       \* Connection::outbound, as far as it is filled
    written,        \* Connection::written
    producePending, \* Connection::produce_pending
    closing,        \* Connection::closing
    control,        \* dwnx: the control frames it has queued
    space,          \* the byte stream: units it takes before it answers NotNow
    broken,         \* the byte stream fails from now on
    writeWait,      \* the byte stream holds the task's waker for writing
    wire,           \* what the byte stream has taken
    made            \* history: everything that was produced, in order

bufferVars == <<outbound, written, wire>>
outVars == <<bufferVars, producePending, closing, control, space, broken, writeWait, made>>

filled == Len(outbound)
Unsent == SubSeq(outbound, written + 1, filled)

OutInit ==
    /\ outbound = <<>> /\ written = 0
    /\ producePending = TRUE
    /\ closing = "no"
    /\ control = <<"params">>
    /\ space = 0 /\ broken = FALSE /\ writeWait = FALSE
    /\ wire = <<>> /\ made = <<>>

Lower(a, b) == IF a <= b THEN a ELSE b

-----------------------------------------------------------------------------
(* Room for a record.                                                      *)

\* room_for_record: the space in front of the cursor is not counted.
RoomForRecord == filled + MaxRecord <= Ceiling

\* A call that has begun is let through to the end.
RoomFor_Generous(remaining, continuing) ==
    IF continuing \/ Ceiling - filled >= MaxRecord THEN MaxRecord ELSE 0

\* room_for: how large a record may be, 0 for none.  The rest of an offer that has
\* begun may have the tail that is too short for a record of unknown size.
RoomFor(remaining, continuing) ==
    LET tail == Ceiling - filled
    IN IF tail >= MaxRecord THEN MaxRecord
       ELSE IF continuing /\ tail > remaining THEN tail ELSE 0

-----------------------------------------------------------------------------
(* dwnx, external: what goes into a record of at most room units.  Control *)
(* frames come first; a STREAM frame has its header and at least an octet, *)
(* or FIN; FIN goes with the last octet of what was offered.               *)

Header(kind) == <<kind, 0>>
Octets(from, k) == [i \in 1..k |-> <<"octet", from + i>>]

PackedControl(room) == SubSeq(control, 1, Lower(Len(control), room - 1))

PackedOctets(room, size, window) ==
    LET tail == room - 1 - Len(PackedControl(room))
    IN IF tail >= 2 THEN Lower(size, Lower(tail - 1, window)) ELSE 0

PackedFin(room, size, fin, window) ==
    /\ fin
    /\ PackedOctets(room, size, window) = size
    /\ size = 0 => room - 1 - Len(PackedControl(room)) >= 1

StreamFrame(room, from, size, fin, window) ==
    LET k == PackedOctets(room, size, window)
        last == PackedFin(room, size, fin, window)
    IN IF last THEN <<Header("fin")>> \o Octets(from, k)
       ELSE IF k > 0 THEN <<Header("stream")>> \o Octets(from, k)
       ELSE <<>>

\* An empty record is no octets at all.
Record(frames) == IF frames = <<>> THEN <<>> ELSE <<Header("record")>> \o frames

Controls(room) == [i \in 1..Len(PackedControl(room)) |-> Header(PackedControl(room)[i])]

-----------------------------------------------------------------------------
(* Producing and writing.                                                  *)

\* serialise: the record goes behind what is there already.
Serialise(room, frames) ==
    /\ outbound' = outbound \o Record(frames)
    /\ made' = made \o Record(frames)
    /\ control' = SubSeq(control, Len(PackedControl(room)) + 1, Len(control))

\* flush, while the byte stream works: what it takes moves the cursor, and only an
\* empty buffer is used again from its front.  A refusal leaves the waker with it.
Flush ==
    LET n == Lower(space, filled - written)
    IN /\ wire' = wire \o SubSeq(outbound, written + 1, written + n)
       /\ space' = space - n
       /\ IF written + n = filled
          THEN outbound' = <<>> /\ written' = 0 /\ UNCHANGED writeWait
          ELSE written' = written + n /\ writeWait' = TRUE /\ UNCHANGED outbound

\* A flush that has something to write to a byte stream that fails.
FlushFails == broken /\ written < filled

\* Flushed if everything is taken; the buffer is empty then.
Flushed == written' = Len(outbound')

\* The write side stops producing.
Producing == producePending /\ closing = "no"

\* One turn of write_side's loop that makes a record of what dwnx has queued; with
\* nothing queued the flag is put down.
ProduceControl ==
    /\ RoomForRecord
    /\ Producing
    /\ IF control = <<>>
       THEN producePending' = FALSE /\ UNCHANGED <<outbound, made, control>>
       ELSE Serialise(MaxRecord, Controls(MaxRecord)) /\ UNCHANGED producePending
    /\ UNCHANGED <<written, closing, space, broken, writeWait, wire>>

\* A frame dwnx queues because it was asked to; the next pass produces it.
Queue(frames) ==
    /\ Len(control) + Len(frames) <= MaxControl
    /\ control' = control \o frames
    /\ producePending' = TRUE

\* poll_close's close record, behind everything else.
AppendClose ==
    /\ outbound' = outbound \o Record(<<Header("close")>>)
    /\ made' = made \o Record(<<Header("close")>>)
    /\ closing' = "queued"

\* The byte stream takes more again, and says so.
Writable ==
    /\ space = 0
    /\ ~broken
    /\ space' \in {1, 2, Ceiling}
    /\ writeWait' = FALSE
    /\ UNCHANGED <<bufferVars, producePending, closing, control, broken, made>>

-----------------------------------------------------------------------------
(* Properties of the write half.                                           *)

\* However a write stops, inside a record too, what the peer has and what is still
\* to be sent are together what was produced: whole, in order and once.
WireIsMade == wire \o Unsent = made

\* The buffer never holds more than its ceiling, also while an offer is spread over
\* several records and its last one is given the tail that is left.
CeilingKept == filled <= Ceiling
=============================================================================
