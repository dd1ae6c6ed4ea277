---------------------------- MODULE QuicPumpProofs ----------------------------
(***************************************************************************)
(* The pump's safety, for every bound of its queues, batches and passes,   *)
(* and its send side as an instance of QuicSend.                           *)
(***************************************************************************)
EXTENDS QuicPump, QuicSendProofs, SequenceTheorems

-----------------------------------------------------------------------------
(* The inductive invariant                                                 *)

\* Which call is at which step, and what a call leaves behind: a pass that took
\* nothing has let go of emitted, and one that took the closure ends.
PassOrder ==
    /\ step \in {"produce more", "opened"} => call \in {"bind", "open"}
    /\ step = "settle" => call = "transmit"
    /\ step = "parked" => call \in {"bind", "open", "idle"}
    /\ call \in {"act", "over"} => step = "enter"
    /\ call \in {"bind", "open"} /\ step \notin {"produce more", "opened"} => wanted > 0
    /\ call = "events" => Len(batch) < Batch
    /\ call = "events" /\ batch # <<>> => emitted
    /\ call \in {"act", "open", "transmit"} /\ batch = <<>> => ~emitted
    /\ call \in {"bind", "idle"} => ~emitted /\ batch = <<>>
    /\ reported /\ call # "over" => \E i \in 1..Len(batch) : batch[i] = "closed"

\* A connection that has closed is neither waited for nor written to.
ClosedEnds ==
    closed => /\ step \notin {"settle", "parked", "produce more", "opened"}
              /\ call = "idle" => step \in {"collect", "go on"}

\* The task is registered before it reads, so what comes later wakes it.
ReadBehind ==
    /\ call \notin {"act", "over"} /\ step # "enter" /\ ~woken => connWait
    /\ step \in {"expire", "produce", "collect", "go on", "produce more", "opened", "settle",
                 "parked"} /\ ~closed /\ ~woken => inbound = <<>>
    /\ step \in {"go on", "produce more", "opened", "settle", "parked"} => observed = <<>>

\* A produce starts with its budget and ends for want of packets, for want of room,
\* where the registration is made with the look, or with its budget.
OwedWaits ==
    /\ step \in {"read", "expire"} => spent = 0
    /\ step = "go on" => spent < Budget /\ (call # "transmit" => spent = 0)
    /\ step \in {"produce", "produce more"} => spent < Budget
    /\ step \in {"collect", "go on", "settle", "parked"} /\ ~closed /\ ~woken =>
          owes = 0 \/ (capWait /\ ~Room) \/ cut

\* A stream set aside is offered again by the pass that an event, room, or ngtcp2's
\* own progress will start.
ShelvedWaits ==
    /\ call = "open" \/ (call = "transmit" /\ step \notin {"go on", "settle"}) => ~retried
    /\ call = "transmit" /\ step = "go on" /\ ~closed /\ ~woken /\ ~cut /\ Message =>
          (retried \/ spent # 0 => records # <<>>)
    /\ step = "settle" \/ call = "idle" =>
          (~closed /\ ~woken /\ shelved /\ Message =>
              left \in {"native", "behind"} \/ capWait \/ records # <<>>)
    /\ step = "parked" /\ call = "idle" /\ ~woken => records = <<>>

PumpInv ==
    /\ TypeOK /\ PassOrder /\ ClosedEnds /\ ReadBehind /\ OwedWaits /\ ShelvedWaits
    /\ DeadlineArmed /\ EndsStartABatch
-----------------------------------------------------------------------------
(* One lemma an action                                                     *)

\* Taking the raised limit out leaves a sequence.
LEMMA RecordedIsSeq ==
    ASSUME NEW seen \in Seq(Seen)
    PROVE  Recorded(seen) \in Seq(Seen)
  <1> DEFINE raised == {i \in DOMAIN seen : seen[i] = "limit"}
             limit == CHOOSE i \in raised : TRUE
  <1>1. CASE raised = {}
    BY <1>1 DEF Recorded
  <1>2. CASE raised # {}
    <2>1. limit \in 1..Len(seen) /\ Len(seen) \in Nat
      BY <1>2, LenProperties
    <2> HIDE DEF limit
    <2>2. limit - 1 \in Int /\ limit + 1 \in Int /\ 1 \in Int /\ Len(seen) \in Int
      BY <2>1
    <2>3. /\ \A i \in 1..(limit - 1) : seen[i] \in Seen
          /\ \A i \in (limit + 1)..Len(seen) : seen[i] \in Seen
      BY <2>1, ElementOfSeq
    <2>4. /\ SubSeq(seen, 1, limit - 1) \in Seq(Seen)
          /\ SubSeq(seen, limit + 1, Len(seen)) \in Seq(Seen)
      BY <2>2, <2>3, SubSeqProperties
    <2> QED
      BY <1>2, <2>4, ConcatProperties DEF Recorded, RemoveAt, limit
  <1> QED
    BY <1>1, <1>2

USE QueueAssumption
    DEF PumpInv, TypeOK, sharedVars, quicVars, adapterVars, driverVars, worldVars

\* A datagram routed in wakes the task that has registered, or finds the queue full.
LEMMA DeliverKeeps ==
    ASSUME NEW d \in Kinds, PumpInv, SendTypeOK', Deliver(d)
    PROVE  PumpInv'
  <1>a. (woken => woken') /\ (inbound' # inbound /\ connWait => woken')
    BY Zenon DEF Deliver
  <1>b. woken' \/ (UNCHANGED connWait) \/ ~connWait
    BY Zenon DEF Deliver
  <1>1. SeqTypes'
    <2> DEFINE longer == Append(inbound, d)
    <2>1. longer \in Seq(Kinds) /\ Len(longer) = Len(inbound) + 1
      BY AppendProperties DEF SeqTypes
    <2>2. Len(inbound) \in Nat
      BY LenProperties DEF SeqTypes
    <2>3. \/ Len(inbound) < Queue /\ inbound' = longer
          \/ UNCHANGED inbound
      BY <2>2 DEF Deliver
    <2> HIDE DEF longer
    <2>4. inbound' \in Seq(Kinds) /\ Len(inbound') <= Queue
      BY <2>1, <2>2, <2>3 DEF SeqTypes
    <2> QED
      BY <2>4 DEF SeqTypes, Deliver
  <1>2. CountTypes'
    BY DEF CountTypes, Deliver
  <1>3. FlagTypes'
    BY DEF FlagTypes, Deliver
  <1>4. ReadBehind'
    BY <1>a, <1>b DEF Deliver, ReadBehind, PassOrder, Calls, Steps
  <1>5. OwedWaits'
    BY DEF OwedWaits, Room, Deliver
  <1>6. ShelvedWaits'
    BY DEF ShelvedWaits, Message, Moves, Deliver, sendVars, layerVars
  <1>7. DeadlineArmed'
    BY DEF DeadlineArmed, Parked, Deliver
  <1>8. (call \in Calls /\ step \in Steps /\ heard \subseteq Kinds)' /\ PassOrder'
         /\ ClosedEnds' /\ EndsStartABatch'
    BY DEF Calls, Steps, Kinds, PassOrder, ClosedEnds, EndsStartABatch, EndsStream,
       Deliver
  <1> QED
    BY <1>1, <1>2, <1>3, <1>4, <1>5, <1>6, <1>7, <1>8

\* The endpoint takes a datagram: from full, whoever waits for room is woken.
LEMMA TakeOutboundKeeps ==
    ASSUME PumpInv, SendTypeOK', TakeOutbound
    PROVE  PumpInv'
  <1>a. (woken => woken') /\ (outbound = OutboundData /\ capWait => woken')
    BY Zenon DEF TakeOutbound
  <1>1. CountTypes'
    BY DEF CountTypes, TakeOutbound, OutboundData
  <1>2. FlagTypes'
    BY DEF FlagTypes, TakeOutbound, OutboundData
  <1>3. ReadBehind'
    BY DEF ReadBehind, ClosedEnds, TakeOutbound, OutboundData
  <1>4. OwedWaits'
    <2>1. outbound \in Nat /\ outbound <= OutboundData /\ OutboundData \in Nat \ {0}
      BY DEF CountTypes, OutboundData
    <2>2. /\ UNCHANGED <<step, call, owes, closed, spent, cut>>
          /\ (UNCHANGED capWait) \/ woken' \/ ~capWait
      BY <1>a DEF TakeOutbound
    <2>3. ~Room => outbound = OutboundData
      BY <2>1 DEF Room
    <2>4. step \in {"collect", "go on", "settle", "parked"} /\ ~closed /\ ~woken' =>
             owes = 0 \/ cut
      BY <1>a, <2>3 DEF OwedWaits
    <2> QED
      BY <2>2, <2>4 DEF OwedWaits
  <1>5. ShelvedWaits'
    BY DEF ShelvedWaits, Message, Moves, TakeOutbound, OutboundData, sendVars,
       layerVars
  <1>6. DeadlineArmed'
    BY DEF DeadlineArmed, Parked, TakeOutbound, OutboundData
  <1>7. (call \in Calls /\ step \in Steps /\ heard \subseteq Kinds)' /\ SeqTypes' /\
         PassOrder' /\ ClosedEnds' /\ EndsStartABatch'
    BY DEF Calls, Steps, Kinds, SeqTypes, PassOrder, ClosedEnds, EndsStartABatch,
       EndsStream, TakeOutbound
  <1> QED
    BY <1>1, <1>2, <1>3, <1>4, <1>5, <1>6, <1>7

\* Time passes: a sleep that is due wakes the task before its deadline is missed.
LEMMA TickKeeps ==
    ASSUME PumpInv, SendTypeOK', Tick
    PROVE  PumpInv'
  <1>a. (woken => woken') /\ (sleep # None /\ sleep = now + 1 => woken')
    BY Zenon DEF Tick
  <1>1. CountTypes'
    BY DEF CountTypes, Tick, None
  <1>2. FlagTypes'
    BY DEF FlagTypes, Tick, None
  <1>3. ReadBehind'
    BY DEF ReadBehind, ClosedEnds, Tick, None
  <1>4. OwedWaits'
    BY DEF OwedWaits, Room, Tick, None
  <1>5. ShelvedWaits'
    BY DEF ShelvedWaits, Message, Moves, Tick, None, sendVars, layerVars
  <1>6. DeadlineArmed'
    BY <1>a DEF DeadlineArmed, Parked, Tick, CountTypes
  <1>7. (call \in Calls /\ step \in Steps /\ heard \subseteq Kinds)' /\ SeqTypes' /\
         PassOrder' /\ ClosedEnds' /\ EndsStartABatch'
    BY DEF Calls, Steps, Kinds, SeqTypes, PassOrder, ClosedEnds, EndsStartABatch,
       EndsStream, Tick
  <1> QED
    BY <1>1, <1>2, <1>3, <1>4, <1>5, <1>6, <1>7

\* A pump begins by registering, before it reads.
LEMMA EnterKeeps ==
    ASSUME PumpInv, SendTypeOK', Enter
    PROVE  PumpInv'
  <1>1. (call \in Calls /\ step \in Steps /\ heard \subseteq Kinds)'
    BY DEF Calls, Steps, Kinds, Enter, Pumping
  <1>2. CountTypes'
    BY DEF CountTypes, Enter, Pumping
  <1>3. FlagTypes'
    BY DEF FlagTypes, Enter, Pumping
  <1>4. PassOrder'
    BY DEF PassOrder, Enter, Pumping
  <1>5. ClosedEnds'
    BY DEF ClosedEnds, PassOrder, Enter, Pumping
  <1>6. ReadBehind'
    BY DEF ReadBehind, ClosedEnds, Enter, Pumping
  <1>7. OwedWaits'
    BY DEF OwedWaits, Room, Enter, Pumping
  <1>8. ShelvedWaits'
    BY DEF ShelvedWaits, Message, Moves, Enter, Pumping, sendVars, layerVars
  <1>9. DeadlineArmed'
    BY DEF DeadlineArmed, Parked, Enter, Pumping
  <1>10. SeqTypes' /\ EndsStartABatch'
    BY DEF SeqTypes, EndsStartABatch, EndsStream, PassOrder, Enter
  <1> QED
    BY <1>1, <1>2, <1>3, <1>4, <1>5, <1>6, <1>7, <1>8, <1>9, <1>10

\* A datagram is read: only what ngtcp2 says of it changes.
LEMMA ReadOneKeeps ==
    ASSUME PumpInv, SendTypeOK', ReadOne
    PROVE  PumpInv'
  <1>1. (call \in Calls /\ step \in Steps /\ heard \subseteq Kinds)'
    BY DEF Calls, Steps, Kinds, ReadOne, Process, MoreOwed, MoveExpiry, Deadlines,
       Acked, Shut, layerVars
  <1>2. SeqTypes'
    <2>1. inbound \in Seq(Kinds) /\ inbound # <<>> /\ observed \in Seq(Seen)
      BY DEF SeqTypes, ReadOne
    <2>2. Head(inbound) \in Seen
      BY <2>1, HeadTailProperties DEF Seen
    <2>3. Append(observed, Head(inbound)) \in Seq(Seen)
      BY <2>1, <2>2, AppendProperties
    <2>4. observed' \in Seq(Seen)
      BY <2>1, <2>3 DEF ReadOne, Process
    <2>5. Tail(inbound) \in Seq(Kinds) /\ Len(Tail(inbound)) <= Queue
      BY <2>1, HeadTailProperties, LenProperties DEF SeqTypes
    <2> QED
      BY <2>4, <2>5 DEF SeqTypes, ReadOne
  <1>3. CountTypes'
    <2>1. owes' \in 0..MaxOwed /\ streams' \in Nat
      BY DEF CountTypes, ReadOne, Process, MoreOwed
    <2>2. expiry' \in 0..(MaxTime + 3)
      BY DEF CountTypes, ReadOne, Process, MoveExpiry, Deadlines, None
    <2> QED
      BY <2>1, <2>2 DEF CountTypes, ReadOne
  <1>4. ReadBehind'
    BY DEF ReadBehind, ClosedEnds, ReadOne, Process, MoreOwed, MoveExpiry, Deadlines,
       Acked, Shut, layerVars
  <1>5. OwedWaits'
    BY DEF OwedWaits, Room, ReadOne, Process, MoreOwed, MoveExpiry, Deadlines, Acked,
       Shut, layerVars
  <1>6. ShelvedWaits'
    BY DEF ShelvedWaits, Message, Moves, ReadOne, Process, MoreOwed, MoveExpiry,
       Deadlines, Acked, Shut, layerVars, sendVars
  <1>7. DeadlineArmed'
    BY DEF DeadlineArmed, Parked, ReadOne, Process, MoreOwed, MoveExpiry, Deadlines,
       Acked, Shut, layerVars
  <1>8. FlagTypes' /\ PassOrder' /\ ClosedEnds' /\ EndsStartABatch'
    BY DEF FlagTypes, PassOrder, ClosedEnds, EndsStartABatch, EndsStream, ReadOne
  <1> QED
    BY <1>1, <1>2, <1>3, <1>4, <1>5, <1>6, <1>7, <1>8

\* The peer has closed: the record goes in and nothing more is read.
LEMMA ReadCloseKeeps ==
    ASSUME PumpInv, SendTypeOK', ReadClose
    PROVE  PumpInv'
  <1>1. (call \in Calls /\ step \in Steps /\ heard \subseteq Kinds)'
    BY DEF Calls, Steps, Kinds, ReadClose
  <1>2. SeqTypes'
    <2>1. Append(records, "closed") \in Seq(Records)
      BY AppendProperties DEF SeqTypes, Records
    <2>2. Tail(inbound) \in Seq(Kinds) /\ Len(Tail(inbound)) <= Queue
      BY HeadTailProperties, LenProperties DEF SeqTypes, ReadClose
    <2> QED
      BY <2>1, <2>2 DEF SeqTypes, ReadClose
  <1>3. FlagTypes'
    BY DEF FlagTypes, ReadClose
  <1>4. PassOrder'
    BY DEF PassOrder, ReadClose
  <1>5. ClosedEnds'
    BY DEF ClosedEnds, PassOrder, ReadClose
  <1>6. ReadBehind'
    BY DEF ReadBehind, ClosedEnds, ReadClose
  <1>7. OwedWaits'
    BY DEF OwedWaits, Room, ReadClose
  <1>8. ShelvedWaits'
    BY DEF ShelvedWaits, Message, Moves, ReadClose, sendVars, layerVars
  <1>9. DeadlineArmed'
    BY DEF DeadlineArmed, Parked, ReadClose
  <1>10. CountTypes' /\ EndsStartABatch'
    BY DEF CountTypes, EndsStartABatch, EndsStream, PassOrder, ReadClose
  <1> QED
    BY <1>1, <1>2, <1>3, <1>4, <1>5, <1>6, <1>7, <1>8, <1>9, <1>10

\* A datagram ngtcp2 rejects ends the driver.
LEMMA ReadErrorKeeps ==
    ASSUME PumpInv, SendTypeOK', ReadError
    PROVE  PumpInv'
  <1>1. (call \in Calls /\ step \in Steps /\ heard \subseteq Kinds)'
    BY DEF Calls, Steps, Kinds, ReadError, End
  <1>2. SeqTypes'
    <2>1. Append(records, "closed") \in Seq(Records)
      BY AppendProperties DEF SeqTypes, Records
    <2>2. Tail(inbound) \in Seq(Kinds) /\ Len(Tail(inbound)) <= Queue
      BY HeadTailProperties, LenProperties DEF SeqTypes, ReadError
    <2> QED
      BY <2>1, <2>2 DEF SeqTypes, ReadError
  <1>3. FlagTypes'
    BY DEF FlagTypes, ReadError, End
  <1>4. PassOrder'
    BY DEF PassOrder, ReadError, End
  <1>5. ClosedEnds'
    BY DEF ClosedEnds, PassOrder, ReadError, End
  <1>6. ReadBehind'
    BY DEF ReadBehind, ClosedEnds, ReadError, End
  <1>7. OwedWaits'
    BY DEF OwedWaits, Room, ReadError, End
  <1>8. ShelvedWaits'
    BY DEF ShelvedWaits, Message, Moves, ReadError, End, sendVars, layerVars
  <1>9. DeadlineArmed'
    BY DEF DeadlineArmed, Parked, ReadError, End
  <1>10. CountTypes' /\ EndsStartABatch'
    BY DEF CountTypes, EndsStartABatch, EndsStream, PassOrder, ReadError
  <1> QED
    BY <1>1, <1>2, <1>3, <1>4, <1>5, <1>6, <1>7, <1>8, <1>9, <1>10

\* The queue is empty while the task is registered: what comes now wakes it.
LEMMA ReadDoneKeeps ==
    ASSUME PumpInv, SendTypeOK', ReadDone
    PROVE  PumpInv'
  <1>1. (call \in Calls /\ step \in Steps /\ heard \subseteq Kinds)'
    BY DEF Calls, Steps, Kinds, ReadDone, Expired, None
  <1>2. PassOrder'
    BY DEF PassOrder, ReadDone, Expired, None
  <1>3. ClosedEnds'
    BY DEF ClosedEnds, PassOrder, ReadDone, Expired, None
  <1>4. ReadBehind'
    BY DEF ReadBehind, ClosedEnds, ReadDone, Expired, None
  <1>5. OwedWaits'
    BY DEF OwedWaits, ReadDone, CountTypes, Room
  <1>6. ShelvedWaits'
    BY DEF ShelvedWaits, Message, Moves, ReadDone, Expired, None, sendVars, layerVars
  <1>7. DeadlineArmed'
    BY DEF DeadlineArmed, Parked, ReadDone, Expired, None
  <1>8. SeqTypes' /\ CountTypes' /\ FlagTypes' /\ EndsStartABatch'
    BY DEF SeqTypes, CountTypes, FlagTypes, EndsStartABatch, EndsStream, PassOrder,
       ReadDone
  <1> QED
    BY <1>1, <1>2, <1>3, <1>4, <1>5, <1>6, <1>7, <1>8

\* ngtcp2 is done with the stream: seen while a pump reads, and collected behind it.
LEMMA StreamDoneKeeps ==
    ASSUME PumpInv, SendTypeOK', StreamDone
    PROVE  PumpInv'
  <1>1. ShelvedWaits'
    BY DEF ShelvedWaits, Message, Moves, StreamDone, Closed, layerVars, sendVars
  <1>2. SeqTypes'
    <2>1. Append(observed, "done") \in Seq(Seen)
      BY AppendProperties DEF SeqTypes, Seen
    <2> QED
      BY <2>1 DEF SeqTypes, StreamDone
  <1>3. (call \in Calls /\ step \in Steps /\ heard \subseteq Kinds)' /\ CountTypes' /\
         FlagTypes' /\ PassOrder' /\ ClosedEnds' /\ ReadBehind' /\ OwedWaits' /\
         DeadlineArmed' /\ EndsStartABatch'
    BY DEF Calls, Steps, Kinds, CountTypes, FlagTypes, PassOrder, ClosedEnds,
       ReadBehind, OwedWaits, Room, DeadlineArmed, Parked, EndsStartABatch, EndsStream,
       StreamDone
  <1> QED
    BY <1>1, <1>2, <1>3

\* A deadline handled leaves at most one more packet to produce.
LEMMA ExpireHandledKeeps ==
    ASSUME PumpInv, SendTypeOK', ExpireHandled
    PROVE  PumpInv'
  <1>1. (call \in Calls /\ step \in Steps /\ heard \subseteq Kinds)'
    BY DEF Calls, Steps, Kinds, ExpireHandled, MoreOwed, Deadlines
  <1>2. CountTypes'
    <2>1. owes' \in 0..MaxOwed
      BY DEF CountTypes, ExpireHandled, MoreOwed
    <2>2. expiry' \in 0..(MaxTime + 3)
      BY DEF CountTypes, ExpireHandled, Deadlines, None
    <2> QED
      BY <2>1, <2>2 DEF CountTypes, ExpireHandled
  <1>3. PassOrder'
    BY DEF PassOrder, ExpireHandled, MoreOwed, Deadlines
  <1>4. ClosedEnds'
    BY DEF ClosedEnds, PassOrder, ExpireHandled, MoreOwed, Deadlines
  <1>5. ReadBehind'
    BY DEF ReadBehind, ClosedEnds, ExpireHandled, MoreOwed, Deadlines
  <1>6. OwedWaits'
    BY DEF OwedWaits, ExpireHandled, CountTypes, MoreOwed, Room
  <1>7. ShelvedWaits'
    BY DEF ShelvedWaits, Message, Moves, ExpireHandled, MoreOwed, Deadlines, sendVars,
       layerVars
  <1>8. DeadlineArmed'
    BY DEF DeadlineArmed, Parked, ExpireHandled, MoreOwed, Deadlines
  <1>9. SeqTypes' /\ FlagTypes' /\ EndsStartABatch'
    BY DEF SeqTypes, FlagTypes, EndsStartABatch, EndsStream, PassOrder, ExpireHandled
  <1> QED
    BY <1>1, <1>2, <1>3, <1>4, <1>5, <1>6, <1>7, <1>8, <1>9

\* The idle timeout closes the connection.
LEMMA ExpireEndsKeeps ==
    ASSUME PumpInv, SendTypeOK', ExpireEnds
    PROVE  PumpInv'
  <1>1. (call \in Calls /\ step \in Steps /\ heard \subseteq Kinds)'
    BY DEF Calls, Steps, Kinds, ExpireEnds
  <1>2. SeqTypes'
    <2>1. Append(records, "closed") \in Seq(Records)
      BY AppendProperties DEF SeqTypes, Records
    <2> QED
      BY <2>1 DEF SeqTypes, ExpireEnds
  <1>3. FlagTypes'
    BY DEF FlagTypes, ExpireEnds
  <1>4. PassOrder'
    BY DEF PassOrder, ExpireEnds
  <1>5. ClosedEnds'
    BY DEF ClosedEnds, PassOrder, ExpireEnds
  <1>6. ReadBehind'
    BY DEF ReadBehind, ClosedEnds, ExpireEnds
  <1>7. OwedWaits'
    BY DEF OwedWaits, Room, ExpireEnds
  <1>8. ShelvedWaits'
    BY DEF ShelvedWaits, Message, Moves, ExpireEnds, sendVars, layerVars
  <1>9. DeadlineArmed'
    BY DEF DeadlineArmed, Parked, ExpireEnds
  <1>10. CountTypes' /\ EndsStartABatch'
    BY DEF CountTypes, EndsStartABatch, EndsStream, PassOrder, ExpireEnds
  <1> QED
    BY <1>1, <1>2, <1>3, <1>4, <1>5, <1>6, <1>7, <1>8, <1>9, <1>10

\* No room: the registration is made with the look.
LEMMA ProduceWaitsKeeps ==
    ASSUME PumpInv, SendTypeOK', ProduceWaits
    PROVE  PumpInv'
  <1>1. (call \in Calls /\ step \in Steps /\ heard \subseteq Kinds)'
    BY DEF Calls, Steps, Kinds, ProduceWaits, Producing, Produced, Room
  <1>2. FlagTypes'
    BY DEF FlagTypes, ProduceWaits, Producing, Produced, Room
  <1>3. PassOrder'
    BY DEF PassOrder, ProduceWaits, Producing, Produced, Room
  <1>4. ClosedEnds'
    BY DEF ClosedEnds, PassOrder, ProduceWaits, Producing, Produced, Room
  <1>5. ReadBehind'
    BY DEF ReadBehind, ClosedEnds, ProduceWaits, Producing, Produced, Room
  <1>6. OwedWaits'
    BY DEF OwedWaits, Room, ProduceWaits, Producing, Produced
  <1>7. ShelvedWaits'
    BY DEF ShelvedWaits, Message, Moves, ProduceWaits, Producing, Produced, Room,
       sendVars, layerVars
  <1>8. DeadlineArmed'
    BY DEF DeadlineArmed, Parked, ProduceWaits, Producing, Produced, Room
  <1>9. SeqTypes' /\ CountTypes' /\ EndsStartABatch'
    BY DEF SeqTypes, CountTypes, EndsStartABatch, EndsStream, PassOrder, ProduceWaits
  <1> QED
    BY <1>1, <1>2, <1>3, <1>4, <1>5, <1>6, <1>7, <1>8, <1>9

\* One packet: at the budget the produce ends, and the cut is remembered.
LEMMA ProduceOneKeeps ==
    ASSUME PumpInv, SendTypeOK', ProduceOne
    PROVE  PumpInv'
  <1>a. step \in {"produce", "produce more"}
    BY DEF ProduceOne, Producing
  <1>e. spent \in Nat /\ owes \in Nat /\ owes > 0 /\ spent < Budget
    <2>1. spent \in Nat /\ owes \in Nat /\ owes > 0
      BY DEF CountTypes, ProduceOne
    <2>2. spent < Budget
      BY <1>a DEF OwedWaits
    <2> QED
      BY <2>1, <2>2
  <1>b. /\ spent' = spent + 1 /\ owes' = owes - 1
        /\ cut' = (spent + 1 = Budget)
        /\ step' = IF cut' THEN Produced ELSE step
    BY DEF ProduceOne
  <1>c. ~cut' => step' = step /\ spent' < Budget
    <2>1. spent + 1 # Budget => spent + 1 < Budget
      BY <1>e
    <2> QED
      BY <1>b, <2>1
  <1>d. cut' => step' \in {"collect", "opened"}
    BY <1>a, <1>b DEF Produced
  <1>1. (call \in Calls /\ step \in Steps /\ heard \subseteq Kinds)'
    BY DEF Calls, Steps, Kinds, ProduceOne, Producing, Produced, Room, MoveExpiry,
       Deadlines
  <1>2. CountTypes'
    <2>1. outbound' \in 0..OutboundData
      BY DEF CountTypes, ProduceOne, Room, OutboundData
    <2>3. owes' \in 0..MaxOwed /\ spent' \in 0..Budget
      <3>1. owes \in 0..MaxOwed
        BY DEF CountTypes
      <3>2. owes' = owes - 1 /\ spent' = spent + 1
        BY <1>b
      <3> QED
        BY <1>e, <3>1, <3>2
    <2>2. expiry' \in 0..(MaxTime + 3)
      BY DEF CountTypes, ProduceOne, MoveExpiry, Deadlines, None
    <2> QED
      BY <2>1, <2>2, <2>3 DEF CountTypes, ProduceOne
  <1>3. PassOrder'
    BY DEF PassOrder, ProduceOne, Producing, Produced, Room, MoveExpiry, Deadlines
  <1>4. ClosedEnds'
    BY DEF ClosedEnds, PassOrder, ProduceOne, Producing, Produced, Room, MoveExpiry,
       Deadlines
  <1>5. ReadBehind'
    BY DEF ReadBehind, ClosedEnds, ProduceOne, Producing, Produced, Room, MoveExpiry,
       Deadlines
  <1>6. OwedWaits'
    BY <1>a, <1>c, <1>d DEF OwedWaits
  <1>7. ShelvedWaits'
    BY DEF ShelvedWaits, Message, Moves, ProduceOne, Producing, Produced, Room,
       MoveExpiry, Deadlines, sendVars, layerVars
  <1>8. DeadlineArmed'
    BY DEF DeadlineArmed, Parked, ProduceOne, Producing, Produced, Room, MoveExpiry,
       Deadlines
  <1>9. FlagTypes'
    <2>1. cut' \in BOOLEAN
      BY <1>b
    <2> QED
      BY <2>1 DEF FlagTypes, ProduceOne
  <1>10. SeqTypes' /\ EndsStartABatch'
    BY DEF SeqTypes, EndsStartABatch, EndsStream, PassOrder, ProduceOne
  <1> QED
    BY <1>1, <1>2, <1>3, <1>4, <1>5, <1>6, <1>7, <1>8, <1>9, <1>10

\* Nothing is owed any more.
LEMMA ProduceDoneKeeps ==
    ASSUME PumpInv, SendTypeOK', ProduceDone
    PROVE  PumpInv'
  <1>1. (call \in Calls /\ step \in Steps /\ heard \subseteq Kinds)'
    BY DEF Calls, Steps, Kinds, ProduceDone, Producing, Produced, Room
  <1>2. PassOrder'
    BY DEF PassOrder, ProduceDone, Producing, Produced, Room
  <1>3. ClosedEnds'
    BY DEF ClosedEnds, PassOrder, ProduceDone, Producing, Produced, Room
  <1>4. ReadBehind'
    BY DEF ReadBehind, ClosedEnds, ProduceDone, Producing, Produced, Room
  <1>5. OwedWaits'
    BY DEF OwedWaits, Room, ProduceDone, Producing, Produced
  <1>6. ShelvedWaits'
    BY DEF ShelvedWaits, Message, Moves, ProduceDone, Producing, Produced, Room,
       sendVars, layerVars
  <1>7. DeadlineArmed'
    BY DEF DeadlineArmed, Parked, ProduceDone, Producing, Produced, Room
  <1>8. CountTypes'
    <2>1. expiry' \in 0..(MaxTime + 3)
      BY DEF CountTypes, ProduceDone, MoveExpiry, Deadlines, None
    <2> QED
      BY <2>1 DEF CountTypes, ProduceDone
  <1>9. SeqTypes' /\ FlagTypes' /\ EndsStartABatch'
    BY DEF SeqTypes, FlagTypes, EndsStartABatch, EndsStream, PassOrder, ProduceDone
  <1> QED
    BY <1>1, <1>2, <1>3, <1>4, <1>5, <1>6, <1>7, <1>8, <1>9

\* A packet that cannot be written ends the driver.
LEMMA ProduceFailsKeeps ==
    ASSUME PumpInv, SendTypeOK', ProduceFails
    PROVE  PumpInv'
  <1>1. (call \in Calls /\ step \in Steps /\ heard \subseteq Kinds)'
    BY DEF Calls, Steps, Kinds, ProduceFails, Producing, End
  <1>2. FlagTypes'
    BY DEF FlagTypes, ProduceFails, Producing, End
  <1>3. PassOrder'
    BY DEF PassOrder, ProduceFails, Producing, End
  <1>4. ClosedEnds'
    BY DEF ClosedEnds, PassOrder, ProduceFails, Producing, End
  <1>5. ReadBehind'
    BY DEF ReadBehind, ClosedEnds, ProduceFails, Producing, End
  <1>6. OwedWaits'
    BY DEF OwedWaits, Room, ProduceFails, Producing, End
  <1>7. ShelvedWaits'
    BY DEF ShelvedWaits, Message, Moves, ProduceFails, Producing, End, sendVars,
       layerVars
  <1>8. DeadlineArmed'
    BY DEF DeadlineArmed, Parked, ProduceFails, Producing, End
  <1>9. SeqTypes' /\ CountTypes' /\ EndsStartABatch'
    BY DEF SeqTypes, CountTypes, EndsStartABatch, EndsStream, PassOrder, ProduceFails
  <1> QED
    BY <1>1, <1>2, <1>3, <1>4, <1>5, <1>6, <1>7, <1>8, <1>9

\* What the handlers saw becomes records, behind those that wait.
LEMMA CollectKeeps ==
    ASSUME PumpInv, SendTypeOK', Collect
    PROVE  PumpInv'
  <1>a. Recorded(observed) \in Seq(Records)
    BY RecordedIsSeq, SeqMonotonic DEF SeqTypes, Records
  <1>b. /\ records \o Recorded(observed) \in Seq(Records)
        /\ records # <<>> => records \o Recorded(observed) # <<>>
    BY <1>a, ConcatProperties, ConcatEqualIffEmpty DEF SeqTypes
  <1>1. (call \in Calls /\ step \in Steps /\ heard \subseteq Kinds)'
    BY DEF Calls, Steps, Kinds, Collect, Pumping
  <1>2. SeqTypes'
    BY <1>b, EmptySeq DEF SeqTypes, Collect
  <1>3. CountTypes'
    <2>1. /\ spent' = 0
          /\ UNCHANGED <<outbound, total, owes, streams, wanted, now, at, expiry, sleep>>
      BY DEF Collect
    <2> QED
      BY <2>1 DEF CountTypes
  <1>4. PassOrder'
    BY DEF PassOrder, Collect, Pumping
  <1>5. ClosedEnds'
    BY DEF ClosedEnds, PassOrder, Collect, Pumping
  <1>6. ReadBehind'
    BY DEF ReadBehind, ClosedEnds, Collect, Pumping
  <1>7. OwedWaits'
    <2>1. 0 < Budget
      OBVIOUS
    <2> QED
      BY <2>1, Zenon DEF OwedWaits, Room, Collect, Pumping
  <1>8. ShelvedWaits'
    <2>1. records # <<>> => records' # <<>>
      BY <1>b DEF Collect
    <2>2. /\ UNCHANGED <<call, retried, closed, woken, shelved, left, cut, capWait>>
          /\ Message' = Message
      BY DEF Collect, sendVars, layerVars, Message, Moves
    <2>3. step = "collect" /\ step' = "go on" /\ spent' = 0
      BY Zenon DEF Collect
    <2> QED
      BY <2>1, <2>2, <2>3 DEF ShelvedWaits
  <1>9. DeadlineArmed'
    BY DEF DeadlineArmed, Parked, Collect, Pumping
  <1>10. FlagTypes' /\ EndsStartABatch'
    BY DEF FlagTypes, EndsStartABatch, EndsStream, PassOrder, Collect
  <1> QED
    BY <1>1, <1>2, <1>3, <1>4, <1>5, <1>6, <1>7, <1>8, <1>9, <1>10

\* The end of a stream waits, and the task is woken for it.
LEMMA PollPostponesKeeps ==
    ASSUME PumpInv, SendTypeOK', PollPostpones
    PROVE  PumpInv'
  <1>1. (call \in Calls /\ step \in Steps /\ heard \subseteq Kinds)'
    BY DEF Calls, Steps, Kinds, PollPostpones, InEvent, Postpone, Pending
  <1>2. FlagTypes'
    BY DEF FlagTypes, PollPostpones, InEvent, Postpone, Pending
  <1>3. PassOrder'
    BY DEF PassOrder, PollPostpones, InEvent, Postpone, Pending
  <1>4. ClosedEnds'
    BY DEF ClosedEnds, PassOrder, PollPostpones, InEvent, Postpone, Pending
  <1>5. ReadBehind'
    BY DEF ReadBehind, ClosedEnds, PollPostpones, InEvent, Postpone, Pending
  <1>6. OwedWaits'
    BY DEF OwedWaits, Room, PollPostpones, InEvent, Postpone, Pending
  <1>7. ShelvedWaits'
    BY DEF ShelvedWaits, Message, Moves, PollPostpones, InEvent, Postpone, Pending,
       sendVars, layerVars
  <1>8. DeadlineArmed'
    BY DEF DeadlineArmed, Parked, PollPostpones, InEvent, Postpone, Pending
  <1>9. SeqTypes' /\ CountTypes' /\ EndsStartABatch'
    BY DEF SeqTypes, CountTypes, EndsStartABatch, EndsStream, PassOrder, PollPostpones
  <1> QED
    BY <1>1, <1>2, <1>3, <1>4, <1>5, <1>6, <1>7, <1>8, <1>9

\* An event is taken: an end only as the first of its batch.
LEMMA PollEmitsKeeps ==
    ASSUME PumpInv, SendTypeOK', PollEmits
    PROVE  PumpInv'
  <1>a. /\ Head(records) \in Records /\ Tail(records) \in Seq(Records)
        /\ call \in {"events", "idle"} /\ step = "go on"
    BY HeadTailProperties DEF PollEmits, InEvent, SeqTypes
  <1>b. batch' = Append(batch, Head(records))
    <2>1. call = "idle" => batch = <<>>
      BY DEF PassOrder
    <2>2. Append(<<>>, Head(records)) = <<Head(records)>>
      OBVIOUS
    <2> QED
      BY <1>a, <2>1, <2>2 DEF PollEmits
  <1>c. /\ batch' \in Seq(Records) /\ Len(batch') = Len(batch) + 1 /\ Len(batch) \in Nat
        /\ \A i \in 1..Len(batch) : batch'[i] = batch[i]
        /\ batch'[Len(batch) + 1] = Head(records)
    <2>1. batch \in Seq(Records) /\ Len(batch) \in Nat
      BY LenProperties DEF SeqTypes
    <2> DEFINE first == Head(records)
               longer == Append(batch, first)
    <2>2. first \in Records /\ batch' = longer /\ first = Head(records)
      BY <1>a, <1>b
    <2> HIDE DEF first
    <2>3. /\ longer \in Seq(Records) /\ Len(longer) = Len(batch) + 1
          /\ \A i \in 1..Len(batch) : longer[i] = batch[i]
          /\ longer[Len(batch) + 1] = first
      BY <2>1, <2>2, AppendProperties
    <2> HIDE DEF longer
    <2> QED
      BY <2>1, <2>2, <2>3
  <1>d. /\ emitted' = TRUE /\ step' = "enter" /\ call' \in {"events", "act"}
        /\ call' = "events" => Len(batch') < Batch
    BY DEF PollEmits
  <1>e. Len(batch) < Batch
    <2>1. Len(<<>>) = 0 /\ 0 < Batch
      BY EmptySeq
    <2> QED
      BY <1>a, <2>1 DEF PassOrder
  <1>1. (call \in Calls /\ step \in Steps /\ heard \subseteq Kinds)'
    BY DEF Calls, Steps, Kinds, PollEmits, InEvent, Postpone, EndsStream
  <1>2. SeqTypes'
    <2>1. Len(batch') <= Batch
      BY <1>c, <1>e
    <2>2. records' = Tail(records) /\ UNCHANGED <<inbound, observed>>
      BY DEF PollEmits
    <2> QED
      BY <1>a, <1>c, <2>1, <2>2 DEF SeqTypes
  <1>3. FlagTypes'
    BY DEF FlagTypes, PollEmits, InEvent, Postpone, EndsStream
  <1>4. PassOrder'
    <2>1. batch' # <<>>
      BY <1>c, EmptySeq
    <2>2. reported' => \E i \in 1..Len(batch') : batch'[i] = "closed"
      <3>1. CASE Head(records) = "closed"
        BY <3>1, <1>c
      <3>2. CASE Head(records) # "closed"
        <4>1. reported' => reported
          BY <3>2, Zenon DEF PollEmits
        <4>2. reported => \E i \in 1..Len(batch) : batch[i] = "closed"
          BY <1>a DEF PassOrder
        <4> QED
          BY <4>1, <4>2, <1>c
      <3> QED
        BY <3>1, <3>2
    <2> QED
      BY <1>c, <1>d, <2>1, <2>2 DEF PassOrder
  <1>5. ClosedEnds'
    BY DEF ClosedEnds, PassOrder, PollEmits, InEvent, Postpone, EndsStream
  <1>6. ReadBehind'
    BY DEF ReadBehind, ClosedEnds, PollEmits, InEvent, Postpone, EndsStream
  <1>7. OwedWaits'
    BY DEF OwedWaits, Room, PollEmits, InEvent, Postpone, EndsStream
  <1>8. ShelvedWaits'
    BY DEF ShelvedWaits, Message, Moves, PollEmits, InEvent, Postpone, EndsStream,
       sendVars, layerVars
  <1>9. DeadlineArmed'
    BY DEF DeadlineArmed, Parked, PollEmits, InEvent, Postpone, EndsStream
  <1>10. EndsStartABatch'
    <2>1. EndsStream(Head(records)) => Len(batch) = 0
      BY <1>a, EmptySeq DEF PollEmits, Postpone, PassOrder
    <2>2. DOMAIN batch' = 1..(Len(batch) + 1) /\ DOMAIN batch = 1..Len(batch)
      BY <1>c, LenProperties DEF SeqTypes
    <2> QED
      BY <2>1, <2>2, <1>c DEF EndsStartABatch, EndsStream
  <1>11. CountTypes'
    BY DEF CountTypes, PollEmits
  <1> QED
    BY <1>1, <1>2, <1>3, <1>4, <1>5, <1>6, <1>7, <1>8, <1>9, <1>10, <1>11

\* Nothing to report: the deadline is armed, or the task is woken at once.
LEMMA PollParksKeeps ==
    ASSUME PumpInv, SendTypeOK', PollParks
    PROVE  PumpInv'
  <1>a. (woken => woken') /\ (Ready => woken') /\ sleep' = Armed
    BY Zenon DEF PollParks, PollTimer
  <1>b. call = "idle" => ~closed
    <2>1. call = "idle" => 1..Len(batch) = {}
      <3>1. 1..Len(<<>>) = {}
        BY EmptySeq
      <3> QED
        BY <3>1 DEF PassOrder
    <2>2. call = "idle" /\ reported => \E i \in 1..Len(batch) : TRUE
      BY DEF PassOrder
    <2> QED
      BY <2>1, <2>2 DEF PollParks
  <1>1. (call \in Calls /\ step \in Steps /\ heard \subseteq Kinds)'
    BY DEF Calls, Steps, Kinds, PollParks, InEvent, PollTimer, Pending, Armed, Ready,
       Earlier, None
  <1>2. CountTypes'
    BY <1>a DEF CountTypes, PollParks, Armed, None
  <1>3. FlagTypes'
    BY DEF FlagTypes, PollParks, InEvent, PollTimer, Pending, Armed, Ready, Earlier,
       None
  <1>4. PassOrder'
    BY DEF PassOrder, PollParks, InEvent, PollTimer, Pending, Armed, Ready, Earlier,
       None
  <1>5. ClosedEnds'
    BY <1>b DEF ClosedEnds, PollParks, Pending, InEvent
  <1>6. ReadBehind'
    BY DEF ReadBehind, ClosedEnds, PollParks, InEvent, PollTimer, Pending, Armed,
       Ready, Earlier, None
  <1>7. OwedWaits'
    BY DEF OwedWaits, Room, PollParks, InEvent, PollTimer, Pending, Armed, Ready,
       Earlier, None
  <1>8. ShelvedWaits'
    BY DEF ShelvedWaits, Message, Moves, PollParks, InEvent, PollTimer, Pending,
       Armed, Ready, Earlier, None, sendVars, layerVars
  <1>9. DeadlineArmed'
    BY <1>a DEF DeadlineArmed, Parked, PollParks, Pending, Ready, Armed, Earlier, None,
       CountTypes
  <1>10. SeqTypes' /\ EndsStartABatch'
    BY DEF SeqTypes, EndsStartABatch, EndsStream, PassOrder, PollParks
  <1> QED
    BY <1>1, <1>2, <1>3, <1>4, <1>5, <1>6, <1>7, <1>8, <1>9, <1>10

\* What the layer asks for goes out as far as there is room.
LEMMA ActKeeps ==
    ASSUME PumpInv, SendTypeOK', Act
    PROVE  PumpInv'
  <1>a. PICK asked \in {0, 1}, out \in Nat :
            /\ expiry' \in Deadlines \/ expiry' = expiry
            /\ out <= owes + asked /\ out <= OutboundData - outbound
            /\ owes + asked - out <= MaxOwed
            /\ outbound' = outbound + out
            /\ owes' = owes + asked - out
    <2>1. PICK asked \in {0, 1} :
            LET ready == IF asked = 1 THEN owes + 1 ELSE 0
                room == OutboundData - outbound
                out == CHOOSE n \in {ready, room, Budget} :
                          n <= ready /\ n <= room /\ n <= Budget
            IN /\ owes + asked - out <= MaxOwed
               /\ outbound' = outbound + out
               /\ owes' = owes + asked - out
               /\ IF asked = 1 THEN MoveExpiry ELSE UNCHANGED expiry
      BY DEF Act
    <2> DEFINE ready == IF asked = 1 THEN owes + 1 ELSE 0
               room == OutboundData - outbound
               out == CHOOSE n \in {ready, room, Budget} :
                         n <= ready /\ n <= room /\ n <= Budget
    <2>2. ready \in Nat /\ room \in Nat /\ ready <= owes + asked /\ Budget \in Nat
      BY DEF OutboundData, CountTypes
    <2>3. \E n \in {ready, room, Budget} : n <= ready /\ n <= room /\ n <= Budget
      BY <2>2
    <2>4. out \in {ready, room, Budget} /\ out <= ready /\ out <= room
      BY <2>3
    <2>5. /\ owes + asked - out <= MaxOwed
          /\ outbound' = outbound + out
          /\ owes' = owes + asked - out
          /\ expiry' \in Deadlines \/ expiry' = expiry
      BY <2>1 DEF MoveExpiry
    <2> HIDE DEF ready, room, out
    <2>6. out \in Nat /\ out <= owes + asked
      BY <2>2, <2>4 DEF CountTypes
    <2>7. out <= OutboundData - outbound
      BY <2>4 DEF room
    <2> QED
      BY <2>5, <2>6, <2>7
  <1>1. (call \in Calls /\ step \in Steps /\ heard \subseteq Kinds)'
    BY DEF Calls, Steps, Kinds, Act
  <1>2. CountTypes'
    <2>1. outbound' \in 0..OutboundData /\ owes' \in 0..MaxOwed
      BY <1>a DEF OutboundData, CountTypes
    <2>2. expiry' \in 0..(MaxTime + 3)
      BY <1>a DEF CountTypes, Deadlines, None
    <2> QED
      BY <2>1, <2>2 DEF CountTypes, Act
  <1>3. FlagTypes'
    BY DEF FlagTypes, Act
  <1>4. PassOrder'
    BY DEF PassOrder, Act
  <1>5. ClosedEnds'
    BY DEF ClosedEnds, PassOrder, Act
  <1>6. ReadBehind'
    BY DEF ReadBehind, ClosedEnds, Act
  <1>7. OwedWaits'
    BY DEF OwedWaits, Room, Act
  <1>8. ShelvedWaits'
    BY DEF ShelvedWaits, Message, Moves, Act, sendVars, layerVars
  <1>9. DeadlineArmed'
    BY DEF DeadlineArmed, Parked, Act
  <1>10. SeqTypes' /\ EndsStartABatch'
    BY DEF SeqTypes, EndsStartABatch, EndsStream, PassOrder, Act
  <1> QED
    BY <1>1, <1>2, <1>3, <1>4, <1>5, <1>6, <1>7, <1>8, <1>9, <1>10

\* A refused reset ends the driver.
LEMMA ActFailsKeeps ==
    ASSUME PumpInv, SendTypeOK', ActFails
    PROVE  PumpInv'
  <1>1. (call \in Calls /\ step \in Steps /\ heard \subseteq Kinds)'
    BY DEF Calls, Steps, Kinds, ActFails, End
  <1>2. FlagTypes'
    BY DEF FlagTypes, ActFails, End
  <1>3. PassOrder'
    BY DEF PassOrder, ActFails, End
  <1>4. ClosedEnds'
    BY DEF ClosedEnds, PassOrder, ActFails, End
  <1>5. ReadBehind'
    BY DEF ReadBehind, ClosedEnds, ActFails, End
  <1>6. OwedWaits'
    BY DEF OwedWaits, Room, ActFails, End
  <1>7. ShelvedWaits'
    BY DEF ShelvedWaits, Message, Moves, ActFails, End, sendVars, layerVars
  <1>8. DeadlineArmed'
    BY DEF DeadlineArmed, Parked, ActFails, End
  <1>9. SeqTypes' /\ CountTypes' /\ EndsStartABatch'
    BY DEF SeqTypes, CountTypes, EndsStartABatch, EndsStream, PassOrder, ActFails
  <1> QED
    BY <1>1, <1>2, <1>3, <1>4, <1>5, <1>6, <1>7, <1>8, <1>9

\* An opener finds the connection closed.
LEMMA OpenEndedKeeps ==
    ASSUME PumpInv, SendTypeOK', OpenEnded
    PROVE  PumpInv'
  <1>1. (call \in Calls /\ step \in Steps /\ heard \subseteq Kinds)'
    BY DEF Calls, Steps, Kinds, OpenEnded, InOpen, End
  <1>2. PassOrder'
    BY DEF PassOrder, OpenEnded, InOpen, End
  <1>3. ClosedEnds'
    BY DEF ClosedEnds, PassOrder, OpenEnded, InOpen, End
  <1>4. ReadBehind'
    BY DEF ReadBehind, ClosedEnds, OpenEnded, InOpen, End
  <1>5. OwedWaits'
    BY DEF OwedWaits, Room, OpenEnded, InOpen, End
  <1>6. ShelvedWaits'
    BY DEF ShelvedWaits, Message, Moves, OpenEnded, InOpen, End, sendVars, layerVars
  <1>7. DeadlineArmed'
    BY DEF DeadlineArmed, Parked, OpenEnded, InOpen, End
  <1>8. SeqTypes' /\ CountTypes' /\ FlagTypes' /\ EndsStartABatch'
    BY DEF SeqTypes, CountTypes, FlagTypes, EndsStartABatch, EndsStream, PassOrder,
       OpenEnded
  <1> QED
    BY <1>1, <1>2, <1>3, <1>4, <1>5, <1>6, <1>7, <1>8

\* A stream is opened, and its packet produced.
LEMMA OpensKeeps ==
    ASSUME PumpInv, SendTypeOK', Opens
    PROVE  PumpInv'
  <1>1. (call \in Calls /\ step \in Steps /\ heard \subseteq Kinds)'
    BY DEF Calls, Steps, Kinds, Opens, InOpen
  <1>2. CountTypes'
    <2>1. streams \in Nat /\ streams > 0 /\ wanted \in Nat /\ wanted > 0
      BY DEF CountTypes, Opens, InOpen, PassOrder
    <2>3. streams - 1 \in Nat /\ wanted - 1 \in Nat
      BY <2>1
    <2>2. streams' \in Nat /\ wanted' \in Nat
      BY <2>1, <2>3 DEF Opens
    <2>4. expiry' \in 0..(MaxTime + 3)
      <3>1. expiry' \in Deadlines \/ expiry' = expiry
        BY DEF Opens, MoveExpiry
      <3> QED
        BY <3>1 DEF CountTypes, Deadlines, None
    <2> QED
      BY <2>2, <2>4 DEF CountTypes, Opens
  <1>3. PassOrder'
    BY DEF PassOrder, Opens, InOpen
  <1>4. ClosedEnds'
    BY DEF ClosedEnds, PassOrder, Opens, InOpen
  <1>5. ReadBehind'
    BY DEF ReadBehind, ClosedEnds, Opens, InOpen
  <1>6. OwedWaits'
    <2>1. spent < Budget
      BY DEF Opens, InOpen, OwedWaits
    <2>2. step' = "produce more" /\ spent' = spent
      BY DEF Opens
    <2> QED
      BY <2>1, <2>2 DEF OwedWaits
  <1>7. ShelvedWaits'
    BY DEF ShelvedWaits, Message, Moves, Opens, InOpen, sendVars, layerVars
  <1>8. DeadlineArmed'
    BY DEF DeadlineArmed, Parked, Opens, InOpen
  <1>9. SeqTypes' /\ FlagTypes' /\ EndsStartABatch'
    BY DEF SeqTypes, FlagTypes, EndsStartABatch, EndsStream, PassOrder, Opens
  <1> QED
    BY <1>1, <1>2, <1>3, <1>4, <1>5, <1>6, <1>7, <1>8, <1>9

\* The pass goes on behind an opened stream.
LEMMA OpenedKeeps ==
    ASSUME PumpInv, SendTypeOK', Opened
    PROVE  PumpInv'
  <1>1. (call \in Calls /\ step \in Steps /\ heard \subseteq Kinds)'
    BY DEF Calls, Steps, Kinds, Opened
  <1>2. PassOrder'
    BY DEF PassOrder, Opened
  <1>3. ClosedEnds'
    BY DEF ClosedEnds, PassOrder, Opened
  <1>4. ReadBehind'
    BY DEF ReadBehind, ClosedEnds, Opened
  <1>5. OwedWaits'
    BY DEF OwedWaits, Room, Opened
  <1>6. ShelvedWaits'
    BY DEF Opened, ShelvedWaits, PassOrder
  <1>7. DeadlineArmed'
    BY DEF DeadlineArmed, Parked, Opened
  <1>8. SeqTypes' /\ CountTypes' /\ FlagTypes' /\ EndsStartABatch'
    BY DEF SeqTypes, CountTypes, FlagTypes, EndsStartABatch, EndsStream, PassOrder,
       Opened
  <1> QED
    BY <1>1, <1>2, <1>3, <1>4, <1>5, <1>6, <1>7, <1>8

\* An opener at the limit parks, registered by its own pump.
LEMMA OpenParksKeeps ==
    ASSUME PumpInv, SendTypeOK', OpenParks
    PROVE  PumpInv'
  <1>1. (call \in Calls /\ step \in Steps /\ heard \subseteq Kinds)'
    BY DEF Calls, Steps, Kinds, OpenParks, InOpen
  <1>2. PassOrder'
    BY DEF PassOrder, OpenParks, InOpen
  <1>3. ClosedEnds'
    BY DEF ClosedEnds, PassOrder, OpenParks, InOpen
  <1>4. ReadBehind'
    BY DEF ReadBehind, ClosedEnds, OpenParks, InOpen
  <1>5. OwedWaits'
    BY DEF OwedWaits, Room, OpenParks, InOpen
  <1>6. ShelvedWaits'
    BY DEF ShelvedWaits, Message, Moves, OpenParks, InOpen, sendVars, layerVars
  <1>7. DeadlineArmed'
    BY DEF DeadlineArmed, Parked, OpenParks, InOpen
  <1>8. SeqTypes' /\ CountTypes' /\ FlagTypes' /\ EndsStartABatch'
    BY DEF SeqTypes, CountTypes, FlagTypes, EndsStartABatch, EndsStream, PassOrder,
       OpenParks
  <1> QED
    BY <1>1, <1>2, <1>3, <1>4, <1>5, <1>6, <1>7, <1>8

\* The transmitter finds the connection closed.
LEMMA TransmitEndedKeeps ==
    ASSUME PumpInv, SendTypeOK', TransmitEnded
    PROVE  PumpInv'
  <1>1. (call \in Calls /\ step \in Steps /\ heard \subseteq Kinds)'
    BY DEF Calls, Steps, Kinds, TransmitEnded, End
  <1>2. PassOrder'
    BY DEF PassOrder, TransmitEnded, End
  <1>3. ClosedEnds'
    BY DEF ClosedEnds, PassOrder, TransmitEnded, End
  <1>4. ReadBehind'
    BY DEF ReadBehind, ClosedEnds, TransmitEnded, End
  <1>5. OwedWaits'
    BY DEF OwedWaits, Room, TransmitEnded, End
  <1>6. ShelvedWaits'
    BY DEF ShelvedWaits, Message, Moves, TransmitEnded, End, sendVars, layerVars
  <1>7. DeadlineArmed'
    BY DEF DeadlineArmed, Parked, TransmitEnded, End
  <1>8. SeqTypes' /\ CountTypes' /\ FlagTypes' /\ EndsStartABatch'
    BY DEF SeqTypes, CountTypes, FlagTypes, EndsStartABatch, EndsStream, PassOrder,
       TransmitEnded
  <1> QED
    BY <1>1, <1>2, <1>3, <1>4, <1>5, <1>6, <1>7, <1>8

\* No room: the drain ends registered.
LEMMA DrainWaitsKeeps ==
    ASSUME PumpInv, SendTypeOK', DrainWaits
    PROVE  PumpInv'
  <1>1. (call \in Calls /\ step \in Steps /\ heard \subseteq Kinds)'
    BY DEF Calls, Steps, Kinds, DrainWaits, InDrain, DrainEnds, Room
  <1>2. FlagTypes'
    BY DEF FlagTypes, DrainWaits, InDrain, DrainEnds, Room
  <1>3. PassOrder'
    BY DEF PassOrder, DrainWaits, InDrain, DrainEnds, Room
  <1>4. ClosedEnds'
    BY DEF ClosedEnds, PassOrder, DrainWaits, InDrain, DrainEnds, Room
  <1>5. ReadBehind'
    BY DEF ReadBehind, ClosedEnds, DrainWaits, InDrain, DrainEnds, Room
  <1>6. OwedWaits'
    BY DEF OwedWaits, Room, DrainWaits, InDrain, DrainEnds
  <1>7. ShelvedWaits'
    BY DEF ShelvedWaits, Message, Moves, DrainWaits, InDrain, DrainEnds, Room,
       sendVars, layerVars
  <1>8. DeadlineArmed'
    BY DEF DeadlineArmed, Parked, DrainWaits, InDrain, DrainEnds, Room
  <1>9. SeqTypes' /\ CountTypes' /\ EndsStartABatch'
    BY DEF SeqTypes, CountTypes, EndsStartABatch, EndsStream, PassOrder, DrainWaits
  <1> QED
    BY <1>1, <1>2, <1>3, <1>4, <1>5, <1>6, <1>7, <1>8, <1>9

\* Nothing to offer, or nothing that may be offered again in this pass.
LEMMA DrainDoneKeeps ==
    ASSUME PumpInv, SendTypeOK', DrainDone
    PROVE  PumpInv'
  <1>1. (call \in Calls /\ step \in Steps /\ heard \subseteq Kinds)'
    BY DEF Calls, Steps, Kinds, DrainDone, InDrain, DrainEnds, Room, Offering, Message
  <1>2. PassOrder'
    BY DEF PassOrder, DrainDone, InDrain, DrainEnds, Room, Offering, Message
  <1>3. ClosedEnds'
    BY DEF ClosedEnds, PassOrder, DrainDone, InDrain, DrainEnds, Room, Offering,
       Message
  <1>4. ReadBehind'
    BY DEF ReadBehind, ClosedEnds, DrainDone, InDrain, DrainEnds, Room, Offering,
       Message
  <1>5. OwedWaits'
    BY DEF OwedWaits, Room, DrainDone, InDrain, DrainEnds, Offering, Message
  <1>6. ShelvedWaits'
    BY DEF ShelvedWaits, Message, Moves, DrainDone, InDrain, DrainEnds, Room,
       Offering, sendVars, layerVars
  <1>7. DeadlineArmed'
    BY DEF DeadlineArmed, Parked, DrainDone, InDrain, DrainEnds, Room, Offering,
       Message
  <1>8. SeqTypes' /\ CountTypes' /\ FlagTypes' /\ EndsStartABatch'
    BY DEF SeqTypes, CountTypes, FlagTypes, EndsStartABatch, EndsStream, PassOrder,
       DrainDone
  <1> QED
    BY <1>1, <1>2, <1>3, <1>4, <1>5, <1>6, <1>7, <1>8

\* Octets taken leave a record behind, a lone FIN ends the drain.
LEMMA DrainTakesKeeps ==
    ASSUME NEW m \in 0..Total, NEW fin \in BOOLEAN,
           NEW k \in 0..Total, PumpInv, SendTypeOK', DrainTakes(m, fin, k)
    PROVE  PumpInv'
  <1>a. call = "transmit" /\ step = "go on" /\ ~closed /\ Room
    BY DEF DrainTakes, InDrain
  <1>b. spent \in Nat /\ spent < Budget /\ spent + 1 \in 0..Budget
    <2>1. spent < Budget
      BY <1>a, Zenon DEF OwedWaits
    <2>2. spent \in Nat
      BY DEF CountTypes
    <2> QED
      BY <2>1, <2>2
  <1>c. /\ spent' = spent + 1 /\ UNCHANGED <<call, closed, woken, capWait, cut>>
        /\ step' = "settle" \/ (step' = "go on" /\ spent + 1 # Budget)
    BY <1>a DEF DrainTakes, Spend, DrainEnds
  <1>d. outbound \in Nat /\ outbound + 1 \in 0..OutboundData /\ OutboundData \in Nat
    <2>1. outbound \in Nat /\ OutboundData \in Nat
      BY DEF CountTypes, OutboundData
    <2>2. outbound < OutboundData
      BY <1>a DEF Room
    <2> QED
      BY <2>1, <2>2
  <1>e. step' = "go on" => spent' < Budget
    <2>1. spent + 1 # Budget => spent + 1 < Budget
      BY <1>b
    <2> QED
      BY <1>c, <2>1, Zenon
  <1>1. (call \in Calls /\ step \in Steps /\ heard \subseteq Kinds)'
    BY DEF Calls, Steps, Kinds, DrainTakes, InDrain, DrainEnds, Spend, Room, Offering,
       Message, MoveExpiry, Deadlines
  <1>2. SeqTypes'
    <2>1. Append(records, "released") \in Seq(Records)
      BY AppendProperties DEF SeqTypes, Records
    <2>2. records' \in Seq(Records)
      BY <2>1 DEF DrainTakes, SeqTypes
    <2> QED
      BY <2>2 DEF SeqTypes, DrainTakes
  <1>3. CountTypes'
    <2>1. outbound' \in 0..OutboundData /\ spent' \in 0..Budget
      BY <1>b, <1>c, <1>d DEF DrainTakes
    <2>2. expiry' \in 0..(MaxTime + 3)
      <3>1. expiry' \in Deadlines \/ expiry' = expiry
        BY DEF DrainTakes, MoveExpiry
      <3> QED
        BY <3>1 DEF CountTypes, Deadlines, None
    <2> QED
      BY <2>1, <2>2 DEF CountTypes, DrainTakes
  <1>4. FlagTypes'
    <2>1. retried' = (retried \/ shelved) /\ shelved' = (k < m)
      BY Zenon DEF DrainTakes
    <2>2. retried' \in BOOLEAN
      BY <2>1, Zenon
    <2>3. shelved' \in BOOLEAN
      BY <2>1
    <2> QED
      BY <2>2, <2>3 DEF FlagTypes, DrainTakes
  <1>5. PassOrder'
    BY DEF PassOrder, DrainTakes, InDrain, DrainEnds, Spend, Room, Offering, Message,
       MoveExpiry, Deadlines
  <1>6. ClosedEnds'
    BY DEF ClosedEnds, PassOrder, DrainTakes, InDrain, DrainEnds, Spend, Room,
       Offering, Message, MoveExpiry, Deadlines
  <1>7. ReadBehind'
    BY DEF ReadBehind, ClosedEnds, DrainTakes, InDrain, DrainEnds, Spend, Room,
       Offering, Message, MoveExpiry, Deadlines
  <1>8. OwedWaits'
    <2>1. owes' = owes
      BY DEF DrainTakes
    <2>2. ~woken => owes = 0 \/ cut
      BY <1>a DEF OwedWaits
    <2> QED
      BY <1>a, <1>c, <1>e, <2>1, <2>2 DEF OwedWaits
  <1>9. ShelvedWaits'
    <2>1. CASE k > 0
      <3>1. records' = Append(records, "released")
        BY <2>1, Zenon DEF DrainTakes
      <3>2. records \in Seq(Records) /\ "released" \in Records
        BY DEF SeqTypes, Records
      <3>3. Append(records, "released") # <<>>
        BY <3>2, AppendProperties
      <3>4. records' # <<>>
        BY <3>1, <3>3, Zenon
      <3> QED
        BY <1>a, <1>c, <3>4, Zenon DEF ShelvedWaits
    <2>2. CASE ~(k > 0)
      <3>1. k = 0
        BY <2>2, SizeAssumption
      <3>2. step' = "settle" /\ left' \in {"native", "behind"}
        BY <3>1 DEF DrainTakes, Spend, DrainEnds
      <3> QED
        BY <1>a, <1>c, <3>2 DEF ShelvedWaits
    <2> QED
      BY <2>1, <2>2
  <1>10. DeadlineArmed'
    BY DEF DeadlineArmed, Parked, DrainTakes, InDrain, DrainEnds, Spend, Room,
       Offering, Message, MoveExpiry, Deadlines
  <1>11. EndsStartABatch'
    BY DEF EndsStartABatch, EndsStream, PassOrder, DrainTakes
  <1> QED
    BY <1>1, <1>2, <1>3, <1>4, <1>5, <1>6, <1>7, <1>8, <1>9, <1>10, <1>11

\* Frames that waited go first, which only a woken task, or one whose last produce was
\* cut, can find waiting.
LEMMA DrainDisplacedKeeps ==
    ASSUME NEW m \in 0..Total, NEW fin \in BOOLEAN,
           PumpInv, SendTypeOK', DrainDisplaced(m, fin)
    PROVE  PumpInv'
  <1>a. call = "transmit" /\ step = "go on" /\ ~closed /\ Room
    BY DEF DrainDisplaced, InDrain
  <1>b. spent \in Nat /\ spent < Budget /\ spent + 1 \in 0..Budget
    <2>1. spent < Budget
      BY <1>a, Zenon DEF OwedWaits
    <2>2. spent \in Nat
      BY DEF CountTypes
    <2> QED
      BY <2>1, <2>2
  <1>c. /\ spent' = spent + 1 /\ UNCHANGED <<call, closed, woken, capWait, cut>>
        /\ step' = "settle" \/ (step' = "go on" /\ spent + 1 # Budget)
    BY <1>a DEF DrainDisplaced, Spend, DrainEnds
  <1>d. outbound \in Nat /\ outbound + 1 \in 0..OutboundData /\ OutboundData \in Nat
    <2>1. outbound \in Nat /\ OutboundData \in Nat
      BY DEF CountTypes, OutboundData
    <2>2. outbound < OutboundData
      BY <1>a DEF Room
    <2> QED
      BY <2>1, <2>2
  <1>e. step' = "go on" => spent' < Budget
    <2>1. spent + 1 # Budget => spent + 1 < Budget
      BY <1>b
    <2> QED
      BY <1>c, <2>1, Zenon
  <1>f. woken' \/ cut'
    <2>1. owes > 0
      BY DEF DrainDisplaced
    <2>2. owes # 0
      BY <2>1 DEF CountTypes
    <2> QED
      BY <1>a, <1>c, <2>2, Zenon DEF OwedWaits
  <1>1. (call \in Calls /\ step \in Steps /\ heard \subseteq Kinds)'
    BY DEF Calls, Steps, Kinds, DrainDisplaced, InDrain, DrainEnds, Spend, Room,
       Offering, Message
  <1>2. CountTypes'
    <2>1. outbound' \in 0..OutboundData /\ spent' \in 0..Budget
      BY <1>b, <1>c, <1>d DEF DrainDisplaced
    <2>2. owes' \in 0..MaxOwed
      <3>1. owes > 0 /\ owes' = owes - 1
        BY DEF DrainDisplaced
      <3> QED
        BY <3>1 DEF CountTypes
    <2>3. expiry' \in 0..(MaxTime + 3)
      <3>1. expiry' \in Deadlines \/ expiry' = expiry
        BY DEF DrainDisplaced, MoveExpiry
      <3> QED
        BY <3>1 DEF CountTypes, Deadlines, None
    <2> QED
      BY <2>1, <2>2, <2>3 DEF CountTypes, DrainDisplaced
  <1>3. FlagTypes'
    <2>1. retried' \in BOOLEAN /\ shelved' \in BOOLEAN
      BY Zenon DEF DrainDisplaced
    <2> QED
      BY <2>1 DEF FlagTypes, DrainDisplaced
  <1>4. PassOrder'
    BY DEF PassOrder, DrainDisplaced, InDrain, DrainEnds, Spend, Room, Offering,
       Message
  <1>5. ClosedEnds'
    BY DEF ClosedEnds, PassOrder, DrainDisplaced, InDrain, DrainEnds, Spend, Room,
       Offering, Message
  <1>6. ReadBehind'
    BY DEF ReadBehind, ClosedEnds, DrainDisplaced, InDrain, DrainEnds, Spend, Room,
       Offering, Message
  <1>7. OwedWaits'
    BY <1>a, <1>c, <1>e, <1>f DEF OwedWaits
  <1>8. ShelvedWaits'
    <2>1. step' = "settle" /\ cut => left' = "behind"
      BY <1>a DEF DrainDisplaced, Spend, DrainEnds
    <2> QED
      BY <1>a, <1>c, <1>f, <2>1 DEF ShelvedWaits
  <1>9. DeadlineArmed'
    BY DEF DeadlineArmed, Parked, DrainDisplaced, InDrain, DrainEnds, Spend, Room,
       Offering, Message
  <1>10. SeqTypes' /\ EndsStartABatch'
    BY DEF SeqTypes, EndsStartABatch, EndsStream, PassOrder, DrainDisplaced
  <1> QED
    BY <1>1, <1>2, <1>3, <1>4, <1>5, <1>6, <1>7, <1>8, <1>9, <1>10

\* Flow control or congestion ends the drain.
LEMMA DrainBlockedKeeps ==
    ASSUME NEW m \in 0..Total, NEW fin \in BOOLEAN,
           PumpInv, SendTypeOK', DrainBlocked(m, fin)
    PROVE  PumpInv'
  <1>1. (call \in Calls /\ step \in Steps /\ heard \subseteq Kinds)'
    BY DEF Calls, Steps, Kinds, DrainBlocked, InDrain, DrainEnds, Room, Offering,
       Message, MoveExpiry, Deadlines
  <1>2. CountTypes'
    <2>1. expiry' \in 0..(MaxTime + 3)
      BY DEF CountTypes, DrainBlocked, MoveExpiry, Deadlines, None
    <2> QED
      BY <2>1 DEF CountTypes, DrainBlocked
  <1>3. FlagTypes'
    BY DEF FlagTypes, DrainBlocked, InDrain, DrainEnds, Room, Offering, Message,
       MoveExpiry, Deadlines
  <1>4. PassOrder'
    BY DEF PassOrder, DrainBlocked, InDrain, DrainEnds, Room, Offering, Message,
       MoveExpiry, Deadlines
  <1>5. ClosedEnds'
    BY DEF ClosedEnds, PassOrder, DrainBlocked, InDrain, DrainEnds, Room, Offering,
       Message, MoveExpiry, Deadlines
  <1>6. ReadBehind'
    BY DEF ReadBehind, ClosedEnds, DrainBlocked, InDrain, DrainEnds, Room, Offering,
       Message, MoveExpiry, Deadlines
  <1>7. OwedWaits'
    BY DEF OwedWaits, Room, DrainBlocked, InDrain, DrainEnds, Offering, Message,
       MoveExpiry, Deadlines
  <1>8. ShelvedWaits'
    BY DEF ShelvedWaits, Message, Moves, DrainBlocked, InDrain, DrainEnds, Room,
       Offering, MoveExpiry, Deadlines, sendVars, layerVars
  <1>9. DeadlineArmed'
    BY DEF DeadlineArmed, Parked, DrainBlocked, InDrain, DrainEnds, Room, Offering,
       Message, MoveExpiry, Deadlines
  <1>10. SeqTypes' /\ EndsStartABatch'
    BY DEF SeqTypes, EndsStartABatch, EndsStream, PassOrder, DrainBlocked
  <1> QED
    BY <1>1, <1>2, <1>3, <1>4, <1>5, <1>6, <1>7, <1>8, <1>9, <1>10

\* The layer is told, and has nothing more to send.
LEMMA DrainGoneKeeps ==
    ASSUME NEW m \in 0..Total, NEW fin \in BOOLEAN,
           PumpInv, SendTypeOK', DrainGone(m, fin)
    PROVE  PumpInv'
  <1>a. call = "transmit" /\ step = "go on" /\ ~closed /\ Room
    BY DEF DrainGone, InDrain
  <1>b. spent \in Nat /\ spent < Budget /\ spent + 1 \in 0..Budget
    <2>1. spent < Budget
      BY <1>a, Zenon DEF OwedWaits
    <2>2. spent \in Nat
      BY DEF CountTypes
    <2> QED
      BY <2>1, <2>2
  <1>c. /\ spent' = spent + 1 /\ UNCHANGED <<call, closed, woken, capWait, cut>>
        /\ step' = "settle" \/ (step' = "go on" /\ spent + 1 # Budget)
    BY <1>a DEF DrainGone, Spend, DrainEnds
  <1>d. outbound \in Nat /\ outbound + 1 \in 0..OutboundData /\ OutboundData \in Nat
    <2>1. outbound \in Nat /\ OutboundData \in Nat
      BY DEF CountTypes, OutboundData
    <2>2. outbound < OutboundData
      BY <1>a DEF Room
    <2> QED
      BY <2>1, <2>2
  <1>e. step' = "go on" => spent' < Budget
    <2>1. spent + 1 # Budget => spent + 1 < Budget
      BY <1>b
    <2> QED
      BY <1>c, <2>1, Zenon
  <1>1. (call \in Calls /\ step \in Steps /\ heard \subseteq Kinds)'
    BY DEF Calls, Steps, Kinds, DrainGone, InDrain, DrainEnds, Spend, Room, Offering,
       Message
  <1>2. CountTypes'
    <2>1. spent' \in 0..Budget
      BY <1>b, <1>c
    <2>2. expiry' \in 0..(MaxTime + 3)
      <3>1. expiry' \in Deadlines \/ expiry' = expiry
        BY DEF DrainGone, MoveExpiry
      <3> QED
        BY <3>1 DEF CountTypes, Deadlines, None
    <2> QED
      BY <2>1, <2>2 DEF CountTypes, DrainGone
  <1>3. FlagTypes'
    <2>1. retried' \in BOOLEAN /\ shelved' \in BOOLEAN
      BY Zenon DEF DrainGone
    <2> QED
      BY <2>1 DEF FlagTypes, DrainGone
  <1>4. PassOrder'
    BY DEF PassOrder, DrainGone, InDrain, DrainEnds, Spend, Room, Offering, Message
  <1>5. ClosedEnds'
    BY DEF ClosedEnds, PassOrder, DrainGone, InDrain, DrainEnds, Spend, Room,
       Offering, Message
  <1>6. ReadBehind'
    BY DEF ReadBehind, ClosedEnds, DrainGone, InDrain, DrainEnds, Spend, Room,
       Offering, Message
  <1>7. OwedWaits'
    <2>1. owes' = owes
      BY DEF DrainGone
    <2>2. ~woken => owes = 0 \/ cut
      BY <1>a DEF OwedWaits
    <2> QED
      BY <1>a, <1>c, <1>e, <2>1, <2>2 DEF OwedWaits
  <1>8. ShelvedWaits'
    <2>1. given'
      BY DEF DrainGone, WriteGone, Dispose, Verdict
    <2> QED
      BY <1>a, <1>c, <2>1 DEF ShelvedWaits, Message
  <1>9. DeadlineArmed'
    BY DEF DeadlineArmed, Parked, DrainGone, InDrain, DrainEnds, Spend, Room,
       Offering, Message
  <1>10. SeqTypes' /\ EndsStartABatch'
    BY DEF SeqTypes, EndsStartABatch, EndsStream, PassOrder, DrainGone
  <1> QED
    BY <1>1, <1>2, <1>3, <1>4, <1>5, <1>6, <1>7, <1>8, <1>9, <1>10

\* Any other error ends the driver.
LEMMA DrainFailsKeeps ==
    ASSUME NEW m \in 0..Total, NEW fin \in BOOLEAN,
           PumpInv, SendTypeOK', DrainFails(m, fin)
    PROVE  PumpInv'
  <1>1. (call \in Calls /\ step \in Steps /\ heard \subseteq Kinds)'
    BY DEF Calls, Steps, Kinds, DrainFails, End
  <1>2. FlagTypes'
    <2>1. retried' \in BOOLEAN /\ shelved' \in BOOLEAN /\ closed' \in BOOLEAN
      BY Zenon DEF DrainFails
    <2> QED
      BY <2>1 DEF FlagTypes, DrainFails
  <1>3. PassOrder'
    BY DEF PassOrder, DrainFails, End
  <1>4. ClosedEnds'
    BY DEF ClosedEnds, DrainFails, End
  <1>5. ReadBehind'
    BY DEF ReadBehind, DrainFails, End
  <1>6. OwedWaits'
    BY DEF OwedWaits, DrainFails, End
  <1>7. ShelvedWaits'
    BY DEF ShelvedWaits, DrainFails, End
  <1>8. DeadlineArmed'
    BY DEF DeadlineArmed, Parked, DrainFails, End
  <1>9. SeqTypes' /\ CountTypes' /\ EndsStartABatch'
    BY DEF SeqTypes, CountTypes, EndsStartABatch, EndsStream, DrainFails
  <1> QED
    BY <1>1, <1>2, <1>3, <1>4, <1>5, <1>6, <1>7, <1>8, <1>9

\* The end of a pass: the batch is let go of and the deadline armed.
LEMMA SettleKeeps ==
    ASSUME PumpInv, SendTypeOK', Settle
    PROVE  PumpInv'
  <1>1. (call \in Calls /\ step \in Steps /\ heard \subseteq Kinds)'
    BY DEF Calls, Steps, Kinds, Settle, PollTimer, Armed, Ready, Earlier, None, End
  <1>2. SeqTypes'
    BY DEF SeqTypes, Settle, PollTimer, Armed, Ready, Earlier, None, End
  <1>3. CountTypes'
    BY DEF CountTypes, Settle, PollTimer, Armed, Ready, Earlier, None, End
  <1>4. FlagTypes'
    BY DEF FlagTypes, Settle, PollTimer, Armed, Ready, Earlier, None, End
  <1>5. PassOrder'
    <2>1. Len(batch') = 0 /\ batch' = <<>>
      BY EmptySeq DEF Settle
    <2>2. "closed" \notin Range(batch) => ~(\E i \in 1..Len(batch) : batch[i] = "closed")
      BY LenProperties DEF Range, SeqTypes
    <2>3. /\ call = "transmit" /\ step' = "enter"
          /\ reported' = reported /\ emitted' = emitted /\ wanted' = wanted
      BY DEF Settle, End
    <2>4. CASE "closed" \in Range(batch)
      BY <2>3, <2>4, <2>1 DEF PassOrder, Settle, End
    <2>5. CASE "closed" \notin Range(batch)
      <3>1. ~reported /\ call' = IF batch # <<>> THEN "events" ELSE "idle"
        BY <2>2, <2>3, <2>5 DEF PassOrder, Settle
      <3>2. batch = <<>> => ~emitted
        BY <2>3 DEF PassOrder
      <3>3. call' \in {"events", "idle"} /\ (call' = "idle" => ~emitted') /\ ~reported'
        BY <2>3, <3>1, <3>2
      <3>4. Len(batch') < Batch
        BY <2>1
      <3> QED
        BY <2>1, <2>3, <3>3, <3>4 DEF PassOrder
    <2> QED
      BY <2>4, <2>5
  <1>6. ClosedEnds'
    BY DEF ClosedEnds, PassOrder, Settle, PollTimer, Armed, Ready, Earlier, None, End
  <1>7. ReadBehind'
    BY DEF ReadBehind, ClosedEnds, Settle, PollTimer, Armed, Ready, Earlier, None, End
  <1>8. OwedWaits'
    BY DEF OwedWaits, Room, Settle, PollTimer, Armed, Ready, Earlier, None, End
  <1>9. ShelvedWaits'
    BY DEF ShelvedWaits, Message, Moves, Settle, PollTimer, Armed, Ready, Earlier,
       None, End, sendVars, layerVars
  <1>10. DeadlineArmed'
    BY DEF DeadlineArmed, Parked, Settle, PollTimer, Armed, Ready, Earlier, None, End
  <1>11. EndsStartABatch'
    BY DEF EndsStartABatch, EndsStream, PassOrder, Settle, PollTimer, Armed, Ready,
       Earlier, None, End
  <1> QED
    BY <1>1, <1>2, <1>3, <1>4, <1>5, <1>6, <1>7, <1>8, <1>9, <1>10, <1>11

\* A driver that is done closes in the slot kept for it.
LEMMA CloseKeeps ==
    ASSUME PumpInv, SendTypeOK', Close
    PROVE  PumpInv'
  <1>1. (call \in Calls /\ step \in Steps /\ heard \subseteq Kinds)'
    BY DEF Calls, Steps, Kinds, Close, End
  <1>2. FlagTypes'
    BY DEF FlagTypes, Close, End
  <1>3. PassOrder'
    BY DEF PassOrder, Close, End
  <1>4. ClosedEnds'
    BY DEF ClosedEnds, PassOrder, Close, End
  <1>5. ReadBehind'
    BY DEF ReadBehind, ClosedEnds, Close, End
  <1>6. OwedWaits'
    BY DEF OwedWaits, Room, Close, End
  <1>7. ShelvedWaits'
    BY DEF ShelvedWaits, Message, Moves, Close, End, sendVars, layerVars
  <1>8. DeadlineArmed'
    BY DEF DeadlineArmed, Parked, Close, End
  <1>9. SeqTypes' /\ CountTypes' /\ EndsStartABatch'
    BY DEF SeqTypes, CountTypes, EndsStartABatch, EndsStream, PassOrder, Close
  <1> QED
    BY <1>1, <1>2, <1>3, <1>4, <1>5, <1>6, <1>7, <1>8, <1>9

\* A woken task starts over.
LEMMA ResumeKeeps ==
    ASSUME PumpInv, SendTypeOK', Resume
    PROVE  PumpInv'
  <1>1. (call \in Calls /\ step \in Steps /\ heard \subseteq Kinds)'
    BY DEF Calls, Steps, Kinds, Resume
  <1>2. FlagTypes'
    BY DEF FlagTypes, Resume
  <1>3. PassOrder'
    BY DEF PassOrder, Resume
  <1>4. ClosedEnds'
    BY DEF ClosedEnds, PassOrder, Resume
  <1>5. ReadBehind'
    BY DEF ReadBehind, ClosedEnds, Resume
  <1>6. OwedWaits'
    BY DEF OwedWaits, Room, Resume
  <1>7. ShelvedWaits'
    BY DEF ShelvedWaits, Message, Moves, Resume, sendVars, layerVars
  <1>8. DeadlineArmed'
    BY DEF DeadlineArmed, Parked, Resume
  <1>9. SeqTypes' /\ CountTypes' /\ EndsStartABatch'
    BY DEF SeqTypes, CountTypes, EndsStartABatch, EndsStream, PassOrder, Resume
  <1> QED
    BY <1>1, <1>2, <1>3, <1>4, <1>5, <1>6, <1>7, <1>8, <1>9

\* What changes nothing keeps everything.
LEMMA PumpStutter == PumpInv /\ UNCHANGED vars => PumpInv'
  <1> SUFFICES ASSUME PumpInv, UNCHANGED vars
               PROVE  PumpInv'
    OBVIOUS
  <1> USE DEF vars
  <1>1. SendTypeOK'
    BY DEF SendTypeOK, sendVars, layerVars, nativeVars, heldVars
  <1>2. SeqTypes' /\ CountTypes' /\ FlagTypes'
    BY DEF SeqTypes, CountTypes, FlagTypes
  <1>3. (call \in Calls /\ step \in Steps /\ heard \subseteq Kinds)'
    OBVIOUS
  <1>4. PassOrder' /\ ClosedEnds' /\ ReadBehind'
    BY DEF PassOrder, ClosedEnds, ReadBehind
  <1>5. OwedWaits' /\ ShelvedWaits'
    BY DEF OwedWaits, Room, ShelvedWaits, Message, Moves, sendVars, layerVars
  <1>6. DeadlineArmed' /\ EndsStartABatch'
    BY DEF DeadlineArmed, Parked, EndsStartABatch, EndsStream
  <1> QED
    BY <1>1, <1>2, <1>3, <1>4, <1>5, <1>6

\* A connection that has just been given to its driver.
LEMMA PumpInit == Init => PumpInv
  <1> SUFFICES ASSUME Init
               PROVE  PumpInv
    OBVIOUS
  <1>1. SendTypeOK
    BY SendInitInv DEF Init, SendInv
  <1>2. SeqTypes
    <2>1. /\ inbound = <<>> /\ observed = <<>> /\ records = <<>> /\ batch = <<>>
      BY DEF Init
    <2>2. Len(inbound) = 0 /\ Len(batch) = 0
      BY <2>1, EmptySeq
    <2>3. /\ inbound \in Seq(Kinds) /\ observed \in Seq(Seen)
          /\ records \in Seq(Records) /\ batch \in Seq(Records)
      BY <2>1, EmptySeq
    <2> QED
      BY <2>2, <2>3 DEF SeqTypes
  <1>3. CountTypes
    <2>1. /\ outbound = 0 /\ total = 0 /\ owes = 0 /\ spent = 0 /\ wanted = 1
          /\ now = 1 /\ at = 1 /\ expiry = 0 /\ sleep = 0 /\ streams \in {1, 2}
      BY DEF Init, None
    <2> QED
      BY <2>1 DEF CountTypes, OutboundData
  <1>4. FlagTypes /\ (call \in Calls /\ step \in Steps /\ heard \subseteq Kinds)
    BY DEF Init, FlagTypes, Calls, Steps, Kinds
  <1>5. PassOrder
    <2>1. wanted > 0
      BY DEF Init
    <2> QED
      BY <2>1, Zenon DEF Init, PassOrder
  <1>6. ClosedEnds /\ ReadBehind /\ OwedWaits /\ ShelvedWaits
    BY Zenon DEF Init, ClosedEnds, ReadBehind, OwedWaits, ShelvedWaits
  <1>7. DeadlineArmed /\ EndsStartABatch
    BY DEF Init, DeadlineArmed, Parked, EndsStartABatch
  <1> QED
    BY <1>1, <1>2, <1>3, <1>4, <1>5, <1>6, <1>7

\* Whatever the task and the endpoint do, the layer's stream takes a step of QuicSend
\* or none: only a drain writes to it, with the copying call, and only a datagram
\* that is read acknowledges, shuts or closes it.
LEMMA PumpSends == SendTypeOK /\ [Next]_vars => [SendNext]_sendVars
  <1> SUFFICES ASSUME SendTypeOK, Next \/ UNCHANGED vars
               PROVE  SendNext \/ UNCHANGED sendVars
    OBVIOUS
  <1>1. CASE \E m \in 0..Total, fin \in BOOLEAN, k \in 0..Total : DrainTakes(m, fin, k)
    BY <1>1 DEF DrainTakes, SendNext, Paths
  <1>2. CASE \E m \in 0..Total, fin \in BOOLEAN :
                DrainDisplaced(m, fin) \/ DrainBlocked(m, fin) \/ DrainFails(m, fin)
    BY <1>2 DEF DrainDisplaced, DrainBlocked, DrainFails, SendNext
  <1>3. CASE \E m \in 0..Total, fin \in BOOLEAN : DrainGone(m, fin)
    BY <1>3 DEF DrainGone, SendNext
  <1>4. CASE ReadOne
    <2>1. Acked(sent) \/ Shut \/ UNCHANGED sendVars
      BY <1>4 DEF ReadOne, Process
    <2>2. CASE Acked(sent)
      <3>1. acked < sent
        BY <2>2 DEF Acked
      <3>2. sent \in 1..Total
        BY <3>1, SizeAssumption DEF SendTypeOK
      <3> QED
        BY <2>2, <3>2 DEF SendNext
    <2> QED
      BY <2>1, <2>2 DEF SendNext
  <1>5. CASE StreamDone
    BY <1>5 DEF StreamDone, SendNext
  <1>6. CASE Endpoint
    BY <1>6 DEF Endpoint, Deliver, TakeOutbound, Tick
  <1>7. CASE Enter \/ ReadClose \/ ReadError \/ ReadDone \/ ExpireHandled \/ ExpireEnds
    BY <1>7 DEF Enter, ReadClose, ReadError, ReadDone, ExpireHandled, ExpireEnds
  <1>8. CASE ProduceWaits \/ ProduceOne \/ ProduceDone \/ ProduceFails \/ Collect
    BY <1>8 DEF ProduceWaits, ProduceOne, ProduceDone, ProduceFails, Collect
  <1>9. CASE DrainWaits \/ DrainDone
    BY <1>9 DEF DrainWaits, DrainDone
  <1>10. CASE PollPostpones \/ PollEmits \/ PollParks \/ Act \/ ActFails \/ OpenEnded
    BY <1>10 DEF PollPostpones, PollEmits, PollParks, Act, ActFails, OpenEnded
  <1>11. CASE Opens \/ Opened \/ OpenParks \/ TransmitEnded \/ Settle \/ Close \/ Resume
    BY <1>11 DEF Opens, Opened, OpenParks, TransmitEnded, Settle, Close, Resume
  <1>12. CASE Rest \/ UNCHANGED vars
    BY <1>12 DEF Rest, vars
  <1> QED
    BY <1>1, <1>2, <1>3, <1>4, <1>5, <1>6, <1>7, <1>8, <1>9, <1>10, <1>11, <1>12
       DEF Next, Pump, Drain, Driver

\* Every step of the endpoint, the pump, the drain and the driver keeps the invariant.
LEMMA PumpStep == PumpInv /\ SendTypeOK' /\ [Next]_vars => PumpInv'
  <1> SUFFICES ASSUME PumpInv, SendTypeOK', Next \/ UNCHANGED vars
               PROVE  PumpInv'
    OBVIOUS
  <1> HIDE DEF PumpInv
  <1>1. CASE Endpoint
    BY <1>1, DeliverKeeps, TakeOutboundKeeps, TickKeeps DEF Endpoint
  <1>2. CASE Pump
    BY <1>2, EnterKeeps, ReadOneKeeps, ReadCloseKeeps, ReadErrorKeeps, ReadDoneKeeps,
       StreamDoneKeeps, ExpireHandledKeeps, ExpireEndsKeeps, ProduceWaitsKeeps,
       ProduceOneKeeps, ProduceDoneKeeps, ProduceFailsKeeps, CollectKeeps DEF Pump
  <1>3. CASE Drain
    BY <1>3, DrainWaitsKeeps, DrainDoneKeeps, DrainTakesKeeps, DrainDisplacedKeeps,
       DrainBlockedKeeps, DrainGoneKeeps, DrainFailsKeeps DEF Drain
  <1>4. CASE Driver
    BY <1>4, PollPostponesKeeps, PollEmitsKeeps, PollParksKeeps, ActKeeps, ActFailsKeeps,
       OpenEndedKeeps, OpensKeeps, OpenedKeeps, OpenParksKeeps, TransmitEndedKeeps,
       SettleKeeps, CloseKeeps, ResumeKeeps DEF Driver
  <1>5. CASE Rest \/ UNCHANGED vars
    BY <1>5, PumpStutter DEF Rest
  <1> QED
    BY <1>1, <1>2, <1>3, <1>4, <1>5 DEF Next

-----------------------------------------------------------------------------
(* Theorems                                                                *)

\* The connection's send side is a QuicSend: the adapter adds no write, no
\* acknowledgement and no release of its own.  The invariant of the pump comes with
\* it, since the acknowledged offset must be one of the message's.
THEOREM PumpInvariant == Spec => [](SendInv /\ PumpInv) /\ SendSpec
  <1> HIDE DEF PumpInv
  <1>1. Init => SendInit /\ SendInv /\ PumpInv
    BY PumpInit, SendInitInv DEF Init
  <1>2. SendInv /\ PumpInv /\ [Next]_vars => SendInv' /\ PumpInv' /\ [SendNext]_sendVars
    <2>1. SendInv => SendTypeOK
      BY DEF SendInv
    <2>2. SendInv' => SendTypeOK'
      BY DEF SendInv
    <2> QED
      BY <2>1, <2>2, PumpSends, PumpStep, SendStep
  <1> QED
    BY <1>1, <1>2, PTL DEF Spec, SendSpec

\* Queues, counters and records keep their types; queue_outbound's assertion that a
\* slot is left for a close is one of them (lib.rs).
THEOREM PumpTypes == Spec => []TypeOK
  <1>1. PumpInv => TypeOK
    OBVIOUS
  <1> QED
    BY <1>1, PumpInvariant, PTL

\* A parked task has read, reported and produced all it can, but for what a produce cut
\* at its budget leaves behind, and one that is parked on its events has a sleep for
\* its deadline (register before read and poll_timer in pump.rs,
\* outbound_ready_or_register).  No relation of the budget to what ngtcp2 owes is
\* assumed.
THEOREM PumpParksSafely == Spec => []ParkIsSafe
  <1>1. PumpInv => ParkIsSafe
    <2> SUFFICES ASSUME PumpInv
                 PROVE  NothingWaitsAtPark
      BY DEF ParkIsSafe
    <2> SUFFICES ASSUME Parked
                 PROVE  /\ connWait /\ inbound = <<>> /\ observed = <<>>
                        /\ owes > 0 => (capWait /\ ~Room) \/ cut
                        /\ call = "idle" => records = <<>>
                        /\ shelved /\ Message => left \in {"native", "behind"} \/ capWait
      BY DEF NothingWaitsAtPark
    <2>1. step = "parked" /\ ~woken /\ ~closed /\ call \in {"bind", "open", "idle"}
      BY DEF Parked, PassOrder, ClosedEnds
    <2>2. connWait /\ inbound = <<>> /\ observed = <<>>
      BY <2>1 DEF ReadBehind
    <2>3. owes > 0 => (capWait /\ ~Room) \/ cut
      <3>1. owes > 0 => owes # 0
        BY DEF CountTypes
      <3> QED
        BY <2>1, <3>1, Zenon DEF OwedWaits
    <2>4. call = "idle" => records = <<>>
      BY <2>1 DEF ShelvedWaits
    <2>5. shelved /\ Message => left \in {"native", "behind"} \/ capWait
      <3>1. call = "idle" \/ wanted > 0
        BY <2>1 DEF PassOrder
      <3>2. Message => ~(wanted > 0)
        BY DEF Message
      <3> QED
        BY <2>1, <2>4, <3>1, <3>2, Zenon DEF ShelvedWaits
    <2> QED
      BY <2>2, <2>3, <2>4, <2>5
  <1> QED
    BY <1>1, PumpInvariant, PTL

\* The end of a stream is the first event of its batch, whatever the size of a batch
\* and however the records came (emitted_since_pending in poll_event).
THEOREM PumpEndsStartABatch == Spec => []EndsStartABatch
  <1>1. PumpInv => EndsStartABatch
    OBVIOUS
  <1> QED
    BY <1>1, PumpInvariant, PTL

\* In the composition too, the layer's end of stream is the wire's, through every
\* interleaving of reads, drains and parks.
THEOREM PumpFinIsHonest == Spec => []FinIsHonest
  BY PumpInvariant, SendFinIsHonest, PTL

\* And the pump keeps the promise StableSend states: octets are taken once and in
\* order, and none that ngtcp2 may send again is let go.
THEOREM PumpKeepsPromise == Spec => KeepsPromise
  BY PumpInvariant, SendImplements, PTL
=============================================================================
