----------------------------- MODULE MCQuicCore -----------------------------
(***************************************************************************)
(* Instances of QuicCore for TLC.  A scene fixes the streams, what the     *)
(* peer sends and what the owners of the handles may do.                   *)
(***************************************************************************)
EXTENDS QuicCore

Scene(does, peer, ids, sends, window, limit, units) ==
    [does |-> does, peer |-> peer, streams |-> ids, sends |-> sends, window |-> window,
     limit |-> limit, units |-> units]

PassingScenes == <<
    \* two unidirectional streams, accepted and read while more arrives
    Scene({"acks"}, {"data"}, {"u1", "u2"}, 3, 0, 0, 0),
    \* a writer that the pace and the window hold up, with a punctual and with a late timer
    Scene({"open", "timer", "paced"}, {"credit"}, {"l1"}, 1, 1, 1, 2),
    Scene({"open", "timer", "paced", "late"}, {"credit"}, {"l1"}, 1, 1, 1, 2),
    \* offers that other frames displace, and deadlines that are due at once
    Scene({"open", "timer", "due", "displace"}, {"data"}, {"l1"}, 1, 1, 1, 1),
    Scene({"open", "unframed", "displace"}, {"credit", "close"}, {"l1"}, 2, 1, 1, 2),
    \* an opener at the stream limit
    Scene({"open", "acks"}, {"streams", "data", "fin"}, {"l1"}, 3, 1, 0, 1),
    \* halves that are stopped, reset, halted, dropped and closed
    Scene({"acks"}, {"stop", "data"}, {"b1"}, 2, 1, 0, 1),
    Scene({"open", "reset", "drop"}, {"data", "fin", "ack"}, {"l1"}, 3, 1, 1, 1),
    Scene({"open", "drop"}, {"data", "reset", "stop"}, {"l1"}, 2, 1, 1, 1),
    Scene({"halt", "timer", "drop", "acks"}, {"data"}, {"u1"}, 2, 0, 0, 0),
    \* the endings
    Scene({"acks"}, {"close", "bad", "data"}, {"b1"}, 2, 1, 0, 1),
    Scene({"open"}, {"close", "bad", "streams"}, {"u1"}, 2, 1, 0, 1),
    Scene({"open", "close"}, {"data"}, {"u1", "l1"}, 2, 0, 0, 1),
    Scene({"abandon", "timer", "idle"}, {"data"}, {"u1"}, 2, 0, 0, 0),
    Scene({"timer", "late", "idle"}, {"data"}, {"u1"}, 1, 0, 0, 0),
    Scene({"close"}, {"close", "data"}, {"u1"}, 2, 0, 0, 0),
    Scene({"fails", "open", "timer"}, {"data"}, {"l1"}, 1, 1, 1, 1),
    Scene({"fails", "open", "unframed", "timer"}, {"credit"}, {"l1"}, 1, 1, 1, 1),
    Scene({"fails", "timer", "acks", "halt"}, {"data"}, {"u1"}, 2, 0, 0, 0)
>>

MCScenes == Range(PassingScenes)

\* A unidirectional stream that ends before it is accepted.
LossScenes == {Scene({"acks"}, {"data", "fin"}, {"u1"}, 1, 0, 0, 0)}
=============================================================================
