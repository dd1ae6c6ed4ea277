----------------------------- MODULE MCQmuxPump -----------------------------
(***************************************************************************)
(* QmuxPump for TLC: scenes that send, that receive, and that end.         *)
(***************************************************************************)
EXTENDS QmuxPump

Scene(does, sends) == [does |-> does, sends |-> sends]

TheScenes ==
    { Scene({"send", "window", "ping", "stop"}, 2),
      Scene({"data", "end", "half", "ping"}, 3),
      Scene({"limit", "data", "reset", "send", "finish"}, 2),
      Scene({"data", "end", "close", "eof", "half", "ping"}, 2),
      Scene({"close", "send", "breaks", "finish"}, 1) }
=============================================================================
