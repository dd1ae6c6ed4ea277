----------------------------- MODULE MCQuicPump -----------------------------
(***************************************************************************)
(* QuicPump for TLC: scenes that upload, that listen, and that end.        *)
(***************************************************************************)
EXTENDS QuicPump

TheScenes ==
    { {"send", "ack", "stop", "blocked", "act"},
      {"send", "timer", "idle", "blocked"},
      {"data", "end", "timer", "limit"},
      {"data", "send", "close", "bad", "fails", "act", "finish"} }
=============================================================================
