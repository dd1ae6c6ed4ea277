----------------------------- MODULE MCQmuxCore -----------------------------
(***************************************************************************)
(* QmuxCore for TLC: scenes that receive, that send, and that end.         *)
(***************************************************************************)
EXTENDS QmuxCore

Scene(does, peer, ids, sends, window, message) ==
    [does |-> does, peer |-> peer, streams |-> ids, sends |-> sends,
     window |-> window, limit |-> 0, message |-> message]

Receives == Scene({"recv", "halt", "drop"}, {"data", "reset"}, {"u"}, 2, 0, <<>>)
Partly == Scene({"recv"}, {"data", "half", "ping", "eof"}, {"u"}, 3, 0, <<>>)
Sends == Scene({"send", "jam", "open"}, {"params", "credit"}, {"l"}, 3, 1, <<1, 2>>)
GivesUp == Scene({"send", "open", "reset", "drop"}, {"limit", "stop"}, {"l"}, 2, 2, <<1, 2>>)
Unframed == Scene({"send", "open", "unframed"}, {"limit", "credit", "window"}, {"l"}, 3, 0, <<>>)
Echoes == Scene({"send", "recv"}, {"end", "stop"}, {"b"}, 2, 2, <<1, 1>>)
Closes == Scene({"recv", "close"}, {"data", "close"}, {"u"}, 2, 1, <<>>)
Overloads == Scene({}, {"data"}, {"u", "b"}, 2, 0, <<>>)
Breaking == Scene({"open", "breaks"}, {"data", "close"}, {"u", "l"}, 1, 0, <<>>)
TheScenes == {Receives, Partly, Sends, GivesUp, Unframed, Echoes, Closes, Overloads, Breaking}
=============================================================================
