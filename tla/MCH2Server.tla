----------------------------- MODULE MCH2Server -----------------------------
(***************************************************************************)
(* H2Server for TLC: two requests, one question per scene.                 *)
(***************************************************************************)
EXTENDS H2Server

TheScenes ==
    {\* handlers that outlive their streams, under the cap
     [cap |-> 1, requests |-> 2, data |-> 0, moves |-> {"watch", "reset"}],
     \* a request that is read, and ends badly
     [cap |-> 1, requests |-> 1, data |-> 2, moves |-> {"read", "watch", "bad trailers", "reset"}],
     \* responses whose bodies come later, and a drain
     [cap |-> 2, requests |-> 2, data |-> 0, moves |-> {"body", "drain"}],
     \* a drain that races a request
     [cap |-> 2, requests |-> 2, data |-> 0, moves |-> {"watch", "drain"}],
     \* a response whose stream is reset while its body waits
     [cap |-> 1, requests |-> 1, data |-> 0, moves |-> {"body", "reset"}],
     \* one that is refused, and one that cannot be answered
     [cap |-> 2, requests |-> 2, data |-> 0, moves |-> {"bad head", "bad request"}],
     \* a drain while a handler waits outside
     [cap |-> 1, requests |-> 1, data |-> 0, moves |-> {"outside", "watch", "reset", "drain"}],
     \* the connection ends under it
     [cap |-> 1, requests |-> 1, data |-> 1,
      moves |-> {"read", "watch", "outside", "eof", "write error", "abort"}]}

=============================================================================
