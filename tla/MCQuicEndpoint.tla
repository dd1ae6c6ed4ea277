--------------------------- MODULE MCQuicEndpoint ---------------------------
(***************************************************************************)
(* QuicEndpoint for TLC.  One caller or acceptor at a time meets every     *)
(* move; two of them meet the driver's end.                                *)
(***************************************************************************)
EXTENDS QuicEndpoint

CONSTANTS d1, l1, i1, a1, t1

Failing == {"give up", "close", "bad", "bad dial", "busy"}
Ending == {"give up", "busy", "abort", "socket"}

TheScenes ==
    [cast : {{d1}, {l1}, {a1, i1}, {t1, i1}}, moves : {Failing, Ending}]
    \cup [cast : {{a1, t1, i1}, {l1, t1}}, moves : {{"abort"}}]
    \cup [cast : {{a1, i1}}, moves : {{"validate", "busy", "bad"}}]
    \cup [cast : {{d1}}, moves : {{"expiry error", "write error"}}]
    \cup [cast : {{l1}, {t1, i1}}, moves : {{"undetachable", "close", "give up"}}]
=============================================================================
