----------------------------- MODULE MCH3Client -----------------------------
(***************************************************************************)
(* H3Client for TLC.  Requests are interchangeable in a run that checks    *)
(* safety only: a set of scenes treats them alike.                         *)
(***************************************************************************)
EXTENDS H3Client, TLC

Symmetry == Permutations(Requests)

\* One request and a response of two chunks; one with a body and a response of a chunk.
Exchanges ==
    {[calls |-> {r}, uploads |-> {}, data |-> 2,
      moves |-> {"drop", "invalid", "reset", "badhead", "fault"}] : r \in Requests}
    \union
    {[calls |-> {r}, uploads |-> {r}, data |-> 1,
      moves |-> {"reset", "stop", "upload error"}] : r \in Requests}

\* Two requests when one side ends the connection, or one when both do.
Ends ==
    LET both == {"abort", "forget", "goaway", "shutdown"}
        End(rs, unused) == [calls |-> rs, uploads |-> {}, data |-> 0,
                            moves |-> both \ unused]
    IN  {End(Requests, {"goaway"}), End(Requests, {"shutdown"})}
            \union {End({r}, {}) : r \in Requests}

\* One request with a body over a transport that may refuse writes.
Upload ==
    {[calls |-> {r}, uploads |-> {r}, data |-> 1,
      moves |-> {"upload error", "congest", "eof"}] : r \in Requests}

ExchangesAndEnds == Exchanges \union Ends \union Upload

=============================================================================
