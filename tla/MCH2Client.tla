----------------------------- MODULE MCH2Client -----------------------------
(***************************************************************************)
(* H2Client for TLC.  Requests are interchangeable in a run that checks    *)
(* safety only: a set of scenes treats them alike.                         *)
(***************************************************************************)
EXTENDS H2Client, TLC

Symmetry == Permutations(Requests)

\* One request, no body of its own, a response of two chunks; and one of a chunk on a
\* connection that fails.
Exchanges ==
    {[calls |-> {r}, uploads |-> {}, data |-> 2,
      moves |-> {"drop", "invalid", "reset", "badhead", "shutdown"}] : r \in Requests}
    \union
    {[calls |-> {r}, uploads |-> {}, data |-> 1,
      moves |-> {"drop", "reset", "garbage", "write error", "forget"}] : r \in Requests}

\* Two requests when the connection ends, in an orderly way or not.
Ends ==
    {[calls |-> Requests, uploads |-> {}, data |-> 0, moves |-> m] :
        m \in {{"eof", "goaway"}, {"abort", "forget"}}}

\* One request with a body and a response of one chunk.
Upload ==
    {[calls |-> {r}, uploads |-> {r}, data |-> 1, moves |-> {"drop", "upload error"}] :
        r \in Requests}

ExchangesAndEnds == Exchanges \union Ends \union Upload

=============================================================================
