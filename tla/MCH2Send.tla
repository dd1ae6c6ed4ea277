------------------------------ MODULE MCH2Send ------------------------------
(***************************************************************************)
(* H2Send for TLC: every kind of transport and both plans, with bodies     *)
(* that end in each way.                                                   *)
(***************************************************************************)
EXTENDS H2Send

AllSetups ==
    [plan : {"push", "shared"}, model : {"readiness", "completion"}, vectored : BOOLEAN]

F(n) == [kind |-> "frame", size |-> n]
Outcome(k) == [kind |-> k, size |-> 0]

Bodies ==
    {<<F(3)>>, <<F(1), Outcome("pending"), F(2)>>, <<F(0), F(0), F(0), F(1), Outcome("trailers")>>,
     <<F(2), Outcome("bad trailers")>>, <<F(1), F(1), Outcome("error")>>,
     <<F(1), F(2), F(1), Outcome("unknown")>>}
=============================================================================
