---------------------------- MODULE MCClientPool ----------------------------
(***************************************************************************)
(* ClientPool for TLC: every request goes to one origin, so that they      *)
(* contend for its slot.                                                   *)
(***************************************************************************)
EXTENDS ClientPool

CONSTANT o1

OneOrigin == [r \in Requests |-> o1]
=============================================================================
