---------------------------- MODULE MCAxumServe ----------------------------
(***************************************************************************)
(* AxumServe for TLC.                                                      *)
(***************************************************************************)
EXTENDS AxumServe
=============================================================================
