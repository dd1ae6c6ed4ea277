----------------------------- MODULE StableSend -----------------------------
(***************************************************************************)
(* What a caller of a QUIC send stream is promised, whoever holds the      *)
(* octets meanwhile: they are taken once, in order and to the end, and     *)
(* those the transport may still have to send again are kept where they    *)
(* are until the peer has confirmed them or the stream is over.            *)
(***************************************************************************)
EXTENDS Integers

CONSTANT Total    \* octets the caller has to send

VARIABLES
    upto,   \* octets taken
    fin,    \* the end of the stream has been taken too
    owed,   \* octets the transport may still read
    kept    \* octets that are kept alive for it

vars == <<upto, fin, owed, kept>>

Init ==
    /\ upto = 0
    /\ fin = FALSE
    /\ owed = {}
    /\ kept = {}

\* The next n octets are taken, and with the last of them perhaps the end.
Take(n) ==
    /\ ~fin
    /\ upto + n <= Total
    /\ upto' = upto + n
    /\ fin' \in {FALSE, upto + n = Total}
    /\ owed' = owed \cup (upto..(upto + n - 1))
    /\ kept' = kept \cup (upto..(upto + n - 1))

\* The peer confirms every octet below n; what it confirmed may be let go.
Confirm(n) ==
    /\ owed' = {o \in owed : o >= n}
    /\ kept' \subseteq kept
    /\ owed' \subseteq kept'
    /\ UNCHANGED <<upto, fin>>

\* The stream is over and nothing of it will be sent again.
Close ==
    /\ owed' = {}
    /\ kept' = {}
    /\ UNCHANGED <<upto, fin>>

Next ==
    \/ \E n \in 0..Total : Take(n) \/ Confirm(n)
    \/ Close

Spec == Init /\ [][Next]_vars
=============================================================================
