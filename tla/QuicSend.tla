------------------------------ MODULE QuicSend ------------------------------
(***************************************************************************)
(* One QUIC send stream: an HTTP/3 layer that offers octets, ngtcp2 that   *)
(* takes some of them into a datagram and keeps their address until the    *)
(* peer acknowledges them, and the retention of ngnet-quic in between,     *)
(* which must know what is still referred to without asking ngtcp2.        *)
(*                                                                         *)
(* A write holds the connection exclusively, so one action is one call     *)
(* with its staging, its outcome and what the layer makes of it.  ngtcp2   *)
(* is external: it takes any part of what is staged, none of it, or        *)
(* answers that the stream is gone.  Retention is keyed by stream and no   *)
(* operation touches two, so one stream is enough.                         *)
(***************************************************************************)
EXTENDS Integers

CONSTANTS
    Total,    \* octets of the message the layer has to send
    Limit     \* most octets a packet can carry: the bound on a copied stage

ASSUME SizeAssumption == Total \in Nat /\ Limit \in Nat \ {0}

VARIABLES
    taken,       \* the layer: octets of committed offers
    ended,       \* the layer: an offer with fin was committed whole
    given,       \* the layer: was told that the stream takes no more
    sent,        \* ngtcp2: octets it has serialised into STREAM frames
    finOut,      \* ngtcp2: a STREAM frame with FIN was serialised
    acked,       \* ngtcp2: octets the peer has acknowledged, from the start
    stream,      \* ngtcp2: open, shut for writing, or closed
    chunks,      \* Stream::chunks
    nextOffset   \* Stream::next_offset

layerVars == <<taken, ended, given>>
nativeVars == <<sent, finOut, acked, stream>>
heldVars == <<chunks, nextOffset>>
sendVars == <<layerVars, nativeVars, heldVars>>

Paths == {"copied", "owned"}    \* write_stream_vectored, write_stream_owned

SendInit ==
    /\ taken = 0 /\ ended = FALSE /\ given = FALSE
    /\ sent = 0 /\ finOut = FALSE /\ acked = 0 /\ stream = "open"
    /\ chunks = {} /\ nextOffset = 0

-----------------------------------------------------------------------------
(* Staging and retention.                                                  *)

\* How much of an offer of m octets is staged: stage_many_bounded copies at most
\* one packet's worth, stage_owned keeps the whole buffer.
Staged(m, path) == IF path = "copied" /\ Limit < m THEN Limit ELSE m

\* FIN goes with an offer only when all of it is staged.
StreamFlags(m, fin, path) == fin /\ Staged(m, path) = m

\* A chunk that is not cut to what was taken.
Commit_Uncut(k) ==
    IF k = 0 THEN UNCHANGED heldVars
    ELSE /\ chunks' = chunks \cup {[start |-> nextOffset, len |-> k + 1]}
         /\ nextOffset' = nextOffset + k

\* The chunk staged for the next offset, cut to what was taken: Retained::commit.
\* Nothing taken, the chunk is popped again and the entry is as it was.
Commit(k) ==
    IF k = 0 THEN UNCHANGED heldVars
    ELSE /\ chunks' = chunks \cup {[start |-> nextOffset, len |-> k]}
         /\ nextOffset' = nextOffset + k

\* Retained::acknowledge.  Chunks lie in the order of their offsets, so popping
\* from the front while the chunk ends below n keeps the ones that end above it.
\* The entry stays, and its offset with it.
Acknowledge(n) ==
    /\ chunks' = {c \in chunks : c.start + c.len > n}
    /\ UNCHANGED nextOffset

\* Retained::forget drops the entry; one made later would begin at zero.
Forget ==
    /\ chunks' = {}
    /\ nextOffset' = 0

-----------------------------------------------------------------------------
(* The layer.  It offers octets from where it stands, with fin on the      *)
(* last of them, and offers nothing without fin or octets.                 *)

Offer(m, fin) ==
    /\ ~ended /\ ~given
    /\ taken + m <= Total
    /\ fin => taken + m = Total
    /\ m = 0 => fin

\* A packet without the stream, called an acceptance of zero octets.
Verdict_ZeroTaken(outcome, k) ==
    CASE outcome \in {"datagram", "displaced"} -> [kind |-> "accepted", octets |-> k]
      [] outcome = "blocked" -> [kind |-> "blocked", octets |-> 0]
      [] outcome = "gone" -> [kind |-> "gone", octets |-> 0]

\* What the backend tells the layer of an outcome of the native write.  A packet
\* that carried none of the stream is no acceptance of zero octets.
Verdict(outcome, k) ==
    CASE outcome = "datagram" -> [kind |-> "accepted", octets |-> k]
      [] outcome = "displaced" -> [kind |-> "blocked", octets |-> 0]
      [] outcome = "blocked" -> [kind |-> "blocked", octets |-> 0]
      [] outcome = "gone" -> [kind |-> "gone", octets |-> 0]

\* How the layer disposes of an offer of m octets.  Nothing taken of some octets is
\* offered again whatever the verdict is called; zero octets accepted of an offer
\* that was only fin has ended the stream.
Dispose(m, fin, v) ==
    LET commit == v.kind = "accepted" /\ ~(v.octets = 0 /\ m > 0)
    IN /\ taken' = IF commit THEN taken + v.octets ELSE taken
       /\ ended' = (ended \/ (commit /\ fin /\ v.octets = m))
       /\ given' = (given \/ v.kind = "gone")

-----------------------------------------------------------------------------
(* One write: submit_one_vec and what follows from its outcome.            *)

\* ngtcp2 takes k of the staged octets, or a lone FIN as a frame without octets.
WriteTaken(m, fin, path, k) ==
    LET staged == Staged(m, path)
        flag == StreamFlags(m, fin, path)
    IN /\ Offer(m, fin)
       /\ stream = "open"
       /\ k <= staged
       /\ k = 0 => staged = 0 /\ flag
       /\ sent' = sent + k
       /\ finOut' = (finOut \/ (flag /\ k = staged))
       /\ Commit(k)
       /\ Dispose(m, fin, Verdict("datagram", k))
       /\ UNCHANGED <<acked, stream>>

\* The packet went to other frames, or nothing could be sent at all.
WriteRefused(m, fin, outcome) ==
    /\ Offer(m, fin)
    /\ stream = "open"
    /\ outcome \in {"displaced", "blocked"}
    /\ Commit(0)
    /\ Dispose(m, fin, Verdict(outcome, 0))
    /\ UNCHANGED nativeVars

\* The stream is shut for writing, or ngtcp2 no longer knows it.
WriteGone(m, fin) ==
    /\ Offer(m, fin)
    /\ stream # "open"
    /\ Commit(0)
    /\ Dispose(m, fin, Verdict("gone", 0))
    /\ UNCHANGED nativeVars

-----------------------------------------------------------------------------
(* What arrives from the peer, through the callbacks.                      *)

\* acked_stream_data_offset_cb: ngtcp2 reports contiguous ranges in order.
Acked(n) ==
    /\ stream # "closed"
    /\ acked < n /\ n <= sent
    /\ acked' = n
    /\ Acknowledge(n)
    /\ UNCHANGED <<layerVars, sent, finOut, stream>>

\* The peer asks for no more, or this end resets: writes are refused from here.
Shut ==
    /\ stream = "open"
    /\ stream' = "shut"
    /\ UNCHANGED <<layerVars, sent, finOut, acked, heldVars>>

\* stream_close2_cb: ngtcp2 is done with the stream, abandoned or all confirmed.
Closed ==
    /\ stream = "shut" \/ (stream = "open" /\ finOut /\ acked = sent)
    /\ stream' = "closed"
    /\ Forget
    /\ UNCHANGED <<layerVars, sent, finOut, acked>>

SendNext ==
    \/ \E m \in 0..Total, fin \in BOOLEAN :
          \/ \E path \in Paths, k \in 0..Total : WriteTaken(m, fin, path, k)
          \/ \E outcome \in {"displaced", "blocked"} : WriteRefused(m, fin, outcome)
          \/ WriteGone(m, fin)
    \/ \E n \in 1..Total : Acked(n)
    \/ Shut
    \/ Closed

SendSpec == SendInit /\ [][SendNext]_sendVars

-----------------------------------------------------------------------------
(* Properties.                                                             *)

SendTypeOK ==
    /\ taken \in 0..Total /\ ended \in BOOLEAN /\ given \in BOOLEAN
    /\ sent \in 0..Total /\ finOut \in BOOLEAN /\ acked \in 0..Total
    /\ stream \in {"open", "shut", "closed"}
    /\ chunks \subseteq [start : 0..Total, len : 1..Total]
    /\ nextOffset \in 0..Total

Octets(c) == c.start..(c.start + c.len - 1)
Held == UNION {Octets(c) : c \in chunks}
Owed == IF stream = "closed" THEN {} ELSE acked..(sent - 1)

\* ngtcp2 keeps pointers to what it serialised until it is acknowledged or the
\* stream closes (retain.rs): every octet it may still send again lies in a chunk
\* that is still held, under the stream offset it was sent at.
ReferencedIsHeld == Owed \subseteq Held

\* Nothing is held longer than it is referred to: a chunk has an octet that is not
\* acknowledged, no octet is held twice, and a closed stream holds nothing.
HeldIsReferenced ==
    /\ \A c \in chunks : acked < c.start + c.len /\ c.start + c.len <= sent
    /\ \A c, d \in chunks : c # d => Octets(c) \cap Octets(d) = {}
    /\ stream = "closed" => chunks = {}

\* The layer believes the stream ended exactly when a frame with FIN was written,
\* and FIN was written behind the last octet: no peer waits for an end nothing
\* will send, and none sees one too early.
FinIsHonest ==
    /\ ended <=> finOut
    /\ finOut => sent = Total
    /\ taken = sent

\* The promise to the layer, with the layer's own count of what was taken.
Promise ==
    INSTANCE StableSend WITH
        upto <- taken,
        fin <- ended,
        owed <- Owed,
        kept <- Held

\* The stream keeps the promise: octets are taken once and in order, and none the
\* transport may read again is let go.
KeepsPromise == Promise!Spec
=============================================================================
