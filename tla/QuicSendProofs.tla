--------------------------- MODULE QuicSendProofs ---------------------------
(***************************************************************************)
(* Proofs about QuicSend, for every length of message and every packet     *)
(* size.  The inductive invariant says what the properties leave open: an  *)
(* open stream's next_offset is the number of octets ngtcp2 serialised, so *)
(* chunks carry the offsets acknowledgements speak of.                     *)
(***************************************************************************)
EXTENDS QuicSend, TLAPS

\* Retention numbers octets the way ngtcp2 does.
OffsetsAgree ==
    /\ acked <= sent
    /\ stream # "closed" => nextOffset = sent

\* ReferencedIsHeld, octet by octet.
EveryOctetHeld ==
    stream # "closed" =>
        \A o \in acked..(sent - 1) : \E c \in chunks : o \in Octets(c)

SendInv ==
    /\ SendTypeOK
    /\ OffsetsAgree
    /\ FinIsHonest
    /\ EveryOctetHeld
    /\ HeldIsReferenced

LEMMA HeldByOctet == EveryOctetHeld <=> ReferencedIsHeld
  BY DEF EveryOctetHeld, ReferencedIsHeld, Held, Owed

LEMMA StagedBound ==
  ASSUME NEW m \in Nat, NEW path \in Paths
  PROVE  Staged(m, path) \in Nat /\ Staged(m, path) <= m
  BY SizeAssumption DEF Staged

LEMMA SendInitInv == SendInit => SendInv
  <1> SUFFICES ASSUME SendInit PROVE SendInv
    OBVIOUS
  <1>1. SendTypeOK
    <2>1. 0 \in 0..Total
      BY SizeAssumption
    <2> QED BY <2>1 DEF SendInit, SendTypeOK
  <1>4. OffsetsAgree
    BY DEF SendInit, OffsetsAgree
  <1>5. FinIsHonest
    BY DEF SendInit, FinIsHonest
  <1>2. EveryOctetHeld
    BY DEF SendInit, EveryOctetHeld
  <1>3. HeldIsReferenced
    BY DEF SendInit, HeldIsReferenced
  <1> QED BY <1>1, <1>2, <1>3, <1>4, <1>5 DEF SendInv

\* A write that was taken adds one chunk at the end of what was sent.
LEMMA WriteTakenInv ==
  ASSUME SendInv,
         NEW m \in 0..Total, NEW fin \in BOOLEAN, NEW path \in Paths,
         NEW k \in 0..Total,
         WriteTaken(m, fin, path, k)
  PROVE  SendInv'
  <1> DEFINE staged == Staged(m, path)
             flag == StreamFlags(m, fin, path)
             new == [start |-> nextOffset, len |-> k]
  <1>1. /\ staged \in Nat /\ staged <= m
    BY StagedBound, SizeAssumption
  <1>2. /\ stream = "open" /\ stream' = "open" /\ acked' = acked
        /\ k <= staged /\ sent' = sent + k
        /\ k = 0 => staged = 0 /\ flag
        /\ finOut' = (finOut \/ (flag /\ k = staged))
        /\ Offer(m, fin) /\ Commit(k)
        /\ Dispose(m, fin, Verdict("datagram", k))
    BY DEF WriteTaken
  <1>3. /\ sent = taken /\ taken + m <= Total /\ (fin => taken + m = Total)
        /\ ~ended /\ ~finOut /\ nextOffset = sent
    BY <1>2 DEF SendInv, FinIsHonest, OffsetsAgree, Offer
  <1>4. Verdict("datagram", k) = [kind |-> "accepted", octets |-> k]
    BY DEF Verdict
  <1>5. /\ taken' = taken + k
        /\ ended' = (fin /\ k = m)
        /\ given' = given
    <2>1. ~(k = 0 /\ m > 0)
      <3> SUFFICES ASSUME k = 0, m > 0 PROVE FALSE
        OBVIOUS
      <3>1. staged = 0 /\ flag
        BY <1>2
      <3> QED BY <3>1 DEF StreamFlags
    <2> QED BY <1>2, <1>3, <1>4, <2>1 DEF Dispose, SendInv, SendTypeOK
  <1>6. finOut' = (fin /\ k = m)
    BY <1>1, <1>2, <1>3 DEF StreamFlags, SendInv, SendTypeOK
  <1>7. SendTypeOK'
    <2>1. /\ taken' \in 0..Total /\ sent' \in 0..Total /\ nextOffset' \in 0..Total
      BY <1>1, <1>2, <1>3, <1>5, SizeAssumption DEF Commit, heldVars, SendInv, SendTypeOK
    <2>2. chunks' \subseteq [start : 0..Total, len : 1..Total]
      BY <1>2, SizeAssumption DEF Commit, heldVars, SendInv, SendTypeOK
    <2> QED BY <1>2, <1>5, <1>6, <2>1, <2>2 DEF SendInv, SendTypeOK
  <1>8. OffsetsAgree'
    BY <1>2, <1>3, SizeAssumption DEF OffsetsAgree, Commit, heldVars, SendInv, SendTypeOK
  <1>9. FinIsHonest'
    BY <1>1, <1>2, <1>3, <1>5, <1>6, SizeAssumption DEF FinIsHonest, SendInv, SendTypeOK
  <1>10. EveryOctetHeld'
    <2> SUFFICES ASSUME NEW o \in acked'..(sent' - 1)
                 PROVE  \E c \in chunks' : o \in Octets(c)
      BY DEF EveryOctetHeld, Octets
    <2>1. CASE o < sent
      <3>1. PICK c \in chunks : o \in Octets(c)
        BY <1>2, <2>1, SizeAssumption DEF SendInv, EveryOctetHeld, SendTypeOK
      <3> QED BY <1>2, <3>1 DEF Commit, heldVars
    <2>2. CASE o >= sent
      <3>1. k > 0 /\ new \in chunks'
        BY <1>2, <2>2, SizeAssumption DEF Commit, SendInv, SendTypeOK
      <3>2. o \in Octets(new)
        BY <1>2, <1>3, <2>2, SizeAssumption DEF Octets, SendInv, SendTypeOK
      <3> QED BY <3>1, <3>2
    <2> QED BY <2>1, <2>2, SizeAssumption DEF SendInv, SendTypeOK
  <1>11. HeldIsReferenced'
    <2>1. CASE k = 0
      BY <1>2, <2>1, SizeAssumption DEF Commit, heldVars, HeldIsReferenced, SendInv, SendTypeOK, Octets
    <2>2. CASE k > 0
      <3>1. chunks' = chunks \cup {new}
        BY <1>2, <2>2 DEF Commit
      <3>2. \A c \in chunks : c.start \in Nat /\ c.len \in Nat
        BY SizeAssumption DEF SendInv, SendTypeOK
      <3>3. \A c \in chunks' : acked < c.start + c.len /\ c.start + c.len <= sent + k
        BY <1>3, <2>2, <3>1, <3>2, SizeAssumption
        DEF SendInv, SendTypeOK, HeldIsReferenced, OffsetsAgree
      <3>4. \A c \in chunks : Octets(c) \cap Octets(new) = {}
        BY <1>3, <3>2, SizeAssumption DEF SendInv, SendTypeOK, HeldIsReferenced, Octets
      <3>5. \A c, d \in chunks' : c # d => Octets(c) \cap Octets(d) = {}
        BY <3>1, <3>4 DEF SendInv, HeldIsReferenced
      <3> QED BY <1>2, <3>3, <3>5 DEF HeldIsReferenced, Octets
    <2> QED BY <2>1, <2>2, SizeAssumption
  <1> QED BY <1>7, <1>8, <1>9, <1>10, <1>11 DEF SendInv

\* A write that was refused leaves the stream as it was.
LEMMA WriteRefusedInv ==
  ASSUME SendInv,
         NEW m \in 0..Total, NEW fin \in BOOLEAN,
         NEW outcome \in {"displaced", "blocked"},
         WriteRefused(m, fin, outcome)
  PROVE  UNCHANGED sendVars
  <1>1. Verdict(outcome, 0) = [kind |-> "blocked", octets |-> 0]
    BY DEF Verdict
  <1> QED
    BY <1>1 DEF WriteRefused, Dispose, Commit, sendVars, layerVars, SendInv, SendTypeOK

LEMMA WriteGoneInv ==
  ASSUME SendInv,
         NEW m \in 0..Total, NEW fin \in BOOLEAN,
         WriteGone(m, fin)
  PROVE  /\ UNCHANGED <<taken, ended, nativeVars, heldVars>>
         /\ given' \in BOOLEAN
  <1>1. Verdict("gone", 0) = [kind |-> "gone", octets |-> 0]
    BY DEF Verdict
  <1> QED
    BY <1>1 DEF WriteGone, Dispose, Commit, SendInv, SendTypeOK

\* An acknowledgement lets go of chunks that lie wholly below it, and no others.
LEMMA AckedInv ==
  ASSUME SendInv, NEW n \in 1..Total, Acked(n)
  PROVE  SendInv'
  <1>1. /\ stream # "closed" /\ stream' = stream
        /\ acked < n /\ n <= sent /\ acked' = n
        /\ sent' = sent /\ finOut' = finOut
        /\ taken' = taken /\ ended' = ended /\ given' = given
        /\ chunks' = {c \in chunks : c.start + c.len > n}
        /\ nextOffset' = nextOffset
    BY DEF Acked, Acknowledge, layerVars
  <1>2. SendTypeOK' /\ OffsetsAgree' /\ FinIsHonest'
    BY <1>1, SizeAssumption DEF SendInv, SendTypeOK, OffsetsAgree, FinIsHonest
  <1>3. EveryOctetHeld'
    <2> SUFFICES ASSUME NEW o \in n..(sent - 1)
                 PROVE  \E c \in chunks' : o \in Octets(c)
      BY <1>1 DEF EveryOctetHeld, Octets
    <2>1. PICK c \in chunks : o \in Octets(c)
      BY <1>1, SizeAssumption DEF SendInv, EveryOctetHeld, SendTypeOK
    <2>2. c.start + c.len > n
      BY <2>1, SizeAssumption DEF Octets, SendInv, SendTypeOK
    <2> QED BY <1>1, <2>1, <2>2
  <1>4. HeldIsReferenced'
    BY <1>1 DEF SendInv, HeldIsReferenced, Octets
  <1> QED BY <1>2, <1>3, <1>4 DEF SendInv

LEMMA SendStep == SendInv /\ [SendNext]_sendVars => SendInv'
  <1> SUFFICES ASSUME SendInv, [SendNext]_sendVars PROVE SendInv'
    OBVIOUS
  <1>1. CASE UNCHANGED sendVars
    BY <1>1 DEF sendVars, layerVars, nativeVars, heldVars, SendInv, SendTypeOK, OffsetsAgree,
                FinIsHonest, EveryOctetHeld, HeldIsReferenced, Octets
  <1>2. ASSUME NEW m \in 0..Total, NEW fin \in BOOLEAN,
               NEW path \in Paths, NEW k \in 0..Total, WriteTaken(m, fin, path, k)
        PROVE  SendInv'
    BY <1>2, WriteTakenInv
  <1>3. ASSUME NEW m \in 0..Total, NEW fin \in BOOLEAN,
               NEW outcome \in {"displaced", "blocked"}, WriteRefused(m, fin, outcome)
        PROVE  SendInv'
    BY <1>1, <1>3, WriteRefusedInv
  <1>4. ASSUME NEW m \in 0..Total, NEW fin \in BOOLEAN, WriteGone(m, fin)
        PROVE  SendInv'
    <2>1. UNCHANGED <<taken, ended, nativeVars, heldVars>> /\ given' \in BOOLEAN
      BY <1>4, WriteGoneInv
    <2> QED BY <2>1 DEF nativeVars, heldVars, SendInv, SendTypeOK, OffsetsAgree,
                        FinIsHonest, EveryOctetHeld, HeldIsReferenced, Octets
  <1>5. ASSUME NEW n \in 1..Total, Acked(n) PROVE SendInv'
    BY <1>5, AckedInv
  <1>6. CASE Shut
    BY <1>6 DEF Shut, layerVars, heldVars, SendInv, SendTypeOK, OffsetsAgree,
                FinIsHonest, EveryOctetHeld, HeldIsReferenced, Octets
  <1>7. CASE Closed
    BY <1>7, SizeAssumption
    DEF Closed, Forget, layerVars, SendInv, SendTypeOK, OffsetsAgree,
        FinIsHonest, EveryOctetHeld, HeldIsReferenced, Octets
  <1> QED BY <1>1, <1>2, <1>3, <1>4, <1>5, <1>6, <1>7 DEF SendNext

\* The inductive invariant holds of every behaviour of the stream.
THEOREM SendInvariant == SendSpec => []SendInv
  BY SendInitInv, SendStep, PTL DEF SendSpec

\* Every variable of the stream keeps its type (retain.rs, stream_io.rs).
THEOREM SendTypes == SendSpec => []SendTypeOK
  <1>1. SendInv => SendTypeOK
    BY DEF SendInv
  <1> QED BY <1>1, SendInvariant, PTL

\* No octet ngtcp2 may send again is ever let go (Retained::acknowledge keeps the
\* entry and its offset; Retained::commit numbers what was taken and no more).
THEOREM SendKeepsReferenced == SendSpec => []ReferencedIsHeld
  <1>1. SendInv => ReferencedIsHeld
    BY HeldByOctet DEF SendInv
  <1> QED BY <1>1, SendInvariant, PTL

\* Nothing stays retained that is acknowledged, and a closed stream holds nothing.
THEOREM SendLetsGo == SendSpec => []HeldIsReferenced
  <1>1. SendInv => HeldIsReferenced
    BY DEF SendInv
  <1> QED BY <1>1, SendInvariant, PTL

\* The layer's end of stream is the wire's (stream_flags, DatagramWithoutStream).
THEOREM SendFinIsHonest == SendSpec => []FinIsHonest
  <1>1. SendInv => FinIsHonest
    BY DEF SendInv
  <1> QED BY <1>1, SendInvariant, PTL

-----------------------------------------------------------------------------
(* The stream keeps the promise StableSend states.                         *)

LEMMA TakenIsPromised ==
  ASSUME SendInv,
         NEW m \in 0..Total, NEW fin \in BOOLEAN, NEW path \in Paths,
         NEW k \in 0..Total,
         WriteTaken(m, fin, path, k)
  PROVE  Promise!Take(k)
  <1> DEFINE staged == Staged(m, path)
             flag == StreamFlags(m, fin, path)
             new == [start |-> nextOffset, len |-> k]
  <1>1. SendInv'
    BY WriteTakenInv
  <1>2. /\ stream = "open" /\ stream' = "open" /\ acked' = acked
        /\ k <= staged /\ sent' = sent + k
        /\ k = 0 => staged = 0 /\ flag
        /\ Offer(m, fin) /\ Commit(k)
        /\ Dispose(m, fin, Verdict("datagram", k))
    BY DEF WriteTaken
  <1>3. /\ taken = sent /\ taken' = sent' /\ ~ended /\ nextOffset = sent
        /\ sent \in Nat /\ acked \in Nat /\ acked <= sent
    BY <1>1, <1>2, SizeAssumption
    DEF Offer, SendInv, SendTypeOK, FinIsHonest, OffsetsAgree
  <1>4. taken + k <= Total
    BY <1>1, <1>2, <1>3, SizeAssumption DEF SendInv, SendTypeOK
  <1>5. ended' \in {FALSE, taken + k = Total}
    <2>1. ended' \in BOOLEAN /\ (ended' => sent' = Total)
      BY <1>1 DEF SendInv, SendTypeOK, FinIsHonest
    <2> QED BY <1>2, <1>3, <2>1
  <1>6. Owed' = Owed \cup (taken..(taken + k - 1))
    BY <1>2, <1>3, SizeAssumption DEF Owed
  <1>7. Held' = Held \cup (taken..(taken + k - 1))
    <2>1. CASE k = 0
      BY <1>2, <1>3, <2>1 DEF Commit, heldVars, Held, Octets
    <2>2. CASE k # 0
      <3>1. chunks' = chunks \cup {new}
        BY <1>2, <2>2 DEF Commit
      <3>2. Octets(new) = taken..(taken + k - 1)
        BY <1>3 DEF Octets
      <3>3. Held' = Held \cup Octets(new)
        BY <3>1 DEF Held, Octets
      <3> QED BY <3>2, <3>3
    <2> QED BY <2>1, <2>2
  <1> QED BY <1>2, <1>3, <1>4, <1>5, <1>6, <1>7 DEF Promise!Take

LEMMA AckedIsPromised ==
  ASSUME SendInv, NEW n \in 1..Total, Acked(n)
  PROVE  Promise!Confirm(n)
  <1>1. SendInv'
    BY AckedInv
  <1>2. Owed' = {o \in Owed : o >= n}
    BY SizeAssumption DEF Acked, Owed, SendInv, SendTypeOK
  <1>3. Held' \subseteq Held
    BY DEF Acked, Acknowledge, Held, Octets
  <1>4. Owed' \subseteq Held'
    <2>1. (EveryOctetHeld <=> ReferencedIsHeld)'
      BY HeldByOctet, PTL
    <2> QED BY <1>1, <2>1 DEF SendInv, ReferencedIsHeld
  <1> QED BY <1>2, <1>3, <1>4 DEF Promise!Confirm, Acked, layerVars

LEMMA PromiseStep ==
  SendInv /\ [SendNext]_sendVars => [Promise!Next]_(Promise!vars)
  <1> SUFFICES ASSUME SendInv, [SendNext]_sendVars
               PROVE  Promise!Next \/ UNCHANGED Promise!vars
    OBVIOUS
  <1>1. CASE UNCHANGED sendVars
    BY <1>1 DEF sendVars, layerVars, nativeVars, heldVars, Promise!vars, Owed, Held, Octets
  <1>2. ASSUME NEW m \in 0..Total, NEW fin \in BOOLEAN,
               NEW path \in Paths, NEW k \in 0..Total, WriteTaken(m, fin, path, k)
        PROVE  Promise!Next
    BY <1>2, TakenIsPromised DEF Promise!Next
  <1>3. ASSUME NEW m \in 0..Total, NEW fin \in BOOLEAN,
               NEW outcome \in {"displaced", "blocked"}, WriteRefused(m, fin, outcome)
        PROVE  UNCHANGED Promise!vars
    <2>1. UNCHANGED sendVars
      BY <1>3, WriteRefusedInv
    <2> QED BY <2>1 DEF sendVars, layerVars, nativeVars, heldVars, Promise!vars, Owed, Held, Octets
  <1>4. ASSUME NEW m \in 0..Total, NEW fin \in BOOLEAN, WriteGone(m, fin)
        PROVE  UNCHANGED Promise!vars
    <2>1. UNCHANGED <<taken, ended, nativeVars, heldVars>>
      BY <1>4, WriteGoneInv
    <2> QED BY <2>1 DEF nativeVars, heldVars, Promise!vars, Owed, Held, Octets
  <1>5. ASSUME NEW n \in 1..Total, Acked(n) PROVE Promise!Next
    <2>1. n \in 0..Total
      BY SizeAssumption
    <2> QED BY <1>5, <2>1, AckedIsPromised DEF Promise!Next
  <1>6. CASE Shut
    <2>1. stream = "open" /\ stream' = "shut" /\ UNCHANGED <<taken, ended, sent, acked, chunks>>
      BY <1>6 DEF Shut, layerVars, heldVars
    <2> QED BY <2>1 DEF Promise!vars, Owed, Held, Octets
  <1>7. CASE Closed
    <2>1. stream' = "closed" /\ chunks' = {} /\ UNCHANGED <<taken, ended>>
      BY <1>7 DEF Closed, Forget, layerVars
    <2>2. Owed' = {} /\ Held' = {}
      BY <2>1 DEF Owed, Held
    <2> QED BY <2>1, <2>2 DEF Promise!Next, Promise!Close
  <1> QED BY <1>1, <1>2, <1>3, <1>4, <1>5, <1>6, <1>7 DEF SendNext

\* The stream implements StableSend: what the layer counts as taken is taken once
\* and in order, and kept until it is confirmed (retain.rs under stream_io.rs).
THEOREM SendImplements == SendSpec => KeepsPromise
  <1>1. SendInit => Promise!Init
    BY DEF SendInit, Promise!Init, Owed, Held
  <1> QED
    BY <1>1, SendInvariant, PromiseStep, PTL DEF SendSpec, KeepsPromise, Promise!Spec
=============================================================================
