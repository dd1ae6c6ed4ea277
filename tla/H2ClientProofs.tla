--------------------------- MODULE H2ClientProofs ---------------------------
(***************************************************************************)
(* The client connection's safety, for any number of requests, any         *)
(* read-ahead, any window and whatever callers, peer and transport do.     *)
(***************************************************************************)
EXTENDS H2Client, SequenceTheorems, FiniteSetTheorems, TLAPS

-----------------------------------------------------------------------------
(* The inductive invariant                                                 *)

AppTypes ==
    /\ pc \in [Requests -> Pcs]
    /\ unread \in [Requests -> Nat]
    /\ result \in [Requests -> Errors \union {"none", "ok", "truncated", "dropped"}]
    /\ up \in [Requests -> {"none", "deferred", "eof", "failed"}]
    /\ prod \in [Requests -> {"idle", "wake", "done"}]
HandleTypes ==
    /\ clones \subseteq Requests
    /\ token \in {"held", "dropping", "gone"}
    /\ shutter \in {"idle", "wake", "done"}
SlotTypes ==
    /\ slot \in [Requests -> Errors \union {"open", "head"}]
    /\ bodyAt \in [Requests -> {"none", "slot", "caller", "gone"}]
    /\ abandoned \subseteq Requests
InTypes ==
    /\ chunks \in [Requests -> Nat]
    /\ finished \subseteq Requests /\ failed \subseteq Requests /\ unwanted \subseteq Requests
QueueTypes == queue \in Seq(Requests) /\ batch \in Seq(Requests)
SetTypes == credits \in [Requests -> Nat] /\ resets \subseteq Requests /\ ready \subseteq Requests
SharedFlags ==
    shutdown \in BOOLEAN /\ refusing \in BOOLEAN /\ gone \in BOOLEAN /\ notified \in BOOLEAN
DriverFlags == fed \in BOOLEAN /\ intake \in BOOLEAN /\ barred \in BOOLEAN
DriverTypes ==
    /\ drv \in DriverPcs /\ parkAt \in 1..6
    /\ reader \in {"armed", "full", "ended"}
    /\ ended \in {"no", "quiet", "eof", "error", "dropped"}
    /\ registry \subseteq Requests
WireTypes ==
    /\ events \in Seq(Events) /\ wire \in Seq(Frames)
    /\ inbox \in Seq(Frames) /\ Len(inbox) <= ReadAhead
SessionTypes ==
    /\ str \in [Requests -> {"none", "queued", "open", "rst", "closed"}]
    /\ sid \in [Requests -> Nat]
    /\ rended \subseteq Requests /\ resumed \subseteq Requests
OwedTypes == owed \in [Requests -> Nat]
PeerTypes ==
    /\ peer \in [Requests -> {"none", "arrived", "acting", "headed", "ended", "reset"}]
    /\ sent \in [Requests -> 0..MaxData]
    /\ last \in Int /\ last >= -1
    /\ scene \in Scenes

\* Where a pass is, and what it has drained and observed there.
Place ==
    /\ drv \in {"check", "bind"} <=> batch # <<>>
    /\ gone <=> ~Alive
    /\ Alive /\ events # <<>> => drv \in {"feed", "dispatch", "dispatch2"}
    /\ reader = "ended" <=> intake
    /\ drv \in {"abandon", "over"} => registry = {}

\* What the sequences hold.
InQueue  == Range(queue)
InBatch  == Range(batch)
Coming   == Range(wire) \union Range(inbox)
Noted    == Range(events)
Pipeline == Coming \union Noted

NoRepeat(q) == \A i, j \in 1..Len(q) : q[i] = q[j] => i = j

\* A command is pushed once and has no stream before the driver binds it.
Unsubmitted == {"idle", "unsent", "refusing", "push", "unlinked"}
Commands ==
    /\ NoRepeat(queue) /\ NoRepeat(batch)
    /\ \A r \in Requests :
          /\ r \in InQueue => r \notin InBatch
          /\ r \in InQueue \union InBatch => sid[r] = 0 /\ pc[r] \notin Unsubmitted
          /\ pc[r] \in Unsubmitted => sid[r] = 0

\* A request without a stream has nothing that comes with one.
Unbound ==
    \A r \in Requests :
        /\ sid[r] = 0 => /\ str[r] = "none" /\ r \notin registry /\ peer[r] = "none"
                         /\ slot[r] # "head" /\ r \notin finished \union failed
        /\ str[r] = "none" => sid[r] = 0
        /\ str[r] \in {"none", "queued"} => peer[r] = "none"

\* Whoever waits for an answer or an end is known to somebody who owes it.
Awaited ==
    \A r \in Requests :
        /\ pc[r] \in {"pushwake", "recheck", "await"} /\ slot[r] = "open" =>
              r \in InQueue \union InBatch \union registry
        /\ r \in abandoned => pc[r] \in {"reset", "resetwake", "done"}
        /\ slot[r] = "head" => r \in registry \union finished \union failed
        /\ bodyAt[r] \in {"slot", "caller"} => slot[r] = "head"
        /\ drv = "over" /\ r \in InQueue => pc[r] \in {"pushwake", "recheck"}

\* The peer has begun nothing above the stream its GOAWAY named.
Refusals ==
    /\ \A f \in Pipeline : f.k = "goaway" => f.last = last /\ last >= 0
    /\ \A r \in Requests :
          /\ peer[r] \in {"acting", "headed", "ended"} /\ last >= 0 => sid[r] <= last
          /\ slot[r] = "refused" =>
                \/ /\ sid[r] = 0 /\ pc[r] \in {"unlinked", "done"}
                   /\ r \notin InQueue \union InBatch
                \/ last >= 0 /\ sid[r] > last

\* A response has one head, good or malformed, and a malformed one ends it.
HeadComes(r) == \E f \in Pipeline : f.k = "head" /\ f.r = r
BadHeadComes(r) == \E f \in Pipeline : f.k = "badhead" /\ f.r = r
Heads ==
    \A r \in Requests :
        /\ peer[r] \in {"none", "arrived", "acting"} =>
              /\ slot[r] # "head"
              /\ ~HeadComes(r)
              /\ ~BadHeadComes(r)
        /\ BadHeadComes(r) =>
              slot[r] # "head" /\ ~HeadComes(r)
        /\ r \in failed \intersect registry => slot[r] \notin {"open", "head"}
        /\ r \in finished \intersect failed => slot[r] # "head"

\* The registry against the session's streams and the closures observed.
Closing(r) == \E e \in Noted : e.k = "close" /\ r \in e.rs
Tracked ==
    /\ \A r \in Requests :
          /\ Alive /\ str[r] \in {"open", "rst"} => r \in registry
          /\ Alive /\ str[r] = "queued" /\ ~barred => r \in registry
          /\ Alive /\ r \in registry /\ str[r] = "closed" => Closing(r)
          /\ Closing(r) => str[r] = "closed"
    /\ \A e \in Noted : e.k = "goaway" =>
          barred /\ \A r \in Requests : sid[r] > last => str[r] \notin {"open", "rst"}

\* The account of the receive window.
Unreported == \A r \in Requests : unread[r] > 0 => pc[r] \in {"credit_c", "credit_i"}

\* The reading half waits on the transport or on an inbox somebody will empty.
Reading ==
    /\ reader = "armed" /\ wire # <<>> => notified
    /\ reader = "full" /\ Alive /\ drv # "unpolled" =>
          notified \/ inbox # <<>> \/ (drv = "feed" /\ fed)
    /\ \A i \in 1..Len(wire) : wire[i].k = "eof" => i = Len(wire)

\* What the park predicate has found absent since came with a wake, or with a thread that
\* has yet to give it.
Passed(i) == drv = "parked" \/ (drv = "park" /\ parkAt > i)
ParkedQueue ==
    ~notified =>
       /\ Passed(1) => \A r \in Requests : r \in InQueue => pc[r] = "pushwake"
       /\ Passed(2) => \A r \in Requests : r \in ready => prod[r] = "wake"
       /\ Passed(5) => (shutdown => shutter = "wake")
ParkedSets ==
    ~notified =>
       /\ Passed(3) => \A r \in Requests : credits[r] > 0 =>
                          pc[r] \in {"wake", "wake_c", "wake_i", "resetwake"}
       /\ Passed(4) => \A r \in Requests : r \in resets =>
                          pc[r] \in {"resetwake", "resetwake_i"}
ParkedInbox ==
    ~notified /\ drv = "parked" =>
       /\ Done => token = "dropping"
       /\ inbox = <<>> /\ ~intake

ClientInv ==
    /\ AppTypes /\ HandleTypes /\ SlotTypes /\ InTypes /\ QueueTypes /\ SetTypes
    /\ SharedFlags /\ DriverFlags /\ DriverTypes /\ WireTypes /\ SessionTypes
    /\ OwedTypes /\ PeerTypes
    /\ Place /\ Commands /\ Unbound /\ Awaited /\ Refusals /\ Heads /\ Tracked
    /\ WindowConserved /\ Unreported /\ Reading
    /\ ParkedQueue /\ ParkedSets /\ ParkedInbox

-----------------------------------------------------------------------------
(* What a sequence holds                                                   *)

\* Taking the first shifts the others.
LEMMA TailShifts ==
    ASSUME NEW S, NEW q \in Seq(S), q # <<>>
    PROVE  /\ Tail(q) \in Seq(S) /\ Head(q) = q[1] /\ Head(q) \in S
           /\ Len(q) \in Nat \ {0} /\ Len(Tail(q)) = Len(q) - 1
           /\ \A i \in 1..(Len(q) - 1) : Tail(q)[i] = q[i + 1]
  <1>1. /\ Tail(q) \in Seq(S) /\ Len(Tail(q)) = Len(q) - 1 /\ Head(q) \in S
        /\ \A i \in 1..Len(Tail(q)) : Tail(q)[i] = q[i + 1]
    BY HeadTailProperties
  <1>2. Len(q) \in Nat \ {0}
    BY EmptySeq, LenProperties
  <1> QED
    BY <1>1, <1>2

\* What a sequence holds, by position.
LEMMA RangeIs ==
    ASSUME NEW S, NEW q \in Seq(S)
    PROVE  Range(q) = {q[i] : i \in 1..Len(q)}
  BY LenProperties DEF Range

\* Members of a sequence are of its type, and it has some unless it is empty.
LEMMA RangeOf ==
    ASSUME NEW S, NEW q \in Seq(S)
    PROVE  Range(q) \subseteq S /\ (q # <<>> => Range(q) # {})
  <1>1. \A i \in 1..Len(q) : q[i] \in S
    BY ElementOfSeq
  <1>2. q # <<>> => 1 \in 1..Len(q)
    BY EmptySeq, LenProperties
  <1>3. Range(q) = {q[i] : i \in 1..Len(q)}
    BY RangeIs
  <1> QED
    BY <1>1, <1>2, <1>3

\* Sequences of none, one and two.
LEMMA RangeShort ==
    /\ Range(<<>>) = {}
    /\ \A x : Range(<<x>>) = {x}
  BY DEF Range

\* One more at the end.
LEMMA RangeAppend ==
    ASSUME NEW S, NEW q \in Seq(S), NEW x \in S
    PROVE  Range(Append(q, x)) = Range(q) \union {x}
  <1> DEFINE m == Len(q)
             c == Append(q, x)
  <1>1. /\ Len(c) = m + 1 /\ m \in Nat /\ c[m + 1] = x /\ c \in Seq(S)
        /\ \A i \in 1..m : c[i] = q[i]
    BY AppendProperties, LenProperties
  <1>2. 1..(m + 1) = (1..m) \union {m + 1}
    BY <1>1
  <1> HIDE DEF m, c
  <1>3. {c[i] : i \in 1..(m + 1)} = {q[i] : i \in 1..m} \union {x}
    BY <1>1, <1>2
  <1>4. Range(q) = {q[i] : i \in 1..m} /\ Range(c) = {c[i] : i \in 1..(m + 1)}
    BY <1>1, RangeIs DEF m
  <1> QED
    BY <1>1, <1>3, <1>4 DEF c

\* One less at the front.
LEMMA RangeTail ==
    ASSUME NEW S, NEW q \in Seq(S), q # <<>>
    PROVE  Range(q) = {Head(q)} \union Range(Tail(q)) /\ Head(q) \in S /\ Tail(q) \in Seq(S)
  <1> DEFINE n == Len(q)
             t == Tail(q)
  <1>1. /\ Head(q) = q[1] /\ n \in Nat \ {0} /\ Len(t) = n - 1
        /\ \A i \in 1..(n - 1) : t[i] = q[i + 1]
        /\ t \in Seq(S) /\ Head(q) \in S
    BY TailShifts
  <1> HIDE DEF n, t
  <1>2. \A i \in 1..(n - 1) : i + 1 \in 1..n
    BY <1>1
  <1>3. \A i \in 1..n : i = 1 \/ (i - 1 \in 1..(n - 1) /\ q[i] = t[i - 1])
    <2> SUFFICES ASSUME NEW i \in 1..n, i # 1
                 PROVE  i - 1 \in 1..(n - 1) /\ q[i] = t[i - 1]
      OBVIOUS
    <2>1. i - 1 \in 1..(n - 1) /\ (i - 1) + 1 = i
      BY <1>1
    <2> QED
      BY <1>1, <2>1
  <1>4. 1 \in 1..n
    BY <1>1
  <1>5. {q[i] : i \in 1..n} = {q[1]} \union {t[i] : i \in 1..(n - 1)}
    <2>1. \A x \in {q[i] : i \in 1..n} : x \in {q[1]} \union {t[i] : i \in 1..(n - 1)}
      BY <1>3
    <2>2. \A i \in 1..(n - 1) : t[i] \in {q[j] : j \in 1..n}
      BY <1>1, <1>2
    <2> QED
      BY <1>4, <2>1, <2>2
  <1>6. Range(q) = {q[i] : i \in 1..n} /\ Range(t) = {t[i] : i \in 1..(n - 1)}
    BY <1>1, RangeIs DEF n
  <1> QED
    BY <1>1, <1>5, <1>6 DEF t

\* Two sequences one after the other.
LEMMA RangeConcat ==
    ASSUME NEW S, NEW q \in Seq(S), NEW r \in Seq(S)
    PROVE  Range(q \o r) = Range(q) \union Range(r)
  <1> DEFINE m == Len(q)
             n == Len(r)
             c == q \o r
  <1>1. /\ c \in Seq(S) /\ Len(c) = m + n
        /\ \A i \in 1..(m + n) : c[i] = IF i <= m THEN q[i] ELSE r[i - m]
    BY ConcatProperties
  <1>2. m \in Nat /\ n \in Nat
    BY LenProperties
  <1> HIDE DEF m, n, c
  <1>3. \A i \in 1..m : i \in 1..(m + n) /\ c[i] = q[i]
    BY <1>1, <1>2
  <1>4. \A i \in 1..n : m + i \in 1..(m + n) /\ c[m + i] = r[i]
    <2> SUFFICES ASSUME NEW i \in 1..n
                 PROVE  m + i \in 1..(m + n) /\ c[m + i] = r[i]
      OBVIOUS
    <2>1. m + i \in 1..(m + n) /\ ~(m + i <= m) /\ (m + i) - m = i
      BY <1>2
    <2> QED
      BY <1>1, <2>1
  <1>5. \A i \in 1..(m + n) : i \in 1..m \/ (i - m \in 1..n /\ c[i] = r[i - m])
    BY <1>1, <1>2
  <1>6. {c[i] : i \in 1..(m + n)} = {q[i] : i \in 1..m} \union {r[i] : i \in 1..n}
    <2>1. \A i \in 1..(m + n) : c[i] \in {q[j] : j \in 1..m} \union {r[j] : j \in 1..n}
      BY <1>3, <1>5
    <2>2. \A i \in 1..m : q[i] \in {c[j] : j \in 1..(m + n)}
      BY <1>3
    <2>3. \A i \in 1..n : r[i] \in {c[j] : j \in 1..(m + n)}
      BY <1>4
    <2> QED
      BY <2>1, <2>2, <2>3
  <1>7. /\ Range(q) = {q[i] : i \in 1..m} /\ Range(r) = {r[i] : i \in 1..n}
        /\ Range(c) = {c[i] : i \in 1..(m + n)}
    BY <1>1, RangeIs DEF m, n
  <1> QED
    BY <1>6, <1>7 DEF c

\* A sequence cut in two.
LEMMA RangeSplit ==
    ASSUME NEW S, NEW q \in Seq(S), NEW n \in 0..Len(q)
    PROVE  /\ SubSeq(q, 1, n) \in Seq(S) /\ SubSeq(q, n + 1, Len(q)) \in Seq(S)
           /\ Len(SubSeq(q, 1, n)) = n /\ Len(SubSeq(q, n + 1, Len(q))) = Len(q) - n
           /\ \A i \in 1..(Len(q) - n) : SubSeq(q, n + 1, Len(q))[i] = q[n + i]
           /\ Range(SubSeq(q, 1, n)) \subseteq Range(q)
           /\ Range(SubSeq(q, n + 1, Len(q))) \subseteq Range(q)
  <1> DEFINE m == Len(q)
             a == SubSeq(q, 1, n)
             b == SubSeq(q, n + 1, m)
  <1>1. m \in Nat /\ n \in Nat /\ n <= m
    BY LenProperties
  <1>2. \A i \in 1..n : q[i] \in S
    BY <1>1, ElementOfSeq
  <1>3. \A i \in (n + 1)..m : q[i] \in S
    BY <1>1, ElementOfSeq
  <1>4. a = [i \in 1..n |-> q[i]] /\ a \in Seq(S) /\ Len(a) = n
    <2>1. \A i \in 1..n : (1 + i) - 1 = i
      BY <1>1
    <2> QED
      BY <1>1, <1>2, <2>1, SubSeqProperties
  <1>5. b \in Seq(S) /\ Len(b) = m - n /\ \A i \in 1..(m - n) : b[i] = q[n + i]
    <2>1. \A i \in 1..(m - n) : ((n + 1) + i) - 1 = n + i
      BY <1>1
    <2> QED
      BY <1>1, <1>3, <2>1, SubSeqProperties
  <1> HIDE DEF m, a, b
  <1>6. \A i \in 1..n : i \in 1..m /\ a[i] = q[i]
    BY <1>1, <1>4
  <1>7. \A i \in 1..(m - n) : n + i \in 1..m
    BY <1>1
  <1>8. /\ Range(q) = {q[i] : i \in 1..m} /\ Range(a) = {a[i] : i \in 1..n}
        /\ Range(b) = {b[i] : i \in 1..(m - n)}
    <2>1. Len(a) = n /\ Len(b) = m - n /\ Len(q) = m
      BY <1>4, <1>5 DEF m
    <2>2. Range(q) = {q[i] : i \in 1..m}
      BY <2>1, RangeIs
    <2>3. Range(a) = {a[i] : i \in 1..n}
      <3>1. a \in Seq(S) /\ Len(a) = n
        BY <1>4
      <3> QED
        BY <3>1, RangeIs
    <2>4. Range(b) = {b[i] : i \in 1..(m - n)}
      <3>1. b \in Seq(S)
        BY <1>5
      <3>2. Range(b) = {b[i] : i \in 1..Len(b)}
        BY <3>1, RangeIs
      <3>3. Len(b) = m - n
        BY <2>1
      <3> QED
        BY <3>2, <3>3
    <2> QED
      BY <2>2, <2>3, <2>4
  <1>9. \A i \in 1..n : a[i] \in {q[j] : j \in 1..m}
    BY <1>6
  <1>10. \A i \in 1..(m - n) : b[i] \in {q[j] : j \in 1..m}
    BY <1>5, <1>7
  <1>11. Range(a) \subseteq Range(q) /\ Range(b) \subseteq Range(q)
    BY <1>8, <1>9, <1>10
  <1> QED
    BY <1>4, <1>5, <1>11 DEF m, a, b

\* A sequence without repetitions stays one when something new is put in, and what is
\* taken out is no longer in it.
LEMMA NoRepeatKept ==
    ASSUME NEW S, NEW q \in Seq(S), NoRepeat(q)
    PROVE  /\ \A x \in S : x \notin Range(q) => NoRepeat(Append(q, x))
           /\ q # <<>> => NoRepeat(Tail(q)) /\ Head(q) \notin Range(Tail(q))
  <1>1. ASSUME NEW x \in S, x \notin Range(q)
        PROVE  NoRepeat(Append(q, x))
    <2> DEFINE m == Len(q)
               c == Append(q, x)
    <2>1. /\ Len(c) = m + 1 /\ m \in Nat /\ c[m + 1] = x
          /\ \A i \in 1..m : c[i] = q[i]
      BY AppendProperties, LenProperties
    <2>2. \A i \in 1..m : q[i] # x
      BY <1>1, RangeIs
    <2>3. \A i, j \in 1..m : q[i] = q[j] => i = j
      BY DEF NoRepeat
    <2> HIDE DEF m, c
    <2>4. \A i \in 1..(m + 1) : i \in 1..m \/ i = m + 1
      BY <2>1
    <2>5. \A i, j \in 1..(m + 1) : c[i] = c[j] => i = j
      BY <2>1, <2>2, <2>3, <2>4
    <2> QED
      BY <2>1, <2>5 DEF NoRepeat, c
  <1>2. ASSUME q # <<>>
        PROVE  NoRepeat(Tail(q)) /\ Head(q) \notin Range(Tail(q))
    <2> DEFINE n == Len(q)
               t == Tail(q)
    <2>1. /\ Head(q) = q[1] /\ n \in Nat \ {0} /\ Len(t) = n - 1 /\ t \in Seq(S)
          /\ \A i \in 1..(n - 1) : t[i] = q[i + 1]
      BY <1>2, TailShifts
    <2>2. \A i, j \in 1..n : q[i] = q[j] => i = j
      BY DEF NoRepeat
    <2> HIDE DEF n, t
    <2>3. \A i \in 1..(n - 1) : i + 1 \in 1..n /\ i + 1 # 1 /\ 1 \in 1..n
      BY <2>1
    <2>4. \A i \in 1..(n - 1) : t[i] # q[1]
      BY <2>1, <2>2, <2>3
    <2>5. ASSUME NEW i \in 1..(n - 1), NEW j \in 1..(n - 1), t[i] = t[j]
          PROVE  i = j
      <3>1. i + 1 = j + 1
        BY <2>1, <2>2, <2>3, <2>5
      <3> QED
        BY <2>1, <3>1
    <2>6. Range(t) = {t[i] : i \in 1..(n - 1)}
      BY <2>1, RangeIs
    <2> QED
      BY <2>1, <2>4, <2>5, <2>6 DEF NoRepeat, t
  <1> QED
    BY <1>1, <1>2

-----------------------------------------------------------------------------
(* Chunks among what was observed                                          *)

DataAt(q, r) == {i \in 1..Len(q) : IsData(q[i], r)}

\* Their number.
LEMMA DataCounted ==
    ASSUME NEW S, NEW q \in Seq(S), NEW r
    PROVE  IsFiniteSet(DataAt(q, r)) /\ Cardinality(DataAt(q, r)) \in Nat
  <1>1. IsFiniteSet(1..Len(q)) /\ DataAt(q, r) \in SUBSET (1..Len(q))
    BY LenProperties, FS_Interval DEF DataAt
  <1>2. IsFiniteSet(DataAt(q, r))
    BY <1>1, FS_Subset
  <1> QED
    BY <1>2, FS_CardinalityType

\* None among nothing.
LEMMA NoneCounted ==
    ASSUME NEW r
    PROVE  Cardinality(DataAt(<<>>, r)) = 0
  <1>1. DataAt(<<>>, r) = {}
    BY DEF DataAt
  <1> QED
    BY <1>1, FS_EmptySet

\* One more at the end counts if it is a chunk of the request's.
LEMMA OneMoreCounted ==
    ASSUME NEW S, NEW q \in Seq(S), NEW f \in S, NEW r
    PROVE  Cardinality(DataAt(q \o <<f>>, r)) =
              Cardinality(DataAt(q, r)) + IF IsData(f, r) THEN 1 ELSE 0
  <1> DEFINE m == Len(q)
             c == q \o <<f>>
  <1>1. <<f>> \in Seq(S) /\ Len(<<f>>) = 1 /\ <<f>>[1] = f
    OBVIOUS
  <1>2. /\ c \in Seq(S) /\ Len(c) = m + 1
        /\ \A i \in 1..(m + 1) : c[i] = IF i <= m THEN q[i] ELSE <<f>>[i - m]
    BY <1>1, ConcatProperties
  <1>3. m \in Nat
    BY LenProperties
  <1>4. c[m + 1] = f
    <2>1. m + 1 \in 1..(m + 1) /\ ~(m + 1 <= m) /\ (m + 1) - m = 1
      BY <1>3
    <2> QED
      BY <1>1, <1>2, <2>1
  <1> HIDE DEF m, c
  <1>5. \A i \in 1..m : c[i] = q[i]
    BY <1>2, <1>3
  <1>6. 1..(m + 1) = (1..m) \union {m + 1} /\ m + 1 \notin 1..m
    BY <1>3
  <1>7. DataAt(q, r) = {i \in 1..m : IsData(q[i], r)}
    BY DEF DataAt, m
  <1>8. DataAt(c, r) = {i \in 1..(m + 1) : IsData(c[i], r)}
    BY <1>2 DEF DataAt
  <1>9. Cardinality(DataAt(q, r)) \in Nat /\ IsFiniteSet(DataAt(q, r))
    BY DataCounted
  <1>10. CASE IsData(f, r)
    <2>1. DataAt(c, r) = DataAt(q, r) \union {m + 1} /\ m + 1 \notin DataAt(q, r)
      BY <1>4, <1>5, <1>6, <1>7, <1>8, <1>10
    <2>2. Cardinality(DataAt(c, r)) = Cardinality(DataAt(q, r)) + 1
      BY <1>9, <2>1, FS_AddElement
    <2> QED
      BY <1>10, <2>2 DEF c
  <1>11. CASE ~IsData(f, r)
    <2>1. DataAt(c, r) = DataAt(q, r)
      BY <1>4, <1>5, <1>6, <1>7, <1>8, <1>11
    <2> QED
      BY <1>9, <1>11, <2>1 DEF c
  <1> QED
    BY <1>10, <1>11

\* One less at the front counts if it was a chunk of the request's.
LEMMA OneLessCounted ==
    ASSUME NEW S, NEW q \in Seq(S), q # <<>>, NEW r
    PROVE  Cardinality(DataAt(q, r)) =
              Cardinality(DataAt(Tail(q), r)) + IF IsData(Head(q), r) THEN 1 ELSE 0
  <1> DEFINE n == Len(q)
             t == Tail(q)
             behind == DataAt(q, r) \ {1}
             shift == [i \in DataAt(t, r) |-> i + 1]
  <1>1. /\ t \in Seq(S) /\ Head(q) = q[1] /\ n \in Nat \ {0} /\ Len(t) = n - 1
        /\ \A i \in 1..(n - 1) : t[i] = q[i + 1]
    BY TailShifts
  <1>2. DataAt(q, r) = {i \in 1..n : IsData(q[i], r)}
    BY DEF DataAt
  <1> HIDE DEF n, t
  <1>3. DataAt(t, r) = {i \in 1..(n - 1) : IsData(t[i], r)}
    BY <1>1 DEF DataAt
  <1>4. IsFiniteSet(DataAt(q, r)) /\ IsFiniteSet(DataAt(t, r))
    BY <1>1, DataCounted
  <1>5. \A i \in DataAt(t, r) : i \in 1..(n - 1) /\ i + 1 \in behind
    <2> SUFFICES ASSUME NEW i \in DataAt(t, r)
                 PROVE  i \in 1..(n - 1) /\ i + 1 \in behind
      OBVIOUS
    <2>1. i \in 1..(n - 1) /\ IsData(t[i], r)
      BY <1>3
    <2>2. i + 1 \in 1..n /\ i + 1 # 1
      BY <1>1, <2>1
    <2> QED
      BY <1>1, <1>2, <2>1, <2>2
  <1>6. \A j \in behind : j - 1 \in DataAt(t, r) /\ j = (j - 1) + 1
    <2> SUFFICES ASSUME NEW j \in behind
                 PROVE  j - 1 \in DataAt(t, r) /\ j = (j - 1) + 1
      OBVIOUS
    <2>1. j \in 1..n /\ j # 1 /\ IsData(q[j], r)
      BY <1>2
    <2>2. j - 1 \in 1..(n - 1) /\ j = (j - 1) + 1
      BY <1>1, <2>1
    <2>3. t[j - 1] = q[j]
      BY <1>1, <2>2
    <2> QED
      BY <1>3, <2>1, <2>2, <2>3
  <1>7. shift \in Bijection(DataAt(t, r), behind)
    <2> HIDE DEF behind
    <2>1. shift \in [DataAt(t, r) -> behind]
      BY <1>5
    <2>2. \A i, j \in DataAt(t, r) : shift[i] = shift[j] => i = j
      BY <1>5
    <2>3. \A j \in behind : \E i \in DataAt(t, r) : shift[i] = j
      BY <1>6
    <2> QED
      BY <2>1, <2>2, <2>3 DEF Bijection, Injection, Surjection, IsInjective
  <1>8. Cardinality(behind) = Cardinality(DataAt(t, r)) /\ IsFiniteSet(behind)
    <2>1. ExistsBijection(DataAt(t, r), behind)
      BY <1>7 DEF ExistsBijection
    <2> QED
      BY <1>4, <2>1, FS_Bijection
  <1>9. Cardinality(DataAt(t, r)) \in Nat
    BY <1>1, DataCounted
  <1>10. IsData(Head(q), r) => Cardinality(DataAt(q, r)) = Cardinality(DataAt(t, r)) + 1
    <2> SUFFICES ASSUME IsData(Head(q), r)
                 PROVE  Cardinality(DataAt(q, r)) = Cardinality(DataAt(t, r)) + 1
      OBVIOUS
    <2>1. 1 \in DataAt(q, r)
      BY <1>1, <1>2
    <2>2. DataAt(q, r) = behind \union {1} /\ 1 \notin behind
      BY <2>1
    <2> HIDE DEF behind
    <2>3. Cardinality(DataAt(q, r)) = Cardinality(behind) + 1
      BY <1>8, <2>2, FS_AddElement
    <2> QED
      BY <1>8, <2>3
  <1>11. ~IsData(Head(q), r) => Cardinality(DataAt(q, r)) = Cardinality(DataAt(t, r))
    <2> SUFFICES ASSUME ~IsData(Head(q), r)
                 PROVE  Cardinality(DataAt(q, r)) = Cardinality(DataAt(t, r))
      OBVIOUS
    <2>1. DataAt(q, r) = behind
      BY <1>1, <1>2
    <2> QED
      BY <1>8, <2>1
  <1> QED
    BY <1>9, <1>10, <1>11 DEF t

-----------------------------------------------------------------------------
(* What the steps share                                                    *)

\* Sequences that stay hold what they held.
LEMMA QueueStays == ASSUME UNCHANGED queue PROVE InQueue' = InQueue
  BY DEF InQueue, Range

\* Likewise for the commands drained.
LEMMA BatchStays == ASSUME UNCHANGED batch PROVE InBatch' = InBatch
  BY DEF InBatch, Range

\* Likewise for what was observed.
LEMMA EventsStay ==
    ASSUME UNCHANGED events
    PROVE  /\ Noted' = Noted
           /\ \A q : Observed(q)' = Observed(q) /\ Closing(q)' = Closing(q)
  <1>1. Noted' = Noted
    BY DEF Noted, Range
  <1>2. \A q : Observed(q)' = Observed(q)
    BY DEF Observed, IsData
  <1> QED
    BY <1>1, <1>2 DEF Closing

\* Likewise for everything on its way to the dispatcher.
LEMMA PipelineStays ==
    ASSUME UNCHANGED <<wire, inbox, events>>
    PROVE  /\ Pipeline' = Pipeline
           /\ \A q : HeadComes(q)' = HeadComes(q) /\ BadHeadComes(q)' = BadHeadComes(q)
  <1>1. Pipeline' = Pipeline
    BY DEF Pipeline, Coming, Noted, Range
  <1> QED
    BY <1>1 DEF HeadComes, BadHeadComes

\* The terms of the account are numbers.
LEMMA Accounted ==
    ASSUME ClientInv
    PROVE  \A q \in Requests : /\ owed[q] \in Nat /\ chunks[q] \in Nat /\ credits[q] \in Nat
                              /\ unread[q] \in Nat /\ Observed(q) \in Nat
  <1>1. \A q : Observed(q) \in Nat
    BY DataCounted DEF ClientInv, WireTypes, Observed, DataAt
  <1> QED
    BY <1>1 DEF ClientInv, OwedTypes, InTypes, SetTypes, AppTypes

\* A poll of the reading half: it stops for want of room, with an inbox to be emptied, for
\* want of octets, with its waker left, or at the end.
LEMMA ReadMoves ==
    ASSUME ClientInv, Read
    PROVE  /\ wire' \in Seq(Frames) /\ inbox' \in Seq(Frames) /\ Len(inbox') <= ReadAhead
           /\ Coming' \subseteq Coming
           /\ reader' \in {"armed", "full", "ended"} /\ intake' \in BOOLEAN
           /\ notified' \in BOOLEAN
           /\ reader' = "ended" <=> intake'
           /\ reader' = "armed" => wire' = <<>>
           /\ reader' = "full" => inbox' # <<>>
           /\ \A i \in 1..Len(wire') : wire'[i].k = "eof" => i = Len(wire')
  <1> DEFINE room == IF reader = "ended" THEN 0 ELSE ReadAhead - Len(inbox)
             m == Len(wire)
             Fits(n) == /\ n <= m
                        /\ \A i \in 1..n : wire[i].k # "eof"
                        /\ n = room \/ n = m \/ wire[n + 1].k = "eof"
             n == CHOOSE n \in 0..room : Fits(n)
             eof == n < room /\ n < m
  <1>1. /\ wire \in Seq(Frames) /\ inbox \in Seq(Frames) /\ m \in Nat /\ Len(inbox) \in Nat
        /\ Len(inbox) <= ReadAhead /\ ReadAhead \in Nat \ {0}
    BY LenProperties, H2Assumption DEF ClientInv, WireTypes
  <1>2. room \in Nat
    BY <1>1
  <1>3. \A i \in 1..m : wire[i].k = "eof" => i = m
    BY DEF ClientInv, Reading
  <1>4. /\ inbox' = inbox \o SubSeq(wire, 1, n)
        /\ wire' = SubSeq(wire, n + 1, m)
        /\ intake' = (intake \/ eof)
        /\ reader' = CASE eof -> "ended"
                       [] ~eof /\ reader # "ended" /\ n = room -> "full"
                       [] ~eof /\ reader # "ended" /\ n < room -> "armed"
                       [] ~eof /\ reader = "ended" -> "ended"
        /\ notified' = (n > 0 \/ eof)
    BY DEF Read
  <1>5. \E k \in 0..room : Fits(k)
    <2> HIDE DEF room, m
    <2>1. CASE room < m
      <3>1. Fits(room)
        BY <1>1, <1>2, <1>3, <2>1
      <3> QED
        BY <1>2, <3>1
    <2>2. CASE m <= room /\ \A i \in 1..m : wire[i].k # "eof"
      <3>1. Fits(m)
        BY <1>1, <2>2
      <3> QED
        BY <1>1, <1>2, <2>2, <3>1
    <2>3. CASE m <= room /\ \E i \in 1..m : wire[i].k = "eof"
      <3>1. m > 0 /\ wire[m].k = "eof"
        BY <1>1, <1>3, <2>3
      <3>2. m - 1 \in 0..room /\ (m - 1) + 1 = m /\ m - 1 <= m
        BY <1>1, <1>2, <2>3, <3>1
      <3>3. \A i \in 1..(m - 1) : wire[i].k # "eof"
        BY <1>1, <1>3
      <3>4. Fits(m - 1)
        BY <3>1, <3>2, <3>3
      <3> QED
        BY <3>2, <3>4
    <2> QED
      BY <1>1, <1>2, <2>1, <2>2, <2>3
  <1> HIDE DEF Fits
  <1>6. n \in 0..room /\ Fits(n)
    BY <1>5
  <1> HIDE DEF n
  <1>7. /\ n \in 0..room /\ n <= m
        /\ \A i \in 1..n : wire[i].k # "eof"
        /\ n = room \/ n = m \/ wire[n + 1].k = "eof"
    BY <1>6 DEF Fits
  <1> HIDE DEF room, m
  <1>8. n \in Nat /\ n <= room /\ n \in 0..m
    BY <1>1, <1>2, <1>7
  <1>9. eof => wire[n + 1].k = "eof"
    BY <1>1, <1>2, <1>7, <1>8
  <1>10. /\ SubSeq(wire, 1, n) \in Seq(Frames) /\ SubSeq(wire, n + 1, m) \in Seq(Frames)
         /\ Len(SubSeq(wire, 1, n)) = n /\ Len(SubSeq(wire, n + 1, m)) = m - n
         /\ \A i \in 1..(m - n) : SubSeq(wire, n + 1, m)[i] = wire[n + i]
         /\ Range(SubSeq(wire, 1, n)) \subseteq Range(wire)
         /\ Range(SubSeq(wire, n + 1, m)) \subseteq Range(wire)
    BY <1>1, <1>8, RangeSplit DEF m
  <1>11. /\ inbox' \in Seq(Frames) /\ Len(inbox') = Len(inbox) + n
         /\ Range(inbox') = Range(inbox) \union Range(SubSeq(wire, 1, n))
    <2>1. inbox' = inbox \o SubSeq(wire, 1, n)
      BY <1>4
    <2> HIDE DEF eof
    <2> DEFINE w == SubSeq(wire, 1, n)
    <2>2. w \in Seq(Frames) /\ Len(w) = n
      BY <1>10
    <2> HIDE DEF w
    <2>3. inbox \o w \in Seq(Frames) /\ Len(inbox \o w) = Len(inbox) + Len(w)
      BY <1>1, <2>2, ConcatProperties
    <2>4. Range(inbox \o w) = Range(inbox) \union Range(w)
      BY <1>1, <2>2, RangeConcat
    <2> QED
      BY <2>1, <2>2, <2>3, <2>4 DEF w
  <1>12. wire' \in Seq(Frames) /\ Len(wire') = m - n
    BY <1>4, <1>10
  <1>13. Coming' \subseteq Coming
    BY <1>4, <1>10, <1>11 DEF Coming
  <1>14. Len(inbox') <= ReadAhead /\ (reader' = "full" => Len(inbox') = ReadAhead)
    <2>1. n = room \/ n < room
      BY <1>2, <1>8
    <2>2. reader' = "full" => n = room /\ reader # "ended"
      <3> HIDE DEF eof
      <3> QED
        BY <1>4, <2>1
    <2> QED
      BY <1>1, <1>8, <1>11, <2>2 DEF room
  <1>15. reader' = "full" => inbox' # <<>>
    BY <1>1, <1>14
  <1>16. reader' = "armed" => wire' = <<>>
    <2> SUFFICES ASSUME reader' = "armed" PROVE wire' = <<>>
      OBVIOUS
    <2>1. n = room \/ n < room
      BY <1>2, <1>8
    <2>2. ~eof /\ n < room
      <3> HIDE DEF eof
      <3> QED
        BY <1>4, <2>1
    <2>3. n = m
      BY <1>1, <1>8, <2>2
    <2>4. Len(wire') = 0
      BY <1>1, <1>12, <2>3
    <2> QED
      BY <1>12, <2>4, EmptySeq
  <1>17. reader' \in {"armed", "full", "ended"} /\ (reader' = "ended" <=> eof \/ reader = "ended")
    <2>1. n = room \/ n < room
      BY <1>2, <1>8
    <2> HIDE DEF eof
    <2> QED
      BY <1>4, <2>1
  <1>18. (reader = "ended" <=> intake) /\ intake \in BOOLEAN
    BY DEF ClientInv, Place, DriverFlags
  <1>19. intake' \in BOOLEAN /\ (intake' <=> intake \/ eof) /\ notified' \in BOOLEAN
    BY <1>4
  <1>20. ASSUME NEW i \in 1..Len(wire'), wire'[i].k = "eof"
         PROVE  i = Len(wire')
    <2>1. i \in 1..(m - n) /\ wire'[i] = wire[n + i]
      BY <1>4, <1>10, <1>12
    <2>2. n + i \in 1..m
      BY <1>1, <1>8, <2>1
    <2>3. n + i = m
      BY <1>3, <1>20, <2>1, <2>2
    <2> QED
      BY <1>1, <1>8, <1>12, <2>1, <2>3
  <1> QED
    BY <1>11, <1>12, <1>13, <1>14, <1>15, <1>16, <1>17, <1>18, <1>19, <1>20

\* Stream identifiers count from one.
LEMMA NextSidCounts == NextSid \in Nat /\ NextSid > 0
  <1> DEFINE S == {r \in Requests : sid[r] > 0}
  <1>1. IsFiniteSet(S)
    BY FS_Subset, H2Assumption
  <1>2. Cardinality(S) \in Nat
    BY <1>1, FS_CardinalityType
  <1> QED
    BY <1>2 DEF NextSid

-----------------------------------------------------------------------------
(* Each layer is kept by a step that leaves its variables alone.            *)

\* The application's side of a request.
LEMMA AppTypesStays ==
    ASSUME AppTypes, UNCHANGED <<pc, unread, result, up, prod>>
    PROVE  AppTypes'
  BY DEF AppTypes

\* The handles.
LEMMA HandleTypesStays ==
    ASSUME HandleTypes, UNCHANGED <<clones, token, shutter>>
    PROVE  HandleTypes'
  BY DEF HandleTypes

\* The slots.
LEMMA SlotTypesStays ==
    ASSUME SlotTypes, UNCHANGED <<slot, bodyAt, abandoned>>
    PROVE  SlotTypes'
  BY DEF SlotTypes

\* The messages.
LEMMA InTypesStays ==
    ASSUME InTypes, UNCHANGED <<chunks, finished, failed, unwanted>>
    PROVE  InTypes'
  BY DEF InTypes

\* The commands.
LEMMA QueueTypesStays ==
    ASSUME QueueTypes, UNCHANGED <<queue, batch>>
    PROVE  QueueTypes'
  BY DEF QueueTypes

\* What the handles report.
LEMMA SetTypesStays ==
    ASSUME SetTypes, UNCHANGED <<credits, resets, ready>>
    PROVE  SetTypes'
  BY DEF SetTypes

\* The flags of Shared.
LEMMA SharedFlagsStays ==
    ASSUME SharedFlags, UNCHANGED <<shutdown, refusing, gone, notified>>
    PROVE  SharedFlags'
  BY DEF SharedFlags

\* The flags of the driver and its session.
LEMMA DriverFlagsStays ==
    ASSUME DriverFlags, UNCHANGED <<fed, intake, barred>>
    PROVE  DriverFlags'
  BY DEF DriverFlags

\* Where the driver is.
LEMMA DriverTypesStays ==
    ASSUME DriverTypes, UNCHANGED <<drv, parkAt, reader, ended, registry>>
    PROVE  DriverTypes'
  BY DEF DriverTypes

\* What is observed, read and on its way.
LEMMA WireTypesStays ==
    ASSUME WireTypes, UNCHANGED <<events, wire, inbox>>
    PROVE  WireTypes'
  BY DEF WireTypes

\* The streams.
LEMMA SessionTypesStays ==
    ASSUME SessionTypes, UNCHANGED <<str, sid, rended, resumed>>
    PROVE  SessionTypes'
  BY DEF SessionTypes

\* The window.
LEMMA OwedTypesStays ==
    ASSUME OwedTypes, UNCHANGED <<owed>>
    PROVE  OwedTypes'
  BY DEF OwedTypes

\* The peer.
LEMMA PeerTypesStays ==
    ASSUME PeerTypes, UNCHANGED <<peer, sent, last, scene>>
    PROVE  PeerTypes'
  BY DEF PeerTypes, MaxData

\* Where a pass is.
LEMMA PlaceStays ==
    ASSUME Place, UNCHANGED <<drv, batch, gone, events, reader, intake, registry>>
    PROVE  Place'
  BY DEF Place, Alive

\* Commands are pushed once.
LEMMA CommandsStays ==
    ASSUME Commands, UNCHANGED <<queue, batch, sid, pc>>
    PROVE  Commands'
  BY QueueStays, BatchStays DEF Commands

\* What comes with a stream.
LEMMA UnboundStays ==
    ASSUME Unbound, UNCHANGED <<sid, str, registry, peer, slot, finished, failed>>
    PROVE  Unbound'
  BY DEF Unbound

\* Whoever waits is known.
LEMMA AwaitedStays ==
    ASSUME Awaited, UNCHANGED <<pc, slot, queue, batch, registry, abandoned, bodyAt,
           finished, failed, drv>>
    PROVE  Awaited'
  BY QueueStays, BatchStays DEF Awaited

\* GOAWAY and what it spares.
LEMMA RefusalsStays ==
    ASSUME Refusals, UNCHANGED <<wire, inbox, events, last, peer, sid, slot, pc,
           queue, batch>>
    PROVE  Refusals'
  BY QueueStays, BatchStays, PipelineStays DEF Refusals

\* One head a response.
LEMMA HeadsStays ==
    ASSUME Heads, UNCHANGED <<peer, slot, wire, inbox, events, failed, registry,
           finished>>
    PROVE  Heads'
  BY PipelineStays DEF Heads

\* The registry against the session.
LEMMA TrackedStays ==
    ASSUME Tracked, UNCHANGED <<drv, str, registry, barred, events, sid, last>>
    PROVE  Tracked'
  BY EventsStay DEF Tracked, Alive

\* The account of the window.
LEMMA WindowConservedStays ==
    ASSUME WindowConserved, UNCHANGED <<drv, owed, chunks, credits, unread, events,
           pc>>
    PROVE  WindowConserved'
  BY EventsStay DEF WindowConserved, Alive

\* What a drop has yet to report.
LEMMA UnreportedStays ==
    ASSUME Unreported, UNCHANGED <<unread, pc>>
    PROVE  Unreported'
  BY DEF Unreported

\* The reading half.
LEMMA ReadingStays ==
    ASSUME Reading, UNCHANGED <<reader, wire, notified, drv, inbox, fed>>
    PROVE  Reading'
  BY DEF Reading, Alive

\* Commands, bodies and shutdown at the park.
LEMMA ParkedQueueStays ==
    ASSUME ParkedQueue, UNCHANGED <<notified, drv, parkAt, queue, pc, ready, prod,
           shutdown, shutter>>
    PROVE  ParkedQueue'
  BY QueueStays DEF ParkedQueue, Passed

\* Credits and resets at the park.
LEMMA ParkedSetsStays ==
    ASSUME ParkedSets, UNCHANGED <<notified, drv, parkAt, credits, pc, resets>>
    PROVE  ParkedSets'
  BY DEF ParkedSets, Passed

\* Inbox and handles at the park.
LEMMA ParkedInboxStays ==
    ASSUME ParkedInbox, UNCHANGED <<notified, drv, token, registry, inbox, intake>>
    PROVE  ParkedInbox'
  BY DEF ParkedInbox, Done

-----------------------------------------------------------------------------
(* Frames and events                                                       *)

\* What the fields of a frame are, and which frames are also events.
LEMMA FrameKinds ==
    ASSUME NEW f \in Frames
    PROVE  /\ f.k \in {"head", "badhead", "data", "end"} => f.r \in Requests /\ f \in Events
           /\ f.k = "rst" => f.r \in Requests
           /\ f.k = "goaway" => f \in Events /\ f.last \in Nat
  BY DEF Frames, Events

\* The fields of an event.
LEMMA EventKinds ==
    ASSUME NEW e \in Events
    PROVE  /\ e.k \in {"head", "badhead", "data", "end"} => e.r \in Requests
           /\ e.k = "goaway" => e.last \in Nat
           /\ e.k = "close" => e.rs \subseteq Requests
  BY DEF Events

\* A closure is an event, and not of the other kinds.
LEMMA ClosureIsEvent ==
    ASSUME NEW rs \in SUBSET Requests
    PROVE  LET c == [k |-> "close", rs |-> rs]
           IN  c \in Events /\ c.k = "close" /\ c.rs = rs /\ <<c>> \in Seq(Events)
  BY DEF Events

\* What is observed, counted.
LEMMA ObservedIs == \A q : Observed(q) = Cardinality(DataAt(events, q))
  BY DEF Observed, DataAt

-----------------------------------------------------------------------------
(* A buffer fed to the session                                             *)

\* The frame fed moves from the inbox to what is observed, or is ignored; streams it closes
\* were open; and the window it takes is observed.
LEMMA ObserveMoves ==
    ASSUME ClientInv, FeedOne
    PROVE  \E f \in Frames, closed \in SUBSET Requests :
              /\ f \in Coming /\ inbox' \in Seq(Frames) /\ Len(inbox') <= ReadAhead
              /\ Range(inbox') \subseteq Range(inbox)
              /\ events' \in Seq(Events)
              /\ Noted \subseteq Noted'
              /\ \A e \in Noted' : e \in Noted \/ e = f \/ (e.k = "close" /\ e.rs = closed)
              /\ closed # {} => \E e \in Noted' : e.k = "close" /\ e.rs = closed
              /\ f.k # "close"
              /\ \A q \in closed : str[q] \in {"open", "rst"}
              /\ f.k = "goaway" => \A q \in Requests :
                    str[q] \in {"open", "rst"} /\ sid[q] > f.last => q \in closed
              /\ \A q \in Requests : str'[q] = IF q \in closed THEN "closed" ELSE str[q]
              /\ \A q \in Requests : \/ owed'[q] = owed[q] /\ Observed(q)' = Observed(q)
                                     \/ owed'[q] = owed[q] + 1 /\ Observed(q)' = Observed(q) + 1
              /\ barred' = (barred \/ f.k = "goaway")
  <1> DEFINE f == Head(inbox)
             closed == CASE f.k = "end" /\ str[f.r] = "open" /\ up[f.r] = "eof" -> {f.r}
                         [] f.k = "rst" /\ str[f.r] \in {"open", "rst"} -> {f.r}
                         [] f.k = "goaway" -> {r \in Requests : /\ str[r] \in {"open", "rst"}
                                                                /\ sid[r] > f.last}
                         [] OTHER -> {}
             seen == CASE /\ f.k \in {"head", "badhead", "data", "end"}
                          /\ str[f.r] = "open" -> <<f>>
                       [] f.k = "goaway" -> <<f>>
                       [] OTHER -> <<>>
             c == [k |-> "close", rs |-> closed]
             last2 == IF closed = {} THEN <<>> ELSE <<c>>
  <1>1. /\ inbox \in Seq(Frames) /\ inbox # <<>> /\ inbox' = Tail(inbox)
        /\ events \in Seq(Events) /\ Len(inbox) <= ReadAhead /\ ReadAhead \in Nat
    BY H2Assumption DEF FeedOne, ClientInv, WireTypes
  <1>2. /\ f \in Frames /\ f \in Coming /\ inbox' \in Seq(Frames)
        /\ Range(inbox') \subseteq Range(inbox) /\ Len(inbox') <= ReadAhead
    <2>1. Range(inbox) = {f} \union Range(inbox') /\ f \in Frames /\ inbox' \in Seq(Frames)
      BY <1>1, RangeTail
    <2>2. Len(inbox') <= ReadAhead
      BY <1>1, TailShifts
    <2> QED
      BY <2>1, <2>2 DEF Coming
  <1>3. /\ events' = events \o seen \o last2
        /\ str' = [r \in Requests |-> IF r \in closed THEN "closed" ELSE str[r]]
        /\ owed' = [r \in Requests |->
                       IF f.k = "data" /\ seen # <<>> /\ f.r = r THEN owed[r] + 1 ELSE owed[r]]
        /\ barred' = (barred \/ f.k = "goaway")
    BY DEF FeedOne, Observe
  <1> HIDE DEF f
  <1>4. /\ f.k \in {"head", "badhead", "data", "end"} => f.r \in Requests /\ f \in Events
        /\ f.k = "rst" => f.r \in Requests
        /\ f.k = "goaway" => f \in Events
    BY <1>2, FrameKinds
  <1>5. /\ closed \in SUBSET Requests
        /\ \A q \in closed : str[q] \in {"open", "rst"}
        /\ f.k = "goaway" => closed = {r \in Requests : /\ str[r] \in {"open", "rst"}
                                                        /\ sid[r] > f.last}
    BY <1>4
  <1>6. seen = <<>> \/ (seen = <<f>> /\ f \in Events)
    BY <1>4
  <1>7. f.k # "close"
    BY <1>2 DEF Frames
  <1> HIDE DEF closed, seen
  <1>8. c \in Events /\ c.k = "close" /\ c.rs = closed /\ <<c>> \in Seq(Events)
    BY <1>5, ClosureIsEvent
  <1> HIDE DEF c
  <1> DEFINE ev == events \o seen
  <1>9. /\ ev \in Seq(Events) /\ Range(ev) = Range(events) \union Range(seen)
        /\ \A q : Cardinality(DataAt(ev, q)) = Cardinality(DataAt(events, q))
                     + IF seen # <<>> /\ IsData(f, q) THEN 1 ELSE 0
    <2>1. CASE seen = <<>>
      <3>1. ev = events
        BY <1>1, <2>1, ConcatEmptySeq
      <3>2. \A q : Cardinality(DataAt(events, q)) \in Nat
        BY <1>1, DataCounted
      <3> QED
        BY <1>1, <2>1, <3>1, <3>2, RangeShort
    <2>2. CASE seen = <<f>> /\ f \in Events
      <3>1. seen \in Seq(Events)
        BY <2>2
      <3>2. ev \in Seq(Events) /\ Range(ev) = Range(events) \union Range(seen)
        BY <1>1, <3>1, ConcatProperties, RangeConcat
      <3>3. \A q : Cardinality(DataAt(ev, q)) = Cardinality(DataAt(events, q))
                      + IF IsData(f, q) THEN 1 ELSE 0
        BY <1>1, <2>2, OneMoreCounted
      <3>4. seen # <<>>
        BY <2>2
      <3> QED
        BY <3>2, <3>3, <3>4
    <2> QED
      BY <1>6, <2>1, <2>2
  <1> HIDE DEF ev
  <1>10. /\ events' \in Seq(Events) /\ Range(events') = Range(ev) \union Range(last2)
         /\ \A q : Cardinality(DataAt(events', q)) = Cardinality(DataAt(ev, q))
    <2>1. events' = ev \o last2
      BY <1>3 DEF ev
    <2>2. CASE closed = {}
      <3>1. last2 = <<>> /\ events' = ev
        BY <1>9, <2>1, <2>2, ConcatEmptySeq
      <3> QED
        BY <1>9, <3>1, RangeShort
    <2>3. CASE closed # {}
      <3>1. last2 = <<c>> /\ last2 \in Seq(Events)
        BY <1>8, <2>3
      <3>2. events' \in Seq(Events) /\ Range(events') = Range(ev) \union Range(last2)
        <4> HIDE DEF last2
        <4>1. ev \in Seq(Events) /\ last2 \in Seq(Events)
          BY <1>9, <3>1
        <4>2. ev \o last2 \in Seq(Events)
          BY <4>1, ConcatProperties
        <4>3. Range(ev \o last2) = Range(ev) \union Range(last2)
          BY <4>1, RangeConcat
        <4> QED
          BY <2>1, <4>2, <4>3
      <3>3. \A q : ~IsData(c, q)
        BY <1>8 DEF IsData
      <3>4. \A q : Cardinality(DataAt(events', q)) = Cardinality(DataAt(ev, q)) + 0
        BY <1>8, <1>9, <2>1, <3>1, <3>3, OneMoreCounted
      <3>5. \A q : Cardinality(DataAt(ev, q)) \in Nat
        BY <1>9, DataCounted
      <3> QED
        BY <3>2, <3>4, <3>5
    <2> QED
      BY <2>2, <2>3
  <1>11. Range(seen) \subseteq {f}
    BY <1>6, RangeShort
  <1>12. Range(last2) \subseteq {c} /\ (closed # {} => Range(last2) = {c})
    BY RangeShort
  <1> HIDE DEF last2
  <1>13. Noted' = Noted \union Range(seen) \union Range(last2)
    BY <1>9, <1>10 DEF Noted
  <1>14. \A q \in Requests : \/ owed'[q] = owed[q] /\ Observed(q)' = Observed(q)
                             \/ owed'[q] = owed[q] + 1 /\ Observed(q)' = Observed(q) + 1
    <2> SUFFICES ASSUME NEW q \in Requests
                 PROVE  \/ owed'[q] = owed[q] /\ Observed(q)' = Observed(q)
                        \/ owed'[q] = owed[q] + 1 /\ Observed(q)' = Observed(q) + 1
      OBVIOUS
    <2>1. Observed(q) = Cardinality(DataAt(events, q))
      BY ObservedIs
    <2>2. Observed(q)' = Cardinality(DataAt(events', q))
      BY DEF Observed, DataAt
    <2>3. Cardinality(DataAt(events, q)) \in Nat
      BY <1>1, DataCounted
    <2>4. Observed(q)' = Observed(q) + IF seen # <<>> /\ IsData(f, q) THEN 1 ELSE 0
      BY <1>9, <1>10, <2>1, <2>2
    <2>5. owed'[q] = IF seen # <<>> /\ IsData(f, q) THEN owed[q] + 1 ELSE owed[q]
      BY <1>3 DEF IsData
    <2> QED
      BY <2>1, <2>3, <2>4, <2>5
  <1>15. \A q \in Requests : str'[q] = IF q \in closed THEN "closed" ELSE str[q]
    BY <1>3
  <1>16. /\ Noted \subseteq Noted'
         /\ \A e \in Noted' : e \in Noted \/ e = f \/ (e.k = "close" /\ e.rs = closed)
         /\ closed # {} => \E e \in Noted' : e.k = "close" /\ e.rs = closed
    BY <1>8, <1>11, <1>12, <1>13
  <1>17. f.k = "goaway" => \A q \in Requests :
                     str[q] \in {"open", "rst"} /\ sid[q] > f.last => q \in closed
    BY <1>5
  <1> QED
    BY <1>2, <1>3, <1>5, <1>10, <1>14, <1>15, <1>7, <1>16, <1>17

-----------------------------------------------------------------------------
(* The arms of dispatch                                                    *)

DispatchRest ==
    /\ drv \in {"dispatch", "dispatch2"} /\ events # <<>>
    /\ events' = Tail(events)
    /\ UNCHANGED <<appVars, abandoned, queue, resets, ready, shutdown, gone, drvVars,
                   readVars, ended, sid, rended, resumed, barred, peerVars, wire>>

HeadDispatched == DispatchHead(Head(events)) /\ DispatchRest
BadHeadDispatched == DispatchBadHead(Head(events)) /\ DispatchRest
DataDispatched == DispatchData(Head(events)) /\ DispatchRest
EndDispatched == DispatchEnd(Head(events)) /\ DispatchRest
GoawayDispatched == DispatchGoaway(Head(events)) /\ DispatchRest
CloseDispatched == DispatchClose(Head(events)) /\ DispatchRest

\* One event leaves the list; what else was observed stays.
LEMMA DispatchTakes ==
    ASSUME ClientInv, DispatchRest
    PROVE  LET e == Head(events)
           IN  /\ e \in Events /\ e \in Pipeline /\ e \in Noted /\ events' \in Seq(Events)
               /\ Pipeline' \subseteq Pipeline /\ Noted = {e} \union Noted'
               /\ \A q : /\ IsData(e, q) => Observed(q) = Observed(q)' + 1
                         /\ ~IsData(e, q) => Observed(q)' = Observed(q)
                         /\ Observed(q)' \in Nat
  <1> DEFINE e == Head(events)
  <1>1. /\ events \in Seq(Events) /\ events # <<>> /\ events' = Tail(events)
        /\ UNCHANGED <<wire, inbox>>
    BY DEF DispatchRest, ClientInv, WireTypes, readVars
  <1>2. e \in Events /\ events' \in Seq(Events) /\ Noted = {e} \union Noted'
    BY <1>1, RangeTail DEF Noted
  <1>3. Coming' = Coming
    BY <1>1 DEF Coming, Range
  <1>4. \A q : /\ Observed(q) = Cardinality(DataAt(events, q))
               /\ Observed(q)' = Cardinality(DataAt(events', q))
    BY DEF Observed, DataAt
  <1>5. \A q : Cardinality(DataAt(events, q)) =
                  Cardinality(DataAt(events', q)) + IF IsData(e, q) THEN 1 ELSE 0
    BY <1>1, OneLessCounted
  <1>6. \A q : Cardinality(DataAt(events', q)) \in Nat
    BY <1>2, DataCounted
  <1> HIDE DEF e
  <1>7. \A q : /\ IsData(e, q) => Observed(q) = Observed(q)' + 1
               /\ ~IsData(e, q) => Observed(q)' = Observed(q)
               /\ Observed(q)' \in Nat
    BY <1>4, <1>5, <1>6
  <1>8. e \in Pipeline /\ Pipeline' \subseteq Pipeline
    BY <1>2, <1>3 DEF Pipeline
  <1> QED
    BY <1>2, <1>7, <1>8 DEF e

\* Entries that leave the registry: their slots and messages are settled, and the window of
\* a body dropped with its slot is reported with a wake.
LEMMA RemoveMoves ==
    ASSUME ClientInv, NEW rs \in SUBSET registry, NEW error \in Errors, Remove(rs, error)
    PROVE  /\ registry' = registry \ rs
           /\ \A q \in Requests :
                 slot'[q] = IF q \in rs /\ slot[q] = "open" THEN error ELSE slot[q]
           /\ slot' \in [Requests -> Errors \union {"open", "head"}]
           /\ failed' = failed \union (rs \ finished)
           /\ \A q \in Requests : bodyAt'[q] = bodyAt[q] \/ bodyAt'[q] = "gone"
           /\ bodyAt' \in [Requests -> {"none", "slot", "caller", "gone"}]
           /\ unwanted' \subseteq Requests
           /\ chunks' \in [Requests -> Nat] /\ credits' \in [Requests -> Nat]
           /\ \A q \in Requests : /\ chunks'[q] + credits'[q] = chunks[q] + credits[q]
                                  /\ credits'[q] = credits[q] \/ notified'
           /\ notified => notified'
           /\ notified' \in BOOLEAN
  <1> DEFINE orphans == Orphans(rs)
  <1>1. orphans \subseteq Requests
    BY DEF Orphans, ClientInv, DriverTypes
  <1>2. /\ registry' = registry \ rs /\ failed' = failed \union (rs \ finished)
        /\ slot' = [r \in Requests |->
                       IF r \in rs /\ slot[r] = "open" THEN error ELSE slot[r]]
        /\ bodyAt' = [r \in Requests |-> IF r \in orphans THEN "gone" ELSE bodyAt[r]]
        /\ unwanted' = unwanted \union orphans
        /\ chunks' = [r \in Requests |-> IF r \in orphans THEN 0 ELSE chunks[r]]
        /\ credits' = [r \in Requests |->
                          IF r \in orphans THEN credits[r] + chunks[r] ELSE credits[r]]
        /\ notified' = (notified \/ \E r \in orphans : chunks[r] > 0)
    BY DEF Remove, FailSlots, FailIncoming, DropSlotBodies
  <1> HIDE DEF orphans
  <1>3. /\ slot \in [Requests -> Errors \union {"open", "head"}]
        /\ bodyAt \in [Requests -> {"none", "slot", "caller", "gone"}]
        /\ unwanted \subseteq Requests
        /\ chunks \in [Requests -> Nat] /\ credits \in [Requests -> Nat]
    BY DEF ClientInv, SlotTypes, InTypes, SetTypes
  <1>4. (notified => notified') /\ notified' \in BOOLEAN
    BY <1>2
  <1>5. \A q \in Requests : /\ chunks'[q] + credits'[q] = chunks[q] + credits[q]
                            /\ credits'[q] = credits[q] \/ notified'
    <2> SUFFICES ASSUME NEW q \in Requests
                 PROVE  /\ chunks'[q] + credits'[q] = chunks[q] + credits[q]
                        /\ credits'[q] = credits[q] \/ notified'
      OBVIOUS
    <2>1. chunks[q] \in Nat /\ credits[q] \in Nat
      BY <1>3
    <2>2. CASE q \in orphans /\ chunks[q] > 0
      <3>1. notified'
        BY <1>2, <2>2
      <3> QED
        BY <1>2, <2>1, <2>2, <3>1
    <2>3. CASE q \notin orphans \/ chunks[q] = 0
      BY <1>2, <2>1, <2>3
    <2> QED
      BY <2>1, <2>2, <2>3
  <1>6. chunks' \in [Requests -> Nat] /\ credits' \in [Requests -> Nat]
    BY <1>2, <1>3
  <1>7. /\ slot' \in [Requests -> Errors \union {"open", "head"}]
        /\ bodyAt' \in [Requests -> {"none", "slot", "caller", "gone"}]
        /\ unwanted' \subseteq Requests
    BY <1>1, <1>2, <1>3
  <1> QED
    BY <1>2, <1>4, <1>5, <1>6, <1>7

-----------------------------------------------------------------------------
(* The peer                                                                *)

\* A frame joins what is on its way, behind frames that do not end the connection, and
\* a reading half that waits for it is woken.
LEMMA PeerSendMoves ==
    ASSUME ClientInv, NEW f \in Frames, PeerSend(f)
    PROVE  /\ wire' \in Seq(Frames) /\ Pipeline' = Pipeline \union {f}
           /\ \A q : /\ HeadComes(q)' <=> HeadComes(q) \/ (f.k = "head" /\ f.r = q)
                     /\ BadHeadComes(q)' <=> BadHeadComes(q) \/ (f.k = "badhead" /\ f.r = q)
           /\ \A i \in 1..Len(wire') : wire'[i].k = "eof" => i = Len(wire')
           /\ reader = "armed" => notified'
           /\ notified => notified'
           /\ notified' \in BOOLEAN
  <1>1. /\ wire \in Seq(Frames) /\ wire' = Append(wire, f) /\ UNCHANGED <<inbox, events>>
        /\ \A g \in Range(wire) : g.k # "eof"
        /\ notified' = (notified \/ reader = "armed")
    BY DEF PeerSend, ClientInv, WireTypes, readVars
  <1>2. /\ wire' \in Seq(Frames) /\ Len(wire') = Len(wire) + 1 /\ Len(wire) \in Nat
        /\ \A i \in 1..Len(wire) : wire'[i] = wire[i]
    BY <1>1, AppendProperties, LenProperties
  <1>3. Range(wire') = Range(wire) \union {f}
    BY <1>1, RangeAppend
  <1>4. Range(inbox') = Range(inbox) /\ Noted' = Noted
    BY <1>1 DEF Noted
  <1>5. Pipeline' = Pipeline \union {f}
    BY <1>3, <1>4 DEF Pipeline, Coming
  <1>6. \A q : /\ HeadComes(q)' <=> HeadComes(q) \/ (f.k = "head" /\ f.r = q)
               /\ BadHeadComes(q)' <=> BadHeadComes(q) \/ (f.k = "badhead" /\ f.r = q)
    BY <1>5 DEF HeadComes, BadHeadComes
  <1>7. \A i \in 1..Len(wire) : wire[i].k # "eof"
    BY <1>1, RangeIs
  <1>8. \A i \in 1..Len(wire') : wire'[i].k = "eof" => i = Len(wire')
    BY <1>2, <1>7
  <1> QED
    BY <1>1, <1>2, <1>5, <1>6, <1>8

-----------------------------------------------------------------------------
(* One lemma for each action                                               *)

USE DEF ClientInv, appVars, slotVars, inVars, flagVars, setVars, drvVars, readVars, sessVars,
        peerVars

\* is_gone: a slot failed at birth belongs to a request that waits for no one.
LEMMA SendStartKeeps ==
    ASSUME NEW r \in Requests, ClientInv, SendStart(r)
    PROVE  ClientInv'
  <1>1. InQueue' = InQueue
    BY QueueStays DEF SendStart
  <1>2. InBatch' = InBatch
    BY BatchStays DEF SendStart
  <1>3. /\ Pipeline' = Pipeline
        /\ \A q : HeadComes(q)' = HeadComes(q) /\ BadHeadComes(q)' = BadHeadComes(q)
    BY PipelineStays DEF SendStart
  <1>4. /\ Noted' = Noted
        /\ \A q : Observed(q)' = Observed(q) /\ Closing(q)' = Closing(q)
    BY EventsStay DEF SendStart
  <1>5. UNCHANGED <<unread, result, up, prod, clones, token, shutter, abandoned,
        bodyAt, chunks, finished, failed, unwanted, queue, credits, resets, ready,
        shutdown, refusing, gone, notified, drv, parkAt, batch, events, inbox, reader,
        intake, fed, ended, registry, str, sid, rended, resumed, barred, owed, peer,
        sent, last, wire, scene>>
    BY DEF SendStart
  <1>6. /\ \A q \in Requests :
              pc'[q] = pc[q] \/ (q = r /\ pc[q] = "idle" /\ pc'[q] \in {"unlinked", "refusing"})
        /\ \A q \in Requests :
              slot'[q] = slot[q] \/ (q = r /\ slot[q] = "open" /\ slot'[q] = "closed")
    BY DEF SendStart, FailSlots, Goto, AppTypes, SlotTypes
  <1>7. AppTypes'
    BY DEF AppTypes, Pcs, SendPcs, DropPcs, Errors, SendStart, FailSlots, Goto
  <1>8. SlotTypes'
    BY DEF SlotTypes, Errors, SendStart, FailSlots, Goto
  <1>9. Commands'
    BY <1>5, <1>1, <1>2, <1>6 DEF Commands, Unsubmitted
  <1>10. Unbound'
    BY <1>5, <1>6 DEF Unbound
  <1>11. Awaited'
    BY <1>5, <1>1, <1>2, <1>6 DEF Awaited
  <1>12. Refusals'
    BY <1>5, <1>1, <1>2, <1>3, <1>6 DEF Refusals
  <1>13. Heads'
    BY <1>5, <1>3, <1>6 DEF Heads
  <1>14. WindowConserved'
    BY <1>5, <1>4, <1>6, Accounted DEF WindowConserved, Alive
  <1>15. Unreported'
    BY <1>5, <1>6 DEF Unreported
  <1>16. ParkedQueue'
    BY <1>5, <1>1, <1>6 DEF ParkedQueue, Passed
  <1>17. ParkedSets'
    BY <1>5, <1>6 DEF ParkedSets, Passed
  <1>18. HandleTypes' /\ InTypes' /\ QueueTypes' /\ SetTypes' /\ SharedFlags' /\
         DriverFlags' /\ DriverTypes' /\ WireTypes' /\ SessionTypes' /\ OwedTypes' /\
         PeerTypes' /\ Place' /\ Tracked' /\ Reading' /\ ParkedInbox'
    BY <1>5, HandleTypesStays, InTypesStays, QueueTypesStays, SetTypesStays,
       SharedFlagsStays, DriverFlagsStays, DriverTypesStays, WireTypesStays,
       SessionTypesStays, OwedTypesStays, PeerTypesStays, PlaceStays, TrackedStays,
       ReadingStays, ParkedInboxStays
  <1> QED
    BY <1>7, <1>8, <1>9, <1>10, <1>11, <1>12, <1>13, <1>14, <1>15, <1>16, <1>17, <1>18

\* is_refusing: a request refused at birth has no stream and never will.
LEMMA SendRefusingKeeps ==
    ASSUME NEW r \in Requests, ClientInv, SendRefusing(r)
    PROVE  ClientInv'
  <1>1. InQueue' = InQueue
    BY QueueStays DEF SendRefusing
  <1>2. InBatch' = InBatch
    BY BatchStays DEF SendRefusing
  <1>3. /\ Pipeline' = Pipeline
        /\ \A q : HeadComes(q)' = HeadComes(q) /\ BadHeadComes(q)' = BadHeadComes(q)
    BY PipelineStays DEF SendRefusing
  <1>4. /\ Noted' = Noted
        /\ \A q : Observed(q)' = Observed(q) /\ Closing(q)' = Closing(q)
    BY EventsStay DEF SendRefusing
  <1>5. UNCHANGED <<unread, result, up, prod, clones, token, shutter, abandoned,
        bodyAt, chunks, finished, failed, unwanted, queue, credits, resets, ready,
        shutdown, refusing, gone, notified, drv, parkAt, batch, events, inbox, reader,
        intake, fed, ended, registry, str, sid, rended, resumed, barred, owed, peer,
        sent, last, wire, scene>>
    BY DEF SendRefusing
  <1>6. /\ \A q \in Requests :
              pc'[q] = pc[q] \/ (q = r /\ pc[q] = "refusing" /\ pc'[q] \in {"unlinked", "push"})
        /\ \A q \in Requests :
              slot'[q] = slot[q] \/ (q = r /\ slot[q] = "open" /\ slot'[q] = "refused")
        /\ slot'[r] = slot[r] \/ pc'[r] = "unlinked"
    BY DEF SendRefusing, FailSlots, Goto, AppTypes, SlotTypes
  <1>7. AppTypes'
    BY DEF AppTypes, Pcs, SendPcs, DropPcs, Errors, SendRefusing, FailSlots, Goto
  <1>8. SlotTypes'
    BY DEF SlotTypes, Errors, SendRefusing, FailSlots, Goto
  <1>9. Commands'
    BY <1>5, <1>1, <1>2, <1>6 DEF Commands, Unsubmitted
  <1>10. Unbound'
    BY <1>5, <1>6 DEF Unbound
  <1>11. Awaited'
    BY <1>5, <1>1, <1>2, <1>6 DEF Awaited
  <1>12. Refusals'
    BY <1>5, <1>1, <1>2, <1>3, <1>6 DEF Refusals, Commands, Unsubmitted
  <1>13. Heads'
    BY <1>5, <1>3, <1>6 DEF Heads
  <1>14. WindowConserved'
    BY <1>5, <1>4, <1>6, Accounted DEF WindowConserved, Alive
  <1>15. Unreported'
    BY <1>5, <1>6 DEF Unreported
  <1>16. ParkedQueue'
    BY <1>5, <1>1, <1>6 DEF ParkedQueue, Passed
  <1>17. ParkedSets'
    BY <1>5, <1>6 DEF ParkedSets, Passed
  <1>18. HandleTypes' /\ InTypes' /\ QueueTypes' /\ SetTypes' /\ SharedFlags' /\
         DriverFlags' /\ DriverTypes' /\ WireTypes' /\ SessionTypes' /\ OwedTypes' /\
         PeerTypes' /\ Place' /\ Tracked' /\ Reading' /\ ParkedInbox'
    BY <1>5, HandleTypesStays, InTypesStays, QueueTypesStays, SetTypesStays,
       SharedFlagsStays, DriverFlagsStays, DriverTypesStays, WireTypesStays,
       SessionTypesStays, OwedTypesStays, PeerTypesStays, PlaceStays, TrackedStays,
       ReadingStays, ParkedInboxStays
  <1> QED
    BY <1>7, <1>8, <1>9, <1>10, <1>11, <1>12, <1>13, <1>14, <1>15, <1>16, <1>17, <1>18

\* The command is new to the queue, and its wake is still owed.
LEMMA SendPushKeeps ==
    ASSUME NEW r \in Requests, ClientInv, SendPush(r)
    PROVE  ClientInv'
  <1>1. InBatch' = InBatch
    BY BatchStays DEF SendPush
  <1>2. /\ Pipeline' = Pipeline
        /\ \A q : HeadComes(q)' = HeadComes(q) /\ BadHeadComes(q)' = BadHeadComes(q)
    BY PipelineStays DEF SendPush
  <1>3. /\ Noted' = Noted
        /\ \A q : Observed(q)' = Observed(q) /\ Closing(q)' = Closing(q)
    BY EventsStay DEF SendPush
  <1>4. UNCHANGED <<unread, result, up, prod, clones, token, shutter, slot, abandoned,
        bodyAt, chunks, finished, failed, unwanted, credits, resets, ready, shutdown,
        refusing, gone, notified, drv, parkAt, batch, events, inbox, reader, intake,
        fed, ended, registry, str, sid, rended, resumed, barred, owed, peer, sent,
        last, wire, scene>>
    BY DEF SendPush
  <1>5. /\ \A q \in Requests :
              pc'[q] = pc[q] \/ (q = r /\ pc[q] = "push" /\ pc'[q] = "pushwake")
        /\ pc[r] = "push" /\ pc'[r] = "pushwake"
    BY DEF SendPush, Goto, AppTypes
  <1>6. InQueue' = InQueue \union {r}
    BY RangeAppend DEF SendPush, InQueue, QueueTypes
  <1>7. r \notin InQueue /\ r \notin InBatch /\ NoRepeat(queue')
    <2>1. r \notin InQueue /\ r \notin InBatch
      BY <1>5 DEF Commands, Unsubmitted
    <2> QED
      BY <2>1, NoRepeatKept DEF SendPush, InQueue, Commands, QueueTypes
  <1>8. AppTypes'
    BY DEF AppTypes, Pcs, SendPcs, DropPcs, Errors, SendPush, Goto
  <1>9. QueueTypes'
    BY DEF QueueTypes, SendPush, Goto
  <1>10. Commands'
    BY <1>4, <1>1, <1>5, <1>6, <1>7 DEF Commands, Unsubmitted
  <1>11. Awaited'
    BY <1>4, <1>1, <1>5, <1>6, <1>7 DEF Awaited
  <1>12. Refusals'
    BY <1>4, <1>1, <1>2, <1>5, <1>6, <1>7 DEF Refusals
  <1>13. WindowConserved'
    BY <1>4, <1>3, <1>5, <1>6, <1>7, Accounted DEF WindowConserved, Alive
  <1>14. Unreported'
    BY <1>4, <1>5, <1>6, <1>7 DEF Unreported
  <1>15. ParkedQueue'
    BY <1>4, <1>5, <1>6, <1>7 DEF ParkedQueue, Passed
  <1>16. ParkedSets'
    BY <1>4, <1>5, <1>6, <1>7 DEF ParkedSets, Passed
  <1>17. HandleTypes' /\ SlotTypes' /\ InTypes' /\ SetTypes' /\ SharedFlags' /\
         DriverFlags' /\ DriverTypes' /\ WireTypes' /\ SessionTypes' /\ OwedTypes' /\
         PeerTypes' /\ Place' /\ Unbound' /\ Heads' /\ Tracked' /\ Reading' /\
         ParkedInbox'
    BY <1>4, HandleTypesStays, SlotTypesStays, InTypesStays, SetTypesStays,
       SharedFlagsStays, DriverFlagsStays, DriverTypesStays, WireTypesStays,
       SessionTypesStays, OwedTypesStays, PeerTypesStays, PlaceStays, UnboundStays,
       HeadsStays, TrackedStays, ReadingStays, ParkedInboxStays
  <1> QED
    BY <1>8, <1>9, <1>10, <1>11, <1>12, <1>13, <1>14, <1>15, <1>16, <1>17

\* The wake of a push.
LEMMA SendWakeKeeps ==
    ASSUME NEW r \in Requests, ClientInv, SendWake(r)
    PROVE  ClientInv'
  <1>1. InQueue' = InQueue
    BY QueueStays DEF SendWake
  <1>2. InBatch' = InBatch
    BY BatchStays DEF SendWake
  <1>3. /\ Pipeline' = Pipeline
        /\ \A q : HeadComes(q)' = HeadComes(q) /\ BadHeadComes(q)' = BadHeadComes(q)
    BY PipelineStays DEF SendWake
  <1>4. /\ Noted' = Noted
        /\ \A q : Observed(q)' = Observed(q) /\ Closing(q)' = Closing(q)
    BY EventsStay DEF SendWake
  <1>5. UNCHANGED <<unread, result, up, prod, clones, token, shutter, slot, abandoned,
        bodyAt, chunks, finished, failed, unwanted, queue, credits, resets, ready,
        shutdown, refusing, gone, drv, parkAt, batch, events, inbox, reader, intake,
        fed, ended, registry, str, sid, rended, resumed, barred, owed, peer, sent,
        last, wire, scene>>
    BY DEF SendWake
  <1>6. /\ \A q \in Requests :
              pc'[q] = pc[q] \/ (q = r /\ pc[q] = "pushwake" /\ pc'[q] = "recheck")
        /\ notified' = (notified \/ drv # "unpolled")
    BY DEF SendWake, Goto, WakeDriver, AppTypes
  <1>7. AppTypes'
    BY DEF AppTypes, Pcs, SendPcs, DropPcs, Errors, SendWake, Goto, WakeDriver
  <1>8. SharedFlags'
    BY DEF SharedFlags, SendWake, Goto, WakeDriver
  <1>9. Commands'
    BY <1>5, <1>1, <1>2, <1>6 DEF Commands, Unsubmitted
  <1>10. Awaited'
    BY <1>5, <1>1, <1>2, <1>6 DEF Awaited
  <1>11. Refusals'
    BY <1>5, <1>1, <1>2, <1>3, <1>6 DEF Refusals
  <1>12. WindowConserved'
    BY <1>5, <1>4, <1>6, Accounted DEF WindowConserved, Alive
  <1>13. Unreported'
    BY <1>5, <1>6 DEF Unreported
  <1>14. Reading'
    BY <1>5, <1>6 DEF Reading, Alive
  <1>15. ParkedQueue'
    BY <1>5, <1>1, <1>6 DEF ParkedQueue, Passed
  <1>16. ParkedSets'
    BY <1>5, <1>6 DEF ParkedSets, Passed
  <1>17. ParkedInbox'
    BY <1>5, <1>6 DEF ParkedInbox, Done
  <1>18. HandleTypes' /\ SlotTypes' /\ InTypes' /\ QueueTypes' /\ SetTypes' /\
         DriverFlags' /\ DriverTypes' /\ WireTypes' /\ SessionTypes' /\ OwedTypes' /\
         PeerTypes' /\ Place' /\ Unbound' /\ Heads' /\ Tracked'
    BY <1>5, HandleTypesStays, SlotTypesStays, InTypesStays, QueueTypesStays,
       SetTypesStays, DriverFlagsStays, DriverTypesStays, WireTypesStays,
       SessionTypesStays, OwedTypesStays, PeerTypesStays, PlaceStays, UnboundStays,
       HeadsStays, TrackedStays
  <1> QED
    BY <1>7, <1>8, <1>9, <1>10, <1>11, <1>12, <1>13, <1>14, <1>15, <1>16, <1>17, <1>18

\* The second look: with the driver gone, nothing stays in the queue.
LEMMA SendRecheckKeeps ==
    ASSUME NEW r \in Requests, ClientInv, SendRecheck(r)
    PROVE  ClientInv'
  <1>1. InBatch' = InBatch
    BY BatchStays DEF SendRecheck
  <1>2. /\ Pipeline' = Pipeline
        /\ \A q : HeadComes(q)' = HeadComes(q) /\ BadHeadComes(q)' = BadHeadComes(q)
    BY PipelineStays DEF SendRecheck
  <1>3. /\ Noted' = Noted
        /\ \A q : Observed(q)' = Observed(q) /\ Closing(q)' = Closing(q)
    BY EventsStay DEF SendRecheck
  <1>4. UNCHANGED <<unread, result, up, prod, clones, token, shutter, abandoned,
        bodyAt, chunks, finished, failed, unwanted, credits, resets, ready, shutdown,
        refusing, gone, notified, drv, parkAt, batch, events, inbox, reader, intake,
        fed, ended, registry, str, sid, rended, resumed, barred, owed, peer, sent,
        last, wire, scene>>
    BY DEF SendRecheck
  <1>5. /\ \A q \in Requests :
              pc'[q] = pc[q] \/ (q = r /\ pc[q] = "recheck" /\ pc'[q] = "await")
        /\ pc[r] = "recheck"
    BY DEF SendRecheck, Goto, AppTypes
  <1>6. /\ gone => queue' = <<>> /\ InQueue' = {}
        /\ ~gone => queue' = queue /\ InQueue' = InQueue /\ slot' = slot
        /\ \A q \in Requests :
              \/ slot'[q] = slot[q] /\ ~(gone /\ q \in InQueue /\ slot[q] = "open")
              \/ slot[q] = "open" /\ slot'[q] = "closed"
        /\ NoRepeat(queue')
    <2>1. NoRepeat(<<>>)
      BY DEF NoRepeat
    <2>2. NoRepeat(queue)
      BY DEF Commands
    <2>3. CASE gone
      <3>1. queue' = <<>>
        BY <2>3 DEF SendRecheck
      <3>2. \A q \in Requests : slot'[q] = IF q \in InQueue /\ slot[q] = "open"
                                             THEN "closed" ELSE slot[q]
        BY <2>3 DEF SendRecheck, FailSlots, InQueue
      <3>3. InQueue' = {}
        BY <3>1, RangeShort DEF InQueue
      <3> QED
        BY <2>1, <2>3, <3>1, <3>2, <3>3
    <2>4. CASE ~gone
      BY <2>2, <2>4, QueueStays DEF SendRecheck
    <2> QED
      BY <2>3, <2>4
  <1>7. AppTypes'
    BY DEF AppTypes, Pcs, SendPcs, DropPcs, Errors, SendRecheck, FailSlots, Goto
  <1>8. SlotTypes'
    BY DEF SlotTypes, Errors, SendRecheck, FailSlots, Goto
  <1>9. QueueTypes'
    <2>1. queue' = <<>> \/ queue' = queue
      BY <1>6
    <2>2. <<>> \in Seq(Requests)
      OBVIOUS
    <2> QED
      BY <1>4, <2>1, <2>2, Zenon DEF QueueTypes
  <1>10. Commands'
    BY <1>4, <1>1, <1>5, <1>6 DEF Commands, Unsubmitted
  <1>11. Unbound'
    BY <1>4, <1>5, <1>6 DEF Unbound
  <1>12. Awaited'
    BY <1>4, <1>1, <1>5, <1>6 DEF Awaited, Place, Alive
  <1>13. Refusals'
    BY <1>4, <1>1, <1>2, <1>5, <1>6 DEF Refusals
  <1>14. Heads'
    BY <1>4, <1>2, <1>5, <1>6 DEF Heads
  <1>15. WindowConserved'
    BY <1>4, <1>3, <1>5, <1>6, Accounted DEF WindowConserved, Alive
  <1>16. Unreported'
    BY <1>4, <1>5, <1>6 DEF Unreported
  <1>17. ParkedQueue'
    BY <1>4, <1>5, <1>6 DEF ParkedQueue, Passed, Place, Alive
  <1>18. ParkedSets'
    BY <1>4, <1>5, <1>6 DEF ParkedSets, Passed
  <1>19. HandleTypes' /\ InTypes' /\ SetTypes' /\ SharedFlags' /\ DriverFlags' /\
         DriverTypes' /\ WireTypes' /\ SessionTypes' /\ OwedTypes' /\ PeerTypes' /\
         Place' /\ Tracked' /\ Reading' /\ ParkedInbox'
    BY <1>4, HandleTypesStays, InTypesStays, SetTypesStays, SharedFlagsStays,
       DriverFlagsStays, DriverTypesStays, WireTypesStays, SessionTypesStays,
       OwedTypesStays, PeerTypesStays, PlaceStays, TrackedStays, ReadingStays,
       ParkedInboxStays
  <1> QED
    BY <1>7, <1>8, <1>9, <1>10, <1>11, <1>12, <1>13, <1>14, <1>15, <1>16, <1>17, <1>18,
       <1>19

\* A clone's drop leaves a wake owed only with the last one.
LEMMA DropCloneKeeps ==
    ASSUME NEW r \in Requests, ClientInv, DropClone(r)
    PROVE  ClientInv'
  <1>1. InQueue' = InQueue
    BY QueueStays DEF DropClone
  <1>2. InBatch' = InBatch
    BY BatchStays DEF DropClone
  <1>3. /\ Pipeline' = Pipeline
        /\ \A q : HeadComes(q)' = HeadComes(q) /\ BadHeadComes(q)' = BadHeadComes(q)
    BY PipelineStays DEF DropClone
  <1>4. /\ Noted' = Noted
        /\ \A q : Observed(q)' = Observed(q) /\ Closing(q)' = Closing(q)
    BY EventsStay DEF DropClone
  <1>5. UNCHANGED <<unread, result, up, prod, shutter, slot, abandoned, bodyAt,
        chunks, finished, failed, unwanted, queue, credits, resets, ready, shutdown,
        refusing, gone, notified, drv, parkAt, batch, events, inbox, reader, intake,
        fed, ended, registry, str, sid, rended, resumed, barred, owed, peer, sent,
        last, wire, scene>>
    BY DEF DropClone
  <1>6. /\ \A q \in Requests :
              pc'[q] = pc[q] \/ (q = r /\ pc[q] = "idle" /\ pc'[q] = "unsent")
    BY DEF DropClone, Goto, AppTypes
  <1>7. AppTypes'
    BY DEF AppTypes, Pcs, SendPcs, DropPcs, Errors, DropClone, Goto
  <1>8. HandleTypes'
    BY DEF HandleTypes, DropClone, Goto, SendPcs
  <1>9. Commands'
    BY <1>5, <1>1, <1>2, <1>6 DEF Commands, Unsubmitted
  <1>10. Awaited'
    BY <1>5, <1>1, <1>2, <1>6 DEF Awaited
  <1>11. Refusals'
    BY <1>5, <1>1, <1>2, <1>3, <1>6 DEF Refusals
  <1>12. WindowConserved'
    BY <1>5, <1>4, <1>6, Accounted DEF WindowConserved, Alive
  <1>13. Unreported'
    BY <1>5, <1>6 DEF Unreported
  <1>14. ParkedQueue'
    BY <1>5, <1>1, <1>6 DEF ParkedQueue, Passed
  <1>15. ParkedSets'
    BY <1>5, <1>6 DEF ParkedSets, Passed
  <1>16. ParkedInbox'
    BY <1>5, <1>6 DEF ParkedInbox, Done, HandleTypes, DropClone
  <1>17. SlotTypes' /\ InTypes' /\ QueueTypes' /\ SetTypes' /\ SharedFlags' /\
         DriverFlags' /\ DriverTypes' /\ WireTypes' /\ SessionTypes' /\ OwedTypes' /\
         PeerTypes' /\ Place' /\ Unbound' /\ Heads' /\ Tracked' /\ Reading'
    BY <1>5, SlotTypesStays, InTypesStays, QueueTypesStays, SetTypesStays,
       SharedFlagsStays, DriverFlagsStays, DriverTypesStays, WireTypesStays,
       SessionTypesStays, OwedTypesStays, PeerTypesStays, PlaceStays, UnboundStays,
       HeadsStays, TrackedStays, ReadingStays
  <1> QED
    BY <1>7, <1>8, <1>9, <1>10, <1>11, <1>12, <1>13, <1>14, <1>15, <1>16, <1>17

\* The wake of the last handle.
LEMMA TokenDropKeeps ==
    ASSUME ClientInv, TokenDrop
    PROVE  ClientInv'
  <1>1. InQueue' = InQueue
    BY QueueStays DEF TokenDrop
  <1>2. HandleTypes'
    BY DEF HandleTypes, TokenDrop, WakeDriver
  <1>3. SharedFlags'
    BY DEF SharedFlags, TokenDrop, WakeDriver
  <1>4. Reading'
    BY DEF Reading, Alive, TokenDrop, WakeDriver
  <1>5. ParkedQueue'
    BY <1>1 DEF ParkedQueue, Passed, TokenDrop, WakeDriver
  <1>6. ParkedSets'
    BY DEF ParkedSets, Passed, TokenDrop, WakeDriver
  <1>7. ParkedInbox'
    BY DEF ParkedInbox, Done, TokenDrop, WakeDriver
  <1>8. UNCHANGED <<pc, unread, result, up, prod, slot, bodyAt, abandoned, chunks,
         finished, failed, unwanted, queue, batch, credits, resets, ready, fed,
         intake, barred, drv, parkAt, reader, ended, registry, events, wire, inbox,
         str, sid, rended, resumed, owed, peer, sent, last, scene, gone>>
    BY DEF TokenDrop
  <1>9. AppTypes' /\ SlotTypes' /\ InTypes' /\ QueueTypes' /\ SetTypes' /\
         DriverFlags' /\ DriverTypes' /\ WireTypes' /\ SessionTypes' /\ OwedTypes' /\
         PeerTypes' /\ Place' /\ Commands' /\ Unbound' /\ Awaited' /\ Refusals' /\
         Heads' /\ Tracked' /\ WindowConserved' /\ Unreported'
    BY <1>8, AppTypesStays, SlotTypesStays, InTypesStays, QueueTypesStays,
       SetTypesStays, DriverFlagsStays, DriverTypesStays, WireTypesStays,
       SessionTypesStays, OwedTypesStays, PeerTypesStays, PlaceStays, CommandsStays,
       UnboundStays, AwaitedStays, RefusalsStays, HeadsStays, TrackedStays,
       WindowConservedStays, UnreportedStays
  <1> QED
    BY <1>2, <1>3, <1>4, <1>5, <1>6, <1>7, <1>9

\* A shutdown's flag is set before its wake.
LEMMA ShutdownKeeps ==
    ASSUME ClientInv, Shutdown
    PROVE  ClientInv'
  <1>1. InQueue' = InQueue
    BY QueueStays DEF Shutdown
  <1>2. HandleTypes'
    BY DEF HandleTypes, Shutdown
  <1>3. SharedFlags'
    BY DEF SharedFlags, Shutdown
  <1>4. ParkedQueue'
    BY <1>1 DEF ParkedQueue, Passed, Shutdown
  <1>5. UNCHANGED <<pc, unread, result, up, prod, slot, bodyAt, abandoned, chunks,
         finished, failed, unwanted, queue, batch, credits, resets, ready, fed,
         intake, barred, drv, parkAt, reader, ended, registry, events, wire, inbox,
         str, sid, rended, resumed, owed, peer, sent, last, scene, gone, notified,
         token>>
    BY DEF Shutdown
  <1>6. AppTypes' /\ SlotTypes' /\ InTypes' /\ QueueTypes' /\ SetTypes' /\
         DriverFlags' /\ DriverTypes' /\ WireTypes' /\ SessionTypes' /\ OwedTypes' /\
         PeerTypes' /\ Place' /\ Commands' /\ Unbound' /\ Awaited' /\ Refusals' /\
         Heads' /\ Tracked' /\ WindowConserved' /\ Unreported' /\ Reading' /\
         ParkedSets' /\ ParkedInbox'
    BY <1>5, AppTypesStays, SlotTypesStays, InTypesStays, QueueTypesStays,
       SetTypesStays, DriverFlagsStays, DriverTypesStays, WireTypesStays,
       SessionTypesStays, OwedTypesStays, PeerTypesStays, PlaceStays, CommandsStays,
       UnboundStays, AwaitedStays, RefusalsStays, HeadsStays, TrackedStays,
       WindowConservedStays, UnreportedStays, ReadingStays, ParkedSetsStays,
       ParkedInboxStays
  <1> QED
    BY <1>2, <1>3, <1>4, <1>6

\* The wake of a shutdown.
LEMMA ShutdownWakeKeeps ==
    ASSUME ClientInv, ShutdownWake
    PROVE  ClientInv'
  <1>1. InQueue' = InQueue
    BY QueueStays DEF ShutdownWake
  <1>2. HandleTypes'
    BY DEF HandleTypes, ShutdownWake, WakeDriver
  <1>3. SharedFlags'
    BY DEF SharedFlags, ShutdownWake, WakeDriver
  <1>4. Reading'
    BY DEF Reading, Alive, ShutdownWake, WakeDriver
  <1>5. ParkedQueue'
    BY <1>1 DEF ParkedQueue, Passed, ShutdownWake, WakeDriver
  <1>6. ParkedSets'
    BY DEF ParkedSets, Passed, ShutdownWake, WakeDriver
  <1>7. ParkedInbox'
    BY DEF ParkedInbox, Done, ShutdownWake, WakeDriver
  <1>8. UNCHANGED <<pc, unread, result, up, prod, slot, bodyAt, abandoned, chunks,
         finished, failed, unwanted, queue, batch, credits, resets, ready, fed,
         intake, barred, drv, parkAt, reader, ended, registry, events, wire, inbox,
         str, sid, rended, resumed, owed, peer, sent, last, scene, gone>>
    BY DEF ShutdownWake
  <1>9. AppTypes' /\ SlotTypes' /\ InTypes' /\ QueueTypes' /\ SetTypes' /\
         DriverFlags' /\ DriverTypes' /\ WireTypes' /\ SessionTypes' /\ OwedTypes' /\
         PeerTypes' /\ Place' /\ Commands' /\ Unbound' /\ Awaited' /\ Refusals' /\
         Heads' /\ Tracked' /\ WindowConserved' /\ Unreported'
    BY <1>8, AppTypesStays, SlotTypesStays, InTypesStays, QueueTypesStays,
       SetTypesStays, DriverFlagsStays, DriverTypesStays, WireTypesStays,
       SessionTypesStays, OwedTypesStays, PeerTypesStays, PlaceStays, CommandsStays,
       UnboundStays, AwaitedStays, RefusalsStays, HeadsStays, TrackedStays,
       WindowConservedStays, UnreportedStays
  <1> QED
    BY <1>2, <1>3, <1>4, <1>5, <1>6, <1>7, <1>9

\* The answer, and with a head the body, goes to the caller.
LEMMA PollFutureKeeps ==
    ASSUME NEW r \in Requests, ClientInv, PollFuture(r)
    PROVE  ClientInv'
  <1>1. InQueue' = InQueue
    BY QueueStays DEF PollFuture
  <1>2. InBatch' = InBatch
    BY BatchStays DEF PollFuture
  <1>3. /\ Pipeline' = Pipeline
        /\ \A q : HeadComes(q)' = HeadComes(q) /\ BadHeadComes(q)' = BadHeadComes(q)
    BY PipelineStays DEF PollFuture
  <1>4. /\ Noted' = Noted
        /\ \A q : Observed(q)' = Observed(q) /\ Closing(q)' = Closing(q)
    BY EventsStay DEF PollFuture
  <1>5. UNCHANGED <<unread, up, prod, clones, token, shutter, slot, abandoned, chunks,
        finished, failed, unwanted, queue, credits, resets, ready, shutdown, refusing,
        gone, drv, parkAt, batch, events, inbox, reader, intake, fed, ended, registry,
        str, sid, rended, resumed, barred, owed, peer, sent, last, wire, scene>>
    BY DEF PollFuture
  <1>6. /\ \A q \in Requests :
              \/ pc'[q] = pc[q]
              \/ q = r /\ pc[q] \in {"await", "unlinked"} /\ pc'[q] \in {"body", "done"}
        /\ pc[r] \in {"await", "unlinked"} /\ slot[r] # "open"
        /\ pc'[r] = IF slot[r] = "head" THEN "body" ELSE "done"
    BY DEF PollFuture, Goto, AppTypes
  <1>7. notified => notified'
    <2>1. CASE notified' = notified
      BY <2>1
    <2>2. CASE WakeDriver
      BY <2>2 DEF WakeDriver
    <2> QED
      BY <2>1, <2>2 DEF PollFuture
  <1>8. \A q \in Requests :
           bodyAt'[q] = bodyAt[q] \/ (q = r /\ slot[q] = "head" /\ bodyAt'[q] = "caller")
    BY DEF PollFuture, SlotTypes
  <1>9. AppTypes'
    BY DEF AppTypes, Pcs, SendPcs, DropPcs, Errors, SlotTypes, PollFuture, Goto,
       WakeDriver
  <1>10. SlotTypes'
    BY DEF SlotTypes, Errors, PollFuture, Goto, WakeDriver
  <1>11. SharedFlags'
    BY DEF SharedFlags, PollFuture, Goto, WakeDriver
  <1>12. Commands'
    BY <1>5, <1>1, <1>2, <1>6, <1>7, <1>8 DEF Commands, Unsubmitted
  <1>13. Awaited'
    BY <1>5, <1>1, <1>2, <1>6, <1>7, <1>8 DEF Awaited
  <1>14. Refusals'
    BY <1>5, <1>1, <1>2, <1>3, <1>6, <1>7, <1>8 DEF Refusals
  <1>15. WindowConserved'
    BY <1>5, <1>4, <1>6, <1>7, <1>8, Accounted DEF WindowConserved, Alive
  <1>16. Unreported'
    BY <1>5, <1>6, <1>7, <1>8 DEF Unreported
  <1>17. Reading'
    BY <1>5, <1>6, <1>7, <1>8 DEF Reading, Alive
  <1>18. ParkedQueue'
    BY <1>5, <1>1, <1>6, <1>7, <1>8 DEF ParkedQueue, Passed
  <1>19. ParkedSets'
    BY <1>5, <1>6, <1>7, <1>8 DEF ParkedSets, Passed
  <1>20. ParkedInbox'
    BY <1>5, <1>6, <1>7, <1>8 DEF ParkedInbox, Done
  <1>21. HandleTypes' /\ InTypes' /\ QueueTypes' /\ SetTypes' /\ DriverFlags' /\
         DriverTypes' /\ WireTypes' /\ SessionTypes' /\ OwedTypes' /\ PeerTypes' /\
         Place' /\ Unbound' /\ Heads' /\ Tracked'
    BY <1>5, HandleTypesStays, InTypesStays, QueueTypesStays, SetTypesStays,
       DriverFlagsStays, DriverTypesStays, WireTypesStays, SessionTypesStays,
       OwedTypesStays, PeerTypesStays, PlaceStays, UnboundStays, HeadsStays,
       TrackedStays
  <1> QED
    BY <1>9, <1>10, <1>11, <1>12, <1>13, <1>14, <1>15, <1>16, <1>17, <1>18, <1>19, <1>20,
       <1>21

\* A dropped future marks its slot, or drops the body in it with its window.
LEMMA DropFutureKeeps ==
    ASSUME NEW r \in Requests, ClientInv, DropFuture(r)
    PROVE  ClientInv'
  <1>1. InQueue' = InQueue
    BY QueueStays DEF DropFuture
  <1>2. InBatch' = InBatch
    BY BatchStays DEF DropFuture
  <1>3. /\ Pipeline' = Pipeline
        /\ \A q : HeadComes(q)' = HeadComes(q) /\ BadHeadComes(q)' = BadHeadComes(q)
    BY PipelineStays DEF DropFuture
  <1>4. /\ Noted' = Noted
        /\ \A q : Observed(q)' = Observed(q) /\ Closing(q)' = Closing(q)
    BY EventsStay DEF DropFuture
  <1>5. UNCHANGED <<unread, up, prod, clones, token, shutter, slot, finished, failed,
        queue, resets, ready, shutdown, refusing, gone, notified, drv, parkAt, batch,
        events, inbox, reader, intake, fed, ended, registry, str, sid, rended,
        resumed, barred, owed, peer, sent, last, wire, scene>>
    BY DEF DropFuture
  <1>6. /\ \A q \in Requests :
              pc'[q] = pc[q] \/ (q = r /\ pc[q] = "await" /\ pc'[q] \in {"reset", "resetwake"})
        /\ pc[r] = "await" /\ pc'[r] \in {"reset", "resetwake"}
        /\ abandoned' \in {abandoned, abandoned \union {r}}
    BY DEF DropFuture, Goto, AppTypes, DropSlotBodies
  <1>7. /\ \A q \in Requests :
              /\ bodyAt'[q] = bodyAt[q] \/ bodyAt'[q] = "gone"
              /\ chunks'[q] + credits'[q] = chunks[q] + credits[q]
              /\ chunks'[q] \in Nat /\ credits'[q] \in Nat
              /\ credits'[q] = credits[q] \/ (q = r /\ pc'[q] = "resetwake")
              /\ bodyAt'[q] = bodyAt[q] \/ (bodyAt[q] = "slot" /\ q = r)
    BY DEF DropFuture, Goto, DropSlotBodies, AppTypes, InTypes, SlotTypes, SetTypes
  <1>8. AppTypes'
    BY DEF AppTypes, Pcs, SendPcs, DropPcs, Errors, DropFuture, Goto, DropSlotBodies
  <1>9. SlotTypes'
    BY DEF SlotTypes, Errors, DropFuture, Goto, DropSlotBodies
  <1>10. InTypes'
    BY DEF InTypes, DropFuture, Goto, DropSlotBodies
  <1>11. SetTypes'
    BY DEF SetTypes, InTypes, DropFuture, Goto, DropSlotBodies
  <1>12. Commands'
    BY <1>5, <1>1, <1>2, <1>6, <1>7 DEF Commands, Unsubmitted
  <1>13. Awaited'
    BY <1>5, <1>1, <1>2, <1>6, <1>7 DEF Awaited
  <1>14. Refusals'
    BY <1>5, <1>1, <1>2, <1>3, <1>6, <1>7 DEF Refusals
  <1>15. WindowConserved'
    BY <1>5, <1>4, <1>6, <1>7, Accounted DEF WindowConserved, Alive
  <1>16. Unreported'
    BY <1>5, <1>6, <1>7 DEF Unreported
  <1>17. ParkedQueue'
    BY <1>5, <1>1, <1>6, <1>7 DEF ParkedQueue, Passed
  <1>18. ParkedSets'
    BY <1>5, <1>6, <1>7 DEF ParkedSets, Passed
  <1>19. HandleTypes' /\ QueueTypes' /\ SharedFlags' /\ DriverFlags' /\ DriverTypes'
         /\ WireTypes' /\ SessionTypes' /\ OwedTypes' /\ PeerTypes' /\ Place' /\
         Unbound' /\ Heads' /\ Tracked' /\ Reading' /\ ParkedInbox'
    BY <1>5, HandleTypesStays, QueueTypesStays, SharedFlagsStays, DriverFlagsStays,
       DriverTypesStays, WireTypesStays, SessionTypesStays, OwedTypesStays,
       PeerTypesStays, PlaceStays, UnboundStays, HeadsStays, TrackedStays,
       ReadingStays, ParkedInboxStays
  <1> QED
    BY <1>8, <1>9, <1>10, <1>11, <1>12, <1>13, <1>14, <1>15, <1>16, <1>17, <1>18, <1>19

\* The reset a dropped future asks for, its wake still owed.
LEMMA FutureResetKeeps ==
    ASSUME NEW r \in Requests, ClientInv, FutureReset(r)
    PROVE  ClientInv'
  <1>1. InQueue' = InQueue
    BY QueueStays DEF FutureReset
  <1>2. InBatch' = InBatch
    BY BatchStays DEF FutureReset
  <1>3. /\ Pipeline' = Pipeline
        /\ \A q : HeadComes(q)' = HeadComes(q) /\ BadHeadComes(q)' = BadHeadComes(q)
    BY PipelineStays DEF FutureReset
  <1>4. /\ Noted' = Noted
        /\ \A q : Observed(q)' = Observed(q) /\ Closing(q)' = Closing(q)
    BY EventsStay DEF FutureReset
  <1>5. UNCHANGED <<unread, result, up, prod, clones, token, shutter, slot, abandoned,
        bodyAt, chunks, finished, failed, unwanted, queue, credits, ready, shutdown,
        refusing, gone, notified, drv, parkAt, batch, events, inbox, reader, intake,
        fed, ended, registry, str, sid, rended, resumed, barred, owed, peer, sent,
        last, wire, scene>>
    BY DEF FutureReset
  <1>6. /\ \A q \in Requests :
              pc'[q] = pc[q] \/ (q = r /\ pc[q] = "reset" /\ pc'[q] = "resetwake")
        /\ pc[r] = "reset" /\ pc'[r] = "resetwake" /\ resets' = resets \union {r}
    BY DEF FutureReset, Goto, AppTypes
  <1>7. AppTypes'
    BY DEF AppTypes, Pcs, SendPcs, DropPcs, Errors, FutureReset, Goto
  <1>8. SetTypes'
    BY DEF SetTypes, FutureReset, Goto
  <1>9. Commands'
    BY <1>5, <1>1, <1>2, <1>6 DEF Commands, Unsubmitted
  <1>10. Awaited'
    BY <1>5, <1>1, <1>2, <1>6 DEF Awaited
  <1>11. Refusals'
    BY <1>5, <1>1, <1>2, <1>3, <1>6 DEF Refusals
  <1>12. WindowConserved'
    BY <1>5, <1>4, <1>6, Accounted DEF WindowConserved, Alive
  <1>13. Unreported'
    BY <1>5, <1>6 DEF Unreported
  <1>14. ParkedQueue'
    BY <1>5, <1>1, <1>6 DEF ParkedQueue, Passed
  <1>15. ParkedSets'
    BY <1>5, <1>6 DEF ParkedSets, Passed
  <1>16. HandleTypes' /\ SlotTypes' /\ InTypes' /\ QueueTypes' /\ SharedFlags' /\
         DriverFlags' /\ DriverTypes' /\ WireTypes' /\ SessionTypes' /\ OwedTypes' /\
         PeerTypes' /\ Place' /\ Unbound' /\ Heads' /\ Tracked' /\ Reading' /\
         ParkedInbox'
    BY <1>5, HandleTypesStays, SlotTypesStays, InTypesStays, QueueTypesStays,
       SharedFlagsStays, DriverFlagsStays, DriverTypesStays, WireTypesStays,
       SessionTypesStays, OwedTypesStays, PeerTypesStays, PlaceStays, UnboundStays,
       HeadsStays, TrackedStays, ReadingStays, ParkedInboxStays
  <1> QED
    BY <1>7, <1>8, <1>9, <1>10, <1>11, <1>12, <1>13, <1>14, <1>15, <1>16

\* The wake of a dropped future.
LEMMA FutureWakeKeeps ==
    ASSUME NEW r \in Requests, ClientInv, FutureWake(r)
    PROVE  ClientInv'
  <1>1. InQueue' = InQueue
    BY QueueStays DEF FutureWake
  <1>2. InBatch' = InBatch
    BY BatchStays DEF FutureWake
  <1>3. /\ Pipeline' = Pipeline
        /\ \A q : HeadComes(q)' = HeadComes(q) /\ BadHeadComes(q)' = BadHeadComes(q)
    BY PipelineStays DEF FutureWake
  <1>4. /\ Noted' = Noted
        /\ \A q : Observed(q)' = Observed(q) /\ Closing(q)' = Closing(q)
    BY EventsStay DEF FutureWake
  <1>5. UNCHANGED <<unread, result, up, prod, clones, token, shutter, slot, abandoned,
        bodyAt, chunks, finished, failed, unwanted, queue, credits, resets, ready,
        shutdown, refusing, gone, drv, parkAt, batch, events, inbox, reader, intake,
        fed, ended, registry, str, sid, rended, resumed, barred, owed, peer, sent,
        last, wire, scene>>
    BY DEF FutureWake
  <1>6. /\ \A q \in Requests :
              pc'[q] = pc[q] \/ (q = r /\ pc[q] = "resetwake" /\ pc'[q] = "done")
        /\ notified' = (notified \/ drv # "unpolled")
    BY DEF FutureWake, Goto, AppTypes, WakeDriver
  <1>7. AppTypes'
    BY DEF AppTypes, Pcs, SendPcs, DropPcs, Errors, FutureWake, Goto, WakeDriver
  <1>8. SharedFlags'
    BY DEF SharedFlags, FutureWake, Goto, WakeDriver
  <1>9. Commands'
    BY <1>5, <1>1, <1>2, <1>6 DEF Commands, Unsubmitted
  <1>10. Awaited'
    BY <1>5, <1>1, <1>2, <1>6 DEF Awaited
  <1>11. Refusals'
    BY <1>5, <1>1, <1>2, <1>3, <1>6 DEF Refusals
  <1>12. WindowConserved'
    BY <1>5, <1>4, <1>6, Accounted DEF WindowConserved, Alive
  <1>13. Unreported'
    BY <1>5, <1>6 DEF Unreported
  <1>14. Reading'
    BY <1>5, <1>6 DEF Reading, Alive
  <1>15. ParkedQueue'
    BY <1>5, <1>1, <1>6 DEF ParkedQueue, Passed
  <1>16. ParkedSets'
    BY <1>5, <1>6 DEF ParkedSets, Passed
  <1>17. ParkedInbox'
    BY <1>5, <1>6 DEF ParkedInbox, Done
  <1>18. HandleTypes' /\ SlotTypes' /\ InTypes' /\ QueueTypes' /\ SetTypes' /\
         DriverFlags' /\ DriverTypes' /\ WireTypes' /\ SessionTypes' /\ OwedTypes' /\
         PeerTypes' /\ Place' /\ Unbound' /\ Heads' /\ Tracked'
    BY <1>5, HandleTypesStays, SlotTypesStays, InTypesStays, QueueTypesStays,
       SetTypesStays, DriverFlagsStays, DriverTypesStays, WireTypesStays,
       SessionTypesStays, OwedTypesStays, PeerTypesStays, PlaceStays, UnboundStays,
       HeadsStays, TrackedStays
  <1> QED
    BY <1>7, <1>8, <1>9, <1>10, <1>11, <1>12, <1>13, <1>14, <1>15, <1>16, <1>17, <1>18

\* A chunk is in the thread's hands until it is credited.
LEMMA ReadChunkKeeps ==
    ASSUME NEW r \in Requests, ClientInv, ReadChunk(r)
    PROVE  ClientInv'
  <1>1. InQueue' = InQueue
    BY QueueStays DEF ReadChunk
  <1>2. InBatch' = InBatch
    BY BatchStays DEF ReadChunk
  <1>3. /\ Pipeline' = Pipeline
        /\ \A q : HeadComes(q)' = HeadComes(q) /\ BadHeadComes(q)' = BadHeadComes(q)
    BY PipelineStays DEF ReadChunk
  <1>4. /\ Noted' = Noted
        /\ \A q : Observed(q)' = Observed(q) /\ Closing(q)' = Closing(q)
    BY EventsStay DEF ReadChunk
  <1>5. UNCHANGED <<unread, result, up, prod, clones, token, shutter, slot, abandoned,
        bodyAt, finished, failed, unwanted, queue, credits, resets, ready, shutdown,
        refusing, gone, notified, drv, parkAt, batch, events, inbox, reader, intake,
        fed, ended, registry, str, sid, rended, resumed, barred, owed, peer, sent,
        last, wire, scene>>
    BY DEF ReadChunk
  <1>6. /\ \A q \in Requests :
              pc'[q] = pc[q] \/ (q = r /\ pc[q] = "body" /\ pc'[q] = "credit")
        /\ pc[r] = "body" /\ pc'[r] = "credit" /\ chunks[r] > 0
        /\ \A q \in Requests : chunks'[q] = IF q = r THEN chunks[q] - 1 ELSE chunks[q]
    BY DEF ReadChunk, Goto, AppTypes, InTypes
  <1>7. AppTypes'
    BY DEF AppTypes, Pcs, SendPcs, DropPcs, Errors, ReadChunk, Goto
  <1>8. InTypes'
    BY DEF InTypes, ReadChunk, Goto
  <1>9. Commands'
    BY <1>5, <1>1, <1>2, <1>6 DEF Commands, Unsubmitted
  <1>10. Awaited'
    BY <1>5, <1>1, <1>2, <1>6 DEF Awaited
  <1>11. Refusals'
    BY <1>5, <1>1, <1>2, <1>3, <1>6 DEF Refusals
  <1>12. WindowConserved'
    BY <1>5, <1>4, <1>6, Accounted DEF WindowConserved, Alive
  <1>13. Unreported'
    BY <1>5, <1>6 DEF Unreported
  <1>14. ParkedQueue'
    BY <1>5, <1>1, <1>6 DEF ParkedQueue, Passed
  <1>15. ParkedSets'
    BY <1>5, <1>6 DEF ParkedSets, Passed
  <1>16. HandleTypes' /\ SlotTypes' /\ QueueTypes' /\ SetTypes' /\ SharedFlags' /\
         DriverFlags' /\ DriverTypes' /\ WireTypes' /\ SessionTypes' /\ OwedTypes' /\
         PeerTypes' /\ Place' /\ Unbound' /\ Heads' /\ Tracked' /\ Reading' /\
         ParkedInbox'
    BY <1>5, HandleTypesStays, SlotTypesStays, QueueTypesStays, SetTypesStays,
       SharedFlagsStays, DriverFlagsStays, DriverTypesStays, WireTypesStays,
       SessionTypesStays, OwedTypesStays, PeerTypesStays, PlaceStays, UnboundStays,
       HeadsStays, TrackedStays, ReadingStays, ParkedInboxStays
  <1> QED
    BY <1>7, <1>8, <1>9, <1>10, <1>11, <1>12, <1>13, <1>14, <1>15, <1>16

\* The credit of a chunk, its wake still owed.
LEMMA ReadCreditKeeps ==
    ASSUME NEW r \in Requests, ClientInv, ReadCredit(r)
    PROVE  ClientInv'
  <1>1. InQueue' = InQueue
    BY QueueStays DEF ReadCredit
  <1>2. InBatch' = InBatch
    BY BatchStays DEF ReadCredit
  <1>3. /\ Pipeline' = Pipeline
        /\ \A q : HeadComes(q)' = HeadComes(q) /\ BadHeadComes(q)' = BadHeadComes(q)
    BY PipelineStays DEF ReadCredit
  <1>4. /\ Noted' = Noted
        /\ \A q : Observed(q)' = Observed(q) /\ Closing(q)' = Closing(q)
    BY EventsStay DEF ReadCredit
  <1>5. UNCHANGED <<unread, result, up, prod, clones, token, shutter, slot, abandoned,
        bodyAt, chunks, finished, failed, unwanted, queue, resets, ready, shutdown,
        refusing, gone, notified, drv, parkAt, batch, events, inbox, reader, intake,
        fed, ended, registry, str, sid, rended, resumed, barred, owed, peer, sent,
        last, wire, scene>>
    BY DEF ReadCredit
  <1>6. /\ \A q \in Requests :
              pc'[q] = pc[q] \/ (q = r /\ pc[q] = "credit" /\ pc'[q] = "wake")
        /\ pc[r] = "credit" /\ pc'[r] = "wake"
        /\ \A q \in Requests : credits'[q] = IF q = r THEN credits[q] + 1 ELSE credits[q]
    BY DEF ReadCredit, Goto, AppTypes, SetTypes
  <1>7. AppTypes'
    BY DEF AppTypes, Pcs, SendPcs, DropPcs, Errors, ReadCredit, Goto
  <1>8. SetTypes'
    BY DEF SetTypes, ReadCredit, Goto
  <1>9. Commands'
    BY <1>5, <1>1, <1>2, <1>6 DEF Commands, Unsubmitted
  <1>10. Awaited'
    BY <1>5, <1>1, <1>2, <1>6 DEF Awaited
  <1>11. Refusals'
    BY <1>5, <1>1, <1>2, <1>3, <1>6 DEF Refusals
  <1>12. WindowConserved'
    BY <1>5, <1>4, <1>6, Accounted DEF WindowConserved, Alive
  <1>13. Unreported'
    BY <1>5, <1>6 DEF Unreported
  <1>14. ParkedQueue'
    BY <1>5, <1>1, <1>6 DEF ParkedQueue, Passed
  <1>15. ParkedSets'
    BY <1>5, <1>6 DEF ParkedSets, Passed
  <1>16. HandleTypes' /\ SlotTypes' /\ InTypes' /\ QueueTypes' /\ SharedFlags' /\
         DriverFlags' /\ DriverTypes' /\ WireTypes' /\ SessionTypes' /\ OwedTypes' /\
         PeerTypes' /\ Place' /\ Unbound' /\ Heads' /\ Tracked' /\ Reading' /\
         ParkedInbox'
    BY <1>5, HandleTypesStays, SlotTypesStays, InTypesStays, QueueTypesStays,
       SharedFlagsStays, DriverFlagsStays, DriverTypesStays, WireTypesStays,
       SessionTypesStays, OwedTypesStays, PeerTypesStays, PlaceStays, UnboundStays,
       HeadsStays, TrackedStays, ReadingStays, ParkedInboxStays
  <1> QED
    BY <1>7, <1>8, <1>9, <1>10, <1>11, <1>12, <1>13, <1>14, <1>15, <1>16

\* The wake of a credit.
LEMMA ReadWakeKeeps ==
    ASSUME NEW r \in Requests, ClientInv, ReadWake(r)
    PROVE  ClientInv'
  <1>1. InQueue' = InQueue
    BY QueueStays DEF ReadWake
  <1>2. InBatch' = InBatch
    BY BatchStays DEF ReadWake
  <1>3. /\ Pipeline' = Pipeline
        /\ \A q : HeadComes(q)' = HeadComes(q) /\ BadHeadComes(q)' = BadHeadComes(q)
    BY PipelineStays DEF ReadWake
  <1>4. /\ Noted' = Noted
        /\ \A q : Observed(q)' = Observed(q) /\ Closing(q)' = Closing(q)
    BY EventsStay DEF ReadWake
  <1>5. UNCHANGED <<unread, result, up, prod, clones, token, shutter, slot, abandoned,
        bodyAt, chunks, finished, failed, unwanted, queue, credits, resets, ready,
        shutdown, refusing, gone, drv, parkAt, batch, events, inbox, reader, intake,
        fed, ended, registry, str, sid, rended, resumed, barred, owed, peer, sent,
        last, wire, scene>>
    BY DEF ReadWake
  <1>6. /\ \A q \in Requests :
              pc'[q] = pc[q] \/ (q = r /\ pc[q] = "wake" /\ pc'[q] = "body")
        /\ notified' = (notified \/ drv # "unpolled")
    BY DEF ReadWake, Goto, AppTypes, WakeDriver
  <1>7. AppTypes'
    BY DEF AppTypes, Pcs, SendPcs, DropPcs, Errors, ReadWake, Goto, WakeDriver
  <1>8. SharedFlags'
    BY DEF SharedFlags, ReadWake, Goto, WakeDriver
  <1>9. Commands'
    BY <1>5, <1>1, <1>2, <1>6 DEF Commands, Unsubmitted
  <1>10. Awaited'
    BY <1>5, <1>1, <1>2, <1>6 DEF Awaited
  <1>11. Refusals'
    BY <1>5, <1>1, <1>2, <1>3, <1>6 DEF Refusals
  <1>12. WindowConserved'
    BY <1>5, <1>4, <1>6, Accounted DEF WindowConserved, Alive
  <1>13. Unreported'
    BY <1>5, <1>6 DEF Unreported
  <1>14. Reading'
    BY <1>5, <1>6 DEF Reading, Alive
  <1>15. ParkedQueue'
    BY <1>5, <1>1, <1>6 DEF ParkedQueue, Passed
  <1>16. ParkedSets'
    BY <1>5, <1>6 DEF ParkedSets, Passed
  <1>17. ParkedInbox'
    BY <1>5, <1>6 DEF ParkedInbox, Done
  <1>18. HandleTypes' /\ SlotTypes' /\ InTypes' /\ QueueTypes' /\ SetTypes' /\
         DriverFlags' /\ DriverTypes' /\ WireTypes' /\ SessionTypes' /\ OwedTypes' /\
         PeerTypes' /\ Place' /\ Unbound' /\ Heads' /\ Tracked'
    BY <1>5, HandleTypesStays, SlotTypesStays, InTypesStays, QueueTypesStays,
       SetTypesStays, DriverFlagsStays, DriverTypesStays, WireTypesStays,
       SessionTypesStays, OwedTypesStays, PeerTypesStays, PlaceStays, UnboundStays,
       HeadsStays, TrackedStays
  <1> QED
    BY <1>7, <1>8, <1>9, <1>10, <1>11, <1>12, <1>13, <1>14, <1>15, <1>16, <1>17, <1>18

\* The end of a body is only told.
LEMMA ReadEndKeeps ==
    ASSUME NEW r \in Requests, ClientInv, ReadEnd(r)
    PROVE  ClientInv'
  <1>1. AppTypes'
    BY DEF AppTypes, Pcs, SendPcs, DropPcs, Errors, ReadEnd
  <1>2. UNCHANGED <<clones, token, shutter, slot, bodyAt, abandoned, chunks, finished,
         failed, unwanted, queue, batch, credits, resets, ready, shutdown, refusing,
         gone, notified, fed, intake, barred, drv, parkAt, reader, ended, registry,
         events, wire, inbox, str, sid, rended, resumed, owed, peer, sent, last,
         scene, pc, unread, prod>>
    BY DEF ReadEnd
  <1>3. HandleTypes' /\ SlotTypes' /\ InTypes' /\ QueueTypes' /\ SetTypes' /\
         SharedFlags' /\ DriverFlags' /\ DriverTypes' /\ WireTypes' /\ SessionTypes'
         /\ OwedTypes' /\ PeerTypes' /\ Place' /\ Commands' /\ Unbound' /\ Awaited' /\
         Refusals' /\ Heads' /\ Tracked' /\ WindowConserved' /\ Unreported' /\
         Reading' /\ ParkedQueue' /\ ParkedSets' /\ ParkedInbox'
    BY <1>2, HandleTypesStays, SlotTypesStays, InTypesStays, QueueTypesStays,
       SetTypesStays, SharedFlagsStays, DriverFlagsStays, DriverTypesStays,
       WireTypesStays, SessionTypesStays, OwedTypesStays, PeerTypesStays, PlaceStays,
       CommandsStays, UnboundStays, AwaitedStays, RefusalsStays, HeadsStays,
       TrackedStays, WindowConservedStays, UnreportedStays, ReadingStays,
       ParkedQueueStays, ParkedSetsStays, ParkedInboxStays
  <1> QED
    BY <1>1, <1>3

\* A body's drop has yet to do its part.
LEMMA DropBodyKeeps ==
    ASSUME NEW r \in Requests, ClientInv, DropBody(r)
    PROVE  ClientInv'
  <1>1. InQueue' = InQueue
    BY QueueStays DEF DropBody
  <1>2. InBatch' = InBatch
    BY BatchStays DEF DropBody
  <1>3. /\ Pipeline' = Pipeline
        /\ \A q : HeadComes(q)' = HeadComes(q) /\ BadHeadComes(q)' = BadHeadComes(q)
    BY PipelineStays DEF DropBody
  <1>4. /\ Noted' = Noted
        /\ \A q : Observed(q)' = Observed(q) /\ Closing(q)' = Closing(q)
    BY EventsStay DEF DropBody
  <1>5. UNCHANGED <<unread, result, up, prod, clones, token, shutter, slot, abandoned,
        bodyAt, chunks, finished, failed, unwanted, queue, credits, resets, ready,
        shutdown, refusing, gone, notified, drv, parkAt, batch, events, inbox, reader,
        intake, fed, ended, registry, str, sid, rended, resumed, barred, owed, peer,
        sent, last, wire, scene>>
    BY DEF DropBody
  <1>6. /\ \A q \in Requests :
              pc'[q] = pc[q] \/ (q = r /\ pc[q] = "body" /\ pc'[q] \in {"abandon_c", "abandon_i"})
    BY DEF DropBody, Goto, AppTypes
  <1>7. AppTypes'
    BY DEF AppTypes, Pcs, SendPcs, DropPcs, Errors, DropBody, Goto
  <1>8. Commands'
    BY <1>5, <1>1, <1>2, <1>6 DEF Commands, Unsubmitted
  <1>9. Awaited'
    BY <1>5, <1>1, <1>2, <1>6 DEF Awaited
  <1>10. Refusals'
    BY <1>5, <1>1, <1>2, <1>3, <1>6 DEF Refusals
  <1>11. WindowConserved'
    BY <1>5, <1>4, <1>6, Accounted DEF WindowConserved, Alive
  <1>12. Unreported'
    BY <1>5, <1>6 DEF Unreported
  <1>13. ParkedQueue'
    BY <1>5, <1>1, <1>6 DEF ParkedQueue, Passed
  <1>14. ParkedSets'
    BY <1>5, <1>6 DEF ParkedSets, Passed
  <1>15. HandleTypes' /\ SlotTypes' /\ InTypes' /\ QueueTypes' /\ SetTypes' /\
          SharedFlags' /\ DriverFlags' /\ DriverTypes' /\ WireTypes' /\ SessionTypes'
          /\ OwedTypes' /\ PeerTypes' /\ Place' /\ Unbound' /\ Heads' /\ Tracked' /\
          Reading' /\ ParkedInbox'
    BY <1>5, HandleTypesStays, SlotTypesStays, InTypesStays, QueueTypesStays,
       SetTypesStays, SharedFlagsStays, DriverFlagsStays, DriverTypesStays,
       WireTypesStays, SessionTypesStays, OwedTypesStays, PeerTypesStays, PlaceStays,
       UnboundStays, HeadsStays, TrackedStays, ReadingStays, ParkedInboxStays
  <1> QED
    BY <1>7, <1>8, <1>9, <1>10, <1>11, <1>12, <1>13, <1>14, <1>15

\* What an abandoned body held is in the thread's hands.
LEMMA DropAbandonKeeps ==
    ASSUME NEW r \in Requests, ClientInv, DropAbandon(r)
    PROVE  ClientInv'
  <1>1. InQueue' = InQueue
    BY QueueStays DEF DropAbandon
  <1>2. InBatch' = InBatch
    BY BatchStays DEF DropAbandon
  <1>3. /\ Pipeline' = Pipeline
        /\ \A q : HeadComes(q)' = HeadComes(q) /\ BadHeadComes(q)' = BadHeadComes(q)
    BY PipelineStays DEF DropAbandon
  <1>4. /\ Noted' = Noted
        /\ \A q : Observed(q)' = Observed(q) /\ Closing(q)' = Closing(q)
    BY EventsStay DEF DropAbandon
  <1>5. UNCHANGED <<result, up, prod, clones, token, shutter, slot, abandoned,
        finished, failed, queue, credits, resets, ready, shutdown, refusing, gone,
        notified, drv, parkAt, batch, events, inbox, reader, intake, fed, ended,
        registry, str, sid, rended, resumed, barred, owed, peer, sent, last, wire,
        scene>>
    BY DEF DropAbandon
  <1>6. /\ pc[r] \in {"abandon_c", "abandon_i"}
        /\ \A q \in Requests : q # r => pc'[q] = pc[q]
        /\ chunks[r] > 0 => pc'[r] \in {"credit_c", "credit_i"}
        /\ pc'[r] \in {"credit_c", "credit_i", "done", "reset_i"}
    BY DEF DropAbandon, Goto, AppTypes, InTypes
  <1>7. /\ \A q \in Requests :
              /\ bodyAt'[q] = IF q = r THEN "gone" ELSE bodyAt[q]
              /\ unread'[q] = IF q = r THEN chunks[q] ELSE unread[q]
              /\ chunks'[q] = IF q = r THEN 0 ELSE chunks[q]
        /\ unread[r] = 0
    BY <1>6 DEF DropAbandon, AppTypes, InTypes, SlotTypes, Unreported
  <1>8. AppTypes'
    BY DEF AppTypes, Pcs, SendPcs, DropPcs, Errors, InTypes, DropAbandon, Goto
  <1>9. SlotTypes'
    BY DEF SlotTypes, Errors, DropAbandon, Goto
  <1>10. InTypes'
    BY DEF InTypes, DropAbandon, Goto
  <1>11. Commands'
    BY <1>5, <1>1, <1>2, <1>6, <1>7 DEF Commands, Unsubmitted
  <1>12. Awaited'
    BY <1>5, <1>1, <1>2, <1>6, <1>7 DEF Awaited
  <1>13. Refusals'
    BY <1>5, <1>1, <1>2, <1>3, <1>6, <1>7 DEF Refusals
  <1>14. WindowConserved'
    BY <1>5, <1>4, <1>6, <1>7, Accounted DEF WindowConserved, Alive
  <1>15. Unreported'
    BY <1>5, <1>6, <1>7 DEF Unreported
  <1>16. ParkedQueue'
    BY <1>5, <1>1, <1>6, <1>7 DEF ParkedQueue, Passed
  <1>17. ParkedSets'
    BY <1>5, <1>6, <1>7 DEF ParkedSets, Passed
  <1>18. HandleTypes' /\ QueueTypes' /\ SetTypes' /\ SharedFlags' /\ DriverFlags' /\
         DriverTypes' /\ WireTypes' /\ SessionTypes' /\ OwedTypes' /\ PeerTypes' /\
         Place' /\ Unbound' /\ Heads' /\ Tracked' /\ Reading' /\ ParkedInbox'
    BY <1>5, HandleTypesStays, QueueTypesStays, SetTypesStays, SharedFlagsStays,
       DriverFlagsStays, DriverTypesStays, WireTypesStays, SessionTypesStays,
       OwedTypesStays, PeerTypesStays, PlaceStays, UnboundStays, HeadsStays,
       TrackedStays, ReadingStays, ParkedInboxStays
  <1> QED
    BY <1>8, <1>9, <1>10, <1>11, <1>12, <1>13, <1>14, <1>15, <1>16, <1>17, <1>18

\* The credit of what was held, its wake still owed.
LEMMA DropCreditKeeps ==
    ASSUME NEW r \in Requests, ClientInv, DropCredit(r)
    PROVE  ClientInv'
  <1>1. InQueue' = InQueue
    BY QueueStays DEF DropCredit
  <1>2. InBatch' = InBatch
    BY BatchStays DEF DropCredit
  <1>3. /\ Pipeline' = Pipeline
        /\ \A q : HeadComes(q)' = HeadComes(q) /\ BadHeadComes(q)' = BadHeadComes(q)
    BY PipelineStays DEF DropCredit
  <1>4. /\ Noted' = Noted
        /\ \A q : Observed(q)' = Observed(q) /\ Closing(q)' = Closing(q)
    BY EventsStay DEF DropCredit
  <1>5. UNCHANGED <<result, up, prod, clones, token, shutter, slot, abandoned, bodyAt,
        chunks, finished, failed, unwanted, queue, resets, ready, shutdown, refusing,
        gone, notified, drv, parkAt, batch, events, inbox, reader, intake, fed, ended,
        registry, str, sid, rended, resumed, barred, owed, peer, sent, last, wire,
        scene>>
    BY DEF DropCredit
  <1>6. /\ \A q \in Requests :
              \/ pc'[q] = pc[q]
              \/ q = r /\ pc[q] \in {"credit_c", "credit_i"} /\ pc'[q] \in {"wake_c", "wake_i"}
        /\ pc[r] \in {"credit_c", "credit_i"} /\ pc'[r] \in {"wake_c", "wake_i"}
        /\ \A q \in Requests :
              /\ credits'[q] = IF q = r THEN credits[q] + unread[q] ELSE credits[q]
              /\ unread'[q] = IF q = r THEN 0 ELSE unread[q]
    BY DEF DropCredit, Goto, AppTypes, SetTypes
  <1>7. AppTypes'
    BY DEF AppTypes, Pcs, SendPcs, DropPcs, Errors, DropCredit, Goto
  <1>8. SetTypes'
    BY DEF SetTypes, AppTypes, DropCredit, Goto
  <1>9. Commands'
    BY <1>5, <1>1, <1>2, <1>6 DEF Commands, Unsubmitted
  <1>10. Awaited'
    BY <1>5, <1>1, <1>2, <1>6 DEF Awaited
  <1>11. Refusals'
    BY <1>5, <1>1, <1>2, <1>3, <1>6 DEF Refusals
  <1>12. WindowConserved'
    BY <1>5, <1>4, <1>6, Accounted DEF WindowConserved, Alive
  <1>13. Unreported'
    BY <1>5, <1>6 DEF Unreported
  <1>14. ParkedQueue'
    BY <1>5, <1>1, <1>6 DEF ParkedQueue, Passed
  <1>15. ParkedSets'
    BY <1>5, <1>6 DEF ParkedSets, Passed
  <1>16. HandleTypes' /\ SlotTypes' /\ InTypes' /\ QueueTypes' /\ SharedFlags' /\
         DriverFlags' /\ DriverTypes' /\ WireTypes' /\ SessionTypes' /\ OwedTypes' /\
         PeerTypes' /\ Place' /\ Unbound' /\ Heads' /\ Tracked' /\ Reading' /\
         ParkedInbox'
    BY <1>5, HandleTypesStays, SlotTypesStays, InTypesStays, QueueTypesStays,
       SharedFlagsStays, DriverFlagsStays, DriverTypesStays, WireTypesStays,
       SessionTypesStays, OwedTypesStays, PeerTypesStays, PlaceStays, UnboundStays,
       HeadsStays, TrackedStays, ReadingStays, ParkedInboxStays
  <1> QED
    BY <1>7, <1>8, <1>9, <1>10, <1>11, <1>12, <1>13, <1>14, <1>15, <1>16

\* The wakes of a body's drop.
LEMMA DropWakeKeeps ==
    ASSUME NEW r \in Requests, ClientInv, DropWake(r)
    PROVE  ClientInv'
  <1>1. InQueue' = InQueue
    BY QueueStays DEF DropWake
  <1>2. InBatch' = InBatch
    BY BatchStays DEF DropWake
  <1>3. /\ Pipeline' = Pipeline
        /\ \A q : HeadComes(q)' = HeadComes(q) /\ BadHeadComes(q)' = BadHeadComes(q)
    BY PipelineStays DEF DropWake
  <1>4. /\ Noted' = Noted
        /\ \A q : Observed(q)' = Observed(q) /\ Closing(q)' = Closing(q)
    BY EventsStay DEF DropWake
  <1>5. UNCHANGED <<unread, result, up, prod, clones, token, shutter, slot, abandoned,
        bodyAt, chunks, finished, failed, unwanted, queue, credits, resets, ready,
        shutdown, refusing, gone, drv, parkAt, batch, events, inbox, reader, intake,
        fed, ended, registry, str, sid, rended, resumed, barred, owed, peer, sent,
        last, wire, scene>>
    BY DEF DropWake
  <1>6. /\ \A q \in Requests :
              \/ pc'[q] = pc[q]
              \/ q = r /\ pc[q] \in {"wake_c", "wake_i", "resetwake_i"} /\ pc'[q] \in {"reset_i", "done"}
        /\ notified' = (notified \/ drv # "unpolled")
    BY DEF DropWake, Goto, AppTypes, WakeDriver
  <1>7. AppTypes'
    BY DEF AppTypes, Pcs, SendPcs, DropPcs, Errors, DropWake, Goto, WakeDriver
  <1>8. SharedFlags'
    BY DEF SharedFlags, DropWake, Goto, WakeDriver
  <1>9. Commands'
    BY <1>5, <1>1, <1>2, <1>6 DEF Commands, Unsubmitted
  <1>10. Awaited'
    BY <1>5, <1>1, <1>2, <1>6 DEF Awaited
  <1>11. Refusals'
    BY <1>5, <1>1, <1>2, <1>3, <1>6 DEF Refusals
  <1>12. WindowConserved'
    BY <1>5, <1>4, <1>6, Accounted DEF WindowConserved, Alive
  <1>13. Unreported'
    BY <1>5, <1>6 DEF Unreported
  <1>14. Reading'
    BY <1>5, <1>6 DEF Reading, Alive
  <1>15. ParkedQueue'
    BY <1>5, <1>1, <1>6 DEF ParkedQueue, Passed
  <1>16. ParkedSets'
    BY <1>5, <1>6 DEF ParkedSets, Passed
  <1>17. ParkedInbox'
    BY <1>5, <1>6 DEF ParkedInbox, Done
  <1>18. HandleTypes' /\ SlotTypes' /\ InTypes' /\ QueueTypes' /\ SetTypes' /\
         DriverFlags' /\ DriverTypes' /\ WireTypes' /\ SessionTypes' /\ OwedTypes' /\
         PeerTypes' /\ Place' /\ Unbound' /\ Heads' /\ Tracked'
    BY <1>5, HandleTypesStays, SlotTypesStays, InTypesStays, QueueTypesStays,
       SetTypesStays, DriverFlagsStays, DriverTypesStays, WireTypesStays,
       SessionTypesStays, OwedTypesStays, PeerTypesStays, PlaceStays, UnboundStays,
       HeadsStays, TrackedStays
  <1> QED
    BY <1>7, <1>8, <1>9, <1>10, <1>11, <1>12, <1>13, <1>14, <1>15, <1>16, <1>17, <1>18

\* The reset of a response that had not ended, its wake still owed.
LEMMA DropResetKeeps ==
    ASSUME NEW r \in Requests, ClientInv, DropReset(r)
    PROVE  ClientInv'
  <1>1. InQueue' = InQueue
    BY QueueStays DEF DropReset
  <1>2. InBatch' = InBatch
    BY BatchStays DEF DropReset
  <1>3. /\ Pipeline' = Pipeline
        /\ \A q : HeadComes(q)' = HeadComes(q) /\ BadHeadComes(q)' = BadHeadComes(q)
    BY PipelineStays DEF DropReset
  <1>4. /\ Noted' = Noted
        /\ \A q : Observed(q)' = Observed(q) /\ Closing(q)' = Closing(q)
    BY EventsStay DEF DropReset
  <1>5. UNCHANGED <<unread, result, up, prod, clones, token, shutter, slot, abandoned,
        bodyAt, chunks, finished, failed, unwanted, queue, credits, ready, shutdown,
        refusing, gone, notified, drv, parkAt, batch, events, inbox, reader, intake,
        fed, ended, registry, str, sid, rended, resumed, barred, owed, peer, sent,
        last, wire, scene>>
    BY DEF DropReset
  <1>6. /\ \A q \in Requests :
              pc'[q] = pc[q] \/ (q = r /\ pc[q] = "reset_i" /\ pc'[q] = "resetwake_i")
        /\ pc[r] = "reset_i" /\ pc'[r] = "resetwake_i" /\ resets' = resets \union {r}
    BY DEF DropReset, Goto, AppTypes
  <1>7. AppTypes'
    BY DEF AppTypes, Pcs, SendPcs, DropPcs, Errors, DropReset, Goto
  <1>8. SetTypes'
    BY DEF SetTypes, DropReset, Goto
  <1>9. Commands'
    BY <1>5, <1>1, <1>2, <1>6 DEF Commands, Unsubmitted
  <1>10. Awaited'
    BY <1>5, <1>1, <1>2, <1>6 DEF Awaited
  <1>11. Refusals'
    BY <1>5, <1>1, <1>2, <1>3, <1>6 DEF Refusals
  <1>12. WindowConserved'
    BY <1>5, <1>4, <1>6, Accounted DEF WindowConserved, Alive
  <1>13. Unreported'
    BY <1>5, <1>6 DEF Unreported
  <1>14. ParkedQueue'
    BY <1>5, <1>1, <1>6 DEF ParkedQueue, Passed
  <1>15. ParkedSets'
    BY <1>5, <1>6 DEF ParkedSets, Passed
  <1>16. HandleTypes' /\ SlotTypes' /\ InTypes' /\ QueueTypes' /\ SharedFlags' /\
         DriverFlags' /\ DriverTypes' /\ WireTypes' /\ SessionTypes' /\ OwedTypes' /\
         PeerTypes' /\ Place' /\ Unbound' /\ Heads' /\ Tracked' /\ Reading' /\
         ParkedInbox'
    BY <1>5, HandleTypesStays, SlotTypesStays, InTypesStays, QueueTypesStays,
       SharedFlagsStays, DriverFlagsStays, DriverTypesStays, WireTypesStays,
       SessionTypesStays, OwedTypesStays, PeerTypesStays, PlaceStays, UnboundStays,
       HeadsStays, TrackedStays, ReadingStays, ParkedInboxStays
  <1> QED
    BY <1>7, <1>8, <1>9, <1>10, <1>11, <1>12, <1>13, <1>14, <1>15, <1>16

\* A body's readiness is noted before its wake.
LEMMA ProduceKeeps ==
    ASSUME NEW r \in Requests, ClientInv, Produce(r)
    PROVE  ClientInv'
  <1>1. InQueue' = InQueue
    BY QueueStays DEF Produce
  <1>2. AppTypes'
    BY DEF AppTypes, Pcs, SendPcs, DropPcs, Errors, Produce
  <1>3. SetTypes'
    BY DEF SetTypes, Produce
  <1>4. ParkedQueue'
    BY <1>1 DEF ParkedQueue, Passed, AppTypes, Produce
  <1>5. UNCHANGED <<clones, token, shutter, slot, bodyAt, abandoned, chunks, finished,
         failed, unwanted, queue, batch, shutdown, refusing, gone, notified, fed,
         intake, barred, drv, parkAt, reader, ended, registry, events, wire, inbox,
         str, sid, rended, resumed, owed, peer, sent, last, scene, pc, credits,
         unread, resets>>
    BY DEF Produce
  <1>6. HandleTypes' /\ SlotTypes' /\ InTypes' /\ QueueTypes' /\ SharedFlags' /\
         DriverFlags' /\ DriverTypes' /\ WireTypes' /\ SessionTypes' /\ OwedTypes' /\
         PeerTypes' /\ Place' /\ Commands' /\ Unbound' /\ Awaited' /\ Refusals' /\
         Heads' /\ Tracked' /\ WindowConserved' /\ Unreported' /\ Reading' /\
         ParkedSets' /\ ParkedInbox'
    BY <1>5, HandleTypesStays, SlotTypesStays, InTypesStays, QueueTypesStays,
       SharedFlagsStays, DriverFlagsStays, DriverTypesStays, WireTypesStays,
       SessionTypesStays, OwedTypesStays, PeerTypesStays, PlaceStays, CommandsStays,
       UnboundStays, AwaitedStays, RefusalsStays, HeadsStays, TrackedStays,
       WindowConservedStays, UnreportedStays, ReadingStays, ParkedSetsStays,
       ParkedInboxStays
  <1> QED
    BY <1>2, <1>3, <1>4, <1>6

\* The wake of a body's producer.
LEMMA ProduceWakeKeeps ==
    ASSUME NEW r \in Requests, ClientInv, ProduceWake(r)
    PROVE  ClientInv'
  <1>1. InQueue' = InQueue
    BY QueueStays DEF ProduceWake
  <1>2. AppTypes'
    BY DEF AppTypes, Pcs, SendPcs, DropPcs, Errors, ProduceWake, WakeDriver
  <1>3. SharedFlags'
    BY DEF SharedFlags, ProduceWake, WakeDriver
  <1>4. Reading'
    BY DEF Reading, Alive, ProduceWake, WakeDriver
  <1>5. ParkedQueue'
    BY <1>1 DEF ParkedQueue, Passed, ProduceWake, WakeDriver
  <1>6. ParkedSets'
    BY DEF ParkedSets, Passed, ProduceWake, WakeDriver
  <1>7. ParkedInbox'
    BY DEF ParkedInbox, Done, ProduceWake, WakeDriver
  <1>8. UNCHANGED <<clones, token, shutter, slot, bodyAt, abandoned, chunks, finished,
         failed, unwanted, queue, batch, credits, resets, ready, fed, intake, barred,
         drv, parkAt, reader, ended, registry, events, wire, inbox, str, sid, rended,
         resumed, owed, peer, sent, last, scene, gone, pc, unread>>
    BY DEF ProduceWake
  <1>9. HandleTypes' /\ SlotTypes' /\ InTypes' /\ QueueTypes' /\ SetTypes' /\
         DriverFlags' /\ DriverTypes' /\ WireTypes' /\ SessionTypes' /\ OwedTypes' /\
         PeerTypes' /\ Place' /\ Commands' /\ Unbound' /\ Awaited' /\ Refusals' /\
         Heads' /\ Tracked' /\ WindowConserved' /\ Unreported'
    BY <1>8, HandleTypesStays, SlotTypesStays, InTypesStays, QueueTypesStays,
       SetTypesStays, DriverFlagsStays, DriverTypesStays, WireTypesStays,
       SessionTypesStays, OwedTypesStays, PeerTypesStays, PlaceStays, CommandsStays,
       UnboundStays, AwaitedStays, RefusalsStays, HeadsStays, TrackedStays,
       WindowConservedStays, UnreportedStays
  <1> QED
    BY <1>2, <1>3, <1>4, <1>5, <1>6, <1>7, <1>9

\* The first poll reads, and starts a pass.
LEMMA FirstPollKeeps ==
    ASSUME ClientInv, FirstPoll
    PROVE  ClientInv'
  <1>1. InQueue' = InQueue
    BY QueueStays DEF FirstPoll
  <1>2. InBatch' = InBatch
    BY BatchStays DEF FirstPoll
  <1>3. /\ Noted' = Noted
        /\ \A q : Observed(q)' = Observed(q) /\ Closing(q)' = Closing(q)
    BY EventsStay DEF FirstPoll
  <1>4. UNCHANGED <<pc, unread, result, up, prod, clones, token, shutter, slot,
        abandoned, bodyAt, chunks, finished, failed, unwanted, queue, credits, resets,
        ready, shutdown, refusing, gone, parkAt, batch, events, fed, ended, registry,
        str, sid, rended, resumed, barred, owed, peer, sent, last, scene>>
    BY DEF FirstPoll
  <1>5. drv = "unpolled" /\ drv' = "advance"
    BY DEF FirstPoll
  <1>6. /\ wire' \in Seq(Frames) /\ inbox' \in Seq(Frames) /\ Len(inbox') <= ReadAhead
        /\ reader' \in {"armed", "full", "ended"} /\ (reader' = "ended" <=> intake')
        /\ reader' = "armed" => wire' = <<>>
        /\ reader' = "full" => inbox' # <<>>
        /\ \A i \in 1..Len(wire') : wire'[i].k = "eof" => i = Len(wire')
        /\ intake' \in BOOLEAN /\ notified' \in BOOLEAN
    BY ReadMoves DEF FirstPoll
  <1>7. /\ Pipeline' \subseteq Pipeline
        /\ \A q : (HeadComes(q)' => HeadComes(q)) /\ (BadHeadComes(q)' => BadHeadComes(q))
    <2>1. Coming' \subseteq Coming
      BY ReadMoves DEF FirstPoll
    <2>2. Noted' = Noted
      BY <1>4, EventsStay
    <2>3. Pipeline' \subseteq Pipeline
      BY <2>1, <2>2 DEF Pipeline
    <2> QED
      BY <2>3 DEF HeadComes, BadHeadComes
  <1>8. SharedFlags'
    BY <1>4, <1>6, Zenon DEF SharedFlags
  <1>9. DriverFlags'
    BY <1>4, <1>6, Zenon DEF DriverFlags
  <1>10. DriverTypes'
    BY <1>4, <1>5, <1>6, <1>7 DEF DriverTypes, DriverPcs
  <1>11. WireTypes'
    BY <1>4, <1>5, <1>6, <1>7 DEF WireTypes
  <1>12. Place'
    BY <1>4, <1>5, <1>6, <1>7 DEF Place, Alive
  <1>13. Awaited'
    BY <1>4, <1>1, <1>2, <1>5, <1>6, <1>7 DEF Awaited
  <1>14. Refusals'
    BY <1>4, <1>1, <1>2, <1>7 DEF Refusals
  <1>15. Heads'
    BY <1>4, <1>7 DEF Heads
  <1>16. Tracked'
    BY <1>4, <1>3, <1>5, <1>6, <1>7 DEF Tracked, Alive
  <1>17. WindowConserved'
    BY <1>4, <1>3, <1>5, <1>6, <1>7, Accounted DEF WindowConserved, Alive
  <1>18. Reading'
    BY <1>4, <1>5, <1>6, <1>7 DEF Reading, Alive
  <1>19. ParkedQueue'
    BY <1>4, <1>1, <1>5, <1>6, <1>7 DEF ParkedQueue, Passed
  <1>20. ParkedSets'
    BY <1>4, <1>5, <1>6, <1>7 DEF ParkedSets, Passed
  <1>21. ParkedInbox'
    BY <1>4, <1>5, <1>6, <1>7 DEF ParkedInbox, Done
  <1>22. AppTypes' /\ HandleTypes' /\ SlotTypes' /\ InTypes' /\ QueueTypes' /\
         SetTypes' /\ SessionTypes' /\ OwedTypes' /\ PeerTypes' /\ Commands' /\
         Unbound' /\ Unreported'
    BY <1>4, AppTypesStays, HandleTypesStays, SlotTypesStays, InTypesStays,
       QueueTypesStays, SetTypesStays, SessionTypesStays, OwedTypesStays,
       PeerTypesStays, CommandsStays, UnboundStays, UnreportedStays
  <1> QED
    BY <1>8, <1>9, <1>10, <1>11, <1>12, <1>13, <1>14, <1>15, <1>16, <1>17, <1>18, <1>19,
       <1>20, <1>21, <1>22

\* A poll reads, and the park predicate starts over.
LEMMA PollKeeps ==
    ASSUME ClientInv, Poll
    PROVE  ClientInv'
  <1>1. InQueue' = InQueue
    BY QueueStays DEF Poll
  <1>2. InBatch' = InBatch
    BY BatchStays DEF Poll
  <1>3. /\ Noted' = Noted
        /\ \A q : Observed(q)' = Observed(q) /\ Closing(q)' = Closing(q)
    BY EventsStay DEF Poll
  <1>4. UNCHANGED <<pc, unread, result, up, prod, clones, token, shutter, slot,
        abandoned, bodyAt, chunks, finished, failed, unwanted, queue, credits, resets,
        ready, shutdown, refusing, gone, batch, events, fed, ended, registry, str,
        sid, rended, resumed, barred, owed, peer, sent, last, scene>>
    BY DEF Poll
  <1>5. drv = "parked" /\ drv' = "park" /\ parkAt' = 1
    BY DEF Poll
  <1>6. /\ wire' \in Seq(Frames) /\ inbox' \in Seq(Frames) /\ Len(inbox') <= ReadAhead
        /\ reader' \in {"armed", "full", "ended"} /\ (reader' = "ended" <=> intake')
        /\ reader' = "armed" => wire' = <<>>
        /\ reader' = "full" => inbox' # <<>>
        /\ \A i \in 1..Len(wire') : wire'[i].k = "eof" => i = Len(wire')
        /\ intake' \in BOOLEAN /\ notified' \in BOOLEAN
    BY ReadMoves DEF Poll
  <1>7. /\ Pipeline' \subseteq Pipeline
        /\ \A q : (HeadComes(q)' => HeadComes(q)) /\ (BadHeadComes(q)' => BadHeadComes(q))
    <2>1. Coming' \subseteq Coming
      BY ReadMoves DEF Poll
    <2>2. Noted' = Noted
      BY <1>4, EventsStay
    <2>3. Pipeline' \subseteq Pipeline
      BY <2>1, <2>2 DEF Pipeline
    <2> QED
      BY <2>3 DEF HeadComes, BadHeadComes
  <1>8. SharedFlags'
    BY <1>4, <1>6, Zenon DEF SharedFlags
  <1>9. DriverFlags'
    BY <1>4, <1>6, Zenon DEF DriverFlags
  <1>10. DriverTypes'
    BY <1>4, <1>5, <1>6, <1>7 DEF DriverTypes, DriverPcs
  <1>11. WireTypes'
    BY <1>4, <1>5, <1>6, <1>7 DEF WireTypes
  <1>12. Place'
    BY <1>4, <1>5, <1>6, <1>7 DEF Place, Alive
  <1>13. Awaited'
    BY <1>4, <1>1, <1>2, <1>5, <1>6, <1>7 DEF Awaited
  <1>14. Refusals'
    BY <1>4, <1>1, <1>2, <1>7 DEF Refusals
  <1>15. Heads'
    BY <1>4, <1>7 DEF Heads
  <1>16. Tracked'
    BY <1>4, <1>3, <1>5, <1>6, <1>7 DEF Tracked, Alive
  <1>17. WindowConserved'
    BY <1>4, <1>3, <1>5, <1>6, <1>7, Accounted DEF WindowConserved, Alive
  <1>18. Reading'
    BY <1>4, <1>5, <1>6, <1>7 DEF Reading, Alive
  <1>19. ParkedQueue'
    BY <1>4, <1>1, <1>5, <1>6, <1>7 DEF ParkedQueue, Passed
  <1>20. ParkedSets'
    BY <1>4, <1>5, <1>6, <1>7 DEF ParkedSets, Passed
  <1>21. ParkedInbox'
    BY <1>4, <1>5, <1>6, <1>7 DEF ParkedInbox, Done
  <1>22. AppTypes' /\ HandleTypes' /\ SlotTypes' /\ InTypes' /\ QueueTypes' /\
         SetTypes' /\ SessionTypes' /\ OwedTypes' /\ PeerTypes' /\ Commands' /\
         Unbound' /\ Unreported'
    BY <1>4, AppTypesStays, HandleTypesStays, SlotTypesStays, InTypesStays,
       QueueTypesStays, SetTypesStays, SessionTypesStays, OwedTypesStays,
       PeerTypesStays, CommandsStays, UnboundStays, UnreportedStays
  <1> QED
    BY <1>8, <1>9, <1>10, <1>11, <1>12, <1>13, <1>14, <1>15, <1>16, <1>17, <1>18, <1>19,
       <1>20, <1>21, <1>22

\* A poll while a write waits only reads.
LEMMA PollWritingKeeps ==
    ASSUME ClientInv, PollWriting
    PROVE  ClientInv'
  <1>1. InQueue' = InQueue
    BY QueueStays DEF PollWriting
  <1>2. InBatch' = InBatch
    BY BatchStays DEF PollWriting
  <1>3. UNCHANGED <<pc, unread, result, up, prod, clones, token, shutter, slot,
        abandoned, bodyAt, chunks, finished, failed, unwanted, queue, credits, resets,
        ready, shutdown, refusing, gone, drv, parkAt, batch, events, fed, ended,
        registry, str, sid, rended, resumed, barred, owed, peer, sent, last, scene>>
    BY DEF PollWriting
  <1>4. drv = "flush"
    BY DEF PollWriting
  <1>5. /\ wire' \in Seq(Frames) /\ inbox' \in Seq(Frames) /\ Len(inbox') <= ReadAhead
        /\ reader' \in {"armed", "full", "ended"} /\ (reader' = "ended" <=> intake')
        /\ reader' = "armed" => wire' = <<>>
        /\ reader' = "full" => inbox' # <<>>
        /\ \A i \in 1..Len(wire') : wire'[i].k = "eof" => i = Len(wire')
        /\ intake' \in BOOLEAN /\ notified' \in BOOLEAN
    BY ReadMoves DEF PollWriting
  <1>6. /\ Pipeline' \subseteq Pipeline
        /\ \A q : (HeadComes(q)' => HeadComes(q)) /\ (BadHeadComes(q)' => BadHeadComes(q))
    <2>1. Coming' \subseteq Coming
      BY ReadMoves DEF PollWriting
    <2>2. Noted' = Noted
      BY <1>3, EventsStay
    <2>3. Pipeline' \subseteq Pipeline
      BY <2>1, <2>2 DEF Pipeline
    <2> QED
      BY <2>3 DEF HeadComes, BadHeadComes
  <1>7. SharedFlags'
    BY <1>3, <1>5, Zenon DEF SharedFlags
  <1>8. DriverFlags'
    BY <1>3, <1>5, Zenon DEF DriverFlags
  <1>9. DriverTypes'
    BY <1>3, <1>4, <1>5, <1>6 DEF DriverTypes, DriverPcs
  <1>10. WireTypes'
    BY <1>3, <1>4, <1>5, <1>6 DEF WireTypes
  <1>11. Place'
    BY <1>3, <1>4, <1>5, <1>6 DEF Place, Alive
  <1>12. Refusals'
    BY <1>3, <1>1, <1>2, <1>6 DEF Refusals
  <1>13. Heads'
    BY <1>3, <1>6 DEF Heads
  <1>14. Reading'
    BY <1>3, <1>4, <1>5, <1>6 DEF Reading, Alive
  <1>15. ParkedQueue'
    BY <1>3, <1>1, <1>4, <1>5, <1>6 DEF ParkedQueue, Passed
  <1>16. ParkedSets'
    BY <1>3, <1>4, <1>5, <1>6 DEF ParkedSets, Passed
  <1>17. ParkedInbox'
    BY <1>3, <1>4, <1>5, <1>6 DEF ParkedInbox, Done
  <1>18. AppTypes' /\ HandleTypes' /\ SlotTypes' /\ InTypes' /\ QueueTypes' /\
         SetTypes' /\ SessionTypes' /\ OwedTypes' /\ PeerTypes' /\ Commands' /\
         Unbound' /\ Awaited' /\ Tracked' /\ WindowConserved' /\ Unreported'
    BY <1>3, AppTypesStays, HandleTypesStays, SlotTypesStays, InTypesStays,
       QueueTypesStays, SetTypesStays, SessionTypesStays, OwedTypesStays,
       PeerTypesStays, CommandsStays, UnboundStays, AwaitedStays, TrackedStays,
       WindowConservedStays, UnreportedStays
  <1> QED
    BY <1>7, <1>8, <1>9, <1>10, <1>11, <1>12, <1>13, <1>14, <1>15, <1>16, <1>17, <1>18

\* The queue becomes the batch.
LEMMA AdvanceTakeKeeps ==
    ASSUME ClientInv, AdvanceTake
    PROVE  ClientInv'
  <1>1. /\ Pipeline' = Pipeline
        /\ \A q : HeadComes(q)' = HeadComes(q) /\ BadHeadComes(q)' = BadHeadComes(q)
    BY PipelineStays DEF AdvanceTake
  <1>2. /\ Noted' = Noted
        /\ \A q : Observed(q)' = Observed(q) /\ Closing(q)' = Closing(q)
    BY EventsStay DEF AdvanceTake
  <1>3. UNCHANGED <<pc, unread, result, up, prod, clones, token, shutter, slot,
        abandoned, bodyAt, chunks, finished, failed, unwanted, credits, resets, ready,
        shutdown, refusing, gone, notified, parkAt, events, inbox, reader, intake,
        fed, ended, registry, str, sid, rended, resumed, barred, owed, peer, sent,
        last, wire, scene>>
    BY DEF AdvanceTake
  <1>4. /\ drv = "advance" /\ batch = <<>> /\ batch' = queue /\ queue' = <<>>
        /\ drv' \in {"credits", "check"} /\ (drv' = "check" <=> batch' # <<>>)
    BY DEF AdvanceTake, Place
  <1>5. InBatch = {} /\ InBatch' = InQueue /\ InQueue' = {}
    BY <1>4, RangeShort DEF InBatch, InQueue
  <1>6. NoRepeat(queue') /\ NoRepeat(batch')
    <2>1. NoRepeat(<<>>)
      BY DEF NoRepeat
    <2> QED
      BY <1>4, <2>1 DEF Commands
  <1>7. QueueTypes'
    <2>1. <<>> \in Seq(Requests)
      OBVIOUS
    <2> QED
      BY <1>3, <1>4, <2>1, Zenon DEF QueueTypes
  <1>8. DriverTypes'
    BY DEF DriverTypes, DriverPcs, AdvanceTake
  <1>9. Place'
    BY <1>3, <1>4, <1>5, <1>6 DEF Place, Alive
  <1>10. Commands'
    BY <1>3, <1>4, <1>5, <1>6 DEF Commands, Unsubmitted
  <1>11. Awaited'
    BY <1>3, <1>4, <1>5, <1>6 DEF Awaited
  <1>12. Refusals'
    BY <1>3, <1>1, <1>4, <1>5, <1>6 DEF Refusals
  <1>13. Tracked'
    BY <1>3, <1>2, <1>4, <1>5, <1>6 DEF Tracked, Alive
  <1>14. WindowConserved'
    BY <1>3, <1>2, <1>4, <1>5, <1>6, Accounted DEF WindowConserved, Alive
  <1>15. Reading'
    BY <1>3, <1>4, <1>5, <1>6 DEF Reading, Alive
  <1>16. ParkedQueue'
    BY <1>3, <1>4, <1>5, <1>6 DEF ParkedQueue, Passed
  <1>17. ParkedSets'
    BY <1>3, <1>4, <1>5, <1>6 DEF ParkedSets, Passed
  <1>18. ParkedInbox'
    BY <1>3, <1>4, <1>5, <1>6 DEF ParkedInbox, Done
  <1>19. AppTypes' /\ HandleTypes' /\ SlotTypes' /\ InTypes' /\ SetTypes' /\
         SharedFlags' /\ DriverFlags' /\ WireTypes' /\ SessionTypes' /\ OwedTypes' /\
         PeerTypes' /\ Unbound' /\ Heads' /\ Unreported'
    BY <1>3, AppTypesStays, HandleTypesStays, SlotTypesStays, InTypesStays,
       SetTypesStays, SharedFlagsStays, DriverFlagsStays, WireTypesStays,
       SessionTypesStays, OwedTypesStays, PeerTypesStays, UnboundStays, HeadsStays,
       UnreportedStays
  <1> QED
    BY <1>7, <1>8, <1>9, <1>10, <1>11, <1>12, <1>13, <1>14, <1>15, <1>16, <1>17, <1>18,
       <1>19

\* A command is skipped only if its future is gone.
LEMMA AdvanceCheckKeeps ==
    ASSUME ClientInv, AdvanceCheck
    PROVE  ClientInv'
  <1>1. InQueue' = InQueue
    BY QueueStays DEF AdvanceCheck
  <1>2. /\ Pipeline' = Pipeline
        /\ \A q : HeadComes(q)' = HeadComes(q) /\ BadHeadComes(q)' = BadHeadComes(q)
    BY PipelineStays DEF AdvanceCheck
  <1>3. /\ Noted' = Noted
        /\ \A q : Observed(q)' = Observed(q) /\ Closing(q)' = Closing(q)
    BY EventsStay DEF AdvanceCheck
  <1>4. UNCHANGED <<pc, unread, result, up, prod, clones, token, shutter, slot,
        abandoned, bodyAt, chunks, finished, failed, unwanted, queue, credits, resets,
        ready, shutdown, refusing, gone, notified, parkAt, events, inbox, reader,
        intake, fed, ended, registry, str, sid, rended, resumed, barred, owed, peer,
        sent, last, wire, scene>>
    BY DEF AdvanceCheck
  <1>5. /\ drv = "check" /\ batch # <<>>
        /\ \/ batch' = Tail(batch) /\ Head(batch) \in abandoned /\ drv' \in {"credits", "check"}
           \/ batch' = batch /\ drv' = "bind"
        /\ drv' \in {"check", "bind"} <=> batch' # <<>>
    BY DEF AdvanceCheck, Place
  <1>6. /\ InBatch' \subseteq InBatch /\ batch' \in Seq(Requests)
        /\ \A q \in InBatch : q \in InBatch' \/ q \in abandoned
        /\ NoRepeat(batch')
    <2>1. batch \in Seq(Requests) /\ NoRepeat(batch)
      BY DEF QueueTypes, Commands
    <2>2. CASE batch' = batch
      BY <2>1, <2>2 DEF InBatch
    <2>3. CASE batch' = Tail(batch) /\ Head(batch) \in abandoned
      <3>1. InBatch = {Head(batch)} \union InBatch' /\ batch' \in Seq(Requests)
        BY <1>5, <2>1, <2>3, RangeTail DEF InBatch
      <3> QED
        BY <1>5, <2>1, <2>3, <3>1, NoRepeatKept
    <2> QED
      BY <1>5, <2>2, <2>3
  <1>7. QueueTypes'
    BY <1>4, <1>5, <1>6 DEF QueueTypes
  <1>8. DriverTypes'
    BY DEF DriverTypes, DriverPcs, AdvanceCheck
  <1>9. Place'
    BY <1>4, <1>5, <1>6 DEF Place, Alive
  <1>10. Commands'
    BY <1>4, <1>1, <1>5, <1>6 DEF Commands, Unsubmitted
  <1>11. Awaited'
    BY <1>4, <1>1, <1>5, <1>6 DEF Awaited
  <1>12. Refusals'
    BY <1>4, <1>1, <1>2, <1>5, <1>6 DEF Refusals
  <1>13. Tracked'
    BY <1>4, <1>3, <1>5, <1>6 DEF Tracked, Alive
  <1>14. WindowConserved'
    BY <1>4, <1>3, <1>5, <1>6, Accounted DEF WindowConserved, Alive
  <1>15. Reading'
    BY <1>4, <1>5, <1>6 DEF Reading, Alive
  <1>16. ParkedQueue'
    BY <1>4, <1>1, <1>5, <1>6 DEF ParkedQueue, Passed
  <1>17. ParkedSets'
    BY <1>4, <1>5, <1>6 DEF ParkedSets, Passed
  <1>18. ParkedInbox'
    BY <1>4, <1>5, <1>6 DEF ParkedInbox, Done
  <1>19. AppTypes' /\ HandleTypes' /\ SlotTypes' /\ InTypes' /\ SetTypes' /\
         SharedFlags' /\ DriverFlags' /\ WireTypes' /\ SessionTypes' /\ OwedTypes' /\
         PeerTypes' /\ Unbound' /\ Heads' /\ Unreported'
    BY <1>4, AppTypesStays, HandleTypesStays, SlotTypesStays, InTypesStays,
       SetTypesStays, SharedFlagsStays, DriverFlagsStays, WireTypesStays,
       SessionTypesStays, OwedTypesStays, PeerTypesStays, UnboundStays, HeadsStays,
       UnreportedStays
  <1> QED
    BY <1>7, <1>8, <1>9, <1>10, <1>11, <1>12, <1>13, <1>14, <1>15, <1>16, <1>17, <1>18,
       <1>19

\* A command gets its stream and its registry entry, or its error.
LEMMA AdvanceBindKeeps ==
    ASSUME ClientInv, AdvanceBind
    PROVE  ClientInv'
  <1>1. InQueue' = InQueue
    BY QueueStays DEF AdvanceBind
  <1>2. /\ Pipeline' = Pipeline
        /\ \A q : HeadComes(q)' = HeadComes(q) /\ BadHeadComes(q)' = BadHeadComes(q)
    BY PipelineStays DEF AdvanceBind
  <1>3. /\ Noted' = Noted
        /\ \A q : Observed(q)' = Observed(q) /\ Closing(q)' = Closing(q)
    BY EventsStay DEF AdvanceBind
  <1>4. UNCHANGED <<pc, unread, result, up, prod, clones, token, shutter, abandoned,
        bodyAt, chunks, finished, failed, unwanted, queue, credits, resets, ready,
        shutdown, refusing, gone, notified, parkAt, events, inbox, reader, intake,
        fed, ended, rended, resumed, barred, owed, peer, sent, last, wire, scene>>
    BY DEF AdvanceBind
  <1>5. PICK h \in Requests : h = Head(batch)
    <2>1. batch # <<>> /\ batch \in Seq(Requests)
      BY DEF AdvanceBind, Place, QueueTypes
    <2> QED
      BY <2>1, TailShifts
  <1>6. /\ drv = "bind" /\ drv' \in {"credits", "check"} /\ (drv' = "check" <=> batch' # <<>>)
        /\ batch' \in Seq(Requests) /\ NoRepeat(batch')
        /\ InBatch = {h} \union InBatch' /\ h \notin InBatch'
    <2>1. batch # <<>> /\ batch \in Seq(Requests) /\ NoRepeat(batch)
      BY DEF AdvanceBind, Place, QueueTypes, Commands
    <2>2. /\ drv = "bind" /\ batch' = Tail(batch)
          /\ drv' = IF batch' = <<>> THEN "credits" ELSE "check"
      BY DEF AdvanceBind
    <2>3. InBatch = {h} \union InBatch' /\ batch' \in Seq(Requests)
      BY <1>5, <2>1, <2>2, RangeTail DEF InBatch
    <2>4. NoRepeat(batch') /\ h \notin InBatch'
      BY <1>5, <2>1, <2>2, NoRepeatKept DEF InBatch
    <2> QED
      BY <2>2, <2>3, <2>4
  <1>7. /\ sid[h] = 0 /\ str[h] = "none" /\ peer[h] = "none" /\ slot[h] # "head"
        /\ h \notin registry /\ h \notin finished \union failed /\ h \notin InQueue
        /\ pc[h] \notin Unsubmitted /\ slot[h] # "refused" /\ Noted = {}
    <2>1. h \in InBatch
      BY <1>6
    <2>2. sid[h] = 0 /\ h \notin InQueue /\ pc[h] \notin Unsubmitted
      BY <2>1 DEF Commands
    <2>3. slot[h] # "refused"
      BY <2>1, <2>2 DEF Refusals, PeerTypes
    <2>4. events = <<>>
      BY <1>6 DEF Place, Alive
    <2>5. Noted = {}
      BY <2>4, RangeShort DEF Noted
    <2> QED
      BY <2>2, <2>3, <2>5 DEF Unbound
  <1>8. /\ \A q \in Requests : q # h => sid'[q] = sid[q] /\ str'[q] = str[q] /\ slot'[q] = slot[q]
        /\ \/ /\ sid'[h] = 0 /\ str'[h] = "none" /\ registry' = registry
              /\ slot'[h] = IF slot[h] = "open" THEN "protocol" ELSE slot[h]
           \/ /\ sid'[h] \in Nat /\ sid'[h] > 0 /\ str'[h] \in {"rst", "queued"}
              /\ registry' = registry \union {h} /\ slot'[h] = slot[h]
    <2>1. NextSid \in Nat /\ NextSid > 0
      BY NextSidCounts
    <2>2. CASE FailSlots({h}, "protocol") /\ UNCHANGED <<sid, str, registry>>
      BY <1>7, <2>2 DEF FailSlots
    <2>3. CASE /\ sid' = [sid EXCEPT ![h] = NextSid]
               /\ str' = [str EXCEPT ![h] = IF h \in abandoned THEN "rst" ELSE "queued"]
               /\ registry' = registry \union {h}
               /\ UNCHANGED slot
      BY <2>1, <2>3 DEF SessionTypes
    <2> QED
      BY <1>5, <2>2, <2>3 DEF AdvanceBind
  <1>9. /\ sid' \in [Requests -> Nat]
        /\ str' \in [Requests -> {"none", "queued", "open", "rst", "closed"}]
        /\ slot' \in [Requests -> Errors \union {"open", "head"}]
    <2>1. NextSid \in Nat
      BY NextSidCounts
    <2>2. sid' \in [Requests -> Nat]
      BY <2>1 DEF AdvanceBind, SessionTypes
    <2>3. str' \in [Requests -> {"none", "queued", "open", "rst", "closed"}]
      BY DEF AdvanceBind, SessionTypes
    <2>4. slot' \in [Requests -> Errors \union {"open", "head"}]
      BY DEF AdvanceBind, SlotTypes, FailSlots, Errors
    <2> QED
      BY <2>2, <2>3, <2>4
  <1>10. SlotTypes'
    BY <1>4, <1>9 DEF SlotTypes
  <1>11. QueueTypes'
    BY <1>4, <1>6 DEF QueueTypes
  <1>12. DriverTypes'
    BY <1>4, <1>5, <1>6, <1>7, <1>8, <1>9 DEF DriverTypes, DriverPcs
  <1>13. SessionTypes'
    BY <1>4, <1>9 DEF SessionTypes
  <1>14. Place'
    BY <1>4, <1>5, <1>6, <1>7, <1>8, <1>9 DEF Place, Alive
  <1>15. Commands'
    BY <1>4, <1>1, <1>5, <1>6, <1>7, <1>8, <1>9 DEF Commands, Unsubmitted
  <1>16. Unbound'
    BY <1>4, <1>5, <1>6, <1>7, <1>8, <1>9 DEF Unbound
  <1>17. Awaited'
    BY <1>4, <1>1, <1>5, <1>6, <1>7, <1>8, <1>9 DEF Awaited
  <1>18. Refusals'
    BY <1>4, <1>1, <1>2, <1>5, <1>6, <1>7, <1>8, <1>9 DEF Refusals, PeerTypes
  <1>19. Heads'
    BY <1>4, <1>2, <1>5, <1>6, <1>7, <1>8, <1>9 DEF Heads
  <1>20. Tracked'
    BY <1>4, <1>3, <1>5, <1>6, <1>7, <1>8, <1>9 DEF Tracked, Alive
  <1>21. WindowConserved'
    BY <1>4, <1>3, <1>5, <1>6, <1>7, <1>8, <1>9, Accounted DEF WindowConserved,
       Alive
  <1>22. Reading'
    BY <1>4, <1>5, <1>6, <1>7, <1>8, <1>9 DEF Reading, Alive
  <1>23. ParkedQueue'
    BY <1>4, <1>1, <1>5, <1>6, <1>7, <1>8, <1>9 DEF ParkedQueue, Passed
  <1>24. ParkedSets'
    BY <1>4, <1>5, <1>6, <1>7, <1>8, <1>9 DEF ParkedSets, Passed
  <1>25. ParkedInbox'
    BY <1>4, <1>5, <1>6, <1>7, <1>8, <1>9 DEF ParkedInbox, Done
  <1>26. AppTypes' /\ HandleTypes' /\ InTypes' /\ SetTypes' /\ SharedFlags' /\
         DriverFlags' /\ WireTypes' /\ OwedTypes' /\ PeerTypes' /\ Unreported'
    BY <1>4, AppTypesStays, HandleTypesStays, InTypesStays, SetTypesStays,
       SharedFlagsStays, DriverFlagsStays, WireTypesStays, OwedTypesStays,
       PeerTypesStays, UnreportedStays
  <1> QED
    BY <1>10, <1>11, <1>12, <1>13, <1>14, <1>15, <1>16, <1>17, <1>18, <1>19, <1>20, <1>21,
       <1>22, <1>23, <1>24, <1>25, <1>26

\* Credits are part of what is owed.
LEMMA TakeCreditsKeeps ==
    ASSUME ClientInv, TakeCredits
    PROVE  ClientInv'
  <1>1. InQueue' = InQueue
    BY QueueStays DEF TakeCredits
  <1>2. InBatch' = InBatch
    BY BatchStays DEF TakeCredits
  <1>3. /\ Noted' = Noted
        /\ \A q : Observed(q)' = Observed(q) /\ Closing(q)' = Closing(q)
    BY EventsStay DEF TakeCredits
  <1>4. UNCHANGED <<pc, unread, result, up, prod, clones, token, shutter, slot,
        abandoned, bodyAt, chunks, finished, failed, unwanted, queue, resets, ready,
        shutdown, refusing, gone, notified, parkAt, batch, events, inbox, reader,
        intake, fed, ended, registry, str, sid, rended, resumed, barred, peer, sent,
        last, wire, scene>>
    BY DEF TakeCredits
  <1>5. /\ drv = "credits" /\ drv' = "resets"
        /\ \A q \in Requests : owed'[q] = owed[q] - credits[q] /\ credits'[q] = 0
    BY DEF TakeCredits
  <1>6. SetTypes'
    BY DEF SetTypes, TakeCredits
  <1>7. DriverTypes'
    BY DEF DriverTypes, DriverPcs, TakeCredits
  <1>8. OwedTypes'
    <2>1. ASSUME NEW q \in Requests
          PROVE  owed[q] - credits[q] \in Nat
      BY <1>5, Accounted DEF WindowConserved, Alive
    <2> QED
      BY <2>1 DEF OwedTypes, TakeCredits
  <1>9. Place'
    BY <1>4, <1>5 DEF Place, Alive
  <1>10. Awaited'
    BY <1>4, <1>1, <1>2, <1>5 DEF Awaited
  <1>11. Tracked'
    BY <1>4, <1>3, <1>5 DEF Tracked, Alive
  <1>12. WindowConserved'
    BY <1>4, <1>3, <1>5, Accounted DEF WindowConserved, Alive
  <1>13. Reading'
    BY <1>4, <1>5 DEF Reading, Alive
  <1>14. ParkedQueue'
    BY <1>4, <1>1, <1>5 DEF ParkedQueue, Passed
  <1>15. ParkedSets'
    BY <1>4, <1>5 DEF ParkedSets, Passed
  <1>16. ParkedInbox'
    BY <1>4, <1>5 DEF ParkedInbox, Done
  <1>17. AppTypes' /\ HandleTypes' /\ SlotTypes' /\ InTypes' /\ QueueTypes' /\
         SharedFlags' /\ DriverFlags' /\ WireTypes' /\ SessionTypes' /\ PeerTypes' /\
         Commands' /\ Unbound' /\ Refusals' /\ Heads' /\ Unreported'
    BY <1>4, AppTypesStays, HandleTypesStays, SlotTypesStays, InTypesStays,
       QueueTypesStays, SharedFlagsStays, DriverFlagsStays, WireTypesStays,
       SessionTypesStays, PeerTypesStays, CommandsStays, UnboundStays, RefusalsStays,
       HeadsStays, UnreportedStays
  <1> QED
    BY <1>6, <1>7, <1>8, <1>9, <1>10, <1>11, <1>12, <1>13, <1>14, <1>15, <1>16, <1>17

\* A reset changes streams that are tracked.
LEMMA TakeResetsKeeps ==
    ASSUME ClientInv, TakeResets
    PROVE  ClientInv'
  <1>1. InQueue' = InQueue
    BY QueueStays DEF TakeResets
  <1>2. InBatch' = InBatch
    BY BatchStays DEF TakeResets
  <1>3. /\ Noted' = Noted
        /\ \A q : Observed(q)' = Observed(q) /\ Closing(q)' = Closing(q)
    BY EventsStay DEF TakeResets
  <1>4. UNCHANGED <<pc, unread, result, up, prod, clones, token, shutter, slot,
        abandoned, bodyAt, chunks, finished, failed, unwanted, queue, credits, ready,
        shutdown, refusing, gone, notified, parkAt, batch, events, inbox, reader,
        intake, fed, ended, registry, sid, rended, resumed, barred, owed, peer, sent,
        last, wire, scene>>
    BY DEF TakeResets
  <1>5. /\ drv = "resets" /\ drv' = "shutdown" /\ resets' = {}
        /\ \A q \in Requests : str'[q] = str[q] \/ (str[q] = "open" /\ str'[q] = "rst")
    BY DEF TakeResets
  <1>6. SetTypes'
    BY DEF SetTypes, TakeResets
  <1>7. DriverTypes'
    BY DEF DriverTypes, DriverPcs, TakeResets
  <1>8. SessionTypes'
    BY DEF SessionTypes, TakeResets
  <1>9. Place'
    BY <1>4, <1>5 DEF Place, Alive
  <1>10. Unbound'
    BY <1>4, <1>5 DEF Unbound
  <1>11. Awaited'
    BY <1>4, <1>1, <1>2, <1>5 DEF Awaited
  <1>12. Tracked'
    BY <1>4, <1>3, <1>5 DEF Tracked, Alive
  <1>13. WindowConserved'
    BY <1>4, <1>3, <1>5, Accounted DEF WindowConserved, Alive
  <1>14. Reading'
    BY <1>4, <1>5 DEF Reading, Alive
  <1>15. ParkedQueue'
    BY <1>4, <1>1, <1>5 DEF ParkedQueue, Passed
  <1>16. ParkedSets'
    BY <1>4, <1>5 DEF ParkedSets, Passed
  <1>17. ParkedInbox'
    BY <1>4, <1>5 DEF ParkedInbox, Done
  <1>18. AppTypes' /\ HandleTypes' /\ SlotTypes' /\ InTypes' /\ QueueTypes' /\
         SharedFlags' /\ DriverFlags' /\ WireTypes' /\ OwedTypes' /\ PeerTypes' /\
         Commands' /\ Refusals' /\ Heads' /\ Unreported'
    BY <1>4, AppTypesStays, HandleTypesStays, SlotTypesStays, InTypesStays,
       QueueTypesStays, SharedFlagsStays, DriverFlagsStays, WireTypesStays,
       OwedTypesStays, PeerTypesStays, CommandsStays, RefusalsStays, HeadsStays,
       UnreportedStays
  <1> QED
    BY <1>6, <1>7, <1>8, <1>9, <1>10, <1>11, <1>12, <1>13, <1>14, <1>15, <1>16, <1>17,
       <1>18

\* The shutdown's flag is taken.
LEMMA TakeShutdownKeeps ==
    ASSUME ClientInv, TakeShutdown
    PROVE  ClientInv'
  <1>1. InQueue' = InQueue
    BY QueueStays DEF TakeShutdown
  <1>2. InBatch' = InBatch
    BY BatchStays DEF TakeShutdown
  <1>3. /\ Noted' = Noted
        /\ \A q : Observed(q)' = Observed(q) /\ Closing(q)' = Closing(q)
    BY EventsStay DEF TakeShutdown
  <1>4. UNCHANGED <<pc, unread, result, up, prod, clones, token, shutter, slot,
        abandoned, bodyAt, chunks, finished, failed, unwanted, queue, credits, resets,
        ready, refusing, gone, notified, parkAt, batch, events, inbox, reader, intake,
        fed, ended, registry, str, sid, rended, resumed, barred, owed, peer, sent,
        last, wire, scene>>
    BY DEF TakeShutdown
  <1>5. drv = "shutdown" /\ drv' = "ready" /\ ~shutdown'
    BY DEF TakeShutdown
  <1>6. SharedFlags'
    BY DEF SharedFlags, TakeShutdown
  <1>7. DriverTypes'
    BY DEF DriverTypes, DriverPcs, TakeShutdown
  <1>8. Place'
    BY <1>4, <1>5 DEF Place, Alive
  <1>9. Awaited'
    BY <1>4, <1>1, <1>2, <1>5 DEF Awaited
  <1>10. Tracked'
    BY <1>4, <1>3, <1>5 DEF Tracked, Alive
  <1>11. WindowConserved'
    BY <1>4, <1>3, <1>5, Accounted DEF WindowConserved, Alive
  <1>12. Reading'
    BY <1>4, <1>5 DEF Reading, Alive
  <1>13. ParkedQueue'
    BY <1>4, <1>1, <1>5 DEF ParkedQueue, Passed
  <1>14. ParkedSets'
    BY <1>4, <1>5 DEF ParkedSets, Passed
  <1>15. ParkedInbox'
    BY <1>4, <1>5 DEF ParkedInbox, Done
  <1>16. AppTypes' /\ HandleTypes' /\ SlotTypes' /\ InTypes' /\ QueueTypes' /\
         SetTypes' /\ DriverFlags' /\ WireTypes' /\ SessionTypes' /\ OwedTypes' /\
         PeerTypes' /\ Commands' /\ Unbound' /\ Refusals' /\ Heads' /\ Unreported'
    BY <1>4, AppTypesStays, HandleTypesStays, SlotTypesStays, InTypesStays,
       QueueTypesStays, SetTypesStays, DriverFlagsStays, WireTypesStays,
       SessionTypesStays, OwedTypesStays, PeerTypesStays, CommandsStays, UnboundStays,
       RefusalsStays, HeadsStays, UnreportedStays
  <1> QED
    BY <1>6, <1>7, <1>8, <1>9, <1>10, <1>11, <1>12, <1>13, <1>14, <1>15, <1>16

\* The readiness notes are taken.
LEMMA TakeReadyKeeps ==
    ASSUME ClientInv, TakeReady
    PROVE  ClientInv'
  <1>1. InQueue' = InQueue
    BY QueueStays DEF TakeReady
  <1>2. InBatch' = InBatch
    BY BatchStays DEF TakeReady
  <1>3. /\ Noted' = Noted
        /\ \A q : Observed(q)' = Observed(q) /\ Closing(q)' = Closing(q)
    BY EventsStay DEF TakeReady
  <1>4. UNCHANGED <<pc, unread, result, up, prod, clones, token, shutter, slot,
        abandoned, bodyAt, chunks, finished, failed, unwanted, queue, credits, resets,
        shutdown, refusing, gone, notified, parkAt, batch, events, inbox, reader,
        intake, ended, registry, str, sid, rended, barred, owed, peer, sent, last,
        wire, scene>>
    BY DEF TakeReady
  <1>5. drv = "ready" /\ drv' = "feed" /\ ready' = {}
    BY DEF TakeReady
  <1>6. SetTypes'
    BY DEF SetTypes, TakeReady
  <1>7. DriverFlags'
    BY DEF DriverFlags, TakeReady
  <1>8. DriverTypes'
    BY DEF DriverTypes, DriverPcs, TakeReady
  <1>9. SessionTypes'
    BY DEF SessionTypes, SetTypes, TakeReady
  <1>10. Place'
    BY <1>4, <1>5 DEF Place, Alive
  <1>11. Awaited'
    BY <1>4, <1>1, <1>2, <1>5 DEF Awaited
  <1>12. Tracked'
    BY <1>4, <1>3, <1>5 DEF Tracked, Alive
  <1>13. WindowConserved'
    BY <1>4, <1>3, <1>5, Accounted DEF WindowConserved, Alive
  <1>14. Reading'
    BY <1>4, <1>5 DEF Reading, Alive
  <1>15. ParkedQueue'
    BY <1>4, <1>1, <1>5 DEF ParkedQueue, Passed
  <1>16. ParkedSets'
    BY <1>4, <1>5 DEF ParkedSets, Passed
  <1>17. ParkedInbox'
    BY <1>4, <1>5 DEF ParkedInbox, Done
  <1>18. AppTypes' /\ HandleTypes' /\ SlotTypes' /\ InTypes' /\ QueueTypes' /\
         SharedFlags' /\ WireTypes' /\ OwedTypes' /\ PeerTypes' /\ Commands' /\
         Unbound' /\ Refusals' /\ Heads' /\ Unreported'
    BY <1>4, AppTypesStays, HandleTypesStays, SlotTypesStays, InTypesStays,
       QueueTypesStays, SharedFlagsStays, WireTypesStays, OwedTypesStays,
       PeerTypesStays, CommandsStays, UnboundStays, RefusalsStays, HeadsStays,
       UnreportedStays
  <1> QED
    BY <1>6, <1>7, <1>8, <1>9, <1>10, <1>11, <1>12, <1>13, <1>14, <1>15, <1>16, <1>17,
       <1>18

\* A buffer is fed: closures are observed, a GOAWAY closes what it refuses.
LEMMA FeedOneKeeps ==
    ASSUME ClientInv, FeedOne
    PROVE  ClientInv'
  <1>1. InQueue' = InQueue
    BY QueueStays DEF FeedOne
  <1>2. InBatch' = InBatch
    BY BatchStays DEF FeedOne
  <1>3. UNCHANGED <<pc, unread, result, up, prod, clones, token, shutter, slot,
        abandoned, bodyAt, chunks, finished, failed, unwanted, queue, credits, resets,
        ready, shutdown, refusing, gone, notified, drv, parkAt, batch, reader, intake,
        ended, registry, sid, resumed, peer, sent, last, wire, scene>>
    BY DEF FeedOne
  <1>4. PICK f \in Frames, closed \in SUBSET Requests :
           /\ f \in Coming /\ inbox' \in Seq(Frames) /\ Len(inbox') <= ReadAhead
           /\ Range(inbox') \subseteq Range(inbox)
           /\ events' \in Seq(Events)
           /\ Noted \subseteq Noted'
           /\ \A e \in Noted' : e \in Noted \/ e = f \/ (e.k = "close" /\ e.rs = closed)
           /\ closed # {} => \E e \in Noted' : e.k = "close" /\ e.rs = closed
           /\ f.k # "close"
           /\ \A q \in closed : str[q] \in {"open", "rst"}
           /\ f.k = "goaway" => \A q \in Requests :
                 str[q] \in {"open", "rst"} /\ sid[q] > f.last => q \in closed
           /\ \A q \in Requests : str'[q] = IF q \in closed THEN "closed" ELSE str[q]
           /\ \A q \in Requests : \/ owed'[q] = owed[q] /\ Observed(q)' = Observed(q)
                                  \/ owed'[q] = owed[q] + 1 /\ Observed(q)' = Observed(q) + 1
           /\ barred' = (barred \/ f.k = "goaway")
    BY ObserveMoves
  <1>5. drv = "feed" /\ fed'
    BY DEF FeedOne
  <1>6. /\ f \in Pipeline
        /\ \A g \in Pipeline' : g \in Pipeline \/ g.k = "close"
        /\ \A q : (HeadComes(q)' => HeadComes(q)) /\ (BadHeadComes(q)' => BadHeadComes(q))
    <2>1. f \in Pipeline
      BY <1>4 DEF Pipeline
    <2>2. Coming' \subseteq Coming
      BY <1>3, <1>4 DEF Coming
    <2>3. \A g \in Pipeline' : g \in Pipeline \/ g.k = "close"
      BY <1>4, <2>1, <2>2 DEF Pipeline
    <2> QED
      BY <2>1, <2>3 DEF HeadComes, BadHeadComes
  <1>7. /\ \A q \in Requests : Closing(q)' <=> Closing(q) \/ q \in closed
        /\ \A e \in Noted' : e.k = "goaway" => e \in Noted \/ e = f
    BY <1>4 DEF Closing
  <1>8. DriverFlags'
    <2>1. barred' \in BOOLEAN
      BY <1>4
    <2>2. fed' = TRUE
      BY DEF FeedOne
    <2> QED
      BY <1>3, <2>1, <2>2 DEF DriverFlags
  <1>9. WireTypes'
    BY <1>3, <1>4 DEF WireTypes
  <1>10. SessionTypes'
    <2>1. str' \in [Requests -> {"none", "queued", "open", "rst", "closed"}]
      BY DEF FeedOne, Observe, SessionTypes
    <2>2. rended' \subseteq Requests
      BY DEF FeedOne, Observe, SessionTypes
    <2> QED
      BY <1>3, <2>1, <2>2 DEF SessionTypes
  <1>11. OwedTypes'
    <2>1. \A q \in Requests : owed'[q] \in Nat
      BY <1>4 DEF OwedTypes
    <2>2. owed' = [q \in Requests |-> owed'[q]]
      BY DEF FeedOne, Observe
    <2> QED
      BY <2>1, <2>2 DEF OwedTypes
  <1>12. Place'
    BY <1>3, <1>5 DEF Place, Alive
  <1>13. Unbound'
    BY <1>3, <1>4 DEF Unbound
  <1>14. Refusals'
    BY <1>3, <1>1, <1>2, <1>6 DEF Refusals
  <1>15. Heads'
    BY <1>3, <1>6 DEF Heads
  <1>16. Tracked'
    <2>1. \A q \in Requests :
             /\ str'[q] \in {"open", "rst", "queued"} => str'[q] = str[q]
             /\ str'[q] = "closed" <=> str[q] = "closed" \/ q \in closed
             /\ str[q] = "closed" => str'[q] = "closed"
      BY <1>4
    <2>2. barred => barred'
      BY <1>4
    <2>3. \A q \in Requests :
             /\ Alive' /\ str'[q] \in {"open", "rst"} => q \in registry'
             /\ Alive' /\ str'[q] = "queued" /\ ~barred' => q \in registry'
             /\ Alive' /\ q \in registry' /\ str'[q] = "closed" => Closing(q)'
             /\ Closing(q)' => str'[q] = "closed"
      BY <1>3, <1>7, <2>1, <2>2 DEF Tracked, Alive
    <2>4. ASSUME NEW e \in Noted', e.k = "goaway"
          PROVE  barred' /\ \A q \in Requests : sid'[q] > last' => str'[q] \notin {"open", "rst"}
      <3>1. CASE e \in Noted
        BY <1>3, <2>1, <2>2, <2>4, <3>1 DEF Tracked
      <3>2. CASE e = f
        <4>1. f.last = last /\ barred'
          BY <1>4, <1>6, <2>4, <3>2 DEF Refusals
        <4>2. \A q \in Requests : str[q] \in {"open", "rst"} /\ sid[q] > last => q \in closed
          BY <1>4, <2>4, <3>2, <4>1
        <4>3. \A q \in Requests : q \in closed => str'[q] = "closed"
          BY <1>4
        <4> QED
          BY <1>3, <2>1, <4>1, <4>2, <4>3
      <3> QED
        BY <1>7, <2>4, <3>1, <3>2
    <2> QED
      BY <2>3, <2>4 DEF Tracked
  <1>17. WindowConserved'
    BY <1>3, <1>4, <1>5, Accounted DEF WindowConserved, Alive
  <1>18. Reading'
    BY <1>3, <1>5 DEF Reading, Alive
  <1>19. ParkedInbox'
    BY <1>3, <1>5 DEF ParkedInbox
  <1>20. AppTypes' /\ HandleTypes' /\ SlotTypes' /\ InTypes' /\ QueueTypes' /\
         SetTypes' /\ SharedFlags' /\ DriverTypes' /\ PeerTypes' /\ Commands' /\
         Awaited' /\ Unreported' /\ ParkedQueue' /\ ParkedSets'
    BY <1>3, AppTypesStays, HandleTypesStays, SlotTypesStays, InTypesStays,
       QueueTypesStays, SetTypesStays, SharedFlagsStays, DriverTypesStays,
       PeerTypesStays, CommandsStays, AwaitedStays, UnreportedStays, ParkedQueueStays,
       ParkedSetsStays
  <1> QED
    BY <1>8, <1>9, <1>10, <1>11, <1>12, <1>13, <1>14, <1>15, <1>16, <1>17, <1>18, <1>19,
       <1>20

\* recv fails and the driver is gone.
LEMMA FeedGarbageKeeps ==
    ASSUME ClientInv, FeedGarbage
    PROVE  ClientInv'
  <1>1. InQueue' = InQueue
    BY QueueStays DEF FeedGarbage
  <1>2. InBatch' = InBatch
    BY BatchStays DEF FeedGarbage
  <1>3. /\ Noted' = Noted
        /\ \A q : Observed(q)' = Observed(q) /\ Closing(q)' = Closing(q)
    BY EventsStay DEF FeedGarbage
  <1>4. UNCHANGED <<pc, unread, result, up, prod, clones, token, shutter, slot,
        abandoned, bodyAt, chunks, finished, failed, unwanted, queue, credits, resets,
        ready, shutdown, refusing, notified, parkAt, batch, events, inbox, reader,
        intake, fed, registry, str, sid, rended, resumed, barred, owed, peer, sent,
        last, wire, scene>>
    BY DEF FeedGarbage
  <1>5. drv = "feed" /\ drv' = "fail" /\ gone'
    BY DEF FeedGarbage
  <1>6. SharedFlags'
    BY DEF SharedFlags, FeedGarbage
  <1>7. DriverTypes'
    BY DEF DriverTypes, DriverPcs, FeedGarbage
  <1>8. Place'
    BY <1>4, <1>5 DEF Place, Alive
  <1>9. Awaited'
    BY <1>4, <1>1, <1>2, <1>5 DEF Awaited
  <1>10. Tracked'
    BY <1>4, <1>3, <1>5 DEF Tracked, Alive
  <1>11. WindowConserved'
    BY <1>4, <1>3, <1>5, Accounted DEF WindowConserved, Alive
  <1>12. Reading'
    BY <1>4, <1>5 DEF Reading, Alive
  <1>13. ParkedQueue'
    BY <1>4, <1>1, <1>5 DEF ParkedQueue, Passed
  <1>14. ParkedSets'
    BY <1>4, <1>5 DEF ParkedSets, Passed
  <1>15. ParkedInbox'
    BY <1>4, <1>5 DEF ParkedInbox, Done
  <1>16. AppTypes' /\ HandleTypes' /\ SlotTypes' /\ InTypes' /\ QueueTypes' /\
         SetTypes' /\ DriverFlags' /\ WireTypes' /\ SessionTypes' /\ OwedTypes' /\
         PeerTypes' /\ Commands' /\ Unbound' /\ Refusals' /\ Heads' /\ Unreported'
    BY <1>4, AppTypesStays, HandleTypesStays, SlotTypesStays, InTypesStays,
       QueueTypesStays, SetTypesStays, DriverFlagsStays, WireTypesStays,
       SessionTypesStays, OwedTypesStays, PeerTypesStays, CommandsStays, UnboundStays,
       RefusalsStays, HeadsStays, UnreportedStays
  <1> QED
    BY <1>6, <1>7, <1>8, <1>9, <1>10, <1>11, <1>12, <1>13, <1>14, <1>15, <1>16

\* An inbox that was emptied wakes the reading half.
LEMMA FeedDoneKeeps ==
    ASSUME ClientInv, FeedDone
    PROVE  ClientInv'
  <1>1. InQueue' = InQueue
    BY QueueStays DEF FeedDone
  <1>2. InBatch' = InBatch
    BY BatchStays DEF FeedDone
  <1>3. /\ Noted' = Noted
        /\ \A q : Observed(q)' = Observed(q) /\ Closing(q)' = Closing(q)
    BY EventsStay DEF FeedDone
  <1>4. UNCHANGED <<pc, unread, result, up, prod, clones, token, shutter, slot,
        abandoned, bodyAt, chunks, finished, failed, unwanted, queue, credits, resets,
        ready, shutdown, refusing, gone, parkAt, batch, events, inbox, reader, intake,
        fed, ended, registry, str, sid, rended, resumed, barred, owed, peer, sent,
        last, wire, scene>>
    BY DEF FeedDone
  <1>5. drv = "feed" /\ drv' = "dispatch" /\ inbox = <<>>
    BY DEF FeedDone
  <1>6. (notified => notified') /\ (fed => notified')
    <2>1. CASE fed
      BY <1>5, <2>1 DEF FeedDone, WakeDriver
    <2>2. CASE ~fed
      BY <2>2 DEF FeedDone
    <2> QED
      BY <2>1, <2>2
  <1>7. SharedFlags'
    BY DEF SharedFlags, FeedDone, WakeDriver
  <1>8. DriverTypes'
    BY DEF DriverTypes, DriverPcs, FeedDone, WakeDriver
  <1>9. Place'
    BY <1>4, <1>5, <1>6 DEF Place, Alive
  <1>10. Awaited'
    BY <1>4, <1>1, <1>2, <1>5, <1>6 DEF Awaited
  <1>11. Tracked'
    BY <1>4, <1>3, <1>5, <1>6 DEF Tracked, Alive
  <1>12. WindowConserved'
    BY <1>4, <1>3, <1>5, <1>6, Accounted DEF WindowConserved, Alive
  <1>13. Reading'
    BY <1>4, <1>5, <1>6 DEF Reading, Alive
  <1>14. ParkedQueue'
    BY <1>4, <1>1, <1>5, <1>6 DEF ParkedQueue, Passed
  <1>15. ParkedSets'
    BY <1>4, <1>5, <1>6 DEF ParkedSets, Passed
  <1>16. ParkedInbox'
    BY <1>4, <1>5, <1>6 DEF ParkedInbox, Done
  <1>17. AppTypes' /\ HandleTypes' /\ SlotTypes' /\ InTypes' /\ QueueTypes' /\
         SetTypes' /\ DriverFlags' /\ WireTypes' /\ SessionTypes' /\ OwedTypes' /\
         PeerTypes' /\ Commands' /\ Unbound' /\ Refusals' /\ Heads' /\ Unreported'
    BY <1>4, AppTypesStays, HandleTypesStays, SlotTypesStays, InTypesStays,
       QueueTypesStays, SetTypesStays, DriverFlagsStays, WireTypesStays,
       SessionTypesStays, OwedTypesStays, PeerTypesStays, CommandsStays, UnboundStays,
       RefusalsStays, HeadsStays, UnreportedStays
  <1> QED
    BY <1>7, <1>8, <1>9, <1>10, <1>11, <1>12, <1>13, <1>14, <1>15, <1>16, <1>17

\* A head is the first of its message, and none malformed follows.
LEMMA HeadDispatchedKeeps ==
    ASSUME ClientInv, HeadDispatched
    PROVE  ClientInv'
  <1>1. InQueue' = InQueue
    BY QueueStays DEF HeadDispatched, DispatchRest, DispatchHead
  <1>2. InBatch' = InBatch
    BY BatchStays DEF HeadDispatched, DispatchRest, DispatchHead
  <1>3. UNCHANGED <<pc, unread, result, up, prod, clones, token, shutter, abandoned,
        chunks, finished, failed, unwanted, queue, credits, resets, ready, shutdown,
        refusing, gone, notified, drv, parkAt, batch, inbox, reader, intake, fed,
        ended, registry, str, sid, rended, resumed, barred, owed, peer, sent, last,
        wire, scene>>
    BY DEF HeadDispatched, DispatchRest, DispatchHead
  <1>4. PICK e \in Events : e = Head(events)
    BY DispatchTakes DEF HeadDispatched
  <1>5. /\ e \in Pipeline /\ e \in Noted /\ events' \in Seq(Events)
        /\ Pipeline' \subseteq Pipeline /\ Noted = {e} \union Noted'
        /\ \A q : /\ IsData(e, q) => Observed(q) = Observed(q)' + 1
                  /\ ~IsData(e, q) => Observed(q)' = Observed(q)
                  /\ Observed(q)' \in Nat
    <2>1. DispatchRest
      BY DEF HeadDispatched
    <2> QED
      BY <1>4, <2>1, DispatchTakes
  <1>6. drv \in {"dispatch", "dispatch2"} /\ DispatchHead(e)
    BY <1>4 DEF HeadDispatched, DispatchRest
  <1>7. /\ \A q : (HeadComes(q)' => HeadComes(q)) /\ (BadHeadComes(q)' => BadHeadComes(q))
        /\ \A q : Closing(q)' => Closing(q)
        /\ \A q : Closing(q) => Closing(q)' \/ (e.k = "close" /\ q \in e.rs)
    BY <1>5 DEF HeadComes, BadHeadComes, Closing
  <1>8. /\ e.k = "head" /\ e.r \in registry /\ e.r \in Requests /\ HeadComes(e.r)
        /\ registry' = registry /\ bodyAt' \in [Requests -> {"none", "slot", "caller", "gone"}]
        /\ slot' \in [Requests -> Errors \union {"open", "head"}]
        /\ \A q \in Requests : \/ slot'[q] = slot[q] /\ bodyAt'[q] = bodyAt[q]
                               \/ q = e.r /\ slot[q] = "open" /\ slot'[q] = "head"
        /\ \A q : ~IsData(e, q)
    <2>1. e.k = "head" /\ e.r \in registry /\ e.r \in Requests /\ HeadComes(e.r)
      BY <1>5, <1>6, EventKinds DEF DispatchHead, HeadComes
    <2>2. \A q \in Requests :
             \/ slot'[q] = slot[q] /\ bodyAt'[q] = bodyAt[q]
             \/ q = e.r /\ slot[q] = "open" /\ slot'[q] = "head"
      <3>1. CASE slot[e.r] = "open"
        BY <1>6, <2>1, <3>1 DEF DispatchHead, SlotTypes
      <3>2. CASE slot[e.r] # "open"
        BY <1>6, <3>2 DEF DispatchHead
      <3> QED
        BY <3>1, <3>2
    <2>3. /\ bodyAt' \in [Requests -> {"none", "slot", "caller", "gone"}]
          /\ slot' \in [Requests -> Errors \union {"open", "head"}]
      BY <1>6, <2>1 DEF DispatchHead, SlotTypes
    <2>4. registry' = registry
      BY <1>3
    <2> QED
      BY <2>1, <2>2, <2>3, <2>4 DEF IsData
  <1>9. SlotTypes'
    BY <1>3, <1>8 DEF SlotTypes
  <1>10. InTypes'
    BY <1>3, <1>8 DEF InTypes
  <1>11. SetTypes'
    BY <1>3, <1>8 DEF SetTypes
  <1>12. WireTypes'
    BY <1>3, <1>5 DEF WireTypes
  <1>13. SessionTypes'
    BY <1>3, <1>8 DEF SessionTypes
  <1>14. OwedTypes'
    BY <1>3, <1>8 DEF OwedTypes
  <1>15. Place'
    BY <1>3, <1>6, <1>8 DEF Place, Alive
  <1>16. Unbound'
    BY <1>3, <1>8 DEF Unbound
  <1>17. Awaited'
    BY <1>3, <1>1, <1>2, <1>8 DEF Awaited
  <1>18. Refusals'
    BY <1>3, <1>1, <1>2, <1>5, <1>8 DEF Refusals
  <1>19. Heads'
    BY <1>3, <1>5, <1>7, <1>8 DEF Heads
  <1>20. Tracked'
    BY <1>3, <1>5, <1>6, <1>7, <1>8 DEF Tracked, Alive
  <1>21. WindowConserved'
    BY <1>3, <1>5, <1>6, <1>8, Accounted DEF WindowConserved, Alive
  <1>22. Reading'
    BY <1>3, <1>6, <1>8 DEF Reading, Alive
  <1>23. ParkedQueue'
    BY <1>3, <1>1, <1>6, <1>8 DEF ParkedQueue, Passed
  <1>24. ParkedSets'
    BY <1>3, <1>6, <1>8 DEF ParkedSets, Passed
  <1>25. ParkedInbox'
    BY <1>3, <1>6, <1>8 DEF ParkedInbox
  <1>26. AppTypes' /\ HandleTypes' /\ QueueTypes' /\ SharedFlags' /\ DriverFlags' /\
         DriverTypes' /\ PeerTypes' /\ Commands' /\ Unreported'
    BY <1>3, AppTypesStays, HandleTypesStays, QueueTypesStays, SharedFlagsStays,
       DriverFlagsStays, DriverTypesStays, PeerTypesStays, CommandsStays,
       UnreportedStays
  <1> QED
    BY <1>9, <1>10, <1>11, <1>12, <1>13, <1>14, <1>15, <1>16, <1>17, <1>18, <1>19, <1>20,
       <1>21, <1>22, <1>23, <1>24, <1>25, <1>26

\* A malformed head fails a message whose head no caller has.
LEMMA BadHeadDispatchedKeeps ==
    ASSUME ClientInv, BadHeadDispatched
    PROVE  ClientInv'
  <1>1. InQueue' = InQueue
    BY QueueStays DEF BadHeadDispatched, DispatchRest, DispatchBadHead
  <1>2. InBatch' = InBatch
    BY BatchStays DEF BadHeadDispatched, DispatchRest, DispatchBadHead
  <1>3. UNCHANGED <<pc, unread, result, up, prod, clones, token, shutter, abandoned,
        bodyAt, finished, queue, credits, resets, ready, shutdown, refusing, gone,
        notified, drv, parkAt, batch, inbox, reader, intake, fed, ended, registry,
        sid, rended, resumed, barred, peer, sent, last, wire, scene>>
    BY DEF BadHeadDispatched, DispatchRest, DispatchBadHead
  <1>4. PICK e \in Events : e = Head(events)
    BY DispatchTakes DEF BadHeadDispatched
  <1>5. /\ e \in Pipeline /\ e \in Noted /\ events' \in Seq(Events)
        /\ Pipeline' \subseteq Pipeline /\ Noted = {e} \union Noted'
        /\ \A q : /\ IsData(e, q) => Observed(q) = Observed(q)' + 1
                  /\ ~IsData(e, q) => Observed(q)' = Observed(q)
                  /\ Observed(q)' \in Nat
    <2>1. DispatchRest
      BY DEF BadHeadDispatched
    <2> QED
      BY <1>4, <2>1, DispatchTakes
  <1>6. drv \in {"dispatch", "dispatch2"} /\ DispatchBadHead(e)
    BY <1>4 DEF BadHeadDispatched, DispatchRest
  <1>7. /\ \A q : (HeadComes(q)' => HeadComes(q)) /\ (BadHeadComes(q)' => BadHeadComes(q))
        /\ \A q : Closing(q)' => Closing(q)
        /\ \A q : Closing(q) => Closing(q)' \/ (e.k = "close" /\ q \in e.rs)
    BY <1>5 DEF HeadComes, BadHeadComes, Closing
  <1>8. /\ e.k = "badhead" /\ e.r \in registry /\ e.r \in Requests /\ slot[e.r] # "head"
        /\ slot' \in [Requests -> Errors \union {"open", "head"}]
        /\ str' \in [Requests -> {"none", "queued", "open", "rst", "closed"}]
        /\ chunks' \in [Requests -> Nat] /\ unwanted' \subseteq Requests
        /\ failed' \subseteq failed \union {e.r} /\ failed \subseteq failed'
        /\ \A q \in Requests :
              /\ q # e.r => slot'[q] = slot[q] /\ str'[q] = str[q] /\ chunks'[q] = chunks[q]
                             /\ owed'[q] = owed[q]
              /\ q = e.r => slot'[q] = IF slot[q] = "open" THEN "protocol" ELSE slot[q]
              /\ q = e.r => str'[q] = IF str[q] = "open" THEN "rst" ELSE str[q]
              /\ q = e.r => chunks'[q] = 0 /\ owed'[q] = owed[q] - chunks[q]
        /\ owed' \in [Requests -> Nat]
        /\ \A q : ~IsData(e, q)
    <2>1. /\ e.k = "badhead" /\ e.r \in registry /\ e.r \in Requests /\ slot[e.r] # "head"
      BY <1>5, <1>6, EventKinds DEF DispatchBadHead, BadHeadComes, Heads
    <2>2. /\ slot' \in [Requests -> Errors \union {"open", "head"}]
          /\ \A q \in Requests :
                /\ q # e.r => slot'[q] = slot[q]
                /\ q = e.r => slot'[q] = IF slot[q] = "open" THEN "protocol" ELSE slot[q]
      BY <1>6 DEF DispatchBadHead, FailSlots, SlotTypes, Errors
    <2>3. /\ str' \in [Requests -> {"none", "queued", "open", "rst", "closed"}]
          /\ \A q \in Requests :
                /\ q # e.r => str'[q] = str[q]
                /\ q = e.r => str'[q] = IF str[q] = "open" THEN "rst" ELSE str[q]
      BY <1>6, <2>1 DEF DispatchBadHead, SessionTypes
    <2>4. /\ chunks' \in [Requests -> Nat]
          /\ \A q \in Requests : /\ q # e.r => chunks'[q] = chunks[q]
                                 /\ q = e.r => chunks'[q] = 0
      BY <1>6, <2>1 DEF DispatchBadHead, InTypes
    <2>5. /\ unwanted' \subseteq Requests
          /\ failed' \subseteq failed \union {e.r} /\ failed \subseteq failed'
      BY <1>6, <2>1 DEF DispatchBadHead, InTypes, FailIncoming
    <2>6. owed[e.r] - chunks[e.r] \in Nat
      BY <1>6, <2>1, Accounted DEF WindowConserved, Alive
    <2>7. /\ owed' \in [Requests -> Nat]
          /\ \A q \in Requests : /\ q # e.r => owed'[q] = owed[q]
                                 /\ q = e.r => owed'[q] = owed[q] - chunks[q]
      BY <1>6, <2>1, <2>6 DEF DispatchBadHead, OwedTypes
    <2>8. \A q : ~IsData(e, q)
      BY <2>1 DEF IsData
    <2> QED
      BY <2>1, <2>2, <2>3, <2>4, <2>5, <2>7, <2>8
  <1>9. SlotTypes'
    BY <1>3, <1>8 DEF SlotTypes
  <1>10. InTypes'
    BY <1>3, <1>8 DEF InTypes
  <1>11. SetTypes'
    BY <1>3, <1>8 DEF SetTypes
  <1>12. WireTypes'
    BY <1>3, <1>5 DEF WireTypes
  <1>13. SessionTypes'
    BY <1>3, <1>8 DEF SessionTypes
  <1>14. OwedTypes'
    BY <1>3, <1>8 DEF OwedTypes
  <1>15. Place'
    BY <1>3, <1>6, <1>8 DEF Place, Alive
  <1>16. Unbound'
    BY <1>3, <1>8 DEF Unbound
  <1>17. Awaited'
    BY <1>3, <1>1, <1>2, <1>8 DEF Awaited
  <1>18. Refusals'
    BY <1>3, <1>1, <1>2, <1>5, <1>8 DEF Refusals
  <1>19. Heads'
    BY <1>3, <1>5, <1>7, <1>8 DEF Heads
  <1>20. Tracked'
    BY <1>3, <1>5, <1>6, <1>7, <1>8 DEF Tracked, Alive
  <1>21. WindowConserved'
    <2>1. ASSUME NEW q \in Requests
          PROVE  owed'[q] = chunks'[q] + credits'[q] + unread'[q] + Observed(q)'
                               + (IF pc'[q] = "credit" THEN 1 ELSE 0)
      <3>1. owed[q] = chunks[q] + credits[q] + unread[q] + Observed(q)
                         + (IF pc[q] = "credit" THEN 1 ELSE 0)
        BY <1>6 DEF WindowConserved, Alive
      <3>2. /\ owed[q] \in Nat /\ chunks[q] \in Nat /\ credits[q] \in Nat
            /\ unread[q] \in Nat /\ Observed(q) \in Nat
        BY Accounted
      <3>3. /\ Observed(q)' \in Nat
            /\ IsData(e, q) => Observed(q) = Observed(q)' + 1
            /\ ~IsData(e, q) => Observed(q)' = Observed(q)
        BY <1>5
      <3> QED
        BY <1>3, <1>8, <3>1, <3>2, <3>3
    <2> QED
      BY <2>1 DEF WindowConserved
  <1>22. Reading'
    BY <1>3, <1>6, <1>8 DEF Reading, Alive
  <1>23. ParkedQueue'
    BY <1>3, <1>1, <1>6, <1>8 DEF ParkedQueue, Passed
  <1>24. ParkedSets'
    BY <1>3, <1>6, <1>8 DEF ParkedSets, Passed
  <1>25. ParkedInbox'
    BY <1>3, <1>6, <1>8 DEF ParkedInbox
  <1>26. AppTypes' /\ HandleTypes' /\ QueueTypes' /\ SharedFlags' /\ DriverFlags' /\
         DriverTypes' /\ PeerTypes' /\ Commands' /\ Unreported'
    BY <1>3, AppTypesStays, HandleTypesStays, QueueTypesStays, SharedFlagsStays,
       DriverFlagsStays, DriverTypesStays, PeerTypesStays, CommandsStays,
       UnreportedStays
  <1> QED
    BY <1>9, <1>10, <1>11, <1>12, <1>13, <1>14, <1>15, <1>16, <1>17, <1>18, <1>19, <1>20,
       <1>21, <1>22, <1>23, <1>24, <1>25, <1>26

\* A chunk is queued, or its window given back on the spot.
LEMMA DataDispatchedKeeps ==
    ASSUME ClientInv, DataDispatched
    PROVE  ClientInv'
  <1>1. InQueue' = InQueue
    BY QueueStays DEF DataDispatched, DispatchRest, DispatchData
  <1>2. InBatch' = InBatch
    BY BatchStays DEF DataDispatched, DispatchRest, DispatchData
  <1>3. UNCHANGED <<pc, unread, result, up, prod, clones, token, shutter, slot,
        abandoned, bodyAt, finished, failed, unwanted, queue, credits, resets, ready,
        shutdown, refusing, gone, notified, drv, parkAt, batch, inbox, reader, intake,
        fed, ended, registry, str, sid, rended, resumed, barred, peer, sent, last,
        wire, scene>>
    BY DEF DataDispatched, DispatchRest, DispatchData
  <1>4. PICK e \in Events : e = Head(events)
    BY DispatchTakes DEF DataDispatched
  <1>5. /\ e \in Pipeline /\ e \in Noted /\ events' \in Seq(Events)
        /\ Pipeline' \subseteq Pipeline /\ Noted = {e} \union Noted'
        /\ \A q : /\ IsData(e, q) => Observed(q) = Observed(q)' + 1
                  /\ ~IsData(e, q) => Observed(q)' = Observed(q)
                  /\ Observed(q)' \in Nat
    <2>1. DispatchRest
      BY DEF DataDispatched
    <2> QED
      BY <1>4, <2>1, DispatchTakes
  <1>6. drv \in {"dispatch", "dispatch2"} /\ DispatchData(e)
    BY <1>4 DEF DataDispatched, DispatchRest
  <1>7. /\ \A q : (HeadComes(q)' => HeadComes(q)) /\ (BadHeadComes(q)' => BadHeadComes(q))
        /\ \A q : Closing(q)' => Closing(q)
        /\ \A q : Closing(q) => Closing(q)' \/ (e.k = "close" /\ q \in e.rs)
    BY <1>5 DEF HeadComes, BadHeadComes, Closing
  <1>8. /\ e.k = "data" /\ e.r \in Requests
        /\ chunks' \in [Requests -> Nat] /\ owed' \in [Requests -> Nat]
        /\ \A q \in Requests :
              /\ q # e.r => chunks'[q] = chunks[q] /\ owed'[q] = owed[q] /\ ~IsData(e, q)
              /\ q = e.r => \/ chunks'[q] = chunks[q] + 1 /\ owed'[q] = owed[q]
                            \/ chunks'[q] = chunks[q] /\ owed'[q] = owed[q] - 1
              /\ q = e.r => IsData(e, q)
    <2>1. e.k = "data" /\ e.r \in Requests
      BY <1>6, EventKinds DEF DispatchData
    <2>2. IsData(e, e.r) /\ \A q : q # e.r => ~IsData(e, q)
      BY <2>1 DEF IsData
    <2>3. owed[e.r] - 1 \in Nat
      <3>1. Observed(e.r) >= 1
        BY <1>5, <2>2
      <3>2. owed[e.r] >= Observed(e.r)
        BY <1>6, <2>1, Accounted DEF WindowConserved, Alive
      <3> QED
        BY <2>1, <3>1, <3>2, Accounted
    <2>4. CASE e.r \in registry \ unwanted
      BY <1>6, <2>1, <2>2, <2>4 DEF DispatchData, InTypes, OwedTypes
    <2>5. CASE e.r \notin registry \ unwanted
      BY <1>6, <2>1, <2>2, <2>3, <2>5 DEF DispatchData, InTypes, OwedTypes
    <2> QED
      BY <2>4, <2>5
  <1>9. SlotTypes'
    BY <1>3, <1>8 DEF SlotTypes
  <1>10. InTypes'
    BY <1>3, <1>8 DEF InTypes
  <1>11. SetTypes'
    BY <1>3, <1>8 DEF SetTypes
  <1>12. WireTypes'
    BY <1>3, <1>5 DEF WireTypes
  <1>13. SessionTypes'
    BY <1>3, <1>8 DEF SessionTypes
  <1>14. OwedTypes'
    BY <1>3, <1>8 DEF OwedTypes
  <1>15. Place'
    BY <1>3, <1>6, <1>8 DEF Place, Alive
  <1>16. Unbound'
    BY <1>3, <1>8 DEF Unbound
  <1>17. Awaited'
    BY <1>3, <1>1, <1>2, <1>8 DEF Awaited
  <1>18. Refusals'
    BY <1>3, <1>1, <1>2, <1>5, <1>8 DEF Refusals
  <1>19. Heads'
    BY <1>3, <1>5, <1>7, <1>8 DEF Heads
  <1>20. Tracked'
    BY <1>3, <1>5, <1>6, <1>7, <1>8 DEF Tracked, Alive
  <1>21. WindowConserved'
    <2>1. ASSUME NEW q \in Requests
          PROVE  owed'[q] = chunks'[q] + credits'[q] + unread'[q] + Observed(q)'
                               + (IF pc'[q] = "credit" THEN 1 ELSE 0)
      <3>1. owed[q] = chunks[q] + credits[q] + unread[q] + Observed(q)
                         + (IF pc[q] = "credit" THEN 1 ELSE 0)
        BY <1>6 DEF WindowConserved, Alive
      <3>2. /\ owed[q] \in Nat /\ chunks[q] \in Nat /\ credits[q] \in Nat
            /\ unread[q] \in Nat /\ Observed(q) \in Nat
        BY Accounted
      <3>3. /\ Observed(q)' \in Nat
            /\ IsData(e, q) => Observed(q) = Observed(q)' + 1
            /\ ~IsData(e, q) => Observed(q)' = Observed(q)
        BY <1>5
      <3> QED
        BY <1>3, <1>8, <3>1, <3>2, <3>3
    <2> QED
      BY <2>1 DEF WindowConserved
  <1>22. Reading'
    BY <1>3, <1>6, <1>8 DEF Reading, Alive
  <1>23. ParkedQueue'
    BY <1>3, <1>1, <1>6, <1>8 DEF ParkedQueue, Passed
  <1>24. ParkedSets'
    BY <1>3, <1>6, <1>8 DEF ParkedSets, Passed
  <1>25. ParkedInbox'
    BY <1>3, <1>6, <1>8 DEF ParkedInbox
  <1>26. AppTypes' /\ HandleTypes' /\ QueueTypes' /\ SharedFlags' /\ DriverFlags' /\
         DriverTypes' /\ PeerTypes' /\ Commands' /\ Unreported'
    BY <1>3, AppTypesStays, HandleTypesStays, QueueTypesStays, SharedFlagsStays,
       DriverFlagsStays, DriverTypesStays, PeerTypesStays, CommandsStays,
       UnreportedStays
  <1> QED
    BY <1>9, <1>10, <1>11, <1>12, <1>13, <1>14, <1>15, <1>16, <1>17, <1>18, <1>19, <1>20,
       <1>21, <1>22, <1>23, <1>24, <1>25, <1>26

\* The end of a message that is tracked and has not failed a caller.
LEMMA EndDispatchedKeeps ==
    ASSUME ClientInv, EndDispatched
    PROVE  ClientInv'
  <1>1. InQueue' = InQueue
    BY QueueStays DEF EndDispatched, DispatchRest, DispatchEnd
  <1>2. InBatch' = InBatch
    BY BatchStays DEF EndDispatched, DispatchRest, DispatchEnd
  <1>3. UNCHANGED <<pc, unread, result, up, prod, clones, token, shutter, slot,
        abandoned, bodyAt, chunks, failed, unwanted, queue, credits, resets, ready,
        shutdown, refusing, gone, notified, drv, parkAt, batch, inbox, reader, intake,
        fed, ended, registry, str, sid, rended, resumed, barred, owed, peer, sent,
        last, wire, scene>>
    BY DEF EndDispatched, DispatchRest, DispatchEnd
  <1>4. PICK e \in Events : e = Head(events)
    BY DispatchTakes DEF EndDispatched
  <1>5. /\ e \in Pipeline /\ e \in Noted /\ events' \in Seq(Events)
        /\ Pipeline' \subseteq Pipeline /\ Noted = {e} \union Noted'
        /\ \A q : /\ IsData(e, q) => Observed(q) = Observed(q)' + 1
                  /\ ~IsData(e, q) => Observed(q)' = Observed(q)
                  /\ Observed(q)' \in Nat
    <2>1. DispatchRest
      BY DEF EndDispatched
    <2> QED
      BY <1>4, <2>1, DispatchTakes
  <1>6. drv \in {"dispatch", "dispatch2"} /\ DispatchEnd(e)
    BY <1>4 DEF EndDispatched, DispatchRest
  <1>7. /\ \A q : (HeadComes(q)' => HeadComes(q)) /\ (BadHeadComes(q)' => BadHeadComes(q))
        /\ \A q : Closing(q)' => Closing(q)
        /\ \A q : Closing(q) => Closing(q)' \/ (e.k = "close" /\ q \in e.rs)
    BY <1>5 DEF HeadComes, BadHeadComes, Closing
  <1>8. /\ e.k = "end" /\ e.r \in Requests
        /\ \A q \in Requests : q \in finished' <=> q \in finished \/ (q = e.r /\ q \in registry)
        /\ finished' \subseteq Requests
        /\ \A q : ~IsData(e, q)
    <2>1. e.k = "end" /\ e.r \in Requests
      BY <1>6, EventKinds DEF DispatchEnd
    <2>2. finished' = finished \union ({e.r} \intersect registry)
      BY <1>6 DEF DispatchEnd
    <2> QED
      BY <2>1, <2>2 DEF IsData, InTypes
  <1>9. SlotTypes'
    BY <1>3, <1>8 DEF SlotTypes
  <1>10. InTypes'
    BY <1>3, <1>8 DEF InTypes
  <1>11. SetTypes'
    BY <1>3, <1>8 DEF SetTypes
  <1>12. WireTypes'
    BY <1>3, <1>5 DEF WireTypes
  <1>13. SessionTypes'
    BY <1>3, <1>8 DEF SessionTypes
  <1>14. OwedTypes'
    BY <1>3, <1>8 DEF OwedTypes
  <1>15. Place'
    BY <1>3, <1>6, <1>8 DEF Place, Alive
  <1>16. Unbound'
    BY <1>3, <1>8 DEF Unbound
  <1>17. Awaited'
    BY <1>3, <1>1, <1>2, <1>8 DEF Awaited
  <1>18. Refusals'
    BY <1>3, <1>1, <1>2, <1>5, <1>8 DEF Refusals
  <1>19. Heads'
    BY <1>3, <1>5, <1>7, <1>8 DEF Heads
  <1>20. Tracked'
    BY <1>3, <1>5, <1>6, <1>7, <1>8 DEF Tracked, Alive
  <1>21. WindowConserved'
    BY <1>3, <1>5, <1>6, <1>8, Accounted DEF WindowConserved, Alive
  <1>22. Reading'
    BY <1>3, <1>6, <1>8 DEF Reading, Alive
  <1>23. ParkedQueue'
    BY <1>3, <1>1, <1>6, <1>8 DEF ParkedQueue, Passed
  <1>24. ParkedSets'
    BY <1>3, <1>6, <1>8 DEF ParkedSets, Passed
  <1>25. ParkedInbox'
    BY <1>3, <1>6, <1>8 DEF ParkedInbox
  <1>26. AppTypes' /\ HandleTypes' /\ QueueTypes' /\ SharedFlags' /\ DriverFlags' /\
         DriverTypes' /\ PeerTypes' /\ Commands' /\ Unreported'
    BY <1>3, AppTypesStays, HandleTypesStays, QueueTypesStays, SharedFlagsStays,
       DriverFlagsStays, DriverTypesStays, PeerTypesStays, CommandsStays,
       UnreportedStays
  <1> QED
    BY <1>9, <1>10, <1>11, <1>12, <1>13, <1>14, <1>15, <1>16, <1>17, <1>18, <1>19, <1>20,
       <1>21, <1>22, <1>23, <1>24, <1>25, <1>26

\* What the GOAWAY refuses leaves the registry, and its streams are closed.
LEMMA GoawayDispatchedKeeps ==
    ASSUME ClientInv, GoawayDispatched
    PROVE  ClientInv'
  <1>1. InQueue' = InQueue
    BY QueueStays DEF GoawayDispatched, DispatchRest, DispatchGoaway
  <1>2. InBatch' = InBatch
    BY BatchStays DEF GoawayDispatched, DispatchRest, DispatchGoaway
  <1>3. UNCHANGED <<pc, unread, result, up, prod, clones, token, shutter, abandoned,
        finished, queue, resets, ready, shutdown, gone, drv, parkAt, batch, inbox,
        reader, intake, fed, ended, str, sid, rended, resumed, barred, owed, peer,
        sent, last, wire, scene>>
    BY DEF GoawayDispatched, DispatchRest, DispatchGoaway
  <1>4. PICK e \in Events : e = Head(events)
    BY DispatchTakes DEF GoawayDispatched
  <1>5. /\ e \in Pipeline /\ e \in Noted /\ events' \in Seq(Events)
        /\ Pipeline' \subseteq Pipeline /\ Noted = {e} \union Noted'
        /\ \A q : /\ IsData(e, q) => Observed(q) = Observed(q)' + 1
                  /\ ~IsData(e, q) => Observed(q)' = Observed(q)
                  /\ Observed(q)' \in Nat
    <2>1. DispatchRest
      BY DEF GoawayDispatched
    <2> QED
      BY <1>4, <2>1, DispatchTakes
  <1>6. drv \in {"dispatch", "dispatch2"} /\ DispatchGoaway(e)
    BY <1>4 DEF GoawayDispatched, DispatchRest
  <1>7. /\ \A q : (HeadComes(q)' => HeadComes(q)) /\ (BadHeadComes(q)' => BadHeadComes(q))
        /\ \A q : Closing(q)' => Closing(q)
        /\ \A q : Closing(q) => Closing(q)' \/ (e.k = "close" /\ q \in e.rs)
    BY <1>5 DEF HeadComes, BadHeadComes, Closing
  <1>8. e.k = "goaway" /\ (\A q : ~IsData(e, q)) /\ e.last = last /\ last >= 0
    <2>1. e.k = "goaway"
      BY <1>6 DEF DispatchGoaway
    <2> QED
      BY <1>5, <2>1 DEF IsData, Refusals
  <1>9. PICK rs \in SUBSET registry : rs = {q \in registry : sid[q] > last}
    OBVIOUS
  <1>10. /\ registry' = registry \ rs
         /\ \A q \in Requests :
               slot'[q] = IF q \in rs /\ slot[q] = "open" THEN "refused" ELSE slot[q]
         /\ slot' \in [Requests -> Errors \union {"open", "head"}]
         /\ failed' = failed \union (rs \ finished)
         /\ \A q \in Requests : bodyAt'[q] = bodyAt[q] \/ bodyAt'[q] = "gone"
         /\ bodyAt' \in [Requests -> {"none", "slot", "caller", "gone"}]
         /\ unwanted' \subseteq Requests
         /\ chunks' \in [Requests -> Nat] /\ credits' \in [Requests -> Nat]
         /\ \A q \in Requests : /\ chunks'[q] + credits'[q] = chunks[q] + credits[q]
                                /\ credits'[q] = credits[q] \/ notified'
         /\ notified => notified'
         /\ notified' \in BOOLEAN
    <2>1. Remove(rs, "refused") /\ "refused" \in Errors
      BY <1>6, <1>8, <1>9 DEF DispatchGoaway, Errors
    <2> QED
      BY <2>1, RemoveMoves
  <1>11. SlotTypes'
    BY <1>3, <1>10 DEF SlotTypes
  <1>12. InTypes'
    BY <1>3, <1>10 DEF InTypes, DriverTypes
  <1>13. SetTypes'
    BY <1>3, <1>10 DEF SetTypes
  <1>14. SharedFlags'
    <2>1. refusing' \in BOOLEAN
      BY <1>6 DEF DispatchGoaway, SharedFlags
    <2> QED
      BY <1>3, <1>10, <2>1, Zenon DEF SharedFlags
  <1>15. DriverTypes'
    BY <1>3, <1>10 DEF DriverTypes
  <1>16. WireTypes'
    BY <1>3, <1>5 DEF WireTypes
  <1>17. SessionTypes'
    BY <1>3, <1>8, <1>9, <1>10 DEF SessionTypes
  <1>18. OwedTypes'
    BY <1>3, <1>8, <1>9, <1>10 DEF OwedTypes
  <1>19. Place'
    BY <1>3, <1>6, <1>8, <1>9, <1>10 DEF Place, Alive
  <1>20. Unbound'
    BY <1>3, <1>8, <1>9, <1>10 DEF Unbound
  <1>21. Awaited'
    BY <1>3, <1>1, <1>2, <1>8, <1>9, <1>10 DEF Awaited
  <1>22. Refusals'
    BY <1>3, <1>1, <1>2, <1>5, <1>8, <1>9, <1>10 DEF Refusals
  <1>23. Heads'
    BY <1>3, <1>5, <1>7, <1>8, <1>9, <1>10 DEF Heads
  <1>24. Tracked'
    BY <1>3, <1>5, <1>6, <1>7, <1>8, <1>9, <1>10 DEF Tracked, Alive
  <1>25. WindowConserved'
    <2>1. ASSUME NEW q \in Requests
          PROVE  owed'[q] = chunks'[q] + credits'[q] + unread'[q] + Observed(q)'
                               + (IF pc'[q] = "credit" THEN 1 ELSE 0)
      <3>1. owed[q] = chunks[q] + credits[q] + unread[q] + Observed(q)
                         + (IF pc[q] = "credit" THEN 1 ELSE 0)
        BY <1>6 DEF WindowConserved, Alive
      <3>2. /\ owed[q] \in Nat /\ chunks[q] \in Nat /\ credits[q] \in Nat
            /\ unread[q] \in Nat /\ Observed(q) \in Nat
        BY Accounted
      <3>3. /\ Observed(q)' \in Nat
            /\ IsData(e, q) => Observed(q) = Observed(q)' + 1
            /\ ~IsData(e, q) => Observed(q)' = Observed(q)
        BY <1>5
      <3> QED
        BY <1>3, <1>10, <1>8, <3>1, <3>2, <3>3
    <2> QED
      BY <2>1 DEF WindowConserved
  <1>26. Reading'
    BY <1>3, <1>6, <1>8, <1>9, <1>10 DEF Reading, Alive
  <1>27. ParkedQueue'
    BY <1>3, <1>1, <1>6, <1>8, <1>9, <1>10 DEF ParkedQueue, Passed
  <1>28. ParkedSets'
    BY <1>3, <1>6, <1>8, <1>9, <1>10 DEF ParkedSets, Passed
  <1>29. ParkedInbox'
    BY <1>3, <1>6, <1>8, <1>9, <1>10 DEF ParkedInbox
  <1>30. AppTypes' /\ HandleTypes' /\ QueueTypes' /\ DriverFlags' /\ PeerTypes' /\
         Commands' /\ Unreported'
    BY <1>3, AppTypesStays, HandleTypesStays, QueueTypesStays, DriverFlagsStays,
       PeerTypesStays, CommandsStays, UnreportedStays
  <1> QED
    BY <1>11, <1>12, <1>13, <1>14, <1>15, <1>16, <1>17, <1>18, <1>19, <1>20, <1>21, <1>22,
       <1>23, <1>24, <1>25, <1>26, <1>27, <1>28, <1>29, <1>30

\* What has closed leaves the registry.
LEMMA CloseDispatchedKeeps ==
    ASSUME ClientInv, CloseDispatched
    PROVE  ClientInv'
  <1>1. InQueue' = InQueue
    BY QueueStays DEF CloseDispatched, DispatchRest, DispatchClose
  <1>2. InBatch' = InBatch
    BY BatchStays DEF CloseDispatched, DispatchRest, DispatchClose
  <1>3. UNCHANGED <<pc, unread, result, up, prod, clones, token, shutter, abandoned,
        finished, queue, resets, ready, shutdown, refusing, gone, drv, parkAt, batch,
        inbox, reader, intake, fed, ended, str, sid, rended, resumed, barred, owed,
        peer, sent, last, wire, scene>>
    BY DEF CloseDispatched, DispatchRest, DispatchClose
  <1>4. PICK e \in Events : e = Head(events)
    BY DispatchTakes DEF CloseDispatched
  <1>5. /\ e \in Pipeline /\ e \in Noted /\ events' \in Seq(Events)
        /\ Pipeline' \subseteq Pipeline /\ Noted = {e} \union Noted'
        /\ \A q : /\ IsData(e, q) => Observed(q) = Observed(q)' + 1
                  /\ ~IsData(e, q) => Observed(q)' = Observed(q)
                  /\ Observed(q)' \in Nat
    <2>1. DispatchRest
      BY DEF CloseDispatched
    <2> QED
      BY <1>4, <2>1, DispatchTakes
  <1>6. drv \in {"dispatch", "dispatch2"} /\ DispatchClose(e)
    BY <1>4 DEF CloseDispatched, DispatchRest
  <1>7. /\ \A q : (HeadComes(q)' => HeadComes(q)) /\ (BadHeadComes(q)' => BadHeadComes(q))
        /\ \A q : Closing(q)' => Closing(q)
        /\ \A q : Closing(q) => Closing(q)' \/ (e.k = "close" /\ q \in e.rs)
    BY <1>5 DEF HeadComes, BadHeadComes, Closing
  <1>8. e.k = "close" /\ (\A q : ~IsData(e, q)) /\ \A q \in e.rs : Closing(q)
    <2>1. e.k = "close"
      BY <1>6 DEF DispatchClose
    <2> QED
      BY <1>5, <2>1 DEF IsData, Closing
  <1>9. PICK rs \in SUBSET registry : rs = e.rs \intersect registry
    OBVIOUS
  <1>10. /\ registry' = registry \ rs
         /\ \A q \in Requests :
               slot'[q] = IF q \in rs /\ slot[q] = "open" THEN "stream" ELSE slot[q]
         /\ slot' \in [Requests -> Errors \union {"open", "head"}]
         /\ failed' = failed \union (rs \ finished)
         /\ \A q \in Requests : bodyAt'[q] = bodyAt[q] \/ bodyAt'[q] = "gone"
         /\ bodyAt' \in [Requests -> {"none", "slot", "caller", "gone"}]
         /\ unwanted' \subseteq Requests
         /\ chunks' \in [Requests -> Nat] /\ credits' \in [Requests -> Nat]
         /\ \A q \in Requests : /\ chunks'[q] + credits'[q] = chunks[q] + credits[q]
                                /\ credits'[q] = credits[q] \/ notified'
         /\ notified => notified'
         /\ notified' \in BOOLEAN
    <2>1. Remove(rs, "stream") /\ "stream" \in Errors
      BY <1>6, <1>8, <1>9 DEF DispatchClose, Errors
    <2> QED
      BY <2>1, RemoveMoves
  <1>11. SlotTypes'
    BY <1>3, <1>10 DEF SlotTypes
  <1>12. InTypes'
    BY <1>3, <1>10 DEF InTypes, DriverTypes
  <1>13. SetTypes'
    BY <1>3, <1>10 DEF SetTypes
  <1>14. SharedFlags'
    BY <1>3, <1>10, Zenon DEF SharedFlags
  <1>15. DriverTypes'
    BY <1>3, <1>10 DEF DriverTypes
  <1>16. WireTypes'
    BY <1>3, <1>5 DEF WireTypes
  <1>17. SessionTypes'
    BY <1>3, <1>8, <1>9, <1>10 DEF SessionTypes
  <1>18. OwedTypes'
    BY <1>3, <1>8, <1>9, <1>10 DEF OwedTypes
  <1>19. Place'
    BY <1>3, <1>6, <1>8, <1>9, <1>10 DEF Place, Alive
  <1>20. Unbound'
    BY <1>3, <1>8, <1>9, <1>10 DEF Unbound
  <1>21. Awaited'
    BY <1>3, <1>1, <1>2, <1>8, <1>9, <1>10 DEF Awaited
  <1>22. Refusals'
    BY <1>3, <1>1, <1>2, <1>5, <1>8, <1>9, <1>10 DEF Refusals
  <1>23. Heads'
    BY <1>3, <1>5, <1>7, <1>8, <1>9, <1>10 DEF Heads
  <1>24. Tracked'
    BY <1>3, <1>5, <1>6, <1>7, <1>8, <1>9, <1>10 DEF Tracked, Alive
  <1>25. WindowConserved'
    <2>1. ASSUME NEW q \in Requests
          PROVE  owed'[q] = chunks'[q] + credits'[q] + unread'[q] + Observed(q)'
                               + (IF pc'[q] = "credit" THEN 1 ELSE 0)
      <3>1. owed[q] = chunks[q] + credits[q] + unread[q] + Observed(q)
                         + (IF pc[q] = "credit" THEN 1 ELSE 0)
        BY <1>6 DEF WindowConserved, Alive
      <3>2. /\ owed[q] \in Nat /\ chunks[q] \in Nat /\ credits[q] \in Nat
            /\ unread[q] \in Nat /\ Observed(q) \in Nat
        BY Accounted
      <3>3. /\ Observed(q)' \in Nat
            /\ IsData(e, q) => Observed(q) = Observed(q)' + 1
            /\ ~IsData(e, q) => Observed(q)' = Observed(q)
        BY <1>5
      <3> QED
        BY <1>3, <1>10, <1>8, <3>1, <3>2, <3>3
    <2> QED
      BY <2>1 DEF WindowConserved
  <1>26. Reading'
    BY <1>3, <1>6, <1>8, <1>9, <1>10 DEF Reading, Alive
  <1>27. ParkedQueue'
    BY <1>3, <1>1, <1>6, <1>8, <1>9, <1>10 DEF ParkedQueue, Passed
  <1>28. ParkedSets'
    BY <1>3, <1>6, <1>8, <1>9, <1>10 DEF ParkedSets, Passed
  <1>29. ParkedInbox'
    BY <1>3, <1>6, <1>8, <1>9, <1>10 DEF ParkedInbox
  <1>30. AppTypes' /\ HandleTypes' /\ QueueTypes' /\ DriverFlags' /\ PeerTypes' /\
         Commands' /\ Unreported'
    BY <1>3, AppTypesStays, HandleTypesStays, QueueTypesStays, DriverFlagsStays,
       PeerTypesStays, CommandsStays, UnreportedStays
  <1> QED
    BY <1>11, <1>12, <1>13, <1>14, <1>15, <1>16, <1>17, <1>18, <1>19, <1>20, <1>21, <1>22,
       <1>23, <1>24, <1>25, <1>26, <1>27, <1>28, <1>29, <1>30

\* Every event has been dispatched.
LEMMA DispatchDoneKeeps ==
    ASSUME ClientInv, DispatchDone
    PROVE  ClientInv'
  <1>1. InQueue' = InQueue
    BY QueueStays DEF DispatchDone
  <1>2. InBatch' = InBatch
    BY BatchStays DEF DispatchDone
  <1>3. /\ Noted' = Noted
        /\ \A q : Observed(q)' = Observed(q) /\ Closing(q)' = Closing(q)
    BY EventsStay DEF DispatchDone
  <1>4. UNCHANGED <<pc, unread, result, up, prod, clones, token, shutter, slot,
        abandoned, bodyAt, chunks, finished, failed, unwanted, queue, credits, resets,
        ready, shutdown, refusing, gone, notified, parkAt, batch, events, inbox,
        reader, intake, fed, ended, registry, str, sid, rended, resumed, barred, owed,
        peer, sent, last, wire, scene>>
    BY DEF DispatchDone
  <1>5. /\ drv \in {"dispatch", "dispatch2"} /\ drv' \in {"flush", "intake"} /\ events = <<>>
    BY DEF DispatchDone
  <1>6. DriverTypes'
    BY DEF DriverTypes, DriverPcs, DispatchDone
  <1>7. Place'
    BY <1>4, <1>5 DEF Place, Alive
  <1>8. Awaited'
    BY <1>4, <1>1, <1>2, <1>5 DEF Awaited
  <1>9. Tracked'
    BY <1>4, <1>3, <1>5 DEF Tracked, Alive
  <1>10. WindowConserved'
    BY <1>4, <1>3, <1>5, Accounted DEF WindowConserved, Alive
  <1>11. Reading'
    BY <1>4, <1>5 DEF Reading, Alive
  <1>12. ParkedQueue'
    BY <1>4, <1>1, <1>5 DEF ParkedQueue, Passed
  <1>13. ParkedSets'
    BY <1>4, <1>5 DEF ParkedSets, Passed
  <1>14. ParkedInbox'
    BY <1>4, <1>5 DEF ParkedInbox, Done
  <1>15. AppTypes' /\ HandleTypes' /\ SlotTypes' /\ InTypes' /\ QueueTypes' /\
         SetTypes' /\ SharedFlags' /\ DriverFlags' /\ WireTypes' /\ SessionTypes' /\
         OwedTypes' /\ PeerTypes' /\ Commands' /\ Unbound' /\ Refusals' /\ Heads' /\
         Unreported'
    BY <1>4, AppTypesStays, HandleTypesStays, SlotTypesStays, InTypesStays,
       QueueTypesStays, SetTypesStays, SharedFlagsStays, DriverFlagsStays,
       WireTypesStays, SessionTypesStays, OwedTypesStays, PeerTypesStays,
       CommandsStays, UnboundStays, RefusalsStays, HeadsStays, UnreportedStays
  <1> QED
    BY <1>6, <1>7, <1>8, <1>9, <1>10, <1>11, <1>12, <1>13, <1>14, <1>15

\* Queued requests open or are closed unsent; every closure is observed.
LEMMA FlushKeeps ==
    ASSUME ClientInv, Flush
    PROVE  ClientInv'
  <1>1. InQueue' = InQueue
    BY QueueStays DEF Flush
  <1>2. InBatch' = InBatch
    BY BatchStays DEF Flush
  <1>3. UNCHANGED <<pc, unread, result, prod, clones, token, shutter, slot, abandoned,
        bodyAt, chunks, finished, failed, unwanted, queue, credits, resets, ready,
        shutdown, refusing, gone, notified, parkAt, batch, inbox, reader, intake, fed,
        ended, registry, sid, rended, barred, owed, sent, last, wire, scene>>
    BY DEF Flush
  <1>4. drv = "flush" /\ drv' = "dispatch2" /\ events = <<>> /\ Noted = {}
    <2>1. drv = "flush" /\ drv' = "dispatch2" /\ events = <<>>
      BY DEF Flush, Place, Alive
    <2> QED
      BY <2>1, RangeShort DEF Noted
  <1>5. PICK closed \in SUBSET Requests :
           /\ \A q \in closed : str[q] \in {"rst", "open"} \/ (str[q] = "queued" /\ barred)
           /\ \A q \in Requests :
                 /\ str[q] = "rst" \/ (str[q] = "queued" /\ barred) => q \in closed
                 /\ str'[q] = IF q \in closed THEN "closed"
                              ELSE IF str[q] = "queued" THEN "open" ELSE str[q]
                 /\ \/ peer'[q] = peer[q]
                    \/ str[q] = "queued" /\ ~barred /\ peer'[q] = "arrived"
                    \/ peer[q] # "none" /\ peer'[q] = "reset"
           /\ events' = IF closed = {} THEN <<>> ELSE <<[k |-> "close", rs |-> closed]>>
    <2>1. PICK bad : 
            LET sending == {q \in resumed : str[q] = "open"}
                broken == sending \intersect bad
                whole == (sending \ bad) \intersect rended
                closed == Unsendable \union Resets \union broken \union whole
            IN  /\ str' = [q \in Requests |-> CASE q \in closed -> "closed"
                                               [] q \in Sendable -> "open"
                                               [] OTHER -> str[q]]
                /\ peer' = [q \in Requests |->
                               CASE q \in Sendable -> "arrived"
                                 [] q \in Resets \union broken /\ peer[q] # "none" -> "reset"
                                 [] OTHER -> peer[q]]
                /\ events' = IF closed = {} THEN <<>>
                                            ELSE <<[k |-> "close", rs |-> closed]>>
      BY DEF Flush
    <2> DEFINE sending == {q \in resumed : str[q] = "open"}
               broken == sending \intersect bad
               whole == (sending \ bad) \intersect rended
               closed == Unsendable \union Resets \union broken \union whole
    <2>2. \A q \in broken \union whole : q \in Requests /\ str[q] = "open"
      BY DEF SessionTypes
    <2>3. /\ str' = [q \in Requests |-> CASE q \in closed -> "closed"
                                          [] q \in Sendable -> "open"
                                          [] OTHER -> str[q]]
          /\ peer' = [q \in Requests |->
                         CASE q \in Sendable -> "arrived"
                           [] q \in Resets \union broken /\ peer[q] # "none" -> "reset"
                           [] OTHER -> peer[q]]
          /\ events' = IF closed = {} THEN <<>> ELSE <<[k |-> "close", rs |-> closed]>>
      BY <2>1
    <2> HIDE DEF broken, whole
    <2>4. /\ closed \in SUBSET Requests
          /\ \A q \in closed : str[q] \in {"rst", "open"} \/ (str[q] = "queued" /\ barred)
          /\ \A q \in Requests :
                str[q] = "rst" \/ (str[q] = "queued" /\ barred) => q \in closed
      BY <2>2 DEF Unsendable, Resets
    <2>5. ASSUME NEW q \in Requests
          PROVE  q \in Sendable <=> str[q] = "queued" /\ ~barred
      BY DEF Sendable
    <2> HIDE DEF closed
    <2>6. ASSUME NEW q \in Requests
          PROVE  str'[q] = IF q \in closed THEN "closed"
                           ELSE IF str[q] = "queued" THEN "open" ELSE str[q]
      <3>1. str'[q] = CASE q \in closed -> "closed"
                        [] q \in Sendable -> "open"
                        [] OTHER -> str[q]
        BY <2>3
      <3>2. CASE q \in closed
        <4>1. q \notin Sendable
          BY <2>4, <2>5, <3>2
        <4> QED
          BY <3>1, <3>2, <4>1
      <3>3. CASE q \notin closed
        BY <2>4, <2>5, <3>1, <3>3
      <3> QED
        BY <3>2, <3>3
    <2>7. ASSUME NEW q \in Requests
          PROVE  \/ peer'[q] = peer[q]
                 \/ str[q] = "queued" /\ ~barred /\ peer'[q] = "arrived"
                 \/ peer[q] # "none" /\ peer'[q] = "reset"
      <3>1. peer'[q] = CASE q \in Sendable -> "arrived"
                         [] q \in Resets \union broken /\ peer[q] # "none" -> "reset"
                         [] OTHER -> peer[q]
        BY <2>3
      <3>2. CASE q \in Sendable
        <4>1. q \notin Resets \union broken
          BY <2>2, <2>5, <3>2 DEF Resets
        <4> QED
          BY <2>5, <3>1, <3>2, <4>1
      <3>3. CASE q \notin Sendable
        BY <3>1, <3>3
      <3> QED
        BY <3>2, <3>3
    <2> QED
      BY <2>3, <2>4, <2>6, <2>7
  <1>6. /\ events' \in Seq(Events) /\ \A e \in Noted' : e.k = "close" /\ e.rs = closed
        /\ closed # {} => \E e \in Noted' : e.k = "close" /\ e.rs = closed
        /\ \A q \in Requests : Observed(q) = 0 /\ Observed(q)' = 0
    <2> DEFINE c == [k |-> "close", rs |-> closed]
    <2>1. c \in Events /\ c.k = "close" /\ c.rs = closed /\ <<c>> \in Seq(Events)
      BY ClosureIsEvent
    <2>2. events' = IF closed = {} THEN <<>> ELSE <<c>>
      BY <1>5
    <2> HIDE DEF c
    <2>3. <<>> \in Seq(Events)
      OBVIOUS
    <2>4. events' \in Seq(Events)
      BY <2>1, <2>2, <2>3, Zenon
    <2>5. Noted' = IF closed = {} THEN {} ELSE {c}
      BY <2>2, RangeShort DEF Noted
    <2>6. ASSUME NEW q \in Requests
          PROVE  Observed(q) = 0 /\ Observed(q)' = 0
      <3>1. /\ Observed(q) = Cardinality(DataAt(<<>>, q))
            /\ Observed(q)' = Cardinality(DataAt(events', q))
        BY <1>4 DEF Observed, DataAt
      <3>2. Cardinality(DataAt(<<>>, q)) = 0
        BY NoneCounted
      <3>3. ~IsData(c, q)
        BY <2>1 DEF IsData
      <3>4. <<>> \o <<c>> = <<c>>
        BY <2>1, ConcatEmptySeq
      <3>5. Cardinality(DataAt(<<c>>, q)) = Cardinality(DataAt(<<>>, q)) + 0
        BY <2>1, <2>3, <3>3, <3>4, OneMoreCounted
      <3> QED
        BY <2>2, <3>1, <3>2, <3>5
    <2> QED
      BY <2>1, <2>4, <2>5, <2>6
  <1>7. /\ \A g \in Pipeline' : g \in Pipeline \/ g.k = "close"
        /\ \A q : (HeadComes(q)' => HeadComes(q)) /\ (BadHeadComes(q)' => BadHeadComes(q))
        /\ \A q \in Requests : Closing(q)' <=> q \in closed
        /\ \A q \in Requests : ~Closing(q)
    <2>1. Coming' = Coming
      BY <1>3 DEF Coming, Range
    <2>2. \A g \in Pipeline' : g \in Pipeline \/ g.k = "close"
      BY <1>6, <2>1 DEF Pipeline
    <2>3. \A q : (HeadComes(q)' => HeadComes(q)) /\ (BadHeadComes(q)' => BadHeadComes(q))
      BY <2>2 DEF HeadComes, BadHeadComes
    <2>4. \A q \in Requests : (Closing(q)' <=> q \in closed) /\ ~Closing(q)
      BY <1>4, <1>6 DEF Closing
    <2> QED
      BY <2>2, <2>3, <2>4
  <1>8. AppTypes'
    <2>1. up' \in [Requests -> {"none", "deferred", "eof", "failed"}]
      <3>1. PICK bad :
              LET sending == {q \in resumed : str[q] = "open"}
                  broken == sending \intersect bad
              IN  up' = [q \in Requests |->
                            CASE q \in broken -> "failed"
                              [] q \in sending \ broken -> "eof"
                              [] q \in Sendable -> IF q \in Uploads THEN "deferred" ELSE "eof"
                              [] OTHER -> up[q]]
        BY DEF Flush
      <3> DEFINE sending == {q \in resumed : str[q] = "open"}
                 broken == sending \intersect bad
      <3>2. \A q \in sending : q \notin Sendable
        BY DEF Sendable
      <3>3. up' = [q \in Requests |->
                      CASE q \in broken -> "failed"
                        [] q \in sending \ broken -> "eof"
                        [] q \in Sendable -> IF q \in Uploads THEN "deferred" ELSE "eof"
                        [] OTHER -> up[q]]
        BY <3>1
      <3> HIDE DEF broken, sending
      <3> QED
        BY <3>2, <3>3 DEF AppTypes
    <2> QED
      BY <1>3, <2>1 DEF AppTypes
  <1>9. DriverTypes'
    BY DEF DriverTypes, DriverPcs, Flush
  <1>10. WireTypes'
    BY <1>3, <1>6 DEF WireTypes
  <1>11. SessionTypes'
    <2>1. \A q \in Requests : str'[q] \in {"none", "queued", "open", "rst", "closed"}
      BY <1>5 DEF SessionTypes
    <2>2. str' = [q \in Requests |-> str'[q]] /\ resumed' = {}
      BY DEF Flush
    <2> QED
      BY <1>3, <2>1, <2>2 DEF SessionTypes
  <1>12. PeerTypes'
    <2>1. \A q \in Requests : peer'[q] \in {"none", "arrived", "acting", "headed", "ended", "reset"}
      BY <1>5 DEF PeerTypes
    <2>2. peer' = [q \in Requests |-> peer'[q]]
      BY DEF Flush
    <2> QED
      BY <1>3, <2>1, <2>2 DEF PeerTypes, MaxData
  <1>13. Place'
    BY <1>3, <1>4, <1>5, <1>6, <1>7 DEF Place, Alive
  <1>14. Unbound'
    BY <1>3, <1>5 DEF Unbound
  <1>15. Awaited'
    BY <1>3, <1>1, <1>2, <1>4, <1>5, <1>6, <1>7 DEF Awaited
  <1>16. Refusals'
    BY <1>3, <1>1, <1>2, <1>5, <1>7 DEF Refusals
  <1>17. Heads'
    BY <1>3, <1>5, <1>7 DEF Heads, Unbound
  <1>18. Tracked'
    BY <1>3, <1>4, <1>5, <1>6, <1>7 DEF Tracked, Alive
  <1>19. WindowConserved'
    BY <1>3, <1>4, <1>6, Accounted DEF WindowConserved, Alive
  <1>20. Reading'
    BY <1>3, <1>4, <1>5, <1>6, <1>7 DEF Reading, Alive
  <1>21. ParkedQueue'
    BY <1>3, <1>1, <1>4, <1>5, <1>6, <1>7 DEF ParkedQueue, Passed
  <1>22. ParkedSets'
    BY <1>3, <1>4, <1>5, <1>6, <1>7 DEF ParkedSets, Passed
  <1>23. ParkedInbox'
    BY <1>3, <1>4, <1>5, <1>6, <1>7 DEF ParkedInbox, Done
  <1>24. HandleTypes' /\ SlotTypes' /\ InTypes' /\ QueueTypes' /\ SetTypes' /\
         SharedFlags' /\ DriverFlags' /\ OwedTypes' /\ Commands' /\ Unreported'
    BY <1>3, HandleTypesStays, SlotTypesStays, InTypesStays, QueueTypesStays,
       SetTypesStays, SharedFlagsStays, DriverFlagsStays, OwedTypesStays,
       CommandsStays, UnreportedStays
  <1> QED
    BY <1>8, <1>9, <1>10, <1>11, <1>12, <1>13, <1>14, <1>15, <1>16, <1>17, <1>18, <1>19,
       <1>20, <1>21, <1>22, <1>23, <1>24

\* The write fails and the driver is gone.
LEMMA FlushFailsKeeps ==
    ASSUME ClientInv, FlushFails
    PROVE  ClientInv'
  <1>1. InQueue' = InQueue
    BY QueueStays DEF FlushFails
  <1>2. InBatch' = InBatch
    BY BatchStays DEF FlushFails
  <1>3. /\ Noted' = Noted
        /\ \A q : Observed(q)' = Observed(q) /\ Closing(q)' = Closing(q)
    BY EventsStay DEF FlushFails
  <1>4. UNCHANGED <<pc, unread, result, up, prod, clones, token, shutter, slot,
        abandoned, bodyAt, chunks, finished, failed, unwanted, queue, credits, resets,
        ready, shutdown, refusing, notified, parkAt, batch, events, inbox, reader,
        intake, fed, registry, str, sid, rended, resumed, barred, owed, peer, sent,
        last, wire, scene>>
    BY DEF FlushFails
  <1>5. drv = "flush" /\ drv' = "fail" /\ gone'
    BY DEF FlushFails
  <1>6. SharedFlags'
    BY DEF SharedFlags, FlushFails
  <1>7. DriverTypes'
    BY DEF DriverTypes, DriverPcs, FlushFails
  <1>8. Place'
    BY <1>4, <1>5 DEF Place, Alive
  <1>9. Awaited'
    BY <1>4, <1>1, <1>2, <1>5 DEF Awaited
  <1>10. Tracked'
    BY <1>4, <1>3, <1>5 DEF Tracked, Alive
  <1>11. WindowConserved'
    BY <1>4, <1>3, <1>5, Accounted DEF WindowConserved, Alive
  <1>12. Reading'
    BY <1>4, <1>5 DEF Reading, Alive
  <1>13. ParkedQueue'
    BY <1>4, <1>1, <1>5 DEF ParkedQueue, Passed
  <1>14. ParkedSets'
    BY <1>4, <1>5 DEF ParkedSets, Passed
  <1>15. ParkedInbox'
    BY <1>4, <1>5 DEF ParkedInbox, Done
  <1>16. AppTypes' /\ HandleTypes' /\ SlotTypes' /\ InTypes' /\ QueueTypes' /\
         SetTypes' /\ DriverFlags' /\ WireTypes' /\ SessionTypes' /\ OwedTypes' /\
         PeerTypes' /\ Commands' /\ Unbound' /\ Refusals' /\ Heads' /\ Unreported'
    BY <1>4, AppTypesStays, HandleTypesStays, SlotTypesStays, InTypesStays,
       QueueTypesStays, SetTypesStays, DriverFlagsStays, WireTypesStays,
       SessionTypesStays, OwedTypesStays, PeerTypesStays, CommandsStays, UnboundStays,
       RefusalsStays, HeadsStays, UnreportedStays
  <1> QED
    BY <1>6, <1>7, <1>8, <1>9, <1>10, <1>11, <1>12, <1>13, <1>14, <1>15, <1>16

\* The peer stopped sending, or the pass goes on.
LEMMA CheckIntakeKeeps ==
    ASSUME ClientInv, CheckIntake
    PROVE  ClientInv'
  <1>1. InQueue' = InQueue
    BY QueueStays DEF CheckIntake
  <1>2. InBatch' = InBatch
    BY BatchStays DEF CheckIntake
  <1>3. /\ Noted' = Noted
        /\ \A q : Observed(q)' = Observed(q) /\ Closing(q)' = Closing(q)
    BY EventsStay DEF CheckIntake
  <1>4. UNCHANGED <<pc, unread, result, up, prod, clones, token, shutter, slot,
        abandoned, bodyAt, chunks, finished, failed, unwanted, queue, credits, resets,
        ready, shutdown, refusing, notified, parkAt, batch, events, inbox, reader,
        intake, fed, registry, str, sid, rended, resumed, barred, owed, peer, sent,
        last, wire, scene>>
    BY DEF CheckIntake
  <1>5. /\ drv = "intake"
        /\ \/ drv' = "fail" /\ gone'
           \/ drv' = "quiet" /\ gone' = gone
    BY DEF CheckIntake
  <1>6. SharedFlags'
    BY DEF SharedFlags, CheckIntake
  <1>7. DriverTypes'
    BY DEF DriverTypes, DriverPcs, CheckIntake
  <1>8. Place'
    BY <1>4, <1>5 DEF Place, Alive
  <1>9. Awaited'
    BY <1>4, <1>1, <1>2, <1>5 DEF Awaited
  <1>10. Tracked'
    BY <1>4, <1>3, <1>5 DEF Tracked, Alive
  <1>11. WindowConserved'
    BY <1>4, <1>3, <1>5, Accounted DEF WindowConserved, Alive
  <1>12. Reading'
    BY <1>4, <1>5 DEF Reading, Alive
  <1>13. ParkedQueue'
    BY <1>4, <1>1, <1>5 DEF ParkedQueue, Passed
  <1>14. ParkedSets'
    BY <1>4, <1>5 DEF ParkedSets, Passed
  <1>15. ParkedInbox'
    BY <1>4, <1>5 DEF ParkedInbox, Done
  <1>16. AppTypes' /\ HandleTypes' /\ SlotTypes' /\ InTypes' /\ QueueTypes' /\
         SetTypes' /\ DriverFlags' /\ WireTypes' /\ SessionTypes' /\ OwedTypes' /\
         PeerTypes' /\ Commands' /\ Unbound' /\ Refusals' /\ Heads' /\ Unreported'
    BY <1>4, AppTypesStays, HandleTypesStays, SlotTypesStays, InTypesStays,
       QueueTypesStays, SetTypesStays, DriverFlagsStays, WireTypesStays,
       SessionTypesStays, OwedTypesStays, PeerTypesStays, CommandsStays, UnboundStays,
       RefusalsStays, HeadsStays, UnreportedStays
  <1> QED
    BY <1>6, <1>7, <1>8, <1>9, <1>10, <1>11, <1>12, <1>13, <1>14, <1>15, <1>16

\* Nothing further can arrive, or the park predicate starts.
LEMMA CheckQuietKeeps ==
    ASSUME ClientInv, CheckQuiet
    PROVE  ClientInv'
  <1>1. InQueue' = InQueue
    BY QueueStays DEF CheckQuiet
  <1>2. InBatch' = InBatch
    BY BatchStays DEF CheckQuiet
  <1>3. /\ Noted' = Noted
        /\ \A q : Observed(q)' = Observed(q) /\ Closing(q)' = Closing(q)
    BY EventsStay DEF CheckQuiet
  <1>4. UNCHANGED <<pc, unread, result, up, prod, clones, token, shutter, slot,
        abandoned, bodyAt, chunks, finished, failed, unwanted, queue, credits, resets,
        ready, shutdown, refusing, notified, batch, events, inbox, reader, intake,
        fed, registry, str, sid, rended, resumed, barred, owed, peer, sent, last,
        wire, scene>>
    BY DEF CheckQuiet
  <1>5. /\ drv = "quiet" /\ parkAt' = 1
        /\ \/ drv' = "fail" /\ gone'
           \/ drv' = "park" /\ gone' = gone
    BY DEF CheckQuiet
  <1>6. SharedFlags'
    BY DEF SharedFlags, CheckQuiet, Done
  <1>7. DriverTypes'
    BY DEF DriverTypes, DriverPcs, CheckQuiet, Done
  <1>8. Place'
    BY <1>4, <1>5 DEF Place, Alive
  <1>9. Awaited'
    BY <1>4, <1>1, <1>2, <1>5 DEF Awaited
  <1>10. Tracked'
    BY <1>4, <1>3, <1>5 DEF Tracked, Alive
  <1>11. WindowConserved'
    BY <1>4, <1>3, <1>5, Accounted DEF WindowConserved, Alive
  <1>12. Reading'
    BY <1>4, <1>5 DEF Reading, Alive
  <1>13. ParkedQueue'
    BY <1>4, <1>1, <1>5 DEF ParkedQueue, Passed
  <1>14. ParkedSets'
    BY <1>4, <1>5 DEF ParkedSets, Passed
  <1>15. ParkedInbox'
    BY <1>4, <1>5 DEF ParkedInbox, Done
  <1>16. AppTypes' /\ HandleTypes' /\ SlotTypes' /\ InTypes' /\ QueueTypes' /\
         SetTypes' /\ DriverFlags' /\ WireTypes' /\ SessionTypes' /\ OwedTypes' /\
         PeerTypes' /\ Commands' /\ Unbound' /\ Refusals' /\ Heads' /\ Unreported'
    BY <1>4, AppTypesStays, HandleTypesStays, SlotTypesStays, InTypesStays,
       QueueTypesStays, SetTypesStays, DriverFlagsStays, WireTypesStays,
       SessionTypesStays, OwedTypesStays, PeerTypesStays, CommandsStays, UnboundStays,
       RefusalsStays, HeadsStays, UnreportedStays
  <1> QED
    BY <1>6, <1>7, <1>8, <1>9, <1>10, <1>11, <1>12, <1>13, <1>14, <1>15, <1>16

\* One conjunct of the park predicate more has been found true.
LEMMA ParkKeeps ==
    ASSUME ClientInv, Park
    PROVE  ClientInv'
  <1>1. InQueue' = InQueue
    BY QueueStays DEF Park
  <1>2. InBatch' = InBatch
    BY BatchStays DEF Park
  <1>3. /\ Noted' = Noted
        /\ \A q : Observed(q)' = Observed(q) /\ Closing(q)' = Closing(q)
    BY EventsStay DEF Park
  <1>4. UNCHANGED <<pc, unread, result, up, prod, clones, token, shutter, slot,
        abandoned, bodyAt, chunks, finished, failed, unwanted, queue, credits, resets,
        ready, shutdown, refusing, gone, notified, batch, events, inbox, reader,
        intake, fed, ended, registry, str, sid, rended, resumed, barred, owed, peer,
        sent, last, wire, scene>>
    BY DEF Park
  <1>5. /\ drv = "park" /\ parkAt \in 1..6
        /\ \/ drv' = "advance"
           \/ drv' = "park" /\ parkAt' = parkAt + 1 /\ ParkStep[parkAt]
           \/ drv' = "parked" /\ parkAt = 6 /\ ParkStep[parkAt]
    <2>1. parkAt \in 1..6 /\ (parkAt < 6 \/ parkAt = 6)
      BY DEF DriverTypes
    <2> QED
      BY <2>1 DEF Park
  <1>6. ParkStep[parkAt] => /\ parkAt = 1 => InQueue = {}
                            /\ parkAt = 2 => ready = {}
                            /\ parkAt = 3 => \A q \in Requests : credits[q] = 0
                            /\ parkAt = 4 => resets = {}
                            /\ parkAt = 5 => ~shutdown
                            /\ parkAt = 6 => inbox = <<>> /\ ~intake /\ ~Done
    <2>1. queue = <<>> => InQueue = {}
      BY RangeShort DEF InQueue
    <2>2. /\ ParkStep[1] = (queue = <<>>) /\ ParkStep[2] = (ready = {})
          /\ ParkStep[3] = (\A q \in Requests : credits[q] = 0)
          /\ ParkStep[4] = (resets = {}) /\ ParkStep[5] = ~shutdown
          /\ ParkStep[6] = (inbox = <<>> /\ ~intake /\ ~Done)
      BY DEF ParkStep
    <2> QED
      BY <2>1, <2>2, Zenon
  <1>7. DriverTypes'
    BY DEF DriverTypes, DriverPcs, Park
  <1>8. Place'
    BY <1>4, <1>5, <1>6 DEF Place, Alive
  <1>9. Awaited'
    BY <1>4, <1>1, <1>2, <1>5, <1>6 DEF Awaited
  <1>10. Tracked'
    BY <1>4, <1>3, <1>5, <1>6 DEF Tracked, Alive
  <1>11. WindowConserved'
    BY <1>4, <1>3, <1>5, <1>6, Accounted DEF WindowConserved, Alive
  <1>12. Reading'
    BY <1>4, <1>5, <1>6 DEF Reading, Alive
  <1>13. ParkedQueue'
    BY <1>4, <1>1, <1>5, <1>6 DEF ParkedQueue, Passed
  <1>14. ParkedSets'
    BY <1>4, <1>5, <1>6 DEF ParkedSets, Passed
  <1>15. ParkedInbox'
    BY <1>4, <1>5, <1>6 DEF ParkedInbox, Done
  <1>16. AppTypes' /\ HandleTypes' /\ SlotTypes' /\ InTypes' /\ QueueTypes' /\
         SetTypes' /\ SharedFlags' /\ DriverFlags' /\ WireTypes' /\ SessionTypes' /\
         OwedTypes' /\ PeerTypes' /\ Commands' /\ Unbound' /\ Refusals' /\ Heads' /\
         Unreported'
    BY <1>4, AppTypesStays, HandleTypesStays, SlotTypesStays, InTypesStays,
       QueueTypesStays, SetTypesStays, SharedFlagsStays, DriverFlagsStays,
       WireTypesStays, SessionTypesStays, OwedTypesStays, PeerTypesStays,
       CommandsStays, UnboundStays, RefusalsStays, HeadsStays, UnreportedStays
  <1> QED
    BY <1>7, <1>8, <1>9, <1>10, <1>11, <1>12, <1>13, <1>14, <1>15, <1>16

\* The driver's future is dropped.
LEMMA DropDriverKeeps ==
    ASSUME ClientInv, DropDriver
    PROVE  ClientInv'
  <1>1. InQueue' = InQueue
    BY QueueStays DEF DropDriver
  <1>2. InBatch' = InBatch
    BY BatchStays DEF DropDriver
  <1>3. /\ Noted' = Noted
        /\ \A q : Observed(q)' = Observed(q) /\ Closing(q)' = Closing(q)
    BY EventsStay DEF DropDriver
  <1>4. UNCHANGED <<pc, unread, result, up, prod, clones, token, shutter, slot,
        abandoned, bodyAt, chunks, finished, failed, unwanted, queue, credits, resets,
        ready, shutdown, refusing, notified, parkAt, batch, events, inbox, reader,
        intake, fed, registry, str, sid, rended, resumed, barred, owed, peer, sent,
        last, wire, scene>>
    BY DEF DropDriver
  <1>5. drv \in {"unpolled", "flush", "parked"} /\ drv' = "fail" /\ gone'
    BY DEF DropDriver
  <1>6. SharedFlags'
    BY DEF SharedFlags, DropDriver
  <1>7. DriverTypes'
    BY DEF DriverTypes, DriverPcs, DropDriver
  <1>8. Place'
    BY <1>4, <1>5 DEF Place, Alive
  <1>9. Awaited'
    BY <1>4, <1>1, <1>2, <1>5 DEF Awaited
  <1>10. Tracked'
    BY <1>4, <1>3, <1>5 DEF Tracked, Alive
  <1>11. WindowConserved'
    BY <1>4, <1>3, <1>5, Accounted DEF WindowConserved, Alive
  <1>12. Reading'
    BY <1>4, <1>5 DEF Reading, Alive
  <1>13. ParkedQueue'
    BY <1>4, <1>1, <1>5 DEF ParkedQueue, Passed
  <1>14. ParkedSets'
    BY <1>4, <1>5 DEF ParkedSets, Passed
  <1>15. ParkedInbox'
    BY <1>4, <1>5 DEF ParkedInbox, Done
  <1>16. AppTypes' /\ HandleTypes' /\ SlotTypes' /\ InTypes' /\ QueueTypes' /\
         SetTypes' /\ DriverFlags' /\ WireTypes' /\ SessionTypes' /\ OwedTypes' /\
         PeerTypes' /\ Commands' /\ Unbound' /\ Refusals' /\ Heads' /\ Unreported'
    BY <1>4, AppTypesStays, HandleTypesStays, SlotTypesStays, InTypesStays,
       QueueTypesStays, SetTypesStays, DriverFlagsStays, WireTypesStays,
       SessionTypesStays, OwedTypesStays, PeerTypesStays, CommandsStays, UnboundStays,
       RefusalsStays, HeadsStays, UnreportedStays
  <1> QED
    BY <1>6, <1>7, <1>8, <1>9, <1>10, <1>11, <1>12, <1>13, <1>14, <1>15, <1>16

\* Everything tracked gets its answer and its end.
LEMMA FailTrackedKeeps ==
    ASSUME ClientInv, FailTracked
    PROVE  ClientInv'
  <1>1. InQueue' = InQueue
    BY QueueStays DEF FailTracked
  <1>2. InBatch' = InBatch
    BY BatchStays DEF FailTracked
  <1>3. /\ Pipeline' = Pipeline
        /\ \A q : HeadComes(q)' = HeadComes(q) /\ BadHeadComes(q)' = BadHeadComes(q)
    BY PipelineStays DEF FailTracked
  <1>4. /\ Noted' = Noted
        /\ \A q : Observed(q)' = Observed(q) /\ Closing(q)' = Closing(q)
    BY EventsStay DEF FailTracked
  <1>5. UNCHANGED <<pc, unread, result, up, prod, clones, token, shutter, abandoned,
        finished, queue, resets, ready, shutdown, refusing, gone, parkAt, batch,
        events, inbox, reader, intake, fed, ended, str, sid, rended, resumed, barred,
        owed, peer, sent, last, wire, scene>>
    BY DEF FailTracked
  <1>6. drv = "fail" /\ drv' = "abandon" /\ batch = <<>>
    BY DEF FailTracked, Place
  <1>7. PICK rs \in SUBSET registry : rs = registry
    OBVIOUS
  <1>8. /\ registry' = registry \ rs
        /\ \A q \in Requests :
              slot'[q] = IF q \in rs /\ slot[q] = "open" THEN "closed" ELSE slot[q]
        /\ slot' \in [Requests -> Errors \union {"open", "head"}]
        /\ failed' = failed \union (rs \ finished)
        /\ \A q \in Requests : bodyAt'[q] = bodyAt[q] \/ bodyAt'[q] = "gone"
        /\ bodyAt' \in [Requests -> {"none", "slot", "caller", "gone"}]
        /\ unwanted' \subseteq Requests
        /\ chunks' \in [Requests -> Nat] /\ credits' \in [Requests -> Nat]
        /\ \A q \in Requests : /\ chunks'[q] + credits'[q] = chunks[q] + credits[q]
                               /\ credits'[q] = credits[q] \/ notified'
        /\ notified => notified'
        /\ notified' \in BOOLEAN
    <2>1. Remove(rs, "closed") /\ "closed" \in Errors
      BY <1>7 DEF FailTracked, Errors
    <2> QED
      BY <2>1, RemoveMoves
  <1>9. SlotTypes'
    BY <1>5, <1>8 DEF SlotTypes
  <1>10. InTypes'
    BY <1>5, <1>8 DEF InTypes, DriverTypes
  <1>11. SetTypes'
    BY <1>5, <1>8 DEF SetTypes
  <1>12. SharedFlags'
    BY <1>5, <1>8, Zenon DEF SharedFlags
  <1>13. DriverTypes'
    BY <1>5, <1>6, <1>7, <1>8 DEF DriverTypes, DriverPcs
  <1>14. Place'
    BY <1>5, <1>6, <1>7, <1>8 DEF Place, Alive
  <1>15. Unbound'
    BY <1>5, <1>6, <1>7, <1>8 DEF Unbound
  <1>16. Awaited'
    BY <1>5, <1>1, <1>2, <1>6, <1>7, <1>8 DEF Awaited
  <1>17. Refusals'
    BY <1>5, <1>1, <1>2, <1>3, <1>6, <1>7, <1>8 DEF Refusals
  <1>18. Heads'
    BY <1>5, <1>3, <1>6, <1>7, <1>8 DEF Heads
  <1>19. Tracked'
    BY <1>5, <1>4, <1>6, <1>7, <1>8 DEF Tracked, Alive
  <1>20. WindowConserved'
    BY <1>5, <1>4, <1>6, <1>7, <1>8, Accounted DEF WindowConserved, Alive
  <1>21. Reading'
    BY <1>5, <1>6, <1>7, <1>8 DEF Reading, Alive
  <1>22. ParkedQueue'
    BY <1>5, <1>1, <1>6, <1>7, <1>8 DEF ParkedQueue, Passed
  <1>23. ParkedSets'
    BY <1>5, <1>6, <1>7, <1>8 DEF ParkedSets, Passed
  <1>24. ParkedInbox'
    BY <1>5, <1>6, <1>7, <1>8 DEF ParkedInbox, Done
  <1>25. AppTypes' /\ HandleTypes' /\ QueueTypes' /\ DriverFlags' /\ WireTypes' /\
         SessionTypes' /\ OwedTypes' /\ PeerTypes' /\ Commands' /\ Unreported'
    BY <1>5, AppTypesStays, HandleTypesStays, QueueTypesStays, DriverFlagsStays,
       WireTypesStays, SessionTypesStays, OwedTypesStays, PeerTypesStays,
       CommandsStays, UnreportedStays
  <1> QED
    BY <1>9, <1>10, <1>11, <1>12, <1>13, <1>14, <1>15, <1>16, <1>17, <1>18, <1>19, <1>20,
       <1>21, <1>22, <1>23, <1>24, <1>25

\* Everything queued gets its answer.
LEMMA AbandonQueueKeeps ==
    ASSUME ClientInv, AbandonQueue
    PROVE  ClientInv'
  <1>1. InBatch' = InBatch
    BY BatchStays DEF AbandonQueue
  <1>2. /\ Pipeline' = Pipeline
        /\ \A q : HeadComes(q)' = HeadComes(q) /\ BadHeadComes(q)' = BadHeadComes(q)
    BY PipelineStays DEF AbandonQueue
  <1>3. /\ Noted' = Noted
        /\ \A q : Observed(q)' = Observed(q) /\ Closing(q)' = Closing(q)
    BY EventsStay DEF AbandonQueue
  <1>4. UNCHANGED <<pc, unread, result, up, prod, clones, token, shutter, abandoned,
        bodyAt, chunks, finished, failed, unwanted, credits, resets, ready, shutdown,
        refusing, gone, notified, parkAt, batch, events, inbox, reader, intake, fed,
        ended, registry, str, sid, rended, resumed, barred, owed, peer, sent, last,
        wire, scene>>
    BY DEF AbandonQueue
  <1>5. /\ drv = "abandon" /\ drv' = "over" /\ queue' = <<>> /\ batch = <<>>
    BY DEF AbandonQueue, Place
  <1>6. /\ InQueue' = {} /\ InBatch = {} /\ NoRepeat(queue')
        /\ \A q \in Requests :
              slot'[q] = IF q \in InQueue /\ slot[q] = "open" THEN "closed" ELSE slot[q]
    <2>1. NoRepeat(<<>>)
      BY DEF NoRepeat
    <2>2. InQueue' = {} /\ InBatch = {}
      BY <1>5, RangeShort DEF InQueue, InBatch
    <2>3. \A q \in Requests :
             slot'[q] = IF q \in InQueue /\ slot[q] = "open" THEN "closed" ELSE slot[q]
      BY DEF AbandonQueue, FailSlots, InQueue
    <2> QED
      BY <1>5, <2>1, <2>2, <2>3
  <1>7. SlotTypes'
    BY DEF SlotTypes, Errors, AbandonQueue, FailSlots
  <1>8. QueueTypes'
    <2>1. <<>> \in Seq(Requests)
      OBVIOUS
    <2> QED
      BY <1>4, <1>5, <2>1, Zenon DEF QueueTypes
  <1>9. DriverTypes'
    BY DEF DriverTypes, DriverPcs, AbandonQueue, FailSlots
  <1>10. Place'
    BY <1>4, <1>5, <1>6 DEF Place, Alive
  <1>11. Commands'
    BY <1>4, <1>1, <1>5, <1>6 DEF Commands, Unsubmitted
  <1>12. Unbound'
    BY <1>4, <1>5, <1>6 DEF Unbound
  <1>13. Awaited'
    BY <1>4, <1>1, <1>5, <1>6 DEF Awaited, Place
  <1>14. Refusals'
    BY <1>4, <1>1, <1>2, <1>5, <1>6 DEF Refusals
  <1>15. Heads'
    BY <1>4, <1>2, <1>5, <1>6 DEF Heads
  <1>16. Tracked'
    BY <1>4, <1>3, <1>5, <1>6 DEF Tracked, Alive
  <1>17. WindowConserved'
    BY <1>4, <1>3, <1>5, <1>6, Accounted DEF WindowConserved, Alive
  <1>18. Reading'
    BY <1>4, <1>5, <1>6 DEF Reading, Alive
  <1>19. ParkedQueue'
    BY <1>4, <1>5, <1>6 DEF ParkedQueue, Passed
  <1>20. ParkedSets'
    BY <1>4, <1>5, <1>6 DEF ParkedSets, Passed
  <1>21. ParkedInbox'
    BY <1>4, <1>5, <1>6 DEF ParkedInbox, Done
  <1>22. AppTypes' /\ HandleTypes' /\ InTypes' /\ SetTypes' /\ SharedFlags' /\
         DriverFlags' /\ WireTypes' /\ SessionTypes' /\ OwedTypes' /\ PeerTypes' /\
         Unreported'
    BY <1>4, AppTypesStays, HandleTypesStays, InTypesStays, SetTypesStays,
       SharedFlagsStays, DriverFlagsStays, WireTypesStays, SessionTypesStays,
       OwedTypesStays, PeerTypesStays, UnreportedStays
  <1> QED
    BY <1>7, <1>8, <1>9, <1>10, <1>11, <1>12, <1>13, <1>14, <1>15, <1>16, <1>17, <1>18,
       <1>19, <1>20, <1>21, <1>22

\* The peer begins what its GOAWAY has not refused.
LEMMA PeerActsKeeps ==
    ASSUME NEW r \in Requests, ClientInv, PeerActs(r)
    PROVE  ClientInv'
  <1>1. InQueue' = InQueue
    BY QueueStays DEF PeerActs
  <1>2. InBatch' = InBatch
    BY BatchStays DEF PeerActs
  <1>3. /\ Pipeline' = Pipeline
        /\ \A q : HeadComes(q)' = HeadComes(q) /\ BadHeadComes(q)' = BadHeadComes(q)
    BY PipelineStays DEF PeerActs
  <1>4. UNCHANGED <<pc, unread, result, up, prod, clones, token, shutter, slot,
        abandoned, bodyAt, chunks, finished, failed, unwanted, queue, credits, resets,
        ready, shutdown, refusing, gone, notified, drv, parkAt, batch, events, inbox,
        reader, intake, fed, ended, registry, str, sid, rended, resumed, barred, owed,
        sent, last, wire, scene>>
    BY DEF PeerActs
  <1>5. \A q \in Requests :
           \/ peer'[q] = peer[q]
           \/ q = r /\ peer[q] = "arrived" /\ peer'[q] = "acting" /\ (last = -1 \/ sid[q] <= last)
    BY DEF PeerActs, PeerTypes
  <1>6. PeerTypes'
    BY DEF PeerTypes, MaxData, PeerActs
  <1>7. Unbound'
    BY <1>4, <1>5 DEF Unbound
  <1>8. Refusals'
    BY <1>4, <1>1, <1>2, <1>3, <1>5 DEF Refusals
  <1>9. Heads'
    BY <1>4, <1>3, <1>5 DEF Heads
  <1>10. AppTypes' /\ HandleTypes' /\ SlotTypes' /\ InTypes' /\ QueueTypes' /\
          SetTypes' /\ SharedFlags' /\ DriverFlags' /\ DriverTypes' /\ WireTypes' /\
          SessionTypes' /\ OwedTypes' /\ Place' /\ Commands' /\ Awaited' /\ Tracked' /\
          WindowConserved' /\ Unreported' /\ Reading' /\ ParkedQueue' /\ ParkedSets' /\
          ParkedInbox'
    BY <1>4, AppTypesStays, HandleTypesStays, SlotTypesStays, InTypesStays,
       QueueTypesStays, SetTypesStays, SharedFlagsStays, DriverFlagsStays,
       DriverTypesStays, WireTypesStays, SessionTypesStays, OwedTypesStays,
       PlaceStays, CommandsStays, AwaitedStays, TrackedStays, WindowConservedStays,
       UnreportedStays, ReadingStays, ParkedQueueStays, ParkedSetsStays,
       ParkedInboxStays
  <1> QED
    BY <1>6, <1>7, <1>8, <1>9, <1>10

\* The only head of its message.
LEMMA PeerHeadKeeps ==
    ASSUME NEW r \in Requests, ClientInv, PeerHead(r)
    PROVE  ClientInv'
  <1>1. InQueue' = InQueue
    BY QueueStays DEF PeerHead, PeerSend
  <1>2. InBatch' = InBatch
    BY BatchStays DEF PeerHead, PeerSend
  <1>3. UNCHANGED <<pc, unread, result, up, prod, clones, token, shutter, slot,
        abandoned, bodyAt, chunks, finished, failed, unwanted, queue, credits, resets,
        ready, shutdown, refusing, gone, drv, parkAt, batch, events, inbox, reader,
        intake, fed, ended, registry, str, sid, rended, resumed, barred, owed, sent,
        last, scene>>
    BY DEF PeerHead, PeerSend
  <1>4. PICK f \in Frames : PeerSend(f) /\ f.k = "head" /\ f.r = r
    <2> DEFINE f == [k |-> "head", r |-> r]
    <2>1. PeerSend(f)
      BY DEF PeerHead
    <2>2. f \in Frames /\ f.k = "head" /\ f.r = r
      BY DEF Frames
    <2> QED
      BY <2>1, <2>2
  <1>5. /\ wire' \in Seq(Frames) /\ Pipeline' = Pipeline \union {f}
        /\ \A q : /\ HeadComes(q)' <=> HeadComes(q) \/ (f.k = "head" /\ f.r = q)
                  /\ BadHeadComes(q)' <=> BadHeadComes(q) \/ (f.k = "badhead" /\ f.r = q)
        /\ \A i \in 1..Len(wire') : wire'[i].k = "eof" => i = Len(wire')
        /\ reader = "armed" => notified'
        /\ notified => notified'
        /\ notified' \in BOOLEAN
    BY <1>4, PeerSendMoves
  <1>6. /\ peer[r] = "acting"
        /\ \A q \in Requests : peer'[q] = IF q = r THEN "headed" ELSE peer[q]
    BY DEF PeerHead, PeerTypes
  <1>7. SharedFlags'
    BY <1>3, <1>5, Zenon DEF SharedFlags
  <1>8. WireTypes'
    BY <1>3, <1>5 DEF WireTypes
  <1>9. PeerTypes'
    BY DEF PeerTypes, MaxData, PeerHead, PeerSend
  <1>10. Unbound'
    BY <1>3, <1>4, <1>5, <1>6 DEF Unbound
  <1>11. Refusals'
    BY <1>3, <1>1, <1>2, <1>4, <1>5, <1>6 DEF Refusals
  <1>12. Heads'
    BY <1>3, <1>4, <1>5, <1>6 DEF Heads
  <1>13. Reading'
    BY <1>3, <1>5 DEF Reading, Alive
  <1>14. ParkedQueue'
    BY <1>3, <1>1, <1>5 DEF ParkedQueue, Passed
  <1>15. ParkedSets'
    BY <1>3, <1>5 DEF ParkedSets, Passed
  <1>16. ParkedInbox'
    BY <1>3, <1>5 DEF ParkedInbox, Done
  <1>17. AppTypes' /\ HandleTypes' /\ SlotTypes' /\ InTypes' /\ QueueTypes' /\
         SetTypes' /\ DriverFlags' /\ DriverTypes' /\ SessionTypes' /\ OwedTypes' /\
         Place' /\ Commands' /\ Awaited' /\ Tracked' /\ WindowConserved' /\
         Unreported'
    BY <1>3, AppTypesStays, HandleTypesStays, SlotTypesStays, InTypesStays,
       QueueTypesStays, SetTypesStays, DriverFlagsStays, DriverTypesStays,
       SessionTypesStays, OwedTypesStays, PlaceStays, CommandsStays, AwaitedStays,
       TrackedStays, WindowConservedStays, UnreportedStays
  <1> QED
    BY <1>7, <1>8, <1>9, <1>10, <1>11, <1>12, <1>13, <1>14, <1>15, <1>16, <1>17

\* The only head of its message, malformed.
LEMMA PeerBadHeadKeeps ==
    ASSUME NEW r \in Requests, ClientInv, PeerBadHead(r)
    PROVE  ClientInv'
  <1>1. InQueue' = InQueue
    BY QueueStays DEF PeerBadHead, PeerSend
  <1>2. InBatch' = InBatch
    BY BatchStays DEF PeerBadHead, PeerSend
  <1>3. UNCHANGED <<pc, unread, result, up, prod, clones, token, shutter, slot,
        abandoned, bodyAt, chunks, finished, failed, unwanted, queue, credits, resets,
        ready, shutdown, refusing, gone, drv, parkAt, batch, events, inbox, reader,
        intake, fed, ended, registry, str, sid, rended, resumed, barred, owed, sent,
        last, scene>>
    BY DEF PeerBadHead, PeerSend
  <1>4. PICK f \in Frames : PeerSend(f) /\ f.k = "badhead" /\ f.r = r
    <2> DEFINE f == [k |-> "badhead", r |-> r]
    <2>1. PeerSend(f)
      BY DEF PeerBadHead
    <2>2. f \in Frames /\ f.k = "badhead" /\ f.r = r
      BY DEF Frames
    <2> QED
      BY <2>1, <2>2
  <1>5. /\ wire' \in Seq(Frames) /\ Pipeline' = Pipeline \union {f}
        /\ \A q : /\ HeadComes(q)' <=> HeadComes(q) \/ (f.k = "head" /\ f.r = q)
                  /\ BadHeadComes(q)' <=> BadHeadComes(q) \/ (f.k = "badhead" /\ f.r = q)
        /\ \A i \in 1..Len(wire') : wire'[i].k = "eof" => i = Len(wire')
        /\ reader = "armed" => notified'
        /\ notified => notified'
        /\ notified' \in BOOLEAN
    BY <1>4, PeerSendMoves
  <1>6. /\ peer[r] = "acting"
        /\ \A q \in Requests : peer'[q] = IF q = r THEN "headed" ELSE peer[q]
    BY DEF PeerBadHead, PeerTypes
  <1>7. SharedFlags'
    BY <1>3, <1>5, Zenon DEF SharedFlags
  <1>8. WireTypes'
    BY <1>3, <1>5 DEF WireTypes
  <1>9. PeerTypes'
    BY DEF PeerTypes, MaxData, PeerBadHead, PeerSend
  <1>10. Unbound'
    BY <1>3, <1>4, <1>5, <1>6 DEF Unbound
  <1>11. Refusals'
    BY <1>3, <1>1, <1>2, <1>4, <1>5, <1>6 DEF Refusals
  <1>12. Heads'
    BY <1>3, <1>4, <1>5, <1>6 DEF Heads
  <1>13. Reading'
    BY <1>3, <1>5 DEF Reading, Alive
  <1>14. ParkedQueue'
    BY <1>3, <1>1, <1>5 DEF ParkedQueue, Passed
  <1>15. ParkedSets'
    BY <1>3, <1>5 DEF ParkedSets, Passed
  <1>16. ParkedInbox'
    BY <1>3, <1>5 DEF ParkedInbox, Done
  <1>17. AppTypes' /\ HandleTypes' /\ SlotTypes' /\ InTypes' /\ QueueTypes' /\
         SetTypes' /\ DriverFlags' /\ DriverTypes' /\ SessionTypes' /\ OwedTypes' /\
         Place' /\ Commands' /\ Awaited' /\ Tracked' /\ WindowConserved' /\
         Unreported'
    BY <1>3, AppTypesStays, HandleTypesStays, SlotTypesStays, InTypesStays,
       QueueTypesStays, SetTypesStays, DriverFlagsStays, DriverTypesStays,
       SessionTypesStays, OwedTypesStays, PlaceStays, CommandsStays, AwaitedStays,
       TrackedStays, WindowConservedStays, UnreportedStays
  <1> QED
    BY <1>7, <1>8, <1>9, <1>10, <1>11, <1>12, <1>13, <1>14, <1>15, <1>16, <1>17

\* The end of a message.
LEMMA PeerEndKeeps ==
    ASSUME NEW r \in Requests, ClientInv, PeerEnd(r)
    PROVE  ClientInv'
  <1>1. InQueue' = InQueue
    BY QueueStays DEF PeerEnd, PeerSend
  <1>2. InBatch' = InBatch
    BY BatchStays DEF PeerEnd, PeerSend
  <1>3. UNCHANGED <<pc, unread, result, up, prod, clones, token, shutter, slot,
        abandoned, bodyAt, chunks, finished, failed, unwanted, queue, credits, resets,
        ready, shutdown, refusing, gone, drv, parkAt, batch, events, inbox, reader,
        intake, fed, ended, registry, str, sid, rended, resumed, barred, owed, sent,
        last, scene>>
    BY DEF PeerEnd, PeerSend
  <1>4. PICK f \in Frames : PeerSend(f) /\ f.k = "end" /\ f.r = r
    <2> DEFINE f == [k |-> "end", r |-> r]
    <2>1. PeerSend(f)
      BY DEF PeerEnd
    <2>2. f \in Frames /\ f.k = "end" /\ f.r = r
      BY DEF Frames
    <2> QED
      BY <2>1, <2>2
  <1>5. /\ wire' \in Seq(Frames) /\ Pipeline' = Pipeline \union {f}
        /\ \A q : /\ HeadComes(q)' <=> HeadComes(q) \/ (f.k = "head" /\ f.r = q)
                  /\ BadHeadComes(q)' <=> BadHeadComes(q) \/ (f.k = "badhead" /\ f.r = q)
        /\ \A i \in 1..Len(wire') : wire'[i].k = "eof" => i = Len(wire')
        /\ reader = "armed" => notified'
        /\ notified => notified'
        /\ notified' \in BOOLEAN
    BY <1>4, PeerSendMoves
  <1>6. /\ peer[r] = "headed"
        /\ \A q \in Requests : peer'[q] = IF q = r THEN "ended" ELSE peer[q]
    BY DEF PeerEnd, PeerTypes
  <1>7. SharedFlags'
    BY <1>3, <1>5, Zenon DEF SharedFlags
  <1>8. WireTypes'
    BY <1>3, <1>5 DEF WireTypes
  <1>9. PeerTypes'
    BY DEF PeerTypes, MaxData, PeerEnd, PeerSend
  <1>10. Unbound'
    BY <1>3, <1>4, <1>5, <1>6 DEF Unbound
  <1>11. Refusals'
    BY <1>3, <1>1, <1>2, <1>4, <1>5, <1>6 DEF Refusals
  <1>12. Heads'
    BY <1>3, <1>4, <1>5, <1>6 DEF Heads
  <1>13. Reading'
    BY <1>3, <1>5 DEF Reading, Alive
  <1>14. ParkedQueue'
    BY <1>3, <1>1, <1>5 DEF ParkedQueue, Passed
  <1>15. ParkedSets'
    BY <1>3, <1>5 DEF ParkedSets, Passed
  <1>16. ParkedInbox'
    BY <1>3, <1>5 DEF ParkedInbox, Done
  <1>17. AppTypes' /\ HandleTypes' /\ SlotTypes' /\ InTypes' /\ QueueTypes' /\
         SetTypes' /\ DriverFlags' /\ DriverTypes' /\ SessionTypes' /\ OwedTypes' /\
         Place' /\ Commands' /\ Awaited' /\ Tracked' /\ WindowConserved' /\
         Unreported'
    BY <1>3, AppTypesStays, HandleTypesStays, SlotTypesStays, InTypesStays,
       QueueTypesStays, SetTypesStays, DriverFlagsStays, DriverTypesStays,
       SessionTypesStays, OwedTypesStays, PlaceStays, CommandsStays, AwaitedStays,
       TrackedStays, WindowConservedStays, UnreportedStays
  <1> QED
    BY <1>7, <1>8, <1>9, <1>10, <1>11, <1>12, <1>13, <1>14, <1>15, <1>16, <1>17

\* The peer resets a stream.
LEMMA PeerRstKeeps ==
    ASSUME NEW r \in Requests, ClientInv, PeerRst(r)
    PROVE  ClientInv'
  <1>1. InQueue' = InQueue
    BY QueueStays DEF PeerRst, PeerSend
  <1>2. InBatch' = InBatch
    BY BatchStays DEF PeerRst, PeerSend
  <1>3. UNCHANGED <<pc, unread, result, up, prod, clones, token, shutter, slot,
        abandoned, bodyAt, chunks, finished, failed, unwanted, queue, credits, resets,
        ready, shutdown, refusing, gone, drv, parkAt, batch, events, inbox, reader,
        intake, fed, ended, registry, str, sid, rended, resumed, barred, owed, sent,
        last, scene>>
    BY DEF PeerRst, PeerSend
  <1>4. PICK f \in Frames : PeerSend(f) /\ f.k = "rst" /\ f.r = r
    <2> DEFINE f == [k |-> "rst", r |-> r]
    <2>1. PeerSend(f)
      BY DEF PeerRst
    <2>2. f \in Frames /\ f.k = "rst" /\ f.r = r
      BY DEF Frames
    <2> QED
      BY <2>1, <2>2
  <1>5. /\ wire' \in Seq(Frames) /\ Pipeline' = Pipeline \union {f}
        /\ \A q : /\ HeadComes(q)' <=> HeadComes(q) \/ (f.k = "head" /\ f.r = q)
                  /\ BadHeadComes(q)' <=> BadHeadComes(q) \/ (f.k = "badhead" /\ f.r = q)
        /\ \A i \in 1..Len(wire') : wire'[i].k = "eof" => i = Len(wire')
        /\ reader = "armed" => notified'
        /\ notified => notified'
        /\ notified' \in BOOLEAN
    BY <1>4, PeerSendMoves
  <1>6. /\ peer[r] \in {"arrived", "acting", "headed"}
        /\ \A q \in Requests : peer'[q] = IF q = r THEN "reset" ELSE peer[q]
    BY DEF PeerRst, PeerTypes
  <1>7. SharedFlags'
    BY <1>3, <1>5, Zenon DEF SharedFlags
  <1>8. WireTypes'
    BY <1>3, <1>5 DEF WireTypes
  <1>9. PeerTypes'
    BY DEF PeerTypes, MaxData, PeerRst, PeerSend
  <1>10. Unbound'
    BY <1>3, <1>4, <1>5, <1>6 DEF Unbound
  <1>11. Refusals'
    BY <1>3, <1>1, <1>2, <1>4, <1>5, <1>6 DEF Refusals
  <1>12. Heads'
    BY <1>3, <1>4, <1>5, <1>6 DEF Heads
  <1>13. Reading'
    BY <1>3, <1>5 DEF Reading, Alive
  <1>14. ParkedQueue'
    BY <1>3, <1>1, <1>5 DEF ParkedQueue, Passed
  <1>15. ParkedSets'
    BY <1>3, <1>5 DEF ParkedSets, Passed
  <1>16. ParkedInbox'
    BY <1>3, <1>5 DEF ParkedInbox, Done
  <1>17. AppTypes' /\ HandleTypes' /\ SlotTypes' /\ InTypes' /\ QueueTypes' /\
         SetTypes' /\ DriverFlags' /\ DriverTypes' /\ SessionTypes' /\ OwedTypes' /\
         Place' /\ Commands' /\ Awaited' /\ Tracked' /\ WindowConserved' /\
         Unreported'
    BY <1>3, AppTypesStays, HandleTypesStays, SlotTypesStays, InTypesStays,
       QueueTypesStays, SetTypesStays, DriverFlagsStays, DriverTypesStays,
       SessionTypesStays, OwedTypesStays, PlaceStays, CommandsStays, AwaitedStays,
       TrackedStays, WindowConservedStays, UnreportedStays
  <1> QED
    BY <1>7, <1>8, <1>9, <1>10, <1>11, <1>12, <1>13, <1>14, <1>15, <1>16, <1>17

\* A chunk adds to what is on its way.
LEMMA PeerDataKeeps ==
    ASSUME NEW r \in Requests, ClientInv, PeerData(r)
    PROVE  ClientInv'
  <1>1. InQueue' = InQueue
    BY QueueStays DEF PeerData, PeerSend
  <1>2. InBatch' = InBatch
    BY BatchStays DEF PeerData, PeerSend
  <1>3. UNCHANGED <<pc, unread, result, up, prod, clones, token, shutter, slot,
        abandoned, bodyAt, chunks, finished, failed, unwanted, queue, credits, resets,
        ready, shutdown, refusing, gone, drv, parkAt, batch, events, inbox, reader,
        intake, fed, ended, registry, str, sid, rended, resumed, barred, owed, peer,
        last, scene>>
    BY DEF PeerData, PeerSend
  <1>4. PICK f \in Frames : PeerSend(f) /\ f.k = "data" /\ f.r = r
    <2> DEFINE f == [k |-> "data", r |-> r]
    <2>1. PeerSend(f)
      BY DEF PeerData
    <2>2. f \in Frames /\ f.k = "data" /\ f.r = r
      BY DEF Frames
    <2> QED
      BY <2>1, <2>2
  <1>5. /\ wire' \in Seq(Frames) /\ Pipeline' = Pipeline \union {f}
        /\ \A q : /\ HeadComes(q)' <=> HeadComes(q) \/ (f.k = "head" /\ f.r = q)
                  /\ BadHeadComes(q)' <=> BadHeadComes(q) \/ (f.k = "badhead" /\ f.r = q)
        /\ \A i \in 1..Len(wire') : wire'[i].k = "eof" => i = Len(wire')
        /\ reader = "armed" => notified'
        /\ notified => notified'
        /\ notified' \in BOOLEAN
    BY <1>4, PeerSendMoves
  <1>6. peer[r] = "headed"
    BY DEF PeerData
  <1>7. SharedFlags'
    BY <1>3, <1>5, Zenon DEF SharedFlags
  <1>8. WireTypes'
    BY <1>3, <1>5 DEF WireTypes
  <1>9. PeerTypes'
    <2>1. scene.data \in Nat
      BY H2Assumption DEF PeerTypes, Scene
    <2> QED
      BY <2>1 DEF PeerTypes, MaxData, PeerData, PeerSend
  <1>10. Refusals'
    BY <1>3, <1>1, <1>2, <1>4, <1>5, <1>6 DEF Refusals
  <1>11. Heads'
    BY <1>3, <1>4, <1>5, <1>6 DEF Heads
  <1>12. Reading'
    BY <1>3, <1>5 DEF Reading, Alive
  <1>13. ParkedQueue'
    BY <1>3, <1>1, <1>5 DEF ParkedQueue, Passed
  <1>14. ParkedSets'
    BY <1>3, <1>5 DEF ParkedSets, Passed
  <1>15. ParkedInbox'
    BY <1>3, <1>5 DEF ParkedInbox, Done
  <1>16. AppTypes' /\ HandleTypes' /\ SlotTypes' /\ InTypes' /\ QueueTypes' /\
         SetTypes' /\ DriverFlags' /\ DriverTypes' /\ SessionTypes' /\ OwedTypes' /\
         Place' /\ Commands' /\ Unbound' /\ Awaited' /\ Tracked' /\ WindowConserved'
         /\ Unreported'
    BY <1>3, AppTypesStays, HandleTypesStays, SlotTypesStays, InTypesStays,
       QueueTypesStays, SetTypesStays, DriverFlagsStays, DriverTypesStays,
       SessionTypesStays, OwedTypesStays, PlaceStays, CommandsStays, UnboundStays,
       AwaitedStays, TrackedStays, WindowConservedStays, UnreportedStays
  <1> QED
    BY <1>7, <1>8, <1>9, <1>10, <1>11, <1>12, <1>13, <1>14, <1>15, <1>16

\* The first GOAWAY names everything begun.
LEMMA PeerGoawayKeeps ==
    ASSUME ClientInv, PeerGoaway
    PROVE  ClientInv'
  <1>1. InQueue' = InQueue
    BY QueueStays DEF PeerGoaway, PeerSend
  <1>2. InBatch' = InBatch
    BY BatchStays DEF PeerGoaway, PeerSend
  <1>3. /\ Noted' = Noted
        /\ \A q : Observed(q)' = Observed(q) /\ Closing(q)' = Closing(q)
    BY EventsStay DEF PeerGoaway, PeerSend
  <1>4. UNCHANGED <<pc, unread, result, up, prod, clones, token, shutter, slot,
        abandoned, bodyAt, chunks, finished, failed, unwanted, queue, credits, resets,
        ready, shutdown, refusing, gone, drv, parkAt, batch, events, inbox, reader,
        intake, fed, ended, registry, str, sid, rended, resumed, barred, owed, peer,
        sent, scene>>
    BY DEF PeerGoaway, PeerSend
  <1>5. PICK f \in Frames : PeerSend(f) /\ f.k = "goaway" /\ f.last = last'
    <2>1. PICK l \in 0..Cardinality(Requests) :
            last' = l /\ PeerSend([k |-> "goaway", last |-> l])
      BY DEF PeerGoaway
    <2> DEFINE f == [k |-> "goaway", last |-> l]
    <2>2. Cardinality(Requests) \in Nat
      BY H2Assumption, FS_CardinalityType
    <2>3. f \in Frames /\ f.k = "goaway" /\ f.last = l
      BY <2>2 DEF Frames
    <2> QED
      BY <2>1, <2>3
  <1>6. /\ wire' \in Seq(Frames) /\ Pipeline' = Pipeline \union {f}
        /\ \A q : /\ HeadComes(q)' <=> HeadComes(q) \/ (f.k = "head" /\ f.r = q)
                  /\ BadHeadComes(q)' <=> BadHeadComes(q) \/ (f.k = "badhead" /\ f.r = q)
        /\ \A i \in 1..Len(wire') : wire'[i].k = "eof" => i = Len(wire')
        /\ reader = "armed" => notified'
        /\ notified => notified'
        /\ notified' \in BOOLEAN
    BY <1>5, PeerSendMoves
  <1>7. /\ last = -1 /\ last' \in Nat
        /\ \A q \in Requests : peer[q] \in {"acting", "headed", "ended"} => sid[q] <= last'
    <2>1. Cardinality(Requests) \in Nat
      BY H2Assumption, FS_CardinalityType
    <2> QED
      BY <2>1 DEF PeerGoaway
  <1>8. SharedFlags'
    BY <1>4, <1>6, Zenon DEF SharedFlags
  <1>9. WireTypes'
    BY <1>4, <1>6 DEF WireTypes
  <1>10. PeerTypes'
    BY <1>4, <1>7 DEF PeerTypes, MaxData
  <1>11. Refusals'
    BY <1>4, <1>1, <1>2, <1>5, <1>6, <1>7 DEF Refusals
  <1>12. Heads'
    BY <1>4, <1>5, <1>6, <1>7 DEF Heads
  <1>13. Tracked'
    <2>1. \A e \in Noted : e.k # "goaway"
      BY <1>7 DEF Refusals, Pipeline
    <2> QED
      BY <1>4, <1>3, <2>1 DEF Tracked, Alive
  <1>14. Reading'
    BY <1>4, <1>6 DEF Reading, Alive
  <1>15. ParkedQueue'
    BY <1>4, <1>1, <1>6 DEF ParkedQueue, Passed
  <1>16. ParkedSets'
    BY <1>4, <1>6 DEF ParkedSets, Passed
  <1>17. ParkedInbox'
    BY <1>4, <1>6 DEF ParkedInbox, Done
  <1>18. AppTypes' /\ HandleTypes' /\ SlotTypes' /\ InTypes' /\ QueueTypes' /\
         SetTypes' /\ DriverFlags' /\ DriverTypes' /\ SessionTypes' /\ OwedTypes' /\
         Place' /\ Commands' /\ Unbound' /\ Awaited' /\ WindowConserved' /\
         Unreported'
    BY <1>4, AppTypesStays, HandleTypesStays, SlotTypesStays, InTypesStays,
       QueueTypesStays, SetTypesStays, DriverFlagsStays, DriverTypesStays,
       SessionTypesStays, OwedTypesStays, PlaceStays, CommandsStays, UnboundStays,
       AwaitedStays, WindowConservedStays, UnreportedStays
  <1> QED
    BY <1>8, <1>9, <1>10, <1>11, <1>12, <1>13, <1>14, <1>15, <1>16, <1>17, <1>18

\* The last frame of the connection.
LEMMA PeerStopsKeeps ==
    ASSUME ClientInv, PeerStops
    PROVE  ClientInv'
  <1>1. InQueue' = InQueue
    BY QueueStays DEF PeerStops, PeerSend
  <1>2. InBatch' = InBatch
    BY BatchStays DEF PeerStops, PeerSend
  <1>3. UNCHANGED <<pc, unread, result, up, prod, clones, token, shutter, slot,
        abandoned, bodyAt, chunks, finished, failed, unwanted, queue, credits, resets,
        ready, shutdown, refusing, gone, drv, parkAt, batch, events, inbox, reader,
        intake, fed, ended, registry, str, sid, rended, resumed, barred, owed, peer,
        sent, last, scene>>
    BY DEF PeerStops, PeerSend
  <1>4. PICK f \in Frames : PeerSend(f) /\ f.k \in {"eof", "garbage"}
    <2>1. PICK k \in {"eof", "garbage"} : PeerSend([k |-> k])
      BY DEF PeerStops
    <2> DEFINE f == [k |-> k]
    <2>2. f \in Frames /\ f.k = k
      BY DEF Frames
    <2> QED
      BY <2>1, <2>2
  <1>5. /\ wire' \in Seq(Frames) /\ Pipeline' = Pipeline \union {f}
        /\ \A q : /\ HeadComes(q)' <=> HeadComes(q) \/ (f.k = "head" /\ f.r = q)
                  /\ BadHeadComes(q)' <=> BadHeadComes(q) \/ (f.k = "badhead" /\ f.r = q)
        /\ \A i \in 1..Len(wire') : wire'[i].k = "eof" => i = Len(wire')
        /\ reader = "armed" => notified'
        /\ notified => notified'
        /\ notified' \in BOOLEAN
    BY <1>4, PeerSendMoves
  <1>6. UNCHANGED <<peer, last>>
    BY <1>3
  <1>7. SharedFlags'
    BY <1>3, <1>5, Zenon DEF SharedFlags
  <1>8. WireTypes'
    BY <1>3, <1>5 DEF WireTypes
  <1>9. Refusals'
    BY <1>3, <1>1, <1>2, <1>4, <1>5, <1>6 DEF Refusals
  <1>10. Heads'
    BY <1>3, <1>4, <1>5, <1>6 DEF Heads
  <1>11. Reading'
    BY <1>3, <1>5 DEF Reading, Alive
  <1>12. ParkedQueue'
    BY <1>3, <1>1, <1>5 DEF ParkedQueue, Passed
  <1>13. ParkedSets'
    BY <1>3, <1>5 DEF ParkedSets, Passed
  <1>14. ParkedInbox'
    BY <1>3, <1>5 DEF ParkedInbox, Done
  <1>15. AppTypes' /\ HandleTypes' /\ SlotTypes' /\ InTypes' /\ QueueTypes' /\
          SetTypes' /\ DriverFlags' /\ DriverTypes' /\ SessionTypes' /\ OwedTypes' /\
          PeerTypes' /\ Place' /\ Commands' /\ Unbound' /\ Awaited' /\ Tracked' /\
          WindowConserved' /\ Unreported'
    BY <1>3, AppTypesStays, HandleTypesStays, SlotTypesStays, InTypesStays,
       QueueTypesStays, SetTypesStays, DriverFlagsStays, DriverTypesStays,
       SessionTypesStays, OwedTypesStays, PeerTypesStays, PlaceStays, CommandsStays,
       UnboundStays, AwaitedStays, TrackedStays, WindowConservedStays, UnreportedStays
  <1> QED
    BY <1>7, <1>8, <1>9, <1>10, <1>11, <1>12, <1>13, <1>14, <1>15

HIDE DEF ClientInv, appVars, slotVars, inVars, flagVars, setVars, drvVars, readVars,
         sessVars, peerVars

-----------------------------------------------------------------------------
(* The invariant                                                           *)

\* A connection nobody has used: the driver has not been polled.
LEMMA InitHolds == Init => ClientInv
  <1> SUFFICES ASSUME Init PROVE ClientInv
    OBVIOUS
  <1> DEFINE none == << >>
  <1>1. none \in Seq(Requests) /\ none \in Seq(Events) /\ none \in Seq(Frames) /\ Len(none) = 0
    OBVIOUS
  <1>2. scene \in Scene /\ scene.calls \subseteq Requests /\ scene.data \in Nat
    BY H2Assumption DEF Init, Scene
  <1>3. /\ queue = none /\ batch = none /\ events = none /\ inbox = none /\ wire = none
        /\ InQueue = {} /\ InBatch = {} /\ Pipeline = {} /\ Noted = {}
    BY RangeShort DEF Init, InQueue, InBatch, Pipeline, Coming, Noted
  <1>4. AppTypes /\ HandleTypes /\ SlotTypes /\ InTypes /\ SetTypes
    BY <1>2 DEF Init, AppTypes, HandleTypes, SlotTypes, InTypes, SetTypes, Pcs, Errors
  <1>5. SharedFlags /\ DriverFlags
    BY DEF Init, SharedFlags, DriverFlags
  <1>6. QueueTypes /\ WireTypes
    <2>1. Len(inbox) <= ReadAhead
      BY <1>1, <1>3, H2Assumption
    <2>2. /\ queue \in Seq(Requests) /\ batch \in Seq(Requests)
          /\ events \in Seq(Events) /\ wire \in Seq(Frames) /\ inbox \in Seq(Frames)
      BY <1>1, <1>3, Zenon
    <2> QED
      BY <2>1, <2>2 DEF QueueTypes, WireTypes
  <1>7. DriverTypes /\ SessionTypes /\ OwedTypes /\ PeerTypes
    BY <1>2 DEF Init, DriverTypes, DriverPcs, SessionTypes, OwedTypes, PeerTypes, MaxData
  <1>8. Place
    BY <1>3 DEF Init, Place, Alive
  <1>9. Commands
    <2>1. NoRepeat(<<>>)
      BY DEF NoRepeat
    <2>2. \A r \in Requests : sid[r] = 0
      BY DEF Init
    <2> QED
      BY <1>3, <2>1, <2>2 DEF Commands
  <1>10. Unbound /\ Awaited /\ Unreported
    BY <1>3 DEF Init, Unbound, Awaited, Unreported
  <1>11. Refusals /\ Heads
    BY <1>3 DEF Init, Refusals, Heads, HeadComes, BadHeadComes
  <1>12. Tracked
    BY <1>3 DEF Init, Tracked, Closing
  <1>13. WindowConserved
    <2>1. \A q : Observed(q) = 0
      BY <1>3, ObservedIs, NoneCounted
    <2> QED
      BY <2>1 DEF Init, WindowConserved
  <1>14. Reading /\ ParkedQueue /\ ParkedSets /\ ParkedInbox
    BY <1>3 DEF Init, Reading, ParkedQueue, ParkedSets, ParkedInbox, Passed
  <1> QED
    BY <1>4, <1>5, <1>6, <1>7, <1>8, <1>9, <1>10, <1>11, <1>12, <1>13, <1>14 DEF ClientInv

\* dispatch takes one arm.
LEMMA DispatchOneKeeps == ASSUME ClientInv, DispatchOne PROVE ClientInv'
  <1>1. DispatchRest
    BY DEF DispatchOne, DispatchRest
  <1>2. \/ HeadDispatched \/ BadHeadDispatched \/ DataDispatched
        \/ EndDispatched \/ GoawayDispatched \/ CloseDispatched
    BY <1>1 DEF DispatchOne, HeadDispatched, BadHeadDispatched, DataDispatched,
                EndDispatched, GoawayDispatched, CloseDispatched
  <1> QED
    BY <1>2, HeadDispatchedKeeps, BadHeadDispatchedKeeps, DataDispatchedKeeps,
       EndDispatchedKeeps, GoawayDispatchedKeeps, CloseDispatchedKeeps

\* What an application's thread owes.
LEMMA AppStepKeeps == ASSUME ClientInv, AppStep PROVE ClientInv'
  <1>1. ASSUME NEW r \in Requests,
               \/ SendRefusing(r) \/ SendPush(r) \/ SendWake(r) \/ SendRecheck(r)
               \/ FutureReset(r) \/ FutureWake(r) \/ ReadCredit(r) \/ ReadWake(r)
               \/ DropAbandon(r) \/ DropCredit(r) \/ DropWake(r) \/ DropReset(r)
               \/ ProduceWake(r)
        PROVE  ClientInv'
    BY <1>1, SendRefusingKeeps, SendPushKeeps, SendWakeKeeps, SendRecheckKeeps,
       FutureResetKeeps, FutureWakeKeeps, ReadCreditKeeps, ReadWakeKeeps, DropAbandonKeeps,
       DropCreditKeeps, DropWakeKeeps, DropResetKeeps, ProduceWakeKeeps
  <1> QED
    BY <1>1, TokenDropKeeps, ShutdownWakeKeeps DEF AppStep

\* What it may choose to do.
LEMMA AppChoiceKeeps == ASSUME ClientInv, AppChoice PROVE ClientInv'
  <1>1. ASSUME NEW r \in Requests,
               \/ SendStart(r) \/ DropClone(r) \/ PollFuture(r) \/ DropFuture(r)
               \/ ReadChunk(r) \/ ReadEnd(r) \/ DropBody(r) \/ Produce(r)
        PROVE  ClientInv'
    BY <1>1, SendStartKeeps, DropCloneKeeps, PollFutureKeeps, DropFutureKeeps,
       ReadChunkKeeps, ReadEndKeeps, DropBodyKeeps, ProduceKeeps
  <1> QED
    BY <1>1, ShutdownKeeps DEF AppChoice

\* The driver's task.
LEMMA DriverStepKeeps == ASSUME ClientInv, DriverStep PROVE ClientInv'
  BY FirstPollKeeps, PollKeeps, AdvanceTakeKeeps, AdvanceCheckKeeps, AdvanceBindKeeps,
     TakeCreditsKeeps, TakeResetsKeeps, TakeShutdownKeeps, TakeReadyKeeps, FeedOneKeeps,
     FeedGarbageKeeps, FeedDoneKeeps, DispatchOneKeeps, DispatchDoneKeeps, FlushKeeps,
     CheckIntakeKeeps, CheckQuietKeeps, ParkKeeps, FailTrackedKeeps, AbandonQueueKeeps
     DEF DriverStep

\* The peer.
LEMMA PeerStepKeeps == ASSUME ClientInv, PeerStep PROVE ClientInv'
  <1>1. ASSUME NEW r \in Requests,
               \/ PeerActs(r) \/ PeerHead(r) \/ PeerBadHead(r) \/ PeerData(r)
               \/ PeerEnd(r) \/ PeerRst(r)
        PROVE  ClientInv'
    BY <1>1, PeerActsKeeps, PeerHeadKeeps, PeerBadHeadKeeps, PeerDataKeeps, PeerEndKeeps,
       PeerRstKeeps
  <1> QED
    BY <1>1, PeerGoawayKeeps, PeerStopsKeeps DEF PeerStep

\* A step that changes nothing.
LEMMA StutterKeeps == ASSUME ClientInv, UNCHANGED vars PROVE ClientInv'
  BY AppTypesStays, HandleTypesStays, SlotTypesStays, InTypesStays, QueueTypesStays,
     SetTypesStays, SharedFlagsStays, DriverFlagsStays, DriverTypesStays, WireTypesStays,
     SessionTypesStays, OwedTypesStays, PeerTypesStays, PlaceStays, CommandsStays,
     UnboundStays, AwaitedStays, RefusalsStays, HeadsStays, TrackedStays,
     WindowConservedStays, UnreportedStays, ReadingStays, ParkedQueueStays,
     ParkedSetsStays, ParkedInboxStays DEF ClientInv, vars

(***************************************************************************)
(* The inductive invariant of the connection: where a pass of the driver   *)
(* is, which requests it still owes an answer, what the registry tracks,   *)
(* the account of the receive window, and for every conjunct of the park   *)
(* predicate already found true the thread that still has to wake it.      *)
(***************************************************************************)
THEOREM H2ClientInvariant == Spec => []ClientInv
  <1>1. ASSUME ClientInv, [Next]_vars PROVE ClientInv'
    <2>1. CASE UNCHANGED vars
      BY <1>1, <2>1, StutterKeeps
    <2>2. CASE Terminated
      BY <1>1, <2>2, StutterKeeps DEF Terminated
    <2> QED
      BY <1>1, <2>1, <2>2, AppStepKeeps, AppChoiceKeeps, DriverStepKeeps, PollWritingKeeps,
         FlushFailsKeeps, DropDriverKeeps, PeerStepKeeps DEF Next
  <1> QED
    BY <1>1, InitHolds, PTL DEF Spec

-----------------------------------------------------------------------------
(* What follows                                                            *)

(***************************************************************************)
(* Every variable keeps its type, the inbox never exceeds READ_AHEAD       *)
(* buffers (driver.rs), and no counter of window or credit goes below      *)
(* zero.                                                                   *)
(***************************************************************************)
THEOREM H2ClientTypes == Spec => []TypeOK
  <1>1. ClientInv => TypeOK
    BY DEF ClientInv, TypeOK, AppTypes, HandleTypes, SlotTypes, InTypes, QueueTypes,
           SetTypes, SharedFlags, DriverFlags, DriverTypes, WireTypes, SessionTypes,
           OwedTypes, PeerTypes, Pcs, SendPcs, DropPcs, Errors, DriverPcs
  <1> QED
    BY <1>1, H2ClientInvariant, PTL

(***************************************************************************)
(* Nobody waits in vain: a driver that sleeps has seen everything, or a    *)
(* thread is about to wake it (run's park, Shared::wake_driver), and once  *)
(* it is over no future is left without an answer and no body without an   *)
(* end (DriverGuard::drop, the second look of send_request).               *)
(***************************************************************************)
THEOREM H2ClientNobodyWaitsInVain == Spec => []NobodyWaitsInVain
  <1>1. ASSUME ClientInv PROVE NothingWaitsAtRest
    <2> SUFFICES ASSUME AtRest PROVE NothingWaitsAtRest
      BY DEF NothingWaitsAtRest
    <2>1. drv = "parked" /\ ~notified /\ Alive
      BY DEF AtRest, Alive
    <2>2. \A r \in Range(queue) : r \in Requests /\ r \in InQueue
      BY <1>1, RangeOf DEF ClientInv, QueueTypes, InQueue
    <2>3. \A r \in Range(queue) : pc[r] = "pushwake"
      BY <1>1, <2>1, <2>2 DEF ClientInv, ParkedQueue, Passed
    <2>4. /\ \A r \in Requests : credits[r] > 0 =>
                pc[r] \in {"wake", "wake_c", "wake_i", "resetwake"}
          /\ \A r \in resets : pc[r] \in {"resetwake", "resetwake_i"}
      BY <1>1, <2>1 DEF ClientInv, ParkedSets, Passed, SetTypes
    <2>5. (\A r \in ready : prod[r] = "wake") /\ (shutdown => shutter = "wake")
      BY <1>1, <2>1 DEF ClientInv, ParkedQueue, Passed, SetTypes
    <2>6. (Done => token = "dropping") /\ inbox = <<>> /\ ~intake
      BY <1>1, <2>1 DEF ClientInv, ParkedInbox
    <2>7. reader = "armed"
      BY <1>1, <2>1, <2>6 DEF ClientInv, Place, Reading, DriverTypes
    <2>8. wire = <<>>
      BY <1>1, <2>1, <2>7 DEF ClientInv, Reading
    <2> QED
      BY <2>3, <2>4, <2>5, <2>6, <2>7, <2>8 DEF NothingWaitsAtRest
  <1>2. ASSUME ClientInv PROVE NobodyWaitsOnTheDead
    <2> SUFFICES ASSUME drv = "over", NEW r \in Requests
                 PROVE  /\ pc[r] = "await" => slot[r] # "open"
                        /\ bodyAt[r] \in {"slot", "caller"} => r \in finished \union failed
      BY DEF NobodyWaitsOnTheDead
    <2>1. batch = <<>> /\ registry = {}
      BY <1>2 DEF ClientInv, Place
    <2>2. InBatch = {}
      BY <2>1, RangeShort DEF InBatch
    <2> QED
      BY <1>2, <2>1, <2>2 DEF ClientInv, Awaited
  <1> QED
    BY <1>1, <1>2, H2ClientInvariant, PTL DEF NobodyWaitsInVain

(***************************************************************************)
(* No receive window is lost or given back twice, and no registry entry    *)
(* outlives its stream (dispatch, Incoming, Shared::credit, Registry).     *)
(***************************************************************************)
THEOREM H2ClientNothingLeaks == Spec => []NothingLeaks
  <1>1. ASSUME ClientInv PROVE RegistryFollowsSession
    <2> SUFFICES ASSUME Alive, NEW r \in Requests
                 PROVE  /\ str[r] \in {"open", "rst"} => r \in registry
                        /\ r \in registry /\ str[r] = "closed" =>
                              \E i \in 1..Len(events) : events[i].k = "close" /\ r \in events[i].rs
      BY DEF RegistryFollowsSession
    <2>1. Noted = {events[i] : i \in 1..Len(events)}
      BY <1>1, RangeIs DEF ClientInv, WireTypes, Noted
    <2>2. Closing(r) => \E i \in 1..Len(events) : events[i].k = "close" /\ r \in events[i].rs
      BY <2>1 DEF Closing
    <2> QED
      BY <1>1, <2>2 DEF ClientInv, Tracked
  <1>2. ClientInv => WindowConserved
    BY DEF ClientInv
  <1> QED
    BY <1>1, <1>2, H2ClientInvariant, PTL DEF NothingLeaks

(***************************************************************************)
(* A caller told "refused" may retry: the peer never began the request     *)
(* (dispatch's Goaway arm, is_refusing); and a response whose head was     *)
(* handed over and whose end has come is not reported truncated            *)
(* (Incoming::fail).                                                       *)
(***************************************************************************)
THEOREM H2ClientErrorsAreHonest == Spec => []ErrorsAreHonest
  <1>1. ASSUME ClientInv PROVE RefusedIsUnprocessed
    <2> SUFFICES ASSUME NEW r \in Requests, slot[r] = "refused"
                 PROVE  peer[r] \notin {"acting", "headed", "ended"}
      BY DEF RefusedIsUnprocessed
    <2>1. sid[r] \in Nat /\ last \in Int
      BY <1>1 DEF ClientInv, SessionTypes, PeerTypes
    <2>2. CASE sid[r] = 0
      BY <1>1, <2>2 DEF ClientInv, Unbound
    <2>3. CASE last >= 0 /\ sid[r] > last
      BY <1>1, <2>1, <2>3 DEF ClientInv, Refusals
    <2> QED
      BY <1>1, <2>2, <2>3 DEF ClientInv, Refusals
  <1>2. ASSUME ClientInv PROVE WholeMessagesStayWhole
    BY <1>2 DEF ClientInv, Heads, InTypes, WholeMessagesStayWhole
  <1> QED
    BY <1>1, <1>2, H2ClientInvariant, PTL DEF ErrorsAreHonest

\* What a step may not do to a request given up before it was sent.
CancelKept ==
    \A r \in Requests :
        /\ r \in abandoned /\ sid[r] = 0 => str'[r] # "queued"
        /\ str[r] = "rst" /\ peer[r] = "none" => peer'[r] = "none"

\* A step that leaves streams and peer alone keeps it.
LEMMA QuietStepKeepsCancel == ASSUME ClientInv, UNCHANGED <<str, peer>> PROVE CancelKept
  BY DEF ClientInv, Unbound, CancelKept

\* The steps of the driver that change a stream.
LEMMA DriverKeepsCancel == ASSUME ClientInv, DriverStep PROVE CancelKept
  <1> USE DEF appVars, slotVars, inVars, flagVars, setVars, drvVars, readVars, sessVars,
              peerVars
  <1>1. \A r \in Requests : sid[r] = 0 => str[r] = "none"
    BY DEF ClientInv, Unbound
  <1>2. CASE AdvanceBind
    <2>1. batch # <<>> /\ batch \in Seq(Requests) /\ UNCHANGED peer
      BY <1>2 DEF AdvanceBind, ClientInv, Place, QueueTypes
    <2>2. Head(batch) \in Requests
      BY <2>1, TailShifts
    <2>3. \/ UNCHANGED str
          \/ str' = [str EXCEPT ![Head(batch)] =
                        IF Head(batch) \in abandoned THEN "rst" ELSE "queued"]
      BY <1>2 DEF AdvanceBind
    <2> QED
      BY <1>1, <2>1, <2>2, <2>3 DEF CancelKept, ClientInv, SessionTypes
  <1>3. CASE TakeResets
    BY <1>1, <1>3 DEF TakeResets, CancelKept
  <1>4. CASE FeedOne
    <2>1. \A q \in Requests : str'[q] \in {"closed", str[q]}
      BY <1>4, ObserveMoves
    <2>2. UNCHANGED peer
      BY <1>4 DEF FeedOne
    <2> QED
      BY <1>1, <2>1, <2>2 DEF CancelKept
  <1>5. CASE DispatchOne
    <2>1. /\ UNCHANGED peer
          /\ \/ UNCHANGED str
             \/ DispatchBadHead(Head(events)) /\ events # <<>>
      BY <1>5 DEF DispatchOne, DispatchHead, DispatchData, DispatchEnd, DispatchGoaway,
                  DispatchClose
    <2>2. ASSUME DispatchBadHead(Head(events)) PROVE CancelKept
      <3>1. str' = [str EXCEPT ![Head(events).r] = IF @ = "open" THEN "rst" ELSE @]
        BY <2>2 DEF DispatchBadHead
      <3>2. str \in [Requests -> {"none", "queued", "open", "rst", "closed"}]
        BY DEF ClientInv, SessionTypes
      <3>3. \A q \in Requests : str'[q] \in {"rst", str[q]}
        BY <3>1, <3>2
      <3> QED
        BY <1>1, <2>1, <3>3 DEF CancelKept
    <2> QED
      BY <2>1, <2>2, QuietStepKeepsCancel
  <1>6. CASE Flush
    <2>1. \A q \in Requests : str[q] = "none" => str'[q] # "queued"
      BY <1>6 DEF Flush, Unsendable, Resets, Sendable
    <2>2. \A q \in Requests : str[q] = "rst" /\ peer[q] = "none" => peer'[q] = "none"
      BY <1>6 DEF Flush, Resets, Sendable
    <2> QED
      BY <1>1, <2>1, <2>2 DEF CancelKept
  <1>7. CASE \/ FirstPoll \/ Poll \/ AdvanceTake \/ AdvanceCheck \/ TakeCredits
             \/ TakeShutdown \/ TakeReady \/ FeedGarbage \/ FeedDone \/ DispatchDone
             \/ CheckIntake \/ CheckQuiet \/ Park \/ FailTracked \/ AbandonQueue
    <2>1. UNCHANGED <<str, peer>>
      BY <1>7 DEF FirstPoll, Poll, AdvanceTake, AdvanceCheck, TakeCredits, TakeShutdown,
                  TakeReady, FeedGarbage, FeedDone, DispatchDone, CheckIntake, CheckQuiet,
                  Park, FailTracked, AbandonQueue
    <2> QED
      BY <2>1, QuietStepKeepsCancel
  <1> QED
    BY <1>2, <1>3, <1>4, <1>5, <1>6, <1>7 DEF DriverStep

\* The peer acts on requests that have reached it.
LEMMA PeerKeepsCancel == ASSUME ClientInv, PeerStep PROVE CancelKept
  <1> USE DEF appVars, slotVars, inVars, flagVars, setVars, drvVars, readVars, sessVars,
              peerVars
  <1>1. \A r \in Requests : sid[r] = 0 => str[r] = "none"
    BY DEF ClientInv, Unbound
  <1>2. peer \in [Requests -> {"none", "arrived", "acting", "headed", "ended", "reset"}]
    BY DEF ClientInv, PeerTypes
  <1>3. UNCHANGED str
    BY DEF PeerStep, PeerActs, PeerHead, PeerBadHead, PeerData, PeerEnd, PeerRst,
           PeerGoaway, PeerStops, PeerSend
  <1>4. \A q \in Requests : peer[q] = "none" => peer'[q] = "none"
    BY <1>2 DEF PeerStep, PeerActs, PeerHead, PeerBadHead, PeerData, PeerEnd, PeerRst,
                PeerGoaway, PeerStops
  <1> QED
    BY <1>1, <1>3, <1>4 DEF CancelKept

(***************************************************************************)
(* A request whose future is dropped before it has a stream never enters   *)
(* the session's queue, and one reset before it was sent never reaches the *)
(* peer (Slot::cancel, is_abandoned and bind, ClientRole::submit, flush).  *)
(***************************************************************************)
THEOREM H2ClientCancelIsKept == Spec => UnsentCancelNeverSent
  <1>1. ASSUME ClientInv, [Next]_vars PROVE [CancelKept]_vars
    <2> USE DEF appVars, slotVars, inVars, flagVars, setVars, drvVars, readVars, sessVars,
                peerVars
    <2>1. CASE AppStep
      <3>1. UNCHANGED <<str, peer>>
        BY <2>1 DEF AppStep, SendRefusing, SendPush, SendWake, SendRecheck, FutureReset,
                    FutureWake, ReadCredit, ReadWake, DropAbandon, DropCredit, DropWake,
                    DropReset, ProduceWake, TokenDrop, ShutdownWake
      <3> QED
        BY <1>1, <3>1, QuietStepKeepsCancel
    <2>2. CASE AppChoice
      <3>1. UNCHANGED <<str, peer>>
        BY <2>2 DEF AppChoice, SendStart, DropClone, PollFuture, DropFuture, ReadChunk,
                    ReadEnd, DropBody, Produce, Shutdown
      <3> QED
        BY <1>1, <3>1, QuietStepKeepsCancel
    <2>3. CASE PollWriting \/ FlushFails \/ DropDriver \/ Terminated
      <3>1. UNCHANGED <<str, peer>>
        BY <2>3 DEF PollWriting, FlushFails, DropDriver, Terminated, vars
      <3> QED
        BY <1>1, <3>1, QuietStepKeepsCancel
    <2> QED
      BY <1>1, <2>1, <2>2, <2>3, DriverKeepsCancel, PeerKeepsCancel DEF Next
  <1>2. ClientInv /\ [Next]_vars => [CancelKept]_vars
    BY <1>1
  <1>3. [][CancelKept]_vars => UnsentCancelNeverSent
    BY PTL DEF CancelKept, UnsentCancelNeverSent
  <1> QED
    BY <1>2, <1>3, H2ClientInvariant, PTL DEF Spec

=============================================================================
