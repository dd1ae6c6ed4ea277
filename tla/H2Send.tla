------------------------------- MODULE H2Send -------------------------------
(***************************************************************************)
(* The sending path of an HTTP/2 connection (ngnet-h2): a message body is  *)
(* taken frame by frame (http/body/outgoing.rs, shared.rs), libnghttp2     *)
(* frames it through this crate's callbacks (callbacks.rs), and a pass     *)
(* drains what the session has to say into a transport that takes as much  *)
(* as it likes (http/driver.rs, http/transport/mod.rs).                    *)
(*                                                                         *)
(* A body's octets are copied into the session's block (plan "push") or    *)
(* handed over beside it as records (plan "shared").  A transport borrows  *)
(* or owns what it writes, and either gathers a list of regions or is      *)
(* given one buffer.  Octets are named: <<"octet", i>> is the i-th of the  *)
(* message, <<"data", n, fin>> a DATA header, and the other units stand    *)
(* for what is not a body.                                                 *)
(***************************************************************************)
EXTENDS Integers, Sequences, FiniteSets, SequencesExt

CONSTANTS
    Setups,        \* records of plan, model and vectored
    Messages,      \* bodies: sequences of outcomes, records of kind and size
    Limits,        \* how much libnghttp2 lets one DATA frame carry
    MaxRegions,    \* MAX_REGIONS
    Threshold,     \* VECTORED_THRESHOLD
    EmptyLimit,    \* EMPTY_FRAME_LIMIT
    MaxCommands    \* bound: frames that are not about the body

ASSUME Bounds ==
    /\ MaxRegions \in Nat /\ MaxRegions >= 2
    /\ Threshold \in Nat \ {0} /\ EmptyLimit \in Nat \ {0} /\ MaxCommands \in Nat
    /\ Limits \subseteq Nat \ {0}

VARIABLES
    setup, message, commands,
    script,        \* what the body has still to produce
    leftover,      \* octets of a frame that did not fit
    given,         \* octets the body has produced
    body,          \* ready, deferred, woken, ended, failed
    stash,         \* trailers the body announced to Shared
    announced,     \* trailers_ready of the body's entry
    queue,         \* frames submitted to the session
    records,       \* the sink
    block,         \* what send_into returned; empty for None
    run,           \* gathered, coalesced or minted
    runStart, regions, regioned,
    offer, done,   \* what is being written, and how much of it is
    said,          \* everything the session has serialised
    wire,          \* everything the transport has taken
    committed,     \* how much of it a commit has pushed out
    pc, after

bodyVars == <<script, leftover, given, body, stash, announced>>
listVars == <<run, runStart, regions, regioned>>
writeVars == <<offer, done, wire, after>>
vars == <<setup, message, commands, bodyVars, queue, records, block, listVars,
          writeVars, said, committed, pc>>

Gathers == setup.vectored
Lends == setup.model = "readiness"

Octets(from, n) == [i \in 1..n |-> <<"octet", from + i>>]

Init ==
    /\ setup \in Setups /\ message \in Messages
    /\ script = message
    /\ leftover = <<>> /\ given = 0 /\ body = "ready" /\ stash = FALSE /\ announced = FALSE
    /\ queue = <<"small">> /\ commands = 0
    /\ records = <<>> /\ block = <<>>
    /\ run = <<>> /\ runStart = 0 /\ regions = <<>> /\ regioned = 0
    /\ offer = <<>> /\ done = 0 /\ said = <<>> /\ wire = <<>> /\ committed = 0
    /\ after = "none" /\ pc = "pass"

-----------------------------------------------------------------------------
(* The body.                                                               *)

Drop(s, n) == SubSeq(s, n + 1, Len(s))
FirstOf(s, n) == IF n < Len(s) THEN SubSeq(s, 1, n) ELSE s

IsEmpty(f) == f.kind = "frame" /\ f.size = 0
Leading == Cardinality({i \in 1..Len(script) : \A j \in 1..i : IsEmpty(script[j])})

Result(kind, chunk, rest, left) ==
    [kind |-> kind, chunk |-> chunk, script |-> rest, leftover |-> left]

\* The rest of the frame is let go.
HandOver_Cut(data, limit, rest) ==
    Result("wrote", FirstOf(data, limit), rest, <<>>)

\* hand_over: as much as the frame takes; the rest waits for the next one.
HandOver(data, limit, rest) ==
    Result("wrote", FirstOf(data, limit), rest, Drop(data, limit))

\* fill, take: what is left over first, then the next frame that is not empty; a run of
\* empty ones is cut short by an empty frame, so that a pass always ends.
Take(limit) ==
    IF leftover # <<>> THEN HandOver(leftover, limit, script)
    ELSE IF Leading >= EmptyLimit THEN Result("wrote", <<>>, Drop(script, EmptyLimit), <<>>)
    ELSE LET rest == Drop(script, Leading)
         IN IF rest = <<>> THEN Result("eof", <<>>, <<>>, <<>>)
            ELSE CASE rest[1].kind = "pending" -> Result("defer", <<>>, Tail(rest), <<>>)
                   [] rest[1].kind = "error" -> Result("fail", <<>>, <<>>, <<>>)
                   [] rest[1].kind = "unknown" -> Result("eof", <<>>, <<>>, <<>>)
                   [] rest[1].kind \in {"trailers", "bad trailers"} ->
                        Result("trailers", <<>>, rest, <<>>)
                   [] OTHER -> HandOver(Octets(given, rest[1].size), limit, Tail(rest))

\* The body has been asked; given counts what it has produced, handed over or not.
Asked(t) ==
    /\ script' = t.script /\ leftover' = t.leftover
    /\ given' = IF leftover = <<>> THEN given + Len(t.chunk) + Len(t.leftover) ELSE given
    /\ stash' = (stash \/ t.kind = "trailers")
    /\ announced' = (announced \/ t.kind = "trailers")
    /\ body' = CASE t.kind = "wrote" -> "ready"
                 [] t.kind = "defer" -> "deferred"
                 [] t.kind = "fail" -> "failed"
                 [] OTHER -> "ended"

DataHeader(t) == <<"data", Len(t.chunk), t.kind = "eof">>

-----------------------------------------------------------------------------
(* One send_into: libnghttp2 frames what it may, and returns a block.      *)

\* read_shared_body stages the chunk, send_data makes a record of it and of the header.
DepositRecord ==
    /\ pc = "call" /\ setup.plan = "shared" /\ body = "ready"
    /\ \E limit \in Limits :
        LET t == Take(limit)
            frame == [header |-> DataHeader(t), payload |-> t.chunk]
        IN /\ Asked(t)
           /\ IF t.kind \in {"defer", "fail"}
              THEN /\ UNCHANGED <<records, said>>
                   /\ queue' = IF t.kind = "fail" THEN Append(queue, "reset") ELSE queue
              ELSE /\ records' = Append(records, frame)
                   /\ said' = said \o <<frame.header>> \o frame.payload
                   /\ UNCHANGED queue
    /\ UNCHANGED <<setup, message, commands, block, listVars, writeVars, committed, pc>>

Units(kind) == IF kind = "large" THEN [i \in 1..Threshold |-> <<"large">>] ELSE <<<<kind>>>>

Returns(octets) ==
    /\ block' = octets /\ said' = said \o octets /\ pc' = "take"

\* A frame that is not a body's is serialised into the block.
ReturnControl ==
    /\ pc = "call" /\ queue # <<>>
    /\ Returns(Units(Head(queue))) /\ queue' = Tail(queue)
    /\ UNCHANGED <<setup, message, commands, bodyVars, records, listVars, writeVars, committed>>

\* read_push_body: the body fills the frame inside libnghttp2's own buffer.
ReturnData ==
    /\ pc = "call" /\ setup.plan = "push" /\ body = "ready"
    /\ \E limit \in Limits :
        LET t == Take(limit)
        IN /\ Asked(t)
           /\ IF t.kind \in {"defer", "fail"}
              THEN /\ UNCHANGED <<block, said, pc>>
                   /\ queue' = IF t.kind = "fail" THEN Append(queue, "reset") ELSE queue
              ELSE Returns(<<DataHeader(t)>> \o t.chunk) /\ UNCHANGED queue
    /\ UNCHANGED <<setup, message, commands, records, listVars, writeVars, committed>>

\* None: nothing is left, although records may have come with this very call.
ReturnNone ==
    /\ pc = "call" /\ queue = <<>> /\ body # "ready"
    /\ Returns(<<>>)
    /\ UNCHANGED <<setup, message, commands, bodyVars, queue, records, listVars, writeVars,
                   committed>>

\* The call fails: what the sink holds is let go, with the descriptors that name it.
SendFails ==
    /\ pc = "call"
    /\ records' = <<>> /\ regions' = <<>> /\ pc' = "failed"
    /\ UNCHANGED <<setup, message, commands, bodyVars, queue, block, run, runStart, regioned,
                   writeVars, said, committed>>

-----------------------------------------------------------------------------
(* Writing a list of slices.                                               *)

Before(slices, i) == Len(FlattenSeq(SubSeq(slices, 1, i - 1)))

\* The slice it stopped in is offered again from its beginning.
Unwritten_Whole(slices, n) ==
    LET left == {i \in DOMAIN slices : n < Before(slices, i) + Len(slices[i])}
    IN IF left = {} THEN <<>>
       ELSE SubSeq(slices, CHOOSE i \in left : \A j \in left : i <= j, Len(slices))

\* What is left of a list of which n octets were taken: whole slices go, and the one it
\* stopped in begins where it stopped.
Unwritten(slices, n) ==
    LET rest == [i \in DOMAIN slices |->
                    LET k == n - Before(slices, i)
                    IN IF k <= 0 THEN slices[i] ELSE Drop(slices[i], k)]
    IN SelectSeq(rest, LAMBDA s : s # <<>>)

\* What a gathering write may report: any number of octets. Emulated over a primitive that
\* takes one buffer it is some whole regions and a part of the next, which is no less.
Accepts(slices) == 1..Len(FlattenSeq(slices))

Write(slices, next) ==
    /\ offer' = slices /\ done' = 0 /\ after' = next /\ pc' = "write"

\* What a write named is let go, and the records it named with it.
Disposed ==
    /\ run' = IF Gathers /\ ~Lends THEN run ELSE <<>>
    /\ records' = Drop(records, regioned)
    /\ regions' = <<>> /\ runStart' = 0 /\ regioned' = 0

\* write_gathering computes the offer anew from what is done; write_owned keeps the list
\* it was given back and cuts it.
WriteSome ==
    /\ pc = "write"
    /\ LET left == Unwritten(offer, done)
       IN \E n \in Accepts(left) :
            /\ wire' = wire \o SubSeq(FlattenSeq(left), 1, n)
            /\ IF n = Len(FlattenSeq(left))
               THEN /\ Disposed /\ pc' = after
                    /\ offer' = <<>> /\ done' = 0
               ELSE /\ IF Lends THEN done' = done + n /\ UNCHANGED offer
                       ELSE offer' = Unwritten(left, n) /\ UNCHANGED done
                    /\ UNCHANGED <<listVars, records, pc>>
    /\ UNCHANGED <<setup, message, commands, bodyVars, queue, block, said, after, committed>>

\* An error, perhaps behind octets an emulated gathering had written, or no octets and no
\* error: everything is let go, what it named or not.
WriteFails ==
    /\ pc = "write"
    /\ LET left == FlattenSeq(Unwritten(offer, done))
       IN \E n \in 0..(Len(left) - 1) : wire' = wire \o SubSeq(left, 1, n)
    /\ run' = IF Gathers /\ Lends THEN <<>> ELSE run
    /\ records' = <<>> /\ regions' = <<>> /\ runStart' = 0 /\ regioned' = 0
    /\ offer' = <<>> /\ done' = 0 /\ pc' = "failed"
    /\ UNCHANGED <<setup, message, commands, bodyVars, queue, block, said, after, committed>>

-----------------------------------------------------------------------------
(* The drains of a pass.                                                   *)

\* Every drain starts from empty buffers.
FlushBegins ==
    /\ pc = "flush"
    /\ run' = <<>> /\ runStart' = 0 /\ regions' = <<>> /\ regioned' = 0
    /\ pc' = "call"
    /\ UNCHANGED <<setup, message, commands, bodyVars, queue, records, block, writeVars,
                   said, committed>>

FrameOf(r) == <<r.header>> \o r.payload

\* accumulate_coalesced: records, then the block they came with.
Coalesce ==
    /\ pc = "take" /\ ~Gathers
    /\ run' = run \o FlattenSeq([i \in DOMAIN records |-> FrameOf(records[i])]) \o block
    /\ records' = <<>>
    /\ pc' = IF block = <<>> THEN "tail" ELSE "call"
    /\ UNCHANGED <<setup, message, commands, bodyVars, queue, block, runStart, regions,
                   regioned, writeVars, said, committed>>

CoalescedTail ==
    /\ pc = "tail" /\ ~Gathers
    /\ IF run = <<>> THEN pc' = "flushed" /\ UNCHANGED <<offer, done, after>>
       ELSE Write(<<run>>, "flushed")
    /\ UNCHANGED <<setup, message, commands, bodyVars, queue, records, block, listVars, wire,
                   said, committed>>

OpenRun == Len(run) > runStart

\* A run of small blocks as a region: lent by its bounds, owned by value.
RunRegion == IF Lends THEN <<"gathered", runStart, Len(run)>> ELSE run
CutRun ==
    /\ regions' = Append(regions, RunRegion)
    /\ IF Lends THEN runStart' = Len(run) /\ UNCHANGED run
       ELSE run' = <<>> /\ UNCHANGED runStart

\* materialise: descriptors become slices now that nothing is being changed; an empty
\* payload is left out.
Slice(d) ==
    CASE d[1] = "gathered" -> SubSeq(run, d[2] + 1, d[3])
      [] d[1] = "header" -> <<records[d[2]].header>>
      [] d[1] = "payload" -> records[d[2]].payload

Materialise(list) ==
    SelectSeq([i \in DOMAIN list |-> Slice(list[i])], LAMBDA s : s # <<>>)

\* flush_regions, write_owned: what the list names, and the live block behind it.
FlushList(tail, next) ==
    LET list == IF Lends /\ OpenRun THEN Append(regions, RunRegion) ELSE regions
    IN IF Lends THEN Write(Materialise(list) \o (IF tail = <<>> THEN <<>> ELSE <<tail>>), next)
       ELSE Write(list, next)

FlushFirst(tail, next) ==
    /\ FlushList(tail, next)
    /\ UNCHANGED <<listVars, records, wire>>

GatherRest ==
    UNCHANGED <<setup, message, commands, bodyVars, queue, block, said, committed>>

\* Records came with this call: the open run is closed, so that they follow it.
CloseRun ==
    /\ pc = "take" /\ Gathers
    /\ \/ Len(records) = regioned /\ pc' = "block" /\ UNCHANGED <<listVars, records, writeVars>>
       \/ /\ Len(records) > regioned /\ OpenRun /\ Len(regions) >= MaxRegions
          /\ FlushFirst(<<>>, "take")
       \/ /\ Len(records) > regioned /\ OpenRun /\ Len(regions) < MaxRegions
          /\ CutRun /\ pc' = "frame" /\ UNCHANGED <<regioned, records, writeVars>>
       \/ /\ Len(records) > regioned /\ ~OpenRun
          /\ pc' = "frame" /\ UNCHANGED <<listVars, records, writeVars>>
    /\ GatherRest

\* Off by one.
RoomForRecord_Loose == Len(regions) + 1 <= MaxRegions

\* A record is two regions: the list is written out before they would not fit.
RoomForRecord == Len(regions) + 2 <= MaxRegions

RecordRegions ==
    LET r == records[regioned + 1]
    IN IF Lends THEN <<<<"header", regioned + 1>>, <<"payload", regioned + 1>>>>
       ELSE <<<<r.header>>>> \o (IF r.payload = <<>> THEN <<>> ELSE <<r.payload>>)

FrameRecord ==
    /\ pc = "frame" /\ Gathers
    /\ \/ Len(records) = regioned /\ pc' = "block" /\ UNCHANGED <<listVars, records, writeVars>>
       \/ Len(records) > regioned /\ ~RoomForRecord /\ FlushFirst(<<>>, "frame")
       \/ /\ Len(records) > regioned /\ RoomForRecord
          /\ regions' = regions \o RecordRegions /\ regioned' = regioned + 1
          /\ UNCHANGED <<run, runStart, records, writeVars, pc>>
    /\ GatherRest

Small == Len(block) < Threshold \/ ~Lends

\* A small block joins the open run; a new run needs a slot to close into.
JoinRun ==
    /\ pc = "block" /\ block # <<>> /\ Small
    /\ IF ~OpenRun /\ Len(regions) >= MaxRegions
       THEN FlushFirst(<<>>, "block")
       ELSE run' = run \o block /\ pc' = "call"
            /\ UNCHANGED <<runStart, regions, regioned, records, writeVars>>
    /\ GatherRest

\* A large one goes out at once and uncopied, behind everything before it.
BlockGoesOut ==
    /\ pc = "block" /\ block # <<>> /\ ~Small
    /\ FlushFirst(block, "call")
    /\ GatherRest

LastBlock ==
    /\ pc = "block" /\ block = <<>>
    /\ pc' = "tail"
    /\ UNCHANGED <<listVars, records, writeVars>>
    /\ GatherRest

\* What has accumulated at the end of the pass; an owned run first needs its region.
GatheredTail ==
    /\ pc = "tail" /\ Gathers
    /\ \/ ~Lends /\ OpenRun /\ Len(regions) < MaxRegions
            /\ CutRun /\ UNCHANGED <<regioned, records, writeVars, pc>>
       \/ /\ regions # <<>> \/ OpenRun
          /\ Lends \/ ~OpenRun \/ Len(regions) >= MaxRegions
          /\ FlushFirst(<<>>, "tail")
       \/ regions = <<>> /\ ~OpenRun /\ pc' = "flushed"
            /\ UNCHANGED <<listVars, records, writeVars>>
    /\ GatherRest

-----------------------------------------------------------------------------
(* The pass.                                                               *)

\* A body that has become ready since is resumed; then everything is written out.
PassBegins ==
    /\ pc = "pass"
    /\ body' = IF body = "woken" THEN "ready" ELSE body
    /\ pc' = "flush"
    /\ UNCHANGED <<setup, message, commands, script, leftover, given, stash, announced, queue,
                   records, block, listVars, writeVars, said, committed>>

\* submit_trailers: legal once the body has announced them, and written by a flush of their
\* own; trailers that cannot be sent cost the stream.
SubmitTrailers ==
    /\ pc = "flushed"
    /\ stash' = FALSE
    /\ IF stash /\ announced
       THEN IF script[1].kind = "trailers"
            THEN queue' = Append(queue, "trailers") /\ pc' = "flush"
                 /\ UNCHANGED body
            ELSE queue' = Append(queue, "reset") /\ body' = "failed" /\ pc' = "commit"
       ELSE pc' = "commit" /\ UNCHANGED <<queue, body>>
    /\ UNCHANGED <<setup, message, commands, script, leftover, given, announced, records,
                   block, listVars, writeVars, said, committed>>

\* commit, then another pass if the session wants to write or a body is ready.
Commit ==
    /\ pc = "commit"
    /\ committed' = Len(wire)
    /\ pc' = IF queue # <<>> \/ body = "woken" \/ stash THEN "pass" ELSE "parked"
    /\ UNCHANGED <<setup, message, commands, bodyVars, queue, records, block, listVars,
                   writeVars, said>>

-----------------------------------------------------------------------------
(* What happens outside.                                                   *)

\* StreamWaker: the body can go on; a parked driver is woken.
Woken ==
    /\ body = "deferred"
    /\ body' = "woken"
    /\ pc' = IF pc = "parked" THEN "pass" ELSE pc
    /\ UNCHANGED <<setup, message, commands, script, leftover, given, stash, announced, queue,
                   records, block, listVars, writeVars, said, committed>>

\* Something else is submitted: a head, a reset, a settings frame.
Command ==
    /\ pc = "parked" /\ commands < MaxCommands
    /\ commands' = commands + 1
    /\ \E kind \in {"small", "large"} : queue' = Append(queue, kind)
    /\ pc' = "pass"
    /\ UNCHANGED <<setup, message, bodyVars, records, block, listVars, writeVars, said,
                   committed>>

Next ==
    \/ DepositRecord \/ ReturnControl \/ ReturnData \/ ReturnNone \/ SendFails
    \/ WriteSome \/ WriteFails
    \/ FlushBegins \/ Coalesce \/ CoalescedTail
    \/ CloseRun \/ FrameRecord \/ JoinRun \/ BlockGoesOut \/ LastBlock \/ GatheredTail
    \/ PassBegins \/ SubmitTrailers \/ Commit
    \/ Woken \/ Command

Spec == Init /\ [][Next]_vars

-----------------------------------------------------------------------------
(* Properties.                                                             *)

TypeOK ==
    /\ body \in {"ready", "deferred", "woken", "ended", "failed"}
    /\ regioned \in 0..Len(records) /\ runStart \in 0..Len(run)
    /\ committed \in 0..Len(wire)
    /\ pc \in {"pass", "flush", "call", "take", "frame", "block", "tail", "write", "flushed",
               "commit", "parked", "failed"}

\* Every octet the session serialised is written once and in the order it was serialised,
\* whatever the transport takes at a time; a flush that ends has written all of it and kept
\* no record and no descriptor, nor does one that fails; and a driver that parks has pushed
\* everything out and left the session nothing to say.
OctetsInOrder ==
    /\ IsPrefix(wire, said)
    /\ pc \in {"flushed", "commit", "parked"} => wire = said /\ run = <<>>
    /\ pc \in {"flushed", "commit", "parked", "failed"} => records = <<>> /\ regions = <<>>
    /\ pc = "parked" => committed = Len(said) /\ queue = <<>> /\ ~stash

\* The list of regions never outgrows its bound, the array it is written from never the one
\* slot more that a live block needs, and no slice that is offered is empty.
ListFits ==
    /\ Len(regions) + (IF Lends /\ Gathers /\ OpenRun THEN 1 ELSE 0) <= MaxRegions
    /\ pc = "write" =>
         /\ Len(offer) \in 1..(IF Lends THEN MaxRegions + 1 ELSE MaxRegions)
         /\ \A i \in DOMAIN offer : offer[i] # <<>>

Is(u, kind) == u[1] = kind
Ends(u) == Is(u, "trailers") \/ Is(u, "reset") \/ (Is(u, "data") /\ u[3])

Whole == FoldLeft(LAMBDA n, f : n + f.size, 0, message)

\* What is serialised is well framed: a DATA header is followed by as many octets as it says,
\* the message's octets come in order and each once, its end comes once and after all of
\* them unless the body failed, and no octet follows it.
FramesAreWhole ==
    LET at(kind) == {i \in DOMAIN said : Is(said[i], kind)}
        octets == SelectSeq(said, LAMBDA u : Is(u, "octet"))
        ends == {i \in DOMAIN said : Ends(said[i])}
    IN /\ octets = Octets(0, Len(octets))
       /\ \A i \in at("data") :
            /\ i + said[i][2] <= Len(said)
            /\ \A k \in (i + 1)..(i + said[i][2]) : Is(said[k], "octet")
       /\ \A i \in at("octet") : \E h \in at("data") : h < i /\ i <= h + said[h][2]
       /\ Cardinality(ends) <= 1
       /\ \A e \in ends : /\ \A i \in at("octet") : i < e
                          /\ ~Is(said[e], "reset") => Len(octets) = Whole
=============================================================================
