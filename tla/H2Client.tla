------------------------------ MODULE H2Client ------------------------------
(***************************************************************************)
(* One client connection of ngnet-h2's asynchronous layer                  *)
(* (crates/ngnet-h2/src/http): the request handles, the response futures   *)
(* and bodies the application holds, the structures they share with the    *)
(* driver (shared.rs) and the driver task (driver.rs, client.rs).          *)
(*                                                                         *)
(* Application threads, the driver task and the peer interleave freely.    *)
(* An application operation is a sequence of steps, one per lock it takes  *)
(* and one for the wake that follows; a driver pass is the sequence of     *)
(* steps of `run`.  The driver is a task: it runs when polled, and once    *)
(* parked it is polled again only after a wake (`notified`).  The HTTP/2   *)
(* session (libnghttp2) is reduced to what the layer sees of it: which     *)
(* streams are open, which frames it reports, how much receive window has  *)
(* not been given back.  A write that has to wait is a delay of Flush.     *)
(*                                                                         *)
(* Left out: the octets of frames, header validation other than "this head *)
(* is malformed", informational heads, trailers, and the choice between    *)
(* the write paths (coalesced, gathered, owned), which move the same       *)
(* frames.                                                                 *)
(***************************************************************************)
EXTENDS Integers, Sequences, FiniteSets, Functions

CONSTANTS
    Requests,       \* calls of SendRequest::send_request, each on its own clone
    ReadAhead,      \* READ_AHEAD: received buffers held before reading pauses
    Window,         \* receive window of a stream, in chunks
    Scenes          \* what a behaviour may consist of, one record each (see Scene)

\* calls: the requests that are made; uploads: those whose body is not ready at
\* once; data: bound on the chunks the peer has for one response; moves: what the
\* application, the peer and the transport may do besides what they must.
Scene == [calls : SUBSET Requests, uploads : SUBSET Requests, data : Nat,
          moves : SUBSET {"drop", "forget", "shutdown", "abort", "invalid", "goaway",
                          "reset", "badhead", "garbage", "eof", "upload error",
                          "write error"}]

ASSUME H2Assumption ==
    /\ IsFiniteSet(Requests)
    /\ ReadAhead \in Nat \ {0}
    /\ Window \in Nat \ {0}
    /\ Scenes \subseteq Scene
    /\ \A s \in Scenes : s.uploads \subseteq s.calls

VARIABLES
    \* the application's side of each request
    pc,         \* where its thread is
    unread,     \* octets its body drop has yet to credit
    result,     \* what it was told in the end
    up,         \* its outgoing body as the session knows it
    prod,       \* the producer of that body: "idle", "wake", "done"
    clones,     \* requests whose SendRequest clone is alive
    token,      \* HandleToken: "held", "dropping" (count zero, wake owed), "gone"
    shutter,    \* one call of SendRequest::shutdown: "idle", "wake", "done"
    \* Slot and Incoming of each request
    slot,       \* "open", "head", or the error it was failed with
    abandoned,  \* requests whose future was dropped before the slot settled
    bodyAt,     \* where the IncomingBody is: "none", "slot", "caller", "gone"
    chunks,     \* chunks queued in Incoming
    finished,   \* requests whose Incoming is finished
    failed,     \* requests whose Incoming holds or has reported an error
    unwanted,   \* requests whose Incoming is abandoned
    \* Shared and Queue
    queue, credits, resets, ready, shutdown, refusing, gone, notified,
    \* the driver task
    drv,        \* where its pass is
    parkAt,     \* how far the park predicate has been evaluated
    batch,      \* commands drained by this pass and not yet acted on
    events,     \* Events::list
    inbox, reader, intake, fed,
    ended,      \* why the driver ended
    registry,   \* streams it tracks
    \* the session
    str,        \* each stream: none, queued, open, rst (reset submitted), closed
    sid,        \* stream identifiers, in order of submission; 0 before
    rended,     \* streams whose remote half has ended
    resumed,    \* deferred bodies the session will consult again
    barred,     \* the session has received a GOAWAY and sends no new request
    owed,       \* chunks received on each stream whose window is not given back
    \* the peer and the wire
    peer,       \* each stream: none, arrived, acting, headed, ended, reset
    sent,       \* data chunks the peer has sent on each stream
    last,       \* the last stream its GOAWAY named, -1 before
    wire,       \* frames on their way here
    scene       \* the member of Scenes that this behaviour plays

appVars  == <<pc, unread, result, up, prod, clones, token, shutter>>
slotVars == <<slot, abandoned, bodyAt>>
inVars   == <<chunks, finished, failed, unwanted>>
flagVars == <<shutdown, refusing, gone>>
setVars  == <<credits, resets, ready>>
drvVars  == <<drv, parkAt, batch, fed>>
readVars == <<inbox, reader, intake>>
sessVars == <<str, sid, rended, resumed, barred, owed>>
peerVars == <<peer, sent, last, scene>>
vars == <<pc, unread, result, up, prod, clones, token, shutter, slot, abandoned,
          bodyAt, chunks, finished, failed, unwanted, queue, credits, resets,
          ready, shutdown, refusing, gone, notified, drv, parkAt, batch, events,
          inbox, reader, intake, fed, ended, registry, str, sid, rended,
          resumed, barred, owed, peer, sent, last, wire, scene>>

Uploads == scene.uploads
MaxData == scene.data
Moves   == scene.moves

-----------------------------------------------------------------------------
SendPcs == {"refusing", "push", "pushwake", "recheck"}
\* Dropping a body: c the message had ended when looked at, i it had not.
DropPcs == {"abandon_c", "abandon_i", "credit_c", "credit_i", "wake_c",
            "wake_i", "reset_i", "resetwake_i"}
Pcs == SendPcs \union DropPcs \union
       {"idle", "unsent", "await", "unlinked", "reset", "resetwake", "body",
        "credit", "wake", "done"}
Errors == {"closed", "refused", "stream", "protocol"}
DriverPcs == {"unpolled", "advance", "check", "bind", "credits", "resets",
              "shutdown", "ready", "feed", "dispatch", "flush", "dispatch2",
              "intake", "quiet", "park", "parked", "fail", "abandon", "over"}
\* What the session's handlers observe.  One call of the session may close
\* several streams: `rs`.
Events == [k : {"head", "badhead", "data", "end"}, r : Requests]
            \union [k : {"goaway"}, last : Nat]
            \union [k : {"close"}, rs : SUBSET Requests]
Frames == [k : {"head", "badhead", "data", "end", "rst"}, r : Requests]
            \union [k : {"goaway"}, last : Nat]
            \union [k : {"garbage", "eof"}]

TypeOK ==
    /\ pc \in [Requests -> Pcs]
    /\ unread \in [Requests -> Nat]
    /\ result \in [Requests -> Errors \union {"none", "ok", "truncated", "dropped"}]
    /\ up \in [Requests -> {"none", "deferred", "eof", "failed"}]
    /\ prod \in [Requests -> {"idle", "wake", "done"}]
    /\ clones \subseteq Requests
    /\ token \in {"held", "dropping", "gone"}
    /\ shutter \in {"idle", "wake", "done"}
    /\ slot \in [Requests -> Errors \union {"open", "head"}]
    /\ bodyAt \in [Requests -> {"none", "slot", "caller", "gone"}]
    /\ chunks \in [Requests -> Nat]
    /\ abandoned \subseteq Requests /\ finished \subseteq Requests
    /\ failed \subseteq Requests /\ unwanted \subseteq Requests
    /\ queue \in Seq(Requests) /\ batch \in Seq(Requests)
    /\ credits \in [Requests -> Nat]
    /\ resets \subseteq Requests /\ ready \subseteq Requests
    /\ shutdown \in BOOLEAN /\ refusing \in BOOLEAN /\ gone \in BOOLEAN
    /\ notified \in BOOLEAN /\ fed \in BOOLEAN /\ intake \in BOOLEAN
    /\ drv \in DriverPcs
    /\ parkAt \in 1..6
    /\ events \in Seq(Events)
    /\ inbox \in Seq(Frames) /\ Len(inbox) <= ReadAhead
    /\ reader \in {"armed", "full", "ended"}
    /\ ended \in {"no", "quiet", "eof", "error", "dropped"}
    /\ registry \subseteq Requests
    /\ str \in [Requests -> {"none", "queued", "open", "rst", "closed"}]
    /\ sid \in [Requests -> Nat]
    /\ rended \subseteq Requests /\ resumed \subseteq Requests
    /\ barred \in BOOLEAN
    /\ owed \in [Requests -> Nat]
    /\ peer \in [Requests -> {"none", "arrived", "acting", "headed", "ended", "reset"}]
    /\ sent \in [Requests -> 0..MaxData]
    /\ last \in Int
    /\ wire \in Seq(Frames)

Init ==
    /\ scene \in Scenes
    /\ pc = [r \in Requests |-> IF r \in scene.calls THEN "idle" ELSE "unsent"]
    /\ unread = [r \in Requests |-> 0]
    /\ result = [r \in Requests |-> "none"]
    /\ up = [r \in Requests |-> "none"]
    /\ prod = [r \in Requests |-> "idle"]
    /\ clones = scene.calls
    /\ token = "held"
    /\ shutter = "idle"
    /\ slot = [r \in Requests |-> "open"]
    /\ bodyAt = [r \in Requests |-> "none"]
    /\ chunks = [r \in Requests |-> 0]
    /\ abandoned = {} /\ finished = {} /\ failed = {} /\ unwanted = {}
    /\ queue = <<>> /\ batch = <<>>
    /\ credits = [r \in Requests |-> 0]
    /\ resets = {} /\ ready = {}
    /\ shutdown = FALSE /\ refusing = FALSE /\ gone = FALSE
    /\ notified = FALSE /\ fed = FALSE /\ intake = FALSE
    /\ drv = "unpolled"
    /\ parkAt = 1
    /\ events = <<>> /\ inbox = <<>> /\ wire = <<>>
    /\ reader = "full"
    /\ ended = "no"
    /\ registry = {}
    /\ str = [r \in Requests |-> "none"]
    /\ sid = [r \in Requests |-> 0]
    /\ rended = {} /\ resumed = {}
    /\ barred = FALSE
    /\ owed = [r \in Requests |-> 0]
    /\ peer = [r \in Requests |-> "none"]
    /\ sent = [r \in Requests |-> 0]
    /\ last = -1

-----------------------------------------------------------------------------
(* Shared helpers                                                          *)

Goto(r, where) == pc' = [pc EXCEPT ![r] = where]

\* Shared::wake_driver: a no-op until the driver's first poll has left a waker.
WakeDriver == notified' = (notified \/ drv # "unpolled")

\* Slot::fail on each of a set: the first settlement stands.
FailSlots(rs, error) ==
    slot' = [r \in Requests |->
                IF r \in rs /\ slot[r] = "open" THEN error ELSE slot[r]]

\* Mutant: a message that has ended is failed as well.
FailIncoming_Always(rs) == failed' = failed \union rs

\* Incoming::fail on each of a set: a message that has ended stays ended.
FailIncoming(rs) == failed' = failed \union (rs \ finished)

\* IncomingBody::drop of bodies nobody but the slot held, whose message has
\* ended one way or the other: what is queued becomes credit.
DropSlotBodies(rs) ==
    /\ bodyAt' = [r \in Requests |-> IF r \in rs THEN "gone" ELSE bodyAt[r]]
    /\ unwanted' = unwanted \union rs
    /\ chunks' = [r \in Requests |-> IF r \in rs THEN 0 ELSE chunks[r]]
    /\ credits' = [r \in Requests |->
                      IF r \in rs THEN credits[r] + chunks[r] ELSE credits[r]]

\* Bodies in slots that only the registry still refers to.
Orphans(rs) == {r \in rs : bodyAt[r] = "slot" /\ result[r] = "dropped"}

-----------------------------------------------------------------------------
(* SendRequest::send_request                                               *)

\* is_gone: the future is born failed and has nothing to wake.
SendStart(r) ==
    /\ pc[r] = "idle"
    /\ IF gone
         THEN FailSlots({r}, "closed") /\ Goto(r, "unlinked")
         ELSE Goto(r, "refusing") /\ UNCHANGED slot
    /\ UNCHANGED <<unread, result, up, prod, clones, token, shutter, abandoned, bodyAt,
                   inVars, queue, setVars, flagVars, notified, drvVars, events,
                   readVars, ended, registry, sessVars, peerVars, wire>>

\* is_refusing: likewise, with the one error a caller may retry.
SendRefusing(r) ==
    /\ pc[r] = "refusing"
    /\ IF refusing
         THEN FailSlots({r}, "refused") /\ Goto(r, "unlinked")
         ELSE Goto(r, "push") /\ UNCHANGED slot
    /\ UNCHANGED <<unread, result, up, prod, clones, token, shutter, abandoned, bodyAt,
                   inVars, queue, setVars, flagVars, notified, drvVars, events,
                   readVars, ended, registry, sessVars, peerVars, wire>>

\* Queue::push.
SendPush(r) ==
    /\ pc[r] = "push"
    /\ queue' = Append(queue, r)
    /\ Goto(r, "pushwake")
    /\ UNCHANGED <<unread, result, up, prod, clones, token, shutter, slotVars, inVars,
                   setVars, flagVars, notified, drvVars, events, readVars, ended,
                   registry, sessVars, peerVars, wire>>

SendWake(r) ==
    /\ pc[r] = "pushwake"
    /\ WakeDriver
    /\ Goto(r, "recheck")
    /\ UNCHANGED <<unread, result, up, prod, clones, token, shutter, slotVars, inVars,
                   queue, setVars, flagVars, drvVars, events, readVars, ended,
                   registry, sessVars, peerVars, wire>>

\* The driver may have gone between the check and the push: fail what it left.
SendRecheck(r) ==
    /\ pc[r] = "recheck"
    /\ IF gone
         THEN queue' = <<>> /\ FailSlots(Range(queue), "closed")
         ELSE UNCHANGED <<queue, slot>>
    /\ Goto(r, "await")
    /\ UNCHANGED <<unread, result, up, prod, clones, token, shutter, abandoned, bodyAt,
                   inVars, setVars, flagVars, notified, drvVars, events,
                   readVars, ended, registry, sessVars, peerVars, wire>>

\* The clone is dropped, used or not; "forget": while its request still runs.
DropClone(r) ==
    /\ r \in clones
    /\ pc[r] \in {"idle", "done"} \/ ("forget" \in Moves /\ pc[r] \notin SendPcs)
    /\ clones' = clones \ {r}
    /\ token' = IF clones = {r} THEN "dropping" ELSE token
    /\ IF pc[r] = "idle" THEN Goto(r, "unsent") ELSE UNCHANGED pc
    /\ UNCHANGED <<unread, result, up, prod, shutter, slotVars, inVars, queue, setVars,
                   flagVars, notified, drvVars, events, readVars, ended,
                   registry, sessVars, peerVars, wire>>

\* HandleToken::drop, after the strong count has reached zero.
TokenDrop ==
    /\ token = "dropping"
    /\ token' = "gone"
    /\ WakeDriver
    /\ UNCHANGED <<pc, unread, result, up, prod, clones, shutter, slotVars, inVars,
                   queue, setVars, flagVars, drvVars, events, readVars, ended,
                   registry, sessVars, peerVars, wire>>

\* SendRequest::shutdown: request_shutdown, then the wake.
Shutdown ==
    /\ "shutdown" \in Moves
    /\ shutter = "idle" /\ clones # {}
    /\ shutter' = "wake"
    /\ refusing' = TRUE /\ shutdown' = TRUE
    /\ UNCHANGED <<pc, unread, result, up, prod, clones, token, slotVars, inVars,
                   queue, setVars, gone, notified, drvVars, events, readVars,
                   ended, registry, sessVars, peerVars, wire>>

ShutdownWake ==
    /\ shutter = "wake"
    /\ shutter' = "done"
    /\ WakeDriver
    /\ UNCHANGED <<pc, unread, result, up, prod, clones, token, slotVars, inVars,
                   queue, setVars, flagVars, drvVars, events, readVars, ended,
                   registry, sessVars, peerVars, wire>>

-----------------------------------------------------------------------------
(* ResponseFuture                                                          *)

\* poll: Slot::poll hands over the head or the error.  The future goes with its
\* answer, and its drop wakes the driver for nothing; a caller may also keep it.
PollFuture(r) ==
    /\ pc[r] \in {"await", "unlinked"} /\ slot[r] # "open"
    /\ IF slot[r] = "head"
         THEN /\ bodyAt' = [bodyAt EXCEPT ![r] = "caller"]
              /\ Goto(r, "body")
              /\ UNCHANGED result
         ELSE /\ result' = [result EXCEPT ![r] = slot[r]]
              /\ Goto(r, "done")
              /\ UNCHANGED bodyAt
    /\ \/ UNCHANGED notified
       \/ pc[r] = "await" /\ WakeDriver
    /\ UNCHANGED <<unread, up, prod, clones, token, shutter, slot, abandoned,
                   inVars, queue, setVars, flagVars, drvVars, events, readVars,
                   ended, registry, sessVars, peerVars, wire>>

\* drop before it resolved.  Slot::cancel marks an unsettled slot and names its
\* stream if it has one; a settled slot is left as it is, and a head still in
\* it goes with the slot's last owner.
DropFuture(r) ==
    /\ "drop" \in Moves
    /\ pc[r] = "await"
    /\ result' = [result EXCEPT ![r] = "dropped"]
    /\ \/ /\ slot[r] = "open"
          /\ abandoned' = abandoned \union {r}
          /\ Goto(r, IF sid[r] > 0 THEN "reset" ELSE "resetwake")
          /\ UNCHANGED <<bodyAt, unwanted, chunks, credits>>
       \/ /\ slot[r] # "open"
          /\ DropSlotBodies(IF bodyAt[r] = "slot" /\ r \notin registry
                               THEN {r} ELSE {})
          /\ Goto(r, "resetwake")
          /\ UNCHANGED abandoned
    /\ UNCHANGED <<unread, up, prod, clones, token, shutter, slot, finished, failed,
                   queue, resets, ready, flagVars, notified, drvVars, events,
                   readVars, ended, registry, sessVars, peerVars, wire>>

\* Shared::reset, asked for by a dropped future.
FutureReset(r) ==
    /\ pc[r] = "reset"
    /\ resets' = resets \union {r}
    /\ Goto(r, "resetwake")
    /\ UNCHANGED <<unread, result, up, prod, clones, token, shutter, slotVars, inVars,
                   queue, credits, ready, flagVars, notified, drvVars, events,
                   readVars, ended, registry, sessVars, peerVars, wire>>

FutureWake(r) ==
    /\ pc[r] = "resetwake"
    /\ WakeDriver
    /\ Goto(r, "done")
    /\ UNCHANGED <<unread, result, up, prod, clones, token, shutter, slotVars, inVars,
                   queue, setVars, flagVars, drvVars, events, readVars, ended,
                   registry, sessVars, peerVars, wire>>

-----------------------------------------------------------------------------
(* IncomingBody                                                            *)

\* poll_frame takes a chunk out of Incoming ...
ReadChunk(r) ==
    /\ pc[r] = "body" /\ chunks[r] > 0
    /\ chunks' = [chunks EXCEPT ![r] = @ - 1]
    /\ Goto(r, "credit")
    /\ UNCHANGED <<unread, result, up, prod, clones, token, shutter, slotVars,
                   finished, failed, unwanted, queue, setVars, flagVars,
                   notified, drvVars, events, readVars, ended, registry,
                   sessVars, peerVars, wire>>

\* ... then reports it consumed ...
ReadCredit(r) ==
    /\ pc[r] = "credit"
    /\ credits' = [credits EXCEPT ![r] = @ + 1]
    /\ Goto(r, "wake")
    /\ UNCHANGED <<unread, result, up, prod, clones, token, shutter, slotVars, inVars,
                   queue, resets, ready, flagVars, notified, drvVars, events,
                   readVars, ended, registry, sessVars, peerVars, wire>>

\* ... then wakes the driver to give the window back.
ReadWake(r) ==
    /\ pc[r] = "wake"
    /\ WakeDriver
    /\ Goto(r, "body")
    /\ UNCHANGED <<unread, result, up, prod, clones, token, shutter, slotVars, inVars,
                   queue, setVars, flagVars, drvVars, events, readVars, ended,
                   registry, sessVars, peerVars, wire>>

\* Everything read: the end, or the error that took its place.
ReadEnd(r) ==
    /\ pc[r] = "body" /\ chunks[r] = 0 /\ result[r] = "none"
    /\ r \in finished \union failed
    /\ result' = [result EXCEPT ![r] = IF r \in failed THEN "truncated" ELSE "ok"]
    /\ UNCHANGED <<pc, unread, up, prod, clones, token, shutter, slotVars, inVars,
                   queue, setVars, flagVars, notified, drvVars, events, readVars,
                   ended, registry, sessVars, peerVars, wire>>

\* drop, at any time: is the message over?  An error that was read is gone.
DropBody(r) ==
    /\ pc[r] = "body"
    /\ result[r] # "none" \/ "drop" \in Moves
    /\ Goto(r, IF r \in finished \/ (r \in failed /\ result[r] # "truncated")
                  THEN "abandon_c" ELSE "abandon_i")
    /\ UNCHANGED <<unread, result, up, prod, clones, token, shutter, slotVars, inVars,
                   queue, setVars, flagVars, notified, drvVars, events, readVars,
                   ended, registry, sessVars, peerVars, wire>>

\* Incoming::abandon: what was queued is to be credited.
DropAbandon(r) ==
    /\ pc[r] \in {"abandon_c", "abandon_i"}
    /\ unwanted' = unwanted \union {r}
    /\ unread' = [unread EXCEPT ![r] = chunks[r]]
    /\ chunks' = [chunks EXCEPT ![r] = 0]
    /\ bodyAt' = [bodyAt EXCEPT ![r] = "gone"]
    /\ Goto(r, CASE chunks[r] > 0 /\ pc[r] = "abandon_c" -> "credit_c"
                 [] chunks[r] > 0 /\ pc[r] = "abandon_i" -> "credit_i"
                 [] chunks[r] = 0 /\ pc[r] = "abandon_c" -> "done"
                 [] chunks[r] = 0 /\ pc[r] = "abandon_i" -> "reset_i")
    /\ UNCHANGED <<result, up, prod, clones, token, shutter, slot, abandoned, finished,
                   failed, queue, setVars, flagVars, notified, drvVars, events,
                   readVars, ended, registry, sessVars, peerVars, wire>>

DropCredit(r) ==
    /\ pc[r] \in {"credit_c", "credit_i"}
    /\ credits' = [credits EXCEPT ![r] = @ + unread[r]]
    /\ unread' = [unread EXCEPT ![r] = 0]
    /\ Goto(r, IF pc[r] = "credit_c" THEN "wake_c" ELSE "wake_i")
    /\ UNCHANGED <<result, up, prod, clones, token, shutter, slotVars, inVars, queue,
                   resets, ready, flagVars, notified, drvVars, events, readVars,
                   ended, registry, sessVars, peerVars, wire>>

DropWake(r) ==
    /\ pc[r] \in {"wake_c", "wake_i", "resetwake_i"}
    /\ WakeDriver
    /\ Goto(r, IF pc[r] = "wake_i" THEN "reset_i" ELSE "done")
    /\ UNCHANGED <<unread, result, up, prod, clones, token, shutter, slotVars, inVars,
                   queue, setVars, flagVars, drvVars, events, readVars, ended,
                   registry, sessVars, peerVars, wire>>

\* A response that had not ended is also reset.
DropReset(r) ==
    /\ pc[r] = "reset_i"
    /\ resets' = resets \union {r}
    /\ Goto(r, "resetwake_i")
    /\ UNCHANGED <<unread, result, up, prod, clones, token, shutter, slotVars, inVars,
                   queue, credits, ready, flagVars, notified, drvVars, events,
                   readVars, ended, registry, sessVars, peerVars, wire>>

-----------------------------------------------------------------------------
(* The request body's own waker (StreamWaker)                              *)

\* The body has something to send: mark_ready, if the stream is still tracked.
Produce(r) ==
    /\ up[r] = "deferred" /\ prod[r] = "idle"
    /\ IF r \in registry
         THEN ready' = ready \union {r} /\ prod' = [prod EXCEPT ![r] = "wake"]
         ELSE UNCHANGED ready /\ prod' = [prod EXCEPT ![r] = "done"]
    /\ UNCHANGED <<pc, unread, result, up, clones, token, shutter, slotVars,
                   inVars, queue, credits, resets, flagVars, notified, drvVars,
                   events, readVars, ended, registry, sessVars, peerVars, wire>>

ProduceWake(r) ==
    /\ prod[r] = "wake"
    /\ prod' = [prod EXCEPT ![r] = "done"]
    /\ WakeDriver
    /\ UNCHANGED <<pc, unread, result, up, clones, token, shutter, slotVars,
                   inVars, queue, setVars, flagVars, drvVars, events, readVars,
                   ended, registry, sessVars, peerVars, wire>>

-----------------------------------------------------------------------------
(* The driver task: polls                                                  *)

\* The reading half, polled first: it reads while the inbox has room and the
\* transport has octets, and each buffer it posts wakes the task again.
Read ==
    LET room == IF reader = "ended" THEN 0 ELSE ReadAhead - Len(inbox)
        n == CHOOSE n \in 0..room :
                /\ n <= Len(wire)
                /\ \A i \in 1..n : wire[i].k # "eof"
                /\ \/ n = room \/ n = Len(wire)
                   \/ wire[n + 1].k = "eof"
        eof == n < room /\ n < Len(wire)
    IN  /\ inbox' = inbox \o SubSeq(wire, 1, n)
        /\ wire' = SubSeq(wire, n + 1, Len(wire))
        /\ intake' = (intake \/ eof)
        /\ reader' = CASE eof -> "ended"
                       [] ~eof /\ reader # "ended" /\ n = room -> "full"
                       [] ~eof /\ reader # "ended" /\ n < room -> "armed"
                       [] ~eof /\ reader = "ended" -> "ended"
        /\ notified' = (n > 0 \/ eof)

\* The first poll leaves the waker and starts the first pass.
FirstPoll ==
    /\ drv = "unpolled"
    /\ drv' = "advance"
    /\ Read
    /\ UNCHANGED <<appVars, slotVars, inVars, queue, setVars, flagVars, parkAt,
                   batch, fed, events, ended, registry, sessVars, peerVars>>

\* A woken task: the park predicate is evaluated again.
Poll ==
    /\ drv = "parked" /\ notified
    /\ drv' = "park"
    /\ parkAt' = 1
    /\ Read
    /\ UNCHANGED <<appVars, slotVars, inVars, queue, setVars, flagVars, batch,
                   fed, events, ended, registry, sessVars, peerVars>>

\* A poll that finds the write of this pass still waiting: only the reading
\* half moves, and the wakes that arrived are spent.
PollWriting ==
    /\ drv = "flush"
    /\ notified \/ wire # <<>>
    /\ Read
    /\ UNCHANGED <<appVars, slotVars, inVars, queue, setVars, flagVars, drvVars,
                   events, ended, registry, sessVars, peerVars>>

-----------------------------------------------------------------------------
(* A pass: the handles' commands                                           *)

\* ClientRole::advance drains the queue ...
AdvanceTake ==
    /\ drv = "advance"
    /\ batch' = queue /\ queue' = <<>>
    /\ drv' = IF queue = <<>> THEN "credits" ELSE "check"
    /\ UNCHANGED <<appVars, slotVars, inVars, setVars, flagVars, notified,
                   parkAt, fed, events, readVars, ended, registry, sessVars,
                   peerVars, wire>>

\* ... and skips a command whose future is already gone.
AdvanceCheck ==
    /\ drv = "check"
    /\ IF Head(batch) \in abandoned
         THEN /\ batch' = Tail(batch)
              /\ drv' = IF Tail(batch) = <<>> THEN "credits" ELSE "check"
         ELSE drv' = "bind" /\ UNCHANGED batch
    /\ UNCHANGED <<appVars, slotVars, inVars, queue, setVars, flagVars, notified,
                   parkAt, fed, events, readVars, ended, registry, sessVars,
                   peerVars, wire>>

NextSid == 1 + Cardinality({r \in Requests : sid[r] > 0})

\* Mutant: bind's answer is not looked at.
AdvanceBind_Deaf ==
    LET r == Head(batch)
    IN  /\ drv = "bind"
        /\ batch' = Tail(batch)
        /\ drv' = IF Tail(batch) = <<>> THEN "credits" ELSE "check"
        /\ sid' = [sid EXCEPT ![r] = NextSid]
        /\ str' = [str EXCEPT ![r] = "queued"]
        /\ registry' = registry \union {r}
        /\ UNCHANGED <<appVars, slotVars, inVars, queue, setVars, flagVars,
                       notified, parkAt, fed, events, readVars, ended, rended,
                       resumed, barred, owed, peerVars, wire>>

\* ClientRole::submit.  A request the session will not take fails alone.  The
\* others get their stream; bind tells of a future dropped meanwhile, whose
\* stream is reset before anything of it was sent.
AdvanceBind ==
    LET r == Head(batch)
    IN  /\ drv = "bind"
        /\ batch' = Tail(batch)
        /\ drv' = IF Tail(batch) = <<>> THEN "credits" ELSE "check"
        /\ \/ /\ "invalid" \in Moves
              /\ FailSlots({r}, "protocol")
              /\ UNCHANGED <<sid, str, registry>>
           \/ /\ sid' = [sid EXCEPT ![r] = NextSid]
              /\ str' = [str EXCEPT ![r] = IF r \in abandoned THEN "rst" ELSE "queued"]
              /\ registry' = registry \union {r}
              /\ UNCHANGED slot
        /\ UNCHANGED <<appVars, abandoned, bodyAt, inVars, queue, setVars,
                       flagVars, notified, parkAt, fed, events, readVars, ended,
                       rended, resumed, barred, owed, peerVars, wire>>

\* take_credits_into: the window the application has finished with.
TakeCredits ==
    /\ drv = "credits"
    /\ drv' = "resets"
    /\ owed' = [r \in Requests |-> owed[r] - credits[r]]
    /\ credits' = [r \in Requests |-> 0]
    /\ UNCHANGED <<appVars, slotVars, inVars, queue, resets, ready, flagVars,
                   notified, parkAt, batch, fed, events, readVars, ended,
                   registry, str, sid, rended, resumed, barred, peerVars, wire>>

\* take_resets_into: a reset is submitted for the streams the session has.  It
\* has none for a request whose HEADERS it has not sent: stream_is_open is false.
TakeResets ==
    /\ drv = "resets"
    /\ drv' = "shutdown"
    /\ str' = [r \in Requests |->
                  IF r \in resets /\ str[r] = "open" THEN "rst" ELSE str[r]]
    /\ resets' = {}
    /\ UNCHANGED <<appVars, slotVars, inVars, queue, credits, ready, flagVars,
                   notified, parkAt, batch, fed, events, readVars, ended,
                   registry, sid, rended, resumed, barred, owed, peerVars, wire>>

\* take_shutdown: this end's GOAWAY names stream 0 and stops none of its own.
TakeShutdown ==
    /\ drv = "shutdown"
    /\ drv' = "ready"
    /\ shutdown' = FALSE
    /\ UNCHANGED <<appVars, slotVars, inVars, queue, setVars, refusing, gone,
                   notified, parkAt, batch, fed, events, readVars, ended,
                   registry, sessVars, peerVars, wire>>

\* take_ready_into: resume_body, which a stream that is gone ignores.
TakeReady ==
    /\ drv = "ready"
    /\ drv' = "feed"
    /\ resumed' = resumed \union {r \in ready : str[r] = "open" /\ up[r] = "deferred"}
    /\ ready' = {}
    /\ fed' = FALSE
    /\ UNCHANGED <<appVars, slotVars, inVars, queue, credits, resets, flagVars,
                   notified, parkAt, batch, events, readVars, ended, registry,
                   str, sid, rended, barred, owed, peerVars, wire>>

-----------------------------------------------------------------------------
(* A pass: what the peer sent                                              *)

\* Session::recv and the handlers of `observing`, for one buffer.  A stream the
\* session does not have, or has a reset pending for, receives nothing.
Observe(f) ==
    LET closed == CASE f.k = "end" /\ str[f.r] = "open" /\ up[f.r] = "eof" -> {f.r}
                    [] f.k = "rst" /\ str[f.r] \in {"open", "rst"} -> {f.r}
                    [] f.k = "goaway" -> {r \in Requests : /\ str[r] \in {"open", "rst"}
                                                           /\ sid[r] > f.last}
                    [] OTHER -> {}
        seen == CASE f.k \in {"head", "badhead", "data", "end"} /\ str[f.r] = "open" -> <<f>>
                  [] f.k = "goaway" -> <<f>>
                  [] OTHER -> <<>>
    IN  /\ events' = events \o seen \o
                        (IF closed = {} THEN <<>> ELSE <<[k |-> "close", rs |-> closed]>>)
        /\ str' = [r \in Requests |-> IF r \in closed THEN "closed" ELSE str[r]]
        /\ rended' = rended \union {r \in Requests : f.k = "end" /\ seen # <<>> /\ f.r = r}
        /\ owed' = [r \in Requests |->
                       IF f.k = "data" /\ seen # <<>> /\ f.r = r THEN owed[r] + 1 ELSE owed[r]]
        /\ barred' = (barred \/ f.k = "goaway")

FeedOne ==
    /\ drv = "feed" /\ inbox # <<>>
    /\ Head(inbox).k # "garbage"
    /\ Observe(Head(inbox))
    /\ inbox' = Tail(inbox)
    /\ fed' = TRUE
    /\ UNCHANGED <<appVars, slotVars, inVars, queue, setVars, flagVars, notified,
                   drv, parkAt, batch, reader, intake, ended, registry, sid,
                   resumed, peerVars, wire>>

\* Octets that are not HTTP/2: recv fails, and with it the driver.
FeedGarbage ==
    /\ drv = "feed" /\ inbox # <<>>
    /\ Head(inbox).k = "garbage"
    /\ drv' = "fail" /\ ended' = "error" /\ gone' = TRUE
    /\ UNCHANGED <<appVars, slotVars, inVars, queue, setVars, shutdown, refusing,
                   notified, parkAt, batch, fed, events, readVars, registry,
                   sessVars, peerVars, wire>>

\* The inbox is empty: the reading half may have been waiting for room.
FeedDone ==
    /\ drv = "feed" /\ inbox = <<>>
    /\ drv' = "dispatch"
    /\ IF fed THEN WakeDriver ELSE UNCHANGED notified
    /\ UNCHANGED <<appVars, slotVars, inVars, queue, setVars, flagVars, parkAt,
                   batch, fed, events, readVars, ended, registry, sessVars,
                   peerVars, wire>>

-----------------------------------------------------------------------------
(* A pass: dispatch                                                        *)

\* A message head: complete the slot, with a body in it.  A malformed one fails
\* the exchange, gives back the window of what is queued and resets the stream.
\* Heads come only for tracked streams (RegistryFollowsSession).
DispatchHead(e) ==
    /\ e.k = "head" /\ e.r \in registry
    /\ IF slot[e.r] = "open"
         THEN /\ slot' = [slot EXCEPT ![e.r] = "head"]
              /\ bodyAt' = [bodyAt EXCEPT ![e.r] = "slot"]
         ELSE UNCHANGED <<slot, bodyAt>>
    /\ UNCHANGED <<inVars, refusing, credits, notified, registry, owed, str>>

DispatchBadHead(e) ==
    /\ e.k = "badhead" /\ e.r \in registry
    /\ FailSlots({e.r}, "protocol")
    /\ FailIncoming({e.r})
    /\ unwanted' = unwanted \union {e.r}
    /\ owed' = [owed EXCEPT ![e.r] = @ - chunks[e.r]]
    /\ chunks' = [chunks EXCEPT ![e.r] = 0]
    /\ str' = [str EXCEPT ![e.r] = IF @ = "open" THEN "rst" ELSE @]
    /\ UNCHANGED <<bodyAt, finished, refusing, credits, notified, registry>>

\* Mutant: payload for a dropped body is thrown away with its window.
DispatchData_Hold(e) ==
    /\ e.k = "data"
    /\ IF e.r \in registry \ unwanted
         THEN chunks' = [chunks EXCEPT ![e.r] = @ + 1]
         ELSE UNCHANGED chunks
    /\ UNCHANGED <<slot, bodyAt, finished, failed, unwanted, refusing, credits,
                   notified, registry, str, owed>>

\* Payload nobody will read is consumed on the spot.
DispatchData(e) ==
    /\ e.k = "data"
    /\ IF e.r \in registry \ unwanted
         THEN chunks' = [chunks EXCEPT ![e.r] = @ + 1] /\ UNCHANGED owed
         ELSE owed' = [owed EXCEPT ![e.r] = @ - 1] /\ UNCHANGED chunks
    /\ UNCHANGED <<slot, bodyAt, finished, failed, unwanted, refusing, credits,
                   notified, registry, str>>

DispatchEnd(e) ==
    /\ e.k = "end"
    /\ finished' = finished \union ({e.r} \intersect registry)
    /\ UNCHANGED <<slot, bodyAt, chunks, failed, unwanted, refusing, credits,
                   notified, registry, str, owed>>

\* Entries leave the registry: their slots and messages are failed, and a body
\* nobody collected is dropped with the last reference to its slot.
Remove(rs, error) ==
    LET orphans == Orphans(rs)
    IN  /\ registry' = registry \ rs
        /\ FailSlots(rs, error)
        /\ FailIncoming(rs)
        /\ DropSlotBodies(orphans)
        /\ notified' = (notified \/ \E r \in orphans : chunks[r] > 0)

\* The peer is going away: what it says it never began may be retried.
DispatchGoaway(e) ==
    /\ e.k = "goaway"
    /\ refusing' = TRUE
    /\ Remove({r \in registry : sid[r] > e.last}, "refused")
    /\ UNCHANGED <<finished, str, owed>>

DispatchClose(e) ==
    /\ e.k = "close"
    /\ Remove(e.rs \intersect registry, "stream")
    /\ UNCHANGED <<finished, refusing, str, owed>>

\* `dispatch`, before and after the flush, one event at a time.
DispatchOne ==
    /\ drv \in {"dispatch", "dispatch2"} /\ events # <<>>
    /\ LET e == Head(events)
       IN  \/ DispatchHead(e) \/ DispatchBadHead(e) \/ DispatchData(e)
           \/ DispatchEnd(e) \/ DispatchGoaway(e) \/ DispatchClose(e)
    /\ events' = Tail(events)
    /\ UNCHANGED <<appVars, abandoned, queue, resets, ready, shutdown, gone,
                   drvVars, readVars, ended, sid, rended, resumed, barred,
                   peerVars, wire>>

DispatchDone ==
    /\ drv \in {"dispatch", "dispatch2"} /\ events = <<>>
    /\ drv' = IF drv = "dispatch" THEN "flush" ELSE "intake"
    /\ UNCHANGED <<appVars, slotVars, inVars, queue, setVars, flagVars, notified,
                   parkAt, batch, fed, events, readVars, ended, registry,
                   sessVars, peerVars, wire>>

-----------------------------------------------------------------------------
(* A pass: the write, and what follows it                                  *)

\* The streams a flush takes to the wire, ends or cancels.
Unsendable == {r \in Requests : str[r] = "queued" /\ barred}
Sendable   == {r \in Requests : str[r] = "queued" /\ ~barred}
Resets     == {r \in Requests : str[r] = "rst"}

\* Everything the session has to say is written.  Queued requests open, unless
\* a GOAWAY has been received, which closes them unsent; resumed bodies end or
\* fail; pending resets go out.  Streams closed by this are observed.
Flush ==
    /\ drv = "flush"
    /\ drv' = "dispatch2"
    /\ \E bad \in IF "upload error" \in Moves THEN SUBSET resumed ELSE {{}} :
          LET sending == {r \in resumed : str[r] = "open"}
              broken == sending \intersect bad
              whole == (sending \ bad) \intersect rended
              closed == Unsendable \union Resets \union broken \union whole
          IN  /\ up' = [r \in Requests |->
                           CASE r \in broken -> "failed"
                             [] r \in sending \ broken -> "eof"
                             [] r \in Sendable ->
                                    IF r \in Uploads THEN "deferred" ELSE "eof"
                             [] OTHER -> up[r]]
              /\ str' = [r \in Requests |->
                            CASE r \in closed -> "closed"
                              [] r \in Sendable -> "open"
                              [] OTHER -> str[r]]
              /\ peer' = [r \in Requests |->
                             CASE r \in Sendable -> "arrived"
                               [] r \in Resets \union broken /\ peer[r] # "none" -> "reset"
                               [] OTHER -> peer[r]]
              /\ events' = IF closed = {} THEN <<>>
                                          ELSE <<[k |-> "close", rs |-> closed]>>
    /\ resumed' = {}
    /\ UNCHANGED <<pc, unread, result, prod, clones, token, shutter, slotVars,
                   inVars, queue, setVars, flagVars, notified, parkAt, batch, fed,
                   readVars, ended, registry, sid, rended, barred, owed, sent,
                   last, scene, wire>>

\* The transport fails the write: `?`.
FlushFails ==
    /\ "write error" \in Moves
    /\ drv = "flush"
    /\ drv' = "fail" /\ ended' = "error" /\ gone' = TRUE
    /\ UNCHANGED <<appVars, slotVars, inVars, queue, setVars, shutdown, refusing,
                   notified, parkAt, batch, fed, events, readVars, registry,
                   sessVars, peerVars, wire>>

\* The peer stopped sending and everything it sent was fed.
CheckIntake ==
    /\ drv = "intake"
    /\ IF intake /\ inbox = <<>>
         THEN drv' = "fail" /\ ended' = "eof" /\ gone' = TRUE
         ELSE drv' = "quiet" /\ UNCHANGED <<ended, gone>>
    /\ UNCHANGED <<appVars, slotVars, inVars, queue, setVars, shutdown, refusing,
                   notified, parkAt, batch, fed, events, readVars, registry,
                   sessVars, peerVars, wire>>

\* Nothing further can arrive: no handle is left and no stream is tracked.
Done == token # "held" /\ registry = {}

CheckQuiet ==
    /\ drv = "quiet"
    /\ IF Done
         THEN drv' = "fail" /\ ended' = "quiet" /\ gone' = TRUE
         ELSE drv' = "park" /\ UNCHANGED <<ended, gone>>
    /\ parkAt' = 1
    /\ UNCHANGED <<appVars, slotVars, inVars, queue, setVars, shutdown, refusing,
                   notified, batch, fed, events, readVars, registry, sessVars,
                   peerVars, wire>>

\* Mutant: a shutdown asked for is not among them.
ParkStep_NoShutdown ==
    <<queue = <<>>, ready = {}, \A r \in Requests : credits[r] = 0,
      resets = {}, TRUE, inbox = <<>> /\ ~intake /\ ~Done>>

\* The conjuncts of the park predicate, each behind a lock of its own.
ParkStep ==
    <<queue = <<>>, ready = {}, \A r \in Requests : credits[r] = 0,
      resets = {}, ~shutdown, inbox = <<>> /\ ~intake /\ ~Done>>

\* Idle after the last conjunct; a new pass after the first that fails.
Park ==
    /\ drv = "park"
    /\ drv' = CASE ~ParkStep[parkAt] -> "advance"
                [] ParkStep[parkAt] /\ parkAt < 6 -> "park"
                [] ParkStep[parkAt] /\ parkAt = 6 -> "parked"
    /\ parkAt' = IF ParkStep[parkAt] /\ parkAt < 6 THEN parkAt + 1 ELSE 1
    /\ UNCHANGED <<appVars, slotVars, inVars, queue, setVars, flagVars, notified,
                   batch, fed, events, readVars, ended, registry, sessVars,
                   peerVars, wire>>

-----------------------------------------------------------------------------
(* The end of the driver: DriverGuard::drop                                *)

\* The future is dropped where it waits, polled or not.
DropDriver ==
    /\ "abort" \in Moves
    /\ drv \in {"unpolled", "flush", "parked"}
    /\ drv' = "fail" /\ ended' = "dropped" /\ gone' = TRUE
    /\ UNCHANGED <<appVars, slotVars, inVars, queue, setVars, shutdown, refusing,
                   notified, parkAt, batch, fed, events, readVars, registry,
                   sessVars, peerVars, wire>>

\* After set_gone: everything tracked is failed ...
FailTracked ==
    /\ drv = "fail"
    /\ drv' = "abandon"
    /\ Remove(registry, "closed")
    /\ UNCHANGED <<appVars, abandoned, finished, queue, resets, ready, flagVars,
                   parkAt, batch, fed, events, readVars, ended, sessVars,
                   peerVars, wire>>

\* ... and ClientRole::abandon fails what is still queued.
AbandonQueue ==
    /\ drv = "abandon"
    /\ drv' = "over"
    /\ queue' = <<>>
    /\ FailSlots(Range(queue), "closed")
    /\ UNCHANGED <<appVars, abandoned, bodyAt, inVars, setVars, flagVars,
                   notified, parkAt, batch, fed, events, readVars, ended,
                   registry, sessVars, peerVars, wire>>

-----------------------------------------------------------------------------
(* The peer and the transport (external)                                   *)

\* A frame leaves the peer; a reading half that waits for it is woken.
PeerSend(f) ==
    /\ drv \notin {"fail", "abandon", "over"}
    /\ ~intake
    /\ \A g \in Range(wire) \union Range(inbox) : g.k \notin {"eof", "garbage"}
    /\ wire' = Append(wire, f)
    /\ notified' = (notified \/ reader = "armed")
    /\ UNCHANGED <<appVars, slotVars, inVars, queue, setVars, flagVars, drvVars,
                   events, readVars, ended, registry, sessVars>>

\* It begins on a request, unless it has said that it will not.
PeerActs(r) ==
    /\ peer[r] = "arrived" /\ (last = -1 \/ sid[r] <= last)
    /\ peer' = [peer EXCEPT ![r] = "acting"]
    /\ UNCHANGED <<appVars, slotVars, inVars, queue, setVars, flagVars, notified,
                   drvVars, events, readVars, ended, registry, sessVars, sent,
                   last, scene, wire>>

PeerHead(r) ==
    /\ peer[r] = "acting"
    /\ peer' = [peer EXCEPT ![r] = "headed"]
    /\ PeerSend([k |-> "head", r |-> r])
    /\ UNCHANGED <<sent, last, scene>>

PeerBadHead(r) ==
    /\ "badhead" \in Moves
    /\ peer[r] = "acting"
    /\ peer' = [peer EXCEPT ![r] = "headed"]
    /\ PeerSend([k |-> "badhead", r |-> r])
    /\ UNCHANGED <<sent, last, scene>>

IsData(f, r) == f.k = "data" /\ f.r = r

\* Data frames of a stream that have not reached the session.
InFlight(r) == Cardinality({i \in 1..Len(wire) : IsData(wire[i], r)})
                 + Cardinality({i \in 1..Len(inbox) : IsData(inbox[i], r)})

\* A chunk of response, within the window it was given.
PeerData(r) ==
    /\ peer[r] = "headed" /\ sent[r] < MaxData
    /\ owed[r] + InFlight(r) < Window
    /\ sent' = [sent EXCEPT ![r] = @ + 1]
    /\ PeerSend([k |-> "data", r |-> r])
    /\ UNCHANGED <<peer, last, scene>>

PeerEnd(r) ==
    /\ peer[r] = "headed"
    /\ peer' = [peer EXCEPT ![r] = "ended"]
    /\ PeerSend([k |-> "end", r |-> r])
    /\ UNCHANGED <<sent, last, scene>>

PeerRst(r) ==
    /\ "reset" \in Moves
    /\ peer[r] \in {"arrived", "acting", "headed"}
    /\ peer' = [peer EXCEPT ![r] = "reset"]
    /\ PeerSend([k |-> "rst", r |-> r])
    /\ UNCHANGED <<sent, last, scene>>

\* GOAWAY: the last stream it names covers everything it has begun.
PeerGoaway ==
    /\ "goaway" \in Moves /\ last = -1
    /\ \E l \in 0..Cardinality(Requests) :
          /\ \A r \in Requests : peer[r] \in {"acting", "headed", "ended"} => sid[r] <= l
          /\ last' = l
          /\ PeerSend([k |-> "goaway", last |-> l])
    /\ UNCHANGED <<peer, sent, scene>>

\* It closes the connection, or breaks the protocol.
PeerStops ==
    /\ \E k \in {"eof", "garbage"} \intersect Moves : PeerSend([k |-> k])
    /\ UNCHANGED peerVars

-----------------------------------------------------------------------------
AppStep ==
    \/ \E r \in Requests :
          \/ SendRefusing(r) \/ SendPush(r) \/ SendWake(r) \/ SendRecheck(r)
          \/ FutureReset(r) \/ FutureWake(r) \/ ReadCredit(r) \/ ReadWake(r)
          \/ DropAbandon(r) \/ DropCredit(r) \/ DropWake(r) \/ DropReset(r)
          \/ ProduceWake(r)
    \/ TokenDrop \/ ShutdownWake

AppChoice ==
    \/ \E r \in Requests :
          \/ SendStart(r) \/ DropClone(r) \/ PollFuture(r) \/ DropFuture(r)
          \/ ReadChunk(r) \/ ReadEnd(r) \/ DropBody(r) \/ Produce(r)
    \/ Shutdown

DriverStep ==
    \/ FirstPoll \/ Poll
    \/ AdvanceTake \/ AdvanceCheck \/ AdvanceBind
    \/ TakeCredits \/ TakeResets \/ TakeShutdown \/ TakeReady
    \/ FeedOne \/ FeedGarbage \/ FeedDone
    \/ DispatchOne \/ DispatchDone
    \/ Flush \/ CheckIntake \/ CheckQuiet \/ Park
    \/ FailTracked \/ AbandonQueue

PeerStep ==
    \/ \E r \in Requests :
          \/ PeerActs(r) \/ PeerHead(r) \/ PeerBadHead(r) \/ PeerData(r)
          \/ PeerEnd(r) \/ PeerRst(r)
    \/ PeerGoaway \/ PeerStops

\* The connection has ended and so has everything that was asked of it.
Terminated ==
    /\ drv = "over"
    /\ \A r \in Requests : pc[r] \in {"done", "unsent"}
    /\ UNCHANGED vars

Next == \/ AppStep \/ AppChoice \/ DriverStep \/ PollWriting \/ FlushFails
        \/ DropDriver \/ PeerStep \/ Terminated

Spec == Init /\ [][Next]_vars

-----------------------------------------------------------------------------
(* Correctness                                                             *)

Alive == drv \notin {"fail", "abandon", "over"}

\* The driver task sleeps and nothing has woken it.
AtRest == drv = "parked" /\ ~notified

(***************************************************************************)
(* No lost wake-up (driver.rs, run's park; shared.rs, wake_driver): while  *)
(* the driver sleeps, a command, credit, reset, readiness note, shutdown   *)
(* or last handle that it has not seen belongs to a thread which has yet   *)
(* to wake it, and the reading half is waiting on a transport with nothing *)
(* to read, never on an inbox that has been emptied.                       *)
(***************************************************************************)
NothingWaitsAtRest ==
    AtRest =>
      /\ \A r \in Range(queue) : pc[r] = "pushwake"
      /\ \A r \in Requests : credits[r] > 0 =>
            pc[r] \in {"wake", "wake_c", "wake_i", "resetwake"}
      /\ \A r \in resets : pc[r] \in {"resetwake", "resetwake_i"}
      /\ \A r \in ready : prod[r] = "wake"
      /\ shutdown => shutter = "wake"
      /\ Done => token = "dropping"
      /\ inbox = <<>> /\ ~intake
      /\ reader = "armed" /\ wire = <<>>

Observed(r) == Cardinality({i \in 1..Len(events) : IsData(events[i], r)})

(***************************************************************************)
(* Receive window is neither lost nor returned twice (Incoming::push and   *)
(* abandon, IncomingBody::poll_frame and drop, Shared::credit, dispatch):  *)
(* every chunk the session has not been given back is queued, observed,    *)
(* reported, or in the hands of a thread about to report it.               *)
(***************************************************************************)
WindowConserved ==
    Alive => \A r \in Requests :
        owed[r] = chunks[r] + credits[r] + unread[r] + Observed(r)
                    + (IF pc[r] = "credit" THEN 1 ELSE 0)

(***************************************************************************)
(* Nobody waits on a driver that is gone (DriverGuard::drop, the second    *)
(* look of send_request): once it is over, every future that is awaited    *)
(* has its answer and every body that is read has its end.                 *)
(***************************************************************************)
NobodyWaitsOnTheDead ==
    drv = "over" => \A r \in Requests :
        /\ pc[r] = "await" => slot[r] # "open"
        /\ bodyAt[r] \in {"slot", "caller"} => r \in finished \union failed

(***************************************************************************)
(* A request failed as refused, the error a caller may retry, was never    *)
(* begun by the peer (dispatch's Goaway arm, Registry::above, is_refusing).*)
(***************************************************************************)
RefusedIsUnprocessed ==
    \A r \in Requests :
        slot[r] = "refused" => peer[r] \notin {"acting", "headed", "ended"}

(***************************************************************************)
(* The registry follows the session: a stream the session can report on is *)
(* tracked, and an entry whose stream has closed has that closure still to *)
(* be dispatched, so that the driver is not kept alive by a leaked entry.  *)
(***************************************************************************)
RegistryFollowsSession ==
    Alive => \A r \in Requests :
        /\ str[r] \in {"open", "rst"} => r \in registry
        /\ r \in registry /\ str[r] = "closed" =>
              \E i \in 1..Len(events) : events[i].k = "close" /\ r \in events[i].rs

(***************************************************************************)
(* Neither window nor a registry entry is lost for good.                   *)
(***************************************************************************)
NothingLeaks == WindowConserved /\ RegistryFollowsSession

(***************************************************************************)
(* A message that has ended is not turned into a truncated one by the      *)
(* stream closing, the peer going away or the driver ending afterwards     *)
(* (Incoming::fail).  It is about the responses a caller was given: the    *)
(* message behind a malformed head is failed first, and an end observed in *)
(* the same pass still marks it finished (Incoming::finish), with nobody   *)
(* to read it.                                                             *)
(***************************************************************************)
WholeMessagesStayWhole ==
    \A r \in finished \intersect failed : slot[r] # "head"

(***************************************************************************)
(* Whoever waits, driver or caller, waits for something still to come.     *)
(***************************************************************************)
NobodyWaitsInVain == NothingWaitsAtRest /\ NobodyWaitsOnTheDead

(***************************************************************************)
(* No caller is told an error that is not so: refused of a request the     *)
(* peer began, truncated of a message that was complete.                   *)
(***************************************************************************)
ErrorsAreHonest == RefusedIsUnprocessed /\ WholeMessagesStayWhole

(***************************************************************************)
(* A future dropped before its request has a stream, however far the       *)
(* driver's pass has come with it, keeps that request from the session's   *)
(* queue, and a stream reset before it was sent is never sent: the peer    *)
(* does not see the request (Slot::cancel, is_abandoned and bind,          *)
(* ClientRole::submit, flush).                                             *)
(***************************************************************************)
UnsentCancelNeverSent ==
    [][\A r \in Requests :
         /\ r \in abandoned /\ sid[r] = 0 => str'[r] # "queued"
         /\ str[r] = "rst" /\ peer[r] = "none" => peer'[r] = "none"]_vars

=============================================================================
