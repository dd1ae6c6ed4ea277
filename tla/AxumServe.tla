----------------------------- MODULE AxumServe -----------------------------
(***************************************************************************)
(* The accept loop of ngnet-axum (crates/ngnet-axum/src/server.rs,         *)
(* run_with): one task that accepts and registers connections, a task per  *)
(* connection that removes its own entry, a stop signal, a drain that      *)
(* waits for the last connection, and a server future that may be dropped  *)
(* wherever it is suspended.                                               *)
(*                                                                         *)
(* Connection tasks run on other threads: they interleave with the loop    *)
(* even where the loop does not await.  What a connection serves is left   *)
(* out: it runs, may be asked to drain, and ends well, with an error or in *)
(* a panic, which catch_panics turns into an outcome.                      *)
(***************************************************************************)
EXTENDS Naturals, FiniteSets

CONSTANTS
    Conns       \* the connections that arrive, each accepted at most once

VARIABLES
    loop,       \* where run_with is ("accept": suspended in its select)
    cur,        \* the connection being set up, as a set of at most one
    source,     \* the socket: "quiet", or failing every accept (EMFILE)
    pace,       \* the accept future: "ready", or pausing after a failure
    stop,       \* the stop signal has fired
    registry,   \* connections with an entry
    abortable,  \* those whose entry has its abort handle
    task,       \* each connection's task
    tokens,     \* tasks that hold a receiver of the close channel
    toDrain,    \* drain handles collected and not yet used
    drained,    \* connections that were asked to drain
    aborted,    \* tasks that were aborted
    failures,   \* connections that failed, and whose failure is to be reported
    reported    \* failures the observer has heard of

listen == <<source, pace, stop>>
loopVars == <<loop, cur, listen, toDrain>>
connVars == <<registry, abortable, task, tokens, drained, aborted>>
vars == <<loopVars, connVars, failures, reported>>

LoopPcs == {"accept", "polling", "report", "insert", "spawn", "backfill",
            "collect", "drain", "closing", "done", "dropped"}

TypeOK ==
    /\ loop \in LoopPcs
    /\ cur \subseteq Conns
    /\ source \in {"quiet", "failing"} /\ pace \in {"ready", "pausing"}
    /\ stop \in BOOLEAN
    /\ registry \subseteq Conns /\ abortable \subseteq Conns
    /\ task \in [Conns -> {"none", "running", "ended", "removed", "gone"}]
    /\ tokens \subseteq Conns /\ toDrain \subseteq Conns
    /\ drained \subseteq Conns /\ aborted \subseteq Conns
    /\ failures \subseteq Conns /\ reported \subseteq Conns

Init ==
    /\ loop = "accept" /\ cur = {} /\ stop = FALSE
    /\ source = "quiet" /\ pace = "ready"
    /\ registry = {} /\ abortable = {}
    /\ task = [c \in Conns |-> "none"]
    /\ tokens = {} /\ toDrain = {} /\ drained = {} /\ aborted = {}
    /\ failures = {} /\ reported = {}

-----------------------------------------------------------------------------
(* The accept loop                                                         *)

\* The caller's stop signal resolves.
StopSignal ==
    /\ ~stop
    /\ stop' = TRUE
    /\ UNCHANGED <<loop, cur, source, pace, toDrain, connVars, failures, reported>>

\* The socket starts or stops failing, while there is one.
SourceTurns ==
    /\ loop \in {"accept", "polling"}
    /\ source' = IF source = "quiet" THEN "failing" ELSE "quiet"
    /\ UNCHANGED <<loop, cur, pace, stop, toDrain, connVars, failures, reported>>

\* A poll of the select looks at the stop signal first (biased) ...
PollSelect ==
    /\ loop = "accept" /\ ~stop
    /\ loop' = "polling"
    /\ UNCHANGED <<cur, listen, toDrain, connVars, failures, reported>>

\* ... then polls the accept future, which has nothing, or is pausing,
PollPending ==
    /\ loop = "polling" /\ (source = "quiet" \/ pace = "pausing")
    /\ loop' = "accept"
    /\ UNCHANGED <<cur, listen, toDrain, connVars, failures, reported>>

\* Mutant: a failed accept is tried again without giving the thread back.
AcceptFails_Spin ==
    /\ loop = "polling" /\ source = "failing" /\ pace = "ready"
    /\ UNCHANGED vars

\* or meets a failure: it yields or sleeps, either of which ends the poll,
AcceptFails ==
    /\ loop = "polling" /\ source = "failing" /\ pace = "ready"
    /\ pace' = "pausing"
    /\ loop' = "accept"
    /\ UNCHANGED <<cur, source, stop, toDrain, connVars, failures, reported>>

\* or tries again when the pause is over,
PaceEnds ==
    /\ loop = "polling" /\ pace = "pausing"
    /\ pace' = "ready"
    /\ UNCHANGED <<loop, cur, source, stop, toDrain, connVars, failures, reported>>

\* or has a connection, though the stop signal may have fired since.  Creating
\* the session may fail, before there is a task to report it.
Accept(c) ==
    /\ loop = "polling" /\ source = "quiet" /\ pace = "ready"
    /\ task[c] = "none" /\ c \notin failures
    /\ cur' = {c}
    /\ \/ loop' = "insert" /\ UNCHANGED failures
       \/ loop' = "report" /\ failures' = failures \union {c}
    /\ UNCHANGED <<listen, toDrain, connVars, reported>>

\* Dropping the future: AbortLive::drop aborts what has its handle.
AbortAll ==
    /\ loop' = "dropped"
    /\ aborted' = aborted \union (registry \intersect abortable)

\* The setup failure is reported here; a callback that panics ends the server.
ReportSetup ==
    /\ loop = "report"
    /\ reported' = reported \union cur
    /\ cur' = {}
    /\ \/ loop' = "accept" /\ UNCHANGED aborted
       \/ AbortAll
    /\ UNCHANGED <<listen, toDrain, registry, abortable, task, tokens,
                   drained, failures>>

\* Registered before the task exists ...
Insert ==
    /\ loop = "insert"
    /\ registry' = registry \union cur
    /\ loop' = "spawn"
    /\ UNCHANGED <<cur, listen, toDrain, abortable, task, tokens, drained,
                   aborted, failures, reported>>

\* ... which may run to its end before the spawn returns.
Spawn ==
    /\ loop = "spawn"
    /\ task' = [c \in Conns |-> IF c \in cur THEN "running" ELSE task[c]]
    /\ tokens' = tokens \union cur
    /\ loop' = "backfill"
    /\ UNCHANGED <<cur, listen, toDrain, registry, abortable, drained,
                   aborted, failures, reported>>

\* Mutant: the entry is inserted whole, whether or not it is still there.
Backfill_Insert ==
    /\ loop = "backfill"
    /\ registry' = registry \union cur
    /\ abortable' = abortable \union cur
    /\ cur' = {}
    /\ loop' = "accept"
    /\ UNCHANGED <<listen, toDrain, task, tokens, drained, aborted, failures,
                   reported>>

\* Mutant: no handle is kept.
Backfill_None ==
    /\ loop = "backfill"
    /\ cur' = {}
    /\ loop' = "accept"
    /\ UNCHANGED <<listen, toDrain, connVars, failures, reported>>

\* get_mut: the entry gets its abort handle if it is still there.
Backfill ==
    /\ loop = "backfill"
    /\ abortable' = abortable \union (cur \intersect registry)
    /\ cur' = {}
    /\ loop' = "accept"
    /\ UNCHANGED <<listen, toDrain, registry, task, tokens, drained, aborted,
                   failures, reported>>

-----------------------------------------------------------------------------
(* Shutdown                                                                *)

\* The stop arm breaks the loop and the listener is dropped, with the accept
\* future and whatever pacing it was in.
Stop ==
    /\ loop = "accept" /\ stop
    /\ loop' = "collect"
    /\ UNCHANGED <<cur, listen, toDrain, connVars, failures, reported>>

\* The drain handles are copied out from under the lock.
Collect ==
    /\ loop = "collect"
    /\ toDrain' = registry
    /\ loop' = "drain"
    /\ UNCHANGED <<cur, listen, connVars, failures, reported>>

\* Mutant: one connection is told and the others are not.
DrainOne_Only(c) ==
    /\ loop = "drain" /\ c \in toDrain
    /\ drained' = drained \union {c}
    /\ toDrain' = {}
    /\ UNCHANGED <<loop, cur, listen, registry, abortable, task, tokens,
                   aborted, failures, reported>>

\* Drain::drain; one whose connection has ended meanwhile does nothing.
DrainOne(c) ==
    /\ loop = "drain" /\ c \in toDrain
    /\ drained' = drained \union {c}
    /\ toDrain' = toDrain \ {c}
    /\ UNCHANGED <<loop, cur, listen, registry, abortable, task, tokens,
                   aborted, failures, reported>>

DrainDone ==
    /\ loop = "drain" /\ toDrain = {}
    /\ loop' = "closing"
    /\ UNCHANGED <<cur, listen, toDrain, connVars, failures, reported>>

\* close.closed(): the loop's own token is gone, and so is every task's.
Closed ==
    /\ loop = "closing" /\ tokens = {}
    /\ loop' = "done"
    /\ UNCHANGED <<cur, listen, toDrain, connVars, failures, reported>>

\* The future is dropped where it is suspended.
DropServer ==
    /\ loop \in {"accept", "closing"}
    /\ AbortAll
    /\ UNCHANGED <<cur, listen, toDrain, registry, abortable, task, tokens,
                   drained, failures, reported>>

-----------------------------------------------------------------------------
(* A connection task                                                       *)

\* The connection ends, well or not; a panic is an outcome as well.
TaskEnds(c) ==
    /\ task[c] = "running"
    /\ task' = [task EXCEPT ![c] = "ended"]
    /\ failures' \in {failures, failures \union {c}}
    /\ UNCHANGED <<loopVars, registry, abortable, tokens, drained, aborted,
                   reported>>

\* Mutant: the task keeps its token only while the connection runs.
Deregister_Token(c) ==
    /\ task[c] = "ended"
    /\ registry' = registry \ {c}
    /\ task' = [task EXCEPT ![c] = "removed"]
    /\ tokens' = tokens \ {c}
    /\ UNCHANGED <<loopVars, abortable, drained, aborted, failures, reported>>

\* It removes its own entry ...
Deregister(c) ==
    /\ task[c] = "ended"
    /\ registry' = registry \ {c}
    /\ task' = [task EXCEPT ![c] = "removed"]
    /\ UNCHANGED <<loopVars, abortable, tokens, drained, aborted, failures,
                   reported>>

\* ... then reports, and only then lets go of its token.
Report(c) ==
    /\ task[c] = "removed"
    /\ reported' = reported \union (failures \intersect {c})
    /\ task' = [task EXCEPT ![c] = "gone"]
    /\ tokens' = tokens \ {c}
    /\ UNCHANGED <<loopVars, registry, abortable, drained, aborted, failures>>

\* An aborted task stops where it awaits, inside its connection.
Cancelled(c) ==
    /\ task[c] = "running" /\ c \in aborted
    /\ task' = [task EXCEPT ![c] = "gone"]
    /\ tokens' = tokens \ {c}
    /\ UNCHANGED <<loopVars, registry, abortable, drained, aborted, failures,
                   reported>>

-----------------------------------------------------------------------------
LoopStep ==
    \/ PollSelect \/ PollPending \/ AcceptFails
    \/ ReportSetup \/ Insert \/ Spawn \/ Backfill \/ Stop \/ Collect
    \/ \E c \in Conns : DrainOne(c)
    \/ DrainDone \/ Closed

TaskStep(c) == Deregister(c) \/ Report(c) \/ Cancelled(c)

\* The server is over and so are its tasks.
Terminated ==
    /\ loop \in {"done", "dropped"}
    /\ \A c \in Conns : task[c] \in {"none", "gone"}
    /\ UNCHANGED vars

Next ==
    \/ StopSignal \/ SourceTurns \/ PaceEnds
    \/ \E c \in Conns : Accept(c)
    \/ LoopStep \/ DropServer
    \/ \E c \in Conns : TaskEnds(c) \/ TaskStep(c)
    \/ Terminated

Spec == Init /\ [][Next]_vars

\* The runtime runs what is ready to run: the loop, whose polls return, and the
\* tasks.  A pause may last; nothing obliges a peer to connect.  A connection
\* that was asked to drain ends: its handlers finish, all a drain waits for.
FairSpec ==
    /\ Spec
    /\ WF_vars(LoopStep)
    /\ \A c \in Conns : WF_vars(TaskStep(c))
                        /\ WF_vars(c \in drained /\ TaskEnds(c))

-----------------------------------------------------------------------------
(* Correctness                                                             *)

Over == loop \in {"done", "dropped"}

(***************************************************************************)
(* The registry does not leak: while the server runs, an entry belongs to  *)
(* a connection about to be spawned or to a task that will remove it.      *)
(* (Registered before the spawn, backfilled with get_mut.)                 *)
(***************************************************************************)
NoLeak ==
    loop # "dropped" =>
        \A c \in registry :
            task[c] \in {"running", "ended"} \/ (loop = "spawn" /\ c \in cur)

(***************************************************************************)
(* A drain reaches everyone: once the server waits for its connections,    *)
(* every connection still running has been asked to wind up.               *)
(***************************************************************************)
DrainReachesAll ==
    loop \in {"closing", "done"} =>
        \A c \in Conns : task[c] = "running" => c \in drained

(***************************************************************************)
(* The server resolves only when every connection has closed, left the     *)
(* registry and had its failure reported: the token orders the barrier     *)
(* after all three.                                                        *)
(***************************************************************************)
DoneMeansClosed ==
    loop = "done" =>
        /\ \A c \in Conns : task[c] \in {"none", "gone"}
        /\ registry = {}
        /\ failures \subseteq reported

(***************************************************************************)
(* Dropping the server "ends every connection at once": no task is left    *)
(* running that was not aborted, whatever the loop was doing when a task   *)
(* came and went (AbortLive, and no await between insert and backfill).    *)
(***************************************************************************)
DropEndsAll ==
    loop = "dropped" =>
        \A c \in Conns : task[c] = "running" => c \in aborted

(***************************************************************************)
(* A stop signal ends the server, even one whose every accept fails, once  *)
(* its connections' handlers finish: no poll of the accept future keeps    *)
(* the thread (pace_after).                                                *)
(***************************************************************************)
StopEnds == stop ~> Over
=============================================================================
