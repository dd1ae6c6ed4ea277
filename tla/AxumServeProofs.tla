--------------------------- MODULE AxumServeProofs ---------------------------
(***************************************************************************)
(* The accept loop's safety, for every set of connections.                 *)
(***************************************************************************)
EXTENDS AxumServe, TLAPS

-----------------------------------------------------------------------------
(* The inductive invariant                                                 *)

\* A connection is being set up exactly where the loop does not suspend, and
\* has no task until it is spawned.
SetupOrder ==
    /\ loop \notin {"report", "insert", "spawn", "backfill"} => cur = {}
    /\ loop \in {"report", "insert", "spawn"} => \A c \in cur : task[c] = "none"
    /\ loop = "spawn" => cur \subseteq registry

\* A task that has not deregistered has an entry; one that has not reported
\* holds a token, and no other does.
LiveIsKnown ==
    \A c \in Conns :
        /\ task[c] \in {"running", "ended"} => c \in registry
        /\ task[c] \in {"running", "ended", "removed"} <=> c \in tokens

\* An entry whose task runs has its handle, except inside the synchronous part
\* of the loop; nothing is aborted while the server lives.
LiveIsAbortable ==
    loop # "dropped" =>
        /\ aborted = {}
        /\ \A c \in Conns : task[c] \in {"running", "ended"} =>
              c \in abortable \/ (loop = "backfill" /\ c \in cur)

\* While the handles are being used, a running connection is among them or has
\* been told.
DrainProgress ==
    loop = "drain" =>
        \A c \in Conns : task[c] = "running" => c \in toDrain \union drained

\* A failure is reported, or still in the hands of who will report it.
FailuresHeld ==
    \A c \in failures : \/ c \in reported
                        \/ task[c] \in {"ended", "removed"}
                        \/ loop = "report" /\ c \in cur

ClosedHolds == loop = "done" => tokens = {}

ServeInv ==
    /\ TypeOK /\ SetupOrder /\ LiveIsKnown /\ LiveIsAbortable
    /\ NoLeak /\ DrainProgress /\ DrainReachesAll /\ DropEndsAll
    /\ FailuresHeld /\ ClosedHolds

-----------------------------------------------------------------------------
\* The initial state satisfies the invariant.
LEMMA InitServe == Init => ServeInv
  <1> SUFFICES ASSUME Init PROVE ServeInv
    OBVIOUS
  <1>1. TypeOK
    BY DEF Init, TypeOK, LoopPcs
  <1>2. SetupOrder
    BY DEF Init, SetupOrder
  <1>3. LiveIsKnown
    BY DEF Init, LiveIsKnown
  <1>4. LiveIsAbortable
    BY DEF Init, LiveIsAbortable
  <1>5. NoLeak
    BY DEF Init, NoLeak
  <1>6. DrainProgress
    BY DEF Init, DrainProgress
  <1>7. DrainReachesAll
    BY DEF Init, DrainReachesAll
  <1>8. DropEndsAll
    BY DEF Init, DropEndsAll
  <1>9. FailuresHeld
    BY DEF Init, FailuresHeld
  <1>10. ClosedHolds
    BY DEF Init, ClosedHolds
  <1> QED
    BY <1>1, <1>2, <1>3, <1>4, <1>5, <1>6, <1>7, <1>8, <1>9, <1>10 DEF ServeInv

\* The stop signal preserves the invariant.
LEMMA StopSignalKeeps ==
    ASSUME ServeInv, StopSignal
    PROVE  ServeInv'
  <1>1. TypeOK'
    BY DEF ServeInv, TypeOK, LoopPcs, StopSignal, listen, loopVars, connVars
  <1>2. SetupOrder' /\ LiveIsKnown' /\ LiveIsAbortable' /\ NoLeak' /\
         DrainProgress' /\ DrainReachesAll' /\ DropEndsAll' /\
         FailuresHeld' /\ ClosedHolds'
    BY DEF ServeInv, SetupOrder, LiveIsKnown, LiveIsAbortable, NoLeak,
       DrainProgress, DrainReachesAll, DropEndsAll, FailuresHeld,
       ClosedHolds, StopSignal, listen, loopVars, connVars
  <1> QED
    BY <1>1, <1>2 DEF ServeInv

\* A change of the socket preserves the invariant.
LEMMA SourceTurnsKeeps ==
    ASSUME ServeInv, SourceTurns
    PROVE  ServeInv'
  <1>1. TypeOK'
    BY DEF ServeInv, TypeOK, LoopPcs, SourceTurns, listen, loopVars,
       connVars
  <1>2. SetupOrder' /\ LiveIsKnown' /\ LiveIsAbortable' /\ NoLeak' /\
         DrainProgress' /\ DrainReachesAll' /\ DropEndsAll' /\
         FailuresHeld' /\ ClosedHolds'
    BY DEF ServeInv, SetupOrder, LiveIsKnown, LiveIsAbortable, NoLeak,
       DrainProgress, DrainReachesAll, DropEndsAll, FailuresHeld,
       ClosedHolds, SourceTurns, listen, loopVars, connVars
  <1> QED
    BY <1>1, <1>2 DEF ServeInv

\* A poll of the select preserves the invariant.
LEMMA PollSelectKeeps ==
    ASSUME ServeInv, PollSelect
    PROVE  ServeInv'
  <1>1. TypeOK'
    BY DEF ServeInv, TypeOK, LoopPcs, PollSelect, listen, loopVars, connVars
  <1>2. SetupOrder'
    BY DEF ServeInv, SetupOrder, TypeOK, PollSelect, listen, loopVars,
       connVars
  <1>3. LiveIsAbortable'
    BY DEF ServeInv, LiveIsAbortable, TypeOK, PollSelect, listen, loopVars,
       connVars
  <1>4. NoLeak'
    BY DEF ServeInv, NoLeak, TypeOK, PollSelect, listen, loopVars, connVars
  <1>5. DrainProgress'
    BY DEF ServeInv, DrainProgress, TypeOK, PollSelect, listen, loopVars,
       connVars
  <1>6. DrainReachesAll'
    BY DEF ServeInv, DrainReachesAll, TypeOK, PollSelect, listen, loopVars,
       connVars
  <1>7. DropEndsAll'
    BY DEF ServeInv, DropEndsAll, TypeOK, PollSelect, listen, loopVars,
       connVars
  <1>8. FailuresHeld'
    BY DEF ServeInv, FailuresHeld, TypeOK, PollSelect, listen, loopVars,
       connVars
  <1>9. ClosedHolds'
    BY DEF ServeInv, ClosedHolds, TypeOK, PollSelect, listen, loopVars,
       connVars
  <1>10. LiveIsKnown'
    BY DEF ServeInv, LiveIsKnown, PollSelect, listen, loopVars, connVars
  <1> QED
    BY <1>1, <1>2, <1>3, <1>4, <1>5, <1>6, <1>7, <1>8, <1>9, <1>10 DEF
       ServeInv

\* A pending accept preserves the invariant.
LEMMA PollPendingKeeps ==
    ASSUME ServeInv, PollPending
    PROVE  ServeInv'
  <1>1. TypeOK'
    BY DEF ServeInv, TypeOK, LoopPcs, PollPending, listen, loopVars,
       connVars
  <1>2. SetupOrder'
    BY DEF ServeInv, SetupOrder, TypeOK, PollPending, listen, loopVars,
       connVars
  <1>3. LiveIsAbortable'
    BY DEF ServeInv, LiveIsAbortable, TypeOK, PollPending, listen, loopVars,
       connVars
  <1>4. NoLeak'
    BY DEF ServeInv, NoLeak, TypeOK, PollPending, listen, loopVars, connVars
  <1>5. DrainProgress'
    BY DEF ServeInv, DrainProgress, TypeOK, PollPending, listen, loopVars,
       connVars
  <1>6. DrainReachesAll'
    BY DEF ServeInv, DrainReachesAll, TypeOK, PollPending, listen, loopVars,
       connVars
  <1>7. DropEndsAll'
    BY DEF ServeInv, DropEndsAll, TypeOK, PollPending, listen, loopVars,
       connVars
  <1>8. FailuresHeld'
    BY DEF ServeInv, FailuresHeld, TypeOK, PollPending, listen, loopVars,
       connVars
  <1>9. ClosedHolds'
    BY DEF ServeInv, ClosedHolds, TypeOK, PollPending, listen, loopVars,
       connVars
  <1>10. LiveIsKnown'
    BY DEF ServeInv, LiveIsKnown, PollPending, listen, loopVars, connVars
  <1> QED
    BY <1>1, <1>2, <1>3, <1>4, <1>5, <1>6, <1>7, <1>8, <1>9, <1>10 DEF
       ServeInv

\* A failed accept preserves the invariant.
LEMMA AcceptFailsKeeps ==
    ASSUME ServeInv, AcceptFails
    PROVE  ServeInv'
  <1>1. TypeOK'
    BY DEF ServeInv, TypeOK, LoopPcs, AcceptFails, listen, loopVars,
       connVars
  <1>2. SetupOrder'
    BY DEF ServeInv, SetupOrder, TypeOK, AcceptFails, listen, loopVars,
       connVars
  <1>3. LiveIsAbortable'
    BY DEF ServeInv, LiveIsAbortable, TypeOK, AcceptFails, listen, loopVars,
       connVars
  <1>4. NoLeak'
    BY DEF ServeInv, NoLeak, TypeOK, AcceptFails, listen, loopVars, connVars
  <1>5. DrainProgress'
    BY DEF ServeInv, DrainProgress, TypeOK, AcceptFails, listen, loopVars,
       connVars
  <1>6. DrainReachesAll'
    BY DEF ServeInv, DrainReachesAll, TypeOK, AcceptFails, listen, loopVars,
       connVars
  <1>7. DropEndsAll'
    BY DEF ServeInv, DropEndsAll, TypeOK, AcceptFails, listen, loopVars,
       connVars
  <1>8. FailuresHeld'
    BY DEF ServeInv, FailuresHeld, TypeOK, AcceptFails, listen, loopVars,
       connVars
  <1>9. ClosedHolds'
    BY DEF ServeInv, ClosedHolds, TypeOK, AcceptFails, listen, loopVars,
       connVars
  <1>10. LiveIsKnown'
    BY DEF ServeInv, LiveIsKnown, AcceptFails, listen, loopVars, connVars
  <1> QED
    BY <1>1, <1>2, <1>3, <1>4, <1>5, <1>6, <1>7, <1>8, <1>9, <1>10 DEF
       ServeInv

\* The end of a pause preserves the invariant.
LEMMA PaceEndsKeeps ==
    ASSUME ServeInv, PaceEnds
    PROVE  ServeInv'
  <1>1. TypeOK'
    BY DEF ServeInv, TypeOK, LoopPcs, PaceEnds, listen, loopVars, connVars
  <1>2. SetupOrder' /\ LiveIsKnown' /\ LiveIsAbortable' /\ NoLeak' /\
         DrainProgress' /\ DrainReachesAll' /\ DropEndsAll' /\
         FailuresHeld' /\ ClosedHolds'
    BY DEF ServeInv, SetupOrder, LiveIsKnown, LiveIsAbortable, NoLeak,
       DrainProgress, DrainReachesAll, DropEndsAll, FailuresHeld,
       ClosedHolds, PaceEnds, listen, loopVars, connVars
  <1> QED
    BY <1>1, <1>2 DEF ServeInv

\* Accepting a connection preserves the invariant.
LEMMA AcceptKeeps ==
    ASSUME NEW c \in Conns, ServeInv, Accept(c)
    PROVE  ServeInv'
  <1>1. TypeOK'
    BY DEF ServeInv, TypeOK, LoopPcs, Accept, listen, loopVars, connVars
  <1>2. SetupOrder'
    BY DEF ServeInv, SetupOrder, TypeOK, Accept, listen, loopVars, connVars
  <1>3. LiveIsAbortable'
    BY DEF ServeInv, LiveIsAbortable, TypeOK, Accept, listen, loopVars,
       connVars
  <1>4. NoLeak'
    BY DEF ServeInv, NoLeak, TypeOK, Accept, listen, loopVars, connVars
  <1>5. DrainProgress'
    BY DEF ServeInv, DrainProgress, TypeOK, Accept, listen, loopVars,
       connVars
  <1>6. DrainReachesAll'
    BY DEF ServeInv, DrainReachesAll, TypeOK, Accept, listen, loopVars,
       connVars
  <1>7. DropEndsAll'
    BY DEF ServeInv, DropEndsAll, TypeOK, Accept, listen, loopVars, connVars
  <1>8. FailuresHeld'
    BY DEF ServeInv, FailuresHeld, TypeOK, Accept, listen, loopVars,
       connVars
  <1>9. ClosedHolds'
    BY DEF ServeInv, ClosedHolds, TypeOK, Accept, listen, loopVars, connVars
  <1>10. LiveIsKnown'
    BY DEF ServeInv, LiveIsKnown, Accept, listen, loopVars, connVars
  <1> QED
    BY <1>1, <1>2, <1>3, <1>4, <1>5, <1>6, <1>7, <1>8, <1>9, <1>10 DEF
       ServeInv

\* Reporting a setup failure preserves the invariant.
LEMMA ReportSetupKeeps ==
    ASSUME ServeInv, ReportSetup
    PROVE  ServeInv'
  <1>1. TypeOK'
    BY DEF ServeInv, TypeOK, LoopPcs, ReportSetup, AbortAll, listen,
       loopVars, connVars
  <1>2. SetupOrder'
    BY DEF ServeInv, SetupOrder, TypeOK, ReportSetup, AbortAll, listen,
       loopVars, connVars
  <1>3. LiveIsAbortable'
    BY DEF ServeInv, LiveIsAbortable, TypeOK, ReportSetup, AbortAll, listen,
       loopVars, connVars
  <1>4. NoLeak'
    BY DEF ServeInv, NoLeak, TypeOK, SetupOrder, ReportSetup, AbortAll,
       listen, loopVars, connVars
  <1>5. DrainProgress'
    BY DEF ServeInv, DrainProgress, TypeOK, ReportSetup, AbortAll, listen,
       loopVars, connVars
  <1>6. DrainReachesAll'
    BY DEF ServeInv, DrainReachesAll, TypeOK, ReportSetup, AbortAll, listen,
       loopVars, connVars
  <1>7. DropEndsAll'
    BY DEF ServeInv, DropEndsAll, TypeOK, LiveIsKnown, LiveIsAbortable,
       ReportSetup, AbortAll, listen, loopVars, connVars
  <1>8. FailuresHeld'
    BY DEF ServeInv, FailuresHeld, TypeOK, ReportSetup, AbortAll, listen,
       loopVars, connVars
  <1>9. ClosedHolds'
    BY DEF ServeInv, ClosedHolds, TypeOK, ReportSetup, AbortAll, listen,
       loopVars, connVars
  <1>10. LiveIsKnown'
    BY DEF ServeInv, LiveIsKnown, ReportSetup, AbortAll, listen, loopVars,
       connVars
  <1> QED
    BY <1>1, <1>2, <1>3, <1>4, <1>5, <1>6, <1>7, <1>8, <1>9, <1>10 DEF
       ServeInv

\* Registering a connection preserves the invariant.
LEMMA InsertKeeps ==
    ASSUME ServeInv, Insert
    PROVE  ServeInv'
  <1>1. TypeOK'
    BY DEF ServeInv, TypeOK, LoopPcs, Insert, listen, loopVars, connVars
  <1>2. SetupOrder'
    BY DEF ServeInv, SetupOrder, TypeOK, Insert, listen, loopVars, connVars
  <1>3. LiveIsKnown'
    BY DEF ServeInv, LiveIsKnown, TypeOK, Insert, listen, loopVars, connVars
  <1>4. LiveIsAbortable'
    BY DEF ServeInv, LiveIsAbortable, TypeOK, Insert, listen, loopVars,
       connVars
  <1>5. NoLeak'
    BY DEF ServeInv, NoLeak, TypeOK, Insert, listen, loopVars, connVars
  <1>6. DrainProgress'
    BY DEF ServeInv, DrainProgress, TypeOK, Insert, listen, loopVars,
       connVars
  <1>7. DrainReachesAll'
    BY DEF ServeInv, DrainReachesAll, TypeOK, Insert, listen, loopVars,
       connVars
  <1>8. DropEndsAll'
    BY DEF ServeInv, DropEndsAll, TypeOK, Insert, listen, loopVars, connVars
  <1>9. FailuresHeld'
    BY DEF ServeInv, FailuresHeld, TypeOK, Insert, listen, loopVars,
       connVars
  <1>10. ClosedHolds'
    BY DEF ServeInv, ClosedHolds, TypeOK, Insert, listen, loopVars, connVars
  <1> QED
    BY <1>1, <1>2, <1>3, <1>4, <1>5, <1>6, <1>7, <1>8, <1>9, <1>10 DEF
       ServeInv

\* Spawning its task preserves the invariant.
LEMMA SpawnKeeps ==
    ASSUME ServeInv, Spawn
    PROVE  ServeInv'
  <1>1. TypeOK'
    BY DEF ServeInv, TypeOK, LoopPcs, Spawn, listen, loopVars, connVars
  <1>2. SetupOrder'
    BY DEF ServeInv, SetupOrder, TypeOK, Spawn, listen, loopVars, connVars
  <1>3. LiveIsKnown'
    BY DEF ServeInv, LiveIsKnown, TypeOK, SetupOrder, Spawn, listen,
       loopVars, connVars
  <1>4. LiveIsAbortable'
    BY DEF ServeInv, LiveIsAbortable, TypeOK, Spawn, listen, loopVars,
       connVars
  <1>5. NoLeak'
    BY DEF ServeInv, NoLeak, TypeOK, SetupOrder, Spawn, listen, loopVars,
       connVars
  <1>6. DrainProgress'
    BY DEF ServeInv, DrainProgress, TypeOK, Spawn, listen, loopVars,
       connVars
  <1>7. DrainReachesAll'
    BY DEF ServeInv, DrainReachesAll, TypeOK, Spawn, listen, loopVars,
       connVars
  <1>8. DropEndsAll'
    BY DEF ServeInv, DropEndsAll, TypeOK, Spawn, listen, loopVars, connVars
  <1>9. FailuresHeld'
    BY DEF ServeInv, FailuresHeld, TypeOK, SetupOrder, Spawn, listen,
       loopVars, connVars
  <1>10. ClosedHolds'
    BY DEF ServeInv, ClosedHolds, TypeOK, Spawn, listen, loopVars, connVars
  <1> QED
    BY <1>1, <1>2, <1>3, <1>4, <1>5, <1>6, <1>7, <1>8, <1>9, <1>10 DEF
       ServeInv

\* Backfilling the abort handle preserves the invariant.
LEMMA BackfillKeeps ==
    ASSUME ServeInv, Backfill
    PROVE  ServeInv'
  <1>1. TypeOK'
    BY DEF ServeInv, TypeOK, LoopPcs, Backfill, listen, loopVars, connVars
  <1>2. SetupOrder'
    BY DEF ServeInv, SetupOrder, TypeOK, Backfill, listen, loopVars,
       connVars
  <1>3. LiveIsAbortable'
    BY DEF ServeInv, LiveIsAbortable, TypeOK, LiveIsKnown, Backfill, listen,
       loopVars, connVars
  <1>4. NoLeak'
    BY DEF ServeInv, NoLeak, TypeOK, Backfill, listen, loopVars, connVars
  <1>5. DrainProgress'
    BY DEF ServeInv, DrainProgress, TypeOK, Backfill, listen, loopVars,
       connVars
  <1>6. DrainReachesAll'
    BY DEF ServeInv, DrainReachesAll, TypeOK, Backfill, listen, loopVars,
       connVars
  <1>7. DropEndsAll'
    BY DEF ServeInv, DropEndsAll, TypeOK, Backfill, listen, loopVars,
       connVars
  <1>8. FailuresHeld'
    BY DEF ServeInv, FailuresHeld, TypeOK, Backfill, listen, loopVars,
       connVars
  <1>9. ClosedHolds'
    BY DEF ServeInv, ClosedHolds, TypeOK, Backfill, listen, loopVars,
       connVars
  <1>10. LiveIsKnown'
    BY DEF ServeInv, LiveIsKnown, Backfill, listen, loopVars, connVars
  <1> QED
    BY <1>1, <1>2, <1>3, <1>4, <1>5, <1>6, <1>7, <1>8, <1>9, <1>10 DEF
       ServeInv

\* Leaving the loop preserves the invariant.
LEMMA StopKeeps ==
    ASSUME ServeInv, Stop
    PROVE  ServeInv'
  <1>1. TypeOK'
    BY DEF ServeInv, TypeOK, LoopPcs, Stop, listen, loopVars, connVars
  <1>2. SetupOrder'
    BY DEF ServeInv, SetupOrder, TypeOK, Stop, listen, loopVars, connVars
  <1>3. LiveIsAbortable'
    BY DEF ServeInv, LiveIsAbortable, TypeOK, Stop, listen, loopVars,
       connVars
  <1>4. NoLeak'
    BY DEF ServeInv, NoLeak, TypeOK, Stop, listen, loopVars, connVars
  <1>5. DrainProgress'
    BY DEF ServeInv, DrainProgress, TypeOK, Stop, listen, loopVars, connVars
  <1>6. DrainReachesAll'
    BY DEF ServeInv, DrainReachesAll, TypeOK, Stop, listen, loopVars,
       connVars
  <1>7. DropEndsAll'
    BY DEF ServeInv, DropEndsAll, TypeOK, Stop, listen, loopVars, connVars
  <1>8. FailuresHeld'
    BY DEF ServeInv, FailuresHeld, TypeOK, Stop, listen, loopVars, connVars
  <1>9. ClosedHolds'
    BY DEF ServeInv, ClosedHolds, TypeOK, Stop, listen, loopVars, connVars
  <1>10. LiveIsKnown'
    BY DEF ServeInv, LiveIsKnown, Stop, listen, loopVars, connVars
  <1> QED
    BY <1>1, <1>2, <1>3, <1>4, <1>5, <1>6, <1>7, <1>8, <1>9, <1>10 DEF
       ServeInv

\* Collecting the drain handles preserves the invariant.
LEMMA CollectKeeps ==
    ASSUME ServeInv, Collect
    PROVE  ServeInv'
  <1>1. TypeOK'
    BY DEF ServeInv, TypeOK, LoopPcs, Collect, listen, loopVars, connVars
  <1>2. SetupOrder'
    BY DEF ServeInv, SetupOrder, TypeOK, Collect, listen, loopVars, connVars
  <1>3. LiveIsAbortable'
    BY DEF ServeInv, LiveIsAbortable, TypeOK, Collect, listen, loopVars,
       connVars
  <1>4. NoLeak'
    BY DEF ServeInv, NoLeak, TypeOK, Collect, listen, loopVars, connVars
  <1>5. DrainProgress'
    BY DEF ServeInv, DrainProgress, TypeOK, LiveIsKnown, Collect, listen,
       loopVars, connVars
  <1>6. DrainReachesAll'
    BY DEF ServeInv, DrainReachesAll, TypeOK, Collect, listen, loopVars,
       connVars
  <1>7. DropEndsAll'
    BY DEF ServeInv, DropEndsAll, TypeOK, Collect, listen, loopVars,
       connVars
  <1>8. FailuresHeld'
    BY DEF ServeInv, FailuresHeld, TypeOK, Collect, listen, loopVars,
       connVars
  <1>9. ClosedHolds'
    BY DEF ServeInv, ClosedHolds, TypeOK, Collect, listen, loopVars,
       connVars
  <1>10. LiveIsKnown'
    BY DEF ServeInv, LiveIsKnown, Collect, listen, loopVars, connVars
  <1> QED
    BY <1>1, <1>2, <1>3, <1>4, <1>5, <1>6, <1>7, <1>8, <1>9, <1>10 DEF
       ServeInv

\* Draining one connection preserves the invariant.
LEMMA DrainOneKeeps ==
    ASSUME NEW c \in Conns, ServeInv, DrainOne(c)
    PROVE  ServeInv'
  <1>1. TypeOK'
    BY DEF ServeInv, TypeOK, LoopPcs, DrainOne, listen, loopVars, connVars
  <1>2. DrainProgress'
    BY DEF ServeInv, DrainProgress, TypeOK, DrainOne, listen, loopVars,
       connVars
  <1>3. DrainReachesAll'
    BY DEF ServeInv, DrainReachesAll, TypeOK, DrainOne, listen, loopVars,
       connVars
  <1>4. SetupOrder' /\ LiveIsKnown' /\ LiveIsAbortable' /\ NoLeak' /\
         DropEndsAll' /\ FailuresHeld' /\ ClosedHolds'
    BY DEF ServeInv, SetupOrder, LiveIsKnown, LiveIsAbortable, NoLeak,
       DropEndsAll, FailuresHeld, ClosedHolds, DrainOne, listen, loopVars,
       connVars
  <1> QED
    BY <1>1, <1>2, <1>3, <1>4 DEF ServeInv

\* Letting go of the loop's token preserves the invariant.
LEMMA DrainDoneKeeps ==
    ASSUME ServeInv, DrainDone
    PROVE  ServeInv'
  <1>1. TypeOK'
    BY DEF ServeInv, TypeOK, LoopPcs, DrainDone, listen, loopVars, connVars
  <1>2. SetupOrder'
    BY DEF ServeInv, SetupOrder, TypeOK, DrainDone, listen, loopVars,
       connVars
  <1>3. LiveIsAbortable'
    BY DEF ServeInv, LiveIsAbortable, TypeOK, DrainDone, listen, loopVars,
       connVars
  <1>4. NoLeak'
    BY DEF ServeInv, NoLeak, TypeOK, DrainDone, listen, loopVars, connVars
  <1>5. DrainProgress'
    BY DEF ServeInv, DrainProgress, TypeOK, DrainDone, listen, loopVars,
       connVars
  <1>6. DrainReachesAll'
    BY DEF ServeInv, DrainReachesAll, TypeOK, DrainProgress, DrainDone,
       listen, loopVars, connVars
  <1>7. DropEndsAll'
    BY DEF ServeInv, DropEndsAll, TypeOK, DrainDone, listen, loopVars,
       connVars
  <1>8. FailuresHeld'
    BY DEF ServeInv, FailuresHeld, TypeOK, DrainDone, listen, loopVars,
       connVars
  <1>9. ClosedHolds'
    BY DEF ServeInv, ClosedHolds, TypeOK, DrainDone, listen, loopVars,
       connVars
  <1>10. LiveIsKnown'
    BY DEF ServeInv, LiveIsKnown, DrainDone, listen, loopVars, connVars
  <1> QED
    BY <1>1, <1>2, <1>3, <1>4, <1>5, <1>6, <1>7, <1>8, <1>9, <1>10 DEF
       ServeInv

\* The barrier preserves the invariant.
LEMMA ClosedKeeps ==
    ASSUME ServeInv, Closed
    PROVE  ServeInv'
  <1>1. TypeOK'
    BY DEF ServeInv, TypeOK, LoopPcs, Closed, listen, loopVars, connVars
  <1>2. SetupOrder'
    BY DEF ServeInv, SetupOrder, TypeOK, Closed, listen, loopVars, connVars
  <1>3. LiveIsAbortable'
    BY DEF ServeInv, LiveIsAbortable, TypeOK, Closed, listen, loopVars,
       connVars
  <1>4. NoLeak'
    BY DEF ServeInv, NoLeak, TypeOK, Closed, listen, loopVars, connVars
  <1>5. DrainProgress'
    BY DEF ServeInv, DrainProgress, TypeOK, Closed, listen, loopVars,
       connVars
  <1>6. DrainReachesAll'
    BY DEF ServeInv, DrainReachesAll, TypeOK, Closed, listen, loopVars,
       connVars
  <1>7. DropEndsAll'
    BY DEF ServeInv, DropEndsAll, TypeOK, Closed, listen, loopVars, connVars
  <1>8. FailuresHeld'
    BY DEF ServeInv, FailuresHeld, TypeOK, Closed, listen, loopVars,
       connVars
  <1>9. ClosedHolds'
    BY DEF ServeInv, ClosedHolds, TypeOK, Closed, listen, loopVars, connVars
  <1>10. LiveIsKnown'
    BY DEF ServeInv, LiveIsKnown, Closed, listen, loopVars, connVars
  <1> QED
    BY <1>1, <1>2, <1>3, <1>4, <1>5, <1>6, <1>7, <1>8, <1>9, <1>10 DEF
       ServeInv

\* Dropping the server preserves the invariant.
LEMMA DropServerKeeps ==
    ASSUME ServeInv, DropServer
    PROVE  ServeInv'
  <1>1. TypeOK'
    BY DEF ServeInv, TypeOK, LoopPcs, DropServer, AbortAll, listen,
       loopVars, connVars
  <1>2. SetupOrder'
    BY DEF ServeInv, SetupOrder, TypeOK, DropServer, AbortAll, listen,
       loopVars, connVars
  <1>3. LiveIsAbortable'
    BY DEF ServeInv, LiveIsAbortable, TypeOK, DropServer, AbortAll, listen,
       loopVars, connVars
  <1>4. NoLeak'
    BY DEF ServeInv, NoLeak, TypeOK, DropServer, AbortAll, listen, loopVars,
       connVars
  <1>5. DrainProgress'
    BY DEF ServeInv, DrainProgress, TypeOK, DropServer, AbortAll, listen,
       loopVars, connVars
  <1>6. DrainReachesAll'
    BY DEF ServeInv, DrainReachesAll, TypeOK, DropServer, AbortAll, listen,
       loopVars, connVars
  <1>7. DropEndsAll'
    BY DEF ServeInv, DropEndsAll, TypeOK, LiveIsKnown, LiveIsAbortable,
       DropServer, AbortAll, listen, loopVars, connVars
  <1>8. FailuresHeld'
    BY DEF ServeInv, FailuresHeld, TypeOK, DropServer, AbortAll, listen,
       loopVars, connVars
  <1>9. ClosedHolds'
    BY DEF ServeInv, ClosedHolds, TypeOK, DropServer, AbortAll, listen,
       loopVars, connVars
  <1>10. LiveIsKnown'
    BY DEF ServeInv, LiveIsKnown, DropServer, AbortAll, listen, loopVars,
       connVars
  <1> QED
    BY <1>1, <1>2, <1>3, <1>4, <1>5, <1>6, <1>7, <1>8, <1>9, <1>10 DEF
       ServeInv

\* The end of a connection preserves the invariant.
LEMMA TaskEndsKeeps ==
    ASSUME NEW c \in Conns, ServeInv, TaskEnds(c)
    PROVE  ServeInv'
  <1>1. TypeOK'
    BY DEF ServeInv, TypeOK, LoopPcs, TaskEnds, listen, loopVars, connVars
  <1>2. SetupOrder'
    BY DEF ServeInv, SetupOrder, TypeOK, TaskEnds, listen, loopVars,
       connVars
  <1>3. LiveIsKnown'
    BY DEF ServeInv, LiveIsKnown, TypeOK, TaskEnds, listen, loopVars,
       connVars
  <1>4. LiveIsAbortable'
    BY DEF ServeInv, LiveIsAbortable, TypeOK, TaskEnds, listen, loopVars,
       connVars
  <1>5. NoLeak'
    BY DEF ServeInv, NoLeak, TypeOK, TaskEnds, listen, loopVars, connVars
  <1>6. DrainProgress'
    BY DEF ServeInv, DrainProgress, TypeOK, TaskEnds, listen, loopVars,
       connVars
  <1>7. DrainReachesAll'
    BY DEF ServeInv, DrainReachesAll, TypeOK, TaskEnds, listen, loopVars,
       connVars
  <1>8. DropEndsAll'
    BY DEF ServeInv, DropEndsAll, TypeOK, TaskEnds, listen, loopVars,
       connVars
  <1>9. FailuresHeld'
    BY DEF ServeInv, FailuresHeld, TypeOK, TaskEnds, listen, loopVars,
       connVars
  <1>10. ClosedHolds'
    BY DEF ServeInv, ClosedHolds, TaskEnds, listen, loopVars, connVars
  <1> QED
    BY <1>1, <1>2, <1>3, <1>4, <1>5, <1>6, <1>7, <1>8, <1>9, <1>10 DEF
       ServeInv

\* Removing an entry preserves the invariant.
LEMMA DeregisterKeeps ==
    ASSUME NEW c \in Conns, ServeInv, Deregister(c)
    PROVE  ServeInv'
  <1>1. TypeOK'
    BY DEF ServeInv, TypeOK, LoopPcs, Deregister, listen, loopVars, connVars
  <1>2. SetupOrder'
    BY DEF ServeInv, SetupOrder, TypeOK, Deregister, listen, loopVars,
       connVars
  <1>3. LiveIsKnown'
    BY DEF ServeInv, LiveIsKnown, TypeOK, Deregister, listen, loopVars,
       connVars
  <1>4. LiveIsAbortable'
    BY DEF ServeInv, LiveIsAbortable, TypeOK, Deregister, listen, loopVars,
       connVars
  <1>5. NoLeak'
    BY DEF ServeInv, NoLeak, TypeOK, Deregister, listen, loopVars, connVars
  <1>6. DrainProgress'
    BY DEF ServeInv, DrainProgress, TypeOK, Deregister, listen, loopVars,
       connVars
  <1>7. DrainReachesAll'
    BY DEF ServeInv, DrainReachesAll, TypeOK, Deregister, listen, loopVars,
       connVars
  <1>8. DropEndsAll'
    BY DEF ServeInv, DropEndsAll, TypeOK, Deregister, listen, loopVars,
       connVars
  <1>9. FailuresHeld'
    BY DEF ServeInv, FailuresHeld, TypeOK, Deregister, listen, loopVars,
       connVars
  <1>10. ClosedHolds'
    BY DEF ServeInv, ClosedHolds, Deregister, listen, loopVars, connVars
  <1> QED
    BY <1>1, <1>2, <1>3, <1>4, <1>5, <1>6, <1>7, <1>8, <1>9, <1>10 DEF
       ServeInv

\* The end of a task preserves the invariant.
LEMMA ReportKeeps ==
    ASSUME NEW c \in Conns, ServeInv, Report(c)
    PROVE  ServeInv'
  <1>1. TypeOK'
    BY DEF ServeInv, TypeOK, LoopPcs, Report, listen, loopVars, connVars
  <1>2. SetupOrder'
    BY DEF ServeInv, SetupOrder, TypeOK, Report, listen, loopVars, connVars
  <1>3. LiveIsKnown'
    BY DEF ServeInv, LiveIsKnown, TypeOK, Report, listen, loopVars, connVars
  <1>4. LiveIsAbortable'
    BY DEF ServeInv, LiveIsAbortable, TypeOK, Report, listen, loopVars,
       connVars
  <1>5. NoLeak'
    BY DEF ServeInv, NoLeak, TypeOK, Report, listen, loopVars, connVars
  <1>6. DrainProgress'
    BY DEF ServeInv, DrainProgress, TypeOK, Report, listen, loopVars,
       connVars
  <1>7. DrainReachesAll'
    BY DEF ServeInv, DrainReachesAll, TypeOK, Report, listen, loopVars,
       connVars
  <1>8. DropEndsAll'
    BY DEF ServeInv, DropEndsAll, TypeOK, Report, listen, loopVars, connVars
  <1>9. FailuresHeld'
    BY DEF ServeInv, FailuresHeld, TypeOK, Report, listen, loopVars,
       connVars
  <1>10. ClosedHolds'
    BY DEF ServeInv, ClosedHolds, TypeOK, Report, listen, loopVars, connVars
  <1> QED
    BY <1>1, <1>2, <1>3, <1>4, <1>5, <1>6, <1>7, <1>8, <1>9, <1>10 DEF
       ServeInv

\* The end of an aborted task preserves the invariant.
LEMMA CancelledKeeps ==
    ASSUME NEW c \in Conns, ServeInv, Cancelled(c)
    PROVE  ServeInv'
  <1>1. TypeOK'
    BY DEF ServeInv, TypeOK, LoopPcs, Cancelled, listen, loopVars, connVars
  <1>2. SetupOrder'
    BY DEF ServeInv, SetupOrder, TypeOK, Cancelled, listen, loopVars,
       connVars
  <1>3. LiveIsKnown'
    BY DEF ServeInv, LiveIsKnown, TypeOK, Cancelled, listen, loopVars,
       connVars
  <1>4. LiveIsAbortable'
    BY DEF ServeInv, LiveIsAbortable, TypeOK, Cancelled, listen, loopVars,
       connVars
  <1>5. NoLeak'
    BY DEF ServeInv, NoLeak, TypeOK, LiveIsAbortable, Cancelled, listen,
       loopVars, connVars
  <1>6. DrainProgress'
    BY DEF ServeInv, DrainProgress, TypeOK, Cancelled, listen, loopVars,
       connVars
  <1>7. DrainReachesAll'
    BY DEF ServeInv, DrainReachesAll, TypeOK, Cancelled, listen, loopVars,
       connVars
  <1>8. DropEndsAll'
    BY DEF ServeInv, DropEndsAll, TypeOK, Cancelled, listen, loopVars,
       connVars
  <1>9. FailuresHeld'
    BY DEF ServeInv, FailuresHeld, TypeOK, SetupOrder, Cancelled, listen,
       loopVars, connVars
  <1>10. ClosedHolds'
    BY DEF ServeInv, ClosedHolds, TypeOK, Cancelled, listen, loopVars,
       connVars
  <1> QED
    BY <1>1, <1>2, <1>3, <1>4, <1>5, <1>6, <1>7, <1>8, <1>9, <1>10 DEF
       ServeInv

-----------------------------------------------------------------------------
(* The theorems                                                            *)

\* Every step of the server preserves the invariant.
LEMMA StepKeeps == ServeInv /\ [Next]_vars => ServeInv'
  <1> SUFFICES ASSUME ServeInv, [Next]_vars PROVE ServeInv'
    OBVIOUS
  <1>1. CASE UNCHANGED vars
    BY <1>1 DEF vars, listen, loopVars, connVars, ServeInv, TypeOK,
       SetupOrder, LiveIsKnown, LiveIsAbortable, NoLeak, DrainProgress, DrainReachesAll, DropEndsAll,
       FailuresHeld, ClosedHolds
  <1>2. CASE StopSignal
    BY <1>2, StopSignalKeeps
  <1>3. CASE SourceTurns
    BY <1>3, SourceTurnsKeeps
  <1>4. CASE PollSelect
    BY <1>4, PollSelectKeeps
  <1>5. CASE PollPending
    BY <1>5, PollPendingKeeps
  <1>6. CASE AcceptFails
    BY <1>6, AcceptFailsKeeps
  <1>7. CASE PaceEnds
    BY <1>7, PaceEndsKeeps
  <1>8. ASSUME NEW c \in Conns, Accept(c) PROVE ServeInv'
    BY <1>8, AcceptKeeps
  <1>9. CASE ReportSetup
    BY <1>9, ReportSetupKeeps
  <1>10. CASE Insert
    BY <1>10, InsertKeeps
  <1>11. CASE Spawn
    BY <1>11, SpawnKeeps
  <1>12. CASE Backfill
    BY <1>12, BackfillKeeps
  <1>13. CASE Stop
    BY <1>13, StopKeeps
  <1>14. CASE Collect
    BY <1>14, CollectKeeps
  <1>15. ASSUME NEW c \in Conns, DrainOne(c) PROVE ServeInv'
    BY <1>15, DrainOneKeeps
  <1>16. CASE DrainDone
    BY <1>16, DrainDoneKeeps
  <1>17. CASE Closed
    BY <1>17, ClosedKeeps
  <1>18. CASE DropServer
    BY <1>18, DropServerKeeps
  <1>19. ASSUME NEW c \in Conns, TaskEnds(c) PROVE ServeInv'
    BY <1>19, TaskEndsKeeps
  <1>20. ASSUME NEW c \in Conns, Deregister(c) PROVE ServeInv'
    BY <1>20, DeregisterKeeps
  <1>21. ASSUME NEW c \in Conns, Report(c) PROVE ServeInv'
    BY <1>21, ReportKeeps
  <1>22. ASSUME NEW c \in Conns, Cancelled(c) PROVE ServeInv'
    BY <1>22, CancelledKeeps
  <1> QED
    BY <1>1, <1>2, <1>3, <1>4, <1>5, <1>6, <1>7, <1>8, <1>9, <1>10, <1>11,
       <1>12, <1>13, <1>14, <1>15, <1>16, <1>17, <1>18, <1>19, <1>20, <1>21,
       <1>22 DEF Next, LoopStep, TaskStep, Terminated

\* The invariant holds throughout every run of the server, for every set of
\* connections.
THEOREM ServeInvariant == Spec => []ServeInv
  <1>1. Init => ServeInv
    BY InitServe
  <1>2. ServeInv /\ [Next]_vars => ServeInv'
    BY StepKeeps
  <1> QED
    BY <1>1, <1>2, PTL DEF Spec

\* Every variable keeps its type (run_with's state).
THEOREM ServeTypeCorrect == Spec => []TypeOK
  <1>1. ServeInv => TypeOK
    BY DEF ServeInv
  <1> QED
    BY <1>1, ServeInvariant, PTL

\* The registry never leaks an entry while the server runs: registering before
\* the spawn and backfilling only what is still there are enough.
THEOREM RegistryDoesNotLeak == Spec => []NoLeak
  <1>1. ServeInv => NoLeak
    BY DEF ServeInv
  <1> QED
    BY <1>1, ServeInvariant, PTL

\* When the server waits for its connections, every one still running has been
\* asked to wind up.
THEOREM EveryoneIsDrained == Spec => []DrainReachesAll
  <1>1. ServeInv => DrainReachesAll
    BY DEF ServeInv
  <1> QED
    BY <1>1, ServeInvariant, PTL

\* The server resolves only after every connection has closed, left the
\* registry and had its failure reported.
THEOREM ResolvesWhenClosed == Spec => []DoneMeansClosed
  <1>1. ServeInv => DoneMeansClosed
    <2> SUFFICES ASSUME ServeInv, loop = "done"
                 PROVE  /\ \A c \in Conns : task[c] \in {"none", "gone"}
                        /\ registry = {}
                        /\ failures \subseteq reported
      BY DEF DoneMeansClosed
    <2>1. tokens = {}
      BY DEF ServeInv, ClosedHolds
    <2>2. \A c \in Conns : task[c] \in {"none", "gone"}
      BY <2>1 DEF ServeInv, TypeOK, LiveIsKnown
    <2>3. registry = {}
      BY <2>2 DEF ServeInv, TypeOK, NoLeak
    <2>4. failures \subseteq reported
      BY <2>2 DEF ServeInv, TypeOK, FailuresHeld
    <2> QED
      BY <2>2, <2>3, <2>4
  <1> QED
    BY <1>1, ServeInvariant, PTL

\* A dropped server leaves no connection running that it has not aborted.
THEOREM DropAbortsEveryone == Spec => []DropEndsAll
  <1>1. ServeInv => DropEndsAll
    BY DEF ServeInv
  <1> QED
    BY <1>1, ServeInvariant, PTL
=============================================================================
