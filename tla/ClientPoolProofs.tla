-------------------------- MODULE ClientPoolProofs --------------------------
(***************************************************************************)
(* Safety of the client pool, for any finite set of requests and any sets  *)
(* of origins, connections and shutdown callers.                           *)
(*                                                                         *)
(* The invariant PoolInv is inductive.  Its parts lean on one another: the *)
(* acquire count is exact, so the drain passes its wait only when nobody   *)
(* is inside acquire; then no slot is claimed and no dial is in the air,   *)
(* so the drain takes every driver and overwrites no claim.                *)
(***************************************************************************)
EXTENDS ClientPool, FiniteSetTheorems, TLAPS

\* A request that is about to file, publish or wind down holds its handle.
HoldsDialled ==
    \A r \in Requests :
        pc[r] \in {"file", "publish", "winddown"} => hold[r] \in Conns

\* A waiter's captured generation is never ahead of the slot's.
SeenIsPast ==
    \A r \in Requests : pc[r] = "waiting" => seen[r] <= gen[OriginOf[r]]

\* How far the drain has got, and what that excludes.
DrainOrder ==
    /\ drain # "none" => closed
    /\ drain \in {"take", "winding", "done"} => Registered = {}
    /\ drain \in {"winding", "done"} => drivers = {}
    /\ drain # "winding" => toJoin = {}
    /\ finished => drain = "done"

\* The inductive invariant.
PoolInv ==
    /\ TypeOK
    /\ HoldsDialled
    /\ CountIsExact
    /\ OneDialer
    /\ SeenIsPast
    /\ NoMissedBell
    /\ NoStrayDriver
    /\ DrainOrder

USE DEF reqVars, slotVars, stateVars, drainVars, connVars, Goto, Answer

-----------------------------------------------------------------------------

\* Every step keeps the types; the acquire count is left to CountStep.
LEMMA TypeStep ==
    ASSUME PoolInv, [Next]_vars
    PROVE  RequestTypes' /\ SlotTypes' /\ StateTypes'
<1> USE PoolAssumption DEF PoolInv, TypeOK, RequestTypes, SlotTypes,
      StateTypes, HoldsDialled, Pcs, AcquirePcs, DialerPcs, ExchangePcs,
      Outcomes
<1>1. CASE UNCHANGED vars
  BY <1>1 DEF vars
<1>2. ASSUME NEW r \in Requests, Offer(r) PROVE RequestTypes' /\ SlotTypes' /\ StateTypes'
  BY <1>2 DEF Offer
<1>3. ASSUME NEW r \in Requests, Register(r) PROVE RequestTypes' /\ SlotTypes' /\ StateTypes'
  BY <1>3 DEF Register
<1>4. ASSUME NEW r \in Requests, SlotFor(r) PROVE RequestTypes' /\ SlotTypes' /\ StateTypes'
  BY <1>4 DEF SlotFor
<1>5. ASSUME NEW r \in Requests, TakeReady(r) PROVE RequestTypes' /\ SlotTypes' /\ StateTypes'
  BY <1>5 DEF TakeReady
<1>6. ASSUME NEW r \in Requests, Claim(r) PROVE RequestTypes' /\ SlotTypes' /\ StateTypes'
  BY <1>6 DEF Claim, ClaimSlot
<1>7. ASSUME NEW r \in Requests, Inherit(r) PROVE RequestTypes' /\ SlotTypes' /\ StateTypes'
  BY <1>7 DEF Inherit
<1>8. ASSUME NEW r \in Requests, Park(r) PROVE RequestTypes' /\ SlotTypes' /\ StateTypes'
  BY <1>8 DEF Park, Dialers
<1>9. ASSUME NEW r \in Requests, Wake(r) PROVE RequestTypes' /\ SlotTypes' /\ StateTypes'
  BY <1>9 DEF Wake
<1>10. ASSUME NEW r \in Requests, DialOk(r) PROVE RequestTypes' /\ SlotTypes' /\ StateTypes'
  BY <1>10 DEF DialOk
<1>11. ASSUME NEW r \in Requests, DialErr(r) PROVE RequestTypes' /\ SlotTypes' /\ StateTypes'
  <2>1. OriginOf[r] \in Origins /\ gen[OriginOf[r]] + 1 \in Nat
    BY PoolAssumption
  <2>2. RequestTypes' /\ StateTypes'
    BY <1>11 DEF DialErr
  <2>3. SlotTypes'
    BY <1>11, <2>1 DEF DialErr, Settle
  <2> QED BY <2>2, <2>3
<1>12. ASSUME NEW r \in Requests, File(r) PROVE RequestTypes' /\ SlotTypes' /\ StateTypes'
  BY <1>12 DEF File
<1>13. ASSUME NEW r \in Requests, Publish(r) PROVE RequestTypes' /\ SlotTypes' /\ StateTypes'
  <2>1. OriginOf[r] \in Origins /\ gen[OriginOf[r]] + 1 \in Nat
    BY PoolAssumption
  <2>2. RequestTypes' /\ StateTypes'
    BY <1>13 DEF Publish
  <2>3. SlotTypes'
    BY <1>13, <2>1 DEF Publish, Settle
  <2> QED BY <2>2, <2>3
<1>14. ASSUME NEW r \in Requests, WindDown(r) PROVE RequestTypes' /\ SlotTypes' /\ StateTypes'
  BY <1>14 DEF WindDown
<1>15. ASSUME NEW r \in Requests, Unpublish(r) PROVE RequestTypes' /\ SlotTypes' /\ StateTypes'
  <2>1. OriginOf[r] \in Origins /\ gen[OriginOf[r]] + 1 \in Nat
    BY PoolAssumption
  <2>2. RequestTypes' /\ StateTypes'
    BY <1>15 DEF Unpublish
  <2>3. SlotTypes'
    BY <1>15, <2>1 DEF Unpublish, Settle
  <2> QED BY <2>2, <2>3
<1>16. ASSUME NEW r \in Requests, Release(r) PROVE RequestTypes' /\ SlotTypes' /\ StateTypes'
  BY <1>16 DEF Release
<1>17. ASSUME NEW r \in Requests, Send(r) PROVE RequestTypes' /\ SlotTypes' /\ StateTypes'
  <2>1. pc' \in [Requests -> Pcs]
    BY <1>17 DEF Send
  <2>4. retriable' \in [Requests -> BOOLEAN]
    BY <1>17 DEF Send
  <2>2. stream' \in [Requests -> Conns \union {NoConn}]
    BY <1>17 DEF Send
  <2>3. UNCHANGED <<hold, waited, seen, outcome, slotVars, stateVars,
                    drainVars, connVars, caller>>
    BY <1>17 DEF Send
  <2> QED BY <2>1, <2>2, <2>3, <2>4
<1>18. ASSUME NEW r \in Requests, Head(r) PROVE RequestTypes' /\ SlotTypes' /\ StateTypes'
  BY <1>18 DEF Head
<1>19. ASSUME NEW r \in Requests, ExchangeFails(r) PROVE RequestTypes' /\ SlotTypes' /\ StateTypes'
  BY <1>19 DEF ExchangeFails
<1>20. ASSUME NEW r \in Requests, Classify(r) PROVE RequestTypes' /\ SlotTypes' /\ StateTypes'
  BY <1>20 DEF Classify
<1>21. ASSUME NEW r \in Requests, StreamEnds(r) PROVE RequestTypes' /\ SlotTypes' /\ StateTypes'
  BY <1>21 DEF StreamEnds
<1>22. ASSUME NEW r \in Requests, DropDial(r) PROVE RequestTypes' /\ SlotTypes' /\ StateTypes'
  <2>1. OriginOf[r] \in Origins /\ gen[OriginOf[r]] + 1 \in Nat
    BY PoolAssumption
  <2>2. RequestTypes' /\ StateTypes'
    BY <1>22 DEF DropDial
  <2>3. SlotTypes'
    BY <1>22, <2>1 DEF DropDial, Settle
  <2> QED BY <2>2, <2>3
<1>23. ASSUME NEW r \in Requests, CancelWait(r) PROVE RequestTypes' /\ SlotTypes' /\ StateTypes'
  BY <1>23 DEF CancelWait
<1>24. ASSUME NEW r \in Requests, CancelDial(r) PROVE RequestTypes' /\ SlotTypes' /\ StateTypes'
  BY <1>24 DEF CancelDial
<1>25. ASSUME NEW r \in Requests, CancelExchange(r) PROVE RequestTypes' /\ SlotTypes' /\ StateTypes'
  BY <1>25 DEF CancelExchange
<1>26. ASSUME NEW c \in Conns, PeerGoaway(c) PROVE RequestTypes' /\ SlotTypes' /\ StateTypes'
  BY <1>26 DEF PeerGoaway
<1>27. ASSUME NEW c \in Conns, ConnLost(c) PROVE RequestTypes' /\ SlotTypes' /\ StateTypes'
  BY <1>27 DEF ConnLost
<1>28. ASSUME NEW c \in Conns, DriverEnds(c) PROVE RequestTypes' /\ SlotTypes' /\ StateTypes'
  BY <1>28 DEF DriverEnds
<1>29. ASSUME NEW k \in Callers, Shutdown(k) PROVE RequestTypes' /\ SlotTypes' /\ StateTypes'
  BY <1>29 DEF Shutdown
<1>30. ASSUME NEW k \in Callers, ShutdownReturns(k) PROVE RequestTypes' /\ SlotTypes' /\ StateTypes'
  BY <1>30 DEF ShutdownReturns
<1>31. ASSUME NEW k \in Callers, GiveUp(k) PROVE RequestTypes' /\ SlotTypes' /\ StateTypes'
  BY <1>31 DEF GiveUp
<1>32. CASE DrainWaits
  BY <1>32 DEF DrainWaits
<1>33. CASE DrainTake
  BY <1>33 DEF DrainTake
<1>34. ASSUME NEW o \in Origins, DrainSlot(o) PROVE RequestTypes' /\ SlotTypes' /\ StateTypes'
  BY <1>34 DEF DrainSlot
<1>35. ASSUME NEW c \in Conns, DrainJoin(c) PROVE RequestTypes' /\ SlotTypes' /\ StateTypes'
  BY <1>35 DEF DrainJoin
<1>36. CASE DrainFinish
  BY <1>36 DEF DrainFinish
<1>37. QED
  BY <1>1, <1>2, <1>3, <1>4, <1>5, <1>6, <1>7, <1>8, <1>9, <1>10, <1>11,
        <1>12, <1>13, <1>14, <1>15, <1>16, <1>17, <1>18, <1>19, <1>20, <1>21,
        <1>22, <1>23, <1>24, <1>25, <1>26, <1>27, <1>28, <1>29, <1>30, <1>31,
        <1>32, <1>33, <1>34, <1>35, <1>36 DEF Next, RequestStep, Cancel,
        DrainStep, Quiet

\* Only DialOk enters the states in which the handle is needed.
LEMMA HoldStep ==
    ASSUME PoolInv, [Next]_vars
    PROVE  HoldsDialled'
<1> USE DEF PoolInv, TypeOK, RequestTypes, HoldsDialled
<1>1. CASE UNCHANGED vars
  BY <1>1 DEF vars
<1>2. ASSUME NEW r \in Requests, Offer(r) PROVE HoldsDialled'
  BY <1>2 DEF Offer
<1>3. ASSUME NEW r \in Requests, Register(r) PROVE HoldsDialled'
  BY <1>3 DEF Register
<1>4. ASSUME NEW r \in Requests, SlotFor(r) PROVE HoldsDialled'
  BY <1>4 DEF SlotFor
<1>5. ASSUME NEW r \in Requests, TakeReady(r) PROVE HoldsDialled'
  BY <1>5 DEF TakeReady
<1>6. ASSUME NEW r \in Requests, Claim(r) PROVE HoldsDialled'
  BY <1>6 DEF Claim
<1>7. ASSUME NEW r \in Requests, Inherit(r) PROVE HoldsDialled'
  BY <1>7 DEF Inherit
<1>8. ASSUME NEW r \in Requests, Park(r) PROVE HoldsDialled'
  BY <1>8 DEF Park
<1>9. ASSUME NEW r \in Requests, Wake(r) PROVE HoldsDialled'
  BY <1>9 DEF Wake
<1>10. ASSUME NEW r \in Requests, DialOk(r) PROVE HoldsDialled'
  BY <1>10 DEF DialOk
<1>11. ASSUME NEW r \in Requests, DialErr(r) PROVE HoldsDialled'
  BY <1>11 DEF DialErr
<1>12. ASSUME NEW r \in Requests, File(r) PROVE HoldsDialled'
  BY <1>12 DEF File
<1>13. ASSUME NEW r \in Requests, Publish(r) PROVE HoldsDialled'
  BY <1>13 DEF Publish
<1>14. ASSUME NEW r \in Requests, WindDown(r) PROVE HoldsDialled'
  BY <1>14 DEF WindDown
<1>15. ASSUME NEW r \in Requests, Unpublish(r) PROVE HoldsDialled'
  BY <1>15 DEF Unpublish
<1>16. ASSUME NEW r \in Requests, Release(r) PROVE HoldsDialled'
  BY <1>16 DEF Release
<1>17. ASSUME NEW r \in Requests, Send(r) PROVE HoldsDialled'
  BY <1>17 DEF Send
<1>18. ASSUME NEW r \in Requests, Head(r) PROVE HoldsDialled'
  BY <1>18 DEF Head
<1>19. ASSUME NEW r \in Requests, ExchangeFails(r) PROVE HoldsDialled'
  BY <1>19 DEF ExchangeFails
<1>20. ASSUME NEW r \in Requests, Classify(r) PROVE HoldsDialled'
  BY <1>20 DEF Classify
<1>21. ASSUME NEW r \in Requests, StreamEnds(r) PROVE HoldsDialled'
  BY <1>21 DEF StreamEnds
<1>22. ASSUME NEW r \in Requests, DropDial(r) PROVE HoldsDialled'
  BY <1>22 DEF DropDial
<1>23. ASSUME NEW r \in Requests, CancelWait(r) PROVE HoldsDialled'
  BY <1>23 DEF CancelWait
<1>24. ASSUME NEW r \in Requests, CancelDial(r) PROVE HoldsDialled'
  BY <1>24 DEF CancelDial
<1>25. ASSUME NEW r \in Requests, CancelExchange(r) PROVE HoldsDialled'
  BY <1>25 DEF CancelExchange
<1>26. ASSUME NEW c \in Conns, PeerGoaway(c) PROVE HoldsDialled'
  BY <1>26 DEF PeerGoaway
<1>27. ASSUME NEW c \in Conns, ConnLost(c) PROVE HoldsDialled'
  BY <1>27 DEF ConnLost
<1>28. ASSUME NEW c \in Conns, DriverEnds(c) PROVE HoldsDialled'
  BY <1>28 DEF DriverEnds
<1>29. ASSUME NEW k \in Callers, Shutdown(k) PROVE HoldsDialled'
  BY <1>29 DEF Shutdown
<1>30. ASSUME NEW k \in Callers, ShutdownReturns(k) PROVE HoldsDialled'
  BY <1>30 DEF ShutdownReturns
<1>31. ASSUME NEW k \in Callers, GiveUp(k) PROVE HoldsDialled'
  BY <1>31 DEF GiveUp
<1>32. CASE DrainWaits
  BY <1>32 DEF DrainWaits
<1>33. CASE DrainTake
  BY <1>33 DEF DrainTake
<1>34. ASSUME NEW o \in Origins, DrainSlot(o) PROVE HoldsDialled'
  BY <1>34 DEF DrainSlot
<1>35. ASSUME NEW c \in Conns, DrainJoin(c) PROVE HoldsDialled'
  BY <1>35 DEF DrainJoin
<1>36. CASE DrainFinish
  BY <1>36 DEF DrainFinish
<1>37. QED
  BY <1>1, <1>2, <1>3, <1>4, <1>5, <1>6, <1>7, <1>8, <1>9, <1>10, <1>11,
        <1>12, <1>13, <1>14, <1>15, <1>16, <1>17, <1>18, <1>19, <1>20, <1>21,
        <1>22, <1>23, <1>24, <1>25, <1>26, <1>27, <1>28, <1>29, <1>30, <1>31,
        <1>32, <1>33, <1>34, <1>35, <1>36 DEF Next, RequestStep, Cancel,
        DrainStep, Quiet

\* What leaves a finite set takes one from its cardinality.
LEMMA TakeOne ==
    ASSUME NEW S, IsFiniteSet(S), NEW x \in S, NEW T, T = S \ {x}
    PROVE  Cardinality(T) = Cardinality(S) - 1 /\ Cardinality(T) \in Nat
<1>1. IsFiniteSet(T) /\ Cardinality(T) = Cardinality(S) - 1
  BY FS_RemoveElement
<1> QED BY <1>1, FS_CardinalityType

\* Register adds one member and one to the count, Release takes one of each,
\* and no other step enters or leaves acquire.
LEMMA CountStep ==
    ASSUME PoolInv, [Next]_vars
    PROVE  CountIsExact' /\ acquires' \in Nat
<1> USE DEF PoolInv, TypeOK, RequestTypes, CountIsExact, Registered,
      AcquirePcs, DialerPcs, Pcs, ExchangePcs
<1>1. CASE UNCHANGED vars
  BY <1>1 DEF vars
<1>2. ASSUME NEW r \in Requests, Offer(r) PROVE CountIsExact' /\ acquires' \in Nat
  BY <1>2 DEF Offer
<1>3. ASSUME NEW r \in Requests, Register(r) PROVE CountIsExact' /\ acquires' \in Nat
  <2>1. Registered \in SUBSET Requests /\ IsFiniteSet(Registered)
    BY PoolAssumption, FS_Subset DEF Registered
  <2>2. CASE closed
    BY <1>3, <2>2 DEF Register
  <2>3. CASE ~closed
    <3>1. r \notin Registered /\ Registered' = Registered \union {r}
      BY <1>3, <2>3 DEF Register
    <3>2. acquires' = acquires + 1
      BY <1>3, <2>3 DEF Register
    <3>3. Cardinality(Registered') = Cardinality(Registered) + 1
      BY <2>1, <3>1, FS_AddElement
    <3> QED BY <3>2, <3>3
  <2> QED BY <2>2, <2>3
<1>4. ASSUME NEW r \in Requests, SlotFor(r) PROVE CountIsExact' /\ acquires' \in Nat
  BY <1>4 DEF SlotFor
<1>5. ASSUME NEW r \in Requests, TakeReady(r) PROVE CountIsExact' /\ acquires' \in Nat
  BY <1>5 DEF TakeReady
<1>6. ASSUME NEW r \in Requests, Claim(r) PROVE CountIsExact' /\ acquires' \in Nat
  BY <1>6 DEF Claim, ClaimSlot
<1>7. ASSUME NEW r \in Requests, Inherit(r) PROVE CountIsExact' /\ acquires' \in Nat
  BY <1>7 DEF Inherit
<1>8. ASSUME NEW r \in Requests, Park(r) PROVE CountIsExact' /\ acquires' \in Nat
  BY <1>8 DEF Park
<1>9. ASSUME NEW r \in Requests, Wake(r) PROVE CountIsExact' /\ acquires' \in Nat
  BY <1>9 DEF Wake
<1>10. ASSUME NEW r \in Requests, DialOk(r) PROVE CountIsExact' /\ acquires' \in Nat
  BY <1>10 DEF DialOk
<1>11. ASSUME NEW r \in Requests, DialErr(r) PROVE CountIsExact' /\ acquires' \in Nat
  BY <1>11 DEF DialErr, Settle
<1>12. ASSUME NEW r \in Requests, File(r) PROVE CountIsExact' /\ acquires' \in Nat
  BY <1>12 DEF File
<1>13. ASSUME NEW r \in Requests, Publish(r) PROVE CountIsExact' /\ acquires' \in Nat
  BY <1>13 DEF Publish, Settle
<1>14. ASSUME NEW r \in Requests, WindDown(r) PROVE CountIsExact' /\ acquires' \in Nat
  BY <1>14 DEF WindDown
<1>15. ASSUME NEW r \in Requests, Unpublish(r) PROVE CountIsExact' /\ acquires' \in Nat
  BY <1>15 DEF Unpublish, Settle
<1>16. ASSUME NEW r \in Requests, Release(r) PROVE CountIsExact' /\ acquires' \in Nat
  <2>1. Registered \in SUBSET Requests /\ IsFiniteSet(Registered)
    BY PoolAssumption, FS_Subset DEF Registered
  <2>2. r \in Registered /\ Registered' = Registered \ {r}
    BY <1>16 DEF Release
  <2>3. acquires' = acquires - 1
    BY <1>16 DEF Release
  <2>4. Cardinality(Registered') = Cardinality(Registered) - 1 /\ Cardinality(Registered') \in Nat
    <3> HIDE DEF Registered
    <3> QED BY <2>1, <2>2, TakeOne, Zenon
  <2> QED BY <2>3, <2>4
<1>17. ASSUME NEW r \in Requests, Send(r) PROVE CountIsExact' /\ acquires' \in Nat
  BY <1>17 DEF Send
<1>18. ASSUME NEW r \in Requests, Head(r) PROVE CountIsExact' /\ acquires' \in Nat
  BY <1>18 DEF Head
<1>19. ASSUME NEW r \in Requests, ExchangeFails(r) PROVE CountIsExact' /\ acquires' \in Nat
  BY <1>19 DEF ExchangeFails
<1>20. ASSUME NEW r \in Requests, Classify(r) PROVE CountIsExact' /\ acquires' \in Nat
  BY <1>20 DEF Classify
<1>21. ASSUME NEW r \in Requests, StreamEnds(r) PROVE CountIsExact' /\ acquires' \in Nat
  BY <1>21 DEF StreamEnds
<1>22. ASSUME NEW r \in Requests, DropDial(r) PROVE CountIsExact' /\ acquires' \in Nat
  BY <1>22 DEF DropDial, Settle
<1>23. ASSUME NEW r \in Requests, CancelWait(r) PROVE CountIsExact' /\ acquires' \in Nat
  BY <1>23 DEF CancelWait
<1>24. ASSUME NEW r \in Requests, CancelDial(r) PROVE CountIsExact' /\ acquires' \in Nat
  BY <1>24 DEF CancelDial
<1>25. ASSUME NEW r \in Requests, CancelExchange(r) PROVE CountIsExact' /\ acquires' \in Nat
  BY <1>25 DEF CancelExchange
<1>26. ASSUME NEW c \in Conns, PeerGoaway(c) PROVE CountIsExact' /\ acquires' \in Nat
  BY <1>26 DEF PeerGoaway
<1>27. ASSUME NEW c \in Conns, ConnLost(c) PROVE CountIsExact' /\ acquires' \in Nat
  BY <1>27 DEF ConnLost
<1>28. ASSUME NEW c \in Conns, DriverEnds(c) PROVE CountIsExact' /\ acquires' \in Nat
  BY <1>28 DEF DriverEnds
<1>29. ASSUME NEW k \in Callers, Shutdown(k) PROVE CountIsExact' /\ acquires' \in Nat
  BY <1>29 DEF Shutdown
<1>30. ASSUME NEW k \in Callers, ShutdownReturns(k) PROVE CountIsExact' /\ acquires' \in Nat
  BY <1>30 DEF ShutdownReturns
<1>31. ASSUME NEW k \in Callers, GiveUp(k) PROVE CountIsExact' /\ acquires' \in Nat
  BY <1>31 DEF GiveUp
<1>32. CASE DrainWaits
  BY <1>32 DEF DrainWaits
<1>33. CASE DrainTake
  BY <1>33 DEF DrainTake
<1>34. ASSUME NEW o \in Origins, DrainSlot(o) PROVE CountIsExact' /\ acquires' \in Nat
  BY <1>34 DEF DrainSlot
<1>35. ASSUME NEW c \in Conns, DrainJoin(c) PROVE CountIsExact' /\ acquires' \in Nat
  BY <1>35 DEF DrainJoin
<1>36. CASE DrainFinish
  BY <1>36 DEF DrainFinish
<1>37. QED
  BY <1>1, <1>2, <1>3, <1>4, <1>5, <1>6, <1>7, <1>8, <1>9, <1>10, <1>11,
        <1>12, <1>13, <1>14, <1>15, <1>16, <1>17, <1>18, <1>19, <1>20, <1>21,
        <1>22, <1>23, <1>24, <1>25, <1>26, <1>27, <1>28, <1>29, <1>30, <1>31,
        <1>32, <1>33, <1>34, <1>35, <1>36 DEF Next, RequestStep, Cancel,
        DrainStep, Quiet

\* A step that moves no slot and no dialer keeps one dialer per claim.
LEMMA SameDialers ==
    ASSUME OneDialer, dial' = dial,
           \A s \in Requests : pc'[s] \in DialerPcs <=> pc[s] \in DialerPcs
    PROVE  OneDialer'
BY DEF OneDialer, Dialers

\* A claim is made under the slot lock on a slot nobody has claimed, and is
\* given up only together with the Dialing state.
LEMMA DialerStep ==
    ASSUME PoolInv, [Next]_vars
    PROVE  OneDialer'
<1> USE PoolAssumption DEF PoolInv, TypeOK, RequestTypes, SlotTypes, DialerPcs
<1>1. CASE UNCHANGED vars
  BY <1>1, SameDialers DEF vars
<1>2. ASSUME NEW r \in Requests, Offer(r) PROVE OneDialer'
  BY <1>2, SameDialers DEF Offer
<1>3. ASSUME NEW r \in Requests, Register(r) PROVE OneDialer'
  BY <1>3, SameDialers DEF Register
<1>4. ASSUME NEW r \in Requests, SlotFor(r) PROVE OneDialer'
  BY <1>4, SameDialers DEF SlotFor
<1>5. ASSUME NEW r \in Requests, TakeReady(r) PROVE OneDialer'
  BY <1>5, SameDialers DEF TakeReady
<1>6. ASSUME NEW r \in Requests, Claim(r) PROVE OneDialer'
  BY <1>6 DEF Claim, OneDialer, Dialers, ClaimSlot
<1>7. ASSUME NEW r \in Requests, Inherit(r) PROVE OneDialer'
  BY <1>7, SameDialers DEF Inherit
<1>8. ASSUME NEW r \in Requests, Park(r) PROVE OneDialer'
  BY <1>8, SameDialers DEF Park
<1>9. ASSUME NEW r \in Requests, Wake(r) PROVE OneDialer'
  BY <1>9, SameDialers DEF Wake
<1>10. ASSUME NEW r \in Requests, DialOk(r) PROVE OneDialer'
  BY <1>10, SameDialers DEF DialOk
<1>11. ASSUME NEW r \in Requests, DialErr(r) PROVE OneDialer'
  BY <1>11 DEF DialErr, OneDialer, Dialers, Settle
<1>12. ASSUME NEW r \in Requests, File(r) PROVE OneDialer'
  BY <1>12, SameDialers DEF File
<1>13. ASSUME NEW r \in Requests, Publish(r) PROVE OneDialer'
  BY <1>13 DEF Publish, OneDialer, Dialers, Settle
<1>14. ASSUME NEW r \in Requests, WindDown(r) PROVE OneDialer'
  BY <1>14, SameDialers DEF WindDown
<1>15. ASSUME NEW r \in Requests, Unpublish(r) PROVE OneDialer'
  BY <1>15 DEF Unpublish, OneDialer, Dialers, Settle
<1>16. ASSUME NEW r \in Requests, Release(r) PROVE OneDialer'
  BY <1>16, SameDialers DEF Release
<1>17. ASSUME NEW r \in Requests, Send(r) PROVE OneDialer'
  BY <1>17, SameDialers DEF Send
<1>18. ASSUME NEW r \in Requests, Head(r) PROVE OneDialer'
  BY <1>18, SameDialers DEF Head
<1>19. ASSUME NEW r \in Requests, ExchangeFails(r) PROVE OneDialer'
  BY <1>19, SameDialers DEF ExchangeFails
<1>20. ASSUME NEW r \in Requests, Classify(r) PROVE OneDialer'
  BY <1>20, SameDialers DEF Classify
<1>21. ASSUME NEW r \in Requests, StreamEnds(r) PROVE OneDialer'
  BY <1>21, SameDialers DEF StreamEnds
<1>22. ASSUME NEW r \in Requests, DropDial(r) PROVE OneDialer'
  BY <1>22 DEF DropDial, OneDialer, Dialers, Settle
<1>23. ASSUME NEW r \in Requests, CancelWait(r) PROVE OneDialer'
  BY <1>23, SameDialers DEF CancelWait
<1>24. ASSUME NEW r \in Requests, CancelDial(r) PROVE OneDialer'
  BY <1>24, SameDialers DEF CancelDial
<1>25. ASSUME NEW r \in Requests, CancelExchange(r) PROVE OneDialer'
  BY <1>25, SameDialers DEF CancelExchange
<1>26. ASSUME NEW c \in Conns, PeerGoaway(c) PROVE OneDialer'
  BY <1>26, SameDialers DEF PeerGoaway
<1>27. ASSUME NEW c \in Conns, ConnLost(c) PROVE OneDialer'
  BY <1>27, SameDialers DEF ConnLost
<1>28. ASSUME NEW c \in Conns, DriverEnds(c) PROVE OneDialer'
  BY <1>28, SameDialers DEF DriverEnds
<1>29. ASSUME NEW k \in Callers, Shutdown(k) PROVE OneDialer'
  BY <1>29, SameDialers DEF Shutdown
<1>30. ASSUME NEW k \in Callers, ShutdownReturns(k) PROVE OneDialer'
  BY <1>30, SameDialers DEF ShutdownReturns
<1>31. ASSUME NEW k \in Callers, GiveUp(k) PROVE OneDialer'
  BY <1>31, SameDialers DEF GiveUp
<1>32. CASE DrainWaits
  BY <1>32, SameDialers DEF DrainWaits
<1>33. CASE DrainTake
  BY <1>33, SameDialers DEF DrainTake
<1>34. ASSUME NEW o \in Origins, DrainSlot(o) PROVE OneDialer'
  BY <1>34 DEF DrainSlot, OneDialer, Dialers, AcquirePcs, Registered,
        DrainOrder
<1>35. ASSUME NEW c \in Conns, DrainJoin(c) PROVE OneDialer'
  BY <1>35, SameDialers DEF DrainJoin
<1>36. CASE DrainFinish
  BY <1>36, SameDialers DEF DrainFinish
<1>37. QED
  BY <1>1, <1>2, <1>3, <1>4, <1>5, <1>6, <1>7, <1>8, <1>9, <1>10, <1>11,
        <1>12, <1>13, <1>14, <1>15, <1>16, <1>17, <1>18, <1>19, <1>20, <1>21,
        <1>22, <1>23, <1>24, <1>25, <1>26, <1>27, <1>28, <1>29, <1>30, <1>31,
        <1>32, <1>33, <1>34, <1>35, <1>36 DEF Next, RequestStep, Cancel,
        DrainStep, Quiet

\* Leaving Dialing advances the generation, so a waiter that captured the
\* old one is woken; the drain rings no bell but meets no waiter.
LEMMA BellStep ==
    ASSUME PoolInv, [Next]_vars
    PROVE  NoMissedBell' /\ SeenIsPast'
<1> USE PoolAssumption DEF PoolInv, TypeOK, RequestTypes, SlotTypes,
      NoMissedBell, SeenIsPast
<1>1. CASE UNCHANGED vars
  BY <1>1 DEF vars
<1>2. ASSUME NEW r \in Requests, Offer(r) PROVE NoMissedBell' /\ SeenIsPast'
  BY <1>2 DEF Offer
<1>3. ASSUME NEW r \in Requests, Register(r) PROVE NoMissedBell' /\ SeenIsPast'
  BY <1>3 DEF Register
<1>4. ASSUME NEW r \in Requests, SlotFor(r) PROVE NoMissedBell' /\ SeenIsPast'
  BY <1>4 DEF SlotFor
<1>5. ASSUME NEW r \in Requests, TakeReady(r) PROVE NoMissedBell' /\ SeenIsPast'
  BY <1>5 DEF TakeReady
<1>6. ASSUME NEW r \in Requests, Claim(r) PROVE NoMissedBell' /\ SeenIsPast'
  BY <1>6 DEF Claim, ClaimSlot
<1>7. ASSUME NEW r \in Requests, Inherit(r) PROVE NoMissedBell' /\ SeenIsPast'
  BY <1>7 DEF Inherit
<1>8. ASSUME NEW r \in Requests, Park(r) PROVE NoMissedBell' /\ SeenIsPast'
  BY <1>8 DEF Park
<1>9. ASSUME NEW r \in Requests, Wake(r) PROVE NoMissedBell' /\ SeenIsPast'
  BY <1>9 DEF Wake
<1>10. ASSUME NEW r \in Requests, DialOk(r) PROVE NoMissedBell' /\ SeenIsPast'
  BY <1>10 DEF DialOk
<1>11. ASSUME NEW r \in Requests, DialErr(r) PROVE NoMissedBell' /\ SeenIsPast'
  <2>1. OriginOf[r] \in Origins /\ gen[OriginOf[r]] \in Nat
    BY PoolAssumption
  <2>2. \A s \in Requests : pc'[s] = "waiting" =>
            pc[s] = "waiting" /\ seen'[s] = seen[s]
    BY <1>11 DEF DialErr
  <2>3. /\ gen'[OriginOf[r]] = gen[OriginOf[r]] + 1
        /\ \A o \in Origins \ {OriginOf[r]} :
               gen'[o] = gen[o] /\ dial'[o] = dial[o]
    BY <1>11, <2>1 DEF DialErr, Settle
  <2>4. \A s \in Requests : OriginOf[s] \in Origins /\ seen[s] \in Nat
    BY PoolAssumption
  <2> QED BY <2>1, <2>2, <2>3, <2>4
<1>12. ASSUME NEW r \in Requests, File(r) PROVE NoMissedBell' /\ SeenIsPast'
  BY <1>12 DEF File
<1>13. ASSUME NEW r \in Requests, Publish(r) PROVE NoMissedBell' /\ SeenIsPast'
  <2>1. OriginOf[r] \in Origins /\ gen[OriginOf[r]] \in Nat
    BY PoolAssumption
  <2>2. \A s \in Requests : pc'[s] = "waiting" =>
            pc[s] = "waiting" /\ seen'[s] = seen[s]
    BY <1>13 DEF Publish
  <2>3. /\ gen'[OriginOf[r]] = gen[OriginOf[r]] + 1
        /\ \A o \in Origins \ {OriginOf[r]} :
               gen'[o] = gen[o] /\ dial'[o] = dial[o]
    BY <1>13, <2>1 DEF Publish, Settle
  <2>4. \A s \in Requests : OriginOf[s] \in Origins /\ seen[s] \in Nat
    BY PoolAssumption
  <2> QED BY <2>1, <2>2, <2>3, <2>4
<1>14. ASSUME NEW r \in Requests, WindDown(r) PROVE NoMissedBell' /\ SeenIsPast'
  BY <1>14 DEF WindDown
<1>15. ASSUME NEW r \in Requests, Unpublish(r) PROVE NoMissedBell' /\ SeenIsPast'
  <2>1. OriginOf[r] \in Origins /\ gen[OriginOf[r]] \in Nat
    BY PoolAssumption
  <2>2. \A s \in Requests : pc'[s] = "waiting" =>
            pc[s] = "waiting" /\ seen'[s] = seen[s]
    BY <1>15 DEF Unpublish
  <2>3. /\ gen'[OriginOf[r]] = gen[OriginOf[r]] + 1
        /\ \A o \in Origins \ {OriginOf[r]} :
               gen'[o] = gen[o] /\ dial'[o] = dial[o]
    BY <1>15, <2>1 DEF Unpublish, Settle
  <2>4. \A s \in Requests : OriginOf[s] \in Origins /\ seen[s] \in Nat
    BY PoolAssumption
  <2> QED BY <2>1, <2>2, <2>3, <2>4
<1>16. ASSUME NEW r \in Requests, Release(r) PROVE NoMissedBell' /\ SeenIsPast'
  BY <1>16 DEF Release
<1>17. ASSUME NEW r \in Requests, Send(r) PROVE NoMissedBell' /\ SeenIsPast'
  BY <1>17 DEF Send
<1>18. ASSUME NEW r \in Requests, Head(r) PROVE NoMissedBell' /\ SeenIsPast'
  BY <1>18 DEF Head
<1>19. ASSUME NEW r \in Requests, ExchangeFails(r) PROVE NoMissedBell' /\ SeenIsPast'
  BY <1>19 DEF ExchangeFails
<1>20. ASSUME NEW r \in Requests, Classify(r) PROVE NoMissedBell' /\ SeenIsPast'
  BY <1>20 DEF Classify
<1>21. ASSUME NEW r \in Requests, StreamEnds(r) PROVE NoMissedBell' /\ SeenIsPast'
  BY <1>21 DEF StreamEnds
<1>22. ASSUME NEW r \in Requests, DropDial(r) PROVE NoMissedBell' /\ SeenIsPast'
  <2>1. OriginOf[r] \in Origins /\ gen[OriginOf[r]] \in Nat
    BY PoolAssumption
  <2>2. \A s \in Requests : pc'[s] = "waiting" =>
            pc[s] = "waiting" /\ seen'[s] = seen[s]
    BY <1>22 DEF DropDial
  <2>3. /\ gen'[OriginOf[r]] = gen[OriginOf[r]] + 1
        /\ \A o \in Origins \ {OriginOf[r]} :
               gen'[o] = gen[o] /\ dial'[o] = dial[o]
    BY <1>22, <2>1 DEF DropDial, Settle
  <2>4. \A s \in Requests : OriginOf[s] \in Origins /\ seen[s] \in Nat
    BY PoolAssumption
  <2> QED BY <2>1, <2>2, <2>3, <2>4
<1>23. ASSUME NEW r \in Requests, CancelWait(r) PROVE NoMissedBell' /\ SeenIsPast'
  BY <1>23 DEF CancelWait
<1>24. ASSUME NEW r \in Requests, CancelDial(r) PROVE NoMissedBell' /\ SeenIsPast'
  BY <1>24 DEF CancelDial
<1>25. ASSUME NEW r \in Requests, CancelExchange(r) PROVE NoMissedBell' /\ SeenIsPast'
  BY <1>25 DEF CancelExchange
<1>26. ASSUME NEW c \in Conns, PeerGoaway(c) PROVE NoMissedBell' /\ SeenIsPast'
  BY <1>26 DEF PeerGoaway
<1>27. ASSUME NEW c \in Conns, ConnLost(c) PROVE NoMissedBell' /\ SeenIsPast'
  BY <1>27 DEF ConnLost
<1>28. ASSUME NEW c \in Conns, DriverEnds(c) PROVE NoMissedBell' /\ SeenIsPast'
  BY <1>28 DEF DriverEnds
<1>29. ASSUME NEW k \in Callers, Shutdown(k) PROVE NoMissedBell' /\ SeenIsPast'
  BY <1>29 DEF Shutdown
<1>30. ASSUME NEW k \in Callers, ShutdownReturns(k) PROVE NoMissedBell' /\ SeenIsPast'
  BY <1>30 DEF ShutdownReturns
<1>31. ASSUME NEW k \in Callers, GiveUp(k) PROVE NoMissedBell' /\ SeenIsPast'
  BY <1>31 DEF GiveUp
<1>32. CASE DrainWaits
  BY <1>32 DEF DrainWaits
<1>33. CASE DrainTake
  BY <1>33 DEF DrainTake
<1>34. ASSUME NEW o \in Origins, DrainSlot(o) PROVE NoMissedBell' /\ SeenIsPast'
  BY <1>34 DEF DrainSlot, AcquirePcs, Registered, DrainOrder
<1>35. ASSUME NEW c \in Conns, DrainJoin(c) PROVE NoMissedBell' /\ SeenIsPast'
  BY <1>35 DEF DrainJoin
<1>36. CASE DrainFinish
  BY <1>36 DEF DrainFinish
<1>37. QED
  BY <1>1, <1>2, <1>3, <1>4, <1>5, <1>6, <1>7, <1>8, <1>9, <1>10, <1>11,
        <1>12, <1>13, <1>14, <1>15, <1>16, <1>17, <1>18, <1>19, <1>20, <1>21,
        <1>22, <1>23, <1>24, <1>25, <1>26, <1>27, <1>28, <1>29, <1>30, <1>31,
        <1>32, <1>33, <1>34, <1>35, <1>36 DEF Next, RequestStep, Cancel,
        DrainStep, Quiet

\* A driver leaves `drivers` only when it has ended, or for the drain's list.
LEMMA StrayStep ==
    ASSUME PoolInv, [Next]_vars
    PROVE  NoStrayDriver'
<1> USE DEF PoolInv, TypeOK, RequestTypes, StateTypes, NoStrayDriver,
      DrainOrder
<1>1. CASE UNCHANGED vars
  BY <1>1 DEF vars
<1>2. ASSUME NEW r \in Requests, Offer(r) PROVE NoStrayDriver'
  BY <1>2 DEF Offer
<1>3. ASSUME NEW r \in Requests, Register(r) PROVE NoStrayDriver'
  BY <1>3 DEF Register
<1>4. ASSUME NEW r \in Requests, SlotFor(r) PROVE NoStrayDriver'
  BY <1>4 DEF SlotFor
<1>5. ASSUME NEW r \in Requests, TakeReady(r) PROVE NoStrayDriver'
  BY <1>5 DEF TakeReady
<1>6. ASSUME NEW r \in Requests, Claim(r) PROVE NoStrayDriver'
  BY <1>6 DEF Claim
<1>7. ASSUME NEW r \in Requests, Inherit(r) PROVE NoStrayDriver'
  BY <1>7 DEF Inherit
<1>8. ASSUME NEW r \in Requests, Park(r) PROVE NoStrayDriver'
  BY <1>8 DEF Park
<1>9. ASSUME NEW r \in Requests, Wake(r) PROVE NoStrayDriver'
  BY <1>9 DEF Wake
<1>10. ASSUME NEW r \in Requests, DialOk(r) PROVE NoStrayDriver'
  BY <1>10 DEF DialOk
<1>11. ASSUME NEW r \in Requests, DialErr(r) PROVE NoStrayDriver'
  BY <1>11 DEF DialErr
<1>12. ASSUME NEW r \in Requests, File(r) PROVE NoStrayDriver'
  BY <1>12 DEF File
<1>13. ASSUME NEW r \in Requests, Publish(r) PROVE NoStrayDriver'
  BY <1>13 DEF Publish
<1>14. ASSUME NEW r \in Requests, WindDown(r) PROVE NoStrayDriver'
  BY <1>14 DEF WindDown
<1>15. ASSUME NEW r \in Requests, Unpublish(r) PROVE NoStrayDriver'
  BY <1>15 DEF Unpublish
<1>16. ASSUME NEW r \in Requests, Release(r) PROVE NoStrayDriver'
  BY <1>16 DEF Release
<1>17. ASSUME NEW r \in Requests, Send(r) PROVE NoStrayDriver'
  BY <1>17 DEF Send
<1>18. ASSUME NEW r \in Requests, Head(r) PROVE NoStrayDriver'
  BY <1>18 DEF Head
<1>19. ASSUME NEW r \in Requests, ExchangeFails(r) PROVE NoStrayDriver'
  BY <1>19 DEF ExchangeFails
<1>20. ASSUME NEW r \in Requests, Classify(r) PROVE NoStrayDriver'
  BY <1>20 DEF Classify
<1>21. ASSUME NEW r \in Requests, StreamEnds(r) PROVE NoStrayDriver'
  BY <1>21 DEF StreamEnds
<1>22. ASSUME NEW r \in Requests, DropDial(r) PROVE NoStrayDriver'
  BY <1>22 DEF DropDial
<1>23. ASSUME NEW r \in Requests, CancelWait(r) PROVE NoStrayDriver'
  BY <1>23 DEF CancelWait
<1>24. ASSUME NEW r \in Requests, CancelDial(r) PROVE NoStrayDriver'
  BY <1>24 DEF CancelDial
<1>25. ASSUME NEW r \in Requests, CancelExchange(r) PROVE NoStrayDriver'
  BY <1>25 DEF CancelExchange
<1>26. ASSUME NEW c \in Conns, PeerGoaway(c) PROVE NoStrayDriver'
  BY <1>26 DEF PeerGoaway
<1>27. ASSUME NEW c \in Conns, ConnLost(c) PROVE NoStrayDriver'
  BY <1>27 DEF ConnLost
<1>28. ASSUME NEW c \in Conns, DriverEnds(c) PROVE NoStrayDriver'
  BY <1>28 DEF DriverEnds
<1>29. ASSUME NEW k \in Callers, Shutdown(k) PROVE NoStrayDriver'
  BY <1>29 DEF Shutdown
<1>30. ASSUME NEW k \in Callers, ShutdownReturns(k) PROVE NoStrayDriver'
  BY <1>30 DEF ShutdownReturns
<1>31. ASSUME NEW k \in Callers, GiveUp(k) PROVE NoStrayDriver'
  BY <1>31 DEF GiveUp
<1>32. CASE DrainWaits
  BY <1>32 DEF DrainWaits
<1>33. CASE DrainTake
  BY <1>33 DEF DrainTake
<1>34. ASSUME NEW o \in Origins, DrainSlot(o) PROVE NoStrayDriver'
  BY <1>34 DEF DrainSlot
<1>35. ASSUME NEW c \in Conns, DrainJoin(c) PROVE NoStrayDriver'
  BY <1>35 DEF DrainJoin
<1>36. CASE DrainFinish
  BY <1>36 DEF DrainFinish
<1>37. QED
  BY <1>1, <1>2, <1>3, <1>4, <1>5, <1>6, <1>7, <1>8, <1>9, <1>10, <1>11,
        <1>12, <1>13, <1>14, <1>15, <1>16, <1>17, <1>18, <1>19, <1>20, <1>21,
        <1>22, <1>23, <1>24, <1>25, <1>26, <1>27, <1>28, <1>29, <1>30, <1>31,
        <1>32, <1>33, <1>34, <1>35, <1>36 DEF Next, RequestStep, Cancel,
        DrainStep, Quiet

\* Nothing registers once the flag is set, so an empty pool stays empty.
LEMMA OrderStep ==
    ASSUME PoolInv, [Next]_vars
    PROVE  DrainOrder'
<1> USE DEF PoolInv, TypeOK, RequestTypes, StateTypes, DrainOrder, Registered,
      AcquirePcs, DialerPcs
<1>1. CASE UNCHANGED vars
  BY <1>1 DEF vars
<1>2. ASSUME NEW r \in Requests, Offer(r) PROVE DrainOrder'
  BY <1>2 DEF Offer
<1>3. ASSUME NEW r \in Requests, Register(r) PROVE DrainOrder'
  BY <1>3 DEF Register
<1>4. ASSUME NEW r \in Requests, SlotFor(r) PROVE DrainOrder'
  BY <1>4 DEF SlotFor
<1>5. ASSUME NEW r \in Requests, TakeReady(r) PROVE DrainOrder'
  BY <1>5 DEF TakeReady
<1>6. ASSUME NEW r \in Requests, Claim(r) PROVE DrainOrder'
  BY <1>6 DEF Claim
<1>7. ASSUME NEW r \in Requests, Inherit(r) PROVE DrainOrder'
  BY <1>7 DEF Inherit
<1>8. ASSUME NEW r \in Requests, Park(r) PROVE DrainOrder'
  BY <1>8 DEF Park
<1>9. ASSUME NEW r \in Requests, Wake(r) PROVE DrainOrder'
  BY <1>9 DEF Wake
<1>10. ASSUME NEW r \in Requests, DialOk(r) PROVE DrainOrder'
  BY <1>10 DEF DialOk
<1>11. ASSUME NEW r \in Requests, DialErr(r) PROVE DrainOrder'
  BY <1>11 DEF DialErr
<1>12. ASSUME NEW r \in Requests, File(r) PROVE DrainOrder'
  BY <1>12 DEF File
<1>13. ASSUME NEW r \in Requests, Publish(r) PROVE DrainOrder'
  BY <1>13 DEF Publish
<1>14. ASSUME NEW r \in Requests, WindDown(r) PROVE DrainOrder'
  BY <1>14 DEF WindDown
<1>15. ASSUME NEW r \in Requests, Unpublish(r) PROVE DrainOrder'
  BY <1>15 DEF Unpublish
<1>16. ASSUME NEW r \in Requests, Release(r) PROVE DrainOrder'
  BY <1>16 DEF Release
<1>17. ASSUME NEW r \in Requests, Send(r) PROVE DrainOrder'
  BY <1>17 DEF Send
<1>18. ASSUME NEW r \in Requests, Head(r) PROVE DrainOrder'
  BY <1>18 DEF Head
<1>19. ASSUME NEW r \in Requests, ExchangeFails(r) PROVE DrainOrder'
  BY <1>19 DEF ExchangeFails
<1>20. ASSUME NEW r \in Requests, Classify(r) PROVE DrainOrder'
  BY <1>20 DEF Classify
<1>21. ASSUME NEW r \in Requests, StreamEnds(r) PROVE DrainOrder'
  BY <1>21 DEF StreamEnds
<1>22. ASSUME NEW r \in Requests, DropDial(r) PROVE DrainOrder'
  BY <1>22 DEF DropDial
<1>23. ASSUME NEW r \in Requests, CancelWait(r) PROVE DrainOrder'
  BY <1>23 DEF CancelWait
<1>24. ASSUME NEW r \in Requests, CancelDial(r) PROVE DrainOrder'
  BY <1>24 DEF CancelDial
<1>25. ASSUME NEW r \in Requests, CancelExchange(r) PROVE DrainOrder'
  BY <1>25 DEF CancelExchange
<1>26. ASSUME NEW c \in Conns, PeerGoaway(c) PROVE DrainOrder'
  BY <1>26 DEF PeerGoaway
<1>27. ASSUME NEW c \in Conns, ConnLost(c) PROVE DrainOrder'
  BY <1>27 DEF ConnLost
<1>28. ASSUME NEW c \in Conns, DriverEnds(c) PROVE DrainOrder'
  BY <1>28 DEF DriverEnds
<1>29. ASSUME NEW k \in Callers, Shutdown(k) PROVE DrainOrder'
  BY <1>29 DEF Shutdown
<1>30. ASSUME NEW k \in Callers, ShutdownReturns(k) PROVE DrainOrder'
  BY <1>30 DEF ShutdownReturns
<1>31. ASSUME NEW k \in Callers, GiveUp(k) PROVE DrainOrder'
  BY <1>31 DEF GiveUp
<1>32. CASE DrainWaits
  <2>1. Registered \in SUBSET Requests /\ IsFiniteSet(Registered)
    BY PoolAssumption, FS_Subset DEF Registered
  <2>2. Registered = {}
    BY <1>32, <2>1, FS_EmptySet DEF DrainWaits, CountIsExact
  <2>3. Registered' = {}
    BY <1>32, <2>2 DEF DrainWaits, Registered
  <2> QED BY <1>32, <2>3 DEF DrainWaits
<1>33. CASE DrainTake
  BY <1>33 DEF DrainTake
<1>34. ASSUME NEW o \in Origins, DrainSlot(o) PROVE DrainOrder'
  BY <1>34 DEF DrainSlot
<1>35. ASSUME NEW c \in Conns, DrainJoin(c) PROVE DrainOrder'
  BY <1>35 DEF DrainJoin
<1>36. CASE DrainFinish
  BY <1>36 DEF DrainFinish
<1>37. QED
  BY <1>1, <1>2, <1>3, <1>4, <1>5, <1>6, <1>7, <1>8, <1>9, <1>10, <1>11,
        <1>12, <1>13, <1>14, <1>15, <1>16, <1>17, <1>18, <1>19, <1>20, <1>21,
        <1>22, <1>23, <1>24, <1>25, <1>26, <1>27, <1>28, <1>29, <1>30, <1>31,
        <1>32, <1>33, <1>34, <1>35, <1>36 DEF Next, RequestStep, Cancel,
        DrainStep, Quiet

-----------------------------------------------------------------------------
\* PoolInv holds of every reachable state.
THEOREM PoolInvariant == Spec => []PoolInv
<1>1. Init => PoolInv
  <2> SUFFICES ASSUME Init PROVE PoolInv
    OBVIOUS
  <2>1. Registered = {}
    BY DEF Init, Registered, AcquirePcs, DialerPcs
  <2>2. TypeOK
    BY DEF Init, TypeOK, RequestTypes, SlotTypes, StateTypes, Pcs, Outcomes
  <2>3. CountIsExact
    BY <2>1, FS_EmptySet DEF Init, CountIsExact
  <2>4. OneDialer /\ SeenIsPast /\ NoMissedBell
    BY PoolAssumption
    DEF Init, OneDialer, SeenIsPast, NoMissedBell, Dialers, DialerPcs
  <2>5. HoldsDialled /\ NoStrayDriver /\ DrainOrder
    BY <2>1 DEF Init, HoldsDialled, NoStrayDriver, DrainOrder
  <2> QED BY <2>2, <2>3, <2>4, <2>5 DEF PoolInv
<1>2. PoolInv /\ [Next]_vars => PoolInv'
  BY TypeStep, HoldStep, CountStep, DialerStep, BellStep, StrayStep, OrderStep
  DEF PoolInv, TypeOK
<1> QED BY <1>1, <1>2, PTL DEF Spec

\* TypeOK, for every instance; in particular the acquire count stays a natural
\* number, so AcquireGuard's decrement never wraps.
THEOREM TypeCorrect == Spec => []TypeOK
<1>1. PoolInv => TypeOK BY DEF PoolInv
<1> QED BY <1>1, PoolInvariant, PTL

\* A slot is Dialing exactly while one request is responsible for it.
THEOREM SingleFlight == Spec => []OneDialer
<1>1. PoolInv => OneDialer BY DEF PoolInv
<1> QED BY <1>1, PoolInvariant, PTL

\* No parked request has missed the bell it is waiting for.
THEOREM BellsAreHeard == Spec => []NoMissedBell
<1>1. PoolInv => NoMissedBell BY DEF PoolInv
<1> QED BY <1>1, PoolInvariant, PTL

\* The acquire count is exact and no running driver is detached.
THEOREM CountsAndDrivers == Spec => [](CountIsExact /\ NoStrayDriver)
<1>1. PoolInv => CountIsExact /\ NoStrayDriver BY DEF PoolInv
<1> QED BY <1>1, PoolInvariant, PTL

\* When Client::shutdown reports completion, every connection has ended: the
\* drain took the drivers after the last acquire had filed its own.
THEOREM HonestShutdown == Spec => []ShutdownIsHonest
<1>1. PoolInv => ShutdownIsHonest
  BY DEF PoolInv, ShutdownIsHonest, NoStrayDriver, DrainOrder, Registered,
         AcquirePcs, DialerPcs
<1> QED BY <1>1, PoolInvariant, PTL

\* The drain, which rings no bell, never overwrites a claimed slot.
THEOREM BellOnEverySettle == Spec => DialingEndsWithBell
<1>1. PoolInv /\ [Next]_vars =>
        [\A o \in Origins : dial[o] = "Dialing" /\ dial'[o] # "Dialing"
                                => gen'[o] # gen[o]]_vars
  <2> SUFFICES ASSUME PoolInv, [Next]_vars, NEW p \in Origins,
                      dial[p] = "Dialing", dial'[p] # "Dialing"
               PROVE  gen'[p] # gen[p]
    OBVIOUS
  <2> USE PoolAssumption DEF PoolInv, TypeOK, SlotTypes
  <2>1. ASSUME NEW r \in Requests,
               DialErr(r) \/ Publish(r) \/ Unpublish(r) \/ DropDial(r)
        PROVE  gen'[p] # gen[p]
    <3>1. OriginOf[r] \in Origins /\ gen[p] \in Nat
      OBVIOUS
    <3>2. gen' = [gen EXCEPT ![OriginOf[r]] = gen[OriginOf[r]] + 1]
      BY <2>1 DEF DialErr, Publish, Unpublish, DropDial, Settle
    <3>3. p = OriginOf[r]
      BY <2>1 DEF DialErr, Publish, Unpublish, DropDial, Settle
    <3> QED BY <3>1, <3>2, <3>3
  <2>2. ASSUME NEW r \in Requests, Claim(r) PROVE FALSE
    BY <2>2 DEF Claim, ClaimSlot
  <2>3. ASSUME NEW o \in Origins, DrainSlot(o) PROVE FALSE
    <3>1. Registered = {}
      BY <2>3 DEF DrainSlot, DrainOrder
    <3> QED BY <3>1 DEF OneDialer, Dialers, Registered, AcquirePcs
  <2>4. dial' # dial
    OBVIOUS
  <2> QED
    BY <2>1, <2>2, <2>3, <2>4
    DEF Next, vars, RequestStep, Cancel, DrainStep, Quiet, Offer, Register,
        SlotFor, TakeReady, Inherit, Park, Wake, DialOk, File, WindDown,
        Release, Send, Head, ExchangeFails, Classify, StreamEnds, CancelWait,
        CancelDial, CancelExchange, PeerGoaway, ConnLost, DriverEnds, Shutdown,
        ShutdownReturns, GiveUp, DrainWaits, DrainTake, DrainJoin, DrainFinish
<1> QED BY <1>1, PoolInvariant, PTL DEF Spec, DialingEndsWithBell

=============================================================================
