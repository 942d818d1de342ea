--------------------------- MODULE PoolLaunchProofs ---------------------------
(***************************************************************************)
(* Theorems about PoolLaunch, for every set of users and members, every    *)
(* number of rows and every bound: its type invariant, the accounting of   *)
(* slots, and that it implements SlotPool.                                 *)
(***************************************************************************)
EXTENDS PoolLaunch, FiniteSetTheorems, TLAPS

-----------------------------------------------------------------------------
(* Sets of rows.                                                            *)

\* Every set of rows is finite, and a part is no larger than the whole.
LEMMA RowSets ==
    ASSUME NEW S \in SUBSET QIds
    PROVE  /\ IsFiniteSet(S)
           /\ Cardinality(S) \in Nat
           /\ \A T \in SUBSET S : Cardinality(T) <= Cardinality(S)
<1>1. IsFiniteSet(QIds)
    BY SizesAssumption, FS_Interval DEF QIds
<1>2. IsFiniteSet(S)
    BY <1>1, FS_Subset
<1> QED
    BY <1>2, FS_Subset, FS_CardinalityType

\* Two sets of rows together.
LEMMA RowsTogether ==
    ASSUME NEW S \in SUBSET QIds, NEW T \in SUBSET QIds
    PROVE  Cardinality(S \cup T) <= Cardinality(S) + Cardinality(T)
<1>1. S \cap T \in SUBSET QIds
    OBVIOUS
<1>2. /\ IsFiniteSet(S) /\ IsFiniteSet(T)
      /\ Cardinality(S) \in Nat /\ Cardinality(T) \in Nat
      /\ Cardinality(S \cap T) \in Nat
    BY <1>1, RowSets
<1>3. Cardinality(S \cup T) = Cardinality(S) + Cardinality(T) - Cardinality(S \cap T)
    BY <1>2, FS_Union
<1> QED
    BY <1>2, <1>3

\* The service's updates of the status column yield statuses.
LEMMA StatusUpdates ==
    ASSUME TypeOK
    PROVE  /\ ExpireOverdue \in [QIds -> RowStates]
           /\ \A q \in QIds : ExpireOverdue[q] \in {status[q], "expired"}
           /\ \A st \in [QIds -> RowStates], q \in QIds, s \in RowStates :
                 [st EXCEPT ![q] = s] \in [QIds -> RowStates]
           /\ \A p \in QIds :
                 /\ Polled(p) \in [QIds -> RowStates]
                 /\ \A q \in QIds : Polled(p)[q] \in {status[q], "expired", "cancelled"}
BY DEF TypeOK, ExpireOverdue, Polled, RowStates, LiveStates

-----------------------------------------------------------------------------
(* Type correctness.  FulfilRow and LaunchFails hand the assigned member    *)
(* to remote_app_health, so TypeOK needs that a row that holds a            *)
(* reservation, or whose request is in flight, has one; a new row has no    *)
(* member, so that needs that a row nobody launched has no request in       *)
(* flight; and that needs that a failed launch left no session behind.      *)

MembersAssigned ==
    \A q \in QIds :
        status[q] \in ReservedStates \/ flight[q] # "none" => assigned[q] \in Apps

ConnectingHasNoSession ==
    \A q \in QIds : flight[q] \in {"starting", "calling"} => session[q] = "none"

PickedHasHead == dpc = "picked" => head # None

\* A request that is about to reserve has picked its member.
RequestHasMember == req # None /\ req.step = "reserve" => req.member \in Apps

LaunchInv ==
    /\ TypeOK
    /\ RequestHasMember
    /\ PickedHasHead
    /\ MembersAssigned
    /\ ConnectingHasNoSession
    /\ WaitingRowIsUnlaunched

\* The initial state has the types.
LEMMA InitTypes == Init => LaunchInv
BY SizesAssumption
   DEF Init, LaunchInv, TypeOK, MembersAssigned, ConnectingHasNoSession,
            WaitingRowIsUnlaunched, PickedHasHead, RequestHasMember, requestVars, ReservedStates, QIds, RowStates, LiveStates, FlightStates, SessionStates

\* A request's decision at most ends rows.
Ends(st) ==
    /\ st \in [QIds -> RowStates]
    /\ \A q \in QIds : st[q] \in {status[q], "expired", "cancelled"}

\* What a request's decision changes, besides the request.
LEMMA DecisionTypes ==
    ASSUME LaunchInv, NEW st, Ends(st), Decides(st), req' \in Requests \cup {None},
           usable' \subseteq Apps, late' = late, RequestHasMember'
    PROVE  LaunchInv'
<1>0. TypeOK
    BY DEF LaunchInv
<1> QED
    BY <1>0, StatusUpdates
       DEF LaunchInv, TypeOK, MembersAssigned, ConnectingHasNoSession,
           WaitingRowIsUnlaunched, PickedHasHead, ReservedStates, Decides, Ends,
           configVars, sessionVars, dispatcherVars

\* Launch requests keep the types.
LEMMA RequestTypes ==
    ASSUME LaunchInv,
           \/ RequestStep
           \/ \E u \in Users, a \in Apps, row \in QIds \cup {None} : RequestAsks(u, a, row)
    PROVE  LaunchInv'
<1>0. TypeOK
    BY DEF LaunchInv
<1>1. Ends(ExpireOverdue) /\ \A q \in QIds : Ends(Polled(q))
    BY <1>0, StatusUpdates DEF Ends
<1>2. CASE PrepareReturnsLiveRow \/ PrepareRefuses \/ ConsumeFindsNotReady
    <2>1. PICK st : Ends(st) /\ Decides(st)
        BY <1>0, <1>1, <1>2
           DEF PrepareReturnsLiveRow, PrepareRefuses, ConsumeFindsNotReady,
               EntersConsume, Live, TypeOK, Requests
    <2> QED
        BY <1>2, <2>1, DecisionTypes
           DEF PrepareReturnsLiveRow, PrepareRefuses, ConsumeFindsNotReady, RequestDone,
               RequestHasMember
<1>3. CASE PrepareQueues \/ ConsumeMayStart
    <2>1. req' \in Requests /\ req'.step \in {"enqueue", "consume"}
        BY <1>0, <1>3 DEF PrepareQueues, ConsumeMayStart, EntersPrepare, EntersConsume,
                          TypeOK, Requests
    <2> QED
        BY <1>0, <1>1, <1>3, <2>1, DecisionTypes
           DEF PrepareQueues, ConsumeMayStart, RequestHasMember, TypeOK
<1>4. CASE PrepareReserves
    <2>1. req' \in Requests /\ req'.member \in Apps
        BY <1>0, <1>4 DEF PrepareReserves, EntersPrepare, LaunchableMembers, TypeOK, Requests
    <2> QED
        BY <1>0, <1>1, <1>4, <2>1, DecisionTypes DEF PrepareReserves, RequestHasMember, TypeOK
<1>5. CASE ConsumeCancels
    <2>1. Ends([ExpireOverdue EXCEPT ![req.row] = "cancelled"])
        BY <1>0, <1>5, StatusUpdates
           DEF ConsumeCancels, EntersConsume, TypeOK, Requests, Ends, RowStates
    <2> QED
        BY <1>5, <2>1, DecisionTypes DEF ConsumeCancels, RequestDone, RequestHasMember
<1> USE <1>0 DEF LaunchInv, TypeOK, MembersAssigned, ConnectingHasNoSession,
            WaitingRowIsUnlaunched, PickedHasHead, RequestHasMember, ReservedStates,
            configVars, rowVars, sessionVars, dispatcherVars, RequestDone
<1>6. CASE RequestFindsPoolBusy
    BY <1>6 DEF RequestFindsPoolBusy
<1>7. ASSUME NEW q \in QIds, EnqueueRequest(q)
      PROVE  LaunchInv'
    <2>1. PICK s \in {"queued", "cancelled"} : InsertRow(q, s) /\ flight' = flight
        BY <1>7 DEF EnqueueRequest
    <2> QED
        BY <1>7, <2>1 DEF EnqueueRequest, InsertRow, IsNextId, Requests, RowStates, LiveStates
<1>8. ASSUME NEW q \in QIds, CreateLaunchReservation(q)
      PROVE  LaunchInv'
    BY <1>8 DEF CreateLaunchReservation, InsertRow, IsNextId, Requests, RowStates,
                LiveStates, FlightStates
<1>9. ASSUME NEW q \in QIds, QueueMarkLaunching(q)
      PROVE  LaunchInv'
    BY <1>9 DEF QueueMarkLaunching, StillReady, RowStates, LiveStates, FlightStates
<1>10. ASSUME NEW u \in Users, NEW a \in Apps, NEW row \in QIds \cup {None},
             RequestAsks(u, a, row)
      PROVE  LaunchInv'
    BY <1>10 DEF RequestAsks, UsableBy, Requests
<1> QED
    BY <1>2, <1>3, <1>4, <1>5, <1>6, <1>7, <1>8, <1>9, <1>10 DEF RequestStep

\* A launch under way keeps the types.
LEMMA LaunchStepTypes ==
    ASSUME LaunchInv, NEW q \in QIds, LaunchStep(q) \/ LaunchDies(q)
    PROVE  LaunchInv'
<1> USE DEF LaunchInv, TypeOK, MembersAssigned, ConnectingHasNoSession,
            WaitingRowIsUnlaunched, PickedHasHead, RequestHasMember, requestVars, ReservedStates, configVars, rowVars, sessionVars, dispatcherVars, FlightStates,
            RowStates, LiveStates
<1>1. CASE BuildConnections(q)
    BY <1>1 DEF BuildConnections
<1>2. CASE LaunchFails(q)
    BY <1>2 DEF LaunchFails, MayFail, Requeue
<1>3. CASE RecordSession(q)
    BY <1>3 DEF RecordSession, SessionStates, OccupiedStates
<1>4. CASE FulfilRow(q)
    BY <1>4 DEF FulfilRow
<1>5. CASE LaunchDies(q)
    BY <1>5 DEF LaunchDies, Spend, Kinds
<1> QED
    BY <1>1, <1>2, <1>3, <1>4, <1>5 DEF LaunchStep

\* The dispatcher keeps the types.
LEMMA DispatchTypes ==
    ASSUME LaunchInv, Dispatch
    PROVE  LaunchInv'
<1>0. TypeOK
    BY DEF LaunchInv
<1>1. Cardinality(Occupied) \in Nat /\ Cardinality(Reserved(status)) \in Nat
    BY RowSets DEF Occupied, Reserved
<1> USE <1>0 DEF LaunchInv, TypeOK, MembersAssigned, ConnectingHasNoSession,
            WaitingRowIsUnlaunched, PickedHasHead, RequestHasMember, requestVars, ReservedStates, configVars, rowVars,
            sessionVars, RowStates, LiveStates
<1>2. CASE DispatchBegin
    BY <1>1, <1>2, StatusUpdates DEF DispatchBegin, Occupied
<1>3. CASE DispatchCount
    BY <1>1, <1>3 DEF DispatchCount, Occupied
<1>4. CASE DispatchPicksHead
    BY <1>4, SizesAssumption DEF DispatchPicksHead
<1>5. CASE DispatchEnds
    BY <1>5 DEF DispatchEnds, Unlock
<1>6. CASE DispatchDropsHead
    BY <1>6 DEF DispatchDropsHead
<1>7. CASE DispatchStops
    BY <1>7 DEF DispatchStops, Unlock
<1>8. CASE DispatchGrants
    <2>1. PICK m \in Apps : assigned' = [assigned EXCEPT ![head] = m]
        BY <1>8 DEF DispatchGrants, LaunchableMembers
    <2> QED
        BY <1>8, <2>1 DEF DispatchGrants
<1> QED
    BY <1>2, <1>3, <1>4, <1>5, <1>6, <1>7, <1>8 DEF Dispatch

\* What happens to a single row without the lock keeps the types.
LEMMA RowStepTypes ==
    ASSUME LaunchInv, NEW q \in QIds, RowStep(q)
    PROVE  LaunchInv'
<1>0. TypeOK
    BY DEF LaunchInv
<1> USE <1>0 DEF LaunchInv, TypeOK, MembersAssigned, ConnectingHasNoSession,
            WaitingRowIsUnlaunched, PickedHasHead, RequestHasMember, requestVars, ReservedStates, allButStatus, configVars,
            sessionVars, dispatcherVars, RowStates, LiveStates
<1>1. CASE UserCancels(q)
    BY <1>1 DEF UserCancels, CancelRow, Spend, Kinds
<1>2. CASE AdminCancels(q)
    BY <1>2 DEF AdminCancels, CancelRow, Spend, Kinds
<1>3. CASE PollQueue(q)
    BY <1>3, StatusUpdates DEF PollQueue, CancelRow
<1>4. CASE GraceElapses(q)
    BY <1>4 DEF GraceElapses
<1>5. ASSUME NEW member \in Apps \cup {None}, SweepRow(q, member)
      PROVE  LaunchInv'
    BY <1>5 DEF SweepRow
<1> QED
    BY <1>1, <1>2, <1>3, <1>4, <1>5 DEF RowStep

\* Session steps keep the types.
LEMMA SessionStepTypes ==
    ASSUME LaunchInv, NEW q \in QIds, SessionStep(q)
    PROVE  LaunchInv'
<1> USE DEF LaunchInv, TypeOK, MembersAssigned, ConnectingHasNoSession,
            WaitingRowIsUnlaunched, PickedHasHead, RequestHasMember, requestVars, configVars, rowVars, dispatcherVars,
            SessionStates, OccupiedStates
<1>1. CASE HeartbeatLapses(q)
    BY <1>1 DEF HeartbeatLapses
<1>2. CASE Heartbeat(q)
    BY <1>2 DEF Heartbeat
<1>3. CASE SessionEnds(q)
    BY <1>3 DEF SessionEnds, SetSession
<1>4. CASE ReclaimStale(q)
    BY <1>4 DEF ReclaimStale, SetSession
<1>5. CASE ReclaimIdle(q)
    BY <1>5 DEF ReclaimIdle, SetSession
<1>6. CASE AdminReclaims(q)
    BY <1>6 DEF AdminReclaims, SetSession
<1> QED
    BY <1>1, <1>2, <1>3, <1>4, <1>5, <1>6 DEF SessionStep

\* A cleanup lists rows with the member they were assigned, if any.
LEMMA ListedRowsTypes ==
    ASSUME TypeOK, NEW rows \in SUBSET QIds
    PROVE  ListedRows(rows) \subseteq QIds \X (Apps \cup {None})
BY DEF TypeOK, ListedRows

\* Changes of configuration, and the crash, keep the types.
LEMMA ConfigureTypes ==
    ASSUME LaunchInv, Configure \/ ServerCrashes
    PROVE  LaunchInv'
<1>0. TypeOK
    BY DEF LaunchInv
<1> USE <1>0 DEF LaunchInv, TypeOK, MembersAssigned, ConnectingHasNoSession,
            WaitingRowIsUnlaunched, PickedHasHead, RequestHasMember, requestVars, configVars, rowVars, sessionVars,
            dispatcherVars, Spend, Kinds
<1>1. CASE UpdatePool
    BY <1>1, SizesAssumption DEF UpdatePool
<1>2. ASSUME NEW u \in Users, NEW allowed \in SUBSET Apps, UpdateAcl(u, allowed)
      PROVE  LaunchInv'
    BY <1>2, ListedRowsTypes DEF UpdateAcl, KeepUsable, Lists
<1>3. ASSUME NEW a \in Apps, NEW allowed \in SUBSET Users, UpdateApp(a, allowed)
      PROVE  LaunchInv'
    BY <1>3, ListedRowsTypes DEF UpdateApp, KeepUsable, Lists
<1>4. ASSUME NEW a \in Apps, MemberRecovers(a) \/ MemberFails(a)
      PROVE  LaunchInv'
    BY <1>4 DEF MemberRecovers, MemberFails
<1>5. CASE ServerCrashes
    BY <1>5 DEF ServerCrashes, RequestDone, Unlock, FlightStates
<1>6. ASSUME NEW u \in Users, NEW desktops \in SUBSET Apps, UpdateUser(u, desktops)
      PROVE  LaunchInv'
    BY <1>6 DEF UpdateUser, KeepUsable, Live
<1> QED
    BY <1>1, <1>2, <1>3, <1>4, <1>5, <1>6 DEF Configure

\* LaunchInv is an invariant.
LEMMA LaunchInvariant == Spec => []LaunchInv
<1>1. ASSUME LaunchInv, [Next]_vars
      PROVE  LaunchInv'
    <2>1. CASE UNCHANGED vars
        BY <1>1, <2>1
           DEF vars, LaunchInv, TypeOK, MembersAssigned, ConnectingHasNoSession,
               WaitingRowIsUnlaunched, PickedHasHead, RequestHasMember
    <2> QED
        BY <1>1, <2>1, RequestTypes, LaunchStepTypes, DispatchTypes,
           RowStepTypes, SessionStepTypes, ConfigureTypes
           DEF Next
<1> QED
    BY <1>1, InitTypes, PTL DEF Spec

\* Every variable keeps its type: in particular the dispatcher's head and the
\* members handed to remote_app_health are always rows and members.
THEOREM TypeCorrect == Spec => []TypeOK
<1>1. LaunchInv => TypeOK
    BY DEF LaunchInv
<1> QED
    BY <1>1, LaunchInvariant, PTL

\* A row that waits has neither a session nor a request in flight, so a launch
\* that failed half-way is never launched a second time beside the first.
THEOREM WaitingRowsAreUnlaunched == Spec => []WaitingRowIsUnlaunched
<1>1. LaunchInv => WaitingRowIsUnlaunched
    BY DEF LaunchInv
<1> QED
    BY <1>1, LaunchInvariant, PTL

-----------------------------------------------------------------------------
(* Rows that ended.  Only an open launch could write to one: an expired row *)
(* has none, and one that is past its session INSERT has a session.         *)
EndedInv ==
    \A q \in QIds :
        /\ status[q] = "expired" => flight[q] = "none"
        /\ flight[q] = "recorded" => session[q] # "none"

\* Every step leaves ended rows alone, and keeps EndedInv.
LEMMA StepsKeepEnded ==
    ASSUME LaunchInv, EndedInv, Next
    PROVE  EndedInv' /\ \A q \in QIds : StaysEnded(q)
<1>0. TypeOK
    BY DEF LaunchInv
<1>1. /\ ExpireOverdue \in [QIds -> RowStates]
      /\ \A q \in QIds : \/ ExpireOverdue[q] = status[q]
                         \/ status[q] = "ready" /\ ExpireOverdue[q] = "expired"
    BY <1>0, StatusUpdates DEF ExpireOverdue
<1> USE <1>0 DEF LaunchInv, TypeOK, EndedInv, StaysEnded, WaitingRowIsUnlaunched, LiveStates,
                 RowStates, configVars, rowVars, sessionVars, requestVars, dispatcherVars
<1>2. ASSUME NEW u \in Users, NEW a \in Apps, NEW row \in QIds \cup {None},
             RequestAsks(u, a, row)
      PROVE  EndedInv' /\ \A q \in QIds : StaysEnded(q)
    BY <1>2 DEF RequestAsks
<1>3. CASE RequestStep
    <2>1. ASSUME NEW st \in [QIds -> RowStates], Decides(st),
                 \A q \in QIds : \/ st[q] = status[q]
                                 \/ status[q] = "ready" /\ st[q] = "expired"
                                 \/ status[q] \in LiveStates /\ st[q] = "cancelled"
          PROVE  EndedInv' /\ \A q \in QIds : StaysEnded(q)
        BY <2>1 DEF Decides
    <2>2. ASSUME NEW p \in QIds
          PROVE  /\ Polled(p) \in [QIds -> RowStates]
                 /\ \A q \in QIds : \/ Polled(p)[q] = status[q]
                                    \/ status[q] = "ready" /\ Polled(p)[q] = "expired"
                                    \/ status[q] \in LiveStates /\ Polled(p)[q] = "cancelled"
        BY <1>1, <2>2 DEF Polled
    <2>3. CASE PrepareReturnsLiveRow
        <3>1. PICK p \in QIds : Decides(Polled(p))
            BY <2>3 DEF PrepareReturnsLiveRow, Live
        <3> QED
            BY <2>1, <2>2, <3>1
    <2>4. CASE PrepareQueues \/ PrepareRefuses \/ PrepareReserves \/ ConsumeMayStart
        BY <1>1, <2>1, <2>4
           DEF PrepareQueues, PrepareRefuses, PrepareReserves, ConsumeMayStart
    <2>5. CASE ConsumeFindsNotReady
        <3>1. req.row \in QIds /\ Decides(Polled(req.row))
            BY <2>5 DEF ConsumeFindsNotReady, EntersConsume, Requests
        <3> QED
            BY <2>1, <2>2, <3>1
    <2>6. CASE ConsumeCancels
        <3> DEFINE st == [ExpireOverdue EXCEPT ![req.row] = "cancelled"]
        <3>1. req.row \in QIds /\ ExpireOverdue[req.row] = "ready" /\ Decides(st)
            BY <2>6 DEF ConsumeCancels, EntersConsume, Requests
        <3>2. st \in [QIds -> RowStates]
            BY <1>1, <3>1
        <3>3. \A q \in QIds : \/ st[q] = status[q]
                              \/ status[q] = "ready" /\ st[q] = "expired"
                              \/ status[q] \in LiveStates /\ st[q] = "cancelled"
            BY <1>1, <3>1
        <3> QED
            BY <2>1, <3>1, <3>2, <3>3
    <2>7. CASE RequestFindsPoolBusy
        BY <2>7 DEF RequestFindsPoolBusy, RequestDone
    <2>8. ASSUME NEW p \in QIds, EnqueueRequest(p) \/ CreateLaunchReservation(p)
          PROVE  EndedInv' /\ \A q \in QIds : StaysEnded(q)
        BY <2>8 DEF EnqueueRequest, CreateLaunchReservation, InsertRow, IsNextId
    <2>9. ASSUME NEW p \in QIds, QueueMarkLaunching(p)
          PROVE  EndedInv' /\ \A q \in QIds : StaysEnded(q)
        BY <2>9 DEF QueueMarkLaunching, StillReady
    <2> QED
        BY <1>3, <2>3, <2>4, <2>5, <2>6, <2>7, <2>8, <2>9 DEF RequestStep
<1>4. CASE Dispatch
    <2>1. CASE DispatchBegin
        BY <1>1, <2>1 DEF DispatchBegin
    <2>2. CASE DispatchDropsHead \/ DispatchGrants
        BY <2>2 DEF DispatchDropsHead, DispatchGrants, PickedHasHead
    <2>3. CASE DispatchCount \/ DispatchPicksHead \/ DispatchEnds \/ DispatchStops
        BY <2>3 DEF DispatchCount, DispatchPicksHead, DispatchEnds, DispatchStops, Unlock
    <2> QED
        BY <1>4, <2>1, <2>2, <2>3 DEF Dispatch
<1>5. ASSUME NEW p \in QIds, LaunchStep(p) \/ LaunchDies(p)
      PROVE  EndedInv' /\ \A q \in QIds : StaysEnded(q)
    BY <1>5 DEF LaunchStep, BuildConnections, LaunchFails, MayFail, Requeue, RecordSession,
                FulfilRow, LaunchDies
<1>6. ASSUME NEW p \in QIds, RowStep(p)
      PROVE  EndedInv' /\ \A q \in QIds : StaysEnded(q)
    <2>1. CASE UserCancels(p) \/ AdminCancels(p)
        BY <2>1 DEF UserCancels, AdminCancels, CancelRow, allButStatus
    <2>2. CASE PollQueue(p)
        BY <1>1, <2>2 DEF PollQueue, CancelRow, allButStatus
    <2>3. CASE GraceElapses(p)
        BY <2>3 DEF GraceElapses
    <2>4. ASSUME NEW member \in Apps \cup {None}, SweepRow(p, member)
          PROVE  EndedInv' /\ \A q \in QIds : StaysEnded(q)
        BY <2>4 DEF SweepRow
    <2> QED
        BY <1>6, <2>1, <2>2, <2>3, <2>4 DEF RowStep
<1>7. ASSUME NEW p \in QIds, SessionStep(p)
      PROVE  EndedInv' /\ \A q \in QIds : StaysEnded(q)
    BY <1>7 DEF SessionStep, HeartbeatLapses, Heartbeat, SessionEnds, ReclaimStale,
                ReclaimIdle, AdminReclaims, SetSession
<1>8. CASE Configure
    BY <1>8 DEF Configure, UpdatePool, UpdateAcl, UpdateApp, UpdateUser, KeepUsable, Lists, MemberRecovers,
                MemberFails
<1>9. CASE ServerCrashes
    BY <1>9 DEF ServerCrashes, Unlock
<1> QED
    BY <1>2, <1>3, <1>4, <1>5, <1>6, <1>7, <1>8, <1>9 DEF Next

\* No late step revives a row that ended: a cancel or an expiry that came in
\* between a check and its UPDATE wins, except over a launch whose session is
\* already recorded, which mark_queue_fulfilled may still write.
THEOREM EndedRowsAreFinal == Spec => EndedRowsStayEnded
<1>1. Init => EndedInv
    BY DEF Init, EndedInv
<1>2. ASSUME LaunchInv, EndedInv, [Next]_vars
      PROVE  EndedInv' /\ [\A q \in QIds : StaysEnded(q)]_vars
    BY <1>2, StepsKeepEnded DEF vars, EndedInv
<1> QED
    BY <1>1, <1>2, LaunchInvariant, PTL DEF Spec, EndedRowsStayEnded
-----------------------------------------------------------------------------
(* Slots.  SlotsWithinCap is not inductive: the dispatcher decides on a     *)
(* count it took earlier, and a request decides before it inserts its row.  *)
(* What carries it across the steps in between is DispatcherCountsSafely,   *)
(* RequestCountsSafely, and that the pool lock keeps the two apart.         *)

Reserving == req # None /\ req.step = "reserve"

RequestCountsSafely == Reserving => Cardinality(Held) < peak

\* The dispatcher and a request that has decided are never both inside.
LockExclusive == Reserving => dpc = "idle"

SlotInv ==
    /\ pool.max <= peak
    /\ SlotsWithinCap
    /\ DispatcherCountsSafely
    /\ RequestCountsSafely
    /\ LockExclusive

\* The initial state holds no slots.
LEMMA InitSlots == Init => SlotInv
<1> SUFFICES ASSUME Init
             PROVE  SlotInv
    OBVIOUS
<1>1. Held = {}
    BY DEF Init, Held, ReservedStates, OccupiedStates
<1> QED
    BY <1>1, FS_EmptySet, SizesAssumption
       DEF Init, SlotInv, SlotsWithinCap, DispatcherCountsSafely,
           RequestCountsSafely, LockExclusive, Reserving

\* A step that takes no slot, leaves the dispatcher's count alone and does not
\* decide to reserve.
Quiet ==
    /\ Held' \subseteq Held
    /\ Reserving' => Reserving
    /\ UNCHANGED <<pool, peak, dpc, seen, slots>>

\* Such a step keeps the accounts and is a Release of the promise.
LEMMA QuietKeepsSlots ==
    ASSUME LaunchInv, SlotInv, Quiet
    PROVE  SlotInv' /\ Promise!Release
<1>1. Held \in SUBSET QIds /\ Held' \in SUBSET QIds
    BY DEF Held
<1>2. /\ Cardinality(Held) \in Nat /\ Cardinality(Held') \in Nat
      /\ Cardinality(Held') <= Cardinality(Held)
    BY <1>1, RowSets DEF Quiet
<1>3. peak \in Nat /\ slots \in Int
    BY DEF LaunchInv, TypeOK
<1> QED
    BY <1>2, <1>3
       DEF Quiet, SlotInv, SlotsWithinCap, DispatcherCountsSafely,
           RequestCountsSafely, LockExclusive, Reserving, Promise!Release

\* A request that decides anything but to reserve takes nothing.
LEMMA DecisionsQuiet ==
    ASSUME LaunchInv,
           \/ RequestFindsPoolBusy \/ PrepareReturnsLiveRow \/ PrepareQueues
           \/ PrepareRefuses \/ ConsumeFindsNotReady \/ ConsumeCancels
           \/ ConsumeMayStart
    PROVE  Quiet
<1>0. TypeOK
    BY DEF LaunchInv
<1> USE <1>0, SizesAssumption, StatusUpdates
        DEF TypeOK, Quiet, Held, Reserving, ReservedStates, configVars, rowVars,
            sessionVars, dispatcherVars, RequestDone, Decides
<1>1. CASE RequestFindsPoolBusy
    BY <1>1 DEF RequestFindsPoolBusy
<1>2. CASE PrepareReturnsLiveRow \/ PrepareRefuses \/ ConsumeFindsNotReady
    <2>1. PICK st : Decides(st) /\ \A q \in QIds : st[q] \in {status[q], "expired", "cancelled"}
        BY <1>2
           DEF PrepareReturnsLiveRow, PrepareRefuses, ConsumeFindsNotReady, EntersConsume,
               Live, Requests
    <2> QED
        BY <1>2, <2>1 DEF PrepareReturnsLiveRow, PrepareRefuses, ConsumeFindsNotReady
<1>3. CASE PrepareQueues \/ ConsumeMayStart
    BY <1>3 DEF PrepareQueues, ConsumeMayStart, EntersPrepare, EntersConsume, Requests
<1>4. CASE ConsumeCancels
    BY <1>4 DEF ConsumeCancels, EntersConsume, Requests
<1> QED
    BY <1>1, <1>2, <1>3, <1>4

\* Queueing takes no slot, and a row that is consumed holds one already.
LEMMA WritesQuiet ==
    ASSUME LaunchInv, NEW q \in QIds, EnqueueRequest(q) \/ QueueMarkLaunching(q)
    PROVE  Quiet
<1> USE SizesAssumption
        DEF LaunchInv, TypeOK, Quiet, Held, Reserving, ReservedStates, configVars,
            rowVars, sessionVars, dispatcherVars, RequestDone
<1>1. CASE EnqueueRequest(q)
    BY <1>1 DEF EnqueueRequest, InsertRow
<1>2. CASE QueueMarkLaunching(q)
    BY <1>2 DEF QueueMarkLaunching, StillReady
<1> QED
    BY <1>1, <1>2

\* A request that comes in takes nothing.
LEMMA AsksQuiet ==
    ASSUME LaunchInv, NEW u \in Users, NEW a \in Apps, NEW row \in QIds \cup {None},
           RequestAsks(u, a, row)
    PROVE  Quiet
BY DEF RequestAsks, Quiet, Held, Reserving, configVars, rowVars, sessionVars,
       dispatcherVars

\* A launch, once it has its slot, takes no other: the session it records is
\* its own row's, or is among the orphaned.
LEMMA LaunchStepsQuiet ==
    ASSUME LaunchInv, NEW q \in QIds, LaunchStep(q) \/ LaunchDies(q)
    PROVE  Quiet
<1> USE DEF LaunchInv, TypeOK, Quiet, Held, Reserving, ReservedStates, configVars,
            rowVars, requestVars, sessionVars, dispatcherVars
<1>1. CASE BuildConnections(q)
    BY <1>1 DEF BuildConnections
<1>2. CASE LaunchFails(q)
    BY <1>2 DEF LaunchFails, Requeue
<1>3. CASE RecordSession(q)
    BY <1>3 DEF RecordSession
<1>4. CASE FulfilRow(q)
    BY <1>4 DEF FulfilRow
<1>5. CASE LaunchDies(q)
    BY <1>5 DEF LaunchDies
<1> QED
    BY <1>1, <1>2, <1>3, <1>4, <1>5 DEF LaunchStep

\* Cancels, polls and sweeps take no slot, and neither do sessions.
LEMMA RowAndSessionStepsQuiet ==
    ASSUME LaunchInv, NEW q \in QIds, RowStep(q) \/ SessionStep(q)
    PROVE  Quiet
<1>0. TypeOK
    BY DEF LaunchInv
<1> USE <1>0 DEF TypeOK, Quiet, Held, Reserving, ReservedStates, OccupiedStates,
            allButStatus, configVars, rowVars, requestVars, sessionVars, dispatcherVars
<1>1. CASE UserCancels(q) \/ AdminCancels(q)
    BY <1>1 DEF UserCancels, AdminCancels, CancelRow
<1>2. CASE PollQueue(q)
    BY <1>2, StatusUpdates DEF PollQueue, CancelRow
<1>3. CASE GraceElapses(q)
    BY <1>3 DEF GraceElapses
<1>4. ASSUME NEW member \in Apps \cup {None}, SweepRow(q, member)
      PROVE  Quiet
    BY <1>4 DEF SweepRow
<1>5. CASE HeartbeatLapses(q) \/ Heartbeat(q)
    BY <1>5 DEF HeartbeatLapses, Heartbeat
<1>6. CASE SessionEnds(q) \/ ReclaimStale(q)
    BY <1>6 DEF SessionEnds, ReclaimStale, SetSession
<1>7. CASE ReclaimIdle(q) \/ AdminReclaims(q)
    BY <1>7 DEF ReclaimIdle, AdminReclaims, SetSession
<1> QED
    BY <1>1, <1>2, <1>3, <1>4, <1>5, <1>6, <1>7 DEF RowStep, SessionStep

-----------------------------------------------------------------------------
(* The steps that are not quiet.                                            *)

\* SlotPool counts as PoolLaunch does.
LEMMA SameCardinality == \A S : Promise!Cardinality(S) = Cardinality(S)
BY DEF Promise!Cardinality, Cardinality

\* A step that puts q among the holders, the others below the cap, is a Grant
\* of the promise and leaves no more holders than the cap.
LEMMA GrantStep ==
    ASSUME LaunchInv, NEW q \in QIds, q \in Held', peak' = peak,
           Held' \ {q} \subseteq Held, Cardinality(Held' \ {q}) < peak
    PROVE  /\ Promise!Grant(q)
           /\ SlotsWithinCap'
           /\ Cardinality(Held') = Cardinality(Held' \ {q}) + 1
<1>1. Held' \ {q} \in SUBSET QIds
    BY DEF Held
<1>2. IsFiniteSet(Held' \ {q}) /\ Cardinality(Held' \ {q}) \in Nat
    BY <1>1, RowSets
<1>3. Held' = (Held' \ {q}) \cup {q}
    OBVIOUS
<1>4. Cardinality(Held') = Cardinality(Held' \ {q}) + 1
    BY <1>2, <1>3, FS_AddElement
<1>5. peak \in Nat
    BY DEF LaunchInv, TypeOK
<1>6. Promise!Grant(q)
    <2> DEFINE kept == Held' \ {q}
    <2>1. kept \in SUBSET Held /\ q \in QIds \ kept /\ Cardinality(kept) < peak
        BY <1>3
    <2>2. Held' = kept \cup {q}
        BY <1>3
    <2> HIDE DEF kept
    <2> QED
        BY <2>1, <2>2, SameCardinality DEF Promise!Grant
<1>7. SlotsWithinCap'
    BY <1>2, <1>4, <1>5 DEF SlotsWithinCap
<1> QED
    BY <1>4, <1>6, <1>7

\* prepare_launch decides to reserve after counting sessions and reservations:
\* it holds the lock, so the dispatcher is not counting.
LEMMA ReserveIsSafe ==
    ASSUME LaunchInv, SlotInv, PrepareReserves
    PROVE  SlotInv' /\ Promise!Release
<1>0. TypeOK
    BY DEF LaunchInv
<1>1. /\ status' = ExpireOverdue /\ dpc' = "idle"
      /\ UNCHANGED <<pool, peak, session, orphaned, dpc, seen, slots, missed>>
    BY DEF PrepareReserves, EntersPrepare, PoolLockFree, Decides, configVars,
           sessionVars, dispatcherVars
<1>2. /\ Held' \subseteq Held
      /\ Held' \subseteq Occupied \cup Reserved(ExpireOverdue)
    BY <1>0, <1>1, StatusUpdates DEF TypeOK, Held, Occupied, Reserved, ReservedStates
<1>3. /\ Held \in SUBSET QIds /\ Held' \in SUBSET QIds
      /\ Occupied \in SUBSET QIds /\ Reserved(ExpireOverdue) \in SUBSET QIds
    BY DEF Held, Occupied, Reserved
<1>4. /\ Cardinality(Held) \in Nat /\ Cardinality(Held') \in Nat
      /\ Cardinality(Occupied) \in Nat /\ Cardinality(Reserved(ExpireOverdue)) \in Nat
      /\ Cardinality(Occupied \cup Reserved(ExpireOverdue)) \in Nat
      /\ Cardinality(Held') <= Cardinality(Occupied \cup Reserved(ExpireOverdue))
    BY <1>2, <1>3, RowSets
<1>5. Cardinality(Occupied \cup Reserved(ExpireOverdue))
          <= Cardinality(Occupied) + Cardinality(Reserved(ExpireOverdue))
    BY <1>3, RowsTogether
<1>6. pool.max - Cardinality(Occupied) - Cardinality(Reserved(ExpireOverdue)) > 0
    BY <1>0, <1>4 DEF PrepareReserves, MustQueue, AvailableSlots, TypeOK
<1>7. Cardinality(Held') < peak'
    BY <1>0, <1>1, <1>4, <1>5, <1>6 DEF SlotInv, TypeOK
<1> QED
    BY <1>0, <1>1, <1>2, <1>4, <1>7
       DEF SlotInv, SlotsWithinCap, DispatcherCountsSafely, RequestCountsSafely,
           LockExclusive, TypeOK, Promise!Release

\* The reservation is the Grant: since the decision slots only came back.
LEMMA ReservationGrants ==
    ASSUME LaunchInv, SlotInv, NEW q \in QIds, CreateLaunchReservation(q)
    PROVE  SlotInv' /\ Promise!Grant(q)
<1>0. TypeOK
    BY DEF LaunchInv
<1>1. /\ status' = [status EXCEPT ![q] = "launching"] /\ req' = None
      /\ UNCHANGED <<pool, peak, session, orphaned, dpc, seen, slots, missed>>
    BY DEF CreateLaunchReservation, InsertRow, configVars, sessionVars, dispatcherVars
<1>2. q \in Held' /\ Held' \ {q} \subseteq Held
    BY <1>0, <1>1 DEF TypeOK, Held, ReservedStates
<1>3. Held \in SUBSET QIds
    BY DEF Held
<1>4. /\ Cardinality(Held) \in Nat /\ Cardinality(Held' \ {q}) \in Nat
      /\ Cardinality(Held' \ {q}) <= Cardinality(Held)
    BY <1>2, <1>3, RowSets
<1>5. Cardinality(Held) < peak /\ dpc = "idle"
    BY DEF CreateLaunchReservation, SlotInv, RequestCountsSafely, LockExclusive, Reserving
<1>6. Cardinality(Held' \ {q}) < peak
    BY <1>0, <1>4, <1>5 DEF TypeOK
<1>7. Promise!Grant(q) /\ SlotsWithinCap'
    BY <1>1, <1>2, <1>6, GrantStep
<1> QED
    BY <1>1, <1>5, <1>7
       DEF SlotInv, DispatcherCountsSafely, RequestCountsSafely, LockExclusive, Reserving

\* The dispatcher grants a slot from its count, which is still safe.
LEMMA DispatchGrantsSlot ==
    ASSUME LaunchInv, SlotInv, DispatchGrants
    PROVE  SlotInv' /\ \E q \in QIds : Promise!Grant(q)
<1>0. TypeOK
    BY DEF LaunchInv
<1>1. head \in QIds
    BY <1>0 DEF DispatchGrants, LaunchInv, PickedHasHead, RequestHasMember, requestVars, TypeOK
<1>2. /\ status' = [status EXCEPT ![head] = "ready"]
      /\ slots' = slots - 1 /\ dpc' = "granting"
      /\ UNCHANGED <<pool, peak, session, orphaned, missed>>
    BY DEF DispatchGrants, configVars, sessionVars
<1>3. head \in Held' /\ Held' \ {head} \subseteq Held
    BY <1>0, <1>1, <1>2 DEF TypeOK, Held, ReservedStates
<1>4. slots > 0 /\ slots + Cardinality(Held) <= peak
    BY DEF DispatchGrants, SlotInv, DispatcherCountsSafely
<1>5. /\ Held \in SUBSET QIds
      /\ Held' \ {head} \in SUBSET QIds
    BY DEF Held
<1>6. /\ Cardinality(Held) \in Nat /\ Cardinality(Held' \ {head}) \in Nat
      /\ Cardinality(Held' \ {head}) <= Cardinality(Held)
    BY <1>3, <1>5, RowSets
<1>7. slots \in Int /\ peak \in Nat
    BY <1>0 DEF TypeOK
<1>8. Cardinality(Held' \ {head}) < peak
    BY <1>4, <1>6, <1>7
<1>9. /\ Promise!Grant(head) /\ SlotsWithinCap'
      /\ Cardinality(Held') = Cardinality(Held' \ {head}) + 1
    BY <1>1, <1>2, <1>3, <1>8, GrantStep
<1>10. slots' + Cardinality(Held') <= peak'
    BY <1>2, <1>4, <1>6, <1>7, <1>9
<1>11. ~Reserving'
    BY DEF DispatchGrants, requestVars, SlotInv, LockExclusive, Reserving
<1> QED
    BY <1>1, <1>2, <1>9, <1>10, <1>11
       DEF SlotInv, DispatcherCountsSafely, RequestCountsSafely, LockExclusive

\* The dispatcher's two counts.  Between them sessions may have been recorded
\* and fulfilled; those are the missed ones, and of the rest the two counts
\* together see every slot.
LEMMA CountsKeepSlots ==
    ASSUME LaunchInv, SlotInv, DispatchBegin \/ DispatchCount
    PROVE  SlotInv' /\ Promise!Release
<1>0. TypeOK
    BY DEF LaunchInv
<1>1. peak' = peak /\ pool' = pool /\ peak \in Nat /\ pool.max \in Nat
    BY <1>0 DEF TypeOK, DispatchBegin, DispatchCount, configVars
<1>2. Held' \subseteq Held
    <2>1. CASE DispatchBegin
        BY <1>0, <2>1, StatusUpdates
           DEF DispatchBegin, TypeOK, Held, ReservedStates, sessionVars
    <2>2. CASE DispatchCount
        BY <2>2 DEF DispatchCount, Held, rowVars, sessionVars
    <2> QED
        BY <2>1, <2>2
<1>3. /\ Held \in SUBSET QIds /\ Held' \in SUBSET QIds
      /\ Occupied \in SUBSET QIds /\ Reserved(status) \in SUBSET QIds
      /\ seen \in SUBSET QIds
    BY <1>0 DEF Held, Occupied, Reserved, TypeOK
<1>4. /\ Cardinality(Held) \in Nat /\ Cardinality(Held') \in Nat
      /\ Cardinality(Held') <= Cardinality(Held)
      /\ Cardinality(Occupied) \in Nat /\ Cardinality(Reserved(status)) \in Nat
      /\ Cardinality(seen) \in Nat
    BY <1>2, <1>3, RowSets
<1>5. Promise!Release /\ SlotsWithinCap' /\ pool'.max <= peak'
    BY <1>1, <1>2, <1>4 DEF Promise!Release, SlotInv, SlotsWithinCap
<1>6. ~Reserving'
    BY DEF DispatchBegin, DispatchCount, PoolLockFree, requestVars, SlotInv,
           LockExclusive, Reserving
<1>7. CASE DispatchBegin
    <2>1. dpc' = "counting" /\ seen' = Occupied /\ slots' = pool.max - Cardinality(Occupied)
        BY <1>7 DEF DispatchBegin
    <2> QED
        BY <1>1, <1>4, <1>5, <1>6, <2>1
           DEF SlotInv, DispatcherCountsSafely, RequestCountsSafely, LockExclusive
<1>8. CASE DispatchCount
    <2>1. /\ dpc = "counting" /\ dpc' = "granting"
          /\ slots' = slots - Cardinality(Reserved(status))
        BY <1>8 DEF DispatchCount
    <2>2. Held' \subseteq seen \cup Reserved(status)
        BY <1>8 DEF DispatchCount, Held, Occupied, Reserved, rowVars, sessionVars
    <2>3. Cardinality(Held') <= Cardinality(seen \cup Reserved(status))
        BY <1>3, <2>2, RowSets
    <2>4. /\ Cardinality(seen \cup Reserved(status))
               <= Cardinality(seen) + Cardinality(Reserved(status))
          /\ Cardinality(seen \cup Reserved(status)) \in Nat
        BY <1>3, RowsTogether, RowSets
    <2>5. slots + Cardinality(seen) <= peak /\ slots \in Int
        BY <1>0, <2>1 DEF SlotInv, DispatcherCountsSafely, TypeOK
    <2>6. slots' + Cardinality(Held') <= peak'
        BY <1>1, <1>4, <2>1, <2>3, <2>4, <2>5
    <2> QED
        BY <1>5, <1>6, <2>1, <2>6
           DEF SlotInv, DispatcherCountsSafely, RequestCountsSafely, LockExclusive
<1> QED
    BY <1>5, <1>7, <1>8

\* The dispatcher's other steps, and the crash, give nothing away.
LEMMA OtherDispatchKeepsSlots ==
    ASSUME LaunchInv, SlotInv,
           \/ DispatchPicksHead \/ DispatchEnds \/ DispatchDropsHead
           \/ DispatchStops \/ ServerCrashes
    PROVE  SlotInv' /\ Promise!Release
<1>0. TypeOK
    BY DEF LaunchInv
<1> USE DEF configVars, rowVars, sessionVars, Unlock
<1>1. UNCHANGED <<peak, pool, session, orphaned, missed>>
    BY DEF DispatchPicksHead, DispatchEnds, DispatchDropsHead, DispatchStops,
           ServerCrashes
<1>2. Held' \subseteq Held
    <2>1. \/ status' = status
          \/ status' = [status EXCEPT ![head] = IF @ \in LiveStates THEN "cancelled" ELSE @]
        BY DEF DispatchPicksHead, DispatchEnds, DispatchDropsHead, DispatchStops,
               ServerCrashes
    <2> QED
        BY <1>0, <1>1, <2>1 DEF TypeOK, Held, ReservedStates
<1>3. \/ dpc' = "idle"
      \/ /\ dpc \in {"granting", "picked"} /\ dpc' \in {"granting", "picked"}
         /\ slots' = slots /\ slots > 0
    BY DEF DispatchPicksHead, DispatchEnds, DispatchDropsHead, DispatchStops,
           ServerCrashes, SlotInv, DispatcherCountsSafely
<1>4. Held \in SUBSET QIds /\ Held' \in SUBSET QIds
    BY DEF Held
<1>5. /\ Cardinality(Held) \in Nat /\ Cardinality(Held') \in Nat
      /\ Cardinality(Held') <= Cardinality(Held)
    BY <1>2, <1>4, RowSets
<1>6. peak \in Nat /\ slots \in Int
    BY <1>0 DEF TypeOK
<1>7. ~Reserving'
    BY SizesAssumption
       DEF DispatchPicksHead, DispatchEnds, DispatchDropsHead, DispatchStops,
           ServerCrashes, RequestDone, requestVars, SlotInv, LockExclusive, Reserving
<1> QED
    BY <1>1, <1>2, <1>3, <1>5, <1>6, <1>7
       DEF SlotInv, SlotsWithinCap, DispatcherCountsSafely,
           RequestCountsSafely, LockExclusive, Promise!Release

\* An administrator's change moves the cap, if at all, upwards, and takes no
\* slot: the largest max_concurrent so far is what the pool is held to.
LEMMA ConfigureKeepsSlots ==
    ASSUME LaunchInv, SlotInv, Configure
    PROVE  SlotInv' /\ (Promise!Next \/ UNCHANGED <<Held, peak>>)
<1>0. TypeOK
    BY DEF LaunchInv
<1>1. CASE UpdatePool
    <2>1. UNCHANGED <<status, session, orphaned, missed, dpc, seen, slots, req>>
        BY <1>1 DEF UpdatePool, rowVars, sessionVars, dispatcherVars, requestVars
    <2>2. Held' = Held
        BY <2>1 DEF Held
    <2>3. PICK m \in Sizes : /\ pool'.max = m
                             /\ peak' = IF m > peak THEN m ELSE peak
        BY <1>1 DEF UpdatePool
    <2>4. peak \in Nat /\ m \in Nat /\ slots \in Int
        BY <1>0, SizesAssumption DEF TypeOK
    <2>5. pool'.max <= peak' /\ peak <= peak' /\ peak' \in Nat
        BY <2>3, <2>4
    <2>6. Promise!Next \/ UNCHANGED <<Held, peak>>
        BY <2>2, <2>3, <2>4, <2>5 DEF Promise!Next, Promise!Raise
    <2>7. Held \in SUBSET QIds /\ seen \in SUBSET QIds
        BY <1>0 DEF Held, TypeOK
    <2>8. Cardinality(Held) \in Nat /\ Cardinality(seen) \in Nat
        BY <2>7, RowSets
    <2> QED
        BY <2>1, <2>2, <2>4, <2>5, <2>6, <2>8
           DEF SlotInv, SlotsWithinCap, DispatcherCountsSafely,
           RequestCountsSafely, LockExclusive, Reserving
<1>2. ASSUME Configure, ~UpdatePool
      PROVE  Quiet
    BY <1>2 DEF Configure, UpdateAcl, UpdateApp, UpdateUser, KeepUsable, Lists, MemberRecovers,
                MemberFails, Quiet, Held, Reserving, configVars, rowVars,
                requestVars, sessionVars, dispatcherVars
<1> QED
    BY <1>1, <1>2, QuietKeepsSlots DEF Promise!Next

-----------------------------------------------------------------------------
\* Every step keeps the accounts and is a step, or a stutter, of the promise.
LEMMA StepKeepsPromise ==
    ASSUME LaunchInv, SlotInv, [Next]_vars
    PROVE  SlotInv' /\ [Promise!Next]_<<Held, peak>>
<1>1. CASE UNCHANGED vars
    <2>1. Quiet /\ UNCHANGED <<Held, peak>>
        BY <1>1 DEF vars, Quiet, Held, Reserving
    <2> QED
        BY <2>1, QuietKeepsSlots
<1>2. CASE RequestStep
    <2>1. CASE PrepareReserves
        BY <2>1, ReserveIsSafe DEF Promise!Next
    <2>2. ASSUME NEW q \in QIds, CreateLaunchReservation(q)
          PROVE  SlotInv' /\ Promise!Next
        BY <2>2, ReservationGrants DEF Promise!Next
    <2>3. ASSUME NEW q \in QIds, EnqueueRequest(q) \/ QueueMarkLaunching(q)
          PROVE  SlotInv' /\ Promise!Next
        BY <2>3, WritesQuiet, QuietKeepsSlots DEF Promise!Next
    <2>4. ASSUME RequestStep, ~PrepareReserves,
                 \A q \in QIds : ~(\/ EnqueueRequest(q) \/ CreateLaunchReservation(q)
                                   \/ QueueMarkLaunching(q))
          PROVE  SlotInv' /\ Promise!Next
        BY <2>4, DecisionsQuiet, QuietKeepsSlots DEF RequestStep, Promise!Next
    <2> QED
        BY <1>2, <2>1, <2>2, <2>3, <2>4
<1>3. ASSUME NEW u \in Users, NEW a \in Apps, NEW row \in QIds \cup {None},
             RequestAsks(u, a, row)
      PROVE  SlotInv' /\ Promise!Next
    BY <1>3, AsksQuiet, QuietKeepsSlots DEF Promise!Next
<1>4. CASE Dispatch
    BY <1>4, CountsKeepSlots, OtherDispatchKeepsSlots, DispatchGrantsSlot
       DEF Dispatch, Promise!Next
<1>5. ASSUME NEW q \in QIds,
             LaunchStep(q) \/ LaunchDies(q) \/ RowStep(q) \/ SessionStep(q)
      PROVE  SlotInv' /\ Promise!Next
    BY <1>5, LaunchStepsQuiet, RowAndSessionStepsQuiet, QuietKeepsSlots
       DEF Promise!Next
<1>6. CASE Configure
    BY <1>6, ConfigureKeepsSlots
<1>7. CASE ServerCrashes
    BY <1>7, OtherDispatchKeepsSlots DEF Promise!Next
<1> QED
    BY <1>1, <1>2, <1>3, <1>4, <1>5, <1>6, <1>7 DEF Next

\* The slots the pool accounts for never exceed the largest max_concurrent
\* there has been, whatever interleaves with the dispatcher.
THEOREM SlotsNeverExceedCap == Spec => []SlotsWithinCap
<1>1. LaunchInv /\ SlotInv /\ [Next]_vars => SlotInv'
    BY StepKeepsPromise
<1>2. SlotInv => SlotsWithinCap
    BY DEF SlotInv
<1> QED
    BY <1>1, <1>2, InitSlots, LaunchInvariant, PTL DEF Spec

\* The count the dispatcher spends stays safe from its first query to its last
\* grant.
THEOREM DispatcherCountStaysSafe == Spec => []DispatcherCountsSafely
<1>1. LaunchInv /\ SlotInv /\ [Next]_vars => SlotInv'
    BY StepKeepsPromise
<1>2. SlotInv => DispatcherCountsSafely
    BY DEF SlotInv
<1> QED
    BY <1>1, <1>2, InitSlots, LaunchInvariant, PTL DEF Spec

\* The pool keeps the promise of SlotPool: at most one slot granted in a step,
\* and only below the cap; all other steps only return slots.
THEOREM PoolKeepsPromise == Spec => ImplementsSlotPool
<1>1. Init => Promise!Init
    <2> SUFFICES ASSUME Init
                 PROVE  Promise!Init
        OBVIOUS
    <2>1. Held = {}
        BY DEF Init, Held, ReservedStates, OccupiedStates
    <2> QED
        BY <2>1, SizesAssumption DEF Init, Promise!Init
<1>2. LaunchInv /\ SlotInv /\ [Next]_vars => SlotInv' /\ [Promise!Next]_<<Held, peak>>
    BY StepKeepsPromise
<1> QED
    BY <1>1, <1>2, InitSlots, LaunchInvariant, PTL
       DEF Spec, ImplementsSlotPool, Promise!Spec

-----------------------------------------------------------------------------
(* What a step changes of one row.  These lemmas go through all actions     *)
(* once; the theorems below are about the few steps they leave.             *)

Inserts(q) == EnqueueRequest(q) \/ CreateLaunchReservation(q)

\* A decision only ends rows.
DecidesEnds == \E st : Decides(st) /\ Ends(st)

LEMMA RequestDecisions ==
    ASSUME LaunchInv, RequestStep
    PROVE  \/ DecidesEnds
           \/ UNCHANGED <<rowVars, flight, sessionVars, sweep, access, dpc, head>> /\ RequestFindsPoolBusy
           \/ \E q \in QIds : Inserts(q) \/ QueueMarkLaunching(q)
<1>0. TypeOK
    BY DEF LaunchInv
<1>1. Ends(ExpireOverdue) /\ \A q \in QIds : Ends(Polled(q))
    BY <1>0, StatusUpdates DEF Ends
<1>2. CASE PrepareReturnsLiveRow \/ PrepareRefuses \/ PrepareQueues \/ PrepareReserves \/ ConsumeMayStart
    BY <1>1, <1>2 DEF PrepareReturnsLiveRow, PrepareRefuses, PrepareQueues, PrepareReserves,
                      ConsumeMayStart, Live, DecidesEnds
<1>3. CASE ConsumeFindsNotReady
    BY <1>0, <1>1, <1>3 DEF ConsumeFindsNotReady, EntersConsume, TypeOK, Requests, DecidesEnds
<1>4. CASE ConsumeCancels
    <2>1. Ends([ExpireOverdue EXCEPT ![req.row] = "cancelled"])
        BY <1>0, <1>4, StatusUpdates
           DEF ConsumeCancels, EntersConsume, TypeOK, Requests, Ends, RowStates
    <2> QED
        BY <1>4, <2>1 DEF ConsumeCancels, DecidesEnds
<1>5. CASE RequestFindsPoolBusy
    BY <1>5 DEF RequestFindsPoolBusy, configVars, dispatcherVars
<1> QED
    BY <1>2, <1>3, <1>4, <1>5 DEF RequestStep, Inserts

\* One row is inserted at a time, and never by a step of the dispatcher.
LEMMA InsertsOne ==
    ASSUME TypeOK, NEW p \in QIds, NEW q \in QIds, Inserts(p), Inserts(q)
    PROVE  p = q
BY DEF TypeOK, Inserts, EnqueueRequest, CreateLaunchReservation, InsertRow, IsNextId, LiveStates

LEMMA GrantsOrInserts ==
    ASSUME NEW q \in QIds, DispatchGrants, Inserts(q)
    PROVE  FALSE
BY DEF DispatchGrants, Inserts, EnqueueRequest, CreateLaunchReservation, InsertRow, requestVars

\* A row's status: kept, ended, or one of the four ways through the queue.
RowChange(q) ==
    \/ status'[q] = status[q]
    \/ status'[q] \in {"expired", "cancelled", "fulfilled"}
    \/ Inserts(q) /\ status[q] = "absent"
    \/ DispatchGrants /\ head = q /\ status[q] = "queued" /\ status'[q] = "ready"
    \/ QueueMarkLaunching(q) /\ status[q] = "ready" /\ status'[q] = "launching"
    \/ LaunchFails(q) /\ status[q] = "launching" /\ status'[q] = "queued"

LEMMA RowChanges ==
    ASSUME LaunchInv, Next, NEW q \in QIds
    PROVE  RowChange(q)
<1>0. TypeOK /\ PickedHasHead
    BY DEF LaunchInv
<1>1. ASSUME DecidesEnds
      PROVE  RowChange(q)
    BY <1>1 DEF DecidesEnds, Decides, Ends, RowChange
<1> USE <1>0 DEF TypeOK, rowVars
<1>2. ASSUME NEW p \in QIds, Inserts(p)
      PROVE  RowChange(q)
    BY <1>2 DEF Inserts, EnqueueRequest, CreateLaunchReservation, InsertRow, IsNextId, RowChange
<1>3. ASSUME NEW p \in QIds, QueueMarkLaunching(p)
      PROVE  RowChange(q)
    BY <1>3 DEF QueueMarkLaunching, StillReady, RowChange
<1>4. CASE RequestStep
    BY <1>1, <1>2, <1>3, <1>4, RequestDecisions DEF RowChange
<1>5. CASE Dispatch
    <2>1. CASE DispatchBegin
        BY <2>1, StatusUpdates DEF DispatchBegin, RowChange
    <2>2. CASE DispatchDropsHead
        BY <2>2 DEF DispatchDropsHead, PickedHasHead, RowChange
    <2>3. CASE DispatchGrants
        BY <2>3 DEF DispatchGrants, PickedHasHead, RowChange
    <2> QED
        BY <1>5, <2>1, <2>2, <2>3
           DEF Dispatch, DispatchCount, DispatchPicksHead, DispatchEnds, DispatchStops, RowChange
<1>6. ASSUME NEW p \in QIds, LaunchStep(p) \/ LaunchDies(p)
      PROVE  RowChange(q)
    <2>1. CASE LaunchFails(p)
        BY <2>1 DEF LaunchFails, Requeue, RowChange
    <2>2. CASE FulfilRow(p)
        BY <2>2 DEF FulfilRow, RowChange
    <2> QED
        BY <1>6, <2>1, <2>2 DEF LaunchStep, BuildConnections, RecordSession, LaunchDies, RowChange
<1>7. ASSUME NEW p \in QIds, RowStep(p)
      PROVE  RowChange(q)
    <2>1. CASE UserCancels(p) \/ AdminCancels(p)
        BY <2>1 DEF UserCancels, AdminCancels, CancelRow, RowChange
    <2>2. CASE PollQueue(p)
        BY <2>2, StatusUpdates DEF PollQueue, CancelRow, RowChange
    <2>3. ASSUME NEW member \in Apps \cup {None}, SweepRow(p, member)
          PROVE  RowChange(q)
        BY <2>3 DEF SweepRow, RowChange
    <2> QED
        BY <1>7, <2>1, <2>2, <2>3 DEF RowStep, GraceElapses, RowChange
<1> QED
    BY <1>4, <1>5, <1>6, <1>7
       DEF Next, RequestAsks, SessionStep, HeartbeatLapses, Heartbeat, SessionEnds, ReclaimStale,
           ReclaimIdle, AdminReclaims, SetSession, Configure, UpdatePool, UpdateAcl, UpdateApp,
           UpdateUser, MemberRecovers, MemberFails, ServerCrashes, RowChange

\* Its owner, the app requested and the member: set when it is inserted, and
\* the member again by a grant.
ColumnChange(q) ==
    \/ owner'[q] = owner[q] /\ requested'[q] = requested[q] /\ assigned'[q] = assigned[q]
    \/ /\ Inserts(q)
       /\ owner'[q] = req.user /\ requested'[q] = req.app /\ assigned'[q] = req.member
    \/ /\ DispatchGrants /\ head = q
       /\ owner'[q] = owner[q] /\ requested'[q] = requested[q]
       /\ assigned'[q] \in LaunchableMembers(status, owner[q])

LEMMA ColumnChanges ==
    ASSUME LaunchInv, Next, NEW q \in QIds
    PROVE  ColumnChange(q)
<1>0. TypeOK /\ PickedHasHead
    BY DEF LaunchInv
<1>1. CASE UNCHANGED <<owner, requested, assigned>>
    BY <1>1 DEF ColumnChange
<1>2. ASSUME NEW p \in QIds, Inserts(p)
      PROVE  ColumnChange(q)
    BY <1>0, <1>2 DEF TypeOK, Inserts, EnqueueRequest, CreateLaunchReservation, InsertRow, ColumnChange
<1>3. CASE DispatchGrants
    BY <1>0, <1>3 DEF TypeOK, DispatchGrants, PickedHasHead, ColumnChange
<1>4. CASE RequestStep
    BY <1>1, <1>2, <1>4, RequestDecisions
       DEF DecidesEnds, Decides, rowVars, QueueMarkLaunching
<1>5. CASE Dispatch
    BY <1>1, <1>3, <1>5
       DEF Dispatch, DispatchBegin, DispatchCount, DispatchPicksHead, DispatchEnds,
           DispatchDropsHead, DispatchStops, rowVars
<1> USE DEF rowVars, configVars
<1>6. ASSUME NEW p \in QIds, LaunchStep(p) \/ LaunchDies(p) \/ RowStep(p) \/ SessionStep(p)
      PROVE  UNCHANGED <<owner, requested, assigned>>
    BY <1>6
       DEF LaunchStep, BuildConnections, LaunchFails, RecordSession, FulfilRow, LaunchDies, RowStep,
           UserCancels, AdminCancels, PollQueue, allButStatus, GraceElapses, SweepRow, SessionStep,
           HeartbeatLapses, Heartbeat, SessionEnds, ReclaimStale, ReclaimIdle, AdminReclaims,
           SetSession
<1> QED
    BY <1>1, <1>4, <1>5, <1>6
       DEF Next, RequestAsks, Configure, UpdatePool, UpdateAcl, UpdateApp, UpdateUser, MemberRecovers,
           MemberFails, ServerCrashes

\* The row's session: it takes a place that counts only where its launch still
\* holds one.
LEMMA SessionChanges ==
    ASSUME LaunchInv, Next, NEW q \in QIds, session'[q] \in OccupiedStates, q \notin orphaned'
    PROVE  \/ session[q] \in OccupiedStates /\ q \notin orphaned
           \/ RecordSession(q) /\ status[q] = "launching" /\ status'[q] = "launching"
<1>0. TypeOK
    BY DEF LaunchInv
<1> USE <1>0 DEF TypeOK, sessionVars
<1>1. CASE UNCHANGED <<session, orphaned>>
    BY <1>1
<1>2. ASSUME NEW p \in QIds, RecordSession(p)
      PROVE  \/ session[q] \in OccupiedStates /\ q \notin orphaned
             \/ p = q /\ status[q] = "launching" /\ status'[q] = "launching"
    BY <1>2 DEF RecordSession, rowVars
<1>3. ASSUME NEW p \in QIds, SessionEnds(p) \/ ReclaimStale(p) \/ ReclaimIdle(p) \/ AdminReclaims(p)
      PROVE  session[q] \in OccupiedStates /\ q \notin orphaned
    BY <1>3 DEF SessionEnds, ReclaimStale, ReclaimIdle, AdminReclaims, SetSession, OccupiedStates
<1>4. CASE RequestStep
    BY <1>1, <1>4, RequestDecisions
       DEF DecidesEnds, Decides, QueueMarkLaunching, Inserts, EnqueueRequest,
           CreateLaunchReservation, InsertRow
<1>5. CASE Dispatch
    BY <1>1, <1>5
       DEF Dispatch, DispatchBegin, DispatchCount, DispatchPicksHead, DispatchEnds,
           DispatchDropsHead, DispatchStops, DispatchGrants
<1>6. ASSUME NEW p \in QIds, LaunchStep(p) \/ LaunchDies(p) \/ RowStep(p) \/ SessionStep(p),
             ~RecordSession(p),
             ~(SessionEnds(p) \/ ReclaimStale(p) \/ ReclaimIdle(p) \/ AdminReclaims(p))
      PROVE  UNCHANGED <<session, orphaned>>
    BY <1>6
       DEF LaunchStep, BuildConnections, LaunchFails, FulfilRow, LaunchDies, RowStep,
           UserCancels, AdminCancels, PollQueue, allButStatus, GraceElapses, SweepRow, SessionStep,
           HeartbeatLapses, Heartbeat
<1> QED
    BY <1>1, <1>2, <1>3, <1>4, <1>5, <1>6
       DEF Next, RequestAsks, Configure, UpdatePool, UpdateAcl, UpdateApp, UpdateUser, MemberRecovers,
           MemberFails, ServerCrashes

\* The request under way, and what it holds.
RequestChange ==
    \/ req' = req
    \/ req' = None
    \/ /\ req' # None /\ req'.step = "asked"
       /\ \E u \in Users, a \in Apps, row \in QIds \cup {None} : RequestAsks(u, a, row)
    \/ PrepareQueues \/ PrepareReserves \/ ConsumeMayStart

LEMMA RequestChanges ==
    ASSUME LaunchInv, Next
    PROVE  RequestChange
<1>1. CASE RequestStep
    BY <1>1
       DEF RequestStep, RequestFindsPoolBusy, PrepareReturnsLiveRow, PrepareRefuses,
           ConsumeFindsNotReady, ConsumeCancels, EnqueueRequest, CreateLaunchReservation, InsertRow,
           QueueMarkLaunching, RequestDone, RequestChange
<1>2. ASSUME NEW u \in Users, NEW a \in Apps, NEW row \in QIds \cup {None}, RequestAsks(u, a, row)
      PROVE  req' # None /\ req'.step = "asked"
    <2>1. req' \in Requests /\ req'.step = "asked"
        BY <1>2 DEF RequestAsks, Requests
    <2> QED
        BY <1>2, <2>1, SizesAssumption DEF RequestAsks
<1> USE DEF requestVars
<1>3. CASE Dispatch
    BY <1>3
       DEF Dispatch, DispatchBegin, DispatchCount, DispatchPicksHead, DispatchEnds,
           DispatchDropsHead, DispatchStops, DispatchGrants, RequestChange
<1>4. ASSUME NEW p \in QIds, LaunchStep(p) \/ LaunchDies(p) \/ RowStep(p) \/ SessionStep(p)
      PROVE  req' = req
    BY <1>4
       DEF LaunchStep, BuildConnections, LaunchFails, RecordSession, FulfilRow, LaunchDies, RowStep,
           UserCancels, AdminCancels, PollQueue, allButStatus, GraceElapses, SweepRow, SessionStep,
           HeartbeatLapses, Heartbeat, SessionEnds, ReclaimStale, ReclaimIdle, AdminReclaims,
           SetSession
<1> QED
    BY <1>1, <1>2, <1>3, <1>4
       DEF Next, Configure, UpdatePool, UpdateAcl, UpdateApp, UpdateUser, KeepUsable, Lists, MemberRecovers,
           MemberFails, ServerCrashes, RequestChange

-----------------------------------------------------------------------------
(* One live row for each user.  A request looks for the caller's live row   *)
(* and inserts another in two steps; what keeps them together is that only  *)
(* a request inserts, one at a time, and that no row that ended comes back. *)

Writing == req # None /\ req.step \in {"enqueue", "reserve"}

CallerHasNoLiveRow ==
    Writing => \A q \in QIds : status[q] \in LiveStates => owner[q] # req.user

\* A live row was live before, or is the one just inserted.
LEMMA LiveRowsAreOld ==
    ASSUME LaunchInv, Next, NEW q \in QIds, status'[q] \in LiveStates
    PROVE  \/ status[q] \in LiveStates /\ owner'[q] = owner[q] /\ requested'[q] = requested[q]
           \/ Inserts(q) /\ owner'[q] = req.user /\ requested'[q] = req.app
<1>1. CASE Inserts(q)
    BY <1>1 DEF LaunchInv, TypeOK, Inserts, EnqueueRequest, CreateLaunchReservation, InsertRow
<1>2. CASE ~Inserts(q)
    BY <1>2, RowChanges, ColumnChanges DEF RowChange, ColumnChange, LiveStates
<1> QED
    BY <1>1, <1>2

LEMMA StepOneLiveRow ==
    ASSUME LaunchInv, OneLiveRowPerUser, CallerHasNoLiveRow, Next
    PROVE  OneLiveRowPerUser' /\ CallerHasNoLiveRow'
<1>1. \A p, q \in QIds : Inserts(p) /\ Inserts(q) => p = q
    BY InsertsOne DEF LaunchInv
<1>2. ASSUME NEW p \in QIds, Inserts(p)
      PROVE  Writing
    BY <1>2 DEF Inserts, EnqueueRequest, CreateLaunchReservation, Writing
<1>3. OneLiveRowPerUser'
    BY <1>1, <1>2, LiveRowsAreOld DEF OneLiveRowPerUser, CallerHasNoLiveRow
<1>4. CASE PrepareQueues \/ PrepareReserves
    <2>1. /\ ~HasLiveRow(req.user) /\ status' = ExpireOverdue /\ owner' = owner
          /\ req \in Requests
        BY <1>4 DEF PrepareQueues, PrepareReserves, EntersPrepare, Decides, LaunchInv, TypeOK
    <2>2. req'.user = req.user
        BY <1>4, <2>1 DEF PrepareQueues, PrepareReserves, Requests
    <2> QED
        BY <1>3, <2>1, <2>2 DEF CallerHasNoLiveRow, HasLiveRow, Live
<1>5. CASE req' = req
    <2>1. \A p \in QIds : ~Inserts(p) \/ ~Writing'
        BY <1>5 DEF Inserts, EnqueueRequest, CreateLaunchReservation, InsertRow, Writing
    <2> QED
        BY <1>3, <1>5, <2>1, LiveRowsAreOld DEF CallerHasNoLiveRow, Writing
<1>6. CASE ConsumeMayStart
    BY <1>3, <1>6, SizesAssumption
       DEF ConsumeMayStart, EntersConsume, LaunchInv, TypeOK, Requests, CallerHasNoLiveRow, Writing
<1>7. CASE req' = None \/ (req' # None /\ req'.step = "asked")
    BY <1>3, <1>7 DEF CallerHasNoLiveRow, Writing
<1> QED
    BY <1>3, <1>4, <1>5, <1>6, <1>7, RequestChanges DEF RequestChange

\* No user waits or is being launched twice, whatever is cancelled, requeued or
\* crashes in between.
THEOREM UsersHaveOneLiveRow == Spec => []OneLiveRowPerUser
<1>1. Init => OneLiveRowPerUser /\ CallerHasNoLiveRow
    BY DEF Init, OneLiveRowPerUser, CallerHasNoLiveRow, Writing, LiveStates
<1>2. ASSUME LaunchInv, OneLiveRowPerUser, CallerHasNoLiveRow, [Next]_vars
      PROVE  OneLiveRowPerUser' /\ CallerHasNoLiveRow'
    <2>1. CASE UNCHANGED vars
        BY <1>2, <2>1 DEF vars, OneLiveRowPerUser, CallerHasNoLiveRow, Writing
    <2> QED
        BY <1>2, <2>1, StepOneLiveRow
<1> QED
    BY <1>1, <1>2, LaunchInvariant, PTL DEF Spec

-----------------------------------------------------------------------------
(* Rows whose owner lost the app requested.  A change of access lists every *)
(* row it could concern, or makes those it takes access from late; a listed *)
(* row that is still live when the cleanup comes to it has kept its access; *)
(* and a crash turns what is listed and lost late.                          *)

LEMMA StepAllowedOrSwept ==
    ASSUME LaunchInv, LiveRowsAllowedOrSwept, Next
    PROVE  LiveRowsAllowedOrSwept'
<1> SUFFICES ASSUME NEW q \in QIds, status'[q] \in LiveStates
             PROVE  \/ MayAsk(q, access)'
                    \/ q \in late'
                    \/ \E member \in Apps \cup {None} : <<q, member>> \in sweep'
    BY DEF LiveRowsAllowedOrSwept
<1>0. TypeOK
    BY DEF LaunchInv
<1> DEFINE Fine == \/ MayAsk(q, access)'
                   \/ q \in late'
                   \/ \E member \in Apps \cup {None} : <<q, member>> \in sweep'
<1>1. ASSUME Inserts(q), owner'[q] = req.user, requested'[q] = req.app
      PROVE  Fine
    <2>1. access' = access /\ late' = IF req.app \in UsableBy(req.user) THEN late ELSE late \cup {q}
        BY <1>1 DEF Inserts, EnqueueRequest, CreateLaunchReservation, InsertRow, configVars
    <2> QED
        BY <1>1, <2>1 DEF UsableBy, MayAsk
<1>2. CASE /\ status[q] \in LiveStates /\ owner'[q] = owner[q] /\ requested'[q] = requested[q]
    <2>1. CASE access' = access /\ late \subseteq late' /\ sweep \subseteq sweep'
        BY <1>2, <2>1 DEF LiveRowsAllowedOrSwept, MayAsk
    <2>2. ASSUME NEW p \in QIds, NEW member \in Apps \cup {None}, SweepRow(p, member)
          PROVE  Fine
        <3>1. /\ access' = access /\ late' = late /\ sweep' = sweep \ {<<p, member>>}
              /\ MayAsk(q, access)' <=> MayAsk(q, access)
            BY <1>2, <2>2 DEF SweepRow, configVars, requestVars, MayAsk
        <3>2. CASE p = q
            <4>1. MayAsk(q, access)
                BY <1>0, <1>2, <2>2, <3>2 DEF SweepRow, TypeOK, LiveStates
            <4> QED
                BY <3>1, <4>1
        <3>3. CASE p # q
            BY <1>2, <3>1, <3>3 DEF LiveRowsAllowedOrSwept
        <3> QED
            BY <3>2, <3>3
    <2>3. CASE ServerCrashes
        <3>1. /\ late' = late \cup {r \in QIds :
                    /\ ~MayAsk(r, access)
                    /\ \E member \in Apps \cup {None} : <<r, member>> \in sweep}
              /\ MayAsk(q, access)' <=> MayAsk(q, access)
            BY <1>2, <2>3 DEF ServerCrashes, configVars, MayAsk
        <3> QED
            BY <1>2, <3>1 DEF LiveRowsAllowedOrSwept
    <2>4. ASSUME NEW rows \in SUBSET QIds, q \in rows, sweep' = sweep \cup ListedRows(rows)
          PROVE  Fine
        <3>1. <<q, IF status[q] \in ReservedStates THEN assigned[q] ELSE None>> \in ListedRows(rows)
            BY <1>2, <2>4 DEF ListedRows, Live
        <3>2. (IF status[q] \in ReservedStates THEN assigned[q] ELSE None) \in Apps \cup {None}
            BY <1>0 DEF TypeOK
        <3> QED
            BY <2>4, <3>1, <3>2
    <2>5. ASSUME NEW u \in Users, NEW allowed \in SUBSET Apps, UpdateAcl(u, allowed)
          PROVE  Fine
        <3> DEFINE rows == {p \in QIds : owner[p] = u}
        <3>1. /\ access' = {p \in access : p[1] # u} \cup ({u} \X allowed) /\ late' = late \ rows
              /\ sweep' = sweep \cup ListedRows(rows)
            BY <2>5 DEF UpdateAcl, Lists
        <3>2. CASE owner[q] = u
            BY <2>4, <3>1, <3>2
        <3>3. CASE owner[q] # u
            <4>1. q \notin rows /\ (MayAsk(q, access) => MayAsk(q, access)')
                BY <1>2, <3>1, <3>3 DEF MayAsk
            <4> QED
                BY <1>2, <3>1, <4>1 DEF LiveRowsAllowedOrSwept
        <3> QED
            BY <3>2, <3>3
    <2>6. ASSUME NEW a \in Apps, NEW allowed \in SUBSET Users, UpdateApp(a, allowed)
          PROVE  Fine
        <3> DEFINE rows == {p \in QIds : requested[p] = a}
        <3>1. /\ access' = {p \in access : p[2] # a} \cup (allowed \X {a}) /\ late' = late \ rows
              /\ sweep' = sweep \cup ListedRows(rows)
            BY <2>6 DEF UpdateApp, Lists
        <3>2. CASE requested[q] = a
            BY <2>4, <3>1, <3>2
        <3>3. CASE requested[q] # a
            <4>1. q \notin rows /\ (MayAsk(q, access) => MayAsk(q, access)')
                BY <1>2, <3>1, <3>3 DEF MayAsk
            <4> QED
                BY <1>2, <3>1, <4>1 DEF LiveRowsAllowedOrSwept
        <3> QED
            BY <3>2, <3>3
    <2>11. ASSUME NEW u \in Users, NEW desktops \in SUBSET Apps, UpdateUser(u, desktops)
          PROVE  Fine
        <3>1. /\ late' = {r \in late \cup {p \in Live(status) : MayAsk(p, access)} :
                            ~MayAsk(r, access')}
              /\ sweep' = sweep /\ owner' = owner /\ requested' = requested
            BY <2>11 DEF UpdateUser, rowVars
        <3>2. MayAsk(q, access)' <=> MayAsk(q, access')
            BY <3>1 DEF MayAsk
        <3>3. q \in Live(status)
            BY <1>2 DEF Live
        <3> QED
            BY <1>2, <3>1, <3>2, <3>3 DEF LiveRowsAllowedOrSwept
    <2> USE DEF configVars, requestVars, RequestDone
    <2>7. CASE RequestStep
        BY <2>1, <2>7
           DEF RequestStep, RequestFindsPoolBusy, PrepareReturnsLiveRow, PrepareRefuses,
               PrepareQueues, PrepareReserves, ConsumeFindsNotReady, ConsumeCancels, ConsumeMayStart,
               Decides, EnqueueRequest, CreateLaunchReservation, InsertRow, QueueMarkLaunching
    <2>8. CASE Dispatch
        BY <2>1, <2>8
           DEF Dispatch, DispatchBegin, DispatchCount, DispatchPicksHead, DispatchEnds,
               DispatchDropsHead, DispatchStops, DispatchGrants
    <2>9. ASSUME NEW p \in QIds,
                 LaunchStep(p) \/ LaunchDies(p) \/ RowStep(p) \/ SessionStep(p),
                 \A member \in Apps \cup {None} : ~SweepRow(p, member)
          PROVE  UNCHANGED <<access, late, sweep>>
        BY <2>9
           DEF LaunchStep, BuildConnections, LaunchFails, RecordSession, FulfilRow, LaunchDies,
               RowStep, UserCancels, AdminCancels, PollQueue, allButStatus, GraceElapses,
               SessionStep, HeartbeatLapses, Heartbeat, SessionEnds, ReclaimStale, ReclaimIdle,
               AdminReclaims, SetSession
    <2>10. CASE \/ UpdatePool
                \/ \E a \in Apps : MemberRecovers(a) \/ MemberFails(a)
                \/ \E u \in Users, a \in Apps, row \in QIds \cup {None} : RequestAsks(u, a, row)
        BY <2>1, <2>10 DEF UpdatePool, MemberRecovers, MemberFails, RequestAsks
    <2> QED
        BY <2>1, <2>2, <2>3, <2>5, <2>6, <2>7, <2>8, <2>9, <2>10, <2>11 DEF Next, Configure
<1> QED
    BY <1>1, <1>2, LiveRowsAreOld

\* A live row is one its owner may ask for, or the cleanup of the change that
\* took that away is on its way to it, or no cleanup has it listed: a user who
\* ceased to be an administrator, a request checked before the change, a cleanup
\* that the process did not survive.
THEOREM LiveRowsAreAllowedOrSwept == Spec => []LiveRowsAllowedOrSwept
<1>1. Init => LiveRowsAllowedOrSwept
    BY DEF Init, LiveRowsAllowedOrSwept, LiveStates
<1>2. ASSUME LaunchInv, LiveRowsAllowedOrSwept, [Next]_vars
      PROVE  LiveRowsAllowedOrSwept'
    <2>1. CASE UNCHANGED vars
        BY <1>2, <2>1 DEF vars, LiveRowsAllowedOrSwept, MayAsk
    <2> QED
        BY <1>2, <2>1, StepAllowedOrSwept
<1> QED
    BY <1>1, <1>2, LaunchInvariant, PTL DEF Spec

-----------------------------------------------------------------------------
(* Who starts, and in which order.  A request that has decided holds the    *)
(* lock, so the dispatcher grants nothing until it has written; what it     *)
(* found (nobody waiting, a member its user may use, its own row) holds     *)
(* until then, though cancels, requeues and ACL changes go on meanwhile.    *)

DecidedUnderLock == req # None /\ req.step # "asked" => dpc = "idle"

RequestOwnsRow ==
    req # None /\ req.row # None => owner[req.row] = req.user /\ status[req.row] # "absent"

ReserveFindsNobody == req # None /\ req.step = "reserve" => Live(status) = {}

\* The dispatcher's head is older than whoever else never had a slot.
HeadIsOldest ==
    dpc = "picked" =>
        \A p \in QIds : p < head => ~(status[p] = "queued" /\ assigned[p] = None)

MemberUsable ==
    req # None =>
        /\ UsableBy(req.user) \subseteq usable
        /\ req.step = "reserve" => req.member \in usable
        /\ req.step = "consume" => req.row \in QIds /\ assigned[req.row] \in usable

OrderInv ==
    /\ DecidedUnderLock /\ RequestOwnsRow /\ ReserveFindsNobody /\ HeadIsOldest /\ MemberUsable

LEMMA DispatcherChanges ==
    ASSUME Next
    PROVE  \/ DispatchBegin /\ dpc' = "counting"
           \/ DispatchPicksHead
           \/ dpc # "idle" /\ dpc' # "picked"
           \/ dpc' = "idle"
           \/ dpc' = dpc /\ head' = head
<1> USE DEF dispatcherVars
<1>1. CASE RequestStep
    BY <1>1
       DEF RequestStep, RequestFindsPoolBusy, PrepareReturnsLiveRow, PrepareRefuses,
           PrepareQueues, PrepareReserves, ConsumeFindsNotReady, ConsumeCancels, ConsumeMayStart,
           Decides, EnqueueRequest, CreateLaunchReservation, InsertRow, QueueMarkLaunching
<1>2. CASE Dispatch
    BY <1>2
       DEF Dispatch, DispatchBegin, DispatchCount, DispatchPicksHead, DispatchEnds,
           DispatchDropsHead, DispatchStops, DispatchGrants, Unlock
<1>3. ASSUME NEW p \in QIds, LaunchStep(p) \/ LaunchDies(p) \/ RowStep(p) \/ SessionStep(p)
      PROVE  dpc' = dpc /\ head' = head
    BY <1>3
       DEF LaunchStep, BuildConnections, LaunchFails, RecordSession, FulfilRow, LaunchDies, RowStep,
           UserCancels, AdminCancels, PollQueue, allButStatus, GraceElapses, SweepRow, SessionStep,
           HeartbeatLapses, Heartbeat, SessionEnds, ReclaimStale, ReclaimIdle, AdminReclaims,
           SetSession
<1> QED
    BY <1>1, <1>2, <1>3
       DEF Next, RequestAsks, Configure, UpdatePool, UpdateAcl, UpdateApp, UpdateUser, MemberRecovers,
           MemberFails, ServerCrashes, Unlock

LEMMA UsableChanges ==
    ASSUME Next
    PROVE  \/ access' = access /\ (usable' = usable \/ req' = None)
           \/ KeepUsable
           \/ \E u \in Users, a \in Apps, row \in QIds \cup {None} : RequestAsks(u, a, row)
<1> USE DEF configVars, requestVars, RequestDone
<1>1. CASE RequestStep
    BY <1>1
       DEF RequestStep, RequestFindsPoolBusy, PrepareReturnsLiveRow, PrepareRefuses,
           PrepareQueues, PrepareReserves, ConsumeFindsNotReady, ConsumeCancels, ConsumeMayStart,
           Decides, EnqueueRequest, CreateLaunchReservation, InsertRow, QueueMarkLaunching
<1>2. CASE Dispatch
    BY <1>2
       DEF Dispatch, DispatchBegin, DispatchCount, DispatchPicksHead, DispatchEnds,
           DispatchDropsHead, DispatchStops, DispatchGrants
<1>3. ASSUME NEW p \in QIds, LaunchStep(p) \/ LaunchDies(p) \/ RowStep(p) \/ SessionStep(p)
      PROVE  access' = access /\ usable' = usable
    BY <1>3
       DEF LaunchStep, BuildConnections, LaunchFails, RecordSession, FulfilRow, LaunchDies, RowStep,
           UserCancels, AdminCancels, PollQueue, allButStatus, GraceElapses, SweepRow, SessionStep,
           HeartbeatLapses, Heartbeat, SessionEnds, ReclaimStale, ReclaimIdle, AdminReclaims,
           SetSession
<1> QED
    BY <1>1, <1>2, <1>3
       DEF Next, Configure, UpdatePool, UpdateAcl, UpdateApp, UpdateUser, MemberRecovers, MemberFails,
           ServerCrashes

\* A request that has decided and goes on.
LEMMA Decisions ==
    ASSUME LaunchInv, PrepareQueues \/ PrepareReserves \/ ConsumeMayStart
    PROVE  /\ req \in Requests /\ req # None /\ req' \in Requests /\ req' # None
           /\ dpc = "idle" /\ req'.user = req.user /\ req'.row = req.row
           /\ status' = ExpireOverdue
           /\ UNCHANGED <<access, owner, requested, assigned, dpc, usable, session, orphaned>>
           /\ \/ req'.step = "enqueue"
              \/ /\ req'.step = "reserve" /\ ~MustQueue(ExpireOverdue, req.user)
                 /\ req'.member \in LaunchableMembers(ExpireOverdue, req.user)
                 /\ ~LimitReached(ExpireOverdue, req.user, req'.member, None)
              \/ req'.step = "consume" /\ req.row \in QIds /\ MayStart(req.row)
<1>1. req \in Requests /\ req # None /\ dpc = "idle"
    BY DEF LaunchInv, TypeOK, PrepareQueues, PrepareReserves, ConsumeMayStart, EntersPrepare,
           EntersConsume, PoolLockFree
<1>2. /\ status' = ExpireOverdue
      /\ UNCHANGED <<access, owner, requested, assigned, dpc, usable, session, orphaned>>
    BY DEF PrepareQueues, PrepareReserves, ConsumeMayStart, Decides, configVars, dispatcherVars,
           sessionVars
<1>3. CASE PrepareQueues
    <2>1. req' = [req EXCEPT !.step = "enqueue"]
        BY <1>3 DEF PrepareQueues
    <2>2. /\ req' \in Requests /\ req'.step = "enqueue" /\ req'.user = req.user
          /\ req'.row = req.row
        BY <1>1, <2>1 DEF Requests
    <2> QED
        BY <1>1, <1>2, <2>2, SizesAssumption
<1>4. CASE PrepareReserves
    <2>1. PICK m \in LaunchableMembers(ExpireOverdue, req.user) :
            /\ ~LimitReached(ExpireOverdue, req.user, m, None)
            /\ req' = [req EXCEPT !.step = "reserve", !.member = m]
        BY <1>4 DEF PrepareReserves
    <2>2. m \in Apps
        BY DEF LaunchableMembers, LaunchInv, TypeOK
    <2>3. /\ req' \in Requests /\ req'.step = "reserve" /\ req'.user = req.user
          /\ req'.row = req.row /\ req'.member = m
        BY <1>1, <2>1, <2>2 DEF Requests
    <2>4. ~MustQueue(ExpireOverdue, req.user)
        BY <1>4 DEF PrepareReserves
    <2> QED
        BY <1>1, <1>2, <2>1, <2>3, <2>4, SizesAssumption
<1>5. CASE ConsumeMayStart
    <2>1. req' = [req EXCEPT !.step = "consume"] /\ MayStart(req.row) /\ req.row \in QIds
        BY <1>1, <1>5 DEF ConsumeMayStart, EntersConsume, Requests
    <2>2. /\ req' \in Requests /\ req'.step = "consume" /\ req'.user = req.user
          /\ req'.row = req.row
        BY <1>1, <2>1 DEF Requests
    <2> QED
        BY <1>1, <1>2, <2>1, <2>2, SizesAssumption
<1> QED
    BY <1>3, <1>4, <1>5

\* Until a request has written what it decided, nobody else gets a place.
LEMMA NothingElseGranted ==
    ASSUME DecidedUnderLock, Next, req' = req, req # None, req.step # "asked"
    PROVE  dpc = "idle" /\ dpc' = "idle" /\ ~DispatchGrants /\ \A q \in QIds : ~Inserts(q)
<1>1. dpc = "idle" /\ ~DispatchBegin
    BY DEF DecidedUnderLock, DispatchBegin, PoolLockFree
<1>2. ~DispatchGrants /\ ~DispatchPicksHead
    BY <1>1 DEF DispatchGrants, DispatchPicksHead
<1>3. \A q \in QIds : ~Inserts(q)
    BY DEF Inserts, EnqueueRequest, CreateLaunchReservation, InsertRow
<1> QED
    BY <1>1, <1>2, <1>3, DispatcherChanges

LEMMA StepOrder ==
    ASSUME LaunchInv, OrderInv, Next
    PROVE  OrderInv'
<1>0. TypeOK /\ MembersAssigned /\ DecidedUnderLock /\ RequestOwnsRow /\ ReserveFindsNobody
      /\ HeadIsOldest /\ MemberUsable
    BY DEF LaunchInv, OrderInv
<1>1. ASSUME req' = req, req # None, req.step # "asked"
      PROVE  dpc = "idle" /\ dpc' = "idle" /\ ~DispatchGrants /\ \A q \in QIds : ~Inserts(q)
    BY <1>0, <1>1, NothingElseGranted
<1>2. DecidedUnderLock'
    BY <1>1, RequestChanges, Decisions DEF RequestChange, DecidedUnderLock
<1>3. RequestOwnsRow'
    <2>1. ASSUME req \in Requests, req # None, req.row # None
          PROVE  owner'[req.row] = req.user /\ status'[req.row] # "absent"
        <3>1. req.row \in QIds /\ owner[req.row] = req.user /\ status[req.row] # "absent"
            BY <1>0, <2>1 DEF RequestOwnsRow, Requests
        <3>2. ~Inserts(req.row)
            BY <3>1 DEF Inserts, EnqueueRequest, CreateLaunchReservation, InsertRow, IsNextId
        <3> QED
            BY <3>1, <3>2, RowChanges, ColumnChanges DEF RowChange, ColumnChange
    <2>2. ASSUME NEW u \in Users, NEW a \in Apps, NEW row \in QIds \cup {None},
                 RequestAsks(u, a, row)
          PROVE  req' # None /\ req'.row # None =>
                    owner'[req'.row] = req'.user /\ status'[req'.row] # "absent"
        BY <2>2 DEF RequestAsks, rowVars
    <2>3. CASE req' = req
        BY <1>0, <2>1, <2>3 DEF RequestOwnsRow, TypeOK
    <2>4. CASE req' = None
        BY <2>4 DEF RequestOwnsRow
    <2>5. CASE PrepareQueues \/ PrepareReserves \/ ConsumeMayStart
        BY <2>1, <2>5, Decisions DEF RequestOwnsRow
    <2>6. CASE \E u \in Users, a \in Apps, row \in QIds \cup {None} : RequestAsks(u, a, row)
        BY <2>2, <2>6 DEF RequestOwnsRow
    <2> QED
        BY <2>3, <2>4, <2>5, <2>6, RequestChanges DEF RequestChange
<1>4. ReserveFindsNobody'
    <2>1. CASE req' = req
        BY <1>0, <1>1, <2>1, LiveRowsAreOld DEF ReserveFindsNobody, Live
    <2>2. CASE PrepareQueues \/ PrepareReserves \/ ConsumeMayStart
        BY <2>2, Decisions DEF ReserveFindsNobody, MustQueue
    <2> QED
        BY <2>1, <2>2, RequestChanges DEF RequestChange, ReserveFindsNobody
<1>5. HeadIsOldest'
    <2>1. CASE DispatchPicksHead
        <3>1. head' \in QIds /\ IsQueueHead(head') /\ status' = status
            BY <2>1 DEF DispatchPicksHead, rowVars
        <3> QED
            BY <3>1 DEF HeadIsOldest, IsQueueHead, QIds
    <2>2. ASSUME dpc = "picked", dpc' = dpc, head' = head, NEW p \in QIds, p < head,
                 status'[p] = "queued", assigned'[p] = None
          PROVE  FALSE
        <3>1. ~Inserts(p) /\ ~DispatchGrants
            <4>1. ~Inserts(p)
                BY <1>0, <2>2 DEF Inserts, EnqueueRequest, CreateLaunchReservation, DecidedUnderLock
            <4>2. ~DispatchGrants
                BY <2>2 DEF DispatchGrants
            <4> QED
                BY <4>1, <4>2
        <3>2. assigned[p] = None
            BY <2>2, <3>1, ColumnChanges DEF ColumnChange
        <3>3. ~LaunchFails(p)
            BY <1>0, <3>2, SizesAssumption DEF LaunchFails, MayFail, MembersAssigned
        <3>4. status[p] = "queued"
            BY <2>2, <3>1, <3>3, RowChanges DEF RowChange
        <3> QED
            BY <1>0, <2>2, <3>2, <3>4 DEF HeadIsOldest
    <2> QED
        BY <2>1, <2>2, DispatcherChanges DEF HeadIsOldest
<1>6. MemberUsable'
    <2>1. CASE req' = req /\ req # None
        <3>1. UsableBy(req.user)' \subseteq usable' /\ usable \subseteq usable'
            <4>1. CASE access' = access /\ usable' = usable
                BY <1>0, <2>1, <4>1 DEF MemberUsable, UsableBy
            <4>2. CASE KeepUsable
                BY <1>0, <2>1, <4>2 DEF KeepUsable, UsableBy
            <4> QED
                BY <2>1, <4>1, <4>2, UsableChanges DEF RequestAsks
        <3>2. req.step = "consume" => assigned'[req.row] = assigned[req.row]
            BY <1>0, <1>1, <2>1, ColumnChanges DEF ColumnChange, MemberUsable
        <3> QED
            BY <1>0, <2>1, <3>1, <3>2 DEF MemberUsable
    <2>2. CASE PrepareQueues \/ PrepareReserves \/ ConsumeMayStart
        <3>1. UsableBy(req.user)' = UsableBy(req.user)
            BY <2>2, Decisions DEF UsableBy
        <3>2. LaunchableMembers(ExpireOverdue, req.user) \subseteq UsableBy(req.user)
            BY <1>0 DEF LaunchableMembers, UsableBy, TypeOK
        <3>3. CASE req'.step = "enqueue"
            BY <1>0, <2>2, <3>1, <3>3, Decisions DEF MemberUsable, UsableBy
        <3>4. CASE req'.step = "reserve"
            BY <1>0, <2>2, <3>1, <3>2, <3>4, Decisions DEF MemberUsable, UsableBy
        <3>5. CASE req'.step = "consume"
            <4>1. owner[req.row] = req.user /\ req.row \in QIds
                BY <1>0, <2>2, <3>5, Decisions, SizesAssumption DEF RequestOwnsRow
            <4> QED
                BY <1>0, <2>2, <3>1, <3>5, <4>1, Decisions DEF MemberUsable, UsableBy, MayStart
        <3> QED
            BY <2>2, <3>3, <3>4, <3>5, Decisions
    <2>3. ASSUME NEW u \in Users, NEW a \in Apps, NEW row \in QIds \cup {None},
                 RequestAsks(u, a, row)
          PROVE  MemberUsable'
        <3>1. req'.user = u /\ req'.step = "asked" /\ usable' = UsableBy(u) /\ access' = access
            BY <2>3 DEF RequestAsks, configVars
        <3> QED
            BY <3>1 DEF MemberUsable, UsableBy
    <2>4. CASE req' = None
        BY <2>4 DEF MemberUsable
    <2> QED
        BY <2>1, <2>2, <2>3, <2>4, RequestChanges DEF RequestChange
<1> QED
    BY <1>2, <1>3, <1>4, <1>5, <1>6 DEF OrderInv

LEMMA OrderInvariant == Spec => []OrderInv
<1>1. Init => OrderInv
    BY DEF Init, OrderInv, DecidedUnderLock, RequestOwnsRow, ReserveFindsNobody, HeadIsOldest,
           MemberUsable
<1>2. ASSUME LaunchInv, OrderInv, [Next]_vars
      PROVE  OrderInv'
    <2>1. CASE UNCHANGED vars
        BY <1>2, <2>1
           DEF vars, OrderInv, DecidedUnderLock, RequestOwnsRow, ReserveFindsNobody, HeadIsOldest,
               MemberUsable, UsableBy, Live
    <2> QED
        BY <1>2, <2>1, StepOrder
<1> QED
    BY <1>1, <1>2, LaunchInvariant, PTL DEF Spec

\* Nobody gets a slot past an older row that never had one, neither from the
\* dispatcher nor by a launch request that found the queue empty.
THEOREM NobodyOvertakes == Spec => NoOvertaking
<1>1. ASSUME LaunchInv, OrderInv, Next, NEW p \in QIds, NEW q \in QIds
      PROVE  ~Overtakes(q, p)
    <2> SUFFICES ASSUME Overtakes(q, p)
                 PROVE  FALSE
        OBVIOUS
    <2>1. p < q /\ GetsSlot(q) /\ status[p] = "queued" /\ assigned[p] = None
        BY DEF Overtakes
    <2>2. CASE Inserts(q)
        <3>1. CreateLaunchReservation(q)
            BY <1>1, <2>1, <2>2
               DEF GetsSlot, ReservedStates, Inserts, EnqueueRequest, InsertRow, LaunchInv, TypeOK
        <3> QED
            BY <1>1, <2>1, <3>1
               DEF CreateLaunchReservation, OrderInv, ReserveFindsNobody, Live, LiveStates
    <2>3. CASE DispatchGrants /\ head = q
        BY <1>1, <2>1, <2>3 DEF DispatchGrants, OrderInv, HeadIsOldest
    <2> QED
        BY <1>1, <2>1, <2>2, <2>3, RowChanges DEF RowChange, GetsSlot, ReservedStates
<1>2. ASSUME LaunchInv, OrderInv, [Next]_vars
      PROVE  [\A p, q \in QIds : ~Overtakes(q, p)]_vars
    BY <1>1, <1>2
<1> QED
    BY <1>2, LaunchInvariant, OrderInvariant, PTL DEF Spec, NoOvertaking

\* No launch starts on a member its owner could not use at some time since the
\* request for it came in, however long before the dispatcher assigned it.
THEOREM LaunchesStartAllowed == Spec => LaunchStartsAllowed
<1>1. ASSUME LaunchInv, OrderInv, Next, NEW q \in QIds, flight[q] = "none", flight'[q] = "starting"
      PROVE  assigned'[q] \in usable
    <2>0. TypeOK
        BY <1>1 DEF LaunchInv
    <2>1. ASSUME NEW p \in QIds, CreateLaunchReservation(p)
          PROVE  assigned'[q] \in usable
        <3>1. p = q /\ assigned'[q] = req.member /\ req # None /\ req.step = "reserve"
            BY <1>1, <2>0, <2>1 DEF CreateLaunchReservation, InsertRow, TypeOK
        <3> QED
            BY <1>1, <3>1 DEF OrderInv, MemberUsable
    <2>2. ASSUME NEW p \in QIds, QueueMarkLaunching(p)
          PROVE  assigned'[q] \in usable
        <3>1. /\ p = q /\ assigned' = assigned /\ req # None /\ req.step = "consume"
              /\ req.row = q
            BY <1>1, <2>0, <2>2 DEF QueueMarkLaunching, TypeOK
        <3> QED
            BY <1>1, <3>1 DEF OrderInv, MemberUsable
    <2> USE DEF TypeOK, rowVars, FlightStates
    <2>3. CASE RequestStep
        BY <1>1, <2>1, <2>2, <2>3, RequestDecisions
           DEF DecidesEnds, Decides, Inserts, EnqueueRequest
    <2>4. CASE Dispatch
        BY <1>1, <2>4
           DEF Dispatch, DispatchBegin, DispatchCount, DispatchPicksHead, DispatchEnds,
               DispatchDropsHead, DispatchStops, DispatchGrants
    <2>5. ASSUME NEW p \in QIds, LaunchStep(p) \/ LaunchDies(p)
          PROVE  flight'[q] # "starting"
        BY <1>1, <2>0, <2>5
           DEF LaunchStep, BuildConnections, LaunchFails, RecordSession, FulfilRow, LaunchDies
    <2>6. ASSUME NEW p \in QIds, RowStep(p) \/ SessionStep(p)
          PROVE  flight' = flight
        BY <2>6
           DEF RowStep, UserCancels, AdminCancels, PollQueue, allButStatus, GraceElapses, SweepRow,
               SessionStep, HeartbeatLapses, Heartbeat, SessionEnds, ReclaimStale, ReclaimIdle,
               AdminReclaims, SetSession
    <2> QED
        BY <1>1, <2>3, <2>4, <2>5, <2>6
           DEF Next, RequestAsks, Configure, UpdatePool, UpdateAcl, UpdateApp, UpdateUser, MemberRecovers,
               MemberFails, ServerCrashes
<1>2. ASSUME LaunchInv, OrderInv, [Next]_vars
      PROVE  [\A q \in QIds : StartsAllowed(q)]_vars
    BY <1>1, <1>2 DEF StartsAllowed
<1> QED
    BY <1>2, LaunchInvariant, OrderInvariant, PTL DEF Spec, LaunchStartsAllowed

-----------------------------------------------------------------------------
(* The caps of members and of users on them.  Both count in one statement   *)
(* what a request then adds to in another, under the lock.                  *)

\* The rows that use a member, and those a user runs on it.
OnMember(a) ==
    {q \in QIds : /\ assigned[q] = a
                  /\ \/ status[q] \in ReservedStates
                     \/ session[q] \in OccupiedStates /\ q \notin orphaned}

RunsOn(u, a) ==
    {q \in QIds : /\ owner[q] = u /\ assigned[q] = a
                  /\ \/ status[q] = "launching"
                     \/ session[q] \in OccupiedStates /\ q \notin orphaned}

ReservesBelowCaps ==
    req # None /\ req.step = "reserve" =>
        /\ req.member \in Apps
        /\ Cardinality(OnMember(req.member)) < MemberMax[req.member]
        /\ UserAppLimit > 0 => Cardinality(RunsOn(req.user, req.member)) < UserAppLimit

ConsumesBelowLimit ==
    req # None /\ req.step = "consume" /\ UserAppLimit > 0 =>
        Cardinality(RunsOn(owner[req.row], assigned[req.row]) \ {req.row}) < UserAppLimit

CapInv == MemberWithinCap /\ UserAppWithinLimit /\ ReservesBelowCaps /\ ConsumesBelowLimit

\* A row comes to use a member, or to run on it, in these steps alone.
LEMMA ComesToUse ==
    ASSUME LaunchInv, Next, NEW a, NEW q \in OnMember(a)'
    PROVE  \/ q \in OnMember(a)
           \/ CreateLaunchReservation(q) /\ a = req.member
           \/ DispatchGrants /\ head = q /\ a \in LaunchableMembers(status, owner[q])
<1>0. TypeOK
    BY DEF LaunchInv
<1>1. q \in QIds /\ assigned'[q] = a
    BY DEF OnMember
<1>2. CASE Inserts(q)
    <2>1. status[q] = "absent" /\ assigned'[q] = req.member
        BY <1>0, <1>1, <1>2
           DEF Inserts, EnqueueRequest, CreateLaunchReservation, InsertRow, IsNextId, TypeOK
    <2>2. session[q] = "none" /\ session' = session
        BY <1>1, <1>2, <2>1
           DEF LaunchInv, WaitingRowIsUnlaunched, Inserts, EnqueueRequest, CreateLaunchReservation,
               InsertRow, sessionVars
    <2>3. status'[q] \in ReservedStates
        BY <1>1, <2>2 DEF OnMember, OccupiedStates
    <2> QED
        BY <1>0, <1>1, <1>2, <2>1, <2>3
           DEF Inserts, EnqueueRequest, InsertRow, ReservedStates, TypeOK
<1>3. CASE DispatchGrants /\ head = q
    <2>1. CASE assigned'[q] = assigned[q] /\ ~(a \in LaunchableMembers(status, owner[q]))
        BY <1>0, <1>1, <1>3, <2>1 DEF DispatchGrants, TypeOK
    <2> QED
        BY <1>1, <1>2, <1>3, <2>1, ColumnChanges DEF ColumnChange
<1>4. CASE ~Inserts(q) /\ ~(DispatchGrants /\ head = q)
    <2>1. assigned[q] = a
        BY <1>1, <1>4, ColumnChanges DEF ColumnChange
    <2>2. CASE status'[q] \in ReservedStates
        BY <1>1, <1>4, <2>1, <2>2, RowChanges DEF RowChange, OnMember, ReservedStates
    <2>3. CASE session'[q] \in OccupiedStates /\ q \notin orphaned'
        BY <1>1, <2>1, <2>3, SessionChanges DEF OnMember, ReservedStates
    <2> QED
        BY <2>2, <2>3 DEF OnMember
<1> QED
    BY <1>2, <1>3, <1>4

LEMMA ComesToRun ==
    ASSUME LaunchInv, Next, NEW u, NEW a, NEW q \in RunsOn(u, a)'
    PROVE  \/ q \in RunsOn(u, a)
           \/ CreateLaunchReservation(q) /\ u = req.user /\ a = req.member
           \/ QueueMarkLaunching(q) /\ u = owner[q] /\ a = assigned[q]
<1>0. TypeOK
    BY DEF LaunchInv
<1>1. q \in QIds /\ owner'[q] = u /\ assigned'[q] = a
    BY DEF RunsOn
<1>2. CASE Inserts(q)
    <2>1. status[q] = "absent" /\ assigned'[q] = req.member /\ owner'[q] = req.user
        BY <1>0, <1>1, <1>2
           DEF Inserts, EnqueueRequest, CreateLaunchReservation, InsertRow, IsNextId, TypeOK
    <2>2. session[q] = "none" /\ session' = session
        BY <1>1, <1>2, <2>1
           DEF LaunchInv, WaitingRowIsUnlaunched, Inserts, EnqueueRequest, CreateLaunchReservation,
               InsertRow, sessionVars
    <2>3. status'[q] = "launching"
        BY <1>1, <2>2 DEF RunsOn, OccupiedStates
    <2> QED
        BY <1>0, <1>1, <1>2, <2>1, <2>3 DEF Inserts, EnqueueRequest, InsertRow, TypeOK
<1>3. CASE DispatchGrants /\ head = q
    <2>1. /\ status[q] = "queued" /\ status'[q] = "ready"
          /\ UNCHANGED <<session, orphaned>>
        BY <1>0, <1>1, <1>3 DEF DispatchGrants, TypeOK, sessionVars
    <2> QED
        BY <1>1, <2>1 DEF RunsOn, LaunchInv, WaitingRowIsUnlaunched, OccupiedStates
<1>4. CASE ~Inserts(q) /\ ~(DispatchGrants /\ head = q)
    <2>1. assigned[q] = a /\ owner[q] = u
        BY <1>1, <1>4, ColumnChanges DEF ColumnChange
    <2>2. CASE status'[q] = "launching"
        BY <1>1, <1>4, <2>1, <2>2, RowChanges DEF RowChange, RunsOn
    <2>3. CASE session'[q] \in OccupiedStates /\ q \notin orphaned'
        BY <1>1, <2>1, <2>3, SessionChanges DEF RunsOn
    <2> QED
        BY <2>2, <2>3 DEF RunsOn
<1> QED
    BY <1>2, <1>3, <1>4

\* A set of rows that gets at most one more, q, below the bound.
LEMMA OneMore ==
    ASSUME NEW S \in SUBSET QIds, NEW T \in SUBSET QIds, NEW q \in QIds, T \subseteq S \cup {q},
           NEW n \in Nat, Cardinality(S \ {q}) < n
    PROVE  Cardinality(T) <= n
<1>1. S \ {q} \in SUBSET QIds /\ (S \ {q}) \cup {q} \in SUBSET QIds
    OBVIOUS
<1>2. IsFiniteSet(S \ {q}) /\ Cardinality(S \ {q}) \in Nat
    BY <1>1, RowSets
<1>3. Cardinality((S \ {q}) \cup {q}) = Cardinality(S \ {q}) + 1
    BY <1>2, FS_AddElement
<1>4. Cardinality(T) <= Cardinality((S \ {q}) \cup {q}) /\ Cardinality(T) \in Nat
    BY <1>1, RowSets
<1> QED
    BY <1>2, <1>3, <1>4

\* Two counts, taken apart, bound the rows that are in one or the other.
LEMMA InOneOrOther ==
    ASSUME NEW S \in SUBSET QIds, NEW A \in SUBSET QIds, NEW B \in SUBSET QIds, S \subseteq A \cup B
    PROVE  Cardinality(S) <= Cardinality(A) + Cardinality(B)
<1>1. A \cup B \in SUBSET QIds
    OBVIOUS
<1>2. /\ Cardinality(S) <= Cardinality(A \cup B) /\ Cardinality(S) \in Nat
      /\ Cardinality(A \cup B) \in Nat /\ Cardinality(A) \in Nat /\ Cardinality(B) \in Nat
    BY <1>1, RowSets
<1>3. Cardinality(A \cup B) <= Cardinality(A) + Cardinality(B)
    BY RowsTogether
<1> QED
    BY <1>2, <1>3

\* What pick_launchable_member counted: in the next state, if no session or
\* assignment changes and statuses st come to hold.
LEMMA MemberCount ==
    ASSUME LaunchInv, NEW st, NEW u, NEW a \in LaunchableMembers(st, u)
    PROVE  /\ a \in Apps /\ MemberMax[a] \in Nat
           /\ \A S \in SUBSET QIds :
                (\A q \in S : /\ assigned[q] = a
                              /\ st[q] \in ReservedStates \/ session[q] \in OccupiedStates)
                    => Cardinality(S) < MemberMax[a]
<1>1. a \in Apps /\ MemberMax[a] \in Nat /\ MemberLoad(st, a) < MemberMax[a]
    BY SizesAssumption DEF LaunchInv, TypeOK, LaunchableMembers
<1>2. ASSUME NEW S \in SUBSET QIds,
             \A q \in S : /\ assigned[q] = a
                          /\ st[q] \in ReservedStates \/ session[q] \in OccupiedStates
      PROVE  Cardinality(S) < MemberMax[a]
    <2> DEFINE A == {q \in Occupied : assigned[q] = a}
               B == {q \in Reserved(st) : assigned[q] = a}
    <2>1. A \in SUBSET QIds /\ B \in SUBSET QIds /\ S \subseteq A \cup B
        BY <1>2 DEF Occupied, Reserved
    <2>2. MemberLoad(st, a) = Cardinality(A) + Cardinality(B)
        BY DEF MemberLoad
    <2> HIDE DEF A, B
    <2>3. Cardinality(S) <= Cardinality(A) + Cardinality(B)
        BY <2>1, InOneOrOther
    <2>4. Cardinality(S) \in Nat /\ Cardinality(A) \in Nat /\ Cardinality(B) \in Nat
        BY <2>1, RowSets
    <2> QED
        BY <1>1, <2>2, <2>3, <2>4
<1> QED
    BY <1>1, <1>2

\* What same_user_same_app_limit counted, apart from the caller's own row.
LEMMA LimitCount ==
    ASSUME LaunchInv, UserAppLimit > 0, NEW st, NEW u, NEW a, NEW self,
           ~LimitReached(st, u, a, self),
           NEW S \in SUBSET QIds,
           \A q \in S : /\ owner[q] = u /\ assigned[q] = a
                        /\ \/ st[q] \in ReservedStates /\ q # self
                           \/ session[q] \in OccupiedStates
    PROVE  Cardinality(S) < UserAppLimit
<1> DEFINE A == {q \in Occupied : owner[q] = u /\ assigned[q] = a}
           B == {q \in Reserved(st) \ {self} : owner[q] = u /\ assigned[q] = a}
<1>1. A \in SUBSET QIds /\ B \in SUBSET QIds /\ S \subseteq A \cup B
    BY DEF Occupied, Reserved
<1>2. ~(Cardinality(A) + Cardinality(B) >= UserAppLimit)
    BY DEF LimitReached, UserAppLive
<1> HIDE DEF A, B
<1>3. Cardinality(S) <= Cardinality(A) + Cardinality(B)
    BY <1>1, InOneOrOther
<1>4. /\ Cardinality(S) \in Nat /\ Cardinality(A) \in Nat /\ Cardinality(B) \in Nat
      /\ UserAppLimit \in Nat
    BY <1>1, RowSets, SizesAssumption
<1> QED
    BY <1>2, <1>3, <1>4

LEMMA StepMemberCap ==
    ASSUME LaunchInv, CapInv, Next
    PROVE  MemberWithinCap'
<1> SUFFICES ASSUME NEW a \in Apps
             PROVE  Cardinality(OnMember(a)') <= MemberMax[a]
    BY DEF MemberWithinCap, OnMember
<1>1. /\ OnMember(a) \in SUBSET QIds /\ OnMember(a)' \in SUBSET QIds
      /\ MemberMax[a] \in Nat
    BY SizesAssumption DEF OnMember
<1>2. Cardinality(OnMember(a)) <= MemberMax[a]
    BY DEF CapInv, MemberWithinCap, OnMember
<1>3. ASSUME OnMember(a)' \subseteq OnMember(a)
      PROVE  Cardinality(OnMember(a)') <= MemberMax[a]
    <2>1. /\ Cardinality(OnMember(a)') <= Cardinality(OnMember(a))
          /\ Cardinality(OnMember(a)') \in Nat /\ Cardinality(OnMember(a)) \in Nat
        BY <1>1, <1>3, RowSets
    <2> QED
        BY <1>1, <1>2, <2>1
<1>4. ASSUME NEW q \in QIds, CreateLaunchReservation(q), a = req.member
      PROVE  Cardinality(OnMember(a)') <= MemberMax[a]
    <2>1. Cardinality(OnMember(a)) < MemberMax[a]
        BY <1>4 DEF CapInv, ReservesBelowCaps, CreateLaunchReservation
    <2>2. /\ OnMember(a) \ {q} \in SUBSET OnMember(a)
          /\ Cardinality(OnMember(a) \ {q}) <= Cardinality(OnMember(a))
          /\ Cardinality(OnMember(a) \ {q}) \in Nat /\ Cardinality(OnMember(a)) \in Nat
        BY <1>1, RowSets
    <2>3. OnMember(a)' \subseteq OnMember(a) \cup {q}
        <3> SUFFICES ASSUME NEW p \in OnMember(a)', p \notin OnMember(a)
                     PROVE  p = q
            OBVIOUS
        <3>1. p \in QIds
            BY <1>1
        <3>2. CreateLaunchReservation(p) \/ DispatchGrants
            BY ComesToUse
        <3>3. ~DispatchGrants
            BY <1>4, GrantsOrInserts DEF Inserts
        <3> QED
            BY <1>4, <3>1, <3>2, <3>3, InsertsOne DEF Inserts, LaunchInv
    <2>4. Cardinality(OnMember(a) \ {q}) < MemberMax[a]
        BY <1>1, <2>1, <2>2
    <2> QED
        BY <1>1, <2>3, <2>4, OneMore
<1>5. ASSUME DispatchGrants, a \in LaunchableMembers(status, owner[head])
      PROVE  Cardinality(OnMember(a)') <= MemberMax[a]
    <2>1. head \in QIds
        BY <1>5 DEF LaunchInv, PickedHasHead, TypeOK, DispatchGrants
    <2>2. OnMember(a) \ {head} \in SUBSET QIds
        BY <1>1
    <2>3. \A q \in OnMember(a) \ {head} :
            /\ assigned[q] = a
            /\ status[q] \in ReservedStates \/ session[q] \in OccupiedStates
        BY DEF OnMember
    <2>4. Cardinality(OnMember(a) \ {head}) < MemberMax[a]
        BY <1>5, <2>2, <2>3, MemberCount
    <2>5. \A q \in QIds : ~CreateLaunchReservation(q)
        BY <1>5, <2>1, GrantsOrInserts DEF Inserts
    <2>6. OnMember(a)' \subseteq OnMember(a) \cup {head}
        <3> SUFFICES ASSUME NEW p \in OnMember(a)', p \notin OnMember(a)
                     PROVE  p = head
            OBVIOUS
        <3>1. p \in QIds
            BY <1>1
        <3> QED
            BY <2>5, <3>1, ComesToUse
    <2> QED
        BY <1>1, <2>1, <2>4, <2>6, OneMore
<1>6. \/ OnMember(a)' \subseteq OnMember(a)
      \/ \E q \in QIds : CreateLaunchReservation(q) /\ a = req.member
      \/ DispatchGrants /\ a \in LaunchableMembers(status, owner[head])
    BY <1>1, ComesToUse
<1> QED
    BY <1>3, <1>4, <1>5, <1>6

LEMMA StepUserCap ==
    ASSUME LaunchInv, CapInv, Next
    PROVE  UserAppWithinLimit'
<1> SUFFICES ASSUME UserAppLimit > 0, NEW u \in Users, NEW a \in Apps
             PROVE  Cardinality(RunsOn(u, a)') <= UserAppLimit
    BY DEF UserAppWithinLimit, RunsOn
<1>1. /\ RunsOn(u, a) \in SUBSET QIds /\ RunsOn(u, a)' \in SUBSET QIds
      /\ UserAppLimit \in Nat
    BY SizesAssumption DEF RunsOn
<1>2. Cardinality(RunsOn(u, a)) <= UserAppLimit
    BY DEF CapInv, UserAppWithinLimit, RunsOn
<1>3. ASSUME RunsOn(u, a)' \subseteq RunsOn(u, a)
      PROVE  Cardinality(RunsOn(u, a)') <= UserAppLimit
    <2>1. /\ Cardinality(RunsOn(u, a)') <= Cardinality(RunsOn(u, a))
          /\ Cardinality(RunsOn(u, a)') \in Nat /\ Cardinality(RunsOn(u, a)) \in Nat
        BY <1>1, <1>3, RowSets
    <2> QED
        BY <1>1, <1>2, <2>1
<1>4. ASSUME NEW q \in QIds, CreateLaunchReservation(q), u = req.user, a = req.member
      PROVE  Cardinality(RunsOn(u, a)') <= UserAppLimit
    <2>1. Cardinality(RunsOn(u, a)) < UserAppLimit
        BY <1>4 DEF CapInv, ReservesBelowCaps, CreateLaunchReservation
    <2>2. /\ Cardinality(RunsOn(u, a) \ {q}) <= Cardinality(RunsOn(u, a))
          /\ Cardinality(RunsOn(u, a) \ {q}) \in Nat /\ Cardinality(RunsOn(u, a)) \in Nat
        BY <1>1, RowSets
    <2>3. RunsOn(u, a)' \subseteq RunsOn(u, a) \cup {q}
        <3> SUFFICES ASSUME NEW p \in RunsOn(u, a)', p \notin RunsOn(u, a)
                     PROVE  p = q
            OBVIOUS
        <3>1. p \in QIds
            BY <1>1
        <3>2. CreateLaunchReservation(p) \/ QueueMarkLaunching(p)
            BY ComesToRun
        <3>3. ~QueueMarkLaunching(p)
            BY <1>4 DEF CreateLaunchReservation, QueueMarkLaunching
        <3> QED
            BY <1>4, <3>1, <3>2, <3>3, InsertsOne DEF Inserts, LaunchInv
    <2>4. Cardinality(RunsOn(u, a) \ {q}) < UserAppLimit
        BY <1>1, <2>1, <2>2
    <2> QED
        BY <1>1, <2>3, <2>4, OneMore
<1>5. ASSUME NEW q \in QIds, QueueMarkLaunching(q), u = owner[q], a = assigned[q]
      PROVE  Cardinality(RunsOn(u, a)') <= UserAppLimit
    <2>1. req # None /\ req.step = "consume" /\ req.row = q
        BY <1>5 DEF QueueMarkLaunching
    <2>2. Cardinality(RunsOn(u, a) \ {q}) < UserAppLimit
        BY <1>5, <2>1 DEF CapInv, ConsumesBelowLimit
    <2>3. RunsOn(u, a)' \subseteq RunsOn(u, a) \cup {q}
        <3> SUFFICES ASSUME NEW p \in RunsOn(u, a)', p \notin RunsOn(u, a)
                     PROVE  p = q
            OBVIOUS
        <3>1. CreateLaunchReservation(p) \/ QueueMarkLaunching(p)
            BY ComesToRun
        <3> QED
            BY <2>1, <3>1 DEF CreateLaunchReservation, QueueMarkLaunching
    <2> QED
        BY <1>1, <2>2, <2>3, OneMore
<1>6. \/ RunsOn(u, a)' \subseteq RunsOn(u, a)
      \/ \E q \in QIds : CreateLaunchReservation(q) /\ u = req.user /\ a = req.member
      \/ \E q \in QIds : QueueMarkLaunching(q) /\ u = owner[q] /\ a = assigned[q]
    BY <1>1, ComesToRun
<1> QED
    BY <1>3, <1>4, <1>5, <1>6

\* What a request has counted still bounds the rows there are when it writes.
LEMMA StepCounts ==
    ASSUME LaunchInv, OrderInv, CapInv, Next
    PROVE  ReservesBelowCaps' /\ ConsumesBelowLimit'
<1>0. TypeOK /\ DecidedUnderLock /\ MemberUsable /\ UserAppLimit \in Nat
    BY SizesAssumption DEF LaunchInv, OrderInv
<1>1. ASSUME NEW S \in SUBSET QIds, NEW T \in SUBSET S, NEW n \in Nat, Cardinality(S) < n
      PROVE  Cardinality(T) < n
    <2>1. Cardinality(T) <= Cardinality(S) /\ Cardinality(T) \in Nat /\ Cardinality(S) \in Nat
        BY RowSets
    <2> QED
        BY <1>1, <2>1
<1>2. CASE req' = req /\ req # None /\ req.step # "asked"
    <2>1. ~DispatchGrants /\ \A q \in QIds : ~Inserts(q) /\ ~QueueMarkLaunching(q)
        BY <1>0, <1>2, NothingElseGranted DEF QueueMarkLaunching, RequestDone
    <2>2. \A u, a : RunsOn(u, a)' \subseteq RunsOn(u, a) /\ OnMember(a)' \subseteq OnMember(a)
        <3> TAKE u, a
        <3>1. RunsOn(u, a)' \subseteq RunsOn(u, a)
            <4> SUFFICES ASSUME NEW q \in RunsOn(u, a)'
                         PROVE  q \in RunsOn(u, a)
                OBVIOUS
            <4>1. q \in QIds
                BY DEF RunsOn
            <4> QED
                BY <2>1, <4>1, ComesToRun DEF Inserts
        <3>2. OnMember(a)' \subseteq OnMember(a)
            <4> SUFFICES ASSUME NEW q \in OnMember(a)'
                         PROVE  q \in OnMember(a)
                OBVIOUS
            <4>1. q \in QIds
                BY DEF OnMember
            <4> QED
                BY <2>1, <4>1, ComesToUse DEF Inserts
        <3> QED
            BY <3>1, <3>2
    <2>3. \A u, a : RunsOn(u, a) \in SUBSET QIds /\ OnMember(a) \in SUBSET QIds
        BY DEF RunsOn, OnMember
    <2>4. ReservesBelowCaps'
        <3> SUFFICES ASSUME req.step = "reserve", NEW m, m = req.member, NEW u, u = req.user
                     PROVE  /\ m \in Apps
                            /\ Cardinality(OnMember(m)') < MemberMax[m]
                            /\ UserAppLimit > 0 => Cardinality(RunsOn(u, m)') < UserAppLimit
            BY <1>2 DEF ReservesBelowCaps, OnMember, RunsOn
        <3>1. /\ m \in Apps /\ MemberMax[m] \in Nat
              /\ Cardinality(OnMember(m)) < MemberMax[m]
              /\ UserAppLimit > 0 => Cardinality(RunsOn(u, m)) < UserAppLimit
            BY <1>2, SizesAssumption DEF CapInv, ReservesBelowCaps
        <3>2. /\ OnMember(m) \in SUBSET QIds /\ OnMember(m)' \in SUBSET OnMember(m)
              /\ RunsOn(u, m) \in SUBSET QIds /\ RunsOn(u, m)' \in SUBSET RunsOn(u, m)
            BY <2>2, <2>3
        <3> QED
            BY <1>0, <1>1, <3>1, <3>2
    <2>5. ConsumesBelowLimit'
        <3> SUFFICES ASSUME req.step = "consume", UserAppLimit > 0, NEW r, r = req.row,
                            NEW u, u = owner'[r], NEW a, a = assigned'[r]
                     PROVE  Cardinality(RunsOn(u, a)' \ {r}) < UserAppLimit
            BY <1>2 DEF ConsumesBelowLimit, RunsOn
        <3>1. /\ r \in QIds
              /\ Cardinality(RunsOn(owner[r], assigned[r]) \ {r}) < UserAppLimit
            BY <1>0, <1>2 DEF MemberUsable, CapInv, ConsumesBelowLimit
        <3>2. u = owner[r] /\ a = assigned[r]
            BY <2>1, <3>1, ColumnChanges DEF ColumnChange
        <3>3. /\ RunsOn(u, a)' \ {r} \in SUBSET (RunsOn(u, a) \ {r})
              /\ RunsOn(u, a) \ {r} \in SUBSET QIds
            BY <2>2, <2>3
        <3> QED
            BY <1>0, <1>1, <3>1, <3>2, <3>3
    <2> QED
        BY <2>4, <2>5
<1>3. ASSUME PrepareReserves \/ PrepareQueues \/ ConsumeMayStart
      PROVE  ReservesBelowCaps' /\ ConsumesBelowLimit'
    <2>1. /\ status' = ExpireOverdue /\ req'.user = req.user /\ req'.row = req.row
          /\ UNCHANGED <<owner, assigned, session, orphaned>>
        BY <1>3, Decisions
    <2>2. CASE req'.step = "reserve"
        <3> SUFFICES ASSUME NEW m, m = req'.member, NEW u, u = req.user
                     PROVE  /\ m \in Apps
                            /\ Cardinality(OnMember(m)') < MemberMax[m]
                            /\ UserAppLimit > 0 => Cardinality(RunsOn(u, m)') < UserAppLimit
            BY <2>1, <2>2 DEF ReservesBelowCaps, ConsumesBelowLimit, OnMember, RunsOn
        <3>1. /\ m \in LaunchableMembers(ExpireOverdue, u)
              /\ ~LimitReached(ExpireOverdue, u, m, None)
            BY <1>3, <2>2, Decisions
        <3>2. m \in Apps
            BY <1>0, <3>1 DEF LaunchableMembers, TypeOK
        <3>3. OnMember(m)' \in SUBSET QIds /\ RunsOn(u, m)' \in SUBSET QIds
            BY DEF OnMember, RunsOn
        <3>4. Cardinality(OnMember(m)') < MemberMax[m]
            <4>1. \A q \in OnMember(m)' :
                    /\ assigned[q] = m
                    /\ ExpireOverdue[q] \in ReservedStates \/ session[q] \in OccupiedStates
                BY <2>1 DEF OnMember
            <4> QED
                BY <3>1, <3>3, <4>1, MemberCount
        <3>5. UserAppLimit > 0 => Cardinality(RunsOn(u, m)') < UserAppLimit
            <4>1. \A q \in RunsOn(u, m)' :
                    /\ owner[q] = u /\ assigned[q] = m
                    /\ \/ ExpireOverdue[q] \in ReservedStates /\ q # None
                       \/ session[q] \in OccupiedStates
                BY <2>1, <3>3, SizesAssumption DEF RunsOn, ReservedStates
            <4> QED
                BY <3>1, <3>3, <4>1, LimitCount
        <3> QED
            BY <3>2, <3>4, <3>5
    <2>3. CASE req'.step = "consume" /\ UserAppLimit > 0
        <3> SUFFICES ASSUME NEW r, r = req.row, NEW u, u = owner[r], NEW a, a = assigned[r]
                     PROVE  Cardinality(RunsOn(u, a)' \ {r}) < UserAppLimit
            BY <2>1, <2>3 DEF ReservesBelowCaps, ConsumesBelowLimit, RunsOn
        <3>1. r \in QIds /\ ~LimitReached(ExpireOverdue, u, a, r)
            BY <1>3, <2>3, Decisions DEF MayStart
        <3>2. RunsOn(u, a)' \ {r} \in SUBSET QIds
            BY DEF RunsOn
        <3>3. \A q \in RunsOn(u, a)' \ {r} :
                /\ owner[q] = u /\ assigned[q] = a
                /\ \/ ExpireOverdue[q] \in ReservedStates /\ q # r
                   \/ session[q] \in OccupiedStates
            BY <2>1 DEF RunsOn, ReservedStates
        <3> QED
            BY <2>3, <3>1, <3>2, <3>3, LimitCount
    <2>4. CASE req'.step # "reserve" /\ ~(req'.step = "consume" /\ UserAppLimit > 0)
        BY <2>4 DEF ReservesBelowCaps, ConsumesBelowLimit
    <2> QED
        BY <2>2, <2>3, <2>4
<1> QED
    BY <1>2, <1>3, RequestChanges DEF RequestChange, ReservesBelowCaps, ConsumesBelowLimit

LEMMA CapInvariant == Spec => []CapInv
<1>1. Init => CapInv
    <2> SUFFICES ASSUME Init
                 PROVE  CapInv
        OBVIOUS
    <2>1. \A u, a : OnMember(a) = {} /\ RunsOn(u, a) = {}
        BY DEF Init, OnMember, RunsOn, ReservedStates, OccupiedStates
    <2>2. MemberWithinCap
        <3>1. \A a \in Apps : Cardinality(OnMember(a)) <= MemberMax[a]
            BY <2>1, FS_EmptySet, SizesAssumption
        <3> QED
            BY <3>1 DEF MemberWithinCap, OnMember
    <2>3. UserAppWithinLimit
        <3>1. \A u \in Users, a \in Apps : Cardinality(RunsOn(u, a)) <= UserAppLimit
            BY <2>1, FS_EmptySet, SizesAssumption
        <3> QED
            BY <3>1 DEF UserAppWithinLimit, RunsOn
    <2> QED
        BY <2>2, <2>3 DEF Init, CapInv, ReservesBelowCaps, ConsumesBelowLimit
<1>2. ASSUME LaunchInv, OrderInv, CapInv, [Next]_vars
      PROVE  CapInv'
    <2>1. CASE UNCHANGED vars
        BY <1>2, <2>1
           DEF vars, CapInv, MemberWithinCap, UserAppWithinLimit, ReservesBelowCaps,
               ConsumesBelowLimit, OnMember, RunsOn
    <2> QED
        BY <1>2, <2>1, StepMemberCap, StepUserCap, StepCounts DEF CapInv
<1> QED
    BY <1>1, <1>2, LaunchInvariant, OrderInvariant, PTL DEF Spec

\* A member never runs, or is promised, more than member_max_concurrent
\* sessions, orphaned ones apart: its load is read in one statement, and under
\* the lock nobody else adds to it before the reservation is written.
THEOREM MembersStayWithinCap == Spec => []MemberWithinCap
<1>1. CapInv => MemberWithinCap
    BY DEF CapInv
<1> QED
    BY <1>1, CapInvariant, PTL

\* Neither does a user run more of one member than same_user_same_app_limit.
THEOREM UsersStayWithinLimit == Spec => []UserAppWithinLimit
<1>1. CapInv => UserAppWithinLimit
    BY DEF CapInv
<1> QED
    BY <1>1, CapInvariant, PTL
=============================================================================
