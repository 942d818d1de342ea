------------------------------ MODULE PoolLaunch ------------------------------
(***************************************************************************)
(* The launch path of one resource pool: the launch_queue rows, the        *)
(* active_session rows, the launch requests that are in flight, and the    *)
(* dispatcher that hands free slots to the head of the queue               *)
(* (backend/resource_pool_service.py, backend/router.py launch_app,        *)
(* backend/monitor.py).                                                    *)
(*                                                                         *)
(* Granularity.  Every SQL statement autocommits on its own connection, so *)
(* a step is a statement, or several statements no other step can tell     *)
(* apart.  What runs under the pool's GET_LOCK is excluded only from other *)
(* holders of that lock: cancelling, polling, recording a session, ending  *)
(* one and requeueing take no lock and interleave with the dispatcher.     *)
(***************************************************************************)
EXTENDS Integers, FiniteSets

CONSTANTS
    Users,          \* portal users
    Apps,           \* remote_app rows that are members of the pool
    None,           \* SQL NULL
    MaxQueue,       \* bound: launch_queue rows ever inserted
    MaxConcurrent,  \* resource_pool.max_concurrent at the start
    Sizes,          \* values an administrator may give max_concurrent
    MemberMax,      \* remote_app.member_max_concurrent
    UserAppLimit,   \* launch_policy.same_user_same_app_limit, 0 = unlimited
    Fragile,        \* bound: members a probe may find down at any time
    Budget          \* bounds: how often each kind of step may happen

QIds == 1..MaxQueue
Kinds == {"cancel", "fault", "pool", "access"}
Requests == [user : Users, app : Apps, row : QIds \cup {None}, member : Apps \cup {None},
             step : {"asked", "enqueue", "reserve", "consume"}]

ASSUME SizesAssumption ==
    /\ MaxQueue \in Nat
    /\ MaxConcurrent \in Nat
    /\ Sizes \subseteq Nat
    /\ MemberMax \in [Apps -> Nat]
    /\ UserAppLimit \in Nat
    /\ Fragile \subseteq Apps
    /\ Budget \in [Kinds -> Nat]
    /\ None \notin Apps
    /\ None \notin Requests
    /\ None \notin Users
    /\ None \notin QIds

VARIABLES
    pool,       \* resource_pool row: max, isActive, autoDispatch
    access,     \* <<u, a>>: u has an ACL row for the active pool member a
    launchable, \* members whose remote_app_health lets them be picked
    status,     \* launch_queue.status; "absent" before the row is inserted
    owner,      \* launch_queue.user_id
    requested,  \* launch_queue.requested_app_id
    assigned,   \* launch_queue.assigned_app_id
    overdue,    \* rows whose ready_expires_at has passed
    req,        \* the launch_app request inside prepare_launch, if any: it
                \* blocks the event loop, so there is one at a time
    usable,     \* history: members its user could use at some time since
    late,       \* history: rows whose owner has lost the app requested and no cleanup
                \* has listed since
    flight,     \* how far the launch_app request that owns a row has come
    session,    \* active_session.status of the row's session
    fresh,      \* sessions whose last_heartbeat is within the stale timeout
    dpc,        \* the dispatcher, which holds the pool lock unless idle
    seen,       \* the sessions its first count saw
    slots,      \* its local available_slots
    head,       \* its local queue_head
    sweep,      \* rows an administrator's cleanup has listed, not yet checked
    peak,       \* history: the largest max_concurrent so far
    orphaned,   \* history: live sessions recorded after their row lost its slot
    missed,     \* history: live sessions that fell between the dispatcher's counts
    budget      \* what is left of Budget

rowVars == <<status, owner, requested, assigned, overdue>>
sessionVars == <<session, fresh, orphaned>>
requestVars == <<req, usable, late>>
dispatcherVars == <<dpc, seen, slots, head, missed>>
configVars == <<pool, access, peak>>
vars == <<pool, access, launchable, status, owner, requested, assigned, overdue,
          req, usable, late, flight, session, fresh, dpc, seen, slots, head, sweep, peak,
          orphaned, missed, budget>>

\* The frame of a step that only sets a row's status.
allButStatus == <<configVars, launchable, owner, requested, assigned, overdue,
                  requestVars, flight, sessionVars, dispatcherVars, sweep>>

LiveStates == {"queued", "ready", "launching"}
ReservedStates == {"ready", "launching"}
RowStates == LiveStates \cup {"absent", "fulfilled", "cancelled", "expired"}
OccupiedStates == {"active", "reclaim_pending"}
SessionStates == OccupiedStates \cup {"none", "reclaimed", "disconnected"}
FlightStates == {"none", "starting", "calling", "recorded"}

TypeOK ==
    /\ pool \in [max : Nat, isActive : BOOLEAN, autoDispatch : BOOLEAN]
    /\ access \subseteq Users \X Apps
    /\ launchable \subseteq Apps
    /\ status \in [QIds -> RowStates]
    /\ owner \in [QIds -> Users \cup {None}]
    /\ requested \in [QIds -> Apps \cup {None}]
    /\ assigned \in [QIds -> Apps \cup {None}]
    /\ overdue \subseteq QIds
    /\ req \in Requests \cup {None}
    /\ usable \subseteq Apps
    /\ late \subseteq QIds
    /\ flight \in [QIds -> FlightStates]
    /\ session \in [QIds -> SessionStates]
    /\ fresh \subseteq QIds
    /\ dpc \in {"idle", "counting", "granting", "picked"}
    /\ seen \subseteq QIds
    /\ slots \in Int
    /\ head \in QIds \cup {None}
    /\ sweep \subseteq QIds \X (Apps \cup {None})
    /\ peak \in Nat
    /\ orphaned \subseteq QIds
    /\ missed \subseteq QIds
    /\ budget \in [Kinds -> Nat]

Init ==
    /\ pool = [max |-> MaxConcurrent, isActive |-> TRUE, autoDispatch |-> TRUE]
    /\ access = Users \X Apps
    /\ launchable = Apps
    /\ status = [q \in QIds |-> "absent"]
    /\ owner = [q \in QIds |-> None]
    /\ requested = [q \in QIds |-> None]
    /\ assigned = [q \in QIds |-> None]
    /\ overdue = {}
    /\ req = None
    /\ usable = {}
    /\ late = {}
    /\ flight = [q \in QIds |-> "none"]
    /\ session = [q \in QIds |-> "none"]
    /\ fresh = {}
    /\ dpc = "idle"
    /\ seen = {}
    /\ slots = 0
    /\ head = None
    /\ sweep = {}
    /\ peak = MaxConcurrent
    /\ orphaned = {}
    /\ missed = {}
    /\ budget = Budget

Spend(kind) ==
    /\ budget[kind] > 0
    /\ budget' = [budget EXCEPT ![kind] = @ - 1]

-----------------------------------------------------------------------------
(* What the service's queries answer.  Those that prepare_launch asks after *)
(* expiring overdue rows take the statuses they see as an argument.         *)

Live(st) == {q \in QIds : st[q] \in LiveStates}

\* Seeded fault of Reserved: forgets rows that are being launched.
ReservedReadyOnly(st) == {q \in QIds : st[q] = "ready"}

Reserved(st) == {q \in QIds : st[q] \in ReservedStates}
Occupied == {q \in QIds : session[q] \in OccupiedStates}

\* Seeded fault of ExpireOverdue: overdue rows are left alone.
ExpireNothing == status

\* UPDATE ... SET status = 'expired' WHERE status = 'ready' AND it is overdue.
ExpireOverdue ==
    [q \in QIds |-> IF status[q] = "ready" /\ q \in overdue
                    THEN "expired" ELSE status[q]]

\* Seeded fault of HasLiveRow: does not look at rows being launched.
HasWaitingRow(u) ==
    \E q \in QIds : ExpireOverdue[q] \in {"queued", "ready"} /\ owner[q] = u

\* get_live_user_pool_state; its session branch is not used by prepare_launch.
HasLiveRow(u) == \E q \in Live(ExpireOverdue) : owner[q] = u

\* The row's owner may use the app requested, where these have access.
MayAsk(q, having) == <<owner[q], requested[q]>> \in having

HasAccessibleMember(u) == \E a \in Apps : <<u, a>> \in access

\* get_queue_status, which ends many calls, cancels a live row whose owner has
\* lost every member (its branch for an overdue row is in PollQueue: here
\* overdue rows have just been expired).
Polled(q) ==
    IF ExpireOverdue[q] \in LiveStates /\ ~HasAccessibleMember(owner[q])
    THEN [ExpireOverdue EXCEPT ![q] = "cancelled"] ELSE ExpireOverdue

AvailableSlots(st) ==
    IF pool.isActive
    THEN pool.max - Cardinality(Occupied) - Cardinality(Reserved(st))
    ELSE 0

\* Sessions and reservations on a member: a row whose session is recorded
\* but not yet fulfilled is counted twice, as the two COUNT(*)s count it.
MemberLoad(st, a) ==
    Cardinality({q \in Occupied : assigned[q] = a})
      + Cardinality({q \in Reserved(st) : assigned[q] = a})

\* Seeded fault of LaunchableMembers: one too many.
LaunchableMembersOneMore(st, u) ==
    {a \in launchable : <<u, a>> \in access /\ MemberLoad(st, a) <= MemberMax[a]}

\* pick_launchable_member may return any of these: the order it prefers
\* (health, failures, load, id) is left out.
LaunchableMembers(st, u) ==
    {a \in launchable : <<u, a>> \in access /\ MemberLoad(st, a) < MemberMax[a]}

UserAppLive(st, u, a, self) ==
    Cardinality({q \in Occupied : owner[q] = u /\ assigned[q] = a})
      + Cardinality({q \in Reserved(st) \ {self} : owner[q] = u /\ assigned[q] = a})

\* Seeded fault of LimitReached: one too many.
LimitExceeded(st, u, a, self) ==
    UserAppLimit > 0 /\ UserAppLive(st, u, a, self) > UserAppLimit

LimitReached(st, u, a, self) ==
    UserAppLimit > 0 /\ UserAppLive(st, u, a, self) >= UserAppLimit

\* Seeded fault of ResourceStatus: counts the rows that have ended as well.
ResourceStatusOfAllRows(u) ==
    IF \E q \in QIds : status[q] # "absent" THEN "queued" ELSE "available"

\* _build_resource_status_payload: the word the page shows on the pool.
ResourceStatus(u) ==
    CASE Live(status) # {} -> "queued"
      [] Live(status) = {} /\ Cardinality(Occupied) >= pool.max -> "busy"
      [] Live(status) = {} /\ Cardinality(Occupied) < pool.max ->
            IF LaunchableMembers(status, u) # {} THEN "available" ELSE "runtime_unavailable"

\* list_user_pools: a pool that is off, or has no member for the user, is not shown.
PoolCard(u) ==
    IF pool.isActive /\ HasAccessibleMember(u) THEN ResourceStatus(u) ELSE None

\* AUTO_INCREMENT: rows are inserted in the order of their ids.
IsNextId(q) ==
    /\ status[q] = "absent"
    /\ \A p \in QIds : p < q => status[p] # "absent"

\* Who may hold the pool's GET_LOCK: the dispatcher, or a request that has
\* decided and not yet written.
PoolLockFree ==
    /\ dpc = "idle"
    /\ req # None => req.step = "asked"

-----------------------------------------------------------------------------
(* POST /launch/{app}, prepare_launch.  The request is checked without the  *)
(* lock, decides under it, and writes what it decided.                      *)

UsableBy(u) == {m \in Apps : <<u, m>> \in access}

\* The requested app is active and the caller has its ACL row.  row is the
\* queue_id of a poll that showed the caller's row ready, or None (while rows
\* are left).
RequestAsks(u, a, row) ==
    /\ req = None
    /\ a \in UsableBy(u)
    /\ IF row = None THEN \E q \in QIds : IsNextId(q)
                     ELSE owner[row] = u /\ status[row] = "ready"
    /\ req' = [user |-> u, app |-> a, row |-> row, member |-> None, step |-> "asked"]
    /\ usable' = UsableBy(u)
    /\ UNCHANGED <<configVars, launchable, rowVars, late, flight, sessionVars,
                   dispatcherVars, sweep, budget>>

RequestDone == req' = None /\ usable' = {} /\ late' = late

\* The frame of a request's decision; st is the status column it leaves.
Decides(st) ==
    /\ status' = st
    /\ UNCHANGED <<configVars, launchable, owner, requested, assigned, overdue,
                   flight, sessionVars, dispatcherVars, sweep, budget>>

\* GET_LOCK timed out.
RequestFindsPoolBusy ==
    /\ req # None /\ ~PoolLockFree /\ req.step = "asked"
    /\ RequestDone
    /\ UNCHANGED <<configVars, launchable, rowVars, flight, sessionVars,
                   dispatcherVars, sweep, budget>>

EntersPrepare ==
    /\ req # None /\ PoolLockFree
    /\ req.row = None

\* Seeded fault of MustQueue: overtakes the users who wait.
MustQueueIfFull(st, u) ==
    \/ AvailableSlots(st) <= 0
    \/ LaunchableMembers(st, u) = {}

\* Seeded fault of MustQueue: grants one slot too many.
MustQueueOneLate(st, u) ==
    \/ Live(st) # {}
    \/ AvailableSlots(st) < 0
    \/ LaunchableMembers(st, u) = {}

MustQueue(st, u) ==
    \/ Live(st) # {}
    \/ AvailableSlots(st) <= 0
    \/ LaunchableMembers(st, u) = {}

\* The caller already waits, or is being launched, in this pool.
PrepareReturnsLiveRow ==
    /\ EntersPrepare
    /\ HasLiveRow(req.user)
    /\ \E q \in Live(ExpireOverdue) : owner[q] = req.user /\ Decides(Polled(q))
    /\ RequestDone

PrepareQueues ==
    /\ EntersPrepare
    /\ ~HasLiveRow(req.user)
    /\ MustQueue(ExpireOverdue, req.user)
    /\ Decides(ExpireOverdue)
    /\ req' = [req EXCEPT !.step = "enqueue"]
    /\ UNCHANGED <<usable, late>>

\* The member picked runs as many instances for the caller as allowed.
PrepareRefuses ==
    /\ EntersPrepare
    /\ ~HasLiveRow(req.user)
    /\ ~MustQueue(ExpireOverdue, req.user)
    /\ \E m \in LaunchableMembers(ExpireOverdue, req.user) :
          LimitReached(ExpireOverdue, req.user, m, None)
    /\ Decides(ExpireOverdue)
    /\ RequestDone

PrepareReserves ==
    /\ EntersPrepare
    /\ ~HasLiveRow(req.user)
    /\ ~MustQueue(ExpireOverdue, req.user)
    /\ \E m \in LaunchableMembers(ExpireOverdue, req.user) :
          /\ ~LimitReached(ExpireOverdue, req.user, m, None)
          /\ req' = [req EXCEPT !.step = "reserve", !.member = m]
    /\ Decides(ExpireOverdue)
    /\ UNCHANGED <<usable, late>>

InsertRow(q, rowStatus) ==
    /\ IsNextId(q)
    /\ status' = [status EXCEPT ![q] = rowStatus]
    /\ owner' = [owner EXCEPT ![q] = req.user]
    /\ requested' = [requested EXCEPT ![q] = req.app]
    /\ assigned' = [assigned EXCEPT ![q] = req.member]
    /\ late' = IF req.app \in UsableBy(req.user) THEN late ELSE late \cup {q}
    /\ req' = None
    /\ usable' = {}
    /\ UNCHANGED <<configVars, launchable, overdue, sessionVars, dispatcherVars,
                   sweep, budget>>

\* _enqueue_request; the poll it ends with cancels the row of a user who has
\* lost every member.
EnqueueRequest(q) ==
    /\ req # None /\ req.step = "enqueue"
    /\ InsertRow(q, IF HasAccessibleMember(req.user) THEN "queued" ELSE "cancelled")
    /\ flight' = flight

CreateLaunchReservation(q) ==
    /\ req # None /\ req.step = "reserve"
    /\ InsertRow(q, "launching")
    /\ flight' = [flight EXCEPT ![q] = "starting"]

-----------------------------------------------------------------------------
(* prepare_launch with the queue_id of a row the dispatcher made ready.     *)

EntersConsume ==
    /\ req # None /\ PoolLockFree
    /\ req.row # None

ConsumeFindsNotReady ==
    /\ EntersConsume
    /\ ExpireOverdue[req.row] # "ready"
    /\ Decides(Polled(req.row))
    /\ RequestDone

\* Seeded fault of MayStart: trusts the member chosen at dispatch.
MayStartAnywhere(q) ==
    ~LimitReached(ExpireOverdue, owner[q], assigned[q], q)

MayStart(q) ==
    /\ assigned[q] \in UsableBy(owner[q])
    /\ ~LimitReached(ExpireOverdue, owner[q], assigned[q], q)

\* Its member is gone (member_unavailable) or its owner is at the limit
\* (same_user_app_limit): the row is cancelled.
ConsumeCancels ==
    /\ EntersConsume
    /\ ExpireOverdue[req.row] = "ready"
    /\ ~MayStart(req.row)
    /\ Decides([ExpireOverdue EXCEPT ![req.row] = "cancelled"])
    /\ RequestDone

ConsumeMayStart ==
    /\ EntersConsume
    /\ ExpireOverdue[req.row] = "ready"
    /\ MayStart(req.row)
    /\ Decides(ExpireOverdue)
    /\ req' = [req EXCEPT !.step = "consume"]
    /\ UNCHANGED <<usable, late>>

StillReady(q) == status[q] = "ready"

\* UPDATE ... SET status = 'launching' WHERE id = row AND status = 'ready': a
\* row cancelled or expired meanwhile is left as it is (and polled: it is not live).
QueueMarkLaunching(q) ==
    /\ req # None /\ req.step = "consume" /\ req.row = q
    /\ IF StillReady(q)
       THEN /\ status' = [status EXCEPT ![q] = "launching"]
            /\ flight' = [flight EXCEPT ![q] = "starting"]
       ELSE UNCHANGED <<status, flight>>
    /\ RequestDone
    /\ UNCHANGED <<configVars, launchable, owner, requested, assigned, overdue,
                   sessionVars, dispatcherVars, sweep, budget>>

-----------------------------------------------------------------------------
(* The rest of launch_app, which holds no lock.                             *)

\* The connections of everything the owner may use now, the assigned member
\* among them, are built; then Guacamole is called.
BuildConnections(q) ==
    /\ flight[q] = "starting"
    /\ assigned[q] \in UsableBy(owner[q])
    /\ flight' = [flight EXCEPT ![q] = "calling"]
    /\ UNCHANGED <<configVars, launchable, rowVars, requestVars, sessionVars, dispatcherVars,
                   sweep, budget>>

\* Seeded fault of Requeue: the row is left as it is.
RequeueNever(q) == UNCHANGED status

\* requeue_after_launch_failure.  ready_at is set on every way into
\* 'launching', so its branch for a NULL ready_at is never taken.
Requeue(q) ==
    status' = [status EXCEPT ![q] = IF @ = "launching" THEN "queued" ELSE @]

\* The steps launch_app guards with a failure path.
MayFail(q) == flight[q] \in {"starting", "calling"}

\* Building the connections, the call to Guacamole or the session INSERT
\* failed: the member cools down and the row goes back to the queue.
LaunchFails(q) ==
    /\ MayFail(q)
    /\ flight' = [flight EXCEPT ![q] = "none"]
    /\ launchable' = launchable \ {assigned[q]}
    /\ Requeue(q)
    /\ UNCHANGED <<configVars, owner, requested, assigned, overdue,
                   requestVars, sessionVars, dispatcherVars, sweep, budget>>

\* INSERT INTO active_session, whatever has become of the row meanwhile.
RecordSession(q) ==
    /\ flight[q] = "calling"
    /\ flight' = [flight EXCEPT ![q] = "recorded"]
    /\ session' = [session EXCEPT ![q] = "active"]
    /\ fresh' = fresh \cup {q}
    /\ orphaned' = IF status[q] = "launching" THEN orphaned ELSE orphaned \cup {q}
    /\ UNCHANGED <<configVars, launchable, rowVars, requestVars,
                   dispatcherVars, sweep, budget>>

\* mark_runtime_launch_success and mark_queue_fulfilled, whose UPDATE names
\* the row by id alone.
FulfilRow(q) ==
    /\ flight[q] = "recorded"
    /\ flight' = [flight EXCEPT ![q] = "none"]
    /\ launchable' = launchable \cup {assigned[q]}
    /\ status' = [status EXCEPT ![q] = "fulfilled"]
    /\ UNCHANGED <<configVars, owner, requested, assigned, overdue,
                   requestVars, sessionVars, dispatcherVars, sweep, budget>>

\* An exception nobody catches (a query that fails between two steps).
LaunchDies(q) ==
    /\ flight[q] # "none"
    /\ Spend("fault")
    /\ flight' = [flight EXCEPT ![q] = "none"]
    /\ UNCHANGED <<configVars, launchable, rowVars, requestVars, sessionVars,
                   dispatcherVars, sweep>>

-----------------------------------------------------------------------------
(* dispatch_ready_entries, under the pool lock, one statement at a time.    *)

\* Take the lock, expire, read max_concurrent and count the sessions.
DispatchBegin ==
    /\ PoolLockFree
    /\ pool.isActive /\ pool.autoDispatch
    /\ dpc' = "counting"
    /\ status' = ExpireOverdue
    /\ seen' = Occupied
    /\ slots' = pool.max - Cardinality(Occupied)
    /\ UNCHANGED <<configVars, launchable, owner, requested, assigned, overdue,
                   requestVars, flight, sessionVars, head, missed, sweep,
                   budget>>

\* Count the reservations.  A session recorded and fulfilled since the first
\* count is in neither.
DispatchCount ==
    /\ dpc = "counting"
    /\ dpc' = "granting"
    /\ slots' = slots - Cardinality(Reserved(status))
    /\ missed' = missed \cup (Occupied \ (seen \cup Reserved(status)))
    /\ seen' = {}
    /\ UNCHANGED <<configVars, launchable, rowVars, requestVars, flight,
                   sessionVars, head, sweep, budget>>

IsQueueHead(q) ==
    /\ status[q] = "queued"
    /\ \A p \in QIds : status[p] = "queued" => q <= p

DispatchPicksHead ==
    /\ dpc = "granting"
    /\ slots > 0
    /\ \E q \in QIds : IsQueueHead(q) /\ head' = q
    /\ dpc' = "picked"
    /\ UNCHANGED <<configVars, launchable, rowVars, requestVars, flight,
                   sessionVars, seen, slots, missed, sweep, budget>>

\* Seeded fault of Unlock: the lock is not released.
LockLeaks == UNCHANGED <<dpc, seen, slots, head>>

\* Leave the with-block: the locals are gone and the lock is released.
Unlock ==
    /\ dpc' = "idle"
    /\ seen' = {}
    /\ slots' = 0
    /\ head' = None

\* No slot left, or nobody waiting.
DispatchEnds ==
    /\ dpc = "granting"
    /\ \/ slots <= 0
       \/ \A q \in QIds : status[q] # "queued"
    /\ Unlock
    /\ UNCHANGED <<configVars, launchable, rowVars, requestVars, flight,
                   sessionVars, missed, sweep, budget>>

\* The head's owner may no longer use any member: cancel the row, go on.
DispatchDropsHead ==
    /\ dpc = "picked"
    /\ ~HasAccessibleMember(owner[head])
    /\ status' = [status EXCEPT ![head] = IF @ \in LiveStates THEN "cancelled" ELSE @]
    /\ dpc' = "granting"
    /\ head' = None
    /\ UNCHANGED <<configVars, launchable, owner, requested, assigned, overdue,
                   requestVars, flight, sessionVars, seen, slots, missed,
                   sweep, budget>>

\* No member can take the head, or it left the queue meanwhile: give up.
DispatchStops ==
    /\ dpc = "picked"
    /\ HasAccessibleMember(owner[head])
    /\ \/ LaunchableMembers(status, owner[head]) = {}
       \/ status[head] # "queued"
    /\ Unlock
    /\ UNCHANGED <<configVars, launchable, rowVars, requestVars, flight,
                   sessionVars, missed, sweep, budget>>

\* UPDATE ... SET status = 'ready', ... WHERE id = head AND status = 'queued'.
DispatchGrants ==
    /\ dpc = "picked"
    /\ HasAccessibleMember(owner[head])
    /\ status[head] = "queued"
    /\ \E m \in LaunchableMembers(status, owner[head]) :
          assigned' = [assigned EXCEPT ![head] = m]
    /\ status' = [status EXCEPT ![head] = "ready"]
    /\ overdue' = overdue \ {head}
    /\ slots' = slots - 1
    /\ dpc' = "granting"
    /\ head' = None
    /\ UNCHANGED <<configVars, launchable, owner, requested, requestVars,
                   flight, sessionVars, seen, missed, sweep, budget>>

-----------------------------------------------------------------------------
(* What takes no lock.                                                      *)

\* UPDATE ... SET status = 'cancelled' WHERE id = q AND status is live.
CancelRow(q) == status' = [status EXCEPT ![q] = "cancelled"]

\* DELETE /queue/{q}, by the row's owner.
UserCancels(q) ==
    /\ status[q] \in LiveStates
    /\ Spend("cancel")
    /\ CancelRow(q)
    /\ UNCHANGED allButStatus

\* POST /queues/{q}/cancel, by an administrator.
AdminCancels(q) ==
    /\ status[q] \in LiveStates
    /\ Spend("cancel")
    /\ CancelRow(q)
    /\ UNCHANGED allButStatus

\* GET /queue/{q}: a live row whose owner lost every member is cancelled, an
\* overdue one expired (with every other overdue row of the pool).
PollQueue(q) ==
    /\ status[q] \in LiveStates
    /\ \/ /\ ~HasAccessibleMember(owner[q])
          /\ CancelRow(q)
       \/ /\ HasAccessibleMember(owner[q])
          /\ status[q] = "ready" /\ q \in overdue
          /\ status' = ExpireOverdue
    /\ UNCHANGED <<allButStatus, budget>>

\* dispatch_grace_seconds pass before the owner has come back.
GraceElapses(q) ==
    /\ status[q] = "ready" /\ q \notin overdue
    /\ overdue' = overdue \cup {q}
    /\ UNCHANGED <<configVars, launchable, status, owner, requested, assigned,
                   requestVars, flight, sessionVars, dispatcherVars, sweep,
                   budget>>

\* A probe succeeds, or a launch elsewhere: the member may be picked again.
MemberRecovers(a) ==
    /\ a \notin launchable
    /\ launchable' = launchable \cup {a}
    /\ UNCHANGED <<configVars, rowVars, requestVars, flight, sessionVars,
                   dispatcherVars, sweep, budget>>

\* A probe cannot connect to it.
MemberFails(a) ==
    /\ a \in launchable \cap Fragile
    /\ launchable' = launchable \ {a}
    /\ UNCHANGED <<configVars, rowVars, requestVars, flight, sessionVars,
                   dispatcherVars, sweep, budget>>

-----------------------------------------------------------------------------
(* Sessions.                                                                *)

\* stale_timeout_seconds pass without a heartbeat.
HeartbeatLapses(q) ==
    /\ session[q] \in OccupiedStates /\ q \in fresh
    /\ fresh' = fresh \ {q}
    /\ UNCHANGED <<configVars, launchable, rowVars, requestVars, flight,
                   session, orphaned, dispatcherVars, sweep, budget>>

\* Seeded fault of Heartbeat: renews sessions being reclaimed as well.
HeartbeatRenewsAll(q) ==
    /\ session[q] \in OccupiedStates /\ q \notin fresh
    /\ fresh' = fresh \cup {q}
    /\ UNCHANGED <<configVars, launchable, rowVars, requestVars, flight,
                   session, orphaned, dispatcherVars, sweep, budget>>

\* POST /heartbeat renews an active session only.
Heartbeat(q) ==
    /\ session[q] = "active" /\ q \notin fresh
    /\ fresh' = fresh \cup {q}
    /\ UNCHANGED <<configVars, launchable, rowVars, requestVars, flight,
                   session, orphaned, dispatcherVars, sweep, budget>>

SetSession(q, from, to) ==
    /\ session[q] \in from
    /\ session' = [session EXCEPT ![q] = to]
    /\ LET ended == IF to \in OccupiedStates THEN {} ELSE {q}
       IN  /\ fresh' = fresh \ ended
           /\ orphaned' = orphaned \ ended
           /\ missed' = missed \ ended
    /\ UNCHANGED <<configVars, launchable, rowVars, requestVars, flight,
                   dpc, seen, slots, head, sweep, budget>>

\* POST /session-end, sent by the closing window.
SessionEnds(q) == SetSession(q, OccupiedStates, "disconnected")

\* The cleanup loop: heartbeat too old.
ReclaimStale(q) == q \notin fresh /\ SetSession(q, OccupiedStates, "reclaimed")

\* The cleanup loop: no user activity for idle_timeout_seconds.
ReclaimIdle(q) == SetSession(q, {"active"}, "reclaim_pending")

\* _get_reclaim_pending_reason: what a heartbeat is answered with, and nothing
\* else of the session changes.
ReclaimPending(q) == session[q] = "reclaim_pending"

\* POST /sessions/{q}/reclaim, by an administrator.
AdminReclaims(q) == SetSession(q, {"active"}, "reclaim_pending")

-----------------------------------------------------------------------------
(* Configuration, and the cleanup that follows a change of access.          *)

\* PUT /pools/{id}: no lock, and no look at what is running.
UpdatePool ==
    /\ Spend("pool")
    /\ \E m \in Sizes, active, auto \in BOOLEAN :
          /\ pool' = [max |-> m, isActive |-> active, autoDispatch |-> auto]
          /\ peak' = IF m > peak THEN m ELSE peak
    /\ UNCHANGED <<access, launchable, rowVars, requestVars, flight,
                   sessionVars, dispatcherVars, sweep>>

\* Seeded fault of ListedRows: rows that hold a reservation are forgotten.
ListedQueuedRows(rows) == {<<q, None>> : q \in {r \in rows : status[r] = "queued"}}

\* cleanup_invalid_queue_entries lists the live rows of its filter, with the
\* member each was assigned if it held a reservation then.
ListedRows(rows) ==
    {<<q, IF status[q] \in ReservedStates THEN assigned[q] ELSE None>> :
        q \in rows \cap Live(status)}

\* What a request that is being checked may use includes what it could use.
KeepUsable ==
    /\ usable' = IF req = None THEN {}
                 ELSE usable \cup {m \in Apps : <<req.user, m>> \in access'}
    /\ UNCHANGED req

\* A cleanup will look at these rows.
Lists(rows) ==
    /\ sweep' = sweep \cup ListedRows(rows)
    /\ late' = late \ rows

\* PUT /users/{u}/acl: the user's ACL rows are replaced.
UpdateAcl(u, allowed) ==
    /\ Spend("access")
    /\ access' = {p \in access : p[1] # u} \cup ({u} \X allowed)
    /\ KeepUsable
    /\ Lists({q \in QIds : owner[q] = u})
    /\ UNCHANGED <<pool, peak, launchable, rowVars, flight,
                   sessionVars, dispatcherVars>>

\* PUT or DELETE /apps/{a}: who can use the member changes (is_active,
\* security_mode); only rows that requested it are listed.
UpdateApp(a, allowed) ==
    /\ Spend("access")
    /\ access' = {p \in access : p[2] # a} \cup (allowed \X {a})
    /\ KeepUsable
    /\ Lists({q \in QIds : requested[q] = a})
    /\ UNCHANGED <<pool, peak, launchable, rowVars, flight,
                   sessionVars, dispatcherVars>>

\* PUT /users/{u}: the user stops being an administrator, or becomes one, and
\* with that loses or gains the members that are administrators' desktops.  No
\* cleanup follows.
UpdateUser(u, desktops) ==
    /\ Spend("access")
    /\ access' \in {access \ ({u} \X desktops), access \cup ({u} \X desktops)}
    /\ KeepUsable
    /\ late' = {q \in late \cup {r \in Live(status) : MayAsk(r, access)} : ~MayAsk(q, access')}
    /\ UNCHANGED <<pool, peak, launchable, rowVars, flight, sessionVars, dispatcherVars,
                   sweep>>

\* A listed row is cancelled, if it is still live, when its owner lost the app
\* requested or the member that was assigned.
SweepRow(q, member) ==
    /\ <<q, member>> \in sweep
    /\ sweep' = sweep \ {<<q, member>>}
    /\ status' = IF /\ \/ ~MayAsk(q, access)
                       \/ member # None /\ <<owner[q], member>> \notin access
                    /\ status[q] \in LiveStates
                 THEN [status EXCEPT ![q] = "cancelled"] ELSE status
    /\ UNCHANGED <<configVars, launchable, owner, requested, assigned, overdue,
                   requestVars, flight, sessionVars, dispatcherVars, budget>>

\* The process dies: requests, dispatcher and cleanup are gone, MySQL drops
\* the lock with its connection, the tables stay.
ServerCrashes ==
    /\ Spend("fault")
    /\ flight' = [q \in QIds |-> "none"]
    /\ req' = None
    /\ usable' = {}
    /\ Unlock
    /\ sweep' = {}
    /\ late' = late \cup {q \in QIds :
            /\ ~MayAsk(q, access)
            /\ \E member \in Apps \cup {None} : <<q, member>> \in sweep}
    /\ UNCHANGED <<configVars, launchable, rowVars, sessionVars,
                   missed>>

-----------------------------------------------------------------------------
\* What a request does under the pool lock, or instead of it.
RequestStep ==
    \/ RequestFindsPoolBusy
    \/ PrepareReturnsLiveRow
    \/ PrepareQueues
    \/ PrepareRefuses
    \/ PrepareReserves
    \/ ConsumeFindsNotReady
    \/ ConsumeCancels
    \/ ConsumeMayStart
    \/ \E q \in QIds :
          \/ EnqueueRequest(q)
          \/ CreateLaunchReservation(q)
          \/ QueueMarkLaunching(q)

LaunchStep(q) ==
    \/ BuildConnections(q)
    \/ LaunchFails(q)
    \/ RecordSession(q)
    \/ FulfilRow(q)

Dispatch ==
    \/ DispatchBegin
    \/ DispatchCount
    \/ DispatchPicksHead
    \/ DispatchEnds
    \/ DispatchDropsHead
    \/ DispatchStops
    \/ DispatchGrants

RowStep(q) ==
    \/ UserCancels(q)
    \/ AdminCancels(q)
    \/ PollQueue(q)
    \/ GraceElapses(q)
    \/ \E member \in Apps \cup {None} : SweepRow(q, member)

SessionStep(q) ==
    \/ HeartbeatLapses(q)
    \/ Heartbeat(q)
    \/ SessionEnds(q)
    \/ ReclaimStale(q)
    \/ ReclaimIdle(q)
    \/ AdminReclaims(q)

Configure ==
    \/ UpdatePool
    \/ \E u \in Users, allowed \in SUBSET Apps : UpdateAcl(u, allowed)
    \/ \E a \in Apps, allowed \in SUBSET Users : UpdateApp(a, allowed)
    \/ \E u \in Users, desktops \in SUBSET Apps \ {{}} : UpdateUser(u, desktops)
    \/ \E a \in Apps : MemberRecovers(a) \/ MemberFails(a)

Next ==
    \/ \E u \in Users, a \in Apps, row \in QIds \cup {None} : RequestAsks(u, a, row)
    \/ RequestStep
    \/ Dispatch
    \/ \E q \in QIds : LaunchStep(q) \/ LaunchDies(q) \/ RowStep(q) \/ SessionStep(q)
    \/ Configure
    \/ ServerCrashes

Spec == Init /\ [][Next]_vars

-----------------------------------------------------------------------------
(* Fairness.  The cleanup loop of app.py runs the dispatcher and the stale  *)
(* reclaim every minute, on the event loop that prepare_launch blocks: when *)
(* it runs no request holds the lock, which makes DispatchBegin strongly    *)
(* fair.  A request ends, because every call it makes has a timeout; the    *)
(* clock does not stop.  Users, windows and administrators promise nothing. *)
Fairness ==
    /\ SF_vars(DispatchBegin)
    /\ WF_vars(Dispatch)
    /\ WF_vars(RequestStep)
    /\ \A q \in QIds :
          /\ WF_vars(LaunchStep(q))
          /\ WF_vars(GraceElapses(q))
          /\ WF_vars(HeartbeatLapses(q) /\ ReclaimPending(q))
          /\ WF_vars(ReclaimStale(q))

FairSpec == Spec /\ Fairness

-----------------------------------------------------------------------------
(* Safety.                                                                  *)

\* The slots the pool accounts for: reservations, and sessions that are not
\* among those it lost sight of.
Held ==
    {q \in QIds : \/ status[q] \in ReservedStates
                  \/ /\ session[q] \in OccupiedStates
                     /\ q \notin orphaned \cup missed}

\* Over-commitment has exactly two causes: a session recorded by a launch
\* whose row was cancelled under it (orphaned), and one that moved from
\* launch_queue to active_session between the dispatcher's two counts
\* (missed).  All others together never exceed max_concurrent, the largest
\* there has been (_available_slots, prepare_launch, dispatch_ready_entries).
SlotsWithinCap == Cardinality(Held) <= peak

\* What the dispatcher still has to give away never exceeds what is really
\* free, however many lock-free steps (cancels, session ends, launches that
\* record a session or go back to the queue) happened since it counted.
DispatcherCountsSafely ==
    /\ dpc = "counting" => slots + Cardinality(seen) <= peak
    /\ dpc \in {"granting", "picked"} /\ slots > 0 => slots + Cardinality(Held) <= peak
    /\ dpc = "picked" => slots > 0

\* A member's own cap is read in one statement, so missed sessions do not
\* disturb it: only orphaned ones exceed member_max_concurrent
\* (pick_launchable_member).
MemberWithinCap ==
    \A a \in Apps :
        Cardinality({q \in QIds :
            /\ assigned[q] = a
            /\ \/ status[q] \in ReservedStates
               \/ session[q] \in OccupiedStates /\ q \notin orphaned})
          <= MemberMax[a]

\* No user runs, or is being given, more instances of a member than
\* same_user_same_app_limit, although the dispatcher does not look at it
\* (orphaned sessions apart: their launch was cancelled).
UserAppWithinLimit ==
    UserAppLimit > 0 =>
        \A u \in Users, a \in Apps :
            Cardinality({q \in QIds :
                /\ owner[q] = u /\ assigned[q] = a
                /\ \/ status[q] = "launching"
                   \/ session[q] \in OccupiedStates /\ q \notin orphaned})
              <= UserAppLimit

\* A user waits or is being launched at most once in a pool, through
\* requeues, retries and crashes (get_live_user_pool_state).
OneLiveRowPerUser ==
    \A p, q \in QIds :
        status[p] \in LiveStates /\ status[q] \in LiveStates /\ owner[p] = owner[q]
            => p = q

\* A row that waits for a launch, or for its owner to come back, has neither
\* a session nor a request in flight: a launch that goes back to the queue
\* left nothing behind, so it cannot be launched twice
\* (requeue_after_launch_failure, launch_app).
WaitingRowIsUnlaunched ==
    \A q \in QIds :
        status[q] \in {"absent", "queued", "ready"} =>
            flight[q] = "none" /\ session[q] = "none"

\* Every live row is one its owner may still ask for, or an administrator's
\* cleanup is about to look at it (cleanup_invalid_queue_entries).  It is not
\* where the owner lost the app by ceasing to be an administrator, which no
\* cleanup follows (update_user), where the request passed the check before the
\* change and inserted the row after, and where the process died during the
\* cleanup; such a row is late until it may be asked for again or a cleanup
\* lists it.
LiveRowsAllowedOrSwept ==
    \A q \in QIds : status[q] \in LiveStates =>
        \/ MayAsk(q, access)
        \/ q \in late
        \/ \E member \in Apps \cup {None} : <<q, member>> \in sweep

-----------------------------------------------------------------------------
(* What a step may never do.                                                *)

\* Fulfilled and expired rows never change and a cancelled row never waits
\* again: a late failure, poll or grant cannot undo a cancel; only the launch
\* that was already recorded may still mark it fulfilled.
StaysEnded(q) ==
    /\ status[q] \in {"fulfilled", "expired"} => status'[q] = status[q]
    /\ status[q] = "cancelled" =>
          \/ status'[q] = "cancelled"
          \/ status'[q] = "fulfilled" /\ session[q] # "none"

EndedRowsStayEnded == [][\A q \in QIds : StaysEnded(q)]_vars

GetsSlot(q) ==
    /\ status[q] \in {"absent", "queued"}
    /\ status'[q] \in ReservedStates

Overtakes(q, p) ==
    p < q /\ GetsSlot(q) /\ status[p] = "queued" /\ assigned[p] = None

\* No row gets a slot, from the dispatcher or directly, while an older row
\* that never had one waits (failed launches return to their old place, so
\* one may arrive there after the dispatcher chose its head).
NoOvertaking == [][\A p, q \in QIds : ~Overtakes(q, p)]_vars

StartsAllowed(q) ==
    flight[q] = "none" /\ flight'[q] = "starting" => assigned'[q] \in usable

\* A launch starts only on a member its owner could use at some moment since
\* the request for it came in, however long before the member was assigned
\* (prepare_launch re-reads the ACL).
LaunchStartsAllowed == [][\A q \in QIds : StartsAllowed(q)]_vars

-----------------------------------------------------------------------------
(* Liveness.                                                                *)

\* A session an administrator or the idle policy reclaimed frees its slot,
\* whatever its window does: heartbeats no longer count.
ReclaimedSessionsEnd ==
    \A q \in QIds : ReclaimPending(q) ~> session[q] \notin OccupiedStates

\* A reservation nobody comes back for does not hold its slot for ever.
ReadyRowsMove == \A q \in QIds : status[q] = "ready" ~> status[q] # "ready"

\* A launch that started settles: its row does not stay 'launching' (as long
\* as no request dies).
LaunchesSettle == \A q \in QIds : status[q] = "launching" ~> status[q] # "launching"

\* The queue's head could be granted a slot right now.
HeadCanBeServed(q) ==
    /\ IsQueueHead(q)
    /\ AvailableSlots(status) > 0
    /\ LaunchableMembers(status, owner[q]) # {}

\* A free slot and a waiting user are never left side by side: the dispatcher
\* gets to the head (dispatch_ready_entries).
NoLostWakeup == \A q \in QIds : ~<>[]HeadCanBeServed(q)

\* A pool nobody uses any more, whose members answer, is shown to everybody as
\* available and stays so: whatever places, reservations and launches were left
\* behind go away by themselves (list_user_pools).
IdlePoolReopens ==
    \A u \in Users :
        <>[](req = None /\ Occupied = {} /\ launchable = Apps)
            => <>[](PoolCard(u) = "available")

-----------------------------------------------------------------------------
(* The pool implements the promise of SlotPool, the two leaks apart.        *)
Promise == INSTANCE SlotPool WITH Holders <- QIds, held <- Held, cap <- peak

\* Every step grants at most one slot, and only below the cap.
ImplementsSlotPool == Promise!Spec

=============================================================================
