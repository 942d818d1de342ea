# A verification project for the portal

TLA+ models of the portal's backend (`src/backend/`), the TLC runs that check
them and TLAPS proofs about them. Every definition is translated from the code
at the lines `PROJECT.json` names under "map".

| module | what it models |
| --- | --- |
| `PoolLaunch` | the launch path of one resource pool: requests, queue, dispatcher, sessions, reclaim, cleanup after access changes, the pool's card on the page |
| `SlotPool` | what a pool promises: a slot is granted only while fewer than the cap are held |
| `WorkerTasks` | script tasks and the workers that run them: preflight, claims, the agent's loop, reports, recovery |
| `Enrolment` | how a worker host gets, keeps and loses its access token |
| `AppAccess` | applications, VSCode profiles, users, access lists and script bindings; the administrators' requests over them and the connections built from them |
| `TokenCache` | the Guacamole token of a user in its two tiers, the launches that use it and those who drop it |
| `Login` | accounts, JWTs and the limit on attempts |
| `Standalone` | launches of an application outside the pools and the health of its host; extends `Login` |
| `Upload` | chunked uploads, files and quota of a personal space |
| `Community` | publication and transfer of cases, bookings, attachments of a pool |
| `PoolLaunchProofs`, `WorkerTasksProofs`, `AppAccessProofs`, `TokenCacheProofs`, `UploadProofs`, `EnrolmentProofs`, `StandaloneProofs`, `CommunityProofs` | TLAPS proofs about the module each is named for |
| `MC*`, `*.cfg` | small instances for TLC |

## 1. Inventory

The portal is one FastAPI process (one uvicorn worker) in front of MySQL and
Apache Guacamole. Users launch remote applications (`remote_app`), alone or as
members of a resource pool, submit script tasks that Windows workers pull, and
keep files in a personal space. `launch_app`, `upload_chunk` and the background
loops of `app.py` are coroutines of one event loop: they interleave only at
their awaits. Every other handler runs in Starlette's threadpool and interleaves
with everything. `db.execute_query/execute_update` take a connection of a pool
of eight and autocommit, so a statement is the unit of atomicity; a handful of
handlers open a transaction (InnoDB, REPEATABLE READ).

| component | state | operations | what is hard | what makes it correct |
| --- | --- | --- | --- | --- |
| Pool launch path (`resource_pool_service.py`, `router.py`) | `resource_pool`, `launch_queue`, the pool's `GET_LOCK` | prepare, enqueue, reserve, consume, cancel, poll, dispatch, requeue, fulfil, list, cleanup after ACL changes, pool edits | the lock excludes only its other holders; a launch spans three tables; the request that owns a row may die | slots, member and user limits, first come first served, ended rows stay ended, nobody waits beside a free slot, an idle pool reopens |
| Sessions and reclaim (`monitor.py`, `app.py`) | `active_session` | record, heartbeat, end, stale, idle and administrative reclaim | windows keep sending heartbeats, or stop | reclaimed sessions end and free their slot |
| Worker plane (`worker_*.py`, `task_*.py`, `script_*.py`) | `platform_task`, `worker_node`, task rows of `launch_queue` | preflight, submit, heartbeat, pull, report, complete, fail, cancel, offline and stalled recovery | recovery races the worker it gave up on; answers are lost | a task is run once, ends, and leaves the queue |
| Worker enrolment (`worker_service.py`, `admin_worker_service.py`) | `worker_node`, `worker_enrollment`, `worker_auth_token`, the agent's state file | create, issue, register, rotate, revoke, authenticate | a request is several statements; the agent retries while the portal still works | one machine and one token per node; revoked means out |
| Administration (`admin_router.py`, `vscode_policy_service.py`) | `remote_app`, `vscode_control_profile`, `portal_user`, `remote_app_acl`, the catalogue | create, update, delete, bind | validation on rows read before the transaction | launches stay restricted whatever the rows |
| Token cache (`guacamole_service.py`) | dictionary, `token_cache`, Guacamole's own tokens | look up, validate, promote, create, invalidate | awaits between reading and writing; failures that are swallowed; restarts | withdrawn connections are not handed out |
| Login (`auth.py`, `identity_access.py`) | `portal_user.is_active`, JWTs, the limiter's window | log in, authenticate, open the page, disable | a token outlives the account | access ends with the token at the latest |
| Standalone launches and runtime health | `remote_app_health`, sessions | admit, succeed, fail, probe | checks without reserving; three writers of one row | limits; a cooldown lasts, and ends |
| Upload and space (`file_router.py`, `drive_quota.py`) | meta and temporary files, files, cached usage | init, chunk, cancel, cleanup, delete, move | check, await, append; a cached quota; crashes between two files | a file that appears is what was sent; the quota holds |
| Cases, bookings, attachments | case tables and directories, `booking_register`, `app_attachment` | publish, transfer, book, cancel, replace | a drive and a database without a common transaction | rows and directories come and go together |
| Comments, SDK catalogue, datasets, database pool, user interface | single tables, files, connections | | | not modelled (section 12) |

Interactions: a launch goes through the pool service (which may queue it), the
token cache and Guacamole, and back to the pool service; the monitor ends
sessions, drops tokens and triggers the dispatcher; what an administrator
commits in `AppAccess` invalidates tokens (`CommitChange` of `TokenCache`) and
lists queue rows to clean up, or does not (`UpdateAcl`, `UpdateApp`, `UpdateUser`
of `PoolLaunch`); worker
tasks hold pool capacity and have a row of their own in `launch_queue`
(`PoolMax` and `PoolMovesRow` of `WorkerTasks`); enrolment decides whose
requests `WorkerTasks` serves; login decides who may launch (`SignedIn` of
`Login`, read by `Standalone`).

Conventions. A step is an SQL statement, a call on a file, or several that no
other step can tell apart. History variables (`missed`, `orphaned`, `late`,
`unseen`, `raced`, `cutOff`, `mixed`, `contested`, `overlapped`, `shared`, `cut`,
`unknown`, `dead`, ...) are read by properties and by no guard but those that
draw an unused id; they name the overlaps in which the code gives something up,
so that the property says everything else is right and section 10 says what is
not. Operators marked "Seeded fault of X" are what a plausible bug would make
of `X`; no specification uses them.

## 2. `PoolLaunch`

### State

`status`, `owner`, `requested`, `assigned` are columns of `launch_queue`
(`assigned` is `assigned_app_id`; `overdue` stands for `ready_expires_at <
NOW()`). `session` and `fresh` are `active_session.status` and the age of
`last_heartbeat` of the one session a row leads to. `pool` is the
`resource_pool` row, `access` joins ACL, activity and security mode,
`launchable` is what `remote_app_health` allows. `req` is the request inside
`prepare_launch`: the endpoint is `async` and the service synchronous, so it
blocks the event loop and there is one at a time. `flight` is how far the rest
of `launch_app`, which awaits Guacamole, has come for a row. `dpc`, `seen`,
`slots`, `head` are the dispatcher's program counter and locals; a dispatcher
that is not idle holds the pool's lock. `sweep` is what an administrator's
cleanup listed and has not visited. `usable`, `late`, `peak`, `orphaned`,
`missed` are history and guard nothing.

### Steps

The dispatcher is split at every statement whose answer it uses later (two
counts, head, grant), because cancels, ends, launches and requeues take no lock.
`prepare_launch` is split into the checks before the lock, the decision under
it, and the statement that writes the decision; what it reads under the lock
is one step: the dispatcher is locked out, other requests are blocked, and the
cancels, ends and failures that remain only free slots or change who may
launch, which the split before the write lets happen too. A waiting
`GET_LOCK` that times out is `RequestFindsPoolBusy`. Handlers that end with
`dispatch_ready_queue_entries` (session end, cancels, edits) leave that to
`DispatchBegin`, which is always enabled when the lock is free: the call runs
a dispatch round of its own that others may interleave with, or is skipped
when the lock is taken. `dispatch_ready_entries` really does run beside
`launch_app`: the endpoints that trigger it are synchronous and run in the
threadpool.

`EnqueueRequest`, `CreateLaunchReservation` and `QueueMarkLaunching` end, as
the code does, with a poll of the row. Access changes in three ways. A user's
ACL (`UpdateAcl`) and an application (`UpdateApp`) are changed with a cleanup:
`cleanup_invalid_queue_entries` lists rows once (`Lists`) and then looks at each
(`SweepRow`); listing is merged with the change itself. `UpdateUser` is
`PUT /users/{id}` with `is_admin`: it takes or gives the members that are
administrators' desktops, drops the user's token, and lists nothing. `late`
names the live rows whose owner has lost the application requested and that no
cleanup has listed since: those of a user who stopped being an administrator,
those inserted after a change by a request that had passed its check before it,
and those whose cleanup a crash cut short. A row leaves `late` when its owner
has the application again or a cleanup lists it. The third test of the cleanup,
that the user has any accessible member, follows from the first. `PoolCard(u)` is
what `list_user_pools` shows user `u`, a read with no step of its own.

Left out, for one pool: moving members between pools, the order in which
`pick_launchable_member` prefers members (any launchable member may be
picked), when a failing member cools down and recovers (`MemberFails`,
`MemberRecovers` are free here; `Standalone` has the row itself), queue rows of
`request_mode = 'task'`, `failure_count`, `ready_at` and `last_seen_at`, which
guard nothing here.

### Properties

* `SlotsWithinCap`, `ImplementsSlotPool`: the pool's cap. The two ways the code
  exceeds it are kept apart by `missed` and `orphaned` (section 10); everything
  else together stays within the cap, in every interleaving.
* `MemberWithinCap`, `UserAppWithinLimit`: per-member and per-user limits,
  filled by two paths that look at different things.
* `OneLiveRowPerUser`, `NoOvertaking`: the queue. `NoOvertaking` is about rows
  that never had a slot: one that is requeued after it had a slot keeps its
  number and is watched no more. `EndedRowsStayEnded` is proved and not repeated
  by a run.
* `LiveRowsAllowedOrSwept`, `LaunchStartsAllowed`: access changes while
  requests, rows and dispatcher are under way. A row its owner may not ask for
  is about to be visited by a cleanup, or is `late`; no launch starts with a
  member its user had lost when the request looked, late rows included.
* `ReclaimedSessionsEnd`, `ReadyRowsMove`, `LaunchesSettle`, `NoLostWakeup`,
  `IdlePoolReopens`: liveness. The last is about the page: it counts rows that
  are live in any way, so every row somebody left behind must go away by itself
  before the pool is shown as available again.

### Fairness

`_cleanup_loop` runs every minute on the event loop. `prepare_launch` blocks
that loop, so whenever it runs no request holds the pool's lock, and a
dispatcher in the threadpool finishes: `SF(DispatchBegin)`, `WF(Dispatch)`. A
request's calls have timeouts: `WF(RequestStep)`, `WF(LaunchStep(q))`. The
clock moves: `GraceElapses`. The same loop reclaims: `ReclaimStale`. A window
told that its session is being reclaimed is not renewed by heartbeats, so its
last heartbeat ages: `HeartbeatLapses` is fair for such sessions only. Users,
windows and administrators promise nothing. The liveness run has no request
that dies (`Budget["fault"] = 0`): nothing in the code expires a launching row,
so one that dies between its reservation and its session keeps its slot until
somebody cancels it.

## 3. `WorkerTasks`

### State

`status`, `owner` are columns of `platform_task`; `heard` stands for
`last_heartbeat_at > assigned_at`. `row` is the status of the task's
`launch_queue` row. `node` and `fresh` are `worker_node.status` and the age of
`last_heartbeat_at` (45 s). `pulls` and `pending` are handlers of the portal in
the middle of a claim, or between the check and the UPDATE of `complete` and
`fail`; `submitting` are submissions between their two INSERTs, `cancelling`
cancels between their two UPDATEs. `listed`,
`visit`, `lost`, `rowTodo` are the locals of `reconcile_offline_workers`.
`phase` and `job` say where an agent is in `run_once`. `runs`, `unseen`,
`raced` and `cutOff` are history. The constants `Executors` and `Inventory` are
the gates of preflight and claim: what a node's `supported_executor_keys` and its last
software probe allow it to run.

| phase | the agent is | next |
| --- | --- | --- |
| idle, polled | before its heartbeat, before its pull | `Heartbeat`, `PullTask` |
| pulling | waiting for the claim | `ClaimNextTask`, `ClaimFindsNothing` |
| staging, staged | fetching the snapshot, about to report `running` | `DownloadSnapshot`, `ReportRunning` |
| running | in the script | `ScriptEnds` |
| ran, uploading, uploaded | reporting `uploading`, sending the output, completing | `ReportUploading`, `StoreOutput`, `CompleteChecks` |
| unsuccessful | about to report a failed script | `FailChecks` |
| ending | waiting for the runner's last call | `EndTask` |
| failing, failed | in `run_once`'s `except`: about to call fail, waiting for it | `FailChecks`, `EndTask` |
| down | dead | `AgentRestarts` |

### Steps

`cancel_queued_task` is two autocommitted UPDATEs, the task (`CancelQueuedTask`)
and then its row (`CancelTaskRow`); when the portal ends between them the row
stays (`cutOff`). The claim is one transaction at InnoDB's default isolation:
its first SELECT fixes the snapshot (`PullTask`, together with the count of the node's own
tasks), then it waits for row locks, and `ClaimNextTask` reads what is queued
now but counts capacity in the snapshot. `complete` and `fail` are split at
their check; reports, which check and write in one UPDATE, are not. A call may
be lost (`CallLost`), answered too late (`CallTimesOut`, and the second
disjunct of `Answer`: the call took effect and the agent does not know), or
refused. A handler nobody waits for goes on; two such pulls of a node with equal
snapshots, or two equal reports, count as one. The recovery is one loop on the
event loop: handlers that are already in a thread go on beside it, which the
model lets any step do; it visits nodes and tasks in any order. The 90 s a task
must have been assigned are left out: `FailStalledTask` may come at once. What
the pool's own code does to a task's row is `PoolMovesRow`. A submission's
preflight may be older than anything it is compared with, so it ignores the
status of nodes.

Left out: logs and artifact rows, files other than whether an output is there,
the `cancel_requested` flag (it is delivered with heartbeats; no agent reads
it), and the number of GUI sessions: `PoolMax` is what they leave.

### Properties

* `ExecutedOnce`: a task is requeued while an agent has it; the late agent's
  report is refused because the owner changed.
* `TasksWithinPoolCap`: the cap, but for tasks in `unseen`, whose claim counted
  in a snapshot that missed an active task (section 10).
* `SucceededTasksRan`, `EndedTasksLeaveQueue`: what an ended task leaves.
  `raced` names the rows the dispatcher had made ready or that two handlers
  wrote at the same time, `cutOff` those of a cancel that the portal's end cut
  off; for those the code does leave live rows behind. A cancel on its way to
  its second statement (`cancelling`) is exempt until it gets there.
* `TasksEnd`, `TasksLeaveDeadWorkers`: liveness.

### Fairness

Each agent loops for ever (`WorkerHost.run`), each handler ends, and the
recovery runs in `_cleanup_loop`. It is not always idle, but it is again and
again, so `FailStalled` is strongly fair. The clock makes the heartbeat of an
agent that is down grow old. Users, crashes and losses are not fair.
`HeartbeatLapses` assumes that from a heartbeat to the end of the claim that
follows less than 45 s pass (the calls time out after 30 s, and a claim that
has to wait longer than the lock timeout is rolled back).

## 4. `AppAccess`

State: the rows of `remote_app` (`app`), `vscode_control_profile` (`profile`),
`portal_user` (`user`), `remote_app_acl` (`acl`), the catalogue (`catalog`,
`script`, `binding`) and the administrators' requests under way (`req`). A
request is a validation on rows read outside any transaction (`...Check`,
`UpdateProfileRead`), then a transaction (`...Commit`, `...Write`). A
transaction is one step, except where it reads before its first write: then
InnoDB answers every later SELECT from the snapshot of that first read while an
UPDATE sees current rows, and `UpdateAppSnapshot`/`UpdateAppFromSnapshot` keep
the two apart. Foreign keys are part of the commits (`ForeignKeyHolds`,
`Deletable`).

`Connections(u)` is what `_build_all_connections_with_errors` hands to
Guacamole: the program, its arguments and the clipboard of every listed
application whose row is in order. Of the arguments the model keeps what their
validation tells apart (`Arguments`: none to worry about, `{user_id}`, more than
allowed); of the data channels one; of a profile's document its controls, its
allowlists and their normalisation (`Canon`).

* `ActiveProfilesValid`: two administrators save different fields of a profile.
  Each writes the whole document it validated, so an active profile always
  satisfies its allowlist rule, though one of the two edits is lost.
* `LaunchesStayRestricted`: two updates of an application, each validated
  against the row before the other, can leave a row no validation would accept;
  the builder of connections checks again, so no launch opens a desktop, passes
  unvalidated arguments or opens a clipboard for it.
* `ScriptSwitchMatchesBindings`: two saves may each insert a binding; switching
  scripts off still reaches both.

## 5. `TokenCache`

State: `memory` (`_SessionCache._memory`), `row` (`token_cache`), `died` (what
Guacamole forgot), `launch` (launches between `Begin` and `Answer`), `loop` (the
launch that holds the event loop), `change` (administrators' requests past their
commit), `monitor`, `now`. The connections of a user are a version: the number
of changes that altered them.

A launch looks in memory before its first await, then in the table, asks
Guacamole about the token (`Validated`, `NotValidated`), promotes or drops it,
or creates a new one and puts it in both tiers; between two awaits it keeps the
loop. Invalidations clear memory and then the table, whose failure is swallowed
(`ClearRows`, `DropTableRow`). `Restart` empties memory.

* `StaleOnlyIfRaced`: a launch opens with the connections it built, unless a
  change overtook it, or the launch its token came from, or the table could not
  be cleared.
* `StaleAccessBounded`: in those cases too, connections that were withdrawn are
  not taken from the cache later than the lifetime of a token plus one launch:
  a promotion after a restart keeps `created_at`.

## 6. `Enrolment`

State: `node`, `code`, `token` are `worker_node`, `worker_enrollment`,
`worker_auth_token`; `credential` is the token in each agent's state file;
`handler` are the requests under way, one step per UPDATE or INSERT (activate,
consume, retire, insert; node, tokens). `contested` are the nodes that two
machines are registering at once, both admitted before either wrote its
fingerprint: a registration puts its node there only when another machine's is
still to write (`Rivals`), and the last of them to write takes it out. The agent
gives up after 30 s (`GiveUp`) and registers again while the first request still works; the portal
may stop between two statements (`PortalCrash`); hosts lose their state file
(`LoseCredential`).

* `OneActiveToken`: two active tokens of a node come only of requests that met.
* `RevokedNotServed`: once revoked with nothing else under way, a node is never
  served again, also when the portal stopped before the tokens were revoked.
* `OneTokenPerCode`: retries and crashes do not get a second token out of a
  code, unless two registrations with it were under way at once.
* `FingerprintKept`: a node stays with its machine, through retries of that
  machine that overlap its own first request, codes issued again, crashes and
  revocations. Only while two machines contest a node may the later one take it,
  and from the last one's write on it is kept again.

## 7. `Login` and `Standalone`

`Login` has `portal_user.is_active`, what is left of each user's longest JWT,
the limiter's window, and how long an account has been disabled. A login is one
step: what it reads of the account and the token it makes of it are a statement
and a computation, and a token made for an account disabled in between is one
whose holder is disabled an instant later. No request but login and opening the
page reads `is_active`.

`Standalone` adds an application outside the pools: its launches (`launch`, from
admission to the session they become) and the row of `remote_app_health`
(`health`). What `launch_app` does before it awaits Guacamole is one step
(`Prepare`, or `PrepareUnbuildable`), what it does after is another
(`LaunchSucceeds`, `LaunchFails`), the probe is a third; the lock
`remote_app:<id>` so never meets a holder. `overlapped` are the launches that
were under way together.

* `WithinMaxConcurrent`: the admission counts sessions and reserves nothing, so
  launches that overlap may exceed the limit together, and nothing else may.
* `LaunchesFollowAccounts`: who launches could open the page now, or less than a
  token's lifetime ago.
* `CooldownLasts`: only a launch admitted earlier may end a cooldown early.
* `ReachableAgain`: a host that answers for good is offered again.

Fairness: time passes (`Tick`) and `_cleanup_loop` probes every minute
(`Probe`). Nobody is assumed to launch, so it must be the probe that leads back
from `unreachable`.

## 8. `Upload`

State: `meta` and `tmp` (`.uploads/<id>.meta`, `.tmp`), `file` (the space),
`usage` (`_usage_cache`), `count` (what a walk of the space has counted and not
stored yet), `handler` (requests under way, and the hourly cleanup), `raced` and
`shared` (history). A file is the sequence of the
positions its units were sent for, so its right content is `Whole(size)`.
`upload_chunk` has two awaits: the offset is compared (`ChunkStart`), the body
is read and the quota asked (`ChunkQuota`), the units are appended
(`ChunkAppend`, `ChunkAppendFails` for a disk that takes a part), and the last
chunk publishes in two calls (`Publish`, `ChunkDone`). Cancel and cleanup remove
the meta file and then the temporary one. `Crash` stops the portal between any
two.

`_get_usage_sync` counts and then stores. Init (`InitCount`, `InitStore`), a
chunk (`ChunkCount`, `ChunkStore`) and the requests of `Readers`, which only
report or check the usage (`SpaceCount`, `SpaceStore`), do it in threads, so files
may appear and the cache be forgotten in between, and the old count is stored
afterwards. What a walk counts is taken at one moment; one that a renamed file
slips past counts less than the space ever held, and is among the walks
`WalkMet` sets aside. What runs on the event loop waits while a chunk that counts
or publishes holds it (`OnLoop`).

* `PublishedWhole`: what appears in the space is the declared file unit for
  unit, unless two requests worked on the upload at once.
* `OrphansComeFromRaces`: a temporary file no cleanup finds is left only by
  requests that met or by a removal cut short.
* `QuotaHoldsAlone`: with one upload at a time that keeps to its declared size,
  begun when nothing of the one before is left, the quota holds though the usage
  is up to a minute old and walks of other requests are stored at any time. When
  a walk is under way as a published or moved file has the cache forgotten
  (`WalkMet`), nothing is said any more: its stale count is stored afterwards and
  a lone upload may exceed the quota. A walk that a deletion meets counts too
  much, which is safe, and stays watched. That the temporary file of a removed
  upload counts as something left (`OtherUpload`) came out of the proof: with one
  upload id TLC never sees a second upload beside it, with two it does.

## 9. `Community`

A task's output becomes a case: files are copied one by one into a new directory
(`PackageFile`), archived, and listed in one transaction (`InsertCase`); any
failure clears the directory, also when the COMMIT happened and its answer was
lost (`CommitUnanswered`): from then until the directory is cleared the case is
public and may be taken over, and afterwards it is public without its package
(`unknown`). A transfer reads, makes the target (`MakeTarget`), copies file by
file, and clears the target when it fails. Clearing comes after the failure,
piece by piece where somebody may look (`ClearSome`), and since `rmtree` is told
to ignore errors it may leave files and report nothing (`ClearStops`,
`UndoStops`). The owner deletes or moves a copy, a file of it, or, when something
in it is in use, a part of it (`DeleteCopy`), also while a transfer writes there,
and may make the directory first (`MakeDirectory`). Bookings are read and then
cancelled with a condition on the row (`StartCancel`, `Cancel`). A replacement of
a pool's attachments is one transaction whose UPDATE locks rows or, without rows,
the gap (`Deactivate`, `InsertAttachments`).

* `RowsMatchPackages`: a case that is listed has its whole package and archive,
  unless its COMMIT was answered with an error; a directory without rows is being
  filled or cleared, or the portal stopped then, or its removal left files.
* `CopiesWhole`: a copy is the whole case once no transfer is at work on it,
  unless, since a transfer made it, the portal stopped there, its undoing left
  files, or its owner changed it (`cut`), or the case is in `unknown`. A copy
  that a transfer makes anew is watched again.
* `CancelledOnce`: of the requests that found a booking active one cancels it.
* `OneListing`: users see the attachments of one replacement.

## 10. Runs, bounds, and what they show

| run | instance | shows |
| --- | --- | --- |
| pool | 2 users, 1 member, 2 rows, 1 slot raised to 2, 1 instance per user, 1 cancel, 1 fault, 1 pool edit | nobody has two places; cap, user limit, order and the refinement of `SlotPool`, with a crash anywhere |
| members | 1 user, 2 members of capacity 1, 2 slots, 2 rows, 1 access edit, no fault | the member's limit, access changes, what a launch starts with |
| access | 1 user, 1 member, 1 slot, 2 rows, 3 access edits, 1 fault | live rows after access is withdrawn, with and without a cleanup, given back, and a crash during a cleanup |
| live | 2 users, 1 slot, no faults | liveness of the pool and its page under `FairSpec` |
| claims | 2 workers of which one has all software, 2 tasks, 1 place, 1 lapse | cap and single execution |
| faults | 2 workers, 1 task, 1 timeout, lost call, crash, restart, portal restart, revocation, cancel and row move | what ended leaves the queue; success means output |
| survivor | 2 workers, 1 task, 1 crash, 2 timeouts | the dead leave no task, and it ends |
| changes | 1 user, application, profile and group, 2 administrators' requests, 2 controls, 2 bindings | what overlapping edits leave, and what a launch makes of it |
| tokens | 1 user, 2 launches, 1 change, 2 tokens, lifetime 2, clock to 3 | stale tokens |
| files | 1 id, 1 path, files of 2 units, chunks to 2, quota 3, 2 requests and the cleanup | whole files, orphans |
| quota | 2 ids, 2 paths, files of 1 and 2 units, chunks to 2, quota 3, 2 requests, the cleanup and a reader of the usage | the quota |
| enrolment | 1 node, 2 machines, 2 codes, 3 tokens, 2 requests | identity and tokens of a node |
| standalone | 2 users, 3 launches, limit 2, cooldown 2 doubling to 3, 2 failures, tokens of 2 periods, 1 attempt | limits, health of a host, disabled accounts |
| cases | 1 user, 3 requests, 2 cases of 2 files, 2 transfers, 2 failures, 2 changes by the owner | rows, directories and copies |
| registers | 3 requests, 2 bookings, 4 replacements, 2 failures | one winner |

Bounds. `MaxQueue`, `NumTasks`, `Codes`, `Tokens`, `MaxTime`, `MaxChanges`,
`MaxBindings`, `MaxFailures`, `Cases`, `Copies`, `Replacements` bound what the
database would number without end; `Budget`, `Faults`, `Edits` bound how often
each fault or intervention happens. Two of each kind are enough where a property
is about a conflict of two (one slot, one place in the queue, one upload, one
target, one node), with a third where something must be able to remain after two
have met: three tokens (two that meet and the rotation that puts it right),
three launches beside a limit of two, three handlers in `cases` and `registers`.
Three access edits take a member away, give it back and take it away again. One
limit decides in each instance, so that no other hides its loss: the cap in `pool`
(and, once it is raised, the user's limit), the member's in `members`. One user
suffices where users share nothing but the event loop (`tokens`, `changes`,
`files`, `quota`), in `members`, where two of his own requests compete for a
member, and in `access`, where a cleanup visits each row by itself. `StaleAge` is
1 in both runs of `Upload`: an upload is fresh or stale. `quota` does not look
past a state in `shared` (CONSTRAINT `NoneMet`): `shared` is never reset, and its
property says nothing there.
`Fragile` names the members a probe may find down at any time: all in `pool` and
`live`, none in `members`, where a launch that fails still makes its member
unlaunchable. `claims` has no lost answers, which `faults` and `survivor` have;
its two properties are proved for any number of them. `survivor` leaves lost
calls, restarts and lapses of living agents out, each of which makes its
properties false (below). `Timeout` is 0 in `tokens`: a launch ends within the
tick it began in, and the bound of `StaleAccessBounded` is then tight.
Runs `faults`, `survivor`, `cases` and `registers` may stop (no agent is left, or
every bound is spent) and do not check deadlock; all others do.

### Known divergences

Behaviour met while modelling that a reader of the code should know. The
properties set it aside by name.

* `_available_slots` counts sessions, then reservations. A launch completes
  without the lock; a dispatcher whose first count came before and second after
  sees neither, and grants a slot that is taken (`missed`).
* A launching row may be cancelled while Guacamole is being called. Its slot is
  free at once, and the session is recorded afterwards all the same
  (`orphaned`, `router.py:396`).
* A request that dies between reservation and session leaves its row launching
  until somebody cancels it (`resource_pool_service.py:798`).
* `PUT /users/{id}` changes `is_admin`, on which access to administrators'
  desktops hangs, and drops the user's token but cleans up no queue
  (`admin_router.py:956`): a live row for such a desktop keeps its place until it
  is served with another member, the dispatcher or a poll finds its owner without
  any, or another cleanup lists it (`late`).
* `get_queue_head` does not look at `request_mode`: the dispatcher makes a
  task's row ready, which holds a slot until it expires
  (`resource_pool_service.py:1284`, `PoolMovesRow`).
* Waiters for `GET_LOCK` keep connections of the pool of eight; the ninth
  request gets an error, the lock's holder among them
  (`resource_pool_service.py:56`).
* `cancel_queued_task` is two autocommitted UPDATEs (`task_repository.py:170`,
  `task_repository.py:188`): a portal that stops between them leaves a cancelled
  task with a live row in the pool's queue (`cutOff`).
* `complete` and `fail` write by id after their check, so the later of two
  answers wins over a task that has finished (`worker_repository.py:518`).
* An agent sends no heartbeat while it runs a task, so a script of more than
  45 s fails as `worker_offline` although its worker is well
  (`worker_agent.py:292`; `docs/2026-04-10-production-server-deployment-manual.md:140`
  says workers send heartbeats all the time).
* A running task of an agent that restarts within 45 s is recovered by nothing
  and takes the worker's only place (`worker_repository.py:604`;
  `docs/2026-04-10-worker-windows-service-standardization.md:256` says the next
  heartbeat and pull go on by themselves).
* `_pool_has_capacity` counts in the claim's snapshot, older than the row locks
  the claim waited for, so two claims take one place (`unseen`). The dispatcher
  ignores running tasks, and neither takes the other's lock.
* A node marked offline just after its heartbeat can hold tasks, and an offline
  node whose agent dies is not listed again; nor is one after a portal restart
  in the middle of a recovery.
* The preflight looks inventory up by `profile_key`, the claim by
  `software_adapter_key`.
* An offline node cannot register again (`worker_service.py:191`;
  `docs/2026-04-10-worker-upgrade-rollback-runbook.md:28` tells hosts that lost
  their state to do so). A registration that has passed its checks undoes a
  revocation it overlaps (`worker_service.py:194`).
* A disabled account's JWT keeps working until it expires (480 minutes).
* Resuming an upload counts its temporary bytes twice against the quota
  (`file_router.py:351`), and one whose bytes are all there is never completed:
  the page sends no chunk when the offset is the size (`portal-uploads.js:58`).
* The usage is cached for a minute and a removal takes the meta file before the
  temporary one, so an upload begun between the two, or beside a temporary file
  no cleanup finds, is not charged for it and may exceed the quota
  (`drive_quota.py:42`, `file_router.py:481`).
* A walk that began before a file was published or moved stores its count after
  `_invalidate_usage_cache` (`drive_quota.py:46`, `file_router.py:457`), for up to
  a minute; an upload alone in the space is admitted against it and may exceed
  the quota.
* A transfer cut short by a crash, or whose undoing leaves files because `rmtree`
  ignores its errors (`case_center_service.py:381`), leaves a partial copy that
  refuses another transfer until its user deletes it.
* A publication whose COMMIT succeeded and was answered with an error leaves a
  public case whose directory is removed (`case_center_service.py:545`); a
  transfer may have begun to copy it.
* `publish_case_from_task` is called by no route.

## 11. Proofs

Every safety invariant and every action property the runs check is also a
theorem, for every value of the constants under the named assumption of its
module. TLC checks each on a small instance; what the proofs add is that the
number of users, rows, workers, requests, files or ticks does not matter. The
assumptions ask that bounds are naturals, that what is counted is a finite set,
that `None` is no value of the data it stands beside, and, in `AppAccess`, that
the bodies of requests name columns and give them values of their types.
Each invariant below was checked by TLC on a run's instance before it was proved.

`PoolLaunchProofs`:

* `TypeCorrect`, `WaitingRowsAreUnlaunched`, from `LaunchInv`: `TypeOK`
  together with what it needs to be inductive. A request's member is a member
  when it reserves (`RequestHasMember`), the dispatcher has a head when it has
  picked (`PickedHasHead`), a row that holds or held a slot has a member
  (`MembersAssigned`) and a launch in flight before the INSERT has no session
  (`ConnectingHasNoSession`); `WaitingRowIsUnlaunched` needs the last. The type
  invariant of this module is proved and no run repeats it.
* `EndedRowsAreFinal`, from `EndedInv`: a fulfilled or expired row never
  changes, and a cancelled one only becomes fulfilled, if its session was
  recorded before. Requests, requeues, cancels, expiries and the dispatcher all
  write rows they read earlier.
* `SlotsNeverExceedCap`, `DispatcherCountStaysSafe`, `PoolKeepsPromise`, from
  `SlotInv`: `RequestCountsSafely` says that what a request decided to reserve is
  still free when it writes, `LockExclusive` that it and the dispatcher are not
  both past the lock. Steps are sorted into those that leave the slots alone or
  free some (`Quiet`), grants, the counts of the dispatcher, and pool edits;
  `StepKeepsPromise` maps each to a step of `SlotPool` or a stutter.
* `UsersHaveOneLiveRow`: a request that is about to insert found no live row of
  its user, and there is still none when it does (`CallerHasNoLiveRow`), since
  only requests insert, one at a time, and no ended row comes back.
* `LiveRowsAreAllowedOrSwept`: inductive as it stands, over `LaunchInv`. A change
  of access lists every row it could concern or makes the ones it takes access
  from `late`; a row that is still live after its visit has kept its access.
* `NobodyOvertakes`, `LaunchesStartAllowed`, from `OrderInv`: a request that has
  decided holds the lock, so nothing is granted meanwhile; it has found nobody
  waiting when it reserves, and a member its user may use; the dispatcher's head
  is older than whoever never had a slot.
* `MembersStayWithinCap`, `UsersStayWithinLimit`, from `CapInv`: the count a
  request made under the lock still leaves room when it writes
  (`ReservesBelowCaps`, `ConsumesBelowLimit`).

`WorkerTasksProofs`:

* `TypeCorrect`: `TypeOK` is inductive as it stands.
* `ScriptsRunOnce`, from `RunsInv`: a task that was never reported running has
  not been started (`NotStarted`), and an agent that has yet to make that report
  finds its task assigned, or not its own any more (`FetchedTaskIsAssigned`).
  Every step but claims and reports is `Calm`: it starts nothing, moves no task
  forward, and makes no agent fetch.
* `CapKept`, from `CapInv`: only claims make tasks active
  (`OnlyClaimsActivate`), and a claim whose snapshot shows all active tasks has
  counted them (`ClaimKeepsCap`).
* `SuccessesAreReal`, from `WorkInv`: an agent past the start of the script has
  started it, one past the upload has stored its output (`AgentsHaveRun`), and a
  completion that waits between its check and its UPDATE is of such an agent
  (`ReportsAreTrue`), however late it comes. `RunsInv` turns "started" into
  "once".
* `RowsLeaveWithTasks`, from `RowInv`: outside `Excused` (`raced`, `cancelling`
  and `cutOff`), a task that has been claimed or has ended has no live row and
  nobody owes it one (`RowsFollow`): a cancel leaves `cancelling` by writing the
  row.
  The proof showed that an exemption the property had for rows still to be
  written was not needed; it is gone.

`EnrolmentProofs`, all from `EnrolInv`: `NodesHaveOneToken`, `RevokedNodesAreOut`,
`CodesYieldOneToken`, `NodesKeepTheirMachine`. Where a history variable does not
say that requests met, a node has one request at most (`LoneRequest`) and no
active token when that one inserts (`LoneToken`). `FingerprintKept` does not
rest on that: two machines that have both still to write are in `contested`
(`Contest`), and otherwise the machine a registration is about to write is
still the node's, or the node is still free (`SameMachine`), however many
registrations of that machine are under way. A code with a token is
consumed (`CodeUsed`), and nothing under way can bring a withdrawn node back
(`WithdrawnStays`).

`TokenCacheProofs`, from `TokenInv`: `OnlyRacesOpenStale` needs that an entry no
race touched is current in either tier, or the change that withdrew it has not
come to that tier yet (`MemoryUpToDate`, `RowUpToDate`, `HeldUpToDate`,
`LaunchUpToDate`). `StaleTokensAgeOut` needs the same tiers' ages: an entry
dates from at most `Timeout` after its version was withdrawn (`TiersInTime`,
`HeldInTime`, `LaunchInTime`), whatever raced.

`UploadProofs`:

* `FilesAreWhole`, `OrphansAreRaced`, from `UploadInv`: the temporary file of an
  upload no two requests worked on is a whole beginning, and the one request
  about it knows where it ends (`Alone`, `Holds`). `WholeGrows` is the lemma
  that a chunk for the end of a whole beginning leaves a longer one.
* `SpaceStaysWithin`, from `QuotaInv`: until something is `shared` there is one
  upload at most, what it or an init about to create one declared fits beside the
  files, and neither a cached usage nor a walk still to be stored misses any of
  them (`UsageCounts`), except between `Publish` and `ChunkDone`, where the cache
  is about to be forgotten and a walk under way sets `shared` (`Fitting`). The
  cache only ever takes what some walk counted, and a walk counts the space as it is
  (`UsageMoves`); that carries `UsageCounts` through every step. Sums are
  cardinalities of sets of positions (`Total`), which spares the induction that
  a fold would need; `TotalChanges` and `TotalGrows` are what they need to obey.

`StandaloneProofs`, from `StandaloneInv`: `SessionsStayWithin` (a launch that
met no other is alone and leaves room for itself, `LoneLaunch`),
`DisabledAccountsFadeOut` (what is left of a token and the time its account has
been disabled add up to no more than a lifetime, `TokensRunOut`), and
`CooldownsRunOut`. `TypeOK` needs that doublings stay naturals
(`PowersOfTwo`, again a count of subsets instead of an induction).

`AppAccessProofs`, from `AccessInv`: `ProfilesAreValid` (the document a request
will write was validated, `DocumentHolds`), `SwitchesMatch` (bindings a
transaction saw in its snapshot still exist when it writes, `SnapshotHolds`), and
`LaunchesAreRestricted`, which follows from the types of the rows alone: no
consistency between the rows is needed, because the builder of connections
checks each of them again.

`CommunityProofs`, from `CommunityInv`, one part per service:
`CasesAreWholeOrAbsent` (`PublishInv`: a publication has its directory to itself
and has put there what it is past, and one that clears a directory clears one
without rows or one in `unknown`), `CopiesAreWhole` (`CopyInv`: outside `unknown`
the case a transfer copies stays public and whole, and outside `cut` the transfer
is alone in its target and has put there what it is past),
`BookingsEndOnce` (`CancelInv`), `OneReplacementShows` (`ListInv`: replacements
that are under way together have found the same rows).

Model-checked only: the liveness properties `ReclaimedSessionsEnd`,
`ReadyRowsMove`, `LaunchesSettle`, `NoLostWakeup`, `IdlePoolReopens`, `TasksEnd`,
`TasksLeaveDeadWorkers` and `ReachableAgain`. Their proofs need ENABLED, which is
out of the prover's reach.

## 12. Not modelled, hazards, plan

`PROJECT.json` lists under "hazards" what is hard to test, at its line, with the
properties that watch it.

Not modelled: comments and the SDK catalogue (single statements on tables of
their own), datasets and object storage (reads of files), downloads, listing and
mkdir of the space, Guacamole's own drive, the connection pool of
`database.py` (it raises when it is empty, nobody waits in it), the audit log
and the analytics, wire formats and encryption, page rendering and the browser,
deployment scripts, and the developers' tooling beside the source
(`.trellis/`, `.codex/`), which is no part of the portal.

Left of the plan:

1. Compositions: `PoolLaunch` with `WorkerTasks` (one cap, one `launch_queue`),
   `AppAccess` with `TokenCache` (the version of a user's connections computed
   instead of counted).
2. Proofs: the lemmas a composition of `PoolLaunch` and `WorkerTasks` would
   share (`SlotInv` and `CapInv` count in one pool), and the steps below liveness
   that are safety, such as that what `FairSpec` asks to move stays as it is until
   it does.

The suite is kept to fifteen runs of less than five minutes each, so that all of
it can be repeated on every change.
