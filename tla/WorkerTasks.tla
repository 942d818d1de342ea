----------------------------- MODULE WorkerTasks ------------------------------
(***************************************************************************)
(* Script tasks and the Windows workers that run them: submission, claim,  *)
(* the agent's loop, the reports it makes, and the recovery of tasks whose *)
(* worker went silent (backend/task_service.py, task_repository.py,        *)
(* worker_service.py, worker_repository.py, worker_monitor.py,             *)
(* worker_agent.py, worker_runtime.py).                                    *)
(*                                                                         *)
(* Granularity.  Every statement autocommits, except a claim, which is one *)
(* InnoDB transaction at REPEATABLE READ: what it counts is the snapshot   *)
(* its first SELECT took, what it locks FOR UPDATE is current.  Worker     *)
(* endpoints run in a threadpool, the recovery on the event loop: they     *)
(* interleave statement by statement.                                      *)
(***************************************************************************)
EXTENDS Integers, FiniteSets

CONSTANTS
    NumTasks,   \* bound: platform_task rows ever inserted
    Workers,    \* worker_node rows of the group
    None,       \* SQL NULL
    Pooled,     \* tasks whose runtime belongs to the resource pool
    Executors,  \* node -> tasks whose executor_key it supports
    Inventory,  \* node -> tasks whose software its inventory has as ready
    PoolMax,    \* what max_concurrent leaves beside GUI sessions
    MaxTasks,   \* worker_node.max_concurrent_tasks
    Budget      \* bounds: how often each kind of step may happen

Tasks == 1..NumTasks
Kinds == {"lapse", "timeout", "drop", "crash", "restart", "portal", "revoke", "cancel", "row"}
Reports == [op : {"complete", "fail"}, node : Workers, task : Tasks]
Pulls == [node : Workers, shows : SUBSET Tasks, waited : BOOLEAN]
RowWrites == [task : Tasks, to : {"queued", "cancelled"}]

ASSUME SizesAssumption ==
    /\ NumTasks \in Nat
    /\ Pooled \subseteq Tasks
    /\ Executors \in [Workers -> SUBSET Tasks]
    /\ Inventory \in [Workers -> SUBSET Tasks]
    /\ PoolMax \in Nat
    /\ MaxTasks \in Nat
    /\ Budget \in [Kinds -> Nat]
    /\ IsFiniteSet(Workers)
    /\ None \notin Workers
    /\ None \notin Tasks
    /\ None \notin RowWrites

VARIABLES
    status,     \* platform_task.status; "absent" before the row is inserted
    owner,      \* platform_task.worker_node_id
    heard,      \* assigned tasks whose worker sent a heartbeat since
    row,        \* launch_queue.status of the task's row; "absent" without one
    submitting, \* tasks whose submission has not inserted their queue row yet
    cancelling, \* cancelled tasks whose cancel has yet to write their row
    node,       \* worker_node.status
    fresh,      \* nodes whose last_heartbeat_at is within 45 seconds
    pulls,      \* pull handlers in a claim: the active tasks their snapshot
                \* shows, and whether the agent still waits for the answer
    pending,    \* complete and fail handlers between their check and their UPDATE
    listed,     \* stale nodes the recovery has listed and not visited
    visit,      \* the node it has marked offline, its tasks not listed yet
    lost,       \* tasks it has listed and not recovered
    rowTodo,    \* the launch_queue statement it has yet to make
    phase,      \* where each agent is in run_once
    job,        \* the task it works on
    runs,       \* history: how often the task's script was started
    stored,     \* tasks whose output archive the portal has
    unseen,     \* history: active tasks claimed by a stale snapshot
    raced,      \* history: tasks whose queue row two handlers wrote at a time
    cutOff,     \* history: tasks whose cancel the portal's end cut off
    budget      \* what is left of Budget

taskVars == <<status, owner, heard, unseen>>
cancelVars == <<cancelling, cutOff>>
rowVars == <<row, submitting, raced, cancelVars>>
nodeVars == <<node, fresh>>
handlerVars == <<pulls, pending>>
recoveryVars == <<listed, visit, lost, rowTodo>>
agentVars == <<phase, job>>
workVars == <<runs, stored>>
vars == <<status, owner, heard, row, submitting, cancelling, node, fresh, pulls,
          pending, listed, visit, lost, rowTodo, phase, job, runs, stored, unseen,
          raced, cutOff, budget>>

ActiveStates == {"assigned", "preparing", "running", "uploading"}
EndStates == {"succeeded", "failed", "cancelled"}
TaskStates == ActiveStates \cup EndStates \cup {"absent", "queued"}
LiveRowStates == {"queued", "ready", "launching"}
RowStates == LiveRowStates \cup {"absent", "fulfilled", "cancelled", "expired"}
NodeStates == {"active", "offline", "revoked"}

\* Phases in which the agent is about to call the portal about its task, those
\* in which it waits for the answer of a call of several steps, and the rest.
CallingPhases == {"staging", "staged", "ran", "uploading", "uploaded",
                  "unsuccessful", "failing"}
WaitingPhases == {"pulling", "ending", "failed"}
Phases == CallingPhases \cup WaitingPhases \cup {"idle", "polled", "running", "down"}

TypeOK ==
    /\ status \in [Tasks -> TaskStates]
    /\ owner \in [Tasks -> Workers \cup {None}]
    /\ heard \subseteq Tasks
    /\ row \in [Tasks -> RowStates]
    /\ submitting \subseteq Tasks
    /\ cancelling \subseteq Tasks
    /\ node \in [Workers -> NodeStates]
    /\ fresh \subseteq Workers
    /\ pulls \subseteq Pulls
    /\ pending \subseteq Reports
    /\ listed \subseteq Workers
    /\ visit \in Workers \cup {None}
    /\ lost \subseteq [node : Workers, task : Tasks, was : ActiveStates]
    /\ rowTodo \in RowWrites \cup {None}
    /\ phase \in [Workers -> Phases]
    /\ job \in [Workers -> Tasks \cup {None}]
    /\ runs \in [Tasks -> Nat]
    /\ stored \subseteq Tasks
    /\ unseen \subseteq Tasks
    /\ raced \subseteq Tasks
    /\ cutOff \subseteq Tasks
    /\ budget \in [Kinds -> Nat]

\* The nodes are enrolled and have sent a heartbeat.
Init ==
    /\ status = [t \in Tasks |-> "absent"]
    /\ owner = [t \in Tasks |-> None]
    /\ heard = {}
    /\ row = [t \in Tasks |-> "absent"]
    /\ submitting = {}
    /\ cancelling = {}
    /\ node = [w \in Workers |-> "active"]
    /\ fresh = Workers
    /\ pulls = {}
    /\ pending = {}
    /\ listed = {}
    /\ visit = None
    /\ lost = {}
    /\ rowTodo = None
    /\ phase = [w \in Workers |-> "idle"]
    /\ job = [w \in Workers |-> None]
    /\ runs = [t \in Tasks |-> 0]
    /\ stored = {}
    /\ unseen = {}
    /\ raced = {}
    /\ cutOff = {}
    /\ budget = Budget

Spend(kind) ==
    /\ budget[kind] > 0
    /\ budget' = [budget EXCEPT ![kind] = @ - 1]

Active == {t \in Tasks : status[t] \in ActiveStates}
Ended == {t \in Tasks : status[t] \in EndStates}

\* The recovery owes the task's row a write, or its submission does.
RowOwed(t) == t \in submitting \/ (rowTodo # None /\ rowTodo.task = t)

-----------------------------------------------------------------------------
(* The user: submit_script_task and cancel_task.                            *)

\* supported_executor_keys, and the software gate: the adapter the script needs
\* was ready when the node's agent last probed its software.
SupportsExecutor(w, t) == t \in Executors[w]

SoftwareReady(w, t) == t \in Inventory[w]

Suits(w, t) == SupportsExecutor(w, t) /\ SoftwareReady(w, t)

\* The preflight of a submission.  It may be as old as the first state, in
\* which every node is active.
Schedulable(t) == \E w \in Workers : Suits(w, t)

IsNextTask(t) ==
    /\ status[t] = "absent"
    /\ \A s \in Tasks : s < t => status[s] # "absent"

\* INSERT INTO platform_task; a task of the pool gets its queue row next.
SubmitTask(t) ==
    /\ IsNextTask(t)
    /\ Schedulable(t)
    /\ status' = [status EXCEPT ![t] = "queued"]
    /\ submitting' = submitting \cup ({t} \cap Pooled)
    /\ UNCHANGED <<owner, heard, unseen, row, raced, cancelVars, nodeVars, handlerVars,
                   recoveryVars, agentVars, workVars, budget>>

InsertTaskQueue(t) ==
    /\ t \in submitting
    /\ submitting' = submitting \ {t}
    /\ row' = [row EXCEPT ![t] = "queued"]
    /\ UNCHANGED <<taskVars, raced, cancelVars, nodeVars, handlerVars, recoveryVars,
                   agentVars, workVars, budget>>

\* Seeded fault of CancelledRow: the row stays.
CancelledRowStays(t) == row[t]

CancelledRow(t) == IF row[t] \in LiveRowStates THEN "cancelled" ELSE row[t]

\* A task nobody has claimed is cancelled.  (For a claimed one only
\* cancel_requested is set, which no agent looks at.)
CancelQueuedTask(t) ==
    /\ status[t] = "queued"
    /\ Spend("cancel")
    /\ status' = [status EXCEPT ![t] = "cancelled"]
    /\ cancelling' = cancelling \cup {t}
    /\ UNCHANGED <<owner, heard, unseen, row, submitting, raced, cutOff, nodeVars,
                   handlerVars, recoveryVars, agentVars, workVars>>

\* The handler's second statement: the task's row follows.
CancelTaskRow(t) ==
    /\ t \in cancelling
    /\ cancelling' = cancelling \ {t}
    /\ row' = [row EXCEPT ![t] = CancelledRow(t)]
    /\ raced' = IF RowOwed(t) THEN raced \cup {t} ELSE raced
    /\ UNCHANGED <<taskVars, submitting, cutOff, nodeVars, handlerVars, recoveryVars,
                   agentVars, workVars, budget>>

\* What the pool's own code does to the row: the dispatcher makes it ready,
\* it expires or is cancelled, or its owner's GUI launch consumes it.
RowMoves ==
    {<<"queued", "ready">>, <<"queued", "cancelled">>, <<"ready", "expired">>,
     <<"ready", "cancelled">>, <<"ready", "launching">>, <<"launching", "cancelled">>,
     <<"launching", "fulfilled">>, <<"launching", "queued">>}

PoolMovesRow(t) ==
    /\ Spend("row")
    /\ \E to \in RowStates :
          /\ <<row[t], to>> \in RowMoves
          /\ row' = [row EXCEPT ![t] = to]
    /\ UNCHANGED <<taskVars, submitting, raced, cancelVars, nodeVars, handlerVars,
                   recoveryVars, agentVars, workVars>>

-----------------------------------------------------------------------------
(* What worker endpoints ask first.                                         *)

\* Seeded fault of Owned: any node may report.
OwnedByAnyone(w, t) == node[w] # "revoked" /\ status[t] \in ActiveStates

\* The token is good, the task is the node's and not finished.
Owned(w, t) ==
    /\ node[w] # "revoked"
    /\ t \in Tasks /\ owner[t] = w
    /\ status[t] \in ActiveStates

\* Where an error takes the agent: out of run_once, except that an error in
\* staging or in the runner is reported first.
\* Seeded fault of AfterError: a failed upload goes unnoticed.
AfterErrorIgnored(p) ==
    CASE p = "uploading" -> "uploaded"
      [] p \in {"polled", "pulling", "failing", "failed"} -> "idle"
      [] OTHER -> "failing"

AfterError(p) == IF p \in {"polled", "pulling", "failing", "failed"} THEN "idle" ELSE "failing"

GoTo(w, p) ==
    /\ phase' = [phase EXCEPT ![w] = p]
    /\ job' = [job EXCEPT ![w] = IF p = "idle" THEN None ELSE @]

\* The agent gets the answer, or waits longer than 30 seconds for it.
Answer(w, p) ==
    \/ GoTo(w, p) /\ UNCHANGED budget
    \/ GoTo(w, AfterError(phase[w])) /\ Spend("timeout")

-----------------------------------------------------------------------------
(* A round of the agent's loop (run_once): heartbeat and pull.              *)

\* An offline node is active again.
Heartbeat(w) ==
    /\ phase[w] = "idle"
    /\ node[w] # "revoked"
    /\ node' = [node EXCEPT ![w] = IF @ = "offline" THEN "active" ELSE @]
    /\ fresh' = fresh \cup {w}
    /\ heard' = heard \cup {t \in Tasks : status[t] = "assigned" /\ owner[t] = w}
    /\ GoTo(w, "polled")
    /\ UNCHANGED <<status, owner, unseen, rowVars, handlerVars, recoveryVars,
                   workVars, budget>>

HasRoom(w) == Cardinality({t \in Active : owner[t] = w}) < MaxTasks

\* Authentication, the count of the node's tasks, and the first SELECT of the
\* claim, which fixes its snapshot.
PullTask(w) ==
    /\ phase[w] = "polled"
    /\ node[w] # "revoked"
    /\ IF HasRoom(w)
       THEN /\ pulls' = pulls \cup {[node |-> w, shows |-> Active, waited |-> TRUE]}
            /\ GoTo(w, "pulling")
       ELSE GoTo(w, "idle") /\ UNCHANGED pulls
    /\ UNCHANGED <<taskVars, rowVars, nodeVars, pending, recoveryVars, workVars, budget>>

\* Seeded fault of HasCapacity: off by one.
HasCapacityOneMore(t, shows) ==
    t \in Pooled => Cardinality((shows \cap Pooled) \ {t}) <= PoolMax

HasCapacity(t, shows) ==
    t \in Pooled => Cardinality((shows \cap Pooled) \ {t}) < PoolMax

Claimable(w, shows) ==
    {t \in Tasks : status[t] = "queued" /\ Suits(w, t) /\ HasCapacity(t, shows)}

IsFirst(t, S) == t \in S /\ \A s \in S : t <= s

\* The locking SELECT sees what is queued now, the capacity check the snapshot.
Claim(w, t, shows) ==
    /\ status' = [status EXCEPT ![t] = "assigned"]
    /\ owner' = [owner EXCEPT ![t] = w]
    /\ heard' = heard \ {t}
    /\ unseen' = IF t \in Pooled /\ ~ (Active \cap Pooled) \subseteq shows
                 THEN unseen \cup {t} ELSE unseen \ {t}
    /\ row' = [row EXCEPT ![t] = IF @ = "queued" THEN "fulfilled" ELSE @]
    /\ raced' = IF RowOwed(t) \/ row[t] \in {"ready", "launching"}
                THEN raced \cup {t} ELSE raced

ClaimNextTask(p) ==
    /\ p \in pulls
    /\ pulls' = pulls \ {p}
    /\ \E t \in Tasks :
          /\ IsFirst(t, Claimable(p.node, p.shows))
          /\ Claim(p.node, t, p.shows)
          /\ IF p.waited
             THEN /\ phase' = [phase EXCEPT ![p.node] = "staging"]
                  /\ job' = [job EXCEPT ![p.node] = t]
             ELSE UNCHANGED agentVars
    /\ UNCHANGED <<submitting, cancelVars, nodeVars, pending, recoveryVars, workVars,
                   budget>>

ClaimFindsNothing(p) ==
    /\ p \in pulls
    /\ Claimable(p.node, p.shows) = {}
    /\ pulls' = pulls \ {p}
    /\ IF p.waited THEN GoTo(p.node, "idle") ELSE UNCHANGED agentVars
    /\ UNCHANGED <<taskVars, rowVars, nodeVars, pending, recoveryVars, workVars, budget>>

-----------------------------------------------------------------------------
(* The agent works on its task.  A call of one statement is one step.       *)

DownloadSnapshot(w) ==
    /\ phase[w] = "staging"
    /\ Owned(w, job[w])
    /\ Answer(w, "staged")
    /\ UNCHANGED <<taskVars, rowVars, nodeVars, handlerVars, recoveryVars, workVars>>

\* The script starts when the portal has confirmed the report.
ReportRunning(w) ==
    /\ phase[w] = "staged"
    /\ Owned(w, job[w])
    /\ status' = [status EXCEPT ![job[w]] = "running"]
    /\ Answer(w, "running")
    /\ runs' = IF phase'[w] = "running" THEN [runs EXCEPT ![job[w]] = @ + 1] ELSE runs
    /\ UNCHANGED <<owner, heard, unseen, rowVars, nodeVars, handlerVars,
                   recoveryVars, stored>>

\* The runner has no executor of the task's key: no script, no report of one.
NoExecutor(w) ==
    /\ phase[w] = "staged"
    /\ GoTo(w, "unsuccessful")
    /\ UNCHANGED <<taskVars, rowVars, nodeVars, handlerVars, recoveryVars,
                   workVars, budget>>

\* What an executor makes of a script: its software's preflight and its exit
\* code (or status file) decide; it may also not start at all.
ExecutorOutcomes == {"ran", "unsuccessful", "failing"}

ScriptEnds(w) ==
    /\ phase[w] = "running"
    /\ \E p \in ExecutorOutcomes : GoTo(w, p)
    /\ UNCHANGED <<taskVars, rowVars, nodeVars, handlerVars, recoveryVars,
                   workVars, budget>>

ReportUploading(w) ==
    /\ phase[w] = "ran"
    /\ Owned(w, job[w])
    /\ status' = [status EXCEPT ![job[w]] = "uploading"]
    /\ Answer(w, "uploading")
    /\ UNCHANGED <<owner, heard, unseen, rowVars, nodeVars, handlerVars,
                   recoveryVars, workVars>>

StoreOutput(w) ==
    /\ phase[w] = "uploading"
    /\ Owned(w, job[w])
    /\ stored' = stored \cup {job[w]}
    /\ Answer(w, "uploaded")
    /\ UNCHANGED <<taskVars, rowVars, nodeVars, handlerVars, recoveryVars, runs>>

\* complete_task and fail_task check the task here and write it below.
CompleteChecks(w) ==
    /\ phase[w] = "uploaded"
    /\ Owned(w, job[w])
    /\ pending' = pending \cup {[op |-> "complete", node |-> w, task |-> job[w]]}
    /\ GoTo(w, "ending")
    /\ UNCHANGED <<taskVars, rowVars, nodeVars, pulls, recoveryVars, workVars, budget>>

FailChecks(w) ==
    /\ phase[w] \in {"unsuccessful", "failing"}
    /\ Owned(w, job[w])
    /\ pending' = pending \cup {[op |-> "fail", node |-> w, task |-> job[w]]}
    /\ GoTo(w, IF phase[w] = "failing" THEN "failed" ELSE "ending")
    /\ UNCHANGED <<taskVars, rowVars, nodeVars, pulls, recoveryVars, workVars, budget>>

CallRefused(w) ==
    /\ phase[w] \in CallingPhases
    /\ ~ Owned(w, job[w])
    /\ GoTo(w, AfterError(phase[w]))
    /\ UNCHANGED <<taskVars, rowVars, nodeVars, handlerVars, recoveryVars,
                   workVars, budget>>

AwaitsReport(r) ==
    /\ job[r.node] = r.task
    /\ phase[r.node] \in (IF r.op = "complete" THEN {"ending"} ELSE {"ending", "failed"})

\* The UPDATE is by id alone, whatever the task has become since the check.
EndTask(r) ==
    /\ r \in pending
    /\ pending' = pending \ {r}
    /\ status' = [status EXCEPT ![r.task] =
                    IF r.op = "complete" THEN "succeeded" ELSE "failed"]
    /\ raced' = IF status[r.task] = "queued" \/ RowOwed(r.task)
                THEN raced \cup {r.task} ELSE raced
    /\ IF AwaitsReport(r) THEN GoTo(r.node, "idle") ELSE UNCHANGED agentVars
    /\ UNCHANGED <<owner, heard, unseen, row, submitting, cancelVars, nodeVars, pulls,
                   recoveryVars, workVars, budget>>

-----------------------------------------------------------------------------
(* What goes wrong.                                                         *)

\* Nobody reads the answers of w's handlers any more.
Unwaited(w) ==
    {IF p.node = w THEN [p EXCEPT !.waited = FALSE] ELSE p : p \in pulls}

\* The agent gives up waiting; the handler goes on.
CallTimesOut(w) ==
    /\ phase[w] \in WaitingPhases
    /\ Spend("timeout")
    /\ pulls' = Unwaited(w)
    /\ GoTo(w, AfterError(phase[w]))
    /\ UNCHANGED <<taskVars, rowVars, nodeVars, pending, recoveryVars, workVars>>

\* A request does not reach the portal.
CallLost(w) ==
    /\ phase[w] \in CallingPhases \cup {"polled"}
    /\ Spend("drop")
    /\ GoTo(w, AfterError(phase[w]))
    /\ UNCHANGED <<taskVars, rowVars, nodeVars, handlerVars, recoveryVars, workVars>>

AgentCrashes(w) ==
    /\ phase[w] # "down"
    /\ Spend("crash")
    /\ pulls' = Unwaited(w)
    /\ phase' = [phase EXCEPT ![w] = "down"]
    /\ job' = [job EXCEPT ![w] = None]
    /\ UNCHANGED <<taskVars, rowVars, nodeVars, pending, recoveryVars, workVars>>

AgentRestarts(w) ==
    /\ phase[w] = "down"
    /\ Spend("restart")
    /\ GoTo(w, "idle")
    /\ UNCHANGED <<taskVars, rowVars, nodeVars, handlerVars, recoveryVars, workVars>>

\* 45 seconds pass without a heartbeat of w: not between a heartbeat and the
\* end of the claim that follows it, which take less.
HeartbeatLapses(w) ==
    /\ w \in fresh
    /\ phase[w] # "polled"
    /\ \A p \in pulls : p.node # w
    /\ IF phase[w] = "down" THEN UNCHANGED budget ELSE Spend("lapse")
    /\ fresh' = fresh \ {w}
    /\ UNCHANGED <<taskVars, rowVars, node, handlerVars, recoveryVars, agentVars, workVars>>

RevokeWorkerNode(w) ==
    /\ node[w] # "revoked"
    /\ Spend("revoke")
    /\ node' = [node EXCEPT ![w] = "revoked"]
    /\ UNCHANGED <<taskVars, rowVars, fresh, handlerVars, recoveryVars, agentVars, workVars>>

\* The portal restarts: its handlers and the recovery's locals are gone, and
\* agents that wait get an error.
PortalRestarts ==
    /\ Spend("portal")
    /\ submitting' = {}
    /\ cancelling' = {} /\ cutOff' = cutOff \cup cancelling
    /\ pulls' = {} /\ pending' = {}
    /\ listed' = {} /\ visit' = None /\ lost' = {} /\ rowTodo' = None
    /\ phase' = [w \in Workers |-> IF phase[w] \in WaitingPhases
                                   THEN AfterError(phase[w]) ELSE phase[w]]
    /\ job' = [w \in Workers |-> IF phase'[w] = "idle" THEN None ELSE job[w]]
    /\ UNCHANGED <<taskVars, row, raced, nodeVars, workVars>>

-----------------------------------------------------------------------------
(* The portal's recovery, one loop: reconcile_offline_workers and then      *)
(* recover_stalled_assigned_tasks.                                          *)

RecoveryIdle == listed = {} /\ visit = None /\ lost = {} /\ rowTodo = None

ListStaleNodes ==
    /\ RecoveryIdle
    /\ listed' = {w \in Workers : node[w] = "active" /\ w \notin fresh}
    /\ listed' # {}
    /\ UNCHANGED <<taskVars, rowVars, nodeVars, handlerVars, visit, lost, rowTodo,
                   agentVars, workVars, budget>>

\* Seeded fault of MarkedOffline: a status no other statement knows.
MarkedStale(w) == IF node[w] = "active" THEN "stale" ELSE node[w]

MarkedOffline(w) == IF node[w] = "active" THEN "offline" ELSE node[w]

MarkWorkerOffline(w) ==
    /\ w \in listed /\ visit = None /\ lost = {} /\ rowTodo = None
    /\ listed' = listed \ {w}
    /\ node' = [node EXCEPT ![w] = MarkedOffline(w)]
    /\ visit' = w
    /\ UNCHANGED <<taskVars, rowVars, fresh, handlerVars, lost, rowTodo, agentVars,
                   workVars, budget>>

ListWorkerTasks ==
    /\ visit # None
    /\ visit' = None
    /\ lost' = {[node |-> visit, task |-> t, was |-> status[t]] :
                  t \in {s \in Active : owner[s] = visit}}
    /\ UNCHANGED <<taskVars, rowVars, nodeVars, handlerVars, listed, rowTodo,
                   agentVars, workVars, budget>>

\* A task that was only assigned goes back to the queue, if it still is.
RequeueTask(x) ==
    /\ x \in lost /\ x.was = "assigned" /\ rowTodo = None
    /\ lost' = lost \ {x}
    /\ IF status[x.task] = "assigned" /\ owner[x.task] = x.node
       THEN /\ status' = [status EXCEPT ![x.task] = "queued"]
            /\ owner' = [owner EXCEPT ![x.task] = None]
            /\ rowTodo' = [task |-> x.task, to |-> "queued"]
       ELSE UNCHANGED <<status, owner, rowTodo>>
    /\ UNCHANGED <<heard, unseen, rowVars, nodeVars, handlerVars, listed, visit,
                   agentVars, workVars, budget>>

\* Seeded fault of StartedStates: uploading is forgotten.
StartedStatesButUploading == {"preparing", "running"}

StartedStates == {"preparing", "running", "uploading"}

\* One that had started fails.
FailLostTask(x) ==
    /\ x \in lost /\ x.was # "assigned" /\ rowTodo = None
    /\ lost' = lost \ {x}
    /\ IF status[x.task] \in StartedStates /\ owner[x.task] = x.node
       THEN /\ status' = [status EXCEPT ![x.task] = "failed"]
            /\ rowTodo' = [task |-> x.task, to |-> "cancelled"]
       ELSE UNCHANGED <<status, rowTodo>>
    /\ UNCHANGED <<owner, heard, unseen, rowVars, nodeVars, handlerVars, listed, visit,
                   agentVars, workVars, budget>>

\* The task's row follows, whatever it is now.
RecoverRow ==
    /\ rowTodo # None
    /\ rowTodo' = None
    /\ row' = [row EXCEPT ![rowTodo.task] = IF @ = "absent" THEN @ ELSE rowTodo.to]
    /\ UNCHANGED <<taskVars, submitting, raced, cancelVars, nodeVars, handlerVars, listed,
                   visit, lost, agentVars, workVars, budget>>

\* Seeded fault of Stalled: nothing is.
StalledNever(t) == FALSE

\* Assigned long ago, though the agent has begun a new round since.
Stalled(t) == status[t] = "assigned" /\ t \in heard /\ node[owner[t]] = "active"

FailStalledTask(t) ==
    /\ RecoveryIdle
    /\ Stalled(t)
    /\ status' = [status EXCEPT ![t] = "failed"]
    /\ UNCHANGED <<owner, heard, unseen, rowVars, nodeVars, handlerVars, recoveryVars,
                   agentVars, workVars, budget>>

-----------------------------------------------------------------------------
User == \E t \in Tasks :
    \/ SubmitTask(t)
    \/ InsertTaskQueue(t)
    \/ CancelQueuedTask(t)
    \/ CancelTaskRow(t)
    \/ PoolMovesRow(t)

Poll(w) == Heartbeat(w) \/ PullTask(w)

Work(w) ==
    \/ DownloadSnapshot(w)
    \/ ReportRunning(w)
    \/ NoExecutor(w)
    \/ ScriptEnds(w)
    \/ ReportUploading(w)
    \/ StoreOutput(w)
    \/ CompleteChecks(w)
    \/ FailChecks(w)
    \/ CallRefused(w)

Handle(w) ==
    \/ \E p \in pulls : p.node = w /\ (ClaimNextTask(p) \/ ClaimFindsNothing(p))
    \/ \E r \in pending : r.node = w /\ EndTask(r)

Fault ==
    \/ \E w \in Workers :
          \/ CallTimesOut(w)
          \/ CallLost(w)
          \/ AgentCrashes(w)
          \/ AgentRestarts(w)
          \/ HeartbeatLapses(w)
          \/ RevokeWorkerNode(w)
    \/ PortalRestarts

Reconcile ==
    \/ ListStaleNodes
    \/ \E w \in Workers : MarkWorkerOffline(w)
    \/ ListWorkerTasks
    \/ \E x \in lost : RequeueTask(x) \/ FailLostTask(x)
    \/ RecoverRow

FailStalled == \E t \in Tasks : FailStalledTask(t)

Next ==
    \/ User
    \/ \E w \in Workers : Poll(w) \/ Work(w) \/ Handle(w)
    \/ Fault
    \/ Reconcile
    \/ FailStalled

Spec == Init /\ [][Next]_vars

\* Agents loop, handlers finish, the recovery runs every round, and the
\* heartbeat of an agent that is down grows old.
FairSpec ==
    /\ Spec
    /\ \A w \in Workers : WF_vars(Poll(w)) /\ WF_vars(Work(w)) /\ WF_vars(Handle(w))
    /\ \A w \in Workers : WF_vars(phase[w] = "down" /\ HeartbeatLapses(w))
    /\ WF_vars(Reconcile)
    /\ SF_vars(FailStalled)

-----------------------------------------------------------------------------
(* Safety.                                                                  *)

\* Two claims that overlap count the same snapshot and overfill the pool
\* (unseen has the tasks claimed so).  Nothing else does:
\* requeues, stray pull handlers and late reports keep the pool's tasks within
\* max_concurrent (_pool_has_capacity).
TasksWithinPoolCap == Cardinality((Active \cap Pooled) \ unseen) <= PoolMax

\* A task's script is started at most once, though the task may be requeued
\* under an agent that has already fetched it (requeue_task_after_worker_loss
\* against update_task_status_for_worker).
ExecutedOnce == \A t \in Tasks : runs[t] <= 1

\* A task that succeeded has been run and its output is there, whatever
\* answers were lost and whoever gave up on it meanwhile (complete_task).
SucceededTasksRan ==
    \A t \in Tasks : status[t] = "succeeded" => runs[t] = 1 /\ t \in stored

\* When a task has ended, its launch_queue row is not live any more and takes
\* no place in the pool's queue (cancel_queued_task, the claim's fulfilment,
\* fail_task_after_worker_loss).  Exempt are a cancel that has not reached the
\* row, or never will because the portal ended between its two statements
\* (cutOff), and the rows of raced: the task was claimed when the dispatcher had
\* made the row ready, or it was claimed, cancelled or ended before its
\* submission or a requeue had written the row.
EndedTasksLeaveQueue ==
    \A t \in Ended \ (raced \cup cancelling \cup cutOff) : row[t] \notin LiveRowStates

(* Liveness.                                                                *)

\* Every queued task ends, although calls time out and heartbeats lapse: a
\* claim nobody heard of is found by the recovery of stalled tasks.
TasksEnd == \A t \in Tasks : status[t] = "queued" ~> status[t] \in EndStates

\* A worker that died leaves its tasks: they are requeued or failed
\* (reconcile_offline_workers).
TasksLeaveDeadWorkers ==
    \A t \in Tasks, w \in Workers :
        ~ <>[](phase[w] = "down" /\ owner[t] = w /\ status[t] \in ActiveStates)

=============================================================================
