--------------------------- MODULE WorkerTasksProofs ---------------------------
(***************************************************************************)
(* Theorems about WorkerTasks, for every number of tasks and workers and   *)
(* every bound: its type invariant, the pool's cap, and that a script is   *)
(* started at most once.                                                   *)
(***************************************************************************)
EXTENDS WorkerTasks, FiniteSetTheorems, TLAPS

-----------------------------------------------------------------------------
(* Type correctness.                                                        *)

\* Where an error may take the agent.
LEMMA ErrorPhases == \A p : AfterError(p) \in {"idle", "failing"} /\ AfterError(p) \in Phases
BY DEF AfterError, Phases, CallingPhases

\* Spending and moving an agent keep the types.
LEMMA SpendTypes ==
    ASSUME TypeOK, NEW k \in Kinds, Spend(k)
    PROVE  budget' \in [Kinds -> Nat]
BY DEF TypeOK, Spend

LEMMA GoToTypes ==
    ASSUME TypeOK, NEW w \in Workers, NEW p \in Phases, GoTo(w, p)
    PROVE  phase' \in [Workers -> Phases] /\ job' \in [Workers -> Tasks \cup {None}]
BY DEF TypeOK, GoTo

LEMMA AnswerTypes ==
    ASSUME TypeOK, NEW w \in Workers, NEW p \in Phases, Answer(w, p)
    PROVE  /\ phase' \in [Workers -> Phases]
           /\ job' \in [Workers -> Tasks \cup {None}]
           /\ budget' \in [Kinds -> Nat]
<1>1. "timeout" \in Kinds
    BY DEF Kinds
<1>2. AfterError(phase[w]) \in Phases
    BY ErrorPhases DEF TypeOK
<1>3. CASE GoTo(w, p) /\ UNCHANGED budget
    BY <1>3, GoToTypes DEF TypeOK
<1>4. CASE GoTo(w, AfterError(phase[w])) /\ Spend("timeout")
    BY <1>1, <1>2, <1>4, GoToTypes, SpendTypes
<1> QED
    BY <1>3, <1>4 DEF Answer

LEMMA InitTypes == Init => TypeOK
BY SizesAssumption
   DEF Init, TypeOK, TaskStates, RowStates, NodeStates, Phases

\* Users and the pool keep the types.
LEMMA UserTypes ==
    ASSUME TypeOK, User
    PROVE  TypeOK'
<1>1. PICK t \in Tasks : \/ SubmitTask(t) \/ InsertTaskQueue(t) \/ CancelQueuedTask(t)
                        \/ CancelTaskRow(t) \/ PoolMovesRow(t)
    BY DEF User
<1>2. CASE SubmitTask(t)
    BY <1>2 DEF SubmitTask, TypeOK, TaskStates, cancelVars, nodeVars, handlerVars, recoveryVars,
                agentVars, workVars
<1>3. CASE InsertTaskQueue(t)
    BY <1>3 DEF InsertTaskQueue, TypeOK, RowStates, LiveRowStates, cancelVars, taskVars,
                nodeVars, handlerVars,
                recoveryVars, agentVars, workVars
<1>4. CASE CancelQueuedTask(t)
    <2>1. budget' \in [Kinds -> Nat]
        BY <1>4, SpendTypes DEF CancelQueuedTask, Kinds
    <2> QED
        BY <1>4, <2>1
           DEF CancelQueuedTask, TypeOK, TaskStates, EndStates, nodeVars, handlerVars,
               recoveryVars, agentVars, workVars
<1>6. CASE CancelTaskRow(t)
    <2>1. CancelledRow(t) \in RowStates
        BY DEF CancelledRow, TypeOK, RowStates
    <2> QED
        BY <1>6, <2>1
           DEF CancelTaskRow, TypeOK, taskVars, nodeVars, handlerVars, recoveryVars,
               agentVars, workVars
<1>5. CASE PoolMovesRow(t)
    <2>1. budget' \in [Kinds -> Nat]
        BY <1>5, SpendTypes DEF PoolMovesRow, Kinds
    <2> QED
        BY <1>5, <2>1
           DEF PoolMovesRow, TypeOK, cancelVars, taskVars, nodeVars, handlerVars,
               recoveryVars, agentVars, workVars
<1> QED
    BY <1>1, <1>2, <1>3, <1>4, <1>5, <1>6

\* The agents' loop keeps the types.
LEMMA PollTypes ==
    ASSUME TypeOK, NEW w \in Workers, Poll(w)
    PROVE  TypeOK'
<1>0. "polled" \in Phases /\ "pulling" \in Phases /\ "idle" \in Phases
    BY DEF Phases, WaitingPhases
<1>1. CASE Heartbeat(w)
    <2>1. phase' \in [Workers -> Phases] /\ job' \in [Workers -> Tasks \cup {None}]
        BY <1>0, <1>1, GoToTypes DEF Heartbeat
    <2> QED
        BY <1>1, <2>1
           DEF Heartbeat, TypeOK, NodeStates, rowVars, cancelVars, handlerVars, recoveryVars, workVars
<1>2. CASE PullTask(w)
    <2>1. phase' \in [Workers -> Phases] /\ job' \in [Workers -> Tasks \cup {None}]
        BY <1>0, <1>2, GoToTypes DEF PullTask
    <2>2. [node |-> w, shows |-> Active, waited |-> TRUE] \in Pulls
        BY DEF Pulls, Active
    <2> QED
        BY <1>2, <2>1, <2>2
           DEF PullTask, TypeOK, taskVars, rowVars, cancelVars, nodeVars, recoveryVars, workVars
<1> QED
    BY <1>1, <1>2 DEF Poll

LEMMA WorkTypes ==
    ASSUME TypeOK, NEW w \in Workers, Work(w)
    PROVE  TypeOK'
<1> USE DEF TypeOK
<1>0. {"staged", "running", "uploading", "uploaded", "ending", "failed", "ran",
      "unsuccessful"} \subseteq Phases /\ ExecutorOutcomes \subseteq Phases
    BY DEF Phases, WaitingPhases, CallingPhases, ExecutorOutcomes
<1>1. CASE DownloadSnapshot(w)
    BY <1>0, <1>1, AnswerTypes
       DEF DownloadSnapshot, taskVars, rowVars, cancelVars, nodeVars, handlerVars, recoveryVars,
           workVars
<1>2. CASE ReportRunning(w)
    BY <1>0, <1>2, AnswerTypes
       DEF ReportRunning, Owned, TaskStates, ActiveStates, rowVars, cancelVars, nodeVars,
           handlerVars, recoveryVars
<1>3. CASE ScriptEnds(w)
    BY <1>0, <1>3, GoToTypes
       DEF ScriptEnds, taskVars, rowVars, cancelVars, nodeVars, handlerVars, recoveryVars, workVars
<1>4. CASE ReportUploading(w)
    BY <1>0, <1>4, AnswerTypes
       DEF ReportUploading, TaskStates, ActiveStates, rowVars, cancelVars, nodeVars, handlerVars,
           recoveryVars, workVars
<1>5. CASE StoreOutput(w)
    BY <1>0, <1>5, AnswerTypes
       DEF StoreOutput, Owned, taskVars, rowVars, cancelVars, nodeVars, handlerVars, recoveryVars
<1>6. CASE CompleteChecks(w)
    <2>1. [op |-> "complete", node |-> w, task |-> job[w]] \in Reports
        BY <1>6 DEF CompleteChecks, Owned, Reports
    <2> QED
        BY <1>0, <1>6, <2>1, GoToTypes
           DEF CompleteChecks, taskVars, rowVars, cancelVars, nodeVars, recoveryVars, workVars
<1>7. CASE FailChecks(w)
    <2>1. [op |-> "fail", node |-> w, task |-> job[w]] \in Reports
        BY <1>7 DEF FailChecks, Owned, Reports
    <2> QED
        BY <1>0, <1>7, <2>1, GoToTypes
           DEF FailChecks, taskVars, rowVars, cancelVars, nodeVars, recoveryVars, workVars
<1>8. CASE CallRefused(w)
    <2>1. AfterError(phase[w]) \in Phases
        BY ErrorPhases
    <2> QED
        BY <1>8, <2>1, GoToTypes
           DEF CallRefused, taskVars, rowVars, cancelVars, nodeVars, handlerVars, recoveryVars,
               workVars
<1>9. CASE NoExecutor(w)
    BY <1>0, <1>9, GoToTypes
       DEF NoExecutor, taskVars, rowVars, cancelVars, nodeVars, handlerVars, recoveryVars, workVars
<1> QED
    BY <1>1, <1>2, <1>3, <1>4, <1>5, <1>6, <1>7, <1>8, <1>9 DEF Work

\* So do the handlers that go on by themselves.
LEMMA HandleTypes ==
    ASSUME TypeOK, NEW w \in Workers, Handle(w)
    PROVE  TypeOK'
<1> USE DEF TypeOK
<1>0. "idle" \in Phases /\ "staging" \in Phases
    BY DEF Phases, CallingPhases
<1>1. ASSUME NEW p \in pulls, ClaimNextTask(p)
      PROVE  TypeOK'
    <2>1. p.node \in Workers
        BY DEF Pulls
    <2>2. PICK t \in Tasks : /\ IsFirst(t, Claimable(p.node, p.shows))
                             /\ Claim(p.node, t, p.shows)
                             /\ IF p.waited
                                THEN /\ phase' = [phase EXCEPT ![p.node] = "staging"]
                                     /\ job' = [job EXCEPT ![p.node] = t]
                                ELSE UNCHANGED agentVars
        BY <1>1 DEF ClaimNextTask
    <2>3. phase' \in [Workers -> Phases] /\ job' \in [Workers -> Tasks \cup {None}]
        BY <1>0, <2>2 DEF agentVars
    <2>4. pulls' \subseteq Pulls
        BY <1>1 DEF ClaimNextTask
    <2>5. /\ status' \in [Tasks -> TaskStates]
          /\ owner' \in [Tasks -> Workers \cup {None}]
          /\ heard' \subseteq Tasks /\ unseen' \subseteq Tasks /\ raced' \subseteq Tasks
          /\ row' \in [Tasks -> RowStates]
        BY <2>1, <2>2 DEF Claim, TaskStates, ActiveStates, RowStates
    <2> QED
        BY <1>1, <2>3, <2>4, <2>5
           DEF ClaimNextTask, cancelVars, nodeVars, recoveryVars, workVars
<1>2. ASSUME NEW p \in pulls, ClaimFindsNothing(p)
      PROVE  TypeOK'
    <2>1. p.node \in Workers
        BY DEF Pulls
    <2>2. phase' \in [Workers -> Phases] /\ job' \in [Workers -> Tasks \cup {None}]
        BY <1>0, <1>2, <2>1, GoToTypes DEF ClaimFindsNothing, agentVars
    <2> QED
        BY <1>2, <2>2
           DEF ClaimFindsNothing, taskVars, rowVars, cancelVars, nodeVars, recoveryVars, workVars
<1>3. ASSUME NEW r \in pending, EndTask(r)
      PROVE  TypeOK'
    <2>1. r.node \in Workers /\ r.task \in Tasks
        BY DEF Reports
    <2>2. phase' \in [Workers -> Phases] /\ job' \in [Workers -> Tasks \cup {None}]
        BY <1>0, <1>3, <2>1, GoToTypes DEF EndTask, agentVars
    <2> QED
        BY <1>3, <2>1, <2>2
           DEF EndTask, TaskStates, EndStates, cancelVars, nodeVars, recoveryVars, workVars
<1> QED
    BY <1>1, <1>2, <1>3 DEF Handle

\* What goes wrong keeps the types.
LEMMA FaultTypes ==
    ASSUME TypeOK, Fault
    PROVE  TypeOK'
<1> USE DEF TypeOK
<1>0. /\ "idle" \in Phases /\ "down" \in Phases
      /\ \A p \in Phases : AfterError(p) \in Phases
    BY ErrorPhases DEF Phases
<1>1. \A w \in Workers : Unwaited(w) \subseteq Pulls
    BY DEF Unwaited, Pulls
<1>2. ASSUME NEW w \in Workers, CallTimesOut(w)
      PROVE  TypeOK'
    <2>1. budget' \in [Kinds -> Nat]
        BY <1>2, SpendTypes DEF CallTimesOut, Kinds
    <2> QED
        BY <1>0, <1>1, <1>2, <2>1, GoToTypes
           DEF CallTimesOut, taskVars, rowVars, cancelVars, nodeVars, recoveryVars, workVars
<1>3. ASSUME NEW w \in Workers, CallLost(w)
      PROVE  TypeOK'
    <2>1. budget' \in [Kinds -> Nat]
        BY <1>3, SpendTypes DEF CallLost, Kinds
    <2> QED
        BY <1>0, <1>3, <2>1, GoToTypes
           DEF CallLost, taskVars, rowVars, cancelVars, nodeVars, handlerVars, recoveryVars, workVars
<1>4. ASSUME NEW w \in Workers, AgentCrashes(w)
      PROVE  TypeOK'
    <2>1. budget' \in [Kinds -> Nat]
        BY <1>4, SpendTypes DEF AgentCrashes, Kinds
    <2> QED
        BY <1>0, <1>1, <1>4, <2>1
           DEF AgentCrashes, taskVars, rowVars, cancelVars, nodeVars, recoveryVars, workVars
<1>5. ASSUME NEW w \in Workers, AgentRestarts(w)
      PROVE  TypeOK'
    <2>1. budget' \in [Kinds -> Nat]
        BY <1>5, SpendTypes DEF AgentRestarts, Kinds
    <2> QED
        BY <1>0, <1>5, <2>1, GoToTypes
           DEF AgentRestarts, taskVars, rowVars, cancelVars, nodeVars, handlerVars, recoveryVars,
               workVars
<1>6. ASSUME NEW w \in Workers, HeartbeatLapses(w)
      PROVE  TypeOK'
    <2>1. budget' \in [Kinds -> Nat]
        BY <1>6, SpendTypes DEF HeartbeatLapses, Kinds
    <2> QED
        BY <1>6, <2>1
           DEF HeartbeatLapses, taskVars, rowVars, cancelVars, handlerVars, recoveryVars,
               agentVars, workVars
<1>7. ASSUME NEW w \in Workers, RevokeWorkerNode(w)
      PROVE  TypeOK'
    <2>1. budget' \in [Kinds -> Nat]
        BY <1>7, SpendTypes DEF RevokeWorkerNode, Kinds
    <2> QED
        BY <1>7, <2>1
           DEF RevokeWorkerNode, NodeStates, taskVars, rowVars, cancelVars, handlerVars, recoveryVars,
               agentVars, workVars
<1>8. CASE PortalRestarts
    <2>1. budget' \in [Kinds -> Nat]
        BY <1>8, SpendTypes DEF PortalRestarts, Kinds
    <2>2. phase' \in [Workers -> Phases] /\ job' \in [Workers -> Tasks \cup {None}]
        BY <1>0, <1>8 DEF PortalRestarts
    <2> QED
        BY <1>8, <2>1, <2>2 DEF PortalRestarts, taskVars, nodeVars, workVars
<1> QED
    BY <1>2, <1>3, <1>4, <1>5, <1>6, <1>7, <1>8 DEF Fault

\* The recovery keeps the types.
LEMMA ReconcileTypes ==
    ASSUME TypeOK, Reconcile \/ FailStalled
    PROVE  TypeOK'
<1> USE DEF TypeOK
<1>1. CASE ListStaleNodes
    BY <1>1 DEF ListStaleNodes, taskVars, rowVars, cancelVars, nodeVars, handlerVars, agentVars,
                workVars
<1>2. ASSUME NEW w \in Workers, MarkWorkerOffline(w)
      PROVE  TypeOK'
    BY <1>2 DEF MarkWorkerOffline, MarkedOffline, NodeStates, taskVars, rowVars, cancelVars,
                handlerVars,
                agentVars, workVars
<1>3. CASE ListWorkerTasks
    <2>1. lost' \subseteq [node : Workers, task : Tasks, was : ActiveStates]
        BY <1>3 DEF ListWorkerTasks, Active
    <2> QED
        BY <1>3, <2>1
           DEF ListWorkerTasks, taskVars, rowVars, cancelVars, nodeVars, handlerVars, agentVars,
               workVars
<1>4. ASSUME NEW x \in lost, RequeueTask(x)
      PROVE  TypeOK'
    <2>1. x.task \in Tasks
        OBVIOUS
    <2>2. [task |-> x.task, to |-> "queued"] \in RowWrites
        BY <2>1 DEF RowWrites
    <2> QED
        BY <1>4, <2>1, <2>2
           DEF RequeueTask, TaskStates, rowVars, cancelVars, nodeVars, handlerVars, agentVars,
               workVars
<1>5. ASSUME NEW x \in lost, FailLostTask(x)
      PROVE  TypeOK'
    <2>1. x.task \in Tasks
        OBVIOUS
    <2>2. [task |-> x.task, to |-> "cancelled"] \in RowWrites
        BY <2>1 DEF RowWrites
    <2> QED
        BY <1>5, <2>1, <2>2
           DEF FailLostTask, TaskStates, EndStates, rowVars, cancelVars, nodeVars, handlerVars,
               agentVars, workVars
<1>6. CASE RecoverRow
    <2>1. rowTodo.task \in Tasks /\ rowTodo.to \in RowStates
        BY <1>6 DEF RecoverRow, RowWrites, RowStates, LiveRowStates
    <2> QED
        BY <1>6, <2>1 DEF RecoverRow, cancelVars, taskVars, nodeVars, handlerVars, agentVars, workVars
<1>7. ASSUME NEW t \in Tasks, FailStalledTask(t)
      PROVE  TypeOK'
    BY <1>7 DEF FailStalledTask, TaskStates, EndStates, rowVars, cancelVars, nodeVars, handlerVars,
                recoveryVars, agentVars, workVars
<1> QED
    BY <1>1, <1>2, <1>3, <1>4, <1>5, <1>6, <1>7 DEF Reconcile, FailStalled

LEMMA NextTypes == TypeOK /\ [Next]_vars => TypeOK'
<1> SUFFICES ASSUME TypeOK, [Next]_vars
             PROVE  TypeOK'
    OBVIOUS
<1>1. CASE Next
    BY <1>1, UserTypes, PollTypes, WorkTypes, HandleTypes, FaultTypes, ReconcileTypes DEF Next
<1>2. CASE UNCHANGED vars
    BY <1>2 DEF vars, TypeOK
<1> QED
    BY <1>1, <1>2

\* Every variable keeps its type, for any number of tasks and workers: reports
\* that outlive their agent are about tasks, and what the recovery carries from
\* one statement to the next stays what it was.
THEOREM TypeCorrect == Spec => []TypeOK
<1> QED
    BY InitTypes, NextTypes, PTL DEF Spec

-----------------------------------------------------------------------------
(* Scripts are started once.  The portal lets only its owner report a task  *)
(* running, and an agent asks for that before it starts the script.  So a   *)
(* task that was never started is one that was never reported running, and  *)
(* an agent that has yet to report its task finds it assigned, or not its   *)
(* own any more.                                                            *)

NotStarted ==
    \A t \in Tasks : status[t] \in {"absent", "queued", "assigned"} => runs[t] = 0

Fetching(w) == phase[w] \in {"staging", "staged"}

FetchedTaskIsAssigned ==
    \A w \in Workers, t \in Tasks :
        Fetching(w) /\ job[w] = t /\ owner[t] = w /\ status[t] \in ActiveStates
            => status[t] = "assigned"

RunsInv ==
    /\ TypeOK
    /\ NotStarted
    /\ FetchedTaskIsAssigned
    /\ ExecutedOnce

\* A step that starts no script, reports no progress and hands out no task.
Calm ==
    /\ runs' = runs
    /\ \A t \in Tasks :
          /\ \/ status'[t] = status[t]
             \/ status'[t] \in EndStates
             \/ status'[t] = "queued" /\ status[t] \in {"absent", "assigned"}
          /\ owner'[t] = owner[t] \/ owner'[t] = None
    /\ \A w \in Workers : Fetching(w)' => Fetching(w) /\ job'[w] = job[w]

LEMMA CalmKeepsRuns ==
    ASSUME RunsInv, TypeOK', Calm
    PROVE  RunsInv'
<1>1. NotStarted'
    BY DEF RunsInv, NotStarted, Calm, EndStates
<1>2. FetchedTaskIsAssigned'
    <2> SUFFICES ASSUME NEW w \in Workers, NEW t \in Tasks, Fetching(w)', job'[w] = t,
                        owner'[t] = w, status'[t] \in ActiveStates
                 PROVE  status'[t] = "assigned"
        BY DEF FetchedTaskIsAssigned
    <2>1. Fetching(w) /\ job[w] = t
        BY DEF Calm
    <2>2. owner[t] = w
        BY SizesAssumption DEF Calm
    <2>3. status'[t] = status[t]
        BY DEF Calm, EndStates, ActiveStates
    <2> QED
        BY <2>1, <2>2, <2>3 DEF RunsInv, FetchedTaskIsAssigned
<1>3. ExecutedOnce'
    BY DEF RunsInv, ExecutedOnce, Calm
<1> QED
    BY <1>1, <1>2, <1>3 DEF RunsInv

\* An agent that moves on or meets an error is not fetching, except from one
\* phase of it to the next.
LEMMA CalmAgent ==
    ASSUME TypeOK, NEW w \in Workers, NEW p, GoTo(w, p),
           p \in {"staging", "staged"} => p = "staged" /\ phase[w] = "staging"
    PROVE  \A v \in Workers : Fetching(v)' => Fetching(v) /\ job'[v] = job[v]
BY DEF TypeOK, GoTo, Fetching

LEMMA CalmUser ==
    ASSUME TypeOK, User
    PROVE  Calm
BY DEF User, SubmitTask, InsertTaskQueue, CancelQueuedTask, CancelTaskRow, PoolMovesRow, IsNextTask, Calm, TypeOK,
       EndStates, Fetching, taskVars, agentVars, workVars

LEMMA CalmPoll ==
    ASSUME TypeOK, NEW w \in Workers, Poll(w)
    PROVE  Calm
<1>1. CASE Heartbeat(w)
    <2>1. GoTo(w, "polled")
        BY <1>1 DEF Heartbeat
    <2> QED
        BY <1>1, <2>1, CalmAgent DEF Heartbeat, Calm, workVars
<1>2. CASE PullTask(w)
    <2>1. GoTo(w, "pulling") \/ GoTo(w, "idle")
        BY <1>2 DEF PullTask
    <2> QED
        BY <1>2, <2>1, CalmAgent DEF PullTask, Calm, taskVars, workVars
<1> QED
    BY <1>1, <1>2 DEF Poll

LEMMA CalmWork ==
    ASSUME TypeOK, NEW w \in Workers, Work(w), ~ ReportRunning(w), ~ ReportUploading(w)
    PROVE  Calm
<1>1. CASE DownloadSnapshot(w)
    <2>1. GoTo(w, "staged") \/ GoTo(w, AfterError(phase[w]))
        BY <1>1 DEF DownloadSnapshot, Answer
    <2> QED
        BY <1>1, <2>1, CalmAgent, ErrorPhases DEF DownloadSnapshot, Calm, taskVars, workVars
<1>2. CASE ScriptEnds(w)
    <2>1. GoTo(w, "ran") \/ GoTo(w, "unsuccessful") \/ GoTo(w, "failing")
        BY <1>2 DEF ScriptEnds, ExecutorOutcomes
    <2> QED
        BY <1>2, <2>1, CalmAgent DEF ScriptEnds, Calm, taskVars, workVars
<1>3. CASE StoreOutput(w)
    <2>1. GoTo(w, "uploaded") \/ GoTo(w, AfterError(phase[w]))
        BY <1>3 DEF StoreOutput, Answer
    <2> QED
        BY <1>3, <2>1, CalmAgent, ErrorPhases DEF StoreOutput, Calm, taskVars
<1>4. CASE CompleteChecks(w)
    <2>1. GoTo(w, "ending")
        BY <1>4 DEF CompleteChecks
    <2> QED
        BY <1>4, <2>1, CalmAgent DEF CompleteChecks, Calm, taskVars, workVars
<1>5. CASE FailChecks(w)
    <2>1. GoTo(w, "failed") \/ GoTo(w, "ending")
        BY <1>5 DEF FailChecks
    <2> QED
        BY <1>5, <2>1, CalmAgent DEF FailChecks, Calm, taskVars, workVars
<1>6. CASE CallRefused(w)
    <2>1. GoTo(w, AfterError(phase[w]))
        BY <1>6 DEF CallRefused
    <2> QED
        BY <1>6, <2>1, CalmAgent, ErrorPhases DEF CallRefused, Calm, taskVars, workVars
<1>7. CASE NoExecutor(w)
    <2>1. GoTo(w, "unsuccessful")
        BY <1>7 DEF NoExecutor
    <2> QED
        BY <1>7, <2>1, CalmAgent DEF NoExecutor, Calm, taskVars, workVars
<1> QED
    BY <1>1, <1>2, <1>3, <1>4, <1>5, <1>6, <1>7 DEF Work

LEMMA CalmHandle ==
    ASSUME TypeOK, NEW w \in Workers, Handle(w), ~ \E p \in pulls : ClaimNextTask(p)
    PROVE  Calm
<1>1. ASSUME NEW p \in pulls, ClaimFindsNothing(p)
      PROVE  Calm
    <2>1. p.node \in Workers
        BY DEF TypeOK, Pulls
    <2>2. GoTo(p.node, "idle") \/ UNCHANGED agentVars
        BY <1>1 DEF ClaimFindsNothing
    <2> QED
        BY <1>1, <2>1, <2>2, CalmAgent
           DEF ClaimFindsNothing, Calm, Fetching, agentVars, taskVars, workVars
<1>2. ASSUME NEW r \in pending, EndTask(r)
      PROVE  Calm
    <2>1. r.node \in Workers /\ r.task \in Tasks
        BY DEF TypeOK, Reports
    <2>2. GoTo(r.node, "idle") \/ UNCHANGED agentVars
        BY <1>2 DEF EndTask
    <2>3. \A v \in Workers : Fetching(v)' => Fetching(v) /\ job'[v] = job[v]
        BY <2>1, <2>2, CalmAgent DEF Fetching, agentVars
    <2> QED
        BY <1>2, <2>1, <2>3 DEF EndTask, EndStates, Calm, TypeOK, workVars
<1> QED
    BY <1>1, <1>2 DEF Handle

LEMMA CalmFault ==
    ASSUME TypeOK, Fault
    PROVE  Calm
<1>1. ASSUME NEW w \in Workers, CallTimesOut(w) \/ CallLost(w) \/ AgentRestarts(w)
      PROVE  Calm
    <2>1. GoTo(w, AfterError(phase[w])) \/ GoTo(w, "idle")
        BY <1>1 DEF CallTimesOut, CallLost, AgentRestarts
    <2> QED
        BY <1>1, <2>1, CalmAgent, ErrorPhases
           DEF CallTimesOut, CallLost, AgentRestarts, Calm, taskVars, workVars
<1>2. ASSUME NEW w \in Workers,
             AgentCrashes(w) \/ HeartbeatLapses(w) \/ RevokeWorkerNode(w)
      PROVE  Calm
    BY <1>2 DEF AgentCrashes, HeartbeatLapses, RevokeWorkerNode, Calm, Fetching, TypeOK,
                taskVars, agentVars, workVars
<1>3. CASE PortalRestarts
    BY <1>3, ErrorPhases DEF PortalRestarts, WaitingPhases, Calm, Fetching, TypeOK, taskVars, workVars
<1> QED
    BY <1>1, <1>2, <1>3 DEF Fault

LEMMA CalmReconcile ==
    ASSUME TypeOK, Reconcile \/ FailStalled
    PROVE  Calm
<1>1. \A x \in lost : x.task \in Tasks
    BY DEF TypeOK
<1>2. ASSUME NEW x \in lost, RequeueTask(x)
      PROVE  Calm
    BY <1>1, <1>2 DEF RequeueTask, Calm, Fetching, TypeOK, agentVars, workVars
<1>3. ASSUME NEW x \in lost, FailLostTask(x)
      PROVE  Calm
    BY <1>1, <1>3 DEF FailLostTask, EndStates, Calm, Fetching, TypeOK, agentVars, workVars
<1>4. CASE FailStalled
    BY <1>4 DEF FailStalled, FailStalledTask, EndStates, Calm, Fetching, TypeOK, agentVars, workVars
<1>5. CASE ListStaleNodes \/ (\E w \in Workers : MarkWorkerOffline(w)) \/ ListWorkerTasks \/ RecoverRow
    BY <1>5 DEF ListStaleNodes, MarkWorkerOffline, ListWorkerTasks, RecoverRow, Calm, Fetching,
                taskVars, agentVars, workVars
<1> QED
    BY <1>2, <1>3, <1>4, <1>5 DEF Reconcile

\* A claim hands out a queued task, which is then assigned.
LEMMA ClaimKeepsRuns ==
    ASSUME RunsInv, TypeOK', NEW p \in pulls, ClaimNextTask(p)
    PROVE  RunsInv'
<1> USE DEF TypeOK
<1>0. p.node \in Workers
    BY DEF RunsInv, Pulls
<1>1. PICK t \in Tasks : /\ t \in Claimable(p.node, p.shows)
                         /\ Claim(p.node, t, p.shows)
                         /\ IF p.waited
                            THEN /\ phase' = [phase EXCEPT ![p.node] = "staging"]
                                 /\ job' = [job EXCEPT ![p.node] = t]
                            ELSE UNCHANGED agentVars
    BY DEF ClaimNextTask, IsFirst
<1>2. /\ status[t] = "queued"
      /\ status' = [status EXCEPT ![t] = "assigned"]
      /\ owner' = [owner EXCEPT ![t] = p.node]
      /\ runs' = runs
    BY <1>1 DEF Claimable, Claim, ClaimNextTask, workVars
<1>3. NotStarted' /\ ExecutedOnce'
    BY <1>2 DEF RunsInv, NotStarted, ExecutedOnce
<1>4. FetchedTaskIsAssigned'
    <2> SUFFICES ASSUME NEW w \in Workers, NEW s \in Tasks, Fetching(w)', job'[w] = s,
                        owner'[s] = w, status'[s] \in ActiveStates
                 PROVE  status'[s] = "assigned"
        BY DEF FetchedTaskIsAssigned
    <2>1. CASE s = t
        BY <1>2, <2>1 DEF RunsInv
    <2>2. CASE s # t
        <3>1. Fetching(w) /\ job[w] = s
            BY <1>0, <1>1, <2>2 DEF RunsInv, Fetching, agentVars
        <3>2. owner[s] = w /\ status'[s] = status[s]
            BY <1>2, <2>2 DEF RunsInv
        <3> QED
            BY <3>1, <3>2 DEF RunsInv, FetchedTaskIsAssigned
    <2> QED
        BY <2>1, <2>2
<1> QED
    BY <1>3, <1>4 DEF RunsInv

\* The owner of an assigned task reports that it starts it, and stops fetching.
LEMMA ReportRunningKeepsRuns ==
    ASSUME RunsInv, TypeOK', NEW w \in Workers, ReportRunning(w)
    PROVE  RunsInv'
<1> USE DEF TypeOK
<1>1. PICK t \in Tasks : t = job[w] /\ owner[t] = w /\ status[t] \in ActiveStates
    BY DEF ReportRunning, Owned
<1>2. phase[w] = "staged" /\ status[t] = "assigned" /\ runs[t] = 0
    BY <1>1 DEF ReportRunning, RunsInv, FetchedTaskIsAssigned, NotStarted, Fetching
<1>3. /\ status' = [status EXCEPT ![t] = "running"]
      /\ owner' = owner
      /\ runs' = [runs EXCEPT ![t] = @ + 1] \/ runs' = runs
    BY <1>1 DEF ReportRunning
<1>4. NotStarted'
    BY <1>3 DEF RunsInv, NotStarted
<1>5. ExecutedOnce'
    BY <1>2, <1>3 DEF RunsInv, ExecutedOnce
<1>6. ~ Fetching(w)' /\ \A v \in Workers \ {w} : phase'[v] = phase[v] /\ job'[v] = job[v]
    BY ErrorPhases DEF ReportRunning, Answer, GoTo, Fetching, RunsInv
<1>7. FetchedTaskIsAssigned'
    BY <1>1, <1>3, <1>6 DEF RunsInv, FetchedTaskIsAssigned, Fetching
<1> QED
    BY <1>4, <1>5, <1>7 DEF RunsInv

LEMMA ReportUploadingKeepsRuns ==
    ASSUME RunsInv, TypeOK', NEW w \in Workers, ReportUploading(w)
    PROVE  RunsInv'
<1> USE DEF TypeOK
<1>1. PICK t \in Tasks : t = job[w] /\ owner[t] = w
    BY DEF ReportUploading, Owned
<1>2. /\ status' = [status EXCEPT ![t] = "uploading"]
      /\ owner' = owner /\ runs' = runs
    BY <1>1 DEF ReportUploading, workVars
<1>3. NotStarted' /\ ExecutedOnce'
    BY <1>2 DEF RunsInv, NotStarted, ExecutedOnce
<1>4. ~ Fetching(w)' /\ \A v \in Workers \ {w} : phase'[v] = phase[v] /\ job'[v] = job[v]
    BY ErrorPhases DEF ReportUploading, Answer, GoTo, Fetching, RunsInv
<1>5. FetchedTaskIsAssigned'
    BY <1>1, <1>2, <1>4 DEF RunsInv, FetchedTaskIsAssigned, Fetching
<1> QED
    BY <1>3, <1>5 DEF RunsInv

LEMMA NextKeepsRuns == RunsInv /\ [Next]_vars => RunsInv'
<1> SUFFICES ASSUME RunsInv, [Next]_vars
             PROVE  RunsInv'
    OBVIOUS
<1>1. TypeOK /\ TypeOK'
    BY NextTypes DEF RunsInv
<1>2. CASE \E w \in Workers : ReportRunning(w) \/ ReportUploading(w)
    BY <1>1, <1>2, ReportRunningKeepsRuns, ReportUploadingKeepsRuns
<1>3. CASE \E p \in pulls : ClaimNextTask(p)
    BY <1>1, <1>3, ClaimKeepsRuns
<1>4. CASE /\ ~ \E w \in Workers : ReportRunning(w) \/ ReportUploading(w)
           /\ ~ \E p \in pulls : ClaimNextTask(p)
    <2>1. CASE Next
        <3>1. Calm
            BY <1>1, <1>4, <2>1, CalmUser, CalmPoll, CalmWork, CalmHandle, CalmFault, CalmReconcile
               DEF Next
        <3> QED
            BY <1>1, <3>1, CalmKeepsRuns
    <2>2. CASE UNCHANGED vars
        <3>1. Calm
            BY <2>2 DEF vars, Calm, Fetching
        <3> QED
            BY <1>1, <3>1, CalmKeepsRuns
    <2> QED
        BY <2>1, <2>2
<1> QED
    BY <1>2, <1>3, <1>4

\* A task's script is started at most once, for any number of workers, lost
\* answers, lapses, requeues, crashes and restarts.
THEOREM ScriptsRunOnce == Spec => []ExecutedOnce
<1>1. Init => RunsInv
    BY InitTypes DEF Init, RunsInv, NotStarted, FetchedTaskIsAssigned, Fetching, ExecutedOnce
<1>2. RunsInv => ExecutedOnce
    BY DEF RunsInv
<1> QED
    BY <1>1, <1>2, NextKeepsRuns, PTL DEF Spec

-----------------------------------------------------------------------------
(* The pool's cap.  Only a claim adds to the active tasks, and unless its   *)
(* snapshot misses one of them it has counted them all.                     *)

\* Every set of tasks is finite, and a part is no larger than the whole.
LEMMA TaskSets ==
    ASSUME NEW S \in SUBSET Tasks
    PROVE  /\ IsFiniteSet(S)
           /\ Cardinality(S) \in Nat
           /\ \A T \in SUBSET S : Cardinality(T) <= Cardinality(S)
<1>1. IsFiniteSet(Tasks)
    BY SizesAssumption, FS_Interval DEF Tasks
<1>2. IsFiniteSet(S)
    BY <1>1, FS_Subset
<1> QED
    BY <1>2, FS_Subset, FS_CardinalityType

Counted == (Active \cap Pooled) \ unseen

CapInv == TypeOK /\ Cardinality(Counted) <= PoolMax

LEMMA FewerCounted ==
    ASSUME CapInv, TypeOK', Counted' \subseteq Counted
    PROVE  CapInv'
<1>1. Counted \in SUBSET Tasks /\ Counted' \in SUBSET Tasks
    BY DEF Counted, Active
<1>2. /\ Cardinality(Counted) \in Nat /\ Cardinality(Counted') \in Nat
      /\ Cardinality(Counted') <= Cardinality(Counted)
    BY <1>1, TaskSets
<1> QED
    BY <1>2, SizesAssumption DEF CapInv

\* A claim whose snapshot shows every active task of the pool has room for one.
LEMMA ClaimKeepsCap ==
    ASSUME CapInv, TypeOK', NEW p \in pulls, ClaimNextTask(p)
    PROVE  CapInv'
<1> USE DEF TypeOK
<1>1. PICK t \in Tasks : t \in Claimable(p.node, p.shows) /\ Claim(p.node, t, p.shows)
    BY DEF ClaimNextTask, IsFirst
<1>2. /\ status[t] = "queued"
      /\ status' = [status EXCEPT ![t] = "assigned"]
      /\ HasCapacity(t, p.shows)
    BY <1>1 DEF Claimable, Claim
<1>3. t \notin Active /\ Active' = Active \cup {t}
    BY <1>2 DEF Active, ActiveStates, CapInv
<1>4. CASE t \notin Pooled
    <2>1. unseen' = unseen \ {t}
        BY <1>1, <1>4 DEF Claim
    <2> QED
        BY <1>3, <1>4, <2>1, FewerCounted DEF Counted
<1>5. CASE t \in Pooled /\ ~ (Active \cap Pooled) \subseteq p.shows
    <2>1. unseen' = unseen \cup {t}
        BY <1>1, <1>5 DEF Claim
    <2> QED
        BY <1>3, <2>1, FewerCounted DEF Counted
<1>6. CASE t \in Pooled /\ (Active \cap Pooled) \subseteq p.shows
    <2> DEFINE A == Active \cap Pooled
               S == (p.shows \cap Pooled) \ {t}
    <2>1. S \in SUBSET Tasks /\ A \in SUBSET S
        BY <1>3, <1>6 DEF CapInv, Pulls
    <2>2. /\ Cardinality(S) \in Nat /\ Cardinality(A) \in Nat /\ IsFiniteSet(A)
          /\ Cardinality(A) <= Cardinality(S)
        BY <2>1, TaskSets
    <2>3. Cardinality(S) < PoolMax
        BY <1>2, <1>6 DEF HasCapacity
    <2>4. Cardinality(A \cup {t}) = Cardinality(A) + 1
        BY <1>3, <2>2, FS_AddElement
    <2>5. A \cup {t} \in SUBSET Tasks /\ Counted' \in SUBSET (A \cup {t})
        BY <1>3 DEF Counted, Active
    <2>6. Cardinality(Counted') \in Nat /\ Cardinality(Counted') <= Cardinality(A \cup {t})
        BY <2>5, TaskSets
    <2>7. Cardinality(Counted') <= PoolMax
        BY <2>2, <2>3, <2>4, <2>6, SizesAssumption
    <2> QED
        BY <2>7 DEF CapInv
<1> QED
    BY <1>4, <1>5, <1>6

\* No other step makes a task active.
LEMMA OnlyClaimsActivate ==
    ASSUME TypeOK, [Next]_vars, ~ \E p \in pulls : ClaimNextTask(p)
    PROVE  Active' \subseteq Active /\ unseen' = unseen
<1> USE DEF TypeOK, Active, ActiveStates, EndStates
<1>1. CASE User
    BY <1>1 DEF User, SubmitTask, InsertTaskQueue, CancelQueuedTask, CancelTaskRow, PoolMovesRow, taskVars
<1>2. ASSUME NEW w \in Workers, Poll(w)
      PROVE  Active' \subseteq Active /\ unseen' = unseen
    BY <1>2 DEF Poll, Heartbeat, PullTask, taskVars
<1>3. ASSUME NEW w \in Workers, Work(w)
      PROVE  Active' \subseteq Active /\ unseen' = unseen
    BY <1>3 DEF Work, DownloadSnapshot, ReportRunning, NoExecutor, ScriptEnds, ReportUploading, StoreOutput,
                CompleteChecks, FailChecks, CallRefused, Owned, taskVars
<1>4. ASSUME NEW w \in Workers, Handle(w)
      PROVE  Active' \subseteq Active /\ unseen' = unseen
    BY <1>4 DEF Handle, ClaimFindsNothing, EndTask, Reports, taskVars
<1>5. CASE Fault
    BY <1>5 DEF Fault, CallTimesOut, CallLost, AgentCrashes, AgentRestarts, HeartbeatLapses,
                RevokeWorkerNode, PortalRestarts, taskVars
<1>6. CASE Reconcile \/ FailStalled
    BY <1>6 DEF Reconcile, FailStalled, ListStaleNodes, MarkWorkerOffline, ListWorkerTasks,
                RequeueTask, FailLostTask, RecoverRow, FailStalledTask, taskVars
<1>7. CASE UNCHANGED vars
    BY <1>7 DEF vars
<1> QED
    BY <1>1, <1>2, <1>3, <1>4, <1>5, <1>6, <1>7 DEF Next

\* The pool's tasks stay within what max_concurrent leaves them, but for those
\* that a claim with an old snapshot added.
THEOREM CapKept == Spec => []TasksWithinPoolCap
<1>1. Init => CapInv
    <2> SUFFICES ASSUME Init
                 PROVE  CapInv
        OBVIOUS
    <2>1. Counted = {}
        BY DEF Init, Counted, Active, ActiveStates
    <2> QED
        BY <2>1, InitTypes, FS_EmptySet, SizesAssumption DEF CapInv
<1>2. CapInv /\ [Next]_vars => CapInv'
    <2> SUFFICES ASSUME CapInv, [Next]_vars
                 PROVE  CapInv'
        OBVIOUS
    <2>1. TypeOK /\ TypeOK'
        BY NextTypes DEF CapInv
    <2>2. CASE \E p \in pulls : ClaimNextTask(p)
        BY <2>1, <2>2, ClaimKeepsCap
    <2>3. CASE ~ \E p \in pulls : ClaimNextTask(p)
        BY <2>1, <2>3, OnlyClaimsActivate, FewerCounted DEF Counted
    <2> QED
        BY <2>2, <2>3
<1>3. CapInv => TasksWithinPoolCap
    BY DEF CapInv, Counted, TasksWithinPoolCap
<1> QED
    BY <1>1, <1>2, <1>3, PTL DEF Spec

-----------------------------------------------------------------------------
(* A task that succeeded has been run.  Whoever reports it complete is an   *)
(* agent past the start of the script and past the upload, and neither the  *)
(* start nor the output is ever taken back.                                 *)

Underway(w) == phase[w] \in {"running", "ran", "uploading", "uploaded"}

\* The script of t was started, and its output is there.
Started(t) == runs[t] > 0

Done(t) == Started(t) /\ t \in stored

AgentsHaveRun ==
    \A w \in Workers, t \in Tasks :
        /\ Underway(w) /\ job[w] = t => Started(t)
        /\ phase[w] = "uploaded" /\ job[w] = t => Done(t)

ReportsAreTrue == \A r \in pending : r.op = "complete" => Done(r.task)

SuccessesAreTrue == \A t \in Tasks : status[t] = "succeeded" => Done(t)

WorkInv ==
    /\ TypeOK
    /\ AgentsHaveRun
    /\ ReportsAreTrue
    /\ SuccessesAreTrue

\* Starts and outputs stay: what was done stays done.
LEMMA DoneStays ==
    ASSUME TypeOK, [Next]_vars, NEW t \in Tasks
    PROVE  (Started(t) => Started(t)') /\ (Done(t) => Done(t)')
<1>1. runs'[t] >= runs[t] /\ stored \subseteq stored'
    <2>1. CASE User
        BY <2>1 DEF User, SubmitTask, InsertTaskQueue, CancelQueuedTask, CancelTaskRow, PoolMovesRow, workVars, TypeOK
    <2>2. ASSUME NEW w \in Workers, Poll(w)
          PROVE  runs'[t] >= runs[t] /\ stored \subseteq stored'
        BY <2>2 DEF Poll, Heartbeat, PullTask, workVars, TypeOK
    <2>3. ASSUME NEW w \in Workers, Work(w)
          PROVE  runs'[t] >= runs[t] /\ stored \subseteq stored'
        <3>1. CASE ReportRunning(w)
            <4>1. job[w] \in Tasks /\ stored' = stored
                BY <3>1 DEF ReportRunning, Owned
            <4>2. runs' = [runs EXCEPT ![job[w]] = @ + 1] \/ runs' = runs
                BY <3>1 DEF ReportRunning
            <4> QED
                BY <4>1, <4>2 DEF TypeOK
        <3>2. CASE ~ ReportRunning(w)
            BY <2>3, <3>2
               DEF Work, DownloadSnapshot, NoExecutor, ScriptEnds, ReportUploading, StoreOutput,
                   CompleteChecks, FailChecks, CallRefused, workVars, TypeOK
        <3> QED
            BY <3>1, <3>2
    <2>4. ASSUME NEW w \in Workers, Handle(w)
          PROVE  runs'[t] >= runs[t] /\ stored \subseteq stored'
        BY <2>4 DEF Handle, ClaimNextTask, ClaimFindsNothing, EndTask, workVars, TypeOK
    <2>5. CASE Fault
        BY <2>5 DEF Fault, CallTimesOut, CallLost, AgentCrashes, AgentRestarts, HeartbeatLapses,
                    RevokeWorkerNode, PortalRestarts, workVars, TypeOK
    <2>6. CASE Reconcile \/ FailStalled
        BY <2>6 DEF Reconcile, FailStalled, ListStaleNodes, MarkWorkerOffline, ListWorkerTasks,
                    RequeueTask, FailLostTask, RecoverRow, FailStalledTask, workVars, TypeOK
    <2>7. CASE UNCHANGED vars
        BY <2>7 DEF vars, TypeOK
    <2> QED
        BY <2>1, <2>2, <2>3, <2>4, <2>5, <2>6, <2>7 DEF Next
<1>2. runs[t] \in Nat /\ runs'[t] \in Nat
    BY NextTypes DEF TypeOK
<1> QED
    BY <1>1, <1>2 DEF Done, Started

\* An agent that is underway was underway with the same task.
Onward(w) ==
    Underway(w)' => /\ Underway(w)
                    /\ job'[w] = job[w]
                    /\ phase'[w] = "uploaded" => phase[w] = "uploaded"

LEMMA OnwardAgent ==
    ASSUME TypeOK, NEW w \in Workers, NEW p, GoTo(w, p),
           p \notin {"running", "uploaded"}, p \in {"ran", "uploading"} => Underway(w)
    PROVE  \A v \in Workers : Onward(v)
BY DEF TypeOK, GoTo, Underway, Onward

LEMMA OnwardPoll ==
    ASSUME TypeOK, NEW w \in Workers, Poll(w)
    PROVE  \A v \in Workers : Onward(v)
BY OnwardAgent DEF Poll, Heartbeat, PullTask

LEMMA OnwardWork ==
    ASSUME TypeOK, NEW w \in Workers, Work(w), ~ ReportRunning(w), ~ StoreOutput(w)
    PROVE  \A v \in Workers : Onward(v)
<1>1. PICK p : GoTo(w, p) /\ p \notin {"running", "uploaded"} /\ (p \in {"ran", "uploading"} => Underway(w))
    <2>1. CASE DownloadSnapshot(w)
        BY <2>1, ErrorPhases DEF DownloadSnapshot, Answer
    <2>2. CASE NoExecutor(w)
        BY <2>2 DEF NoExecutor
    <2>3. CASE ScriptEnds(w)
        BY <2>3 DEF ScriptEnds, ExecutorOutcomes, Underway
    <2>4. CASE ReportUploading(w)
        BY <2>4, ErrorPhases DEF ReportUploading, Answer, Underway
    <2>5. CASE CompleteChecks(w)
        BY <2>5 DEF CompleteChecks
    <2>6. CASE FailChecks(w)
        BY <2>6 DEF FailChecks
    <2>7. CASE CallRefused(w)
        BY <2>7, ErrorPhases DEF CallRefused
    <2> QED
        BY <2>1, <2>2, <2>3, <2>4, <2>5, <2>6, <2>7 DEF Work
<1> QED
    BY <1>1, OnwardAgent

LEMMA OnwardHandle ==
    ASSUME TypeOK, NEW w \in Workers, Handle(w)
    PROVE  \A v \in Workers : Onward(v)
<1>1. ASSUME NEW p \in pulls, ClaimNextTask(p)
      PROVE  \A v \in Workers : Onward(v)
    <2>1. p.node \in Workers
        BY DEF TypeOK, Pulls
    <2>2. PICK t \in Tasks : IF p.waited
                             THEN /\ phase' = [phase EXCEPT ![p.node] = "staging"]
                                  /\ job' = [job EXCEPT ![p.node] = t]
                             ELSE UNCHANGED agentVars
        BY <1>1 DEF ClaimNextTask
    <2> QED
        BY <2>1, <2>2 DEF Onward, Underway, TypeOK, agentVars
<1>2. ASSUME NEW p \in pulls, ClaimFindsNothing(p)
      PROVE  \A v \in Workers : Onward(v)
    <2>1. p.node \in Workers
        BY DEF TypeOK, Pulls
    <2>2. GoTo(p.node, "idle") \/ UNCHANGED agentVars
        BY <1>2 DEF ClaimFindsNothing
    <2> QED
        BY <2>1, <2>2, OnwardAgent DEF Onward, Underway, agentVars
<1>3. ASSUME NEW r \in pending, EndTask(r)
      PROVE  \A v \in Workers : Onward(v)
    <2>1. r.node \in Workers
        BY DEF TypeOK, Reports
    <2>2. GoTo(r.node, "idle") \/ UNCHANGED agentVars
        BY <1>3 DEF EndTask
    <2> QED
        BY <2>1, <2>2, OnwardAgent DEF Onward, Underway, agentVars
<1> QED
    BY <1>1, <1>2, <1>3 DEF Handle

LEMMA OnwardFault ==
    ASSUME TypeOK, Fault
    PROVE  \A v \in Workers : Onward(v)
<1>1. ASSUME NEW w \in Workers, CallTimesOut(w) \/ CallLost(w) \/ AgentRestarts(w)
      PROVE  \A v \in Workers : Onward(v)
    BY <1>1, OnwardAgent, ErrorPhases DEF CallTimesOut, CallLost, AgentRestarts
<1>2. ASSUME NEW w \in Workers, AgentCrashes(w) \/ HeartbeatLapses(w) \/ RevokeWorkerNode(w)
      PROVE  \A v \in Workers : Onward(v)
    BY <1>2 DEF AgentCrashes, HeartbeatLapses, RevokeWorkerNode, Onward, Underway, TypeOK, agentVars
<1>3. CASE PortalRestarts
    BY <1>3, ErrorPhases DEF PortalRestarts, WaitingPhases, Onward, Underway, TypeOK
<1> QED
    BY <1>1, <1>2, <1>3 DEF Fault

\* Only a confirmed start and a stored output take an agent further.
LEMMA OnlyTwoStepsForward ==
    ASSUME TypeOK, [Next]_vars, ~ \E w \in Workers : ReportRunning(w) \/ StoreOutput(w)
    PROVE  \A v \in Workers : Onward(v)
<1>1. CASE User \/ Reconcile \/ FailStalled \/ UNCHANGED vars
    <2>1. UNCHANGED agentVars
        BY <1>1 DEF User, SubmitTask, InsertTaskQueue, CancelQueuedTask, CancelTaskRow, PoolMovesRow, Reconcile,
                    FailStalled, ListStaleNodes, MarkWorkerOffline, ListWorkerTasks, RequeueTask,
                    FailLostTask, RecoverRow, FailStalledTask, agentVars, vars
    <2> QED
        BY <2>1 DEF agentVars, Onward, Underway
<1> QED
    BY <1>1, OnwardPoll, OnwardWork, OnwardHandle, OnwardFault DEF Next

LEMMA AgentsStayTrue ==
    ASSUME WorkInv, [Next]_vars
    PROVE  AgentsHaveRun'
<1>0. TypeOK
    BY DEF WorkInv
<1>1. \A t \in Tasks : (Started(t) => Started(t)') /\ (Done(t) => Done(t)')
    BY <1>0, DoneStays
<1>2. CASE \A v \in Workers : Onward(v)
    <2>1. \A w \in Workers : phase'[w] = "uploaded" => Underway(w)'
        BY DEF Underway
    <2> QED
        BY <1>1, <1>2, <2>1 DEF WorkInv, AgentsHaveRun, Onward
<1>3. ASSUME NEW w \in Workers, ReportRunning(w) \/ StoreOutput(w)
      PROVE  AgentsHaveRun'
    <2>1. \A v \in Workers \ {w} : phase'[v] = phase[v] /\ job'[v] = job[v]
        BY <1>0, <1>3 DEF ReportRunning, StoreOutput, Answer, GoTo, TypeOK
    <2>2. \A v \in Workers \ {w}, t \in Tasks :
             /\ Underway(v)' /\ job'[v] = t => Started(t)'
             /\ phase'[v] = "uploaded" /\ job'[v] = t => Done(t)'
        BY <1>1, <2>1 DEF WorkInv, AgentsHaveRun, Underway
    <2>3. ASSUME NEW t \in Tasks
          PROVE  /\ Underway(w)' /\ job'[w] = t => Started(t)'
                 /\ phase'[w] = "uploaded" /\ job'[w] = t => Done(t)'
        <3>1. job[w] \in Tasks
            BY <1>3 DEF ReportRunning, StoreOutput, Owned
        <3>2. CASE phase'[w] \in {"idle", "failing"}
            BY <3>2 DEF Underway
        <3>3. CASE ReportRunning(w) /\ phase'[w] = "running"
            <4>1. runs' = [runs EXCEPT ![job[w]] = @ + 1] /\ job'[w] = job[w]
                BY <1>0, <3>3 DEF ReportRunning, Answer, GoTo, TypeOK
            <4>2. Started(job[w])'
                BY <1>0, <3>1, <4>1 DEF TypeOK, Started
            <4> QED
                BY <3>3, <4>1, <4>2 DEF Underway
        <3>4. CASE StoreOutput(w) /\ phase'[w] = "uploaded"
            <4>1. job[w] \in stored' /\ job'[w] = job[w] /\ Underway(w)
                BY <1>0, <3>4 DEF StoreOutput, Answer, GoTo, TypeOK, Underway
            <4>2. Started(job[w])'
                BY <1>1, <3>1, <4>1 DEF WorkInv, AgentsHaveRun
            <4> QED
                BY <4>1, <4>2 DEF Done
        <3>5. \/ phase'[w] \in {"idle", "failing"}
              \/ ReportRunning(w) /\ phase'[w] = "running"
              \/ StoreOutput(w) /\ phase'[w] = "uploaded"
            BY <1>0, <1>3, ErrorPhases DEF ReportRunning, StoreOutput, Answer, GoTo, TypeOK
        <3> QED
            BY <3>2, <3>3, <3>4, <3>5
    <2> QED
        BY <2>2, <2>3 DEF AgentsHaveRun
<1> QED
    BY <1>0, <1>2, <1>3, OnlyTwoStepsForward

\* The check of a complete report finds its agent after the upload.
LEMMA ReportsStayTrue ==
    ASSUME WorkInv, [Next]_vars
    PROVE  ReportsAreTrue'
<1>0. TypeOK
    BY DEF WorkInv
<1>1. \A t \in Tasks : Done(t) => Done(t)'
    BY <1>0, DoneStays
<1>2. \A r \in pending : r.task \in Tasks
    BY <1>0 DEF TypeOK, Reports
<1>3. CASE \A r \in pending' : r.op = "complete" => r \in pending
    BY <1>1, <1>2, <1>3 DEF WorkInv, ReportsAreTrue
<1>4. ASSUME NEW w \in Workers, CompleteChecks(w)
      PROVE  ReportsAreTrue'
    <2>1. Done(job[w]) /\ job[w] \in Tasks
        BY <1>4 DEF CompleteChecks, Owned, WorkInv, AgentsHaveRun
    <2>2. pending' = pending \cup {[op |-> "complete", node |-> w, task |-> job[w]]}
        BY <1>4 DEF CompleteChecks
    <2> QED
        BY <1>1, <1>2, <2>1, <2>2 DEF WorkInv, ReportsAreTrue
<1>5. CASE ~ \E w \in Workers : CompleteChecks(w)
    <2> SUFFICES \A r \in pending' : r.op = "complete" => r \in pending
        BY <1>3
    <2>1. CASE User \/ Reconcile \/ FailStalled \/ UNCHANGED vars
        BY <2>1 DEF User, SubmitTask, InsertTaskQueue, CancelQueuedTask, CancelTaskRow, PoolMovesRow, Reconcile,
                    FailStalled, ListStaleNodes, MarkWorkerOffline, ListWorkerTasks, RequeueTask,
                    FailLostTask, RecoverRow, FailStalledTask, handlerVars, vars
    <2>2. ASSUME NEW w \in Workers, Poll(w) \/ Work(w)
          PROVE  \A r \in pending' : r.op = "complete" => r \in pending
        <3>1. CASE FailChecks(w)
            <4>1. pending' = pending \cup {[op |-> "fail", node |-> w, task |-> job[w]]}
                BY <3>1 DEF FailChecks
            <4> QED
                BY <4>1
        <3>2. CASE ~ FailChecks(w)
            BY <1>5, <2>2, <3>2
               DEF Poll, Heartbeat, PullTask, Work, DownloadSnapshot, ReportRunning, NoExecutor,
                   ScriptEnds, ReportUploading, StoreOutput, CallRefused, handlerVars
        <3> QED
            BY <3>1, <3>2
    <2>3. ASSUME NEW w \in Workers, Handle(w)
          PROVE  \A r \in pending' : r.op = "complete" => r \in pending
        BY <2>3 DEF Handle, ClaimNextTask, ClaimFindsNothing, EndTask
    <2>4. CASE Fault
        BY <2>4 DEF Fault, CallTimesOut, CallLost, AgentCrashes, AgentRestarts, HeartbeatLapses,
                    RevokeWorkerNode, PortalRestarts, handlerVars
    <2> QED
        BY <2>1, <2>2, <2>3, <2>4 DEF Next
<1> QED
    BY <1>4, <1>5

\* Only a complete report makes a task succeed.
LEMMA SuccessesStayTrue ==
    ASSUME WorkInv, [Next]_vars
    PROVE  SuccessesAreTrue'
<1>0. TypeOK
    BY DEF WorkInv
<1>1. \A t \in Tasks : Done(t) => Done(t)'
    BY <1>0, DoneStays
<1>2. CASE \A t \in Tasks : status'[t] = "succeeded" => status[t] = "succeeded"
    BY <1>1, <1>2 DEF WorkInv, SuccessesAreTrue
<1>3. ASSUME NEW r \in pending, EndTask(r)
      PROVE  SuccessesAreTrue'
    <2>1. r.task \in Tasks
        BY <1>0 DEF TypeOK, Reports
    <2>2. status' = [status EXCEPT ![r.task] = IF r.op = "complete" THEN "succeeded" ELSE "failed"]
        BY <1>3 DEF EndTask
    <2>3. r.op = "complete" => Done(r.task)
        BY DEF WorkInv, ReportsAreTrue
    <2> QED
        BY <1>0, <1>1, <2>1, <2>2, <2>3 DEF WorkInv, SuccessesAreTrue, TypeOK
<1>4. CASE ~ \E r \in pending : EndTask(r)
    <2> SUFFICES \A t \in Tasks : status'[t] = "succeeded" => status[t] = "succeeded"
        BY <1>2
    <2> USE <1>0 DEF TypeOK
    <2>1. CASE User
        BY <2>1 DEF User, SubmitTask, InsertTaskQueue, CancelQueuedTask, CancelTaskRow, PoolMovesRow, taskVars
    <2>2. ASSUME NEW w \in Workers, Poll(w) \/ Work(w)
          PROVE  \A t \in Tasks : status'[t] = "succeeded" => status[t] = "succeeded"
        BY <2>2 DEF Poll, Heartbeat, PullTask, Work, DownloadSnapshot, ReportRunning, NoExecutor,
                    ScriptEnds, ReportUploading, StoreOutput, CompleteChecks, FailChecks, CallRefused, taskVars
    <2>3. ASSUME NEW w \in Workers, Handle(w)
          PROVE  \A t \in Tasks : status'[t] = "succeeded" => status[t] = "succeeded"
        BY <1>4, <2>3 DEF Handle, ClaimNextTask, Claim, ClaimFindsNothing, taskVars
    <2>4. CASE Fault
        BY <2>4 DEF Fault, CallTimesOut, CallLost, AgentCrashes, AgentRestarts, HeartbeatLapses,
                    RevokeWorkerNode, PortalRestarts, taskVars
    <2>5. CASE Reconcile \/ FailStalled
        BY <2>5 DEF Reconcile, FailStalled, ListStaleNodes, MarkWorkerOffline, ListWorkerTasks,
                    RequeueTask, FailLostTask, RecoverRow, FailStalledTask, taskVars
    <2>6. CASE UNCHANGED vars
        BY <2>6 DEF vars
    <2> QED
        BY <2>1, <2>2, <2>3, <2>4, <2>5, <2>6 DEF Next
<1> QED
    BY <1>3, <1>4

\* A task that succeeded was run, once, and its output is there, for any number
\* of workers and whatever calls were lost, repeated or overtaken.
THEOREM SuccessesAreReal == Spec => []SucceededTasksRan
<1>1. Init => WorkInv /\ RunsInv
    BY InitTypes
       DEF Init, WorkInv, AgentsHaveRun, ReportsAreTrue, SuccessesAreTrue, Underway, RunsInv,
           NotStarted, FetchedTaskIsAssigned, Fetching, ExecutedOnce
<1>2. WorkInv /\ [Next]_vars => WorkInv'
    <2> SUFFICES ASSUME WorkInv, [Next]_vars
                 PROVE  WorkInv'
        OBVIOUS
    <2>1. TypeOK'
        BY NextTypes DEF WorkInv
    <2> QED
        BY <2>1, AgentsStayTrue, ReportsStayTrue, SuccessesStayTrue DEF WorkInv
<1>3. WorkInv /\ RunsInv => SucceededTasksRan
    BY DEF WorkInv, RunsInv, TypeOK, SuccessesAreTrue, ExecutedOnce, Done, Started, SucceededTasksRan
<1> QED
    BY <1>1, <1>2, <1>3, NextKeepsRuns, PTL DEF Spec

-----------------------------------------------------------------------------
(* Rows.  Unless two handlers wrote its row at a time, or a cancel has yet  *)
(* to write it or was cut off before, a task that has been claimed has no   *)
(* live row, and only its requeue gives it one back.                        *)

Excused == raced \cup cancelling \cup cutOff

RowsFollow ==
    \A t \in Tasks :
        /\ status[t] = "absent" => row[t] = "absent" /\ ~ RowOwed(t)
        /\ status[t] \in ActiveStates \cup EndStates /\ t \notin Excused =>
              /\ row[t] \notin LiveRowStates
              /\ t \notin submitting
              /\ rowTodo # [task |-> t, to |-> "queued"]

RowInv == TypeOK /\ RowsFollow

\* What a task's row depends on.
rowFollowVars == <<status, row, submitting, raced, cancelVars, rowTodo>>

\* A row nobody owes a write is owed neither its insertion nor its requeue.
LEMMA NotOwed ==
    ASSUME TypeOK, NEW t \in Tasks, ~ RowOwed(t)
    PROVE  t \notin submitting /\ rowTodo # [task |-> t, to |-> "queued"]
<1>1. [task |-> t, to |-> "queued"] \in RowWrites
    BY DEF RowWrites
<1>2. [task |-> t, to |-> "queued"].task = t
    OBVIOUS
<1> QED
    BY <1>1, <1>2, SizesAssumption DEF RowOwed

\* A task's row follows when the task ends or is claimed, nobody owes the row a
\* write, and the row is not live any more.
LEMMA RowTaken ==
    ASSUME RowInv, NEW t \in Tasks, NEW st \in ActiveStates \cup EndStates, status' = [status EXCEPT ![t] = st],
           \A s \in Tasks \ {t} : row'[s] = row[s],
           submitting' = submitting, rowTodo' = rowTodo, UNCHANGED cancelVars,
           raced \subseteq raced',
           t \notin Excused' => ~ RowOwed(t) /\ row'[t] \notin LiveRowStates
    PROVE  RowsFollow'
<1>1. \A s \in Tasks : RowOwed(s)' = RowOwed(s)
    BY DEF RowOwed
<1>2. t \notin Excused' => t \notin submitting /\ rowTodo # [task |-> t, to |-> "queued"]
    BY NotOwed DEF RowInv
<1>3. st # "absent"
    BY DEF ActiveStates, EndStates
<1>4. \A s \in Tasks \ {t} : status'[s] = status[s]
    BY DEF RowInv, TypeOK
<1>5. status'[t] = st
    BY DEF RowInv, TypeOK
<1> QED
    BY <1>1, <1>2, <1>3, <1>4, <1>5 DEF RowInv, RowsFollow, Excused, cancelVars

\* Users and the pool: a submission precedes its row, and the pool moves rows
\* that are live already.
LEMMA UserKeepsRows ==
    ASSUME RowInv, User
    PROVE  RowsFollow'
<1> USE DEF RowInv, TypeOK, RowsFollow, RowOwed, ActiveStates, EndStates, LiveRowStates
<1>1. PICK t \in Tasks : \/ SubmitTask(t) \/ InsertTaskQueue(t) \/ CancelQueuedTask(t)
                        \/ CancelTaskRow(t) \/ PoolMovesRow(t)
    BY DEF User
<1>2. CASE SubmitTask(t)
    BY <1>2 DEF SubmitTask, IsNextTask, Excused, cancelVars, recoveryVars
<1>3. CASE InsertTaskQueue(t)
    BY <1>3 DEF InsertTaskQueue, Excused, cancelVars, taskVars, recoveryVars
<1>4. CASE CancelQueuedTask(t)
    <2>1. /\ status' = [status EXCEPT ![t] = "cancelled"]
          /\ Excused' = Excused \cup {t}
          /\ UNCHANGED <<row, submitting, rowTodo>>
        BY <1>4 DEF CancelQueuedTask, recoveryVars, Excused
    <2> QED
        BY <2>1
<1>6. CASE CancelTaskRow(t)
    <2>1. /\ \A s \in Tasks \ {t} : row'[s] = row[s]
          /\ row'[t] \notin LiveRowStates
          /\ row[t] = "absent" => row'[t] = "absent"
        BY <1>6 DEF CancelTaskRow, CancelledRow
    <2>2. UNCHANGED <<status, submitting, rowTodo>>
        BY <1>6 DEF CancelTaskRow, taskVars, recoveryVars
    <2>3. t \notin raced' => t \notin submitting /\ rowTodo # [task |-> t, to |-> "queued"]
        BY <1>6, NotOwed DEF CancelTaskRow
    <2>4. \A s \in Tasks \ {t} : s \in Excused => s \in Excused'
        BY <1>6 DEF CancelTaskRow, Excused
    <2>5. raced' \subseteq Excused'
        BY DEF Excused
    <2> QED
        BY <2>1, <2>2, <2>3, <2>4, <2>5
<1>5. CASE PoolMovesRow(t)
    BY <1>5 DEF PoolMovesRow, RowMoves, Excused, cancelVars, taskVars, recoveryVars
<1> QED
    BY <1>1, <1>2, <1>3, <1>4, <1>5, <1>6

\* A claim fulfils the row it finds queued.
LEMMA HandleKeepsRows ==
    ASSUME RowInv, NEW w \in Workers, Handle(w)
    PROVE  RowsFollow'
<1> USE DEF RowInv, TypeOK, RowsFollow, RowOwed, Excused, cancelVars, ActiveStates, EndStates,
           LiveRowStates
<1>1. ASSUME NEW p \in pulls, ClaimNextTask(p)
      PROVE  RowsFollow'
    <2>1. PICK t \in Tasks : t \in Claimable(p.node, p.shows) /\ Claim(p.node, t, p.shows)
        BY <1>1 DEF ClaimNextTask, IsFirst
    <2>3. submitting' = submitting /\ rowTodo' = rowTodo /\ UNCHANGED cancelVars
        BY <1>1 DEF ClaimNextTask, recoveryVars
    <2>4. /\ \A s \in Tasks \ {t} : row'[s] = row[s]
          /\ raced \subseteq raced'
          /\ t \notin raced' => ~ RowOwed(t)
          /\ status' = [status EXCEPT ![t] = "assigned"]
        BY <2>1 DEF Claim
    <2>5. t \notin raced' => row'[t] \notin LiveRowStates
        BY <2>1 DEF Claim
    <2>6. "assigned" \in ActiveStates \cup EndStates
        OBVIOUS
    <2> QED
        BY <2>3, <2>4, <2>5, <2>6, RowTaken
<1>2. ASSUME NEW p \in pulls, ClaimFindsNothing(p)
      PROVE  RowsFollow'
    BY <1>2 DEF ClaimFindsNothing, Excused, cancelVars, taskVars, rowVars, recoveryVars
<1>3. ASSUME NEW r \in pending, EndTask(r)
      PROVE  RowsFollow'
    <2>1. r.task \in Tasks
        BY DEF Reports
    <2> DEFINE st == IF r.op = "complete" THEN "succeeded" ELSE "failed"
    <2>2. /\ status' = [status EXCEPT ![r.task] = st]
          /\ UNCHANGED <<row, submitting, cancelVars, rowTodo>>
          /\ raced \subseteq raced'
          /\ r.task \notin raced' => status[r.task] # "queued" /\ ~ RowOwed(r.task)
        BY <1>3 DEF EndTask, recoveryVars
    <2>3. st \in ActiveStates \cup EndStates
        OBVIOUS
    <2>4. r.task \notin Excused' => row'[r.task] \notin LiveRowStates
        BY <2>1, <2>2 DEF TaskStates
    <2> QED
        BY <2>1, <2>2, <2>3, <2>4, RowTaken
<1> QED
    BY <1>1, <1>2, <1>3 DEF Handle

\* Agents report on active tasks.
LEMMA AgentKeepsRows ==
    ASSUME RowInv, NEW w \in Workers, Poll(w) \/ Work(w)
    PROVE  RowsFollow'
<1> USE DEF RowInv, TypeOK, RowsFollow, RowOwed, Excused, cancelVars
<1>1. CASE ReportRunning(w)
    BY <1>1 DEF ReportRunning, Owned, ActiveStates, EndStates, rowVars, recoveryVars
<1>2. CASE ReportUploading(w)
    BY <1>2 DEF ReportUploading, Owned, ActiveStates, EndStates, rowVars, recoveryVars
<1>3. CASE ~ ReportRunning(w) /\ ~ ReportUploading(w)
    <2>1. UNCHANGED rowFollowVars
        BY <1>3 DEF Poll, Heartbeat, PullTask, Work, DownloadSnapshot, NoExecutor, ScriptEnds, StoreOutput,
                    CompleteChecks, FailChecks, CallRefused, rowFollowVars, taskVars, rowVars, recoveryVars
    <2> QED
        BY <2>1 DEF rowFollowVars
<1> QED
    BY <1>1, <1>2, <1>3

\* A restart forgets the writes that are owed.
LEMMA FaultKeepsRows ==
    ASSUME RowInv, Fault
    PROVE  RowsFollow'
<1> USE DEF RowInv, TypeOK, RowsFollow, RowOwed, Excused, cancelVars
<1>1. CASE PortalRestarts
    BY <1>1, SizesAssumption DEF PortalRestarts, taskVars, RowWrites
<1>2. CASE ~ PortalRestarts
    <2>1. UNCHANGED rowFollowVars
        BY <1>2 DEF Fault, CallTimesOut, CallLost, AgentCrashes, AgentRestarts, HeartbeatLapses,
                    RevokeWorkerNode, rowFollowVars, taskVars, rowVars, recoveryVars
    <2> QED
        BY <2>1 DEF rowFollowVars
<1> QED
    BY <1>1, <1>2

\* The recovery gives a row back to a task it requeues, and takes that of one
\* it fails.
LEMMA ReconcileKeepsRows ==
    ASSUME RowInv, Reconcile \/ FailStalled
    PROVE  RowsFollow'
<1> USE DEF RowInv, TypeOK, RowsFollow, RowOwed, Excused, cancelVars, ActiveStates, EndStates,
            LiveRowStates
<1>1. ASSUME NEW x \in lost, RequeueTask(x)
      PROVE  RowsFollow'
    <2>1. x.task \in Tasks /\ [task |-> x.task, to |-> "queued"] \in RowWrites
        BY DEF RowWrites
    <2> QED
        BY <1>1, <2>1, SizesAssumption DEF RequeueTask, rowVars
<1>2. ASSUME NEW x \in lost, FailLostTask(x)
      PROVE  RowsFollow'
    <2>1. x.task \in Tasks /\ [task |-> x.task, to |-> "cancelled"] \in RowWrites
        BY DEF RowWrites
    <2> QED
        BY <1>2, <2>1, SizesAssumption DEF FailLostTask, StartedStates, rowVars
<1>3. CASE RecoverRow
    <2>1. rowTodo \in RowWrites
        BY <1>3 DEF RecoverRow
    <2>2. PICK t \in Tasks, to \in {"queued", "cancelled"} : rowTodo = [task |-> t, to |-> to]
        BY <2>1 DEF RowWrites
    <2>3. rowTodo.task = t /\ rowTodo.to = to /\ RowOwed(t)
        BY <1>3, <2>2 DEF RecoverRow
    <2>4. /\ \A s \in Tasks \ {t} : row'[s] = row[s]
          /\ row[t] = "absent" => row'[t] = "absent"
          /\ row[t] # "absent" => row'[t] = to
          /\ rowTodo' = None
          /\ UNCHANGED <<status, submitting, raced, cancelVars>>
        BY <1>3, <2>3 DEF RecoverRow, taskVars
    <2>5. \A s \in Tasks : RowOwed(s)' => RowOwed(s)
        BY <2>4
    <2>6. \A s \in Tasks : None # [task |-> s, to |-> "queued"]
        BY SizesAssumption DEF RowWrites
    <2>7. to = "cancelled" \/ ~ (status[t] \in ActiveStates \cup EndStates /\ t \notin Excused)
        BY <2>2
    <2> HIDE DEF RowOwed
    <2> QED
        BY <2>3, <2>4, <2>5, <2>6, <2>7
<1>4. ASSUME NEW t \in Tasks, FailStalledTask(t)
      PROVE  RowsFollow'
    BY <1>4 DEF FailStalledTask, Stalled, rowVars, recoveryVars
<1>5. CASE ListStaleNodes \/ (\E w \in Workers : MarkWorkerOffline(w)) \/ ListWorkerTasks
    <2>1. UNCHANGED rowFollowVars
        BY <1>5 DEF ListStaleNodes, MarkWorkerOffline, ListWorkerTasks, rowFollowVars, taskVars, rowVars
    <2> QED
        BY <2>1 DEF rowFollowVars
<1> QED
    BY <1>1, <1>2, <1>3, <1>4, <1>5 DEF Reconcile, FailStalled

LEMMA NextKeepsRows == RowInv /\ [Next]_vars => RowInv'
<1> SUFFICES ASSUME RowInv, [Next]_vars
             PROVE  RowInv'
    OBVIOUS
<1>1. TypeOK'
    BY NextTypes DEF RowInv
<1>2. CASE Next
    <2>1. RowsFollow'
        BY <1>2, UserKeepsRows, AgentKeepsRows, HandleKeepsRows, FaultKeepsRows, ReconcileKeepsRows
           DEF Next
    <2> QED
        BY <1>1, <2>1 DEF RowInv
<1>3. CASE UNCHANGED vars
    BY <1>1, <1>3 DEF vars, RowInv, RowsFollow, RowOwed, Excused, cancelVars
<1> QED
    BY <1>2, <1>3

\* An ended task leaves no live row in the pool's queue, whatever requeues,
\* lost reports and restarts it went through, unless its row was written by two
\* at a time, or its cancel has not come to the row, or was cut off before.
THEOREM RowsLeaveWithTasks == Spec => []EndedTasksLeaveQueue
<1>1. Init => RowInv
    <2> SUFFICES ASSUME Init
                 PROVE  RowsFollow
        BY InitTypes DEF RowInv
    <2> QED
        BY DEF Init, RowsFollow, RowOwed, ActiveStates, EndStates
<1>2. RowInv => EndedTasksLeaveQueue
    BY DEF RowInv, RowsFollow, Excused, EndedTasksLeaveQueue, Ended
<1> QED
    BY <1>1, <1>2, NextKeepsRows, PTL DEF Spec
=============================================================================
