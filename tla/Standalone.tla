----------------------------- MODULE Standalone -----------------------------
(***************************************************************************)
(* An application outside the pools and the health of its host: admission  *)
(* of its launches under remote_app:<id>, their outcome in launch_app, and *)
(* remote_app_health with its cooldown and probe (resource_pool_service.py, *)
(* router.py).  Those who launch it have signed in (Login).                *)
(*                                                                         *)
(* The portal is one process, and launch_app and the probe run on its      *)
(* event loop: what launch_app does before it awaits Guacamole is one      *)
(* step, what it does after is another, a probe is a third.  The lock so   *)
(* never meets a holder.  Sessions end in other threads.                   *)
(***************************************************************************)
EXTENDS Login, FiniteSets

CONSTANTS
    Launches,        \* bound: launches under way or running at once
    MaxConcurrent,   \* member_max_concurrent
    UserLimit,       \* same_user_same_app_limit, 0 for none
    Base,            \* runtime_failure_cooldown_seconds, in ticks
    MaxCooldown,     \* runtime_failure_max_cooldown_seconds, in ticks
    MaxFailures,     \* bound: failures counted
    None

VARIABLES
    health,      \* the row of remote_app_health
    launch,      \* launches under way, and the sessions they became
    reachable,   \* the host answers on its port
    overlapped   \* history: launches under way when another was admitted

launchVars == <<health, launch, reachable, overlapped>>
vars == <<launchVars, loginVars>>

Health ==
    [status : {"unknown", "healthy", "cooldown", "unreachable"},
     failures : 0..MaxFailures, left : 0..MaxCooldown]
Launch == [user : Users, pc : {"connecting", "session"}]

ASSUME StandaloneAssumption ==
    /\ IsFiniteSet(Launches)
    /\ MaxConcurrent \in Nat \ {0} /\ UserLimit \in Nat
    /\ Base \in Nat \ {0} /\ MaxCooldown \in Nat \ {0} /\ MaxFailures \in Nat \ {0}
    /\ None \notin Launch

Lesser(a, b) == IF a < b THEN a ELSE b

Cooldown(failures) == Lesser(Base * 2^(failures - 1), MaxCooldown)

\* runtime_is_launchable
Launchable == health.left = 0 /\ health.status # "unreachable"

At(pc) == {l \in Launches : launch[l] # None /\ launch[l].pc = pc}
SessionsOf(u) == {l \in At("session") : launch[l].user = u}

---------------------------------------------------------------------------
(* mark_runtime_launch_success and mark_runtime_launch_failure.            *)

Healthy == [status |-> "healthy", failures |-> 0, left |-> 0]

FailuresNow == Lesser(health.failures + 1, MaxFailures)

Failed == [status |-> "cooldown", failures |-> FailuresNow, left |-> Cooldown(FailuresNow)]

---------------------------------------------------------------------------
(* launch_app                                                              *)

\* Seeded fault of HasRoom: off by one.
HasRoomOneMore == Cardinality(At("session")) <= MaxConcurrent

HasRoom == Cardinality(At("session")) < MaxConcurrent

\* _prepare_standalone_launch, which counts sessions and reserves nothing.
Admits(u) ==
    /\ Launchable
    /\ HasRoom
    /\ UserLimit > 0 => Cardinality(SessionsOf(u)) < UserLimit

Prepare(l, u) ==
    /\ launch[l] = None
    /\ SignedIn(u)
    /\ Admits(u)
    /\ launch' = [launch EXCEPT ![l] = [user |-> u, pc |-> "connecting"]]
    /\ overlapped' = IF At("connecting") = {} THEN overlapped
                     ELSE overlapped \cup At("connecting") \cup {l}
    /\ UNCHANGED <<health, reachable, loginVars>>

\* The connection cannot be built: the failure counts before Guacamole is asked.
PrepareUnbuildable(u) ==
    /\ SignedIn(u)
    /\ Admits(u)
    /\ health' = Failed
    /\ UNCHANGED <<launch, reachable, overlapped, loginVars>>

LaunchSucceeds(l) ==
    /\ l \in At("connecting")
    /\ launch' = [launch EXCEPT ![l].pc = "session"]
    /\ health' = Healthy
    /\ UNCHANGED <<reachable, overlapped, loginVars>>

\* Guacamole fails, or the session cannot be written.
LaunchFails(l) ==
    /\ l \in At("connecting")
    /\ launch' = [launch EXCEPT ![l] = None]
    /\ overlapped' = overlapped \ {l}
    /\ health' = Failed
    /\ UNCHANGED <<reachable, loginVars>>

SessionEnds(l) ==
    /\ l \in At("session")
    /\ launch' = [launch EXCEPT ![l] = None]
    /\ overlapped' = overlapped \ {l}
    /\ UNCHANGED <<health, reachable, loginVars>>

---------------------------------------------------------------------------
(* probe_runtime_health, every minute.                                     *)

InCooldown == health.status = "cooldown" /\ health.left > 0

\* Seeded faults of Probed: a host at rest is probed; one down is not again.
ProbedAtOnce == IF reachable THEN Healthy ELSE [health EXCEPT !.status = "unreachable"]

ProbedOnce ==
    IF InCooldown \/ health.status = "unreachable" THEN health
    ELSE IF reachable THEN Healthy ELSE [health EXCEPT !.status = "unreachable"]

Probed ==
    IF InCooldown THEN health
    ELSE IF reachable THEN Healthy ELSE [health EXCEPT !.status = "unreachable"]

Probe == health' = Probed /\ UNCHANGED <<launch, reachable, overlapped, loginVars>>

---------------------------------------------------------------------------
Tick ==
    /\ health.left > 0
    /\ health' = [health EXCEPT !.left = @ - 1]
    /\ UNCHANGED <<launch, reachable, overlapped, loginVars>>

HostChanges == reachable' = ~reachable /\ UNCHANGED <<health, launch, overlapped, loginVars>>

\* The portal stops: launches under way are forgotten, but for one that may
\* have written its session and not yet its success, and so are the limiter's
\* attempts.  Tokens stay good.
Restart ==
    /\ At("connecting") # {} \/ attempts > 0
    /\ attempts' = 0
    /\ \E kept \in {{}} \cup {{l} : l \in At("connecting")} :
          /\ launch' = [l \in Launches |->
                IF l \in kept THEN [launch[l] EXCEPT !.pc = "session"]
                ELSE IF l \in At("connecting") THEN None ELSE launch[l]]
          /\ overlapped' = overlapped \ (At("connecting") \ kept)
    /\ UNCHANGED <<health, reachable, active, token, inactive>>

---------------------------------------------------------------------------
Init ==
    /\ LoginInit
    /\ health = [status |-> "unknown", failures |-> 0, left |-> 0]
    /\ launch = [l \in Launches |-> None]
    /\ reachable \in BOOLEAN
    /\ overlapped = {}

Next ==
    \/ \E u \in Users : PrepareUnbuildable(u) \/ \E l \in Launches : Prepare(l, u)
    \/ \E l \in Launches : LaunchSucceeds(l) \/ LaunchFails(l) \/ SessionEnds(l)
    \/ Probe \/ Tick \/ HostChanges \/ Restart
    \/ LoginStep /\ UNCHANGED launchVars

Spec == Init /\ [][Next]_vars

\* Time passes, and the cleanup loop probes.
FairSpec == Spec /\ WF_vars(Tick) /\ WF_vars(Probe)

---------------------------------------------------------------------------
(* Whichever of success, failure and probe wrote last: a host being rested *)
(* has failed, for no longer than its failures earn, and a healthy one     *)
(* carries no failure or cooldown into the next.                           *)
HealthConsistent ==
    /\ health.status = "cooldown" => health.failures > 0
    /\ health.left > 0 => health.status = "cooldown" /\ health.left <= Cooldown(health.failures)
    /\ health.status \in {"unknown", "healthy"} => health.failures = 0

\* The variables have their types, and the row of a host is one of the
\* shapes the writers between them leave (remote_app_health).
TypeOK ==
    /\ LoginTypeOK
    /\ health \in Health
    /\ HealthConsistent
    /\ launch \in [Launches -> Launch \cup {None}]
    /\ reachable \in BOOLEAN
    /\ overlapped \subseteq Launches

(* The application runs no more than member_max_concurrent sessions, save  *)
(* for those whose launches were under way together; the row of its host   *)
(* is in a shape its writers leave (_prepare_standalone_launch).           *)
WithinMaxConcurrent ==
    /\ TypeOK
    /\ Cardinality(At("session") \ overlapped) <= MaxConcurrent

\* Who launches could open the page now, or not so long ago.
FollowsAccount(l) ==
    launch[l] = None /\ launch'[l] # None =>
        LET u == launch'[l].user IN PageOpens(u) \/ inactive[u] < Life

(* A disabled account launches nothing once a token's lifetime has passed, *)
(* though no token is withdrawn, the limiter forgets and accounts come     *)
(* back (get_current_user, delete_user).                                   *)
LaunchesFollowAccounts == [][\A l \in Launches : FollowsAccount(l)]_vars

EndsEarly == health.left > 1 /\ health'.left = 0

Succeeds(l) == l \in At("connecting") /\ launch'[l] # None /\ launch'[l].pc = "session"

(* A cooldown runs its time: the probe, which may reach the host all the   *)
(* while, does not end it; a launch admitted earlier may.                  *)
CooldownLasts == [][EndsEarly => \E l \in Launches : Succeeds(l)]_vars

(* A host that answers for good is offered again, whatever its failures,   *)
(* and whatever the launches still under way report.                       *)
ReachableAgain == <>[]reachable => []<>Launchable
=============================================================================
