-------------------------- MODULE StandaloneProofs --------------------------
(***************************************************************************)
(* Theorems about Standalone and the Login it is composed with, for every  *)
(* set of users, every finite number of launches, and every limit and      *)
(* cooldown.                                                               *)
(***************************************************************************)
EXTENDS Standalone, FiniteSetTheorems, TLAPS

(* The inductive invariant.                                                *)

\* A launch under way that overlapped no other is the only one, and leaves
\* room for the session it becomes.
LoneLaunch ==
    \A l \in At("connecting") \ overlapped :
        /\ At("connecting") = {l}
        /\ Cardinality(At("session") \ overlapped) < MaxConcurrent

\* The longer an account has been disabled, the less is left of its tokens.
TokensRunOut == \A u \in Users : ~active[u] /\ token[u] > 0 => token[u] + inactive[u] <= Life

StandaloneInv == WithinMaxConcurrent /\ LoneLaunch /\ TokensRunOut

-----------------------------------------------------------------------------
(* Cooldowns.                                                              *)

\* Powers of two are counts of subsets.
LEMMA PowersOfTwo ==
    ASSUME NEW n \in Nat
    PROVE  2^n \in Nat \ {0}
<1> DEFINE S == 1..n
<1>1. IsFiniteSet(S) /\ Cardinality(S) = n
    <2>1. 1 \in Int /\ n \in Int
        OBVIOUS
    <2>2. IsFiniteSet(1..n) /\ Cardinality(1..n) = IF 1 > n THEN 0 ELSE n - 1 + 1
        BY <2>1, FS_Interval
    <2> QED
        BY <2>2
<1> HIDE DEF S
<1>2. IsFiniteSet(SUBSET S) /\ Cardinality(SUBSET S) = 2^n
    BY <1>1, FS_SUBSET
<1>3. SUBSET S # {}
    OBVIOUS
<1> QED
    BY <1>2, <1>3, FS_EmptySet, FS_CardinalityType

\* A failure rests the host for a while, and no longer than the most.
LEMMA CooldownShape ==
    ASSUME NEW failures \in 1..MaxFailures
    PROVE  Cooldown(failures) \in 1..MaxCooldown
<1>1. 2^(failures - 1) \in Nat \ {0}
    <2>1. failures - 1 \in Nat
        BY StandaloneAssumption
    <2> QED
        BY <2>1, PowersOfTwo
<1> DEFINE p == 2^(failures - 1)
<1> HIDE DEF p
<1>2. Base * p \in Nat \ {0}
    BY <1>1, StandaloneAssumption DEF p
<1>3. Cooldown(failures) = Lesser(Base * p, MaxCooldown)
    BY DEF Cooldown, p
<1> DEFINE b == Base * p
<1> HIDE DEF b
<1>4. Lesser(b, MaxCooldown) \in 1..MaxCooldown
    BY <1>2, StandaloneAssumption DEF Lesser, b
<1> QED
    BY <1>3, <1>4 DEF b

\* The row a failure leaves.
LEMMA FailedShape ==
    ASSUME TypeOK
    PROVE  /\ Failed \in Health /\ Failed.status = "cooldown"
           /\ Failed.failures > 0 /\ Failed.left > 0 /\ Failed.left = Cooldown(Failed.failures)
<1>1. FailuresNow \in 1..MaxFailures
    BY StandaloneAssumption DEF TypeOK, Health, FailuresNow, Lesser
<1>2. Cooldown(FailuresNow) \in 1..MaxCooldown
    BY <1>1, CooldownShape
<1> QED
    BY <1>1, <1>2, StandaloneAssumption DEF Failed, Health

\* The row's fields.
LEMMA HealthShape ==
    ASSUME TypeOK
    PROVE  /\ health \in Health /\ health.failures \in 0..MaxFailures /\ health.left \in 0..MaxCooldown
           /\ health.status \in {"unknown", "healthy", "cooldown", "unreachable"}
           /\ health = [status |-> health.status, failures |-> health.failures, left |-> health.left]
BY DEF TypeOK, Health

\* What anything but a success makes of the row.
RestsOn ==
    \/ health' \in {health, Failed, Probed}
    \/ health.left > 0 /\ health' = [health EXCEPT !.left = @ - 1]

\* Every writer of the row leaves one of its shapes, and only a success ends
\* a cooldown before its last period.
LEMMA WritersKeepShape ==
    ASSUME TypeOK, health' = Healthy \/ RestsOn
    PROVE  /\ health' \in Health /\ HealthConsistent'
           /\ RestsOn => ~EndsEarly
<1>1. /\ health \in Health /\ health.failures \in 0..MaxFailures /\ health.left \in 0..MaxCooldown
      /\ health.status \in {"unknown", "healthy", "cooldown", "unreachable"}
      /\ HealthConsistent
    BY HealthShape DEF TypeOK
<1>2. health.status = "cooldown" => Cooldown(health.failures) \in 1..MaxCooldown
    <2>1. health.status = "cooldown" => health.failures \in 1..MaxFailures
        BY <1>1, StandaloneAssumption DEF HealthConsistent
    <2> QED
        BY <2>1, CooldownShape
<1>3. CASE health' = health
    BY <1>1, <1>3 DEF HealthConsistent, EndsEarly
<1>4. CASE health' = Failed
    <2>1. /\ Failed \in Health /\ Failed.status = "cooldown"
          /\ Failed.failures > 0 /\ Failed.left > 0 /\ Failed.left = Cooldown(Failed.failures)
        BY FailedShape
    <2>2. Failed.left \in Int
        BY <2>1, StandaloneAssumption DEF Health
    <2> HIDE DEF Failed
    <2> QED
        BY <1>4, <2>1, <2>2 DEF HealthConsistent, EndsEarly
<1>5. Healthy \in Health /\ Healthy.status = "healthy" /\ Healthy.failures = 0 /\ Healthy.left = 0
    BY StandaloneAssumption DEF Healthy, Health
<1>6. CASE health' = Healthy /\ ~RestsOn
    BY <1>5, <1>6 DEF HealthConsistent
<1>7. CASE health' = Probed /\ health' # health
    <2>1. health.left = 0
        BY <1>1, <1>7 DEF Probed, InCooldown, HealthConsistent
    <2>2. CASE health' = Healthy
        BY <1>5, <2>1, <2>2 DEF HealthConsistent, EndsEarly
    <2>3. CASE health' = [health EXCEPT !.status = "unreachable"]
        <3>1. /\ health' \in Health /\ health'.status = "unreachable" /\ health'.left = 0
            BY <1>1, <2>1, <2>3 DEF Health
        <3> QED
            BY <2>1, <3>1 DEF HealthConsistent, EndsEarly
    <2> QED
        BY <1>7, <2>2, <2>3 DEF Probed
<1>8. CASE health.left > 0 /\ health' = [health EXCEPT !.left = @ - 1]
    <2>1. /\ health' \in Health /\ health'.status = health.status /\ health'.failures = health.failures
          /\ health'.left = health.left - 1
        <3>1. health.left - 1 \in 0..MaxCooldown
            BY <1>1, <1>8, StandaloneAssumption
        <3>2. health' = [health EXCEPT !.left = health.left - 1]
            BY <1>8
        <3> QED
            BY <1>1, <3>1, <3>2 DEF Health
    <2>2. health.status = "cooldown" /\ health.left <= Cooldown(health.failures) /\ health.failures > 0
        BY <1>1, <1>8 DEF HealthConsistent
    <2> QED
        BY <1>1, <1>2, <1>8, <2>1, <2>2 DEF HealthConsistent, EndsEarly
<1> QED
    BY <1>3, <1>4, <1>6, <1>7, <1>8 DEF RestsOn

-----------------------------------------------------------------------------
(* Launches.                                                               *)

\* The sets of launches are finite.
LEMMA Counts ==
    ASSUME TypeOK
    PROVE  /\ \A S \in SUBSET Launches : IsFiniteSet(S) /\ Cardinality(S) \in Nat
           /\ At("connecting") \in SUBSET Launches /\ At("session") \in SUBSET Launches
           /\ At("connecting") \cap At("session") = {}
<1>1. \A S \in SUBSET Launches : IsFiniteSet(S) /\ Cardinality(S) \in Nat
    BY StandaloneAssumption, FS_Subset, FS_CardinalityType
<1> QED
    BY <1>1 DEF At

\* A smaller set of launches.
LEMMA Fewer ==
    ASSUME NEW S \in SUBSET Launches, NEW T \in SUBSET S
    PROVE  Cardinality(T) <= Cardinality(S)
BY StandaloneAssumption, FS_Subset

\* The launches of an application after one of its steps.
Becomes(l, pc) ==
    /\ launch' \in [Launches -> Launch \cup {None}]
    /\ At("connecting")' = IF pc = "connecting" THEN At("connecting") \cup {l} ELSE At("connecting") \ {l}
    /\ At("session")' = IF pc = "session" THEN At("session") \cup {l} ELSE At("session") \ {l}

LEMMA EndShape ==
    ASSUME TypeOK, NEW l \in Launches, launch' = [launch EXCEPT ![l] = None]
    PROVE  Becomes(l, "none")
BY DEF TypeOK, Becomes, At

LEMMA AdmitShape ==
    ASSUME TypeOK, NEW l \in Launches, launch[l] = None, NEW u \in Users,
           launch' = [launch EXCEPT ![l] = [user |-> u, pc |-> "connecting"]]
    PROVE  Becomes(l, "connecting") /\ launch'[l].user = u
<1> DEFINE new == [user |-> u, pc |-> "connecting"]
<1>1. new \in Launch /\ new.pc = "connecting" /\ new.user = u
    BY DEF Launch
<1>2. launch' = [launch EXCEPT ![l] = new]
    OBVIOUS
<1> HIDE DEF new
<1>3. new # None
    BY <1>1, StandaloneAssumption
<1> QED
    BY <1>1, <1>2, <1>3 DEF TypeOK, Becomes, At

LEMMA SuccessShape ==
    ASSUME TypeOK, NEW l \in At("connecting"), launch' = [launch EXCEPT ![l].pc = "session"]
    PROVE  Becomes(l, "session") /\ Succeeds(l)
<1>1. l \in Launches /\ launch[l] \in Launch /\ launch \in [Launches -> Launch \cup {None}]
    BY DEF At, TypeOK
<1> DEFINE new == [launch[l] EXCEPT !.pc = "session"]
<1>2. launch' = [launch EXCEPT ![l] = new]
    BY <1>1
<1>3. new \in Launch /\ new.pc = "session"
    BY <1>1 DEF Launch
<1> HIDE DEF new
<1>4. new # None
    BY <1>3, StandaloneAssumption
<1> QED
    BY <1>1, <1>2, <1>3, <1>4 DEF Becomes, At, Succeeds

\* The launches that overlapped no other, once a launch has gone on, or gone.
LEMMA CountKept ==
    ASSUME StandaloneInv, TypeOK', NEW l \in Launches,
           \/ Becomes(l, "none") /\ overlapped' = overlapped \ {l}
           \/ Becomes(l, "session") /\ overlapped' = overlapped /\ l \in At("connecting")
           \/ UNCHANGED <<launch, overlapped>>
    PROVE  WithinMaxConcurrent' /\ LoneLaunch'
<1> DEFINE S == At("session") \ overlapped
<1>1. /\ TypeOK /\ LoneLaunch /\ Cardinality(S) <= MaxConcurrent
      /\ S \in SUBSET Launches /\ MaxConcurrent \in Nat
    BY StandaloneAssumption DEF StandaloneInv, WithinMaxConcurrent, At
<1>2. Cardinality(S) \in Nat /\ IsFiniteSet(S)
    BY <1>1, Counts
<1>3. At("connecting") \cap At("session") = {}
    BY <1>1, Counts
<1>4. CASE UNCHANGED <<launch, overlapped>>
    BY <1>1, <1>4 DEF WithinMaxConcurrent, LoneLaunch, At
<1>5. CASE Becomes(l, "none") /\ overlapped' = overlapped \ {l}
    <2>1. /\ At("connecting")' = At("connecting") \ {l}
          /\ At("session")' \ overlapped' = S \ {l}
        BY <1>5 DEF Becomes
    <2>2. Cardinality(S \ {l}) <= Cardinality(S) /\ Cardinality(S \ {l}) \in Nat
        BY <1>1, Fewer, Counts
    <2>3. WithinMaxConcurrent'
        BY <1>1, <1>2, <2>1, <2>2 DEF WithinMaxConcurrent
    <2>4. ASSUME NEW k \in At("connecting")' \ overlapped'
          PROVE  At("connecting")' = {k} /\ Cardinality(At("session")' \ overlapped') < MaxConcurrent
        <3>1. k \in At("connecting") \ overlapped /\ k # l
            BY <1>5, <2>1
        <3>2. At("connecting") = {k} /\ Cardinality(S) < MaxConcurrent
            BY <1>1, <3>1 DEF LoneLaunch
        <3> QED
            BY <1>1, <1>2, <2>1, <2>2, <3>1, <3>2
    <2> QED
        BY <2>3, <2>4 DEF LoneLaunch
<1>6. CASE Becomes(l, "session") /\ overlapped' = overlapped /\ l \in At("connecting")
    <2>1. /\ At("connecting")' = At("connecting") \ {l}
          /\ At("session")' \ overlapped' = IF l \in overlapped THEN S ELSE S \cup {l}
        BY <1>6 DEF Becomes
    <2>2. CASE l \in overlapped
        <3>1. WithinMaxConcurrent'
            BY <1>1, <2>1, <2>2 DEF WithinMaxConcurrent
        <3>2. ASSUME NEW k \in At("connecting")' \ overlapped'
              PROVE  FALSE
            <4>1. At("connecting") = {k}
                BY <1>1, <1>6, <2>1 DEF LoneLaunch
            <4> QED
                BY <1>6, <2>1, <4>1
        <3> QED
            BY <3>1, <3>2 DEF LoneLaunch
    <2>3. CASE l \notin overlapped
        <3>1. At("connecting") = {l} /\ Cardinality(S) < MaxConcurrent
            BY <1>1, <1>6, <2>3 DEF LoneLaunch
        <3>2. l \notin S
            BY <1>3, <1>6
        <3>3. Cardinality(S \cup {l}) = Cardinality(S) + 1
            BY <1>2, <3>2, FS_AddElement
        <3>4. WithinMaxConcurrent'
            BY <1>1, <1>2, <2>1, <2>3, <3>1, <3>3 DEF WithinMaxConcurrent
        <3> QED
            BY <2>1, <3>1, <3>4 DEF LoneLaunch
    <2> QED
        BY <2>2, <2>3
<1> QED
    BY <1>4, <1>5, <1>6

\* A launch admitted while none is under way finds room; one that is not
\* admitted alone overlaps.
LEMMA PrepareKeeps ==
    ASSUME StandaloneInv, TypeOK', NEW l \in Launches, NEW u \in Users, Prepare(l, u)
    PROVE  WithinMaxConcurrent' /\ LoneLaunch'
<1>1. TypeOK /\ LoneLaunch /\ Cardinality(At("session") \ overlapped) <= MaxConcurrent /\ MaxConcurrent \in Nat
    BY StandaloneAssumption DEF StandaloneInv, WithinMaxConcurrent
<1>2. Becomes(l, "connecting")
    BY <1>1, AdmitShape DEF Prepare
<1>3. /\ Cardinality(At("session")) < MaxConcurrent
      /\ l \notin At("session") /\ l \notin At("connecting")
      /\ overlapped' = IF At("connecting") = {} THEN overlapped
                       ELSE overlapped \cup At("connecting") \cup {l}
    BY DEF Prepare, Admits, HasRoom, At
<1>4. At("connecting")' = At("connecting") \cup {l} /\ At("session")' = At("session")
    BY <1>2, <1>3 DEF Becomes
<1>5. /\ \A S \in SUBSET Launches : IsFiniteSet(S) /\ Cardinality(S) \in Nat
      /\ At("session") \in SUBSET Launches
    BY <1>1, Counts
<1>6. CASE At("connecting") = {}
    <2>1. /\ overlapped' = overlapped /\ At("connecting")' = {l}
        BY <1>3, <1>4, <1>6
    <2>2. /\ Cardinality(At("session") \ overlapped) <= Cardinality(At("session"))
          /\ Cardinality(At("session")) \in Nat /\ Cardinality(At("session") \ overlapped) \in Nat
        BY <1>5, Fewer
    <2>3. Cardinality(At("session") \ overlapped) < MaxConcurrent
        BY <1>1, <1>3, <2>2
    <2> QED
        BY <1>1, <1>4, <2>1, <2>3 DEF WithinMaxConcurrent, LoneLaunch
<1>7. CASE At("connecting") # {}
    <2>1. overlapped' = overlapped \cup At("connecting") \cup {l}
        BY <1>3, <1>7
    <2>2. At("session")' \ overlapped' \in SUBSET (At("session") \ overlapped)
        BY <1>4, <2>1
    <2>3. /\ Cardinality(At("session")' \ overlapped') <= Cardinality(At("session") \ overlapped)
          /\ Cardinality(At("session")' \ overlapped') \in Nat
          /\ Cardinality(At("session") \ overlapped) \in Nat
        <3>1. At("session") \ overlapped \in SUBSET Launches /\ At("session")' \ overlapped' \in SUBSET Launches
            BY <1>5, <2>2
        <3> QED
            BY <1>5, <2>2, <3>1, Fewer
    <2>4. WithinMaxConcurrent'
        BY <1>1, <2>3 DEF WithinMaxConcurrent
    <2>5. At("connecting")' \ overlapped' = {}
        BY <1>4, <2>1
    <2> QED
        BY <2>4, <2>5 DEF LoneLaunch
<1> QED
    BY <1>6, <1>7

\* A restart keeps one launch under way at most, as a session.
LEMMA RestartKeeps ==
    ASSUME StandaloneInv, Restart
    PROVE  TypeOK' /\ WithinMaxConcurrent' /\ LoneLaunch'
<1>1. TypeOK /\ LoneLaunch /\ Cardinality(At("session") \ overlapped) <= MaxConcurrent /\ MaxConcurrent \in Nat
    BY StandaloneAssumption DEF StandaloneInv, WithinMaxConcurrent
<1>2. PICK kept \in {{}} \cup {{l} : l \in At("connecting")} :
          /\ launch' = [l \in Launches |->
                IF l \in kept THEN [launch[l] EXCEPT !.pc = "session"]
                ELSE IF l \in At("connecting") THEN None ELSE launch[l]]
          /\ overlapped' = overlapped \ (At("connecting") \ kept)
    BY DEF Restart
<1>3. /\ UNCHANGED <<health, reachable, active, token, inactive>> /\ attempts' = 0
    BY DEF Restart
<1>4. \A l \in kept : l \in At("connecting") /\ l \in Launches /\ launch[l] \in Launch
    BY <1>1, <1>2 DEF At, TypeOK
<1>5. /\ launch' \in [Launches -> Launch \cup {None}]
      /\ \A l \in kept : launch'[l] # None /\ launch'[l].pc = "session"
      /\ \A l \in At("connecting") \ kept : launch'[l] = None
      /\ \A l \in Launches \ At("connecting") : launch'[l] = launch[l]
    <2>1. \A l \in kept : /\ [launch[l] EXCEPT !.pc = "session"] \in Launch
                        /\ [launch[l] EXCEPT !.pc = "session"].pc = "session"
        BY <1>4 DEF Launch
    <2>2. \A l \in Launches : launch[l] \in Launch \cup {None}
        BY <1>1 DEF TypeOK
    <2>3. ASSUME NEW l \in Launches
          PROVE  /\ launch'[l] \in Launch \cup {None}
                 /\ l \in kept => launch'[l] # None /\ launch'[l].pc = "session"
                 /\ l \in At("connecting") \ kept => launch'[l] = None
                 /\ l \notin At("connecting") => launch'[l] = launch[l]
        <3>1. CASE l \in kept
            <4>1. launch'[l] = [launch[l] EXCEPT !.pc = "session"]
                BY <1>2, <3>1
            <4>2. launch'[l] \in Launch /\ launch'[l].pc = "session"
                BY <2>1, <3>1, <4>1
            <4> QED
                BY <1>4, <3>1, <4>2, StandaloneAssumption
        <3>2. CASE l \notin kept
            <4>1. launch'[l] = IF l \in At("connecting") THEN None ELSE launch[l]
                BY <1>2, <3>2
            <4> QED
                BY <2>2, <3>2, <4>1
        <3> QED
            BY <3>1, <3>2
    <2>4. \E f : launch' = [l \in Launches |-> f[l]]
        <3> DEFINE f == [l \in Launches |->
                IF l \in kept THEN [launch[l] EXCEPT !.pc = "session"]
                ELSE IF l \in At("connecting") THEN None ELSE launch[l]]
        <3>1. launch' = f /\ f = [l \in Launches |-> f[l]]
            BY <1>2
        <3> QED
            BY <3>1
    <2>5. At("connecting") \subseteq Launches
        BY DEF At
    <2> QED
        BY <1>4, <2>3, <2>4, <2>5
<1>6. /\ At("connecting")' = {} /\ At("session")' = At("session") \cup kept
    <2>1. At("connecting") \subseteq Launches /\ At("session") \subseteq Launches
          /\ At("connecting") \cap At("session") = {} /\ kept \subseteq At("connecting")
        BY <1>4 DEF At
    <2>2. ASSUME NEW l \in Launches
          PROVE  /\ l \notin At("connecting")'
                 /\ l \in At("session")' <=> l \in At("session") \cup kept
        BY <1>5, <2>1 DEF At
    <2>3. At("connecting")' \subseteq Launches /\ At("session")' \subseteq Launches
        BY DEF At
    <2> QED
        BY <2>1, <2>2, <2>3
<1>7. TypeOK'
    <2>1. LoginTypeOK'
        BY <1>1, <1>3, LoginAssumption DEF TypeOK, LoginTypeOK
    <2>2. HealthConsistent'
        BY <1>1, <1>3 DEF TypeOK, HealthConsistent
    <2>3. overlapped' \subseteq Launches
        BY <1>1, <1>2 DEF TypeOK
    <2> QED
        BY <1>1, <1>3, <1>5, <2>1, <2>2, <2>3 DEF TypeOK
<1>8. LoneLaunch'
    BY <1>6 DEF LoneLaunch
<1>9. Cardinality(At("session")' \ overlapped') <= MaxConcurrent
    <2> DEFINE S == At("session") \ overlapped
    <2>1. /\ IsFiniteSet(S) /\ Cardinality(S) \in Nat /\ S \in SUBSET Launches
          /\ At("connecting") \cap At("session") = {}
        BY <1>1, Counts
    <2>2. CASE kept \subseteq overlapped
        <3>1. At("session")' \ overlapped' = S
            BY <1>2, <1>4, <1>6, <2>1, <2>2
        <3> QED
            BY <1>1, <3>1
    <2>3. CASE ~(kept \subseteq overlapped)
        <3>1. PICK l \in kept : l \notin overlapped
            BY <2>3
        <3>2. kept = {l} /\ l \in At("connecting") \ overlapped
            BY <1>2, <1>4, <3>1
        <3>3. Cardinality(S) < MaxConcurrent
            BY <1>1, <3>2 DEF LoneLaunch
        <3>4. At("session")' \ overlapped' = S \cup {l} /\ l \notin S
            BY <1>2, <1>6, <2>1, <3>2
        <3>5. Cardinality(S \cup {l}) = Cardinality(S) + 1
            BY <2>1, <3>4, FS_AddElement
        <3> QED
            BY <1>1, <2>1, <3>3, <3>4, <3>5
    <2> QED
        BY <2>2, <2>3
<1> QED
    BY <1>7, <1>8, <1>9 DEF WithinMaxConcurrent

-----------------------------------------------------------------------------
(* Accounts.                                                               *)

LEMMA LoginKeeps ==
    ASSUME LoginTypeOK, TokensRunOut, LoginStep
    PROVE  LoginTypeOK' /\ TokensRunOut'
<1> USE LoginAssumption
<1>1. ASSUME NEW u \in Users, LogIn(u)
      PROVE  LoginTypeOK' /\ TokensRunOut'
    BY <1>1 DEF LogIn, Attempt, Account, NewToken, LoginTypeOK, TokensRunOut
<1>2. ASSUME NEW u \in Users, SetAccount(u)
      PROVE  LoginTypeOK' /\ TokensRunOut'
    <2>1. LoginTypeOK'
        BY <1>2 DEF SetAccount, LoginTypeOK
    <2>2. ASSUME NEW v \in Users, ~active'[v], token'[v] > 0
          PROVE  token'[v] + inactive'[v] <= Life
        BY <1>2, <2>2 DEF SetAccount, LoginTypeOK, TokensRunOut
    <2> QED
        BY <2>1, <2>2 DEF TokensRunOut
<1>3. CASE LogInFails
    BY <1>3 DEF LogInFails, Attempt, LoginTypeOK, TokensRunOut
<1>4. CASE AttemptAges
    BY <1>4 DEF AttemptAges, LoginTypeOK, TokensRunOut
<1>5. CASE TokensAge
    <2>1. /\ token' \in [Users -> 0..Life] /\ inactive' \in [Users -> 0..Life]
          /\ \A u \in Users :
                /\ token'[u] = IF token[u] > 0 THEN token[u] - 1 ELSE 0
                /\ inactive'[u] = IF ~active[u] /\ inactive[u] < Life THEN inactive[u] + 1 ELSE inactive[u]
        BY <1>5 DEF TokensAge, LoginTypeOK
    <2>2. LoginTypeOK'
        BY <1>5, <2>1 DEF TokensAge, LoginTypeOK
    <2>3. ASSUME NEW u \in Users, ~active'[u], token'[u] > 0
          PROVE  token'[u] + inactive'[u] <= Life
        <3>1. /\ ~active[u] /\ token[u] \in 0..Life /\ inactive[u] \in 0..Life
            BY <1>5, <2>3 DEF TokensAge, LoginTypeOK
        <3>2. token[u] > 0 /\ token'[u] = token[u] - 1
            BY <2>1, <2>3, <3>1
        <3>3. token[u] + inactive[u] <= Life
            BY <3>1, <3>2 DEF TokensRunOut
        <3>4. inactive'[u] <= inactive[u] + 1 /\ inactive'[u] \in Int
            BY <2>1, <3>1
        <3> QED
            BY <3>1, <3>2, <3>3, <3>4
    <2> QED
        BY <2>2, <2>3 DEF TokensRunOut
<1> QED
    BY <1>1, <1>2, <1>3, <1>4, <1>5 DEF LoginStep

-----------------------------------------------------------------------------
LEMMA InitStandaloneInv == Init => StandaloneInv
<1> SUFFICES ASSUME Init
             PROVE  StandaloneInv
    OBVIOUS
<1>1. At("connecting") = {} /\ At("session") \ overlapped = {}
    BY DEF Init, At
<1>2. TypeOK
    <2>1. LoginTypeOK
        BY LoginAssumption DEF Init, LoginInit, LoginTypeOK
    <2>2. health \in Health /\ HealthConsistent
        BY StandaloneAssumption DEF Init, Health, HealthConsistent
    <2> QED
        BY <2>1, <2>2 DEF Init, TypeOK
<1>3. Cardinality(At("session") \ overlapped) <= MaxConcurrent
    BY <1>1, FS_EmptySet, StandaloneAssumption
<1>4. TokensRunOut
    BY LoginAssumption DEF Init, LoginInit, TokensRunOut
<1> QED
    BY <1>1, <1>2, <1>3, <1>4 DEF StandaloneInv, WithinMaxConcurrent, LoneLaunch

\* What each step makes of the row and of the launches.
LEMMA LaunchStep ==
    ASSUME StandaloneInv, NEW l \in Launches, LaunchSucceeds(l) \/ LaunchFails(l) \/ SessionEnds(l)
    PROVE  StandaloneInv' /\ (EndsEarly => Succeeds(l)) /\ \A k \in Launches : FollowsAccount(k)
<1>1. TypeOK /\ LoginTypeOK /\ launch \in [Launches -> Launch \cup {None}]
    BY DEF StandaloneInv, WithinMaxConcurrent, TypeOK
<1>2. /\ \/ Becomes(l, "none") /\ overlapped' = overlapped \ {l} /\ health' \in {health, Failed}
            /\ launch' = [launch EXCEPT ![l] = None]
         \/ /\ Becomes(l, "session") /\ overlapped' = overlapped /\ health' = Healthy
            /\ l \in At("connecting") /\ Succeeds(l) /\ launch[l] # None
            /\ launch' = [launch EXCEPT ![l].pc = "session"]
      /\ UNCHANGED <<reachable, loginVars>>
    BY <1>1, EndShape, SuccessShape DEF LaunchSucceeds, LaunchFails, SessionEnds, At
<1>3. /\ health' \in Health /\ HealthConsistent'
      /\ EndsEarly => Succeeds(l)
    BY <1>1, <1>2, WritersKeepShape DEF RestsOn
<1>4. TypeOK'
    BY <1>1, <1>2, <1>3 DEF TypeOK, Becomes, loginVars, LoginTypeOK
<1>5. WithinMaxConcurrent' /\ LoneLaunch'
    BY <1>2, <1>4, CountKept
<1>6. TokensRunOut'
    BY <1>2 DEF StandaloneInv, TokensRunOut, loginVars
<1>7. \A k \in Launches : FollowsAccount(k)
    BY <1>1, <1>2 DEF FollowsAccount
<1> QED
    BY <1>3, <1>5, <1>6, <1>7 DEF StandaloneInv

\* Who launches has a token, which an account long disabled has not.
LEMMA PrepareStep ==
    ASSUME StandaloneInv, NEW l \in Launches, NEW u \in Users, Prepare(l, u)
    PROVE  StandaloneInv' /\ ~EndsEarly /\ \A k \in Launches : FollowsAccount(k)
<1>1. TypeOK /\ LoginTypeOK /\ launch \in [Launches -> Launch \cup {None}]
    BY DEF StandaloneInv, WithinMaxConcurrent, TypeOK
<1>2. /\ launch' = [launch EXCEPT ![l] = [user |-> u, pc |-> "connecting"]]
      /\ launch[l] = None /\ token[u] > 0
      /\ UNCHANGED <<health, reachable, active, token, attempts, inactive>>
      /\ overlapped' \in {overlapped, overlapped \cup At("connecting") \cup {l}}
    BY DEF Prepare, SignedIn, loginVars
<1>3. Becomes(l, "connecting") /\ launch'[l].user = u
    BY <1>1, <1>2, AdmitShape
<1>4. TypeOK'
    <2>1. LoginTypeOK' /\ HealthConsistent'
        BY <1>1, <1>2 DEF TypeOK, LoginTypeOK, HealthConsistent
    <2>2. overlapped' \subseteq Launches
        BY <1>1, <1>2 DEF TypeOK, At
    <2> QED
        BY <1>1, <1>2, <1>3, <2>1, <2>2 DEF TypeOK, Becomes
<1>5. WithinMaxConcurrent' /\ LoneLaunch'
    BY <1>4, PrepareKeeps
<1>6. TokensRunOut'
    BY <1>2 DEF StandaloneInv, TokensRunOut
<1>7. ~EndsEarly
    BY <1>1, <1>2, HealthShape DEF EndsEarly
<1>8. PageOpens(u) \/ inactive[u] < Life
    <2>1. token[u] \in 0..Life /\ inactive[u] \in 0..Life /\ Life \in Nat
        BY <1>1, LoginAssumption DEF LoginTypeOK
    <2>2. ~active[u] => token[u] + inactive[u] <= Life
        BY <1>2 DEF StandaloneInv, TokensRunOut
    <2> QED
        BY <1>2, <2>1, <2>2 DEF PageOpens, SignedIn
<1>9. \A k \in Launches : FollowsAccount(k)
    BY <1>1, <1>2, <1>3, <1>8 DEF FollowsAccount
<1> QED
    BY <1>5, <1>6, <1>7, <1>9 DEF StandaloneInv

\* The probe, time and failures that no launch reports end no cooldown early.
LEMMA HealthStep ==
    ASSUME StandaloneInv,
           \/ \E u \in Users : PrepareUnbuildable(u)
           \/ Probe \/ Tick \/ HostChanges
    PROVE  StandaloneInv' /\ ~EndsEarly /\ \A k \in Launches : FollowsAccount(k)
<1>1. TypeOK /\ LoginTypeOK /\ LoneLaunch /\ TokensRunOut
    BY DEF StandaloneInv, WithinMaxConcurrent, TypeOK
<1>2. /\ UNCHANGED <<launch, overlapped, active, token, attempts, inactive>>
      /\ reachable' \in BOOLEAN /\ RestsOn
    BY <1>1 DEF PrepareUnbuildable, Probe, Tick, HostChanges, RestsOn, loginVars, TypeOK
<1>3. health' \in Health /\ HealthConsistent' /\ ~EndsEarly
    BY <1>1, <1>2, WritersKeepShape
<1>4. TypeOK'
    BY <1>1, <1>2, <1>3 DEF TypeOK, LoginTypeOK
<1>5. WithinMaxConcurrent' /\ LoneLaunch'
    BY <1>1, <1>2, <1>4 DEF StandaloneInv, WithinMaxConcurrent, LoneLaunch, At
<1>6. TokensRunOut'
    BY <1>1, <1>2 DEF TokensRunOut
<1> QED
    BY <1>2, <1>3, <1>5, <1>6 DEF StandaloneInv, FollowsAccount

\* A restart admits nothing, and leaves the row as it is.
LEMMA RestartStep ==
    ASSUME StandaloneInv, Restart
    PROVE  StandaloneInv' /\ ~EndsEarly /\ \A k \in Launches : FollowsAccount(k)
<1>1. TypeOK /\ TokensRunOut
    BY DEF StandaloneInv, WithinMaxConcurrent
<1>2. UNCHANGED <<health, active, token, inactive>>
    BY DEF Restart
<1>3. ~EndsEarly
    BY <1>1, <1>2, HealthShape DEF EndsEarly
<1>4. TokensRunOut'
    BY <1>1, <1>2 DEF TokensRunOut
<1>5. ASSUME NEW k \in Launches, launch[k] = None
      PROVE  launch'[k] = None
    BY <1>5 DEF Restart, At
<1> QED
    BY <1>3, <1>4, <1>5, RestartKeeps DEF StandaloneInv, FollowsAccount

\* Signing in leaves launches and the row alone, and so does doing nothing.
LEMMA AccountStep ==
    ASSUME StandaloneInv, LoginStep \/ UNCHANGED loginVars, UNCHANGED launchVars
    PROVE  StandaloneInv' /\ ~EndsEarly /\ \A k \in Launches : FollowsAccount(k)
<1>1. TypeOK /\ LoginTypeOK /\ TokensRunOut
    BY DEF StandaloneInv, WithinMaxConcurrent, TypeOK
<1>2. UNCHANGED <<health, launch, reachable, overlapped>>
    BY DEF launchVars
<1>3. LoginTypeOK' /\ TokensRunOut'
    <2>1. CASE LoginStep
        BY <1>1, <2>1, LoginKeeps
    <2>2. CASE UNCHANGED loginVars
        BY <1>1, <2>2 DEF LoginTypeOK, TokensRunOut, loginVars
    <2> QED
        BY <2>1, <2>2
<1>4. ~EndsEarly
    BY <1>1, <1>2, HealthShape DEF EndsEarly
<1>5. TypeOK'
    BY <1>1, <1>2, <1>3 DEF TypeOK, HealthConsistent
<1>6. WithinMaxConcurrent' /\ LoneLaunch'
    BY <1>2, <1>5 DEF StandaloneInv, WithinMaxConcurrent, LoneLaunch, At
<1> QED
    BY <1>2, <1>3, <1>4, <1>6 DEF StandaloneInv, FollowsAccount

LEMMA StandaloneStep ==
    ASSUME StandaloneInv, [Next]_vars
    PROVE  /\ StandaloneInv'
           /\ EndsEarly => \E l \in Launches : Succeeds(l)
           /\ \A k \in Launches : FollowsAccount(k)
<1>1. CASE \E u \in Users, l \in Launches : Prepare(l, u)
    BY <1>1, PrepareStep
<1>2. CASE \E l \in Launches : LaunchSucceeds(l) \/ LaunchFails(l) \/ SessionEnds(l)
    BY <1>2, LaunchStep
<1>3. CASE (\E u \in Users : PrepareUnbuildable(u)) \/ Probe \/ Tick \/ HostChanges
    BY <1>3, HealthStep
<1>4. CASE Restart
    BY <1>4, RestartStep
<1>5. CASE LoginStep /\ UNCHANGED launchVars
    BY <1>5, AccountStep
<1>6. CASE UNCHANGED vars
    BY <1>6, AccountStep DEF vars
<1> QED
    BY <1>1, <1>2, <1>3, <1>4, <1>5, <1>6 DEF Next

LEMMA StandaloneInvHolds == Spec => []StandaloneInv
<1>1. StandaloneInv /\ [Next]_vars => StandaloneInv'
    BY StandaloneStep
<1> QED
    BY InitStandaloneInv, <1>1, PTL DEF Spec

-----------------------------------------------------------------------------
(* The properties.                                                         *)

(* However many launches are admitted at once, fail, succeed or outlive a  *)
(* restart, the sessions beyond member_max_concurrent are those whose      *)
(* launches overlapped another (_prepare_standalone_launch counts sessions *)
(* and reserves nothing), and the row of the host keeps its shape.         *)
THEOREM SessionsStayWithin == Spec => []WithinMaxConcurrent
<1>1. StandaloneInv => WithinMaxConcurrent
    BY DEF StandaloneInv
<1> QED
    BY <1>1, StandaloneInvHolds, PTL

(* Whoever launches could open the page less than a token's lifetime ago,  *)
(* for any lifetime, limiter and number of accounts that come and go       *)
(* (get_current_user, delete_user).                                        *)
THEOREM DisabledAccountsFadeOut == Spec => LaunchesFollowAccounts
<1>1. StandaloneInv /\ [Next]_vars => [\A l \in Launches : FollowsAccount(l)]_vars
    BY StandaloneStep
<1> QED
    BY <1>1, StandaloneInvHolds, PTL DEF Spec, LaunchesFollowAccounts

(* Neither a probe nor a failure shortens a cooldown, for any base, most   *)
(* and count of failures; a launch that succeeds may                       *)
(* (probe_runtime_health, mark_runtime_launch_success).                    *)
THEOREM CooldownsRunOut == Spec => CooldownLasts
<1>1. StandaloneInv /\ [Next]_vars => [EndsEarly => \E l \in Launches : Succeeds(l)]_vars
    BY StandaloneStep
<1> QED
    BY <1>1, StandaloneInvHolds, PTL DEF Spec, CooldownLasts
=============================================================================
