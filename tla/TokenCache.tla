----------------------------- MODULE TokenCache -----------------------------
(***************************************************************************)
(* The Guacamole tokens of portal users: the two-tier cache of             *)
(* guacamole_service.py (a dictionary and the table token_cache), the      *)
(* launches that reuse, validate, promote and create tokens, and those who *)
(* drop them: administrators whose change alters what users may reach      *)
(* (module AppAccess) and the session monitor.                             *)
(*                                                                         *)
(* launch_app is a coroutine: between two awaits it keeps the event loop,  *)
(* so two launches interleave only at the calls to Guacamole.  The other   *)
(* handlers run in threads and interleave with every step.                 *)
(*                                                                         *)
(* Abstracted: the connections of a user are a version, the number of      *)
(* changes that altered them (AppAccess!Connections computes the real      *)
(* ones).  Guacamole keeps a token with the connections it was created     *)
(* for, and may forget it at any time.                                     *)
(***************************************************************************)
EXTENDS Integers, Sequences, FiniteSets

CONSTANTS
    Users,
    Launches,      \* slots for launches under way
    Requests,      \* slots for administrators' requests under way
    Tokens,
    Ttl,           \* expire_minutes * 60 - 60
    Timeout,       \* longest a launch waits for Guacamole
    MaxTime,       \* bound: the model's clock
    MaxChanges,    \* bound: changes to what a user may reach
    None

VARIABLES
    changed,    \* of each user, when each version of the connections ended
    memory,     \* _SessionCache._memory
    row,        \* token_cache
    died,       \* when Guacamole forgot a token, None while it honours it
    launch,     \* launches under way
    loop,       \* the launch that holds the event loop, or None
    change,     \* administrators' requests past their commit
    monitor,    \* the user whose token the monitor is dropping, or None
    now

tokenVars == <<changed, memory, row, died, launch, loop, change, monitor, now>>

Time == 0..MaxTime
Versions == 0..MaxChanges

\* raced is a history variable: written by, or left to, a launch that a change overtook.
\* user and version are Guacamole's: what the token was created for.
Entry == [tok : Tokens, user : Users, version : Versions, at : Time, raced : BOOLEAN]
LaunchRow ==
    [pc : {"memory", "row", "validate", "drop_row", "create", "created", "put_row", "insert"},
     user : Users, version : Versions, held : Entry \cup {None}, source : {"none", "memory", "row"},
     began : Time, overtaken : BOOLEAN]
ChangeRow == [pc : {"committed", "cleared"}, whom : SUBSET Users]

ASSUME TokenAssumption ==
    /\ Ttl \in Nat \ {0} /\ Timeout \in Nat /\ MaxTime \in Nat
    /\ MaxChanges \in Nat
    /\ None \notin Tokens \cup Launches \cup Users \cup Time
    /\ None \notin Entry \cup LaunchRow \cup ChangeRow

Version(u) == Len(changed[u])

Alive(t) == died[t] = None

---------------------------------------------------------------------------
(* Launches. *)

TakeLoop(l) == loop = None /\ loop' = l
KeepLoop(l) == loop = l /\ UNCHANGED loop
AwaitFrom(l) == loop = l /\ loop' = None

At(l, pc) == launch[l] # None /\ launch[l].pc = pc

Goto(l, pc) == launch' = [launch EXCEPT ![l].pc = pc]

Hold(l, pc, entry, source) ==
    launch' = [launch EXCEPT ![l] = [@ EXCEPT !.pc = pc, !.held = entry, !.source = source]]

End(l) == launch' = [launch EXCEPT ![l] = None]

PendingFor(u) == \E r \in Requests : change[r] # None /\ u \in change[r].whom

\* The connections are built; the cache is looked up before the first await.
Begin(l, u) ==
    /\ launch[l] = None
    /\ TakeLoop(l)
    /\ launch' = [launch EXCEPT ![l] =
            [pc |-> "memory", user |-> u, version |-> Version(u), held |-> None,
             source |-> "none", began |-> now, overtaken |-> PendingFor(u)]]
    /\ UNCHANGED <<changed, memory, row, died, change, monitor, now>>

GetMemory(l) ==
    /\ At(l, "memory")
    /\ LET u == launch[l].user  entry == memory[u] IN
        IF entry # None /\ now - entry.at < Ttl
        THEN /\ Hold(l, "validate", entry, "memory")
             /\ AwaitFrom(l)
             /\ UNCHANGED memory
        ELSE /\ Goto(l, "row")
             /\ memory' = [memory EXCEPT ![u] = None]
             /\ KeepLoop(l)
    /\ UNCHANGED <<changed, row, died, change, monitor, now>>

\* A failed read is a miss; so is an expired row, deleted if the delete succeeds.
GetRow(l) ==
    /\ At(l, "row")
    /\ LET u == launch[l].user  entry == row[u] IN
        \/ /\ entry # None /\ now - entry.at <= Ttl
           /\ Hold(l, "validate", entry, "row")
           /\ UNCHANGED row
        \/ /\ entry # None /\ now - entry.at > Ttl
           /\ Goto(l, "create")
           /\ row' = [row EXCEPT ![u] = None]
        \/ /\ Goto(l, "create")
           /\ UNCHANGED row
    /\ AwaitFrom(l)
    /\ UNCHANGED <<changed, memory, died, change, monitor, now>>

\* Seeded fault of Promoted: created_at is now.
PromotedAsNew(l) == [launch[l].held EXCEPT !.raced = @ \/ launch[l].overtaken, !.at = now]

\* A row read back is promoted as it is, created_at included.
Promoted(l) ==
    [launch[l].held EXCEPT !.raced = @ \/ launch[l].overtaken]

\* Guacamole is asked about every token, whichever tier it came from.
Honoured(l) == Alive(launch[l].held.tok)

Validated(l) ==
    /\ At(l, "validate")
    /\ Honoured(l)
    /\ TakeLoop(l)
    /\ Goto(l, "insert")
    /\ memory' = IF launch[l].source = "row"
                 THEN [memory EXCEPT ![launch[l].user] = Promoted(l)]
                 ELSE memory
    /\ UNCHANGED <<changed, row, died, change, monitor, now>>

\* The token is dead, or the answer of Guacamole is lost: the entry goes.
NotValidated(l) ==
    /\ At(l, "validate")
    /\ TakeLoop(l)
    /\ memory' = [memory EXCEPT ![launch[l].user] = None]
    /\ Hold(l, "drop_row", None, "none")
    /\ UNCHANGED <<changed, row, died, change, monitor, now>>

DropRow(l) ==
    /\ At(l, "drop_row")
    /\ Goto(l, "create")
    /\ row' \in {row, [row EXCEPT ![launch[l].user] = None]}
    /\ AwaitFrom(l)
    /\ UNCHANGED <<changed, memory, died, change, monitor, now>>

\* A token nobody holds any more stands for a new one.
FreshTokens ==
    {t \in Tokens : \A e \in ({memory[u] : u \in Users} \cup {row[u] : u \in Users}
            \cup {launch[l].held : l \in {k \in Launches : launch[k] # None}}) \ {None} :
        e.tok # t}

\* POST /api/tokens at Guacamole.
Create(l, t) ==
    /\ At(l, "create")
    /\ loop # l
    /\ t \in FreshTokens
    /\ died' = [died EXCEPT ![t] = None]
    /\ Hold(l, "created",
            [tok |-> t, user |-> launch[l].user, version |-> launch[l].version,
             at |-> now, raced |-> FALSE], "none")
    /\ UNCHANGED <<changed, memory, row, loop, change, monitor, now>>

\* Guacamole refuses, or its answer is lost: the launch answers 502.
CreateFails(l) ==
    /\ At(l, "create") \/ At(l, "created")
    /\ End(l)
    /\ UNCHANGED <<changed, memory, row, died, loop, change, monitor, now>>

\* The entry put writes in both tiers.
NewEntry(l) ==
    [launch[l].held EXCEPT !.at = now, !.raced = launch[l].overtaken]

PutMemory(l) ==
    /\ At(l, "created")
    /\ TakeLoop(l)
    /\ memory' = [memory EXCEPT ![launch[l].user] = NewEntry(l)]
    /\ Hold(l, "put_row", NewEntry(l), "none")
    /\ UNCHANGED <<changed, row, died, change, monitor, now>>

PutRow(l) ==
    /\ At(l, "put_row")
    /\ Goto(l, "insert")
    /\ \/ row' = [row EXCEPT ![launch[l].user] =
                    [launch[l].held EXCEPT !.raced = launch[l].overtaken]]
       \/ UNCHANGED row
    /\ KeepLoop(l)
    /\ UNCHANGED <<changed, memory, died, change, monitor, now>>

\* The active_session row and the answer, or 503 when the row is refused.
Answer(l) ==
    /\ At(l, "insert")
    /\ End(l)
    /\ AwaitFrom(l)
    /\ UNCHANGED <<changed, memory, row, died, change, monitor, now>>

---------------------------------------------------------------------------
(* Administrators: the commit, then the two tiers.                         *)

\* Launches of u under way have built their connections from the old rows.
Overtake(whom) ==
    launch' = [l \in Launches |->
        IF launch[l] # None /\ launch[l].user \in whom
        THEN [launch[l] EXCEPT !.overtaken = TRUE] ELSE launch[l]]

CommitChange(r, whom) ==
    /\ change[r] = None
    /\ \A u \in whom : Version(u) < MaxChanges
    /\ changed' = [u \in Users |-> IF u \in whom THEN Append(changed[u], now) ELSE changed[u]]
    /\ Overtake(whom)
    /\ change' = [change EXCEPT ![r] = [pc |-> "committed", whom |-> whom]]
    /\ UNCHANGED <<memory, row, died, loop, monitor, now>>

Without(cache, whom) == [u \in Users |-> IF u \in whom THEN None ELSE cache[u]]

\* A row that survives its invalidation.
Survives(entry) == IF entry = None THEN None ELSE [entry EXCEPT !.raced = TRUE]

\* Seeded fault of ClearedMemory: the table alone is cleared.
TableOnly(whom) == memory

ClearedMemory(whom) == Without(memory, whom)

ClearMemory(r) ==
    /\ change[r] # None /\ change[r].pc = "committed"
    /\ memory' = ClearedMemory(change[r].whom)
    /\ change' = [change EXCEPT ![r].pc = "cleared"]
    /\ UNCHANGED <<changed, row, died, launch, loop, monitor, now>>

\* The delete's failure is swallowed.
ClearRows(r) ==
    /\ change[r] # None /\ change[r].pc = "cleared"
    /\ \/ row' = Without(row, change[r].whom)
       \/ row' = [u \in Users |-> IF u \in change[r].whom THEN Survives(row[u]) ELSE row[u]]
    /\ change' = [change EXCEPT ![r] = None]
    /\ UNCHANGED <<changed, memory, died, launch, loop, monitor, now>>

---------------------------------------------------------------------------
(* The monitor drops the token of a user whose session it reclaimed when   *)
(* it sees no other live one.  What it sees is a read of active_session    *)
(* that a launch may overtake, so the model lets it see either.            *)

DropMemory(u) ==
    /\ monitor = None
    /\ memory' = [memory EXCEPT ![u] = None]
    /\ monitor' = u
    /\ UNCHANGED <<changed, row, died, launch, loop, change, now>>

DropTableRow ==
    /\ monitor # None
    /\ row' \in {row, [row EXCEPT ![monitor] = None]}
    /\ monitor' = None
    /\ UNCHANGED <<changed, memory, died, launch, loop, change, now>>

---------------------------------------------------------------------------
(* Guacamole forgets a token; the portal restarts; time passes.            *)

TokenDies(t) ==
    /\ t \notin FreshTokens
    /\ Alive(t)
    /\ died' = [died EXCEPT ![t] = now]
    /\ UNCHANGED <<changed, memory, row, launch, loop, change, monitor, now>>

\* Invalidations that had not reached the table are lost.
Restart ==
    /\ memory' = [u \in Users |-> None]
    /\ launch' = [l \in Launches |-> None]
    /\ loop' = None
    /\ row' = [u \in Users |-> IF PendingFor(u) THEN Survives(row[u]) ELSE row[u]]
    /\ change' = [r \in Requests |-> None]
    /\ monitor' = None
    /\ UNCHANGED <<changed, died, now>>

\* A launch waits no longer than its calls' timeouts.
Tick ==
    /\ now < MaxTime
    /\ \A l \in Launches : launch[l] # None => now < launch[l].began + Timeout
    /\ now' = now + 1
    /\ UNCHANGED <<changed, memory, row, died, launch, loop, change, monitor>>

---------------------------------------------------------------------------
TokenInit ==
    /\ changed = [u \in Users |-> <<>>]
    /\ memory = [u \in Users |-> None]
    /\ row = [u \in Users |-> None]
    /\ died = [t \in Tokens |-> None]
    /\ launch = [l \in Launches |-> None]
    /\ loop = None
    /\ change = [r \in Requests |-> None]
    /\ monitor = None
    /\ now = 0

LaunchStep(l) ==
    \/ \E u \in Users : Begin(l, u)
    \/ GetMemory(l) \/ GetRow(l) \/ Validated(l) \/ NotValidated(l) \/ DropRow(l)
    \/ \E t \in Tokens : Create(l, t)
    \/ CreateFails(l) \/ PutMemory(l) \/ PutRow(l) \/ Answer(l)

\* PUT /users and DELETE /users concern one user, the other changes everyone.
ChangeStep(r) ==
    \/ \E whom \in {{u} : u \in Users} \cup {Users} : CommitChange(r, whom)
    \/ ClearMemory(r) \/ ClearRows(r)

MonitorStep == (\E u \in Users : DropMemory(u)) \/ DropTableRow

TokenNext ==
    \/ \E l \in Launches : LaunchStep(l)
    \/ \E r \in Requests : ChangeStep(r)
    \/ MonitorStep
    \/ \E t \in Tokens : TokenDies(t)
    \/ Restart
    \/ Tick

TokenSpec == TokenInit /\ [][TokenNext]_tokenVars

---------------------------------------------------------------------------
\* Every variable has its shape; the loop is held by a launch between two awaits.
TypeOK ==
    /\ changed \in [Users -> Seq(Time)] /\ \A u \in Users : Version(u) \in Versions
    /\ memory \in [Users -> Entry \cup {None}]
    /\ row \in [Users -> Entry \cup {None}]
    /\ died \in [Tokens -> Time \cup {None}]
    /\ launch \in [Launches -> LaunchRow \cup {None}]
    /\ change \in [Requests -> ChangeRow \cup {None}]
    /\ monitor \in Users \cup {None}
    /\ now \in Time
    /\ \A l \in Launches :
        loop = l <=> /\ launch[l] # None
                     /\ launch[l].pc \in {"memory", "row", "drop_row", "put_row", "insert"}

Current(l) == launch[l].held.version = launch[l].version

(* A launch opens with exactly the connections it built, unless a change   *)
(* overtook it or the launch the token came from, or the table kept a row  *)
(* its invalidation could not delete.  What a change withdrew is gone for  *)
(* every launch that starts after the request was answered (invalidate_all *)
(* after the commit).  The tiers and launches keep their types.            *)
StaleOnlyIfRaced ==
    TypeOK /\ \A l \in Launches : At(l, "insert") =>
        \/ Current(l)
        \/ launch[l].overtaken
        \/ launch[l].held.raced

\* A launch that turns to a cached token of a version withdrawn does so in time.
TakenInTime(l) ==
    LET e == launch'[l] IN
    (e # None /\ e.pc = "validate" /\ ~At(l, "validate")) =>
        LET u == e.user  v == e.held.version IN
        v < Version(u) => now <= changed[u][v + 1] + Timeout + Ttl

(* Whatever raced or failed, a version of the connections is not taken     *)
(* from the cache later than Ttl plus one launch after it was withdrawn:   *)
(* promotion to memory after a restart does not renew a token.             *)
StaleAccessBounded == [][\A l \in Launches : TakenInTime(l)]_tokenVars
=============================================================================
