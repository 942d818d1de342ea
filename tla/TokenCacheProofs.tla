-------------------------- MODULE TokenCacheProofs --------------------------
(***************************************************************************)
(* Theorems about TokenCache, for every set of users, launches and         *)
(* administrators' requests, and every expiry and timeout: which           *)
(* connections a launch may open with a cached token, and until when.      *)
(***************************************************************************)
EXTENDS TokenCache, TLAPS

(* The inductive invariant, of two halves.  The first says what no race    *)
(* did: an entry of either tier that no race touched is of the current     *)
(* version of the connections, or the request that withdrew its version    *)
(* has not reached that tier yet; a launch no change overtook built the    *)
(* current connections, and nobody is withdrawing them.                    *)

\* A request that has committed a change for u and not yet cleared the memory.
CommittedFor(u) == \E r \in Requests :
    change[r] # None /\ change[r].pc = "committed" /\ u \in change[r].whom

LaunchUpToDate ==
    \A l \in Launches : launch[l] # None /\ launch[l].overtaken = FALSE =>
        launch[l].version = Version(launch[l].user) /\ ~PendingFor(launch[l].user)

MemoryUpToDate ==
    \A u \in Users : memory[u] # None /\ memory[u].raced = FALSE =>
        memory[u].version = Version(u) \/ CommittedFor(u)

RowUpToDate ==
    \A u \in Users : row[u] # None /\ row[u].raced = FALSE =>
        row[u].version = Version(u) \/ PendingFor(u)

HeldUpToDate ==
    \A l \in Launches :
        (/\ launch[l] # None /\ launch[l].held # None
         /\ launch[l].overtaken = FALSE /\ launch[l].held.raced = FALSE) =>
        launch[l].held.version = Version(launch[l].user)

\* A launch asks about a token it holds, and puts the one created for it.
Holding ==
    \A l \in Launches : launch[l] # None =>
        /\ launch[l].pc \in {"validate", "created", "put_row", "insert"} => launch[l].held # None
        /\ launch[l].pc \in {"created", "put_row"} => launch[l].held.version = launch[l].version

(* The second half is about time, whatever raced: an entry dates from one  *)
(* launch at most after its version was withdrawn, since a launch built    *)
(* its connections when it began and waits no longer than Timeout.         *)
InTime(e, u) ==
    /\ e.version <= Version(u) /\ e.at <= now
    /\ e.version < Version(u) => e.at <= changed[u][e.version + 1] + Timeout

LaunchInTime ==
    \A l \in Launches : launch[l] # None =>
        LET u == launch[l].user  v == launch[l].version IN
        /\ launch[l].began <= now /\ now <= launch[l].began + Timeout
        /\ v <= Version(u)
        /\ v < Version(u) => launch[l].began <= changed[u][v + 1]

TiersInTime ==
    /\ \A u \in Users : memory[u] # None => InTime(memory[u], u)
    /\ \A u \in Users : row[u] # None => InTime(row[u], u)

HeldInTime ==
    \A l \in Launches : launch[l] # None /\ launch[l].held # None =>
        InTime(launch[l].held, launch[l].user)

TokenInv ==
    /\ TypeOK /\ Holding
    /\ LaunchUpToDate /\ MemoryUpToDate /\ RowUpToDate /\ HeldUpToDate
    /\ LaunchInTime /\ TiersInTime /\ HeldInTime

-----------------------------------------------------------------------------
\* The tiers start empty, and no launch is under way.
LEMMA InitTokenInv == TokenInit => TokenInv
BY TokenAssumption
DEF TokenInit, TokenInv, TypeOK, Holding, LaunchUpToDate, MemoryUpToDate, RowUpToDate,
    HeldUpToDate, LaunchInTime, TiersInTime, HeldInTime, Version, Versions, Time

-----------------------------------------------------------------------------
(* What a step makes of the launches.                                      *)

Pcs == {"memory", "row", "validate", "drop_row", "create", "created", "put_row", "insert"}
OnLoop == {"memory", "row", "drop_row", "put_row", "insert"}

\* Launch l goes on to pc with the entry held; nothing else of it changes.
Moves(l, pc, held) ==
    /\ launch' \in [Launches -> LaunchRow \cup {None}]
    /\ launch'[l] # None /\ launch'[l].pc = pc /\ launch'[l].held = held
    /\ launch'[l].user = launch[l].user /\ launch'[l].version = launch[l].version
    /\ launch'[l].began = launch[l].began /\ launch'[l].overtaken = launch[l].overtaken
    /\ \A k \in Launches \ {l} : launch'[k] = launch[k]

Ends(l) ==
    /\ launch' \in [Launches -> LaunchRow \cup {None}]
    /\ launch'[l] = None
    /\ \A k \in Launches \ {l} : launch'[k] = launch[k]

\* The fields of a launch under way.
LEMMA LaunchShape ==
    ASSUME TypeOK, NEW l \in Launches, launch[l] # None
    PROVE  /\ launch[l] \in LaunchRow /\ launch[l].user \in Users /\ launch[l].pc \in Pcs
           /\ launch[l].version \in Versions /\ launch[l].held \in Entry \cup {None}
           /\ launch[l].began \in Time /\ launch[l].overtaken \in BOOLEAN
           /\ launch[l].source \in {"none", "memory", "row"}
BY TokenAssumption DEF TypeOK, LaunchRow, Pcs

LEMMA HoldShape ==
    ASSUME TypeOK, NEW l \in Launches, launch[l] # None, NEW pc \in Pcs,
           NEW held \in Entry \cup {None}, NEW source \in {"none", "memory", "row"},
           Hold(l, pc, held, source)
    PROVE  Moves(l, pc, held)
<1>1. launch \in [Launches -> LaunchRow \cup {None}] /\ launch[l] \in LaunchRow
    BY LaunchShape DEF TypeOK
<1> DEFINE new == [launch[l] EXCEPT !.pc = pc, !.held = held, !.source = source]
<1>2. launch' = [launch EXCEPT ![l] = new]
    BY <1>1 DEF Hold
<1>3. /\ new \in LaunchRow /\ new.pc = pc /\ new.held = held
      /\ new.user = launch[l].user /\ new.version = launch[l].version
      /\ new.began = launch[l].began /\ new.overtaken = launch[l].overtaken
    BY <1>1 DEF LaunchRow, Pcs
<1> HIDE DEF new
<1> QED
    BY <1>1, <1>2, <1>3, TokenAssumption DEF Moves

LEMMA GotoShape ==
    ASSUME TypeOK, NEW l \in Launches, launch[l] # None, NEW pc \in Pcs, Goto(l, pc)
    PROVE  Moves(l, pc, launch[l].held)
<1>1. launch \in [Launches -> LaunchRow \cup {None}] /\ launch[l] \in LaunchRow
    BY LaunchShape DEF TypeOK
<1> DEFINE new == [launch[l] EXCEPT !.pc = pc]
<1>2. launch' = [launch EXCEPT ![l] = new]
    BY <1>1 DEF Goto
<1>3. /\ new \in LaunchRow /\ new.pc = pc /\ new.held = launch[l].held
      /\ new.user = launch[l].user /\ new.version = launch[l].version
      /\ new.began = launch[l].began /\ new.overtaken = launch[l].overtaken
    BY <1>1 DEF LaunchRow, Pcs
<1> HIDE DEF new
<1> QED
    BY <1>1, <1>2, <1>3, TokenAssumption DEF Moves

LEMMA EndShape ==
    ASSUME TypeOK, NEW l \in Launches, End(l)
    PROVE  Ends(l)
BY DEF TypeOK, End, Ends

\* A change marks the launches of those it concerns, and nothing else of them.
LEMMA OvertakeShape ==
    ASSUME TypeOK, NEW whom, Overtake(whom)
    PROVE  /\ launch' \in [Launches -> LaunchRow \cup {None}]
           /\ \A l \in Launches :
                /\ launch'[l] = None <=> launch[l] = None
                /\ launch[l] # None /\ launch[l].user \notin whom => launch'[l] = launch[l]
                /\ launch[l] # None /\ launch[l].user \in whom => launch'[l].overtaken = TRUE
                /\ launch[l] # None =>
                    /\ launch'[l].pc = launch[l].pc /\ launch'[l].held = launch[l].held
                    /\ launch'[l].user = launch[l].user /\ launch'[l].version = launch[l].version
                    /\ launch'[l].began = launch[l].began
<1> SUFFICES ASSUME NEW l \in Launches
             PROVE  /\ launch'[l] \in LaunchRow \cup {None}
                    /\ launch'[l] = None <=> launch[l] = None
                    /\ launch[l] # None /\ launch[l].user \notin whom => launch'[l] = launch[l]
                    /\ launch[l] # None /\ launch[l].user \in whom => launch'[l].overtaken = TRUE
                    /\ launch[l] # None =>
                        /\ launch'[l].pc = launch[l].pc /\ launch'[l].held = launch[l].held
                        /\ launch'[l].user = launch[l].user /\ launch'[l].version = launch[l].version
                        /\ launch'[l].began = launch[l].began
    BY DEF Overtake
<1>1. CASE launch[l] # None /\ launch[l].user \in whom
    <2>1. launch'[l] = [launch[l] EXCEPT !.overtaken = TRUE]
        BY <1>1 DEF Overtake
    <2>2. launch[l] \in LaunchRow
        BY <1>1, LaunchShape
    <2> QED
        BY <1>1, <2>1, <2>2, TokenAssumption DEF LaunchRow
<1>2. CASE ~(launch[l] # None /\ launch[l].user \in whom)
    <2>1. launch'[l] = launch[l]
        BY <1>2 DEF Overtake
    <2> QED
        BY <1>2, <2>1 DEF TypeOK
<1> QED
    BY <1>1, <1>2

-----------------------------------------------------------------------------
(* The entries that steps write, and versions when one is withdrawn.       *)

LEMMA EntryShape ==
    ASSUME NEW e \in Entry
    PROVE  /\ e # None /\ e.version \in Versions /\ e.at \in Time /\ e.raced \in BOOLEAN
           /\ e.version \in Int /\ e.at \in Int
BY TokenAssumption DEF Entry, Versions, Time

LEMMA PromotedShape ==
    ASSUME TypeOK, NEW l \in Launches, launch[l] # None, launch[l].held # None
    PROVE  /\ Promoted(l) \in Entry
           /\ Promoted(l).version = launch[l].held.version /\ Promoted(l).at = launch[l].held.at
           /\ Promoted(l).raced = FALSE => launch[l].held.raced = FALSE /\ launch[l].overtaken = FALSE
<1> DEFINE e == launch[l].held
<1>1. e \in Entry /\ launch[l].overtaken \in BOOLEAN
    BY LaunchShape
<1>2. Promoted(l) = [e EXCEPT !.raced = e.raced \/ launch[l].overtaken]
    BY <1>1 DEF Promoted, Entry
<1> HIDE DEF e
<1>3. /\ e.raced \in BOOLEAN
      /\ \A b \in BOOLEAN :
            /\ [e EXCEPT !.raced = b] \in Entry
            /\ [e EXCEPT !.raced = b].version = e.version
            /\ [e EXCEPT !.raced = b].at = e.at
            /\ [e EXCEPT !.raced = b].raced = b
    BY <1>1 DEF Entry
<1>4. (e.raced \/ launch[l].overtaken) \in BOOLEAN
    BY <1>1, <1>3
<1>5. (e.raced \/ launch[l].overtaken) = FALSE => e.raced = FALSE /\ launch[l].overtaken = FALSE
    BY <1>1, <1>3
<1>6. /\ Promoted(l) \in Entry
      /\ Promoted(l).version = e.version /\ Promoted(l).at = e.at
      /\ Promoted(l).raced = (e.raced \/ launch[l].overtaken)
    BY <1>2, <1>3, <1>4, Zenon
<1> QED
    BY <1>5, <1>6, Zenon DEF e

LEMMA NewEntryShape ==
    ASSUME TypeOK, NEW l \in Launches, launch[l] # None, launch[l].held # None
    PROVE  /\ NewEntry(l) \in Entry
           /\ NewEntry(l).version = launch[l].held.version /\ NewEntry(l).at = now
           /\ NewEntry(l).raced = launch[l].overtaken
<1>1. launch[l].held \in Entry /\ launch[l].overtaken \in BOOLEAN /\ now \in Time
    BY LaunchShape DEF TypeOK
<1> QED
    BY <1>1 DEF NewEntry, Entry

\* The entry a launch writes to the table is the one it holds.
LEMMA WrittenShape ==
    ASSUME TypeOK, NEW l \in Launches, launch[l] # None, launch[l].held # None
    PROVE  LET e == [launch[l].held EXCEPT !.raced = launch[l].overtaken] IN
           /\ e \in Entry
           /\ e.version = launch[l].held.version /\ e.at = launch[l].held.at
           /\ e.raced = launch[l].overtaken
<1>1. launch[l].held \in Entry /\ launch[l].overtaken \in BOOLEAN
    BY LaunchShape
<1> QED
    BY <1>1 DEF Entry

LEMMA SurvivesShape ==
    ASSUME NEW e \in Entry \cup {None}
    PROVE  /\ Survives(e) \in Entry \cup {None}
           /\ Survives(e) # None => /\ e # None /\ Survives(e).raced = TRUE
                                   /\ Survives(e).version = e.version /\ Survives(e).at = e.at
BY TokenAssumption DEF Survives, Entry

\* Versions are counted by the changes.
LEMMA VersionShape ==
    ASSUME TypeOK, NEW u \in Users
    PROVE  /\ changed[u] \in Seq(Time) /\ Version(u) \in Versions /\ Version(u) \in Int
           /\ \A v \in Versions : v < Version(u) => changed[u][v + 1] \in Time
           /\ now \in Int /\ Timeout \in Int /\ Ttl \in Int /\ Time \subseteq Int
BY TokenAssumption DEF TypeOK, Version, Versions, Time

-----------------------------------------------------------------------------
(* What one step of a launch keeps.                                        *)

\* An entry no race touched is current, and every entry is in time.
Fits(e, u) ==
    /\ e \in Entry /\ InTime(e, u)
    /\ e.raced = FALSE => e.version = Version(u)

\* A tier of which nothing is written but such entries.
Written(tier, new) ==
    /\ new \in [Users -> Entry \cup {None}]
    /\ \A u \in Users : new[u] = tier[u] \/ new[u] = None \/ Fits(new[u], u)

\* What launch l may hold when it goes on to pc.
MayHold(l, pc, held) ==
    /\ held \in Entry \cup {None}
    /\ pc \in {"validate", "created", "put_row", "insert"} => held # None
    /\ pc \in {"created", "put_row"} => held.version = launch[l].version
    /\ held # None =>
        /\ InTime(held, launch[l].user)
        /\ launch[l].overtaken = FALSE /\ held.raced = FALSE =>
            held.version = Version(launch[l].user)

LaunchInv == Holding /\ LaunchUpToDate /\ HeldUpToDate /\ LaunchInTime /\ HeldInTime
TierInv == MemoryUpToDate /\ RowUpToDate /\ TiersInTime

\* The loop is held by the launch that goes on, between its awaits.
LoopFollows(l) ==
    LET on == launch'[l] # None /\ launch'[l].pc \in OnLoop IN
    \/ TakeLoop(l) /\ on
    \/ KeepLoop(l) /\ on
    \/ AwaitFrom(l) /\ ~on
    \/ UNCHANGED loop /\ loop # l /\ ~on

LEMMA LaunchTypes ==
    ASSUME TypeOK, NEW l \in Launches,
           launch' \in [Launches -> LaunchRow \cup {None}],
           \A k \in Launches \ {l} : launch'[k] = launch[k],
           LoopFollows(l), Written(memory, memory'), Written(row, row'),
           died' \in [Tokens -> Time \cup {None}], UNCHANGED <<changed, change, monitor, now>>
    PROVE  TypeOK'
<1>1. ASSUME NEW k \in Launches
      PROVE  loop' = k <=> launch'[k] # None /\ launch'[k].pc \in OnLoop
    <2>1. /\ loop = k <=> launch[k] # None /\ launch[k].pc \in OnLoop
          /\ loop = l <=> launch[l] # None /\ launch[l].pc \in OnLoop
          /\ None # k
        BY TokenAssumption DEF TypeOK, OnLoop
    <2>2. CASE k = l
        BY <2>1, <2>2 DEF LoopFollows, TakeLoop, KeepLoop, AwaitFrom
    <2>3. CASE k # l
        <3>1. launch'[k] = launch[k]
            BY <2>3
        <3> QED
            BY <2>1, <2>3, <3>1 DEF LoopFollows, TakeLoop, KeepLoop, AwaitFrom
    <2> QED
        BY <2>2, <2>3
<1> QED
    BY <1>1 DEF TypeOK, Written, OnLoop, Version

LEMMA MovesKeep ==
    ASSUME TokenInv, NEW l \in Launches, launch[l] # None, NEW pc, NEW held,
           Moves(l, pc, held), MayHold(l, pc, held), UNCHANGED <<changed, change, now>>
    PROVE  LaunchInv'
<1>1. LaunchInv
    BY DEF TokenInv, LaunchInv
<1>2. /\ Version(launch[l].user)' = Version(launch[l].user)
      /\ \A k \in Launches \ {l} : launch'[k] = launch[k]
    BY DEF Moves, Version
<1>3. Holding'
    BY <1>1 DEF LaunchInv, Holding, Moves, MayHold
<1>4. LaunchUpToDate'
    BY <1>1 DEF LaunchInv, LaunchUpToDate, Moves, Version, PendingFor
<1>5. HeldUpToDate'
    BY <1>1 DEF LaunchInv, HeldUpToDate, Moves, MayHold, Version
<1>6. LaunchInTime'
    BY <1>1 DEF LaunchInv, LaunchInTime, Moves, Version
<1>7. HeldInTime'
    BY <1>1 DEF LaunchInv, HeldInTime, InTime, Moves, MayHold, Version
<1> QED
    BY <1>3, <1>4, <1>5, <1>6, <1>7 DEF LaunchInv

LEMMA EndKeeps ==
    ASSUME TokenInv, NEW l \in Launches, Ends(l), UNCHANGED <<changed, change, now>>
    PROVE  LaunchInv'
<1>1. LaunchInv
    BY DEF TokenInv, LaunchInv
<1>3. Holding'
    BY <1>1 DEF LaunchInv, Holding, Ends
<1>4. LaunchUpToDate'
    BY <1>1 DEF LaunchInv, LaunchUpToDate, Ends, Version, PendingFor
<1>5. HeldUpToDate'
    BY <1>1 DEF LaunchInv, HeldUpToDate, Ends, Version
<1>6. LaunchInTime'
    BY <1>1 DEF LaunchInv, LaunchInTime, Ends, Version
<1>7. HeldInTime'
    BY <1>1 DEF LaunchInv, HeldInTime, InTime, Ends, Version
<1> QED
    BY <1>3, <1>4, <1>5, <1>6, <1>7 DEF LaunchInv

LEMMA TiersKeep ==
    ASSUME TokenInv, Written(memory, memory'), Written(row, row'),
           UNCHANGED <<changed, change, now>>
    PROVE  TierInv'
<1>1. MemoryUpToDate'
    BY DEF TokenInv, MemoryUpToDate, Written, Fits, Version, CommittedFor
<1>2. RowUpToDate'
    BY DEF TokenInv, RowUpToDate, Written, Fits, Version, PendingFor
<1>3. TiersInTime'
    BY DEF TokenInv, TiersInTime, Written, Fits, InTime, Version
<1> QED
    BY <1>1, <1>2, <1>3 DEF TierInv

\* A tier not written, or one entry of which goes.
LEMMA WrittenLess ==
    ASSUME NEW tier \in [Users -> Entry \cup {None}], NEW u
    PROVE  Written(tier, tier) /\ Written(tier, [tier EXCEPT ![u] = None])
BY DEF Written

LEMMA WrittenOne ==
    ASSUME NEW tier \in [Users -> Entry \cup {None}], NEW u \in Users, NEW e, Fits(e, u)
    PROVE  Written(tier, [tier EXCEPT ![u] = e])
BY DEF Written, Fits

\* A step of a launch that leaves it, or moves it with an entry it may hold.
LEMMA LaunchMoves ==
    ASSUME TokenInv, NEW l \in Launches, launch[l] # None, NEW pc \in Pcs, NEW held,
           Moves(l, pc, held), MayHold(l, pc, held),
           \/ TakeLoop(l) /\ pc \in OnLoop
           \/ KeepLoop(l) /\ pc \in OnLoop
           \/ AwaitFrom(l) /\ pc \notin OnLoop
           \/ UNCHANGED loop /\ loop # l /\ pc \notin OnLoop,
           Written(memory, memory'), Written(row, row'),
           died' \in [Tokens -> Time \cup {None}], UNCHANGED <<changed, change, monitor, now>>
    PROVE  TokenInv'
<1>1. LoopFollows(l)
    BY DEF LoopFollows, Moves
<1>2. TypeOK'
    BY <1>1, LaunchTypes DEF Moves, TokenInv
<1>3. LaunchInv'
    BY MovesKeep
<1>4. TierInv'
    BY TiersKeep
<1> QED
    BY <1>2, <1>3, <1>4 DEF TokenInv, LaunchInv, TierInv

LEMMA LaunchEnds ==
    ASSUME TokenInv, NEW l \in Launches, End(l),
           AwaitFrom(l) \/ (UNCHANGED loop /\ loop # l),
           UNCHANGED <<changed, memory, row, died, change, monitor, now>>
    PROVE  TokenInv'
<1>1. Ends(l)
    BY EndShape DEF TokenInv
<1>2. LoopFollows(l)
    BY <1>1 DEF LoopFollows, Ends
<1>3. Written(memory, memory') /\ Written(row, row')
    BY WrittenLess DEF TokenInv, TypeOK
<1>4. TypeOK'
    BY <1>1, <1>2, <1>3, LaunchTypes DEF Ends, TokenInv, TypeOK
<1>5. LaunchInv'
    BY <1>1, EndKeeps
<1>6. TierInv'
    BY <1>3, TiersKeep
<1> QED
    BY <1>4, <1>5, <1>6 DEF TokenInv, LaunchInv, TierInv

LEMMA BeginKeeps ==
    ASSUME TokenInv, NEW l \in Launches, NEW u \in Users, Begin(l, u)
    PROVE  TokenInv'
<1>0. TypeOK /\ LaunchInv
    BY DEF TokenInv, LaunchInv
<1> DEFINE new == [pc |-> "memory", user |-> u, version |-> Version(u), held |-> None,
                   source |-> "none", began |-> now, overtaken |-> PendingFor(u)]
<1>1. /\ new \in LaunchRow /\ new.pc = "memory" /\ new.user = u /\ new.version = Version(u)
      /\ new.held = None /\ new.began = now
      /\ new.overtaken = FALSE => ~PendingFor(u)
    <2>1. PendingFor(u) \in BOOLEAN
        BY DEF PendingFor
    <2> QED
        BY <1>0, <2>1, VersionShape DEF LaunchRow, TypeOK
<1>2. launch' = [launch EXCEPT ![l] = new]
    BY DEF Begin
<1> HIDE DEF new
<1>3. /\ launch' \in [Launches -> LaunchRow \cup {None}]
      /\ launch'[l] = new /\ new # None
      /\ \A k \in Launches \ {l} : launch'[k] = launch[k]
    BY <1>0, <1>1, <1>2, TokenAssumption DEF TypeOK
<1>4. LoopFollows(l)
    BY <1>1, <1>3 DEF Begin, LoopFollows, OnLoop
<1>5. /\ Written(memory, memory') /\ Written(row, row')
      /\ UNCHANGED <<changed, died, change, monitor, now>>
    BY <1>0, WrittenLess DEF TypeOK, Begin
<1>6. TypeOK'
    BY <1>0, <1>3, <1>4, <1>5, LaunchTypes DEF TypeOK
<1>7. TierInv'
    BY <1>5, TiersKeep
<1>8. Holding'
    BY <1>0, <1>1, <1>3 DEF LaunchInv, Holding
<1>9. LaunchUpToDate'
    BY <1>0, <1>1, <1>3, <1>5 DEF LaunchInv, LaunchUpToDate, Version, PendingFor
<1>10. HeldUpToDate'
    BY <1>0, <1>1, <1>3, <1>5 DEF LaunchInv, HeldUpToDate, Version
<1>11. LaunchInTime'
    <2>1. now <= now + Timeout /\ Version(u) <= Version(u)
        BY <1>0, VersionShape, TokenAssumption
    <2> QED
        BY <1>0, <1>1, <1>3, <1>5, <2>1, VersionShape DEF LaunchInv, LaunchInTime, Version
<1>12. HeldInTime'
    BY <1>0, <1>1, <1>3, <1>5 DEF LaunchInv, HeldInTime, InTime, Version
<1> QED
    BY <1>6, <1>7, <1>8, <1>9, <1>10, <1>11, <1>12 DEF TokenInv, TierInv

\* The entries of the tiers a launch that no change overtook may hold.
LEMMA TierMayBeHeld ==
    ASSUME TokenInv, NEW l \in Launches, launch[l] # None,
           NEW e \in {memory[launch[l].user], row[launch[l].user]}, e # None
    PROVE  MayHold(l, "validate", e)
<1>1. launch[l].user \in Users /\ e \in Entry
    BY LaunchShape DEF TokenInv, TypeOK
<1>2. InTime(e, launch[l].user)
    BY <1>1 DEF TokenInv, TiersInTime
<1>3. launch[l].overtaken = FALSE => ~PendingFor(launch[l].user)
    BY DEF TokenInv, LaunchUpToDate
<1>4. CommittedFor(launch[l].user) => PendingFor(launch[l].user)
    BY DEF CommittedFor, PendingFor
<1>5. launch[l].overtaken = FALSE /\ e.raced = FALSE => e.version = Version(launch[l].user)
    BY <1>1, <1>3, <1>4 DEF TokenInv, MemoryUpToDate, RowUpToDate
<1> QED
    BY <1>1, <1>2, <1>5 DEF MayHold

\* What a launch holds it may go on holding.
LEMMA HeldMayBeHeld ==
    ASSUME TokenInv, NEW l \in Launches, launch[l] # None, NEW pc \in Pcs,
           pc \in {"created", "put_row"} => launch[l].pc = pc,
           pc \in {"validate", "insert"} => launch[l].pc \in {"validate", "put_row"}
    PROVE  MayHold(l, pc, launch[l].held)
<1>1. launch[l].held \in Entry \cup {None}
    BY LaunchShape DEF TokenInv
<1> QED
    BY <1>1 DEF TokenInv, Holding, HeldUpToDate, HeldInTime, MayHold

LEMMA GetMemoryKeeps ==
    ASSUME TokenInv, NEW l \in Launches, GetMemory(l)
    PROVE  TokenInv'
<1> DEFINE u == launch[l].user
<1>1. /\ TypeOK /\ launch[l] # None /\ u \in Users
      /\ launch[l].pc = "memory"
    BY LaunchShape DEF TokenInv, GetMemory, At
<1>2. /\ Written(memory, memory) /\ Written(memory, [memory EXCEPT ![u] = None])
      /\ Written(row, row') /\ UNCHANGED <<changed, row, died, change, monitor, now>>
      /\ died' \in [Tokens -> Time \cup {None}]
    BY <1>1, WrittenLess DEF TypeOK, GetMemory
<1>3. CASE /\ memory[u] # None
           /\ Hold(l, "validate", memory[u], "memory") /\ AwaitFrom(l) /\ UNCHANGED memory
    <2>1. Moves(l, "validate", memory[u])
        BY <1>1, <1>3, HoldShape DEF TypeOK, Pcs
    <2>2. MayHold(l, "validate", memory[u])
        BY <1>1, <1>3, TierMayBeHeld
    <2> QED
        BY <1>1, <1>2, <1>3, <2>1, <2>2, LaunchMoves DEF Pcs, OnLoop
<1>4. CASE /\ Goto(l, "row") /\ KeepLoop(l)
           /\ memory' = [memory EXCEPT ![u] = None]
    <2>1. Moves(l, "row", launch[l].held)
        BY <1>1, <1>4, GotoShape DEF Pcs
    <2>2. MayHold(l, "row", launch[l].held)
        BY <1>1, HeldMayBeHeld DEF Pcs
    <2> QED
        BY <1>1, <1>2, <1>4, <2>1, <2>2, LaunchMoves DEF Pcs, OnLoop
<1> QED
    BY <1>3, <1>4 DEF GetMemory

LEMMA GetRowKeeps ==
    ASSUME TokenInv, NEW l \in Launches, GetRow(l)
    PROVE  TokenInv'
<1> DEFINE u == launch[l].user
<1>1. /\ TypeOK /\ launch[l] # None /\ u \in Users
      /\ launch[l].pc = "row"
    BY LaunchShape DEF TokenInv, GetRow, At
<1>2. /\ Written(row, row) /\ Written(row, [row EXCEPT ![u] = None])
      /\ Written(memory, memory') /\ UNCHANGED <<changed, memory, died, change, monitor, now>>
      /\ died' \in [Tokens -> Time \cup {None}] /\ AwaitFrom(l)
    BY <1>1, WrittenLess DEF TypeOK, GetRow
<1>3. CASE row[u] # None /\ Hold(l, "validate", row[u], "row") /\ UNCHANGED row
    <2>1. Moves(l, "validate", row[u])
        BY <1>1, <1>3, HoldShape DEF TypeOK, Pcs
    <2>2. MayHold(l, "validate", row[u])
        BY <1>1, <1>3, TierMayBeHeld
    <2> QED
        BY <1>1, <1>2, <1>3, <2>1, <2>2, LaunchMoves DEF Pcs, OnLoop
<1>4. CASE Goto(l, "create") /\ row' \in {row, [row EXCEPT ![u] = None]}
    <2>1. Moves(l, "create", launch[l].held)
        BY <1>1, <1>4, GotoShape DEF Pcs
    <2>2. MayHold(l, "create", launch[l].held)
        BY <1>1, HeldMayBeHeld DEF Pcs
    <2> QED
        BY <1>1, <1>2, <1>4, <2>1, <2>2, LaunchMoves DEF Pcs, OnLoop
<1> QED
    BY <1>3, <1>4 DEF GetRow

LEMMA ValidatedKeeps ==
    ASSUME TokenInv, NEW l \in Launches, Validated(l)
    PROVE  TokenInv'
<1> DEFINE u == launch[l].user
<1>1. /\ TypeOK /\ launch[l] # None /\ u \in Users
      /\ launch[l].pc = "validate" /\ launch[l].held # None
    BY LaunchShape DEF TokenInv, Validated, At, Holding
<1>2. MayHold(l, "insert", launch[l].held)
    BY <1>1, HeldMayBeHeld DEF Pcs
<1>3. Fits(Promoted(l), u)
    BY <1>1, <1>2, PromotedShape DEF Fits, MayHold, InTime
<1>4. Written(memory, memory')
    BY <1>1, <1>3, WrittenOne, WrittenLess DEF Validated, TypeOK
<1>5. /\ Written(row, row') /\ UNCHANGED <<changed, row, died, change, monitor, now>>
      /\ died' \in [Tokens -> Time \cup {None}]
    BY <1>1, WrittenLess DEF TypeOK, Validated
<1>6. Moves(l, "insert", launch[l].held)
    BY <1>1, GotoShape DEF Pcs, Validated
<1> QED
    BY <1>1, <1>2, <1>4, <1>5, <1>6, LaunchMoves DEF Validated, Pcs, OnLoop

LEMMA NotValidatedKeeps ==
    ASSUME TokenInv, NEW l \in Launches, NotValidated(l)
    PROVE  TokenInv'
<1>1. /\ TypeOK /\ launch[l] # None
      /\ launch[l].user \in Users /\ launch[l].pc = "validate"
    BY LaunchShape DEF TokenInv, NotValidated, At
<1>2. /\ Written(memory, memory') /\ Written(row, row')
      /\ UNCHANGED <<changed, row, died, change, monitor, now>>
      /\ died' \in [Tokens -> Time \cup {None}]
    BY <1>1, WrittenLess DEF TypeOK, NotValidated
<1>3. Moves(l, "drop_row", None)
    BY <1>1, HoldShape DEF Pcs, NotValidated
<1>4. MayHold(l, "drop_row", None)
    BY DEF MayHold
<1> QED
    BY <1>1, <1>2, <1>3, <1>4, LaunchMoves DEF NotValidated, Pcs, OnLoop

LEMMA DropRowKeeps ==
    ASSUME TokenInv, NEW l \in Launches, DropRow(l)
    PROVE  TokenInv'
<1>1. /\ TypeOK /\ launch[l] # None
      /\ launch[l].user \in Users /\ launch[l].pc = "drop_row"
    BY LaunchShape DEF TokenInv, DropRow, At
<1>2. /\ Written(memory, memory') /\ Written(row, row')
      /\ UNCHANGED <<changed, memory, died, change, monitor, now>>
      /\ died' \in [Tokens -> Time \cup {None}]
    <2>1. /\ Written(memory, memory)
          /\ Written(row, row) /\ Written(row, [row EXCEPT ![launch[l].user] = None])
        BY <1>1, WrittenLess DEF TypeOK
    <2>2. /\ UNCHANGED <<changed, memory, died, change, monitor, now>>
          /\ row' = row \/ row' = [row EXCEPT ![launch[l].user] = None]
        BY DEF DropRow
    <2> QED
        BY <1>1, <2>1, <2>2 DEF TypeOK
<1>3. Moves(l, "create", launch[l].held)
    BY <1>1, GotoShape DEF Pcs, DropRow
<1>4. MayHold(l, "create", launch[l].held)
    BY <1>1, HeldMayBeHeld DEF Pcs
<1> QED
    BY <1>1, <1>2, <1>3, <1>4, LaunchMoves DEF DropRow, Pcs, OnLoop

\* The entry of a new token, and of the version its launch built.
LEMMA CreateKeeps ==
    ASSUME TokenInv, NEW l \in Launches, NEW t \in Tokens, Create(l, t)
    PROVE  TokenInv'
<1> DEFINE e == [tok |-> t, user |-> launch[l].user, version |-> launch[l].version,
                 at |-> now, raced |-> FALSE]
<1>1. /\ TypeOK /\ launch[l] # None /\ launch[l].user \in Users
      /\ launch[l].pc = "create" /\ launch[l].version \in Versions /\ launch[l].began \in Time
    BY LaunchShape DEF TokenInv, Create, At
<1>2. e \in Entry /\ e.version = launch[l].version /\ e.at = now /\ e # None
    <2>1. now \in Time /\ FALSE \in BOOLEAN
        BY <1>1 DEF TypeOK
    <2>2. e \in Entry
        BY <1>1, <2>1 DEF Entry
    <2> QED
        BY <2>2, EntryShape
<1>3. Hold(l, "created", e, "none")
    BY DEF Create
<1> HIDE DEF e
<1>4. Moves(l, "created", e)
    BY <1>1, <1>2, <1>3, HoldShape DEF Pcs
<1>5. InTime(e, launch[l].user)
    <2> DEFINE u == launch[l].user  v == launch[l].version
    <2>1. /\ launch[l].began <= now /\ now <= launch[l].began + Timeout
          /\ v <= Version(u)
          /\ v < Version(u) => launch[l].began <= changed[u][v + 1]
        BY <1>1 DEF TokenInv, LaunchInTime
    <2>2. v < Version(u) => changed[u][v + 1] \in Int
        BY <1>1, VersionShape
    <2>3. now \in Int /\ Timeout \in Int /\ launch[l].began \in Int
        BY <1>1, VersionShape
    <2>4. v < Version(u) => now <= changed[u][v + 1] + Timeout
        BY <2>1, <2>2, <2>3
    <2> QED
        BY <1>2, <2>1, <2>3, <2>4 DEF InTime
<1>6. MayHold(l, "created", e)
    BY <1>1, <1>2, <1>5 DEF TokenInv, LaunchUpToDate, MayHold
<1>7. /\ Written(memory, memory') /\ Written(row, row')
      /\ UNCHANGED <<changed, memory, row, change, monitor, now>>
      /\ died' \in [Tokens -> Time \cup {None}]
    BY <1>1, WrittenLess DEF TypeOK, Create
<1> QED
    BY <1>1, <1>4, <1>6, <1>7, LaunchMoves DEF Create, Pcs, OnLoop

LEMMA PutMemoryKeeps ==
    ASSUME TokenInv, NEW l \in Launches, PutMemory(l)
    PROVE  TokenInv'
<1> DEFINE u == launch[l].user
<1>1. /\ TypeOK /\ launch[l] # None /\ u \in Users /\ launch[l].version \in Versions
      /\ launch[l].pc = "created" /\ launch[l].held # None
      /\ launch[l].held.version = launch[l].version /\ launch[l].began \in Time
    BY LaunchShape DEF TokenInv, PutMemory, At, Holding
<1>2. /\ NewEntry(l) \in Entry /\ NewEntry(l) # None
      /\ NewEntry(l).version = launch[l].version /\ NewEntry(l).at = now
      /\ NewEntry(l).raced = launch[l].overtaken
    BY <1>1, NewEntryShape, EntryShape
<1>3. InTime(NewEntry(l), u)
    <2> DEFINE v == launch[l].version
    <2>1. /\ launch[l].began <= now /\ now <= launch[l].began + Timeout
          /\ v <= Version(u)
          /\ v < Version(u) => launch[l].began <= changed[u][v + 1]
        BY <1>1 DEF TokenInv, LaunchInTime
    <2>2. v < Version(u) => changed[u][v + 1] \in Int
        BY <1>1, VersionShape
    <2>3. now \in Int /\ Timeout \in Int /\ launch[l].began \in Int
        BY <1>1, VersionShape
    <2>4. v < Version(u) => now <= changed[u][v + 1] + Timeout
        BY <2>1, <2>2, <2>3
    <2> QED
        BY <1>2, <2>1, <2>3, <2>4 DEF InTime
<1>4. launch[l].overtaken = FALSE => NewEntry(l).version = Version(u)
    BY <1>1, <1>2 DEF TokenInv, LaunchUpToDate
<1>5. Fits(NewEntry(l), u) /\ MayHold(l, "put_row", NewEntry(l))
    BY <1>1, <1>2, <1>3, <1>4 DEF Fits, MayHold
<1>6. Moves(l, "put_row", NewEntry(l))
    BY <1>1, <1>2, HoldShape DEF Pcs, PutMemory
<1>7. Written(memory, memory')
    BY <1>1, <1>5, WrittenOne DEF TypeOK, PutMemory
<1>8. /\ Written(row, row') /\ UNCHANGED <<changed, row, change, monitor, now>>
      /\ died' \in [Tokens -> Time \cup {None}]
    BY <1>1, WrittenLess DEF TypeOK, PutMemory
<1> QED
    BY <1>1, <1>5, <1>6, <1>7, <1>8, LaunchMoves DEF PutMemory, Pcs, OnLoop

LEMMA PutRowKeeps ==
    ASSUME TokenInv, NEW l \in Launches, PutRow(l)
    PROVE  TokenInv'
<1> DEFINE u == launch[l].user
           e == [launch[l].held EXCEPT !.raced = launch[l].overtaken]
<1>1. /\ TypeOK /\ launch[l] # None /\ u \in Users
      /\ launch[l].pc = "put_row" /\ launch[l].held # None
      /\ launch[l].held.version = launch[l].version
    BY LaunchShape DEF TokenInv, PutRow, At, Holding
<1>2. MayHold(l, "insert", launch[l].held)
    BY <1>1, HeldMayBeHeld DEF Pcs
<1>3. /\ e \in Entry /\ e.version = launch[l].held.version /\ e.at = launch[l].held.at
      /\ e.raced = launch[l].overtaken
    BY <1>1, WrittenShape
<1>4. row' = row \/ row' = [row EXCEPT ![u] = e]
    BY DEF PutRow
<1> HIDE DEF e
<1>5. Fits(e, u)
    BY <1>1, <1>2, <1>3 DEF Fits, MayHold, InTime, TokenInv, LaunchUpToDate
<1>6. Written(row, row')
    <2>1. Written(row, row) /\ Written(row, [row EXCEPT ![u] = e])
        BY <1>1, <1>5, WrittenOne, WrittenLess DEF TypeOK
    <2> QED
        BY <1>4, <2>1
<1>7. /\ Written(memory, memory') /\ UNCHANGED <<changed, memory, change, monitor, now>>
      /\ died' \in [Tokens -> Time \cup {None}]
    BY <1>1, WrittenLess DEF TypeOK, PutRow
<1>8. Moves(l, "insert", launch[l].held)
    BY <1>1, GotoShape DEF Pcs, PutRow
<1> QED
    BY <1>1, <1>2, <1>6, <1>7, <1>8, LaunchMoves DEF PutRow, Pcs, OnLoop

\* A launch under way, whichever its step.
LEMMA LaunchStepKeeps ==
    ASSUME TokenInv, NEW l \in Launches, LaunchStep(l)
    PROVE  TokenInv'
<1>1. CASE CreateFails(l)
    <2>1. loop # l
        BY <1>1 DEF TokenInv, TypeOK, CreateFails, At
    <2> QED
        BY <1>1, <2>1, LaunchEnds DEF CreateFails
<1>2. CASE Answer(l)
    BY <1>2, LaunchEnds DEF Answer
<1> QED
    BY <1>1, <1>2, BeginKeeps, GetMemoryKeeps, GetRowKeeps, ValidatedKeeps, NotValidatedKeeps,
       DropRowKeeps, CreateKeeps, PutMemoryKeeps, PutRowKeeps
    DEF LaunchStep

-----------------------------------------------------------------------------
(* The other actors.                                                       *)

\* A change withdraws the current version of those it concerns, now.
LEMMA CommitShape ==
    ASSUME TypeOK, NEW r \in Requests, NEW whom, CommitChange(r, whom)
    PROVE  /\ changed' \in [Users -> Seq(Time)]
           /\ \A u \in Users :
                /\ u \notin whom => changed'[u] = changed[u] /\ Version(u)' = Version(u)
                /\ u \in whom =>
                    /\ Version(u)' = Version(u) + 1 /\ changed'[u][Version(u) + 1] = now
                    /\ \A v \in Versions : v < Version(u) => changed'[u][v + 1] = changed[u][v + 1]
                /\ Version(u)' \in Versions
<1>1. changed' = [u \in Users |-> IF u \in whom THEN Append(changed[u], now) ELSE changed[u]]
    BY DEF CommitChange
<1>2. ASSUME NEW u \in Users
      PROVE  /\ changed'[u] \in Seq(Time)
             /\ u \notin whom => changed'[u] = changed[u] /\ Version(u)' = Version(u)
             /\ u \in whom =>
                    /\ Version(u)' = Version(u) + 1 /\ changed'[u][Version(u) + 1] = now
                    /\ \A v \in Versions : v < Version(u) => changed'[u][v + 1] = changed[u][v + 1]
             /\ Version(u)' \in Versions
    <2>1. changed[u] \in Seq(Time) /\ now \in Time /\ Version(u) \in Versions
        BY DEF TypeOK
    <2>2. CASE u \in whom
        <3>1. changed'[u] = Append(changed[u], now)
            BY <1>1, <2>2
        <3>2. /\ Append(changed[u], now) \in Seq(Time)
              /\ Len(Append(changed[u], now)) = Len(changed[u]) + 1
              /\ Append(changed[u], now)[Len(changed[u]) + 1] = now
              /\ \A i \in 1..Len(changed[u]) : Append(changed[u], now)[i] = changed[u][i]
            BY <2>1
        <3>3. Version(u)' = Version(u) + 1 /\ changed'[u][Version(u) + 1] = now
            BY <3>1, <3>2 DEF Version
        <3>4. Version(u) < MaxChanges
            BY <2>2 DEF CommitChange
        <3>5. \A v \in Versions : v < Version(u) => changed'[u][v + 1] = changed[u][v + 1]
            BY <2>1, <3>1, <3>2, TokenAssumption DEF Version, Versions
        <3>6. Version(u)' \in Versions
            BY <2>1, <3>3, <3>4, TokenAssumption DEF Versions
        <3> QED
            BY <2>2, <3>1, <3>2, <3>3, <3>5, <3>6
    <2>3. CASE u \notin whom
        BY <1>1, <2>1, <2>3 DEF Version
    <2> QED
        BY <2>2, <2>3
<1> QED
    BY <1>1, <1>2

\* What was in time stays so: the version withdrawn now is withdrawn no earlier
\* than what is dated until now.
LEMMA CommitInTime ==
    ASSUME TypeOK, NEW r \in Requests, NEW whom, CommitChange(r, whom),
           NEW u \in Users, NEW v \in Versions, v <= Version(u),
           NEW at \in Int, NEW slack \in Nat, at <= now,
           v < Version(u) => at <= changed[u][v + 1] + slack
    PROVE  /\ v <= Version(u)' /\ at <= now'
           /\ v < Version(u)' => at <= changed'[u][v + 1] + slack
<1>1. Version(u) \in Int /\ now \in Int /\ v \in Int /\ now' = now
    BY VersionShape DEF CommitChange, Versions
<1>2. CASE u \notin whom
    BY <1>1, <1>2, CommitShape
<1>3. CASE u \in whom
    <2>1. /\ Version(u)' = Version(u) + 1 /\ changed'[u][Version(u) + 1] = now
          /\ v < Version(u) => changed'[u][v + 1] = changed[u][v + 1]
        BY <1>3, CommitShape
    <2> QED
        BY <1>1, <2>1
<1> QED
    BY <1>2, <1>3

LEMMA CommitKeeps ==
    ASSUME TokenInv, NEW r \in Requests, NEW whom \in SUBSET Users, CommitChange(r, whom)
    PROVE  TokenInv'
<1>1. TypeOK
    BY DEF TokenInv
<1>2. /\ launch' \in [Launches -> LaunchRow \cup {None}]
      /\ \A l \in Launches :
            /\ launch'[l] = None <=> launch[l] = None
            /\ launch[l] # None /\ launch[l].user \notin whom => launch'[l] = launch[l]
            /\ launch[l] # None /\ launch[l].user \in whom => launch'[l].overtaken = TRUE
            /\ launch[l] # None =>
                /\ launch'[l].pc = launch[l].pc /\ launch'[l].held = launch[l].held
                /\ launch'[l].user = launch[l].user /\ launch'[l].version = launch[l].version
                /\ launch'[l].began = launch[l].began
    <2>1. Overtake(whom)
        BY DEF CommitChange
    <2> QED
        BY <1>1, <2>1, OvertakeShape
<1>3. /\ change' \in [Requests -> ChangeRow \cup {None}]
      /\ change[r] = None /\ change'[r] # None /\ change'[r].pc = "committed" /\ change'[r].whom = whom
      /\ \A s \in Requests \ {r} : change'[s] = change[s]
    <2> DEFINE new == [pc |-> "committed", whom |-> whom]
    <2>1. new \in ChangeRow /\ new.pc = "committed" /\ new.whom = whom
        BY DEF ChangeRow
    <2>2. change[r] = None /\ change' = [change EXCEPT ![r] = new]
        BY DEF CommitChange
    <2> HIDE DEF new
    <2> QED
        BY <1>1, <2>1, <2>2, TokenAssumption DEF TypeOK
<1>4. UNCHANGED <<memory, row, died, loop, monitor, now>>
    BY DEF CommitChange
<1>5. ASSUME NEW u \in Users, u \notin whom
      PROVE  /\ Version(u)' = Version(u)
             /\ PendingFor(u)' <=> PendingFor(u)
             /\ CommittedFor(u)' <=> CommittedFor(u)
    <2>1. Version(u)' = Version(u)
        BY <1>1, <1>5, CommitShape
    <2>2. PendingFor(u)' <=> PendingFor(u)
        BY <1>3, <1>5 DEF PendingFor
    <2>3. CommittedFor(u)' <=> CommittedFor(u)
        BY <1>3, <1>5 DEF CommittedFor
    <2> QED
        BY <2>1, <2>2, <2>3
<1>6. ASSUME NEW u \in Users, u \in whom
      PROVE  CommittedFor(u)' /\ PendingFor(u)'
    BY <1>3, <1>6 DEF PendingFor, CommittedFor
<1>7. TypeOK'
    <2>1. changed' \in [Users -> Seq(Time)] /\ \A u \in Users : Version(u)' \in Versions
        BY <1>1, CommitShape
    <2>2. \A l \in Launches :
            loop' = l <=> launch'[l] # None /\ launch'[l].pc \in OnLoop
        BY <1>1, <1>2, <1>4 DEF TypeOK, OnLoop
    <2> QED
        BY <1>1, <1>2, <1>3, <1>4, <2>1, <2>2 DEF TypeOK, OnLoop
<1>8. Holding'
    BY <1>2 DEF TokenInv, Holding
<1>9. LaunchUpToDate'
    <2> SUFFICES ASSUME NEW l \in Launches, launch'[l] # None, launch'[l].overtaken = FALSE
                 PROVE  (launch[l].version = Version(launch[l].user) /\ ~PendingFor(launch[l].user))'
        BY DEF LaunchUpToDate
    <2> DEFINE u == launch[l].user
    <2>1. /\ launch[l] # None /\ u \in Users \ whom
          /\ launch'[l] = launch[l]
        BY <1>1, <1>2, LaunchShape
    <2>2. launch[l].version = Version(u) /\ ~PendingFor(u)
        BY <2>1 DEF TokenInv, LaunchUpToDate
    <2>3. ASSUME NEW w \in Users \ whom, w = u
          PROVE  launch[l].version = Version(w)' /\ ~PendingFor(w)'
        BY <1>5, <2>2, <2>3 DEF Version, PendingFor
    <2> QED
        BY <2>1, <2>3 DEF Version, PendingFor
<1>10. MemoryUpToDate'
    <2> SUFFICES ASSUME NEW u \in Users, memory[u] # None, memory[u].raced = FALSE
                 PROVE  memory[u].version = Version(u)' \/ CommittedFor(u)'
        BY <1>4 DEF MemoryUpToDate
    <2>1. memory[u].version = Version(u) \/ CommittedFor(u)
        BY DEF TokenInv, MemoryUpToDate
    <2> QED
        BY <1>5, <1>6, <2>1 DEF Version, CommittedFor
<1>11. RowUpToDate'
    <2> SUFFICES ASSUME NEW u \in Users, row[u] # None, row[u].raced = FALSE
                 PROVE  row[u].version = Version(u)' \/ PendingFor(u)'
        BY <1>4 DEF RowUpToDate
    <2>1. row[u].version = Version(u) \/ PendingFor(u)
        BY DEF TokenInv, RowUpToDate
    <2> QED
        BY <1>5, <1>6, <2>1 DEF Version, PendingFor
<1>12. HeldUpToDate'
    <2> SUFFICES ASSUME NEW l \in Launches, launch'[l] # None, launch'[l].held # None,
                        launch'[l].overtaken = FALSE, launch'[l].held.raced = FALSE
                 PROVE  (launch[l].held.version = Version(launch[l].user))'
        BY DEF HeldUpToDate
    <2> DEFINE u == launch[l].user
    <2>1. /\ launch[l] # None /\ u \in Users \ whom
          /\ launch'[l] = launch[l]
        BY <1>1, <1>2, LaunchShape
    <2>2. launch[l].held.version = Version(u)
        BY <2>1 DEF TokenInv, HeldUpToDate
    <2>3. ASSUME NEW w \in Users \ whom, w = u
          PROVE  launch[l].held.version = Version(w)'
        BY <1>5, <2>2, <2>3 DEF Version
    <2> QED
        BY <2>1, <2>3 DEF Version
<1>13. ASSUME NEW e \in Entry, NEW u \in Users, InTime(e, u)
       PROVE  InTime(e, u)'
    BY <1>1, <1>13, EntryShape, CommitInTime, TokenAssumption DEF InTime
<1>14. TiersInTime'
    <2> SUFFICES ASSUME NEW u \in Users
                 PROVE  /\ memory[u] # None => InTime(memory[u], u)'
                        /\ row[u] # None => InTime(row[u], u)'
        BY <1>4 DEF TiersInTime, InTime
    <2>1. /\ memory[u] # None => memory[u] \in Entry /\ InTime(memory[u], u)
          /\ row[u] # None => row[u] \in Entry /\ InTime(row[u], u)
        BY <1>1 DEF TypeOK, TokenInv, TiersInTime
    <2> QED
        BY <1>4, <1>13, <2>1 DEF InTime
<1>15. HeldInTime'
    <2> SUFFICES ASSUME NEW l \in Launches, launch[l] # None, launch[l].held # None
                 PROVE  InTime(launch[l].held, launch[l].user)'
        BY <1>2 DEF HeldInTime
    <2>1. /\ launch[l].held \in Entry /\ launch[l].user \in Users
          /\ InTime(launch[l].held, launch[l].user)
        BY <1>1, LaunchShape DEF TokenInv, HeldInTime
    <2>2. ASSUME NEW e \in Entry, NEW u \in Users, e = launch[l].held, u = launch[l].user
          PROVE  InTime(e, u)'
        BY <1>13, <2>1, <2>2
    <2> QED
        BY <1>2, <2>1, <2>2 DEF InTime, Version
<1>16. LaunchInTime'
    <2> SUFFICES ASSUME NEW l \in Launches, launch[l] # None
                 PROVE  (LET u == launch[l].user  v == launch[l].version IN
                         /\ launch[l].began <= now /\ now <= launch[l].began + Timeout
                         /\ v <= Version(u)
                         /\ v < Version(u) => launch[l].began <= changed[u][v + 1])'
        BY <1>2 DEF LaunchInTime
    <2> DEFINE u == launch[l].user  v == launch[l].version  began == launch[l].began
    <2>1. /\ began <= now /\ now <= began + Timeout
          /\ v <= Version(u)
          /\ v < Version(u) => began <= changed[u][v + 1]
        BY DEF TokenInv, LaunchInTime
    <2>2. u \in Users /\ v \in Versions /\ began \in Int
        BY <1>1, LaunchShape, VersionShape
    <2>3. \A w \in Versions : w < Version(u) => changed[u][w + 1] \in Int
        BY <1>1, <2>2, VersionShape
    <2> HIDE DEF u, v, began
    <2>4. /\ v <= Version(u) /\ began <= now
          /\ v < Version(u) => began <= changed[u][v + 1] + 0
        BY <2>1, <2>2, <2>3
    <2>5. ASSUME NEW w \in Users, w = u
          PROVE  /\ v <= Version(w)'
                 /\ v < Version(w)' => began <= changed'[w][v + 1] + 0
        BY <1>1, <2>2, <2>4, <2>5, CommitInTime
    <2>6. ASSUME NEW w \in Users, w = u, v < Version(w)'
          PROVE  changed'[w][v + 1] \in Int
        BY <1>7, <2>2, <2>6, TokenAssumption DEF TypeOK, Version, Versions, Time
    <2> QED
        BY <1>2, <1>4, <2>1, <2>2, <2>5, <2>6 DEF u, v, began, Version
<1> QED
    BY <1>7, <1>8, <1>9, <1>10, <1>11, <1>12, <1>14, <1>15, <1>16 DEF TokenInv

\* The launches keep what they have while the versions, the clock and who
\* withdraws from whom stay.
LEMMA LaunchesKeep ==
    ASSUME TokenInv, UNCHANGED <<changed, launch, now>>,
           \A u \in Users : PendingFor(u)' => PendingFor(u)
    PROVE  LaunchInv'
<1>1. \A l \in Launches : launch[l] # None => launch[l].user \in Users
    BY LaunchShape DEF TokenInv
<1>2. LaunchUpToDate'
    BY <1>1 DEF TokenInv, LaunchUpToDate, Version, PendingFor
<1> QED
    BY <1>2 DEF TokenInv, LaunchInv, Holding, HeldUpToDate, LaunchInTime, HeldInTime, InTime, Version

\* So do the tiers, but for what is gone from them.
LEMMA TiersInTimeKept ==
    ASSUME TokenInv, UNCHANGED <<changed, now>>,
           \A u \in Users :
                /\ memory'[u] # None =>
                    /\ memory[u] # None
                    /\ memory'[u].version = memory[u].version /\ memory'[u].at = memory[u].at
                /\ row'[u] # None =>
                    /\ row[u] # None
                    /\ row'[u].version = row[u].version /\ row'[u].at = row[u].at
    PROVE  TiersInTime'
<1> SUFFICES ASSUME NEW u \in Users
             PROVE  /\ memory'[u] # None => InTime(memory[u], u)'
                    /\ row'[u] # None => InTime(row[u], u)'
    BY DEF TiersInTime, InTime
<1>1. /\ memory[u] # None => InTime(memory[u], u)
      /\ row[u] # None => InTime(row[u], u)
    BY DEF TokenInv, TiersInTime
<1>2. memory'[u] # None => InTime(memory[u], u)'
    BY <1>1 DEF InTime, Version
<1>3. row'[u] # None => InTime(row[u], u)'
    BY <1>1 DEF InTime, Version
<1> QED
    BY <1>2, <1>3

\* Once the memory is cleared only the table may still hold what is withdrawn.
LEMMA ClearMemoryKeeps ==
    ASSUME TokenInv, NEW r \in Requests, ClearMemory(r)
    PROVE  TokenInv'
<1>1. TypeOK /\ change[r] # None /\ change[r].pc = "committed"
    BY DEF TokenInv, ClearMemory
<1> DEFINE new == [change[r] EXCEPT !.pc = "cleared"]
<1>2. /\ change[r] \in ChangeRow /\ change[r].whom \in SUBSET Users
      /\ change \in [Requests -> ChangeRow \cup {None}]
    BY <1>1, TokenAssumption DEF TypeOK, ChangeRow
<1>3. change' = [change EXCEPT ![r] = new]
    BY <1>2 DEF ClearMemory
<1>4. new \in ChangeRow /\ new.pc = "cleared" /\ new.whom = change[r].whom
    BY <1>2 DEF ChangeRow
<1> HIDE DEF new
<1>5. /\ change' \in [Requests -> ChangeRow \cup {None}]
      /\ change'[r] # None /\ change'[r].pc = "cleared" /\ change'[r].whom = change[r].whom
      /\ \A s \in Requests \ {r} : change'[s] = change[s]
    BY <1>2, <1>3, <1>4, TokenAssumption
<1>6. /\ memory' \in [Users -> Entry \cup {None}]
      /\ \A u \in Users : memory'[u] = IF u \in change[r].whom THEN None ELSE memory[u]
      /\ UNCHANGED <<changed, row, died, launch, loop, monitor, now>>
    BY <1>1 DEF TypeOK, ClearMemory, ClearedMemory, Without
<1>7. TypeOK'
    BY <1>1, <1>5, <1>6 DEF TypeOK, Version
<1>8. LaunchInv'
    <2>1. \A u \in Users : PendingFor(u)' => PendingFor(u)
        BY <1>1, <1>5 DEF PendingFor
    <2> QED
        BY <1>6, <2>1, LaunchesKeep
<1>9. TiersInTime'
    BY <1>6, TiersInTimeKept
<1>10. MemoryUpToDate'
    <2> SUFFICES ASSUME NEW u \in Users, memory'[u] # None, memory'[u].raced = FALSE
                 PROVE  memory'[u].version = Version(u)' \/ CommittedFor(u)'
        BY DEF MemoryUpToDate
    <2>1. u \notin change[r].whom /\ memory'[u] = memory[u]
        BY <1>6
    <2>2. memory[u].version = Version(u) \/ CommittedFor(u)
        BY <2>1 DEF TokenInv, MemoryUpToDate
    <2>3. CommittedFor(u) => CommittedFor(u)'
        BY <1>5, <2>1 DEF CommittedFor
    <2> QED
        BY <1>6, <2>1, <2>2, <2>3 DEF Version
<1>11. RowUpToDate'
    <2> SUFFICES ASSUME NEW u \in Users, row[u] # None, row[u].raced = FALSE
                 PROVE  row[u].version = Version(u)' \/ PendingFor(u)'
        BY <1>6 DEF RowUpToDate
    <2>1. row[u].version = Version(u) \/ PendingFor(u)
        BY DEF TokenInv, RowUpToDate
    <2>2. PendingFor(u) => PendingFor(u)'
        BY <1>1, <1>5 DEF PendingFor
    <2> QED
        BY <1>6, <2>1, <2>2 DEF Version
<1> QED
    BY <1>7, <1>8, <1>9, <1>10, <1>11 DEF TokenInv, LaunchInv

\* A row whose delete failed is one a race touched.
LEMMA ClearRowsKeeps ==
    ASSUME TokenInv, NEW r \in Requests, ClearRows(r)
    PROVE  TokenInv'
<1>1. TypeOK /\ change[r] # None /\ change[r].pc = "cleared"
    BY DEF TokenInv, ClearRows
<1>2. /\ change' \in [Requests -> ChangeRow \cup {None}] /\ change'[r] = None
      /\ \A s \in Requests \ {r} : change'[s] = change[s]
      /\ UNCHANGED <<changed, memory, died, launch, loop, monitor, now>>
    BY <1>1 DEF TypeOK, ClearRows
<1>3. /\ row' \in [Users -> Entry \cup {None}]
      /\ \A u \in Users :
            /\ u \notin change[r].whom => row'[u] = row[u]
            /\ u \in change[r].whom /\ row'[u] # None =>
                /\ row[u] # None /\ row'[u].raced = TRUE
                /\ row'[u].version = row[u].version /\ row'[u].at = row[u].at
    <2>1. row \in [Users -> Entry \cup {None}]
        BY <1>1 DEF TypeOK
    <2>2. CASE row' = Without(row, change[r].whom)
        BY <2>1, <2>2 DEF Without
    <2>3. CASE row' = [u \in Users |-> IF u \in change[r].whom THEN Survives(row[u]) ELSE row[u]]
        <3> SUFFICES ASSUME NEW u \in Users
                     PROVE  /\ row'[u] \in Entry \cup {None}
                            /\ u \notin change[r].whom => row'[u] = row[u]
                            /\ u \in change[r].whom /\ row'[u] # None =>
                                /\ row[u] # None /\ row'[u].raced = TRUE
                                /\ row'[u].version = row[u].version /\ row'[u].at = row[u].at
            BY <2>3
        <3>1. row[u] \in Entry \cup {None}
            BY <2>1
        <3>2. row'[u] = IF u \in change[r].whom THEN Survives(row[u]) ELSE row[u]
            BY <2>3
        <3> QED
            BY <3>1, <3>2, SurvivesShape
    <2> QED
        BY <2>2, <2>3 DEF ClearRows
<1>4. TypeOK'
    BY <1>1, <1>2, <1>3 DEF TypeOK, Version
<1>5. LaunchInv'
    <2>1. \A u \in Users : PendingFor(u)' => PendingFor(u)
        BY <1>2 DEF PendingFor
    <2> QED
        BY <1>2, <2>1, LaunchesKeep
<1>6. TiersInTime'
    BY <1>2, <1>3, TiersInTimeKept
<1>7. MemoryUpToDate'
    <2> SUFFICES ASSUME NEW u \in Users, memory[u] # None, memory[u].raced = FALSE
                 PROVE  memory[u].version = Version(u)' \/ CommittedFor(u)'
        BY <1>2 DEF MemoryUpToDate
    <2>1. memory[u].version = Version(u) \/ CommittedFor(u)
        BY DEF TokenInv, MemoryUpToDate
    <2>2. CommittedFor(u) => CommittedFor(u)'
        BY <1>1, <1>2 DEF CommittedFor
    <2> QED
        BY <1>2, <2>1, <2>2 DEF Version
<1>8. RowUpToDate'
    <2> SUFFICES ASSUME NEW u \in Users, row'[u] # None, row'[u].raced = FALSE
                 PROVE  row'[u].version = Version(u)' \/ PendingFor(u)'
        BY DEF RowUpToDate
    <2>1. u \notin change[r].whom /\ row'[u] = row[u]
        BY <1>3
    <2>2. row[u].version = Version(u) \/ PendingFor(u)
        BY <2>1 DEF TokenInv, RowUpToDate
    <2>3. PendingFor(u) => PendingFor(u)'
        BY <1>2, <2>1 DEF PendingFor
    <2> QED
        BY <1>2, <2>1, <2>2, <2>3 DEF Version
<1> QED
    BY <1>4, <1>5, <1>6, <1>7, <1>8 DEF TokenInv, LaunchInv

\* The monitor only takes entries away, and Guacamole only tokens.
LEMMA DropsKeep ==
    ASSUME TokenInv, MonitorStep \/ (\E t \in Tokens : TokenDies(t))
    PROVE  TokenInv'
<1>1. TypeOK
    BY DEF TokenInv
<1>2. /\ Written(memory, memory') /\ Written(row, row') /\ monitor' \in Users \cup {None}
      /\ died' \in [Tokens -> Time \cup {None}]
      /\ UNCHANGED <<changed, launch, loop, change, now>>
    <2>1. CASE \E u \in Users : DropMemory(u)
        <3>1. PICK u \in Users : DropMemory(u)
            BY <2>1
        <3>2. /\ Written(memory, [memory EXCEPT ![u] = None])
              /\ Written(row, row)
            BY <1>1, WrittenLess DEF TypeOK
        <3> QED
            BY <1>1, <3>1, <3>2 DEF DropMemory, TypeOK
    <2>2. CASE DropTableRow
        <3>1. /\ row' = row \/ row' = [row EXCEPT ![monitor] = None]
              /\ monitor' = None /\ UNCHANGED <<changed, memory, died, launch, loop, change, now>>
            BY <2>2 DEF DropTableRow
        <3>2. /\ Written(row, row) /\ Written(row, [row EXCEPT ![monitor] = None])
              /\ Written(memory, memory)
            BY <1>1, WrittenLess DEF TypeOK
        <3> QED
            BY <1>1, <3>1, <3>2 DEF TypeOK
    <2>3. CASE \E t \in Tokens : TokenDies(t)
        BY <1>1, <2>3, WrittenLess DEF TokenDies, TypeOK
    <2> QED
        BY <2>1, <2>2, <2>3 DEF MonitorStep
<1>3. TypeOK'
    BY <1>1, <1>2 DEF TypeOK, Written, Version
<1>4. LaunchInv'
    BY <1>2, LaunchesKeep DEF PendingFor
<1>5. TierInv'
    BY <1>2, TiersKeep
<1> QED
    BY <1>3, <1>4, <1>5 DEF TokenInv, LaunchInv, TierInv

\* A restart that finds invalidations under way leaves the rows they concern
\* to a race; the others are current.
LEMMA RestartKeeps ==
    ASSUME TokenInv, Restart
    PROVE  TokenInv'
<1>1. TypeOK
    BY DEF TokenInv
<1>2. /\ memory' = [u \in Users |-> None] /\ launch' = [l \in Launches |-> None]
      /\ loop' = None /\ monitor' = None /\ change' = [r \in Requests |-> None]
      /\ UNCHANGED <<changed, died, now>>
    BY DEF Restart
<1>3. /\ row' \in [Users -> Entry \cup {None}]
      /\ \A u \in Users :
            /\ ~PendingFor(u) => row'[u] = row[u]
            /\ PendingFor(u) /\ row'[u] # None => row'[u].raced = TRUE
            /\ row'[u] # None =>
                /\ row[u] # None
                /\ row'[u].version = row[u].version /\ row'[u].at = row[u].at
    <2>1. row' = [u \in Users |-> IF PendingFor(u) THEN Survives(row[u]) ELSE row[u]]
        BY DEF Restart
    <2> SUFFICES ASSUME NEW u \in Users
                 PROVE  /\ row'[u] \in Entry \cup {None}
                        /\ ~PendingFor(u) => row'[u] = row[u]
                        /\ PendingFor(u) /\ row'[u] # None => row'[u].raced = TRUE
                        /\ row'[u] # None =>
                            /\ row[u] # None
                            /\ row'[u].version = row[u].version /\ row'[u].at = row[u].at
        BY <2>1
    <2>2. row[u] \in Entry \cup {None}
        BY <1>1 DEF TypeOK
    <2>3. row'[u] = IF PendingFor(u) THEN Survives(row[u]) ELSE row[u]
        BY <2>1
    <2> QED
        BY <2>2, <2>3, SurvivesShape
<1>4. TypeOK'
    BY <1>1, <1>2, <1>3, TokenAssumption DEF TypeOK, Version
<1>5. LaunchInv'
    BY <1>2 DEF LaunchInv, Holding, LaunchUpToDate, HeldUpToDate, LaunchInTime, HeldInTime
<1>6. TiersInTime'
    BY <1>2, <1>3, TiersInTimeKept
<1>7. MemoryUpToDate'
    BY <1>2 DEF MemoryUpToDate
<1>8. RowUpToDate'
    <2> SUFFICES ASSUME NEW u \in Users, row'[u] # None, row'[u].raced = FALSE
                 PROVE  row'[u].version = Version(u)'
        BY DEF RowUpToDate
    <2>1. ~PendingFor(u) /\ row'[u] = row[u]
        BY <1>3
    <2>2. row[u].version = Version(u)
        BY <2>1 DEF TokenInv, RowUpToDate
    <2> QED
        BY <1>2, <2>1, <2>2 DEF Version
<1> QED
    BY <1>4, <1>5, <1>6, <1>7, <1>8 DEF TokenInv, LaunchInv

\* The clock stops at the limit of the launch that waits longest.
LEMMA TickKeeps ==
    ASSUME TokenInv, Tick
    PROVE  TokenInv'
<1>1. TypeOK
    BY DEF TokenInv
<1>2. /\ now' = now + 1 /\ now < MaxTime /\ now \in Nat
      /\ \A l \in Launches : launch[l] # None => now < launch[l].began + Timeout
      /\ UNCHANGED <<changed, memory, row, died, launch, loop, change, monitor>>
    BY <1>1 DEF Tick, TypeOK, Time
<1>3. TypeOK'
    BY <1>1, <1>2, TokenAssumption DEF TypeOK, Time, Version
<1>4. ASSUME NEW e \in Entry, NEW u, InTime(e, u)
      PROVE  InTime(e, u)'
    BY <1>2, <1>4, EntryShape DEF InTime, Version
<1>5. TiersInTime'
    <2> SUFFICES ASSUME NEW u \in Users
                 PROVE  /\ memory[u] # None => InTime(memory[u], u)'
                        /\ row[u] # None => InTime(row[u], u)'
        BY <1>2 DEF TiersInTime, InTime
    <2>1. /\ memory[u] # None => memory[u] \in Entry /\ InTime(memory[u], u)
          /\ row[u] # None => row[u] \in Entry /\ InTime(row[u], u)
        BY <1>1 DEF TypeOK, TokenInv, TiersInTime
    <2> QED
        BY <1>2, <1>4, <2>1 DEF InTime
<1>6. HeldInTime'
    <2> SUFFICES ASSUME NEW l \in Launches, launch[l] # None, launch[l].held # None
                 PROVE  InTime(launch[l].held, launch[l].user)'
        BY <1>2 DEF HeldInTime
    <2>1. launch[l].held \in Entry /\ InTime(launch[l].held, launch[l].user)
        BY <1>1, LaunchShape DEF TokenInv, HeldInTime
    <2> QED
        BY <1>2, <1>4, <2>1 DEF InTime
<1>7. LaunchInTime'
    <2> SUFFICES ASSUME NEW l \in Launches, launch[l] # None
                 PROVE  (LET u == launch[l].user  v == launch[l].version IN
                         /\ launch[l].began <= now /\ now <= launch[l].began + Timeout
                         /\ v <= Version(u)
                         /\ v < Version(u) => launch[l].began <= changed[u][v + 1])'
        BY <1>2 DEF LaunchInTime
    <2>1. /\ launch[l].began \in Int /\ Timeout \in Int
          /\ now < launch[l].began + Timeout
        BY <1>1, <1>2, LaunchShape, TokenAssumption DEF Time
    <2> QED
        BY <1>2, <2>1 DEF TokenInv, LaunchInTime, Version
<1> QED
    BY <1>2, <1>3, <1>5, <1>6, <1>7
    DEF TokenInv, Holding, LaunchUpToDate, MemoryUpToDate, RowUpToDate, HeldUpToDate,
        PendingFor, CommittedFor, Version

-----------------------------------------------------------------------------
LEMMA TokenStep ==
    ASSUME TokenInv, [TokenNext]_tokenVars
    PROVE  TokenInv'
<1>1. CASE \E l \in Launches : LaunchStep(l)
    BY <1>1, LaunchStepKeeps
<1>2. CASE \E r \in Requests : ChangeStep(r)
    BY <1>2, CommitKeeps, ClearMemoryKeeps, ClearRowsKeeps DEF ChangeStep
<1>3. CASE MonitorStep \/ \E t \in Tokens : TokenDies(t)
    BY <1>3, DropsKeep
<1>4. CASE Restart
    BY <1>4, RestartKeeps
<1>5. CASE Tick
    BY <1>5, TickKeeps
<1>6. CASE UNCHANGED tokenVars
    <2>1. TypeOK' /\ Holding' /\ LaunchUpToDate' /\ MemoryUpToDate'
        BY <1>6 DEF tokenVars, TokenInv, TypeOK, Holding, LaunchUpToDate, MemoryUpToDate,
                    PendingFor, CommittedFor, Version
    <2>2. RowUpToDate' /\ HeldUpToDate' /\ LaunchInTime' /\ TiersInTime' /\ HeldInTime'
        BY <1>6 DEF tokenVars, TokenInv, RowUpToDate, HeldUpToDate, LaunchInTime, TiersInTime,
                    HeldInTime, InTime, PendingFor, Version
    <2> QED
        BY <2>1, <2>2 DEF TokenInv
<1> QED
    BY <1>1, <1>2, <1>3, <1>4, <1>5, <1>6 DEF TokenNext

LEMMA TokenInvHolds == TokenSpec => []TokenInv
BY InitTokenInv, TokenStep, PTL DEF TokenSpec

(* Whatever the launches, changes, invalidations, losses and restarts: a   *)
(* launch opens with the connections it built, unless a change overtook it *)
(* or the launch its token came from, or an invalidation failed.           *)
THEOREM OnlyRacesOpenStale == TokenSpec => []StaleOnlyIfRaced
<1>1. TokenInv => StaleOnlyIfRaced
    <2> SUFFICES ASSUME TokenInv, NEW l \in Launches, At(l, "insert")
                 PROVE  Current(l) \/ launch[l].overtaken \/ launch[l].held.raced
        BY DEF StaleOnlyIfRaced, TokenInv
    <2>1. /\ launch[l] # None /\ launch[l].held # None
          /\ launch[l].overtaken \in BOOLEAN /\ launch[l].held \in Entry
        BY LaunchShape DEF At, TokenInv, Holding
    <2>2. launch[l].held.raced \in BOOLEAN
        BY <2>1, EntryShape
    <2>3. launch[l].overtaken = FALSE /\ launch[l].held.raced = FALSE =>
            /\ launch[l].version = Version(launch[l].user)
            /\ launch[l].held.version = Version(launch[l].user)
        BY <2>1 DEF TokenInv, LaunchUpToDate, HeldUpToDate
    <2> QED
        BY <2>1, <2>2, <2>3 DEF Current
<1> QED
    BY <1>1, TokenInvHolds, PTL

\* The step with which a launch turns to a cached token takes it from a tier.
LEMMA TokenTaken ==
    ASSUME TypeOK, NEW l \in Launches, LaunchStep(l),
           launch'[l] # None, launch'[l].pc = "validate", ~At(l, "validate")
    PROVE  \E e \in {memory[launch[l].user], row[launch[l].user]} :
            /\ launch[l] # None /\ e # None /\ now - e.at <= Ttl
            /\ launch'[l].held = e /\ launch'[l].user = launch[l].user
<1> DEFINE u == launch[l].user
<1>1. /\ launch \in [Launches -> LaunchRow \cup {None}]
      /\ memory \in [Users -> Entry \cup {None}] /\ row \in [Users -> Entry \cup {None}]
      /\ now \in Int /\ Ttl \in Int
    BY TokenAssumption DEF TypeOK, Time
<1>2. launch[l] # None => u \in Users /\ launch[l].held \in Entry \cup {None}
    BY LaunchShape
<1>3. ~\E w \in Users : Begin(l, w)
    <2> SUFFICES ASSUME NEW w \in Users, Begin(l, w)
                 PROVE  launch'[l].pc # "validate"
        OBVIOUS
    <2> QED
        BY <1>1 DEF Begin
<1>4. CASE GetMemory(l)
    <2>1. launch[l] # None
        BY <1>4 DEF GetMemory, At
    <2>2. ~Goto(l, "row")
        BY <2>1, GotoShape DEF Moves, Pcs
    <2>3. /\ memory[u] # None /\ now - memory[u].at < Ttl
          /\ Hold(l, "validate", memory[u], "memory")
        BY <1>4, <2>2 DEF GetMemory
    <2>4. Moves(l, "validate", memory[u])
        BY <1>1, <1>2, <2>1, <2>3, HoldShape DEF Pcs
    <2>5. memory[u].at \in Int
        BY <1>1, <1>2, <2>1, <2>3, EntryShape
    <2> QED
        BY <1>1, <2>1, <2>3, <2>4, <2>5 DEF Moves
<1>5. CASE GetRow(l)
    <2>1. launch[l] # None
        BY <1>5 DEF GetRow, At
    <2>2. ~Goto(l, "create")
        BY <2>1, GotoShape DEF Moves, Pcs
    <2>3. /\ row[u] # None /\ now - row[u].at <= Ttl
          /\ Hold(l, "validate", row[u], "row")
        BY <1>5, <2>2 DEF GetRow
    <2>4. Moves(l, "validate", row[u])
        BY <1>1, <1>2, <2>1, <2>3, HoldShape DEF Pcs
    <2> QED
        BY <2>1, <2>3, <2>4 DEF Moves
<1>6. ~Validated(l) /\ ~NotValidated(l)
    BY DEF Validated, NotValidated
<1>7. ~DropRow(l) /\ ~PutRow(l)
    BY GotoShape DEF DropRow, PutRow, At, Moves, Pcs
<1>8. ~CreateFails(l) /\ ~Answer(l)
    BY EndShape DEF CreateFails, Answer, Ends
<1>9. ~\E t \in Tokens : Create(l, t)
    <2> SUFFICES ASSUME NEW t \in Tokens, Create(l, t)
                 PROVE  launch'[l].pc # "validate"
        OBVIOUS
    <2> DEFINE e == [tok |-> t, user |-> u, version |-> launch[l].version,
                     at |-> now, raced |-> FALSE]
    <2>1. launch[l] # None /\ launch[l] \in LaunchRow
        BY LaunchShape DEF Create, At
    <2>2. launch' = [launch EXCEPT ![l] = [launch[l] EXCEPT !.pc = "created", !.held = e, !.source = "none"]]
        BY <1>1 DEF Create, Hold
    <2> HIDE DEF e
    <2>3. [launch[l] EXCEPT !.pc = "created", !.held = e, !.source = "none"].pc = "created"
        BY <2>1 DEF LaunchRow
    <2> QED
        BY <1>1, <2>2, <2>3
<1>10. ~PutMemory(l)
    <2> SUFFICES ASSUME PutMemory(l)
                 PROVE  launch'[l].pc # "validate"
        OBVIOUS
    <2> DEFINE e == NewEntry(l)
    <2>1. launch[l] # None /\ launch[l] \in LaunchRow
        BY LaunchShape DEF PutMemory, At
    <2>2. launch' = [launch EXCEPT ![l] = [launch[l] EXCEPT !.pc = "put_row", !.held = e, !.source = "none"]]
        BY <1>1 DEF PutMemory, Hold
    <2> HIDE DEF e
    <2>3. [launch[l] EXCEPT !.pc = "put_row", !.held = e, !.source = "none"].pc = "put_row"
        BY <2>1 DEF LaunchRow
    <2> QED
        BY <1>1, <2>2, <2>3
<1> QED
    BY <1>3, <1>4, <1>5, <1>6, <1>7, <1>8, <1>9, <1>10 DEF LaunchStep

\* No other step lets it turn to one.
LEMMA TurnsToToken ==
    ASSUME TypeOK, TokenNext, NEW l \in Launches,
           launch'[l] # None, launch'[l].pc = "validate", ~At(l, "validate")
    PROVE  \E e \in {memory[launch[l].user], row[launch[l].user]} :
            /\ launch[l] # None /\ e # None /\ now - e.at <= Ttl
            /\ launch'[l].held = e /\ launch'[l].user = launch[l].user
<1>1. ~(launch[l] # None /\ launch[l].pc = "validate")
    BY DEF At
<1>2. launch'[l] # launch[l]
    BY <1>1
<1>3. ASSUME NEW k \in Launches, LaunchStep(k)
      PROVE  k = l
    BY <1>2, <1>3
    DEF LaunchStep, Begin, GetMemory, GetRow, Validated, NotValidated, DropRow, Create,
        CreateFails, PutMemory, PutRow, Answer, Goto, Hold, End, TypeOK
<1>4. ASSUME NEW r \in Requests, ChangeStep(r)
      PROVE  FALSE
    <2>1. ASSUME NEW whom \in SUBSET Users, CommitChange(r, whom)
          PROVE  FALSE
        BY <1>1, <2>1, OvertakeShape DEF CommitChange
    <2>2. ~ClearMemory(r) /\ ~ClearRows(r)
        BY <1>2 DEF ClearMemory, ClearRows
    <2> QED
        BY <1>4, <2>1, <2>2 DEF ChangeStep
<1>5. ~MonitorStep /\ ~(\E t \in Tokens : TokenDies(t)) /\ ~Tick
    BY <1>2 DEF MonitorStep, DropMemory, DropTableRow, TokenDies, Tick
<1>6. ~Restart
    BY DEF Restart
<1> QED
    BY <1>3, <1>4, <1>5, <1>6, TokenTaken DEF TokenNext

(* Even then, the token a launch turns to was withdrawn no longer ago than *)
(* an entry lives and a launch takes.                                      *)
THEOREM StaleTokensAgeOut == TokenSpec => StaleAccessBounded
<1>1. ASSUME TokenInv, [TokenNext]_tokenVars
      PROVE  [\A l \in Launches : TakenInTime(l)]_tokenVars
    <2> SUFFICES ASSUME TokenNext, NEW l \in Launches,
                        launch'[l] # None, launch'[l].pc = "validate", ~At(l, "validate"),
                        launch'[l].held.version < Version(launch'[l].user)
                 PROVE  now <= changed[launch'[l].user][launch'[l].held.version + 1] + Timeout + Ttl
        BY <1>1 DEF TakenInTime
    <2>1. TypeOK
        BY <1>1 DEF TokenInv
    <2> DEFINE u == launch[l].user
    <2>2. PICK e \in {memory[u], row[u]} :
            /\ launch[l] # None /\ e # None /\ now - e.at <= Ttl
            /\ launch'[l].held = e /\ launch'[l].user = u
        BY <1>1, <2>1, TurnsToToken
    <2>3. /\ e \in Entry /\ InTime(e, u) /\ u \in Users
        BY <1>1, <2>1, <2>2, LaunchShape DEF TypeOK, TokenInv, TiersInTime
    <2>4. /\ e.at \in Int /\ now \in Int /\ Ttl \in Int /\ Timeout \in Int
          /\ changed[u][e.version + 1] \in Int
        BY <2>1, <2>2, <2>3, EntryShape, VersionShape
    <2> QED
        BY <2>2, <2>3, <2>4 DEF InTime
<1> QED
    BY <1>1, TokenInvHolds, PTL DEF TokenSpec, StaleAccessBounded
=============================================================================
