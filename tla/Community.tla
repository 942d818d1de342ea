------------------------------ MODULE Community ------------------------------
(***************************************************************************)
(* What users publish, take over and register: a task's output becomes a   *)
(* public case, users copy cases into their personal space, bookings are   *)
(* cancelled, and administrators replace a pool's list of attachments      *)
(* (case_center_service.py, booking_service.py, app_attachment_service.py). *)
(*                                                                         *)
(* Handlers run in a threadpool.  A step is one call on one file or one    *)
(* directory, or one transaction; the tables and the drive have no common  *)
(* transaction, so a failure between them is a failure on one side.        *)
(***************************************************************************)
EXTENDS Integers, FiniteSets

CONSTANTS
    Users,
    Handlers,      \* bound: requests under way at once
    Cases,         \* bound: case uids ever drawn
    Bookings,      \* bound: bookings ever made
    NumFiles,      \* files a task's output may have
    Copies,        \* bound: transfers ever started
    Faults,        \* bound: failures and crashes
    Edits,         \* bound: changes users make to their files
    Replacements,  \* bound: replacements of the attachments
    None

Files == 1..NumFiles

VARIABLES
    output,     \* the task's files in its owner's workspace
    root,       \* the case's directory: its package and its archive, or None
    assets,     \* the assets its rows list, or None
    space,      \* Cases/<case_uid> in each user's personal space, or None
    work,       \* what each handler does, or None
    booking,    \* booking_register.status, "absent" before the row
    listing,    \* app_attachment: the replacements whose rows are active
    locked,     \* the replacements that have run their UPDATE and not committed
    cancels,    \* history: how many requests cancelled a booking
    cut,        \* history: copies that a stop, a removal that left files or their user broke into
    unknown,    \* history: cases whose COMMIT happened and was answered with an error
    dead,       \* history: cases whose directory a stop, or a removal that left files, left behind
    budget      \* what is left of the bounds

caseVars == <<output, root, assets, unknown, dead>>
copyVars == <<space, cut>>
bookingVars == <<booking, cancels>>
listVars == <<listing, locked>>
vars == <<caseVars, copyVars, bookingVars, listVars, work, budget>>

Root == [package : SUBSET Files, archive : (SUBSET Files) \cup {None}]
Work ==
    [pc : {"publish"}, case : Cases, listed : SUBSET Files, todo : SUBSET Files]
        \cup [pc : {"clear"}, case : Cases]
        \cup [pc : {"target", "copy"}, user : Users, case : Cases, todo : SUBSET Files]
        \cup [pc : {"undo"}, user : Users, case : Cases]
        \cup [pc : {"cancel"}, booking : Bookings]
        \cup [pc : {"replace"}, found : SUBSET (1..Replacements), number : 1..Replacements]

ASSUME CommunityAssumption ==
    /\ NumFiles \in Nat \ {0} /\ Copies \in Nat /\ Faults \in Nat /\ Edits \in Nat /\ Replacements \in Nat
    /\ None \notin Root \cup Work /\ \A S \in SUBSET Files : None # S

Spend(kind) ==
    /\ budget[kind] > 0
    /\ budget' = [budget EXCEPT ![kind] = @ - 1]

Doing(pc) == {h \in Handlers : work[h] # None /\ work[h].pc = pc}
Publishers == Doing("publish") \cup Doing("clear")
Copiers == Doing("copy") \cup Doing("undo")
Publishing(c) == \E h \in Publishers : work[h].case = c
Copying(u, c) == \E h \in Copiers : work[h].user = u /\ work[h].case = c

IsFirst(f, S) == f \in S /\ \A g \in S : f <= g
End(h) == work' = [work EXCEPT ![h] = None]
CopiedOne(h, f) == work' = [work EXCEPT ![h].todo = @ \ {f}]

-----------------------------------------------------------------------------
(* publish_case_from_task, of a task that succeeded                          *)

\* A path an artifact names is a file below the owner's output directory.
InWorkspace(f) == f \in output

Publishable == {f \in Files : InWorkspace(f)}

\* Its output is listed, and a directory made under a new case_uid.
StartPublish(h, c) ==
    /\ work[h] = None
    /\ root[c] = None /\ assets[c] = None /\ c \notin unknown \cup dead
    /\ Publishable # {}
    /\ root' = [root EXCEPT ![c] = [package |-> {}, archive |-> None]]
    /\ work' = [work EXCEPT ![h] = [pc |-> "publish", case |-> c, listed |-> Publishable, todo |-> Publishable]]
    /\ UNCHANGED <<output, assets, unknown, dead, copyVars, bookingVars, listVars, budget>>

\* copy2 of a file that is still there.
PackageFile(h, f) ==
    /\ h \in Doing("publish")
    /\ IsFirst(f, work[h].todo) /\ InWorkspace(f)
    /\ root' = [root EXCEPT ![work[h].case].package = @ \cup {f}]
    /\ CopiedOne(h, f)
    /\ UNCHANGED <<output, assets, unknown, dead, copyVars, bookingVars, listVars, budget>>

Archive(h) ==
    /\ h \in Doing("publish") /\ work[h].todo = {}
    /\ root[work[h].case].archive = None
    /\ root' = [root EXCEPT ![work[h].case].archive = root[work[h].case].package]
    /\ UNCHANGED <<output, assets, unknown, dead, copyVars, bookingVars, listVars, work, budget>>

\* Seeded fault of ReadyToInsert: the archive is left for later.
ReadyUnarchived(h) == work[h].todo = {}

ReadyToInsert(h) == work[h].todo = {} /\ root[work[h].case].archive # None

\* Case, source, assets and package.
WithRows(h) == [assets EXCEPT ![work[h].case] = work[h].listed]

\* They are inserted in one transaction.
InsertCase(h) ==
    /\ h \in Doing("publish") /\ ReadyToInsert(h)
    /\ assets' = WithRows(h)
    /\ End(h)
    /\ UNCHANGED <<output, root, unknown, dead, copyVars, bookingVars, listVars, budget>>

Clears(h) == work' = [work EXCEPT ![h] = [pc |-> "clear", case |-> work[h].case]]

\* A file that has gone, an error of the drive or of the database.
PublishFails(h) ==
    /\ h \in Doing("publish")
    /\ IF \E f \in Files : IsFirst(f, work[h].todo) /\ ~InWorkspace(f)
       THEN UNCHANGED budget ELSE Spend("fault")
    /\ Clears(h)
    /\ UNCHANGED <<caseVars, copyVars, bookingVars, listVars>>

\* The COMMIT's answer is lost: the rows stay, and users see them at once.
CommitUnanswered(h) ==
    /\ h \in Doing("publish") /\ ReadyToInsert(h)
    /\ Spend("fault")
    /\ assets' = WithRows(h)
    /\ unknown' = unknown \cup {work[h].case}
    /\ Clears(h)
    /\ UNCHANGED <<output, root, dead, copyVars, bookingVars, listVars>>

\* A directory with some of its files, or its archive, removed.
Remains(dir) ==
    {[package |-> S, archive |-> a] : S \in SUBSET dir.package, a \in {dir.archive, None}} \ {dir}

\* rmtree of the case's directory, piece by piece.
ClearSome(h) ==
    /\ h \in Doing("clear")
    /\ LET c == work[h].case IN
       \E dir \in Remains(root[c]) : root' = [root EXCEPT ![c] = dir]
    /\ UNCHANGED <<output, assets, unknown, dead, copyVars, bookingVars, listVars, work, budget>>

ClearAll(h) ==
    /\ h \in Doing("clear")
    /\ root' = [root EXCEPT ![work[h].case] = None]
    /\ End(h)
    /\ UNCHANGED <<output, assets, unknown, dead, copyVars, bookingVars, listVars, budget>>

\* What it could not remove stays: its errors are ignored.
ClearStops(h) ==
    /\ h \in Doing("clear")
    /\ Spend("fault")
    /\ dead' = dead \cup {work[h].case}
    /\ End(h)
    /\ UNCHANGED <<output, root, assets, unknown, copyVars, bookingVars, listVars>>

\* The owner deletes a file of the output while it may be being copied.
DeleteOutput(f) ==
    /\ f \in output
    /\ Spend("edit")
    /\ output' = output \ {f}
    /\ UNCHANGED <<root, assets, unknown, dead, copyVars, bookingVars, listVars, work>>

-----------------------------------------------------------------------------
(* transfer_case_to_workspace                                                *)

\* What the case's page lists and its download holds.
Public(c) == assets[c] # None
PackageThere(c) == root[c] # None
Page(c) == assets[c]
Download(c) == root[c].archive

\* The case is public, its package there, and the target is not.
StartTransfer(h, u, c) ==
    /\ work[h] = None
    /\ Public(c) /\ PackageThere(c)
    /\ space[<<u, c>>] = None
    /\ Spend("copy")
    /\ work' = [work EXCEPT ![h] = [pc |-> "target", user |-> u, case |-> c, todo |-> root[c].package]]
    /\ UNCHANGED <<caseVars, copyVars, bookingVars, listVars>>

\* Seeded fault of TargetFree: mkdir with exist_ok.
TargetAnyway(u, c) == TRUE

TargetFree(u, c) == space[<<u, c>>] = None

\* mkdir refuses a target that has been made since; one made anew is whole again.
MakeTarget(h) ==
    /\ h \in Doing("target")
    /\ LET u == work[h].user
           c == work[h].case
       IN
       IF TargetFree(u, c)
       THEN /\ space' = [space EXCEPT ![<<u, c>>] = IF @ = None THEN {} ELSE @]
            /\ work' = [work EXCEPT ![h].pc = "copy"]
            /\ cut' = IF Copying(u, c) THEN cut ELSE cut \ {<<u, c>>}
       ELSE End(h) /\ UNCHANGED copyVars
    /\ UNCHANGED <<caseVars, bookingVars, listVars, budget>>

Packaged(c, f) == PackageThere(c) /\ f \in root[c].package

\* The parents are made again should they have gone.
TransferFile(h, f) ==
    /\ h \in Doing("copy") /\ IsFirst(f, work[h].todo) /\ Packaged(work[h].case, f)
    /\ space' = [space EXCEPT ![<<work[h].user, work[h].case>>] =
                    IF @ = None THEN {f} ELSE @ \cup {f}]
    /\ CopiedOne(h, f)
    /\ UNCHANGED <<caseVars, cut, bookingVars, listVars, budget>>

TransferEnds(h) ==
    /\ h \in Doing("copy") /\ work[h].todo = {}
    /\ End(h)
    /\ UNCHANGED <<caseVars, copyVars, bookingVars, listVars, budget>>

\* A file of the package that has gone, or an error of the drive.
TransferFails(h) ==
    /\ h \in Doing("copy")
    /\ IF \E f \in Files : IsFirst(f, work[h].todo) /\ ~Packaged(work[h].case, f)
       THEN UNCHANGED budget ELSE Spend("fault")
    /\ work' = [work EXCEPT ![h] = [pc |-> "undo", user |-> work[h].user, case |-> work[h].case]]
    /\ UNCHANGED <<caseVars, copyVars, bookingVars, listVars>>

\* rmtree of the target, whoever wrote into it.
UndoTransfer(h) ==
    /\ h \in Doing("undo")
    /\ space' = [space EXCEPT ![<<work[h].user, work[h].case>>] = None]
    /\ End(h)
    /\ UNCHANGED <<caseVars, cut, bookingVars, listVars, budget>>

\* Its errors are ignored too.
UndoStops(h) ==
    /\ h \in Doing("undo")
    /\ Spend("fault")
    /\ LET p == <<work[h].user, work[h].case>> IN
        /\ space[p] # None
        /\ \E left \in SUBSET space[p] : space' = [space EXCEPT ![p] = left]
        /\ cut' = cut \cup {p}
    /\ End(h)
    /\ UNCHANGED <<caseVars, bookingVars, listVars>>

\* The user deletes the copy, or moves it away; or a file of it; or, when something
\* in it is in use, what comes before that.  A copy may be being made there.
DeleteCopy(u, c) ==
    /\ space[<<u, c>>] # None
    /\ Spend("edit")
    /\ \E left \in {None} \cup SUBSET space[<<u, c>>] :
        /\ left # space[<<u, c>>]
        /\ space' = [space EXCEPT ![<<u, c>>] = left]
        /\ cut' = IF left = None /\ ~Copying(u, c) THEN cut ELSE cut \cup {<<u, c>>}
    /\ UNCHANGED <<caseVars, bookingVars, listVars, work>>

\* The user makes a directory where the copy would be.
MakeDirectory(u, c) ==
    /\ space[<<u, c>>] = None
    /\ Spend("edit")
    /\ space' = [space EXCEPT ![<<u, c>>] = {}]
    /\ cut' = cut \cup {<<u, c>>}
    /\ UNCHANGED <<caseVars, bookingVars, listVars, work>>

-----------------------------------------------------------------------------
(* booking_service.py                                                        *)

CreateBooking(b) ==
    /\ booking[b] = "absent"
    /\ booking' = [booking EXCEPT ![b] = "active"]
    /\ UNCHANGED <<caseVars, copyVars, cancels, listVars, work, budget>>

\* cancel_booking reads the row here and writes it below.
StartCancel(h, b) ==
    /\ work[h] = None
    /\ booking[b] = "active"
    /\ work' = [work EXCEPT ![h] = [pc |-> "cancel", booking |-> b]]
    /\ UNCHANGED <<caseVars, copyVars, bookingVars, listVars, budget>>

\* Seeded fault of StillActive: the UPDATE without its status condition.
StillThere(b) == booking[b] # "absent"

StillActive(b) == booking[b] = "active"

Cancel(h) ==
    /\ h \in Doing("cancel")
    /\ LET b == work[h].booking IN
       IF StillActive(b)
       THEN /\ booking' = [booking EXCEPT ![b] = "cancelled"]
            /\ cancels' = [cancels EXCEPT ![b] = @ + 1]
       ELSE UNCHANGED bookingVars
    /\ End(h)
    /\ UNCHANGED <<caseVars, copyVars, listVars, budget>>

-----------------------------------------------------------------------------
(* replace_pool_attachments, one transaction at REPEATABLE READ.             *)

\* What list_pool_attachments shows: the active rows, grouped by kind.
Attachments == listing

\* The pool has rows, and another transaction has locked them.
UpdateWaits == locked # {} /\ listing # {}

\* The UPDATE deactivates and locks the pool's rows; without any it locks the
\* gap, which others may too.
Deactivate(h) ==
    /\ work[h] = None /\ ~UpdateWaits
    /\ Spend("replace")
    /\ work' = [work EXCEPT ![h] = [pc |-> "replace", found |-> listing, number |-> budget["replace"]]]
    /\ locked' = locked \cup {h}
    /\ UNCHANGED <<caseVars, copyVars, bookingVars, listing>>

\* Seeded fault of Blocked: an INSERT passes the gaps others have locked.
NeverBlocked(h) == FALSE

Blocked(h) == locked # {h}

\* The INSERTs and the COMMIT; two that wait for each other's gap are a
\* deadlock, and this one is its victim.
InsertAttachments(h) ==
    /\ h \in Doing("replace")
    /\ listing' = IF Blocked(h) THEN listing
                  ELSE (listing \ work[h].found) \cup {work[h].number}
    /\ locked' = locked \ {h}
    /\ End(h)
    /\ UNCHANGED <<caseVars, copyVars, bookingVars, budget>>

-----------------------------------------------------------------------------
\* The portal stops: handlers are gone, directories stay as they are.
PortalStops ==
    /\ \E h \in Handlers : work[h] # None
    /\ Spend("fault")
    /\ work' = [h \in Handlers |-> None]
    /\ dead' = dead \cup {work[h].case : h \in Publishers}
    /\ cut' = cut \cup {<<work[h].user, work[h].case>> : h \in Copiers}
    /\ locked' = {}
    /\ UNCHANGED <<output, root, assets, unknown, space, bookingVars, listing>>

Init ==
    /\ output = Files
    /\ root = [c \in Cases |-> None]
    /\ assets = [c \in Cases |-> None]
    /\ space = [p \in Users \X Cases |-> None]
    /\ work = [h \in Handlers |-> None]
    /\ booking = [b \in Bookings |-> "absent"]
    /\ cancels = [b \in Bookings |-> 0]
    /\ listing = {} /\ locked = {}
    /\ cut = {} /\ unknown = {} /\ dead = {}
    /\ budget = [copy |-> Copies, fault |-> Faults, edit |-> Edits, replace |-> Replacements]

Publish(h) ==
    \/ \E c \in Cases : StartPublish(h, c)
    \/ \E f \in Files : PackageFile(h, f)
    \/ Archive(h) \/ InsertCase(h) \/ PublishFails(h) \/ CommitUnanswered(h)
    \/ ClearSome(h) \/ ClearAll(h) \/ ClearStops(h)

Transfer(h) ==
    \/ \E u \in Users, c \in Cases : StartTransfer(h, u, c)
    \/ MakeTarget(h) \/ TransferEnds(h) \/ TransferFails(h) \/ UndoTransfer(h) \/ UndoStops(h)
    \/ \E f \in Files : TransferFile(h, f)

Book(h) == Cancel(h) \/ \E b \in Bookings : StartCancel(h, b)

Replace(h) == Deactivate(h) \/ InsertAttachments(h)

Edit ==
    \/ \E f \in Files : DeleteOutput(f)
    \/ \E u \in Users, c \in Cases : DeleteCopy(u, c) \/ MakeDirectory(u, c)
    \/ \E b \in Bookings : CreateBooking(b)

Next == (\E h \in Handlers : Publish(h) \/ Transfer(h) \/ Book(h) \/ Replace(h)) \/ Edit \/ PortalStops

Spec == Init /\ [][Next]_vars

-----------------------------------------------------------------------------
\* Tables, drive and requests have their shapes.
TypeOK ==
    /\ output \subseteq Files
    /\ root \in [Cases -> Root \cup {None}]
    /\ assets \in [Cases -> (SUBSET Files) \cup {None}]
    /\ space \in [Users \X Cases -> (SUBSET Files) \cup {None}]
    /\ work \in [Handlers -> Work \cup {None}]
    /\ booking \in [Bookings -> {"absent", "active", "cancelled"}]
    /\ cancels \in [Bookings -> Nat]
    /\ listing \subseteq 1..Replacements /\ locked \subseteq Handlers
    /\ cut \subseteq Users \X Cases
    /\ unknown \subseteq Cases /\ dead \subseteq Cases
    /\ budget \in [{"copy", "fault", "edit", "replace"} -> Nat] /\ budget["replace"] <= Replacements

(* A case's rows and its directory come and go together.  One that is      *)
(* listed can be downloaded and taken over with every asset its page       *)
(* shows, though its owner deletes output meanwhile, unless its COMMIT     *)
(* happened and was answered with an error; a directory without rows is    *)
(* being filled or cleared, or the portal stopped then, or its removal     *)
(* left files (publish_case_from_task).                                    *)
(* Tables, drive and requests keep their types.                            *)
RowsMatchPackages ==
    TypeOK /\ \A c \in Cases :
        IF Public(c)
        THEN c \in unknown \/ (PackageThere(c) /\ root[c].package = Page(c) /\ Download(c) = Page(c))
        ELSE PackageThere(c) => Publishing(c) \/ c \in dead

(* A copy under Cases/ in a personal space has every asset the case's page *)
(* shows, once no transfer is at work on it: of transfers that start       *)
(* together one makes the target, and the others neither write to it nor   *)
(* clear it away (transfer_case_to_workspace).  Exempt are a copy that,    *)
(* since a transfer made it, a stop of the portal, an undoing that left    *)
(* files or its user's own changes broke into, and a case whose COMMIT was *)
(* answered with an error, for its package goes while it is public.        *)
CopiesWhole ==
    \A u \in Users, c \in Cases : space[<<u, c>>] # None =>
        Copying(u, c) \/ <<u, c>> \in cut \/ c \in unknown \/ space[<<u, c>>] = Page(c)

(* However many requests found a booking active, one cancels it, and its   *)
(* cancelled_at is of that one (cancel_booking).                           *)
CancelledOnce == \A b \in Bookings : cancels[b] <= 1

(* The attachments users see are those of one replacement: of two that     *)
(* overlap, the second waits for the rows of the first, or, where there    *)
(* are none to wait for, one of them fails (replace_pool_attachments).     *)
OneListing == Cardinality(Attachments) <= 1
=============================================================================
