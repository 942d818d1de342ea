----------------------------- MODULE AppAccess -----------------------------
(***************************************************************************)
(* What a portal user may reach, and who changes it: the rows of           *)
(* remote_app, vscode_control_profile, portal_user, remote_app_acl and the *)
(* catalogue (catalog_app, app_binding, remote_app_script_profile), the    *)
(* administrators' requests of admin_router.py that edit them, and the     *)
(* connections router.py builds from them at every launch.                 *)
(*                                                                         *)
(* Requests run in the thread pool, so several are under way at once.  One *)
(* request is a validation on rows read outside any transaction, then a    *)
(* transaction.  A transaction is one step, except where it reads before   *)
(* its first write: InnoDB then answers every later SELECT from the        *)
(* snapshot of that first read, while an UPDATE sees the current rows.     *)
(*                                                                         *)
(* Abstracted: the columns of a row that only travel to the connection     *)
(* (host, port, colours, ...); of the data channels one is kept (clipboard *)
(* copy), of a program's arguments whether they name the user or carry     *)
(* more than they may.  Which controls a VSCode profile has and which of   *)
(* them need an allowlist are constants, and so is what the normalisation  *)
(* makes of each item an administrator may type.  Names of applications    *)
(* are distinct.                                                           *)
(***************************************************************************)
EXTENDS Integers, FiniteSets

CONSTANTS
    Users, Apps, Profiles,
    Requests,        \* slots for administrators' requests
    Groups,          \* worker groups a script binding may name
    Controls,        \* CONTROL_CODES of a VSCode profile
    CopyControl,     \* copy_remote_to_local
    Needs,           \* ALLOWLIST_DEPENDENCIES: allowlist -> controls that need it
    Canon,           \* item of an allowlist, as typed -> the entry it stands for
    Blank, Malformed,\* what Canon has for an empty item and for a refused one
    AppEdits,        \* bodies of PUT /apps: functions from some AppFields to values
    ProfileEdits,    \* bodies of PUT /vscode-control-profiles
    NewApps,         \* bodies of POST /apps: whole rows
    NewProfiles,     \* bodies of POST /vscode-control-profiles
    MaxBindings,     \* worker_script bindings one application may collect
    None             \* NULL

VARIABLES
    app,        \* remote_app
    profile,    \* vscode_control_profile
    user,       \* portal_user
    acl,        \* remote_app_acl: the applications of each user
    catalog,    \* catalog_app.is_active and the gui_remoteapp binding's is_enabled
    script,     \* remote_app_script_profile.is_enabled
    binding,    \* app_binding rows of kind worker_script
    req         \* the administrators' requests under way

accessVars == <<app, profile, user, acl, catalog, script, binding, req>>

Modes == {"restricted_remoteapp", "restricted_vscode", "admin_desktop"}
RowFields == {"active", "mode", "prog", "args", "prof", "copy"}
ScriptFields == {"scriptOn", "group"}

\* remote_app_args: without placeholder, with {user_id} alone, with a shell
\* character or another placeholder.
Arguments == {"plain", "userid", "unsafe"}
AppRow == [exists : BOOLEAN, active : BOOLEAN, mode : Modes, prog : BOOLEAN,
           args : Arguments, prof : Profiles \cup {None}, copy : BOOLEAN]
Lists == DOMAIN Needs
Entries == {Canon[x] : x \in DOMAIN Canon} \ {Blank, Malformed}
ProfileRow == [exists : BOOLEAN, active : BOOLEAN, on : [Controls -> BOOLEAN],
               allow : [Lists -> SUBSET Entries]]
UserRow == [exists : BOOLEAN, admin : BOOLEAN]
Binding == [n : 1..MaxBindings, on : BOOLEAN, group : Groups]
OnOff == {"none", "on", "off"}

\* The script settings a POST /apps may carry.
NewScripts == {None} \cup [on : {TRUE}, group : Groups]

\* Those an update may merge: what is switched on names its group.
Scripts ==
    {None} \cup {sc \in [on : BOOLEAN, group : Groups \cup {None}] : sc.on => sc.group # None}

\* The documents a POST may carry, and the values a PUT may name.
ControlMaps == UNION {[C -> BOOLEAN] : C \in SUBSET Controls}
ProfileBody ==
    [exists : BOOLEAN, active : BOOLEAN, on : ControlMaps, allow : [Lists -> SUBSET DOMAIN Canon]]
ProfileField ==
    [active |-> BOOLEAN, on |-> ControlMaps, allow |-> [Lists -> SUBSET DOMAIN Canon]]
AppField ==
    [active |-> BOOLEAN, mode |-> Modes, prog |-> BOOLEAN, args |-> Arguments,
     prof |-> Profiles \cup {None}, copy |-> BOOLEAN,
     scriptOn |-> BOOLEAN, group |-> Groups \cup {None}]

Names(edit, field) ==
    \A f \in DOMAIN edit : f \in DOMAIN field /\ edit[f] \in field[f]

ASSUME AppAccessAssumption ==
    /\ None \notin Profiles \cup Groups
    /\ CopyControl \in Controls
    /\ \A l \in Lists : Needs[l] \subseteq Controls
    /\ \A x \in DOMAIN Canon :
          Canon[x] \in {Blank, Malformed} \/ (Canon[x] \in DOMAIN Canon /\ Canon[Canon[x]] = Canon[x])
    /\ MaxBindings \in Nat \ {0} /\ IsFiniteSet(Groups)
    /\ NewApps \subseteq AppRow /\ \A edit \in AppEdits : Names(edit, AppField)
    /\ NewProfiles \subseteq ProfileBody /\ \A edit \in ProfileEdits : Names(edit, ProfileField)

Flag(b) == IF b THEN "on" ELSE "off"

\* A row with the fields of an edit laid over it.
Merge(row, edit) ==
    [f \in DOMAIN row |-> IF f \in DOMAIN edit THEN edit[f] ELSE row[f]]

Only(edit, fields) == [f \in DOMAIN edit \cap fields |-> edit[f]]

---------------------------------------------------------------------------
(* VSCode profiles: the normalisation of a document, and its check: an     *)
(* enabled control needs its allowlist.                                    *)

\* A body names every control, and no item of its allowlists is refused.
WellFormed(doc) ==
    /\ DOMAIN doc.on = Controls
    /\ \A l \in Lists : \A x \in doc.allow[l] : Canon[x] # Malformed

\* Items are trimmed and written one way; blank ones and repetitions go.
Normalized(doc) ==
    [doc EXCEPT !.allow = [l \in Lists |-> {Canon[x] : x \in doc.allow[l]} \ {Blank}]]

EffectiveValid(doc) ==
    \A l \in Lists : (\E c \in Needs[l] : doc.on[c]) => doc.allow[l] # {}

Bindable(p) ==
    /\ p # None
    /\ profile[p].exists /\ profile[p].active /\ EffectiveValid(profile[p])

\* validate_restricted_arguments
ArgumentsAllowed(row) ==
    CASE row.mode = "restricted_vscode" -> row.args # "unsafe"
      [] row.mode = "restricted_remoteapp" -> row.args = "plain"
      [] row.mode = "admin_desktop" -> TRUE

(* _validate_app_security_config *)
ConfigValid(row) ==
    /\ ArgumentsAllowed(row)
    /\ CASE row.mode = "restricted_vscode" -> row.prog /\ Bindable(row.prof)
         [] row.mode = "restricted_remoteapp" -> row.prog /\ row.prof = None
         [] row.mode = "admin_desktop" -> row.prof = None

---------------------------------------------------------------------------
(* What a launch hands to Guacamole for user u.                            *)

Listed(u, a) ==
    /\ a \in acl[u] /\ app[a].active
    /\ app[a].mode # "admin_desktop" \/ user[u].admin

\* Seeded fault of Buildable: an empty remote_app is let through.
BuildableEmpty(row) ==
    ArgumentsAllowed(row) /\ row.mode = "restricted_vscode" => Bindable(row.prof)

\* The builder leaves out an application whose row is not in order.
Buildable(row) ==
    /\ ArgumentsAllowed(row)
    /\ CASE row.mode = "restricted_vscode" -> row.prog /\ Bindable(row.prof)
         [] row.mode = "restricted_remoteapp" -> row.prog
         [] row.mode = "admin_desktop" -> TRUE

\* build_vscode_arguments: the profile's own, with the user's number put in.
ArgumentsFor(row) == IF row.mode = "restricted_vscode" THEN "plain" ELSE row.args

CopyAllowed(row) ==
    CASE row.mode = "restricted_vscode" -> profile[row.prof].on[CopyControl]
      [] row.mode = "restricted_remoteapp" -> FALSE
      [] row.mode = "admin_desktop" -> row.copy

\* The parameters of a connection that name a program or close a channel; one
\* that names no program opens the whole desktop.
RdpConnection(a, prog, args, copy) ==
    [app |-> a, desktop |-> ~prog, args |-> args, copy |-> copy]

Connection(a) ==
    RdpConnection(a, app[a].prog, ArgumentsFor(app[a]), CopyAllowed(app[a]))

Connections(u) ==
    {Connection(a) : a \in {b \in Apps : Listed(u, b) /\ Buildable(app[b])}}

\* The group a script of user u for application a would be sent to.
ScriptTargets(u, a) ==
    IF a \in acl[u] /\ app[a].active /\ script[a] = "on"
    THEN {b.group : b \in {c \in binding[a] : c.on}}
    ELSE {}

---------------------------------------------------------------------------
(* Rows that do not exist. *)
NoApp == [exists |-> FALSE, active |-> FALSE, mode |-> "restricted_remoteapp",
          prog |-> TRUE, args |-> "plain", prof |-> None, copy |-> FALSE]
NoProfileRow == [exists |-> FALSE, active |-> FALSE, on |-> [c \in Controls |-> FALSE],
                 allow |-> [l \in Lists |-> {}]]
NoUser == [exists |-> FALSE, admin |-> FALSE]

Idle == [op |-> "idle"]

Busy(r, op, pc) == req[r].op = op /\ req[r].pc = pc

\* The transaction has committed, or the request was refused.  What follows a
\* commit (the token caches, the audit row) is in TokenCache.
Reply(r) == req' = [req EXCEPT ![r] = Idle]

(* What _upsert_catalog_bindings writes for application a: `row` is the    *)
(* application's row and `view` its script bindings as the transaction     *)
(* reads them; sc is None when the body says nothing about scripts.        *)
UpsertCatalog(a, row) == catalog' = [catalog EXCEPT ![a] = Flag(row.active)]

\* `view` names a binding to update; without one a row is inserted.
EnableBinding(a, view, sc) ==
    IF view = {}
    THEN /\ Cardinality(binding[a]) < MaxBindings
         /\ binding' = [binding EXCEPT ![a] = @ \cup
                {[n |-> Cardinality(@) + 1, on |-> TRUE, group |-> sc.group]}]
    ELSE \E b \in view :
           binding' = [binding EXCEPT ![a] =
               {IF c.n = b.n THEN [c EXCEPT !.on = TRUE, !.group = sc.group] ELSE c
                   : c \in @}]

\* Seeded fault of DisableBindings: the oldest one alone.
DisableOneBinding(a) ==
    binding' = [binding EXCEPT ![a] = {[b EXCEPT !.on = b.on /\ b.n # 1] : b \in @}]

DisableBindings(a) ==
    binding' = [binding EXCEPT ![a] = {[b EXCEPT !.on = FALSE] : b \in @}]

UpsertScript(a, view, sc) ==
    \/ /\ sc = None
       /\ UNCHANGED <<script, binding>>
    \/ /\ sc # None /\ sc.on
       /\ script' = [script EXCEPT ![a] = "on"]
       /\ EnableBinding(a, view, sc)
    \/ /\ sc # None /\ ~sc.on
       /\ script' = [script EXCEPT ![a] = IF @ = "none" THEN @ ELSE "off"]
       /\ DisableBindings(a)

---------------------------------------------------------------------------
(* POST /apps: validation, then the insert and the catalogue rows.         *)

\* Ids the AUTO_INCREMENT column has not given out.
FreshIds ==
    {a \in Apps : ~app[a].exists /\ \A q \in Requests :
                     req[q].op = "create_app" => req[q].app # a}

CreateAppCheck(r, a, new, sc) ==
    /\ req[r] = Idle
    /\ a \in FreshIds
    /\ ConfigValid(new)
    /\ req' = [req EXCEPT ![r] = [op |-> "create_app", pc |-> "checked", app |-> a,
                                  row |-> new, sc |-> sc]]
    /\ UNCHANGED <<app, profile, user, acl, catalog, script, binding>>

\* The foreign key refuses a profile deleted since the validation.
ForeignKeyHolds(p) == p = None \/ profile[p].exists

CreateAppCommit(r) ==
    /\ Busy(r, "create_app", "checked")
    /\ LET a == req[r].app  row == req[r].row IN
        IF ForeignKeyHolds(row.prof)
        THEN /\ app' = [app EXCEPT ![a] = row]
             /\ UpsertCatalog(a, row)
             /\ UpsertScript(a, {}, req[r].sc)
             /\ Reply(r)
        ELSE /\ Reply(r)
             /\ UNCHANGED <<app, catalog, script, binding>>
    /\ UNCHANGED <<profile, user, acl>>

(* PUT /apps/{id}: the body is validated against the row and the script    *)
(* settings as they are now, and the merged script settings go along.      *)

\* _get_app_admin_row: the application LEFT JOINed with any of its bindings.
ScriptSettings(a) ==
    [scriptOn : {script[a] = "on"},
     group : IF binding[a] = {} THEN {None} ELSE {b.group : b \in binding[a]}]

MergedScript(a, edit) ==
    IF DOMAIN edit \cap ScriptFields = {} THEN {None}
    ELSE {[on |-> sc.scriptOn, group |-> sc.group]
             : sc \in {Merge(now, edit) : now \in ScriptSettings(a)}}

\* _validate_script_config
ScriptValid(sc) == sc # None => (sc.on => sc.group # None)

UpdateAppCheck(r, a, edit) ==
    /\ req[r] = Idle
    /\ app[a].exists
    /\ ConfigValid(Merge(app[a], edit))
    /\ \E sc \in MergedScript(a, edit) :
        /\ ScriptValid(sc)
        /\ req' = [req EXCEPT ![r] = [op |-> "update_app", pc |-> "checked", app |-> a,
                                      edit |-> Only(edit, RowFields), sc |-> sc]]
    /\ UNCHANGED <<app, profile, user, acl, catalog, script, binding>>

\* A body without columns of remote_app opens its transaction with a SELECT.
UpdateAppSnapshot(r) ==
    /\ Busy(r, "update_app", "checked")
    /\ req[r].edit = <<>>
    /\ LET a == req[r].app IN
        req' = [req EXCEPT ![r] = [op |-> "update_app", pc |-> "snapshot", app |-> a,
                                   row |-> app[a], view |-> binding[a], sc |-> req[r].sc]]
    /\ UNCHANGED <<app, profile, user, acl, catalog, script, binding>>

UpdateAppFromSnapshot(r) ==
    /\ Busy(r, "update_app", "snapshot")
    /\ UpsertCatalog(req[r].app, req[r].row)
    /\ UpsertScript(req[r].app, req[r].view, req[r].sc)
    /\ Reply(r)
    /\ UNCHANGED <<app, profile, user, acl>>

\* Otherwise its first statement is the UPDATE, which waits for the row's lock.
UpdateAppCommit(r) ==
    /\ Busy(r, "update_app", "checked")
    /\ req[r].edit # <<>>
    /\ LET a == req[r].app
           row == Merge(app[a], req[r].edit) IN
        IF ForeignKeyHolds(row.prof)
        THEN /\ app' = [app EXCEPT ![a] = row]
             /\ UpsertCatalog(a, row)
             /\ UpsertScript(a, binding[a], req[r].sc)
             /\ Reply(r)
        ELSE /\ Reply(r)
             /\ UNCHANGED <<app, catalog, script, binding>>
    /\ UNCHANGED <<profile, user, acl>>

(* DELETE /apps/{id} hides the application and turns its scripts off.      *)
DeleteApp(r, a) ==
    /\ req[r] = Idle
    /\ app[a].exists
    /\ app' = [app EXCEPT ![a].active = FALSE]
    /\ UpsertCatalog(a, [app[a] EXCEPT !.active = FALSE])
    /\ UpsertScript(a, binding[a], [on |-> FALSE, group |-> None])
    /\ Reply(r)
    /\ UNCHANGED <<profile, user, acl>>

---------------------------------------------------------------------------
(* VSCode control profiles.                                                *)

CreateProfile(r, p, new) ==
    /\ req[r] = Idle
    /\ ~profile[p].exists
    /\ WellFormed(new)
    /\ LET doc == Normalized(new) IN
        /\ doc.active => EffectiveValid(doc)
        /\ profile' = [profile EXCEPT ![p] = doc]
    /\ Reply(r)
    /\ UNCHANGED <<app, user, acl, catalog, script, binding>>

\* The current document, the body over it, the check: all on the snapshot.
UpdateProfileRead(r, p, edit) ==
    /\ req[r] = Idle
    /\ profile[p].exists
    /\ WellFormed(Merge(profile[p], edit))
    /\ LET doc == Normalized(Merge(profile[p], edit)) IN
        /\ doc.active => EffectiveValid(doc)
        /\ req' = [req EXCEPT ![r] = [op |-> "update_profile", pc |-> "read",
                                      profile |-> p, doc |-> doc]]
    /\ UNCHANGED <<app, profile, user, acl, catalog, script, binding>>

\* Seeded fault of SavedProfile: is_active stays as it is now.
SavedButActive(old, doc) == [doc EXCEPT !.active = old.active]

SavedProfile(old, doc) == IF old.exists THEN doc ELSE old

\* Every column is written, those the body did not name as they were read.
UpdateProfileWrite(r) ==
    /\ Busy(r, "update_profile", "read")
    /\ LET p == req[r].profile IN
        profile' = [profile EXCEPT ![p] = SavedProfile(@, req[r].doc)]
    /\ Reply(r)
    /\ UNCHANGED <<app, user, acl, catalog, script, binding>>

Bound(p) == \E a \in Apps : app[a].exists /\ app[a].prof = p

DeleteProfileCheck(r, p) ==
    /\ req[r] = Idle
    /\ profile[p].exists
    /\ ~Bound(p)
    /\ req' = [req EXCEPT ![r] = [op |-> "delete_profile", pc |-> "checked", profile |-> p]]
    /\ UNCHANGED <<app, profile, user, acl, catalog, script, binding>>

Deletable(p) == profile[p].exists /\ ~Bound(p)

\* ON DELETE RESTRICT is what stops a profile bound since the check.
DeleteProfileCommit(r) ==
    /\ Busy(r, "delete_profile", "checked")
    /\ LET p == req[r].profile IN
        IF Deletable(p)
        THEN /\ profile' = [profile EXCEPT ![p] = NoProfileRow]
             /\ Reply(r)
        ELSE /\ Reply(r)
             /\ UNCHANGED profile
    /\ UNCHANGED <<app, user, acl, catalog, script, binding>>

---------------------------------------------------------------------------
(* Users and their access lists.                                           *)

CreateUser(r, u, admin) ==
    /\ req[r] = Idle
    /\ ~user[u].exists
    /\ user' = [user EXCEPT ![u] = [exists |-> TRUE, admin |-> admin]]
    /\ UNCHANGED <<app, profile, acl, catalog, script, binding, req>>

\* PUT /users/{id}; `admin` is the only column a launch reads.
UpdateUser(r, u, admin) ==
    /\ req[r] = Idle
    /\ user[u].exists
    /\ user' = [user EXCEPT ![u].admin = admin]
    /\ Reply(r)
    /\ UNCHANGED <<app, profile, acl, catalog, script, binding>>

\* DELETE /users/{id} clears is_active, which login reads and a launch does not.
DeleteUser(r, u) ==
    /\ req[r] = Idle
    /\ user[u].exists
    /\ Reply(r)
    /\ UNCHANGED <<app, profile, user, acl, catalog, script, binding>>

AclCheck(r, u, apps) ==
    /\ req[r] = Idle
    /\ user[u].exists
    /\ \A a \in apps : /\ app[a].active
                       /\ app[a].mode = "admin_desktop" => user[u].admin
                       /\ ConfigValid(app[a])
    /\ req' = [req EXCEPT ![r] = [op |-> "update_acl", pc |-> "checked", user |-> u, apps |-> apps]]
    /\ UNCHANGED <<app, profile, user, acl, catalog, script, binding>>

AclCommit(r) ==
    /\ Busy(r, "update_acl", "checked")
    /\ acl' = [acl EXCEPT ![req[r].user] = req[r].apps]
    /\ Reply(r)
    /\ UNCHANGED <<app, profile, user, catalog, script, binding>>

---------------------------------------------------------------------------
\* An empty database.
AccessInit ==
    /\ app = [a \in Apps |-> NoApp]
    /\ profile = [p \in Profiles |-> NoProfileRow]
    /\ user = [u \in Users |-> NoUser]
    /\ acl = [u \in Users |-> {}]
    /\ catalog = [a \in Apps |-> "none"]
    /\ script = [a \in Apps |-> "none"]
    /\ binding = [a \in Apps |-> {}]
    /\ req = [r \in Requests |-> Idle]

\* An administrator's request reaches or passes its commit.
AppRequest(r) ==
    \/ \E a \in Apps, new \in NewApps, sc \in NewScripts : CreateAppCheck(r, a, new, sc)
    \/ CreateAppCommit(r)
    \/ \E a \in Apps, edit \in AppEdits : UpdateAppCheck(r, a, edit)
    \/ UpdateAppSnapshot(r) \/ UpdateAppFromSnapshot(r) \/ UpdateAppCommit(r)
    \/ \E a \in Apps : DeleteApp(r, a)

ProfileRequest(r) ==
    \/ \E p \in Profiles, new \in NewProfiles : CreateProfile(r, p, new)
    \/ \E p \in Profiles, edit \in ProfileEdits : UpdateProfileRead(r, p, edit)
    \/ UpdateProfileWrite(r)
    \/ \E p \in Profiles : DeleteProfileCheck(r, p)
    \/ DeleteProfileCommit(r)

UserRequest(r) ==
    \/ \E u \in Users, admin \in BOOLEAN : CreateUser(r, u, admin)
    \/ \E u \in Users, admin \in BOOLEAN : UpdateUser(r, u, admin)
    \/ \E u \in Users : DeleteUser(r, u)
    \/ \E u \in Users, apps \in SUBSET Apps : AclCheck(r, u, apps)
    \/ AclCommit(r)

AccessNext == \E r \in Requests : AppRequest(r) \/ ProfileRequest(r) \/ UserRequest(r)

AccessSpec == AccessInit /\ [][AccessNext]_accessVars

---------------------------------------------------------------------------
RequestRow ==
    [op : {"idle"}]
    \cup [op : {"create_app"}, pc : {"checked"}, app : Apps, row : AppRow, sc : NewScripts]
    \cup [op : {"update_app"}, pc : {"checked"}, app : Apps,
          edit : {Only(edit, RowFields) : edit \in AppEdits}, sc : Scripts]
    \cup [op : {"update_app"}, pc : {"snapshot"}, app : Apps, row : AppRow,
          view : SUBSET Binding, sc : Scripts]
    \cup [op : {"update_profile"}, pc : {"read"}, profile : Profiles, doc : ProfileRow]
    \cup [op : {"delete_profile"}, pc : {"checked"}, profile : Profiles]
    \cup [op : {"update_acl"}, pc : {"checked"}, user : Users, apps : SUBSET Apps]

\* Every row has its columns; the requests under way are of a known shape.
TypeOK ==
    /\ app \in [Apps -> AppRow]
    /\ profile \in [Profiles -> ProfileRow]
    /\ user \in [Users -> UserRow]
    /\ acl \in [Users -> SUBSET Apps]
    /\ catalog \in [Apps -> OnOff]
    /\ script \in [Apps -> OnOff]
    /\ binding \in [Apps -> SUBSET Binding]
    /\ req \in [Requests -> RequestRow]

(* An active VSCode profile always satisfies its own allowlist rule with   *)
(* entries that mean something, although two administrators save different *)
(* fields of it at once and may type blank items: each save writes the     *)
(* whole document it normalised and validated (update_profile).  The rows  *)
(* keep their types.                                                       *)
ActiveProfilesValid ==
    /\ TypeOK
    /\ \A p \in Profiles : profile[p].active => EffectiveValid(profile[p])

(* No launch falls back to a full desktop for an application in a          *)
(* restricted mode, nor for an ordinary user, passes on arguments nobody   *)
(* validated, or opens a clipboard but by an active policy: two updates    *)
(* each validated against the other's old row may leave the row            *)
(* inconsistent, and a profile bound to it may be switched off, so the     *)
(* builder of connections checks again                                     *)
(* (_build_all_connections_with_errors).                                   *)
LaunchesStayRestricted ==
    \A u \in Users : \A c \in Connections(u) :
        LET row == app[c.app] IN
        IF row.mode = "admin_desktop" THEN user[u].admin
        ELSE /\ ~ c.desktop /\ c.args = "plain"
             /\ c.copy => /\ row.prof \in Profiles
                          /\ profile[row.prof].active /\ profile[row.prof].on[CopyControl]

(* The script switch of an application and its worker bindings agree, also *)
(* when two saves inserted a binding each: switching off reaches both      *)
(* (_upsert_catalog_bindings).                                             *)
ScriptSwitchMatchesBindings ==
    \A a \in Apps : script[a] = "on" <=> \E b \in binding[a] : b.on
=============================================================================
