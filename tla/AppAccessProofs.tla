--------------------------- MODULE AppAccessProofs ---------------------------
(***************************************************************************)
(* Theorems about AppAccess, for any sets of users, applications, profiles *)
(* and requests, any controls and allowlists, and any bodies that name     *)
(* columns and give them values of their types.                            *)
(***************************************************************************)
EXTENDS AppAccess, FiniteSetTheorems, TLAPS

(* The inductive invariant.                                                *)

\* What a request has validated, and what it has read.
DocumentHolds(q) == q.op = "update_profile" /\ q.doc.active => EffectiveValid(q.doc)

Persist(view, a) == \A b \in view : \E c \in binding[a] : c.n = b.n

SnapshotHolds(q) == q.op = "update_app" /\ q.pc = "snapshot" => Persist(q.view, q.app)

AccessInv ==
    /\ ActiveProfilesValid
    /\ ScriptSwitchMatchesBindings
    /\ \A r \in Requests : DocumentHolds(req[r]) /\ SnapshotHolds(req[r])

-----------------------------------------------------------------------------
(* Rows and edits.                                                         *)

LEMMA AppRowOf ==
    ASSUME NEW e \in BOOLEAN, NEW a \in BOOLEAN, NEW m \in Modes, NEW p \in BOOLEAN,
           NEW g \in Arguments, NEW f \in Profiles \cup {None}, NEW c \in BOOLEAN
    PROVE  [exists |-> e, active |-> a, mode |-> m, prog |-> p, args |-> g, prof |-> f, copy |-> c]
               \in AppRow
BY DEF AppRow

LEMMA OnlyTyped ==
    ASSUME NEW edit, Names(edit, AppField)
    PROVE  Names(Only(edit, RowFields), AppField) /\ DOMAIN Only(edit, RowFields) \subseteq RowFields
BY DEF Names, Only

\* An edit of typed columns leaves a typed row.
LEMMA MergedApp ==
    ASSUME NEW row \in AppRow, NEW edit, Names(edit, AppField)
    PROVE  Merge(row, edit) \in AppRow
<1> DEFINE m == Merge(row, edit)
           F == {"exists", "active", "mode", "prog", "args", "prof", "copy"}
<1>1. DOMAIN row = F
    BY DEF AppRow
<1>2. /\ DOMAIN AppField = {"active", "mode", "prog", "args", "prof", "copy", "scriptOn", "group"}
      /\ AppField["active"] = BOOLEAN /\ AppField["mode"] = Modes /\ AppField["prog"] = BOOLEAN
      /\ AppField["args"] = Arguments /\ AppField["prof"] = Profiles \cup {None}
      /\ AppField["copy"] = BOOLEAN
    BY DEF AppField
<1>3. m = [f \in F |-> m[f]] /\ \A f \in F : m[f] = IF f \in DOMAIN edit THEN edit[f] ELSE row[f]
    BY <1>1 DEF Merge
<1>4. /\ row["exists"] \in BOOLEAN /\ row["active"] \in BOOLEAN /\ row["mode"] \in Modes
      /\ row["prog"] \in BOOLEAN /\ row["args"] \in Arguments
      /\ row["prof"] \in Profiles \cup {None} /\ row["copy"] \in BOOLEAN
    BY DEF AppRow
<1> HIDE DEF m
<1>5. /\ m["exists"] \in BOOLEAN /\ m["active"] \in BOOLEAN /\ m["mode"] \in Modes
      /\ m["prog"] \in BOOLEAN /\ m["args"] \in Arguments
      /\ m["prof"] \in Profiles \cup {None} /\ m["copy"] \in BOOLEAN
    BY <1>2, <1>3, <1>4 DEF Names
<1>6. m = [exists |-> m["exists"], active |-> m["active"], mode |-> m["mode"], prog |-> m["prog"],
           args |-> m["args"], prof |-> m["prof"], copy |-> m["copy"]]
    BY <1>3
<1> QED
    BY <1>5, <1>6, AppRowOf DEF m

LEMMA ProfileRowOf ==
    ASSUME NEW e \in BOOLEAN, NEW a \in BOOLEAN, NEW o \in [Controls -> BOOLEAN],
           NEW l \in [Lists -> SUBSET Entries]
    PROVE  [exists |-> e, active |-> a, on |-> o, allow |-> l] \in ProfileRow
BY DEF ProfileRow

LEMMA BodyOf ==
    ASSUME NEW e \in BOOLEAN, NEW a \in BOOLEAN, NEW o \in ControlMaps,
           NEW l \in [Lists -> SUBSET DOMAIN Canon]
    PROVE  [exists |-> e, active |-> a, on |-> o, allow |-> l] \in ProfileBody
BY DEF ProfileBody

\* An edit of a document is again a body.
LEMMA MergedDocument ==
    ASSUME NEW row \in ProfileRow, NEW edit, Names(edit, ProfileField)
    PROVE  Merge(row, edit) \in ProfileBody
<1> DEFINE m == Merge(row, edit)
           F == {"exists", "active", "on", "allow"}
<1>1. DOMAIN row = F
    BY DEF ProfileRow
<1>2. /\ DOMAIN ProfileField = {"active", "on", "allow"}
      /\ ProfileField["active"] = BOOLEAN /\ ProfileField["on"] = ControlMaps
      /\ ProfileField["allow"] = [Lists -> SUBSET DOMAIN Canon]
    BY DEF ProfileField
<1>3. m = [f \in F |-> m[f]] /\ \A f \in F : m[f] = IF f \in DOMAIN edit THEN edit[f] ELSE row[f]
    BY <1>1 DEF Merge
<1>4. /\ row["exists"] \in BOOLEAN /\ row["active"] \in BOOLEAN
      /\ row["on"] \in ControlMaps /\ row["allow"] \in [Lists -> SUBSET DOMAIN Canon]
    <2>1. /\ row["exists"] \in BOOLEAN /\ row["active"] \in BOOLEAN
          /\ row["on"] \in [Controls -> BOOLEAN] /\ row["allow"] \in [Lists -> SUBSET Entries]
        BY DEF ProfileRow
    <2>2. Entries \subseteq DOMAIN Canon
        BY AppAccessAssumption DEF Entries
    <2>3. [Controls -> BOOLEAN] \subseteq ControlMaps
        BY DEF ControlMaps
    <2> QED
        BY <2>1, <2>2, <2>3
<1> HIDE DEF m
<1>5. /\ m["exists"] \in BOOLEAN /\ m["active"] \in BOOLEAN
      /\ m["on"] \in ControlMaps /\ m["allow"] \in [Lists -> SUBSET DOMAIN Canon]
    BY <1>2, <1>3, <1>4 DEF Names
<1>6. m = [exists |-> m["exists"], active |-> m["active"], on |-> m["on"], allow |-> m["allow"]]
    BY <1>3
<1> QED
    BY <1>5, <1>6, BodyOf DEF m

\* A body that is well formed normalises to a row.
LEMMA NormalizedDocument ==
    ASSUME NEW doc \in ProfileBody, WellFormed(doc)
    PROVE  Normalized(doc) \in ProfileRow
<1>1. /\ doc.exists \in BOOLEAN /\ doc.active \in BOOLEAN /\ doc.on \in ControlMaps
      /\ doc.allow \in [Lists -> SUBSET DOMAIN Canon]
      /\ doc = [exists |-> doc.exists, active |-> doc.active, on |-> doc.on, allow |-> doc.allow]
    BY DEF ProfileBody
<1>2. doc.on \in [Controls -> BOOLEAN]
    BY <1>1 DEF WellFormed, ControlMaps
<1> DEFINE kept == [l \in Lists |-> {Canon[x] : x \in doc.allow[l]} \ {Blank}]
<1>3. kept \in [Lists -> SUBSET Entries]
    BY <1>1 DEF WellFormed, Entries
<1>4. Normalized(doc) = [exists |-> doc.exists, active |-> doc.active, on |-> doc.on, allow |-> kept]
    <2>1. Normalized(doc) = [doc EXCEPT !.allow = kept]
        BY DEF Normalized
    <2> HIDE DEF kept
    <2> QED
        BY <1>1, <2>1
<1> HIDE DEF kept
<1> QED
    BY <1>1, <1>2, <1>3, <1>4, ProfileRowOf

-----------------------------------------------------------------------------
(* Script bindings.                                                        *)

LEMMA BindingOf ==
    ASSUME NEW n \in 1..MaxBindings, NEW on \in BOOLEAN, NEW g \in Groups
    PROVE  /\ [n |-> n, on |-> on, group |-> g] \in Binding
           /\ [n |-> n, on |-> on, group |-> g].n = n /\ [n |-> n, on |-> on, group |-> g].on = on
BY DEF Binding

LEMMA BindingFields ==
    ASSUME NEW b \in Binding
    PROVE  /\ b.n \in 1..MaxBindings /\ b.on \in BOOLEAN /\ b.group \in Groups
           /\ b = [n |-> b.n, on |-> b.on, group |-> b.group]
BY DEF Binding

\* There are finitely many bindings.
LEMMA FiniteBindings ==
    ASSUME NEW S \in SUBSET Binding
    PROVE  IsFiniteSet(S) /\ Cardinality(S) \in Nat
<1> DEFINE P == (1..MaxBindings) \X (BOOLEAN \X Groups)
           f == [t \in P |-> [n |-> t[1], on |-> t[2][1], group |-> t[2][2]]]
<1>1. IsFiniteSet(P)
    <2>1. IsFiniteSet(1..MaxBindings)
        BY FS_Interval, AppAccessAssumption
    <2>2. IsFiniteSet(BOOLEAN)
        <3>1. BOOLEAN = {TRUE} \cup {FALSE}
            OBVIOUS
        <3>2. IsFiniteSet({TRUE}) /\ IsFiniteSet({FALSE})
            BY FS_Singleton
        <3> QED
            BY <3>1, <3>2, FS_Union
    <2>3. IsFiniteSet(BOOLEAN \X Groups)
        BY <2>2, FS_Product, AppAccessAssumption
    <2> QED
        BY <2>1, <2>3, FS_Product
<1>2. f \in Surjection(P, Binding)
    <2>1. f \in [P -> Binding]
        BY BindingOf
    <2>2. ASSUME NEW b \in Binding
          PROVE  \E t \in P : f[t] = b
        <3>1. <<b.n, <<b.on, b.group>>>> \in P
            BY BindingFields
        <3>2. f[<<b.n, <<b.on, b.group>>>>] = b
            BY <3>1, BindingFields
        <3> QED
            BY <3>1, <3>2
    <2> QED
        BY <2>1, <2>2 DEF Surjection
<1> HIDE DEF P, f
<1>3. IsFiniteSet(Binding)
    BY <1>1, <1>2, FS_Surjection
<1> QED
    BY <1>3, FS_Subset, FS_CardinalityType

\* A binding may be written over, but is never taken away.
Grow == \A a \in Apps : \A b \in binding[a] : \E c \in binding'[a] : c.n = b.n

\* The bindings of one application become these.
LEMMA BindingsSet ==
    ASSUME TypeOK, NEW a \in Apps, NEW new \in SUBSET Binding, binding' = [binding EXCEPT ![a] = new],
           \A b \in binding[a] : \E c \in new : c.n = b.n
    PROVE  /\ binding' \in [Apps -> SUBSET Binding] /\ binding'[a] = new
           /\ \A d \in Apps \ {a} : binding'[d] = binding[d]
           /\ Grow
<1>1. binding \in [Apps -> SUBSET Binding]
    BY DEF TypeOK
<1>2. binding' \in [Apps -> SUBSET Binding] /\ binding'[a] = new /\ \A d \in Apps \ {a} : binding'[d] = binding[d]
    BY <1>1
<1> QED
    BY <1>2 DEF Grow

LEMMA EnableShape ==
    ASSUME TypeOK, NEW a \in Apps, NEW view \in SUBSET Binding, Persist(view, a),
           NEW sc, sc.group \in Groups, EnableBinding(a, view, sc)
    PROVE  /\ binding' \in [Apps -> SUBSET Binding] /\ Grow
           /\ \E b \in binding'[a] : b.on
           /\ \A d \in Apps \ {a} : binding'[d] = binding[d]
<1>1. binding \in [Apps -> SUBSET Binding] /\ binding[a] \in SUBSET Binding
    BY DEF TypeOK
<1>2. CASE view = {}
    <2> DEFINE n == Cardinality(binding[a]) + 1
               b == [n |-> n, on |-> TRUE, group |-> sc.group]
               new == binding[a] \cup {b}
    <2>1. n \in 1..MaxBindings
        <3>1. Cardinality(binding[a]) \in Nat /\ Cardinality(binding[a]) < MaxBindings /\ MaxBindings \in Nat
            BY <1>1, <1>2, FiniteBindings, AppAccessAssumption DEF EnableBinding
        <3> QED
            BY <3>1
    <2>2. binding' = [binding EXCEPT ![a] = new]
        BY <1>1, <1>2 DEF EnableBinding
    <2> HIDE DEF n
    <2>3. b \in Binding /\ b.on
        BY <2>1, BindingOf
    <2> HIDE DEF b
    <2>4. new \in SUBSET Binding /\ \A c \in binding[a] : c \in new
        BY <1>1, <2>3
    <2>5. b \in new
        OBVIOUS
    <2> HIDE DEF new
    <2> QED
        BY <2>2, <2>3, <2>4, <2>5, BindingsSet
<1>3. CASE view # {}
    <2>1. PICK b \in view : binding' = [binding EXCEPT ![a] =
               {IF c.n = b.n THEN [c EXCEPT !.on = TRUE, !.group = sc.group] ELSE c : c \in @}]
        BY <1>3 DEF EnableBinding
    <2> DEFINE On(c) == IF c.n = b.n THEN [c EXCEPT !.on = TRUE, !.group = sc.group] ELSE c
               new == {On(c) : c \in binding[a]}
    <2>2. binding' = [binding EXCEPT ![a] = new]
        BY <1>1, <2>1
    <2>3. ASSUME NEW c \in binding[a]
          PROVE  On(c) \in Binding /\ On(c).n = c.n /\ (c.n = b.n => On(c).on)
        <3>1. c \in Binding
            BY <1>1
        <3>2. /\ [c EXCEPT !.on = TRUE, !.group = sc.group] \in Binding
              /\ [c EXCEPT !.on = TRUE, !.group = sc.group].n = c.n
              /\ [c EXCEPT !.on = TRUE, !.group = sc.group].on = TRUE
            BY <3>1 DEF Binding
        <3> QED
            BY <3>1, <3>2
    <2>4. PICK c \in binding[a] : c.n = b.n
        BY DEF Persist
    <2> HIDE DEF On
    <2>5. /\ new \in SUBSET Binding /\ \A d \in binding[a] : \E e \in new : e.n = d.n
          /\ On(c) \in new /\ On(c).on
        BY <2>3, <2>4
    <2> HIDE DEF new
    <2> QED
        BY <2>2, <2>5, BindingsSet
<1> QED
    BY <1>2, <1>3

LEMMA DisableShape ==
    ASSUME TypeOK, NEW a \in Apps, DisableBindings(a)
    PROVE  /\ binding' \in [Apps -> SUBSET Binding] /\ Grow
           /\ \A b \in binding'[a] : ~b.on
           /\ \A d \in Apps \ {a} : binding'[d] = binding[d]
<1>1. binding \in [Apps -> SUBSET Binding] /\ binding[a] \in SUBSET Binding
    BY DEF TypeOK
<1> DEFINE Off(b) == [b EXCEPT !.on = FALSE]
           new == {Off(b) : b \in binding[a]}
<1>2. binding' = [binding EXCEPT ![a] = new]
    BY <1>1 DEF DisableBindings
<1>3. \A b \in binding[a] : Off(b) \in Binding /\ Off(b).n = b.n /\ ~Off(b).on
    BY <1>1 DEF Binding
<1> HIDE DEF Off
<1>4. new \in SUBSET Binding /\ (\A b \in binding[a] : \E c \in new : c.n = b.n) /\ \A c \in new : ~c.on
    BY <1>3
<1> HIDE DEF new
<1> QED
    BY <1>2, <1>4, BindingsSet

\* Whatever a body says of scripts, the switch and the bindings agree.
LEMMA UpsertShape ==
    ASSUME TypeOK, ScriptSwitchMatchesBindings, NEW a \in Apps,
           NEW view \in SUBSET Binding, Persist(view, a),
           NEW sc \in Scripts, UpsertScript(a, view, sc)
    PROVE  /\ binding' \in [Apps -> SUBSET Binding] /\ Grow
           /\ script' \in [Apps -> OnOff]
           /\ ScriptSwitchMatchesBindings'
<1>1. script \in [Apps -> OnOff] /\ binding \in [Apps -> SUBSET Binding]
    BY DEF TypeOK
<1>2. CASE sc = None /\ UNCHANGED <<script, binding>>
    BY <1>1, <1>2 DEF ScriptSwitchMatchesBindings, Grow
<1>3. CASE sc # None /\ sc.on /\ script' = [script EXCEPT ![a] = "on"] /\ EnableBinding(a, view, sc)
    <2>1. sc.group \in Groups
        BY <1>3 DEF Scripts
    <2>2. /\ binding' \in [Apps -> SUBSET Binding] /\ Grow
          /\ \E b \in binding'[a] : b.on
          /\ \A d \in Apps \ {a} : binding'[d] = binding[d]
        BY <1>3, <2>1, EnableShape
    <2>3. script' \in [Apps -> OnOff] /\ script'[a] = "on" /\ \A d \in Apps \ {a} : script'[d] = script[d]
        BY <1>1, <1>3 DEF OnOff
    <2> QED
        BY <2>2, <2>3 DEF ScriptSwitchMatchesBindings
<1>4. CASE /\ DisableBindings(a)
           /\ script' = [script EXCEPT ![a] = IF @ = "none" THEN @ ELSE "off"]
    <2>1. /\ binding' \in [Apps -> SUBSET Binding] /\ Grow
          /\ \A b \in binding'[a] : ~b.on
          /\ \A d \in Apps \ {a} : binding'[d] = binding[d]
        BY <1>4, DisableShape
    <2>2. script' \in [Apps -> OnOff] /\ script'[a] # "on" /\ \A d \in Apps \ {a} : script'[d] = script[d]
        BY <1>1, <1>4 DEF OnOff
    <2> QED
        BY <2>1, <2>2 DEF ScriptSwitchMatchesBindings
<1> QED
    BY <1>2, <1>3, <1>4 DEF UpsertScript

-----------------------------------------------------------------------------
(* The requests.                                                           *)

\* The columns keep their types.
ColumnsOK ==
    /\ app' \in [Apps -> AppRow] /\ profile' \in [Profiles -> ProfileRow]
    /\ user' \in [Users -> UserRow] /\ acl' \in [Users -> SUBSET Apps]
    /\ catalog' \in [Apps -> OnOff] /\ script' \in [Apps -> OnOff]
    /\ binding' \in [Apps -> SUBSET Binding]

LEMMA Parts ==
    ASSUME AccessInv
    PROVE  /\ TypeOK /\ ScriptSwitchMatchesBindings
           /\ \A p \in Profiles : profile[p].active => EffectiveValid(profile[p])
           /\ \A r \in Requests : DocumentHolds(req[r]) /\ SnapshotHolds(req[r])
BY DEF AccessInv, ActiveProfilesValid

\* One request goes on to its next row, or ends.
LEMMA Together ==
    ASSUME AccessInv, ColumnsOK, NEW r \in Requests, NEW row \in RequestRow,
           req' = [req EXCEPT ![r] = row],
           \A p \in Profiles : profile'[p].active => EffectiveValid(profile'[p]),
           ScriptSwitchMatchesBindings', Grow,
           row.op = "update_profile" /\ row.doc.active => EffectiveValid(row.doc),
           row.op = "update_app" /\ row.pc = "snapshot" =>
               \A b \in row.view : \E c \in binding'[row.app] : c.n = b.n
    PROVE  AccessInv'
<1>1. /\ req' \in [Requests -> RequestRow] /\ req'[r] = row
      /\ \A q \in Requests \ {r} : req'[q] = req[q]
    BY Parts DEF TypeOK
<1>2. TypeOK'
    BY <1>1 DEF TypeOK, ColumnsOK
<1>3. ActiveProfilesValid'
    BY <1>2 DEF ActiveProfilesValid, EffectiveValid
<1>4. ASSUME NEW q \in Requests
      PROVE  DocumentHolds(req[q])'
    BY <1>1, Parts DEF DocumentHolds, EffectiveValid
<1>5. ASSUME NEW q \in Requests
      PROVE  SnapshotHolds(req[q])'
    <2>1. CASE q = r
        BY <1>1, <2>1 DEF SnapshotHolds, Persist
    <2>2. CASE q # r
        <3>1. req'[q] = req[q] /\ SnapshotHolds(req[q]) /\ req[q] \in RequestRow
            BY <1>1, <2>2, Parts DEF TypeOK
        <3>2. ASSUME req[q].op = "update_app", req[q].pc = "snapshot"
              PROVE  \A b \in req[q].view : \E c \in binding'[req[q].app] : c.n = b.n
            <4>1. req[q].app \in Apps
                BY <3>1, <3>2 DEF RequestRow
            <4> QED
                BY <3>1, <3>2, <4>1 DEF SnapshotHolds, Persist, Grow
        <3> QED
            BY <3>1, <3>2 DEF SnapshotHolds, Persist
    <2> QED
        BY <2>1, <2>2
<1> QED
    BY <1>3, <1>4, <1>5 DEF AccessInv

\* A request that ends, with the columns it left.
LEMMA Ends ==
    ASSUME AccessInv, ColumnsOK, NEW r \in Requests, Reply(r),
           \A p \in Profiles : profile'[p].active => EffectiveValid(profile'[p]),
           ScriptSwitchMatchesBindings', Grow
    PROVE  AccessInv'
<1>1. Idle \in RequestRow /\ Idle.op = "idle"
    BY DEF Idle, RequestRow
<1> HIDE DEF Idle
<1>2. req' = [req EXCEPT ![r] = Idle]
    BY DEF Reply
<1> QED
    BY <1>1, <1>2, Together

\* A step that leaves profiles and scripts alone.
LEMMA ColumnsKept ==
    ASSUME AccessInv, UNCHANGED <<profile, script, binding>>
    PROVE  /\ profile' \in [Profiles -> ProfileRow] /\ script' \in [Apps -> OnOff]
           /\ binding' \in [Apps -> SUBSET Binding]
           /\ \A p \in Profiles : profile'[p].active => EffectiveValid(profile'[p])
           /\ ScriptSwitchMatchesBindings' /\ Grow
BY Parts DEF TypeOK, ScriptSwitchMatchesBindings, Grow

\* What a request reads before it changes anything.
LEMMA Reads ==
    ASSUME AccessInv, NEW r \in Requests, NEW row \in RequestRow, req' = [req EXCEPT ![r] = row],
           UNCHANGED <<app, profile, user, acl, catalog, script, binding>>,
           row.op = "update_profile" /\ row.doc.active => EffectiveValid(row.doc),
           row.op = "update_app" /\ row.pc = "snapshot" => Persist(row.view, row.app)
    PROVE  AccessInv'
<1>1. ColumnsOK
    BY Parts DEF TypeOK, ColumnsOK
<1> QED
    BY <1>1, ColumnsKept, Together DEF Persist

-----------------------------------------------------------------------------
(* Applications.                                                           *)

LEMMA CreateAppKeeps ==
    ASSUME AccessInv, NEW r \in Requests,
           \/ \E a \in Apps, new \in NewApps, sc \in NewScripts : CreateAppCheck(r, a, new, sc)
           \/ CreateAppCommit(r)
    PROVE  AccessInv'
<1>1. TypeOK /\ ScriptSwitchMatchesBindings
    BY Parts
<1>2. ASSUME NEW a \in Apps, NEW new \in NewApps, NEW sc \in NewScripts, CreateAppCheck(r, a, new, sc)
      PROVE  AccessInv'
    <2> DEFINE row == [op |-> "create_app", pc |-> "checked", app |-> a, row |-> new, sc |-> sc]
    <2>1. row \in RequestRow /\ row.op = "create_app"
        BY AppAccessAssumption DEF RequestRow
    <2>2. req' = [req EXCEPT ![r] = row] /\ UNCHANGED <<app, profile, user, acl, catalog, script, binding>>
        BY <1>2 DEF CreateAppCheck
    <2> HIDE DEF row
    <2> QED
        BY <2>1, <2>2, Reads
<1>3. CASE CreateAppCommit(r)
    <2>1. /\ req[r] \in RequestRow /\ req[r].op = "create_app" /\ req[r].pc = "checked"
          /\ UNCHANGED <<profile, user, acl>>
        BY <1>1, <1>3 DEF CreateAppCommit, Busy, TypeOK
    <2>2. req[r].app \in Apps /\ req[r].row \in AppRow /\ req[r].sc \in NewScripts
        BY <2>1 DEF RequestRow
    <2>3. PICK a \in Apps : a = req[r].app
        BY <2>2
    <2>4. PICK row \in AppRow : row = req[r].row
        BY <2>2
    <2>5. PICK sc \in NewScripts : sc = req[r].sc
        BY <2>2
    <2>6. sc \in Scripts
        BY AppAccessAssumption DEF NewScripts, Scripts
    <2>7. CASE /\ app' = [app EXCEPT ![a] = row] /\ UpsertCatalog(a, row)
               /\ UpsertScript(a, {}, sc) /\ Reply(r)
        <3>1. /\ binding' \in [Apps -> SUBSET Binding] /\ Grow
              /\ script' \in [Apps -> OnOff] /\ ScriptSwitchMatchesBindings'
            BY <1>1, <2>6, <2>7, UpsertShape DEF Persist
        <3>2. catalog' \in [Apps -> OnOff]
            BY <1>1, <2>7 DEF UpsertCatalog, Flag, OnOff, TypeOK
        <3>3. ColumnsOK
            BY <1>1, <2>1, <2>7, <3>1, <3>2 DEF ColumnsOK, TypeOK
        <3> QED
            BY <2>1, <2>7, <3>1, <3>3, Ends, Parts DEF EffectiveValid
    <2>8. CASE Reply(r) /\ UNCHANGED <<app, catalog, script, binding>>
        <3>1. ColumnsOK
            BY <1>1, <2>1, <2>8 DEF ColumnsOK, TypeOK
        <3> QED
            BY <2>1, <2>8, <3>1, ColumnsKept, Ends
    <2> QED
        BY <1>3, <2>3, <2>4, <2>5, <2>7, <2>8 DEF CreateAppCommit
<1> QED
    BY <1>2, <1>3

LEMMA MergedScripts ==
    ASSUME TypeOK, NEW a \in Apps, NEW edit \in AppEdits, NEW sc \in MergedScript(a, edit), ScriptValid(sc)
    PROVE  sc \in Scripts
<1>1. CASE sc = None
    BY <1>1 DEF Scripts
<1>2. CASE sc # None
    <2>1. PICK now \in ScriptSettings(a) : sc = [on |-> Merge(now, edit).scriptOn, group |-> Merge(now, edit).group]
        BY <1>2 DEF MergedScript
    <2>2. now.scriptOn \in BOOLEAN /\ now.group \in Groups \cup {None} /\ DOMAIN now = {"scriptOn", "group"}
        <3>1. now \in [scriptOn : BOOLEAN, group : Groups \cup {None}]
            <4>1. binding[a] \subseteq Binding
                BY DEF TypeOK
            <4>2. (IF binding[a] = {} THEN {None} ELSE {b.group : b \in binding[a]}) \subseteq Groups \cup {None}
                BY <4>1, BindingFields
            <4>3. {script[a] = "on"} \subseteq BOOLEAN
                OBVIOUS
            <4> QED
                BY <2>1, <4>2, <4>3 DEF ScriptSettings
        <3> QED
            BY <3>1
    <2>3. /\ Names(edit, AppField)
          /\ DOMAIN AppField = {"active", "mode", "prog", "args", "prof", "copy", "scriptOn", "group"}
          /\ AppField["scriptOn"] = BOOLEAN /\ AppField["group"] = Groups \cup {None}
        BY AppAccessAssumption DEF AppField
    <2>4. Merge(now, edit)["scriptOn"] \in BOOLEAN /\ Merge(now, edit)["group"] \in Groups \cup {None}
        BY <2>2, <2>3 DEF Merge, Names
    <2>5. sc.on \in BOOLEAN /\ sc.group \in Groups \cup {None} /\ sc \in [on : BOOLEAN, group : Groups \cup {None}]
        BY <2>1, <2>4
    <2> QED
        BY <1>2, <2>5 DEF ScriptValid, Scripts
<1> QED
    BY <1>1, <1>2

LEMMA UpdateAppCheckKeeps ==
    ASSUME AccessInv, NEW r \in Requests, NEW a \in Apps, NEW edit \in AppEdits, UpdateAppCheck(r, a, edit)
    PROVE  AccessInv'
<1>1. TypeOK
    BY Parts
<1>2. PICK sc \in MergedScript(a, edit) :
        /\ ScriptValid(sc)
        /\ req' = [req EXCEPT ![r] = [op |-> "update_app", pc |-> "checked", app |-> a,
                                      edit |-> Only(edit, RowFields), sc |-> sc]]
    BY DEF UpdateAppCheck
<1> DEFINE row == [op |-> "update_app", pc |-> "checked", app |-> a,
                   edit |-> Only(edit, RowFields), sc |-> sc]
<1>3. sc \in Scripts
    BY <1>1, <1>2, MergedScripts
<1>4. row \in RequestRow /\ row.op = "update_app" /\ row.pc = "checked"
    <2>1. Only(edit, RowFields) \in {Only(e, RowFields) : e \in AppEdits}
        OBVIOUS
    <2> DEFINE only == Only(edit, RowFields)
    <2> HIDE DEF only
    <2>2. only \in {Only(e, RowFields) : e \in AppEdits}
        BY <2>1 DEF only
    <2>3. row = [op |-> "update_app", pc |-> "checked", app |-> a, edit |-> only, sc |-> sc]
        BY DEF only
    <2> HIDE DEF row
    <2> QED
        BY <1>3, <2>2, <2>3 DEF RequestRow
<1>5. req' = [req EXCEPT ![r] = row] /\ UNCHANGED <<app, profile, user, acl, catalog, script, binding>>
    BY <1>2 DEF UpdateAppCheck
<1> HIDE DEF row
<1> QED
    BY <1>4, <1>5, Reads

\* An update of scripts alone works on what its snapshot showed it.
LEMMA UpdateSnapshotKeeps ==
    ASSUME AccessInv, NEW r \in Requests, UpdateAppSnapshot(r) \/ UpdateAppFromSnapshot(r)
    PROVE  AccessInv'
<1>1. TypeOK /\ ScriptSwitchMatchesBindings /\ SnapshotHolds(req[r]) /\ req[r] \in RequestRow
    BY Parts DEF TypeOK
<1>2. CASE UpdateAppSnapshot(r)
    <2>1. /\ req[r].op = "update_app" /\ req[r].pc = "checked"
          /\ UNCHANGED <<app, profile, user, acl, catalog, script, binding>>
        BY <1>2 DEF UpdateAppSnapshot, Busy
    <2>2. req[r].app \in Apps /\ req[r].sc \in Scripts
        BY <1>1, <2>1 DEF RequestRow
    <2> DEFINE a == req[r].app
               row == [op |-> "update_app", pc |-> "snapshot", app |-> a,
                       row |-> app[a], view |-> binding[a], sc |-> req[r].sc]
    <2>3. req' = [req EXCEPT ![r] = row]
        BY <1>2 DEF UpdateAppSnapshot
    <2>4. app[a] \in AppRow /\ binding[a] \in SUBSET Binding
        BY <1>1, <2>2 DEF TypeOK
    <2>5. row \in RequestRow /\ row.op = "update_app" /\ row.view = binding[row.app]
        BY <2>2, <2>4 DEF RequestRow
    <2> HIDE DEF row
    <2> QED
        BY <2>1, <2>3, <2>5, Reads DEF Persist
<1>3. CASE UpdateAppFromSnapshot(r)
    <2>1. /\ req[r].op = "update_app" /\ req[r].pc = "snapshot" /\ Reply(r)
          /\ UNCHANGED <<app, profile, user, acl>>
        BY <1>3 DEF UpdateAppFromSnapshot, Busy
    <2>2. /\ req[r].app \in Apps /\ req[r].row \in AppRow /\ req[r].view \in SUBSET Binding
          /\ req[r].sc \in Scripts
        BY <1>1, <2>1 DEF RequestRow
    <2>3. Persist(req[r].view, req[r].app)
        BY <1>1, <2>1 DEF SnapshotHolds
    <2>4. /\ binding' \in [Apps -> SUBSET Binding] /\ Grow
          /\ script' \in [Apps -> OnOff] /\ ScriptSwitchMatchesBindings'
        BY <1>1, <1>3, <2>2, <2>3, UpsertShape DEF UpdateAppFromSnapshot
    <2>5. catalog' \in [Apps -> OnOff]
        BY <1>1, <1>3 DEF UpdateAppFromSnapshot, UpsertCatalog, Flag, OnOff, TypeOK
    <2>6. ColumnsOK
        BY <1>1, <2>1, <2>4, <2>5 DEF ColumnsOK, TypeOK
    <2>7. profile' = profile
        BY <1>3 DEF UpdateAppFromSnapshot, UpsertCatalog, Reply
    <2> QED
        BY <2>1, <2>4, <2>6, <2>7, Ends, Parts
<1> QED
    BY <1>2, <1>3

LEMMA UpdateAppCommitKeeps ==
    ASSUME AccessInv, NEW r \in Requests, UpdateAppCommit(r)
    PROVE  AccessInv'
<1>1. TypeOK /\ ScriptSwitchMatchesBindings /\ req[r] \in RequestRow
    BY Parts DEF TypeOK
<1>2. req[r].op = "update_app" /\ req[r].pc = "checked" /\ UNCHANGED <<profile, user, acl>>
    BY DEF UpdateAppCommit, Busy
<1>3. req[r].app \in Apps /\ req[r].sc \in Scripts /\ req[r].edit \in {Only(e, RowFields) : e \in AppEdits}
    BY <1>1, <1>2 DEF RequestRow
<1>4. PICK a \in Apps : a = req[r].app
    BY <1>3
<1>5. PICK edit \in AppEdits : req[r].edit = Only(edit, RowFields)
    BY <1>3
<1>6. Merge(app[a], req[r].edit) \in AppRow
    BY <1>1, <1>5, OnlyTyped, MergedApp, AppAccessAssumption DEF TypeOK
<1>7. PICK row \in AppRow : row = Merge(app[a], req[r].edit)
    BY <1>6
<1>8. CASE /\ app' = [app EXCEPT ![a] = row] /\ UpsertCatalog(a, row)
           /\ UpsertScript(a, binding[a], req[r].sc) /\ Reply(r)
    <2>1. binding[a] \in SUBSET Binding /\ Persist(binding[a], a)
        BY <1>1 DEF TypeOK, Persist
    <2>2. /\ binding' \in [Apps -> SUBSET Binding] /\ Grow
          /\ script' \in [Apps -> OnOff] /\ ScriptSwitchMatchesBindings'
        BY <1>1, <1>3, <1>8, <2>1, UpsertShape
    <2>3. catalog' \in [Apps -> OnOff]
        BY <1>1, <1>8 DEF UpsertCatalog, Flag, OnOff, TypeOK
    <2>4. ColumnsOK
        BY <1>1, <1>2, <1>8, <2>2, <2>3 DEF ColumnsOK, TypeOK
    <2> QED
        BY <1>2, <1>8, <2>2, <2>4, Ends, Parts
<1>9. CASE Reply(r) /\ UNCHANGED <<app, catalog, script, binding>>
    <2>1. ColumnsOK
        BY <1>1, <1>2, <1>9 DEF ColumnsOK, TypeOK
    <2> QED
        BY <1>2, <1>9, <2>1, ColumnsKept, Ends
<1> QED
    BY <1>4, <1>7, <1>8, <1>9 DEF UpdateAppCommit

LEMMA DeleteAppKeeps ==
    ASSUME AccessInv, NEW r \in Requests, NEW a \in Apps, DeleteApp(r, a)
    PROVE  AccessInv'
<1>1. TypeOK /\ ScriptSwitchMatchesBindings
    BY Parts
<1>2. Reply(r) /\ UNCHANGED <<profile, user, acl>>
    BY DEF DeleteApp
<1> DEFINE sc == [on |-> FALSE, group |-> None]
<1>3. sc \in Scripts
    BY DEF Scripts
<1>4. UpsertScript(a, binding[a], sc)
    BY DEF DeleteApp
<1> HIDE DEF sc
<1>5. binding[a] \in SUBSET Binding /\ Persist(binding[a], a)
    BY <1>1 DEF TypeOK, Persist
<1>6. /\ binding' \in [Apps -> SUBSET Binding] /\ Grow
      /\ script' \in [Apps -> OnOff] /\ ScriptSwitchMatchesBindings'
    BY <1>1, <1>3, <1>4, <1>5, UpsertShape
<1>7. app' \in [Apps -> AppRow]
    <2> DEFINE new == [app[a] EXCEPT !.active = FALSE]
    <2>1. app' = [app EXCEPT ![a] = new]
        BY <1>1 DEF DeleteApp, TypeOK
    <2>2. new \in AppRow
        <3>1. PICK row \in AppRow : row = app[a]
            BY <1>1 DEF TypeOK
        <3>2. [row EXCEPT !.active = FALSE] \in AppRow
            BY DEF AppRow
        <3> QED
            BY <3>1, <3>2
    <2> HIDE DEF new
    <2> QED
        BY <1>1, <2>1, <2>2 DEF TypeOK
<1>8. catalog' \in [Apps -> OnOff]
    BY <1>1 DEF DeleteApp, UpsertCatalog, Flag, OnOff, TypeOK
<1>9. ColumnsOK
    BY <1>1, <1>2, <1>6, <1>7, <1>8 DEF ColumnsOK, TypeOK
<1> QED
    BY <1>2, <1>6, <1>9, Ends, Parts

-----------------------------------------------------------------------------
(* Profiles.                                                               *)

\* A profile becomes a valid document.
LEMMA ProfileSet ==
    ASSUME AccessInv, NEW r \in Requests, NEW p \in Profiles, NEW doc \in ProfileRow,
           doc.active => EffectiveValid(doc), profile' = [profile EXCEPT ![p] = doc],
           Reply(r), UNCHANGED <<app, user, acl, catalog, script, binding>>
    PROVE  AccessInv'
<1>1. TypeOK /\ ScriptSwitchMatchesBindings
    BY Parts
<1>2. profile' \in [Profiles -> ProfileRow] /\ \A q \in Profiles : profile'[q] = IF q = p THEN doc ELSE profile[q]
    BY <1>1 DEF TypeOK
<1>3. \A q \in Profiles : profile'[q].active => EffectiveValid(profile'[q])
    BY <1>2, Parts
<1>4. ColumnsOK
    BY <1>1, <1>2 DEF ColumnsOK, TypeOK
<1>5. ScriptSwitchMatchesBindings' /\ Grow
    BY <1>1 DEF ScriptSwitchMatchesBindings, Grow
<1> QED
    BY <1>3, <1>4, <1>5, Ends

LEMMA CreateProfileKeeps ==
    ASSUME AccessInv, NEW r \in Requests, NEW p \in Profiles, NEW new \in NewProfiles, CreateProfile(r, p, new)
    PROVE  AccessInv'
<1>1. Normalized(new) \in ProfileRow
    BY NormalizedDocument, AppAccessAssumption DEF CreateProfile
<1>2. PICK doc \in ProfileRow : doc = Normalized(new)
    BY <1>1
<1>3. /\ doc.active => EffectiveValid(doc)
      /\ profile' = [profile EXCEPT ![p] = doc]
      /\ Reply(r) /\ UNCHANGED <<app, user, acl, catalog, script, binding>>
    BY <1>2 DEF CreateProfile
<1> QED
    BY <1>3, ProfileSet

\* What is saved later was validated whole.
LEMMA UpdateProfileKeeps ==
    ASSUME AccessInv, NEW r \in Requests,
           \/ \E p \in Profiles, edit \in ProfileEdits : UpdateProfileRead(r, p, edit)
           \/ UpdateProfileWrite(r)
    PROVE  AccessInv'
<1>1. TypeOK
    BY Parts
<1>2. ASSUME NEW p \in Profiles, NEW edit \in ProfileEdits, UpdateProfileRead(r, p, edit)
      PROVE  AccessInv'
    <2>1. Merge(profile[p], edit) \in ProfileBody
        BY <1>1, MergedDocument, AppAccessAssumption DEF TypeOK
    <2>2. Normalized(Merge(profile[p], edit)) \in ProfileRow
        BY <1>2, <2>1, NormalizedDocument DEF UpdateProfileRead
    <2>3. PICK doc \in ProfileRow : doc = Normalized(Merge(profile[p], edit))
        BY <2>2
    <2> DEFINE row == [op |-> "update_profile", pc |-> "read", profile |-> p, doc |-> doc]
    <2>4. row \in RequestRow /\ row.op = "update_profile" /\ row.doc = doc
        BY DEF RequestRow
    <2>5. /\ req' = [req EXCEPT ![r] = row] /\ (doc.active => EffectiveValid(doc))
          /\ UNCHANGED <<app, profile, user, acl, catalog, script, binding>>
        BY <1>2, <2>3 DEF UpdateProfileRead
    <2> HIDE DEF row
    <2> QED
        BY <2>4, <2>5, Reads
<1>3. CASE UpdateProfileWrite(r)
    <2>1. /\ req[r] \in RequestRow /\ req[r].op = "update_profile" /\ DocumentHolds(req[r])
          /\ Reply(r) /\ UNCHANGED <<app, user, acl, catalog, script, binding>>
        BY <1>1, <1>3, Parts DEF UpdateProfileWrite, Busy, TypeOK
    <2>2. req[r].profile \in Profiles /\ req[r].doc \in ProfileRow
        BY <2>1 DEF RequestRow
    <2>3. PICK p \in Profiles : p = req[r].profile
        BY <2>2
    <2>4. SavedProfile(profile[p], req[r].doc) \in {profile[p], req[r].doc}
        BY DEF SavedProfile
    <2>5. PICK doc \in ProfileRow : doc = SavedProfile(profile[p], req[r].doc)
        BY <1>1, <2>2, <2>4 DEF TypeOK
    <2>6. doc.active => EffectiveValid(doc)
        BY <2>1, <2>4, <2>5, Parts DEF DocumentHolds
    <2>7. profile' = [profile EXCEPT ![p] = doc]
        BY <1>1, <1>3, <2>3, <2>5 DEF UpdateProfileWrite, TypeOK
    <2> QED
        BY <2>1, <2>6, <2>7, ProfileSet
<1> QED
    BY <1>2, <1>3

LEMMA DeleteProfileKeeps ==
    ASSUME AccessInv, NEW r \in Requests,
           \/ \E p \in Profiles : DeleteProfileCheck(r, p)
           \/ DeleteProfileCommit(r)
    PROVE  AccessInv'
<1>1. TypeOK
    BY Parts
<1>2. ASSUME NEW p \in Profiles, DeleteProfileCheck(r, p)
      PROVE  AccessInv'
    <2> DEFINE row == [op |-> "delete_profile", pc |-> "checked", profile |-> p]
    <2>1. row \in RequestRow /\ row.op = "delete_profile"
        BY DEF RequestRow
    <2>2. req' = [req EXCEPT ![r] = row] /\ UNCHANGED <<app, profile, user, acl, catalog, script, binding>>
        BY <1>2 DEF DeleteProfileCheck
    <2> HIDE DEF row
    <2> QED
        BY <2>1, <2>2, Reads
<1>3. CASE DeleteProfileCommit(r)
    <2>1. /\ req[r] \in RequestRow /\ req[r].op = "delete_profile"
          /\ Reply(r) /\ UNCHANGED <<app, user, acl, catalog, script, binding>>
        BY <1>1, <1>3 DEF DeleteProfileCommit, Busy, TypeOK
    <2>2. PICK p \in Profiles : p = req[r].profile
        BY <2>1 DEF RequestRow
    <2>3. NoProfileRow \in ProfileRow /\ ~NoProfileRow.active /\ profile[p] \in ProfileRow
        BY <1>1 DEF NoProfileRow, ProfileRow, TypeOK
    <2>4. CASE profile' = [profile EXCEPT ![p] = NoProfileRow]
        <3>1. PICK doc \in ProfileRow : doc = NoProfileRow
            BY <2>3
        <3> HIDE DEF NoProfileRow
        <3> QED
            BY <2>1, <2>3, <2>4, <3>1, ProfileSet
    <2>5. CASE UNCHANGED profile
        <3>1. profile' = [profile EXCEPT ![p] = profile[p]]
            BY <1>1, <2>5 DEF TypeOK
        <3> QED
            BY <2>1, <2>3, <3>1, ProfileSet, Parts
    <2> QED
        BY <1>3, <2>2, <2>4, <2>5 DEF DeleteProfileCommit
<1> QED
    BY <1>2, <1>3

-----------------------------------------------------------------------------
(* Users.                                                                  *)

LEMMA UserKeeps ==
    ASSUME AccessInv, NEW r \in Requests, UserRequest(r)
    PROVE  AccessInv'
<1>1. TypeOK
    BY Parts
<1>2. ASSUME NEW u \in Users, NEW admin \in BOOLEAN, CreateUser(r, u, admin)
      PROVE  AccessInv'
    <2>1. /\ user' = [user EXCEPT ![u] = [exists |-> TRUE, admin |-> admin]]
          /\ UNCHANGED <<app, profile, acl, catalog, script, binding, req>> /\ req[r] = Idle
        BY <1>2 DEF CreateUser
    <2>2. ColumnsOK
        BY <1>1, <2>1 DEF ColumnsOK, TypeOK, UserRow
    <2>3. Reply(r)
        BY <1>1, <2>1 DEF Reply, TypeOK
    <2> QED
        BY <2>1, <2>2, <2>3, ColumnsKept, Ends
<1>3. ASSUME NEW u \in Users, NEW admin \in BOOLEAN, UpdateUser(r, u, admin)
      PROVE  AccessInv'
    <2>1. /\ user' = [user EXCEPT ![u].admin = admin] /\ Reply(r)
          /\ UNCHANGED <<app, profile, acl, catalog, script, binding>>
        BY <1>3 DEF UpdateUser
    <2>2. user' \in [Users -> UserRow]
        <3> DEFINE new == [user[u] EXCEPT !.admin = admin]
        <3>1. user' = [user EXCEPT ![u] = new]
            BY <1>1, <2>1 DEF TypeOK
        <3>2. new \in UserRow
            BY <1>1 DEF TypeOK, UserRow
        <3> HIDE DEF new
        <3> QED
            BY <1>1, <3>1, <3>2 DEF TypeOK
    <2>3. ColumnsOK
        BY <1>1, <2>1, <2>2 DEF ColumnsOK, TypeOK
    <2> QED
        BY <2>1, <2>3, ColumnsKept, Ends
<1>4. ASSUME NEW u \in Users, DeleteUser(r, u)
      PROVE  AccessInv'
    <2>1. Reply(r) /\ UNCHANGED <<app, profile, user, acl, catalog, script, binding>>
        BY <1>4 DEF DeleteUser
    <2>2. ColumnsOK
        BY <1>1, <2>1 DEF ColumnsOK, TypeOK
    <2> QED
        BY <2>1, <2>2, ColumnsKept, Ends
<1>5. ASSUME NEW u \in Users, NEW apps \in SUBSET Apps, AclCheck(r, u, apps)
      PROVE  AccessInv'
    <2> DEFINE row == [op |-> "update_acl", pc |-> "checked", user |-> u, apps |-> apps]
    <2>1. row \in RequestRow /\ row.op = "update_acl"
        BY DEF RequestRow
    <2>2. req' = [req EXCEPT ![r] = row] /\ UNCHANGED <<app, profile, user, acl, catalog, script, binding>>
        BY <1>5 DEF AclCheck
    <2> HIDE DEF row
    <2> QED
        BY <2>1, <2>2, Reads
<1>6. CASE AclCommit(r)
    <2>1. /\ req[r] \in RequestRow /\ req[r].op = "update_acl" /\ Reply(r)
          /\ acl' = [acl EXCEPT ![req[r].user] = req[r].apps]
          /\ UNCHANGED <<app, profile, user, catalog, script, binding>>
        BY <1>1, <1>6 DEF AclCommit, Busy, TypeOK
    <2>2. req[r].user \in Users /\ req[r].apps \in SUBSET Apps
        BY <2>1 DEF RequestRow
    <2>3. ColumnsOK
        BY <1>1, <2>1, <2>2 DEF ColumnsOK, TypeOK
    <2> QED
        BY <2>1, <2>3, ColumnsKept, Ends
<1> QED
    BY <1>2, <1>3, <1>4, <1>5, <1>6 DEF UserRequest

-----------------------------------------------------------------------------
LEMMA InitAccessInv == AccessInit => AccessInv
<1> SUFFICES ASSUME AccessInit
             PROVE  AccessInv
    OBVIOUS
<1>1. NoApp \in AppRow
    BY DEF NoApp, AppRow, Modes, Arguments
<1>2. NoProfileRow \in ProfileRow /\ ~NoProfileRow.active
    BY DEF NoProfileRow, ProfileRow
<1>3. NoUser \in UserRow /\ Idle \in RequestRow /\ Idle.op = "idle"
    BY DEF NoUser, UserRow, Idle, RequestRow
<1>4. TypeOK
    BY <1>1, <1>2, <1>3 DEF AccessInit, TypeOK, OnOff
<1> HIDE DEF Idle
<1>5. \A r \in Requests : DocumentHolds(req[r]) /\ SnapshotHolds(req[r])
    BY <1>3 DEF AccessInit, DocumentHolds, SnapshotHolds
<1>6. ActiveProfilesValid /\ ScriptSwitchMatchesBindings
    BY <1>2, <1>4 DEF AccessInit, ActiveProfilesValid, ScriptSwitchMatchesBindings
<1> QED
    BY <1>5, <1>6 DEF AccessInv

LEMMA AccessStep == AccessInv /\ [AccessNext]_accessVars => AccessInv'
<1> SUFFICES ASSUME AccessInv, [AccessNext]_accessVars
             PROVE  AccessInv'
    OBVIOUS
<1>1. ASSUME NEW r \in Requests, AppRequest(r)
      PROVE  AccessInv'
    BY <1>1, CreateAppKeeps, UpdateAppCheckKeeps, UpdateSnapshotKeeps, UpdateAppCommitKeeps, DeleteAppKeeps
       DEF AppRequest
<1>2. ASSUME NEW r \in Requests, ProfileRequest(r)
      PROVE  AccessInv'
    BY <1>2, CreateProfileKeeps, UpdateProfileKeeps, DeleteProfileKeeps DEF ProfileRequest
<1>3. CASE UNCHANGED accessVars
    BY <1>3 DEF accessVars, AccessInv, ActiveProfilesValid, TypeOK, EffectiveValid,
                ScriptSwitchMatchesBindings, DocumentHolds, SnapshotHolds, Persist
<1> QED
    BY <1>1, <1>2, <1>3, UserKeeps DEF AccessNext

LEMMA AccessInvHolds == AccessSpec => []AccessInv
BY InitAccessInv, AccessStep, PTL DEF AccessSpec

-----------------------------------------------------------------------------
(* The properties.                                                         *)

(* An active VSCode profile satisfies its allowlist rule, whatever         *)
(* administrators save at once and however they type it (update_profile).  *)
THEOREM ProfilesAreValid == AccessSpec => []ActiveProfilesValid
<1>1. AccessInv => ActiveProfilesValid
    BY DEF AccessInv
<1> QED
    BY <1>1, AccessInvHolds, PTL

(* The script switch agrees with the bindings, for any number of           *)
(* applications, requests and bindings (_upsert_catalog_bindings).         *)
THEOREM SwitchesMatch == AccessSpec => []ScriptSwitchMatchesBindings
<1>1. AccessInv => ScriptSwitchMatchesBindings
    BY DEF AccessInv
<1> QED
    BY <1>1, AccessInvHolds, PTL

(* No launch falls back to a full desktop, to arguments nobody validated   *)
(* or to a clipboard no active policy opens, whatever states updates that  *)
(* were validated apart leave the rows in: the builder's own checks are    *)
(* enough (_build_all_connections_with_errors).                            *)
THEOREM LaunchesAreRestricted == AccessSpec => []LaunchesStayRestricted
<1>1. ASSUME AccessInv
      PROVE  LaunchesStayRestricted
    <2> SUFFICES ASSUME NEW u \in Users, NEW c \in Connections(u)
                 PROVE  LET row == app[c.app] IN
                        IF row.mode = "admin_desktop" THEN user[u].admin
                        ELSE /\ ~ c.desktop /\ c.args = "plain"
                             /\ c.copy => /\ row.prof \in Profiles
                                          /\ profile[row.prof].active /\ profile[row.prof].on[CopyControl]
        BY DEF LaunchesStayRestricted
    <2>1. PICK a \in Apps : c = Connection(a) /\ Listed(u, a) /\ Buildable(app[a])
        BY DEF Connections
    <2>2. /\ c.app = a /\ c.desktop = ~app[a].prog /\ c.args = ArgumentsFor(app[a])
          /\ c.copy = CopyAllowed(app[a])
        BY <2>1 DEF Connection, RdpConnection
    <2>3. /\ app[a].mode \in Modes /\ app[a].prof \in Profiles \cup {None}
        BY <1>1, Parts DEF TypeOK, AppRow
    <2>4. CASE app[a].mode = "admin_desktop"
        BY <2>1, <2>2, <2>4 DEF Listed
    <2>5. CASE app[a].mode = "restricted_remoteapp"
        BY <2>1, <2>2, <2>5 DEF Buildable, ArgumentsAllowed, ArgumentsFor, CopyAllowed
    <2>6. CASE app[a].mode = "restricted_vscode"
        BY <2>1, <2>2, <2>3, <2>6 DEF Buildable, Bindable, ArgumentsFor, CopyAllowed
    <2> QED
        BY <2>3, <2>4, <2>5, <2>6 DEF Modes
<1> QED
    BY <1>1, AccessInvHolds, PTL
=============================================================================
