---------------------------- MODULE MCAppAccess ----------------------------
(* Small instances of AppAccess: the bodies administrators may send.       *)
EXTENDS AppAccess, TLC

Row(mode, prog, prof) ==
    [exists |-> TRUE, active |-> TRUE, mode |-> mode, prog |-> prog,
     args |-> "plain", prof |-> prof, copy |-> TRUE]

MCNewApps == {Row("restricted_remoteapp", TRUE, None)}

Field(f, v) == [x \in {f} |-> v]

MCAppEdits ==
    {("prog" :> FALSE) @@ ("args" :> "plain"),
     Field("scriptOn", FALSE), Field("scriptOn", TRUE)}
    \cup {Field("group", g) : g \in Groups}
    \cup {[x \in {"scriptOn", "group"} |-> IF x = "group" THEN g ELSE TRUE] : g \in Groups}
    \cup {("mode" :> "restricted_vscode") @@ ("prof" :> p) : p \in Profiles}
    \cup {("mode" :> "admin_desktop") @@ ("args" :> "unsafe") @@ ("prof" :> None)}

\* Two controls, of which the first needs the only allowlist.
MCControls == {"terminal", "copy"}

MCNeeds == [l \in {"shells"} |-> {"terminal"}]

\* A path, the same in other letters, an empty item and one with a wildcard.
MCCanon ==
    ("sh" :> "sh") @@ ("SH" :> "sh") @@ ("" :> Blank) @@ ("*" :> Malformed)

Doc(terminal, shells) ==
    [exists |-> TRUE, active |-> TRUE,
     on |-> ("terminal" :> terminal) @@ ("copy" :> TRUE), allow |-> ("shells" :> shells)]

MCNewProfiles == {Doc(FALSE, {"sh", "SH"}), Doc(FALSE, {""}), Doc(TRUE, {""})}

MCProfileEdits ==
    {Field("active", FALSE), Field("active", TRUE),
     Field("on", ("terminal" :> TRUE) @@ ("copy" :> TRUE)),
     Field("on", "copy" :> TRUE),
     Field("allow", "shells" :> {"*"})}

RequestSymmetry == Permutations(Requests)
=============================================================================
