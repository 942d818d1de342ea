--------------------------- MODULE CommunityProofs ---------------------------
(***************************************************************************)
(* Theorems about Community, for every set of users, cases, bookings and   *)
(* requests, and every bound: published cases, copies, bookings and        *)
(* attachments.                                                            *)
(***************************************************************************)
EXTENDS Community, FiniteSetTheorems, TLAPS

-----------------------------------------------------------------------------
(* The inductive invariant.  The four services share nothing but the       *)
(* requests under way, so it has a part for each.                          *)

\* A publication fills a directory of its own, that no row lists yet, from
\* what it has listed; the archive holds the whole of it.  One that failed
\* clears its own, that rows list only if their COMMIT was not answered.
PublishInv ==
    /\ \A h \in Doing("publish") :
        LET c == work[h].case IN
        /\ root[c] # None /\ assets[c] = None /\ c \notin unknown \cup dead
        /\ work[h].todo \subseteq work[h].listed
        /\ root[c].package = work[h].listed \ work[h].todo
        /\ root[c].archive # None => work[h].todo = {} /\ root[c].archive = work[h].listed
    /\ \A h \in Doing("clear") :
        /\ root[work[h].case] # None
        /\ assets[work[h].case] = None \/ work[h].case \in unknown
    /\ \A g, h \in Publishers : work[g].case = work[h].case => g = h

\* A transfer has found the whole package of a public case, whose COMMIT was
\* answered.  One that nothing broke into is the only one at work on its target,
\* and has put there what it is past.
CopyInv ==
    /\ \A h \in Doing("target") :
        LET c == work[h].case IN c \in unknown \/ (Public(c) /\ work[h].todo = Page(c))
    /\ \A h \in Doing("copy") :
        LET c == work[h].case IN c \in unknown \/ (Public(c) /\ work[h].todo \subseteq Page(c))
    /\ \A h \in Copiers :
        LET u == work[h].user  c == work[h].case IN
        <<u, c>> \notin cut =>
            /\ space[<<u, c>>] # None
            /\ \A g \in Copiers : work[g].user = u /\ work[g].case = c => g = h
            /\ h \in Doing("copy") /\ c \notin unknown => space[<<u, c>>] = Page(c) \ work[h].todo

\* A booking somebody cancelled is not active again.
CancelInv ==
    \A b \in Bookings :
        /\ cancels[b] <= 1
        /\ booking[b] # "cancelled" => cancels[b] = 0

\* Replacements that are under way together have found the same rows, those
\* of one replacement at most.
ListInv ==
    /\ locked = Doing("replace")
    /\ \A h \in locked : work[h].found = listing
    /\ \A i, j \in listing : i = j

CommunityInv == RowsMatchPackages /\ CopiesWhole /\ PublishInv /\ CopyInv /\ CancelInv /\ ListInv

-----------------------------------------------------------------------------
\* Nothing is published, copied, booked or attached yet.
LEMMA InitCommunityInv == Init => CommunityInv
<1> SUFFICES ASSUME Init
             PROVE  CommunityInv
    OBVIOUS
<1>1. TypeOK
    BY CommunityAssumption DEF Init, TypeOK
<1>2. /\ Doing("publish") = {} /\ Doing("clear") = {} /\ Doing("replace") = {}
      /\ Doing("target") = {} /\ Doing("copy") = {} /\ Doing("undo") = {}
    BY DEF Init, Doing
<1>3. RowsMatchPackages /\ CopiesWhole
    BY <1>1 DEF Init, RowsMatchPackages, CopiesWhole, Public, PackageThere
<1>4. PublishInv
    BY <1>2 DEF PublishInv, Publishers
<1>5. CopyInv
    BY <1>2 DEF CopyInv, Copiers
<1>6. CancelInv /\ ListInv
    BY <1>2 DEF Init, CancelInv, ListInv
<1> QED
    BY <1>3, <1>4, <1>5, <1>6 DEF CommunityInv

-----------------------------------------------------------------------------
(* What a step makes of the requests under way.                            *)

\* Handler h goes on with w, and the others with what they do.
Becomes(h, w) ==
    /\ work' \in [Handlers -> Work \cup {None}]
    /\ work'[h] = w
    /\ \A g \in Handlers \ {h} : work'[g] = work[g]

\* Those at pc are the same as before, and so is what they do.
Same(pc) ==
    /\ Doing(pc)' = Doing(pc)
    /\ \A g \in Doing(pc) : work'[g] = work[g]

\* The fields of each kind of work.
LEMMA WorkShape ==
    ASSUME TypeOK, NEW h \in Handlers
    PROVE  /\ h \in Doing("publish") => work[h].listed \in SUBSET Files /\ work[h].todo \in SUBSET Files
           /\ h \in Publishers => work[h].case \in Cases
           /\ h \in Doing("target") \cup Doing("copy") => work[h].todo \in SUBSET Files
           /\ h \in Doing("target") \cup Copiers => work[h].user \in Users /\ work[h].case \in Cases
           /\ h \in Doing("cancel") => work[h].booking \in Bookings
           /\ h \in Doing("replace") => work[h].number \in 1..Replacements
BY DEF TypeOK, Doing, Work, Publishers, Copiers

LEMMA EndShape ==
    ASSUME TypeOK, NEW h \in Handlers, End(h)
    PROVE  Becomes(h, None)
BY DEF TypeOK, End, Becomes

LEMMA StartShape ==
    ASSUME TypeOK, NEW h \in Handlers, NEW w \in Work, work' = [work EXCEPT ![h] = w]
    PROVE  Becomes(h, w) /\ w # None
BY CommunityAssumption DEF TypeOK, Becomes

\* A publication or a transfer is past one file more.
LEMMA CopiedOneShape ==
    ASSUME TypeOK, NEW h \in Doing("publish") \cup Doing("copy"), NEW f, CopiedOne(h, f)
    PROVE  /\ Becomes(h, work'[h]) /\ work'[h] # None
           /\ work'[h].pc = work[h].pc /\ work'[h].case = work[h].case
           /\ work'[h].todo = work[h].todo \ {f}
           /\ h \in Doing("publish") => work'[h].listed = work[h].listed
           /\ h \in Doing("copy") => work'[h].user = work[h].user
<1>1. h \in Handlers /\ work[h] # None /\ work[h].pc \in {"publish", "copy"}
    BY DEF Doing
<1>2. work \in [Handlers -> Work \cup {None}] /\ work[h] \in Work
    BY <1>1 DEF TypeOK
<1> DEFINE new == [work[h] EXCEPT !.todo = work[h].todo \ {f}]
<1>3. work' = [work EXCEPT ![h] = new]
    BY <1>2 DEF CopiedOne
<1>4. /\ new \in Work /\ new.pc = work[h].pc /\ new.case = work[h].case
      /\ new.todo = work[h].todo \ {f}
      /\ work[h].pc = "publish" => new.listed = work[h].listed
      /\ work[h].pc = "copy" => new.user = work[h].user
    <2>1. CASE work[h].pc = "publish"
        <3>1. work[h] \in [pc : {"publish"}, case : Cases, listed : SUBSET Files, todo : SUBSET Files]
            BY <1>2, <2>1 DEF Work
        <3>2. /\ new \in [pc : {"publish"}, case : Cases, listed : SUBSET Files, todo : SUBSET Files]
              /\ new.pc = work[h].pc /\ new.case = work[h].case
              /\ new.todo = work[h].todo \ {f} /\ new.listed = work[h].listed
            BY <3>1
        <3> QED
            BY <2>1, <3>2 DEF Work
    <2>2. CASE work[h].pc = "copy"
        <3>1. work[h] \in [pc : {"target", "copy"}, user : Users, case : Cases, todo : SUBSET Files]
            BY <1>2, <2>2 DEF Work
        <3>2. /\ new \in [pc : {"target", "copy"}, user : Users, case : Cases, todo : SUBSET Files]
              /\ new.pc = work[h].pc /\ new.case = work[h].case
              /\ new.todo = work[h].todo \ {f} /\ new.user = work[h].user
            BY <3>1
        <3> QED
            BY <2>2, <3>2 DEF Work
    <2> QED
        BY <1>1, <2>1, <2>2
<1> HIDE DEF new
<1>5. Becomes(h, new) /\ new # None
    BY <1>1, <1>3, <1>4, StartShape
<1> QED
    BY <1>4, <1>5 DEF Becomes, Doing

\* A transfer that has made its target copies into it.
LEMMA TargetShape ==
    ASSUME TypeOK, NEW h \in Doing("target"), work' = [work EXCEPT ![h].pc = "copy"]
    PROVE  /\ Becomes(h, work'[h]) /\ work'[h] # None
           /\ work'[h].pc = "copy" /\ work'[h].case = work[h].case
           /\ work'[h].user = work[h].user /\ work'[h].todo = work[h].todo
<1>1. h \in Handlers /\ work[h] # None /\ work[h].pc = "target"
    BY DEF Doing
<1>2. work \in [Handlers -> Work \cup {None}] /\ work[h] \in Work
    BY <1>1 DEF TypeOK
<1> DEFINE new == [work[h] EXCEPT !.pc = "copy"]
<1>3. work' = [work EXCEPT ![h] = new]
    BY <1>2
<1>4. new \in Work /\ new.pc = "copy" /\ new.case = work[h].case /\ new.user = work[h].user /\ new.todo = work[h].todo
    <2>1. work[h] \in [pc : {"target", "copy"}, user : Users, case : Cases, todo : SUBSET Files]
        BY <1>1, <1>2 DEF Work
    <2>2. /\ new \in [pc : {"target", "copy"}, user : Users, case : Cases, todo : SUBSET Files]
          /\ new.pc = "copy" /\ new.case = work[h].case
          /\ new.user = work[h].user /\ new.todo = work[h].todo
        BY <2>1
    <2> QED
        BY <2>2 DEF Work
<1> HIDE DEF new
<1>5. Becomes(h, new) /\ new # None
    BY <1>1, <1>3, <1>4, StartShape
<1> QED
    BY <1>4, <1>5 DEF Becomes

\* A step of one handler that was at pc neither before nor after it.
LEMMA OthersSame ==
    ASSUME NEW h \in Handlers, NEW w, Becomes(h, w), NEW pc,
           h \notin Doing(pc), w # None => w.pc # pc
    PROVE  Same(pc)
BY DEF Becomes, Same, Doing

-----------------------------------------------------------------------------
(* What a service keeps while another works.                               *)

LEMMA PublishKept ==
    ASSUME CommunityInv, TypeOK', UNCHANGED <<root, assets, unknown, dead>>,
           Same("publish"), Same("clear")
    PROVE  PublishInv' /\ RowsMatchPackages'
<1>1. PublishInv'
    <2>1. PublishInv
        BY DEF CommunityInv
    <2>2. /\ \A h \in Doing("publish")' : h \in Doing("publish") /\ work'[h] = work[h]
          /\ \A h \in Doing("clear")' : h \in Doing("clear") /\ work'[h] = work[h]
        BY DEF Same
    <2> QED
        BY <2>1, <2>2 DEF PublishInv, Publishers
<1>2. \A c \in Cases : Publishing(c)' <=> Publishing(c)
    BY DEF Same, Publishing, Publishers
<1> QED
    BY <1>1, <1>2 DEF CommunityInv, RowsMatchPackages, Public, PackageThere, Page, Download

\* What is public keeps its page, and its COMMIT the answer it had.
PublicKept ==
    /\ \A c \in Cases : Public(c) => assets'[c] = assets[c]
    /\ \A c \in Cases : c \in unknown => c \in unknown'

LEMMA CopyKept ==
    ASSUME CommunityInv, PublicKept, UNCHANGED <<space, cut>>,
           Same("target"), Same("copy"), Same("undo")
    PROVE  CopyInv' /\ CopiesWhole'
<1>1. /\ CopyInv /\ CopiesWhole
      /\ \A h \in Doing("target") \cup Copiers : work[h].case \in Cases
    BY WorkShape DEF CommunityInv, RowsMatchPackages, Doing, Copiers
<1>2. /\ Doing("target")' = Doing("target") /\ \A h \in Doing("target") : work'[h] = work[h]
      /\ Doing("copy")' = Doing("copy") /\ \A h \in Doing("copy") : work'[h] = work[h]
      /\ Doing("undo")' = Doing("undo") /\ \A h \in Doing("undo") : work'[h] = work[h]
    BY DEF Same
<1>3. Copiers' = Copiers /\ \A h \in Copiers : work'[h] = work[h]
    BY <1>2 DEF Copiers
<1>4. \A c \in Cases : c \in unknown' \/ ~Public(c) \/ (c \notin unknown /\ Public(c)' /\ Page(c)' = Page(c))
    BY DEF PublicKept, Public, Page
<1>5. \A h \in Copiers : h \in Doing("copy") /\ work[h].case \notin unknown => Public(work[h].case)
    BY <1>1 DEF CopyInv
<1>6. \A h \in Doing("target")' :
        work'[h].case \in unknown' \/ (assets'[work'[h].case] # None /\ work'[h].todo = assets'[work'[h].case])
    BY <1>1, <1>2 DEF CopyInv, PublicKept, Public, Page
<1>7. \A h \in Doing("copy")' :
        work'[h].case \in unknown' \/ (assets'[work'[h].case] # None /\ work'[h].todo \subseteq assets'[work'[h].case])
    BY <1>1, <1>2, <1>3 DEF CopyInv, PublicKept, Public, Page, Copiers
<1>8. ASSUME NEW h \in Copiers', <<work'[h].user, work'[h].case>> \notin cut'
      PROVE  /\ space'[<<work'[h].user, work'[h].case>>] # None
             /\ \A g \in Copiers' : work'[g].user = work'[h].user /\ work'[g].case = work'[h].case => g = h
             /\ h \in Doing("copy")' /\ work'[h].case \notin unknown' =>
                    space'[<<work'[h].user, work'[h].case>>] = assets'[work'[h].case] \ work'[h].todo
    <2>1. h \in Copiers /\ work'[h] = work[h] /\ work[h].case \in Cases
        BY <1>1, <1>3, <1>8
    <2>2. h \in Doing("copy") /\ work[h].case \notin unknown' =>
            work[h].case \notin unknown /\ assets'[work[h].case] = assets[work[h].case]
        BY <1>5, <2>1 DEF PublicKept
    <2> QED
        BY <1>1, <1>2, <1>3, <1>8, <2>1, <2>2 DEF CopyInv, Page
<1>9. CopyInv'
    BY <1>6, <1>7, <1>8 DEF CopyInv, Public, Page
<1>10. CopiesWhole'
    <2> SUFFICES ASSUME NEW u \in Users, NEW c \in Cases, space[<<u, c>>] # None
                 PROVE  Copying(u, c)' \/ <<u, c>> \in cut \/ c \in unknown' \/ space[<<u, c>>] = assets'[c]
        BY DEF CopiesWhole, Page
    <2>1. Copying(u, c) => Copying(u, c)'
        BY <1>3 DEF Copying
    <2>2. space[<<u, c>>] = Page(c) => assets'[c] = assets[c]
        BY DEF PublicKept, Page, Public
    <2> QED
        BY <1>1, <2>1, <2>2 DEF CopiesWhole, PublicKept, Page
<1> QED
    BY <1>9, <1>10

LEMMA CancelKept ==
    ASSUME CommunityInv, UNCHANGED bookingVars
    PROVE  CancelInv'
BY DEF CommunityInv, CancelInv, bookingVars

LEMMA ListKept ==
    ASSUME CommunityInv, UNCHANGED listVars, Same("replace")
    PROVE  ListInv'
BY DEF CommunityInv, ListInv, listVars, Same

\* The bounds only shrink.
LEMMA SpendShape ==
    ASSUME TypeOK, NEW kind \in {"copy", "fault", "edit", "replace"}, Spend(kind)
    PROVE  /\ budget' \in [{"copy", "fault", "edit", "replace"} -> Nat]
           /\ budget'["replace"] <= Replacements
           /\ budget[kind] > 0
<1>1. /\ budget \in [{"copy", "fault", "edit", "replace"} -> Nat] /\ budget["replace"] <= Replacements
      /\ budget[kind] > 0 /\ budget' = [budget EXCEPT ![kind] = budget[kind] - 1]
    BY DEF TypeOK, Spend
<1>2. \A k \in {"copy", "fault", "edit", "replace"} : budget'[k] \in Nat /\ budget'[k] <= budget[k]
    BY <1>1
<1>3. Replacements \in Nat
    BY CommunityAssumption
<1> QED
    BY <1>1, <1>2, <1>3

-----------------------------------------------------------------------------
(* Publications.                                                           *)

\* A case's directory and rows after a step of its publication.
OneCase(c, dir, rows) ==
    /\ root' = [root EXCEPT ![c] = dir]
    /\ assets' = [assets EXCEPT ![c] = rows]

\* What a publication under way has made of its case.
Filled(c, w, dir, rows) ==
    /\ w.case = c /\ dir # None
    /\ \/ /\ w.pc = "publish" /\ rows = None /\ c \notin unknown' \cup dead'
          /\ w.todo \subseteq w.listed
          /\ dir.package = w.listed \ w.todo
          /\ dir.archive # None => w.todo = {} /\ dir.archive = w.listed
       \/ w.pc = "clear" /\ (rows = None \/ c \in unknown')

\* What one that has ended leaves: a whole case, or nothing that could be taken
\* for one.
Settled(c, dir, rows) ==
    \/ rows # None /\ c \in unknown'
    \/ rows # None /\ dir # None /\ dir.package = rows /\ dir.archive = rows
    \/ rows = None /\ (dir = None \/ c \in dead')

\* A step of the only publication of a case keeps all there is of the others,
\* and of what is public.
LEMMA PublicationStep ==
    ASSUME CommunityInv, NEW h \in Handlers, NEW w, Becomes(h, w), NEW c \in Cases,
           work[h] = None \/ (h \in Publishers /\ work[h].case = c),
           \A g \in Publishers \ {h} : work[g].case # c,
           NEW dir, NEW rows, OneCase(c, dir, rows), assets[c] \in {None, rows},
           unknown' \in {unknown, unknown \cup {c}}, dead' \in {dead, dead \cup {c}},
           w # None => Filled(c, w, dir, rows),
           w = None => Settled(c, dir, rows),
           TypeOK', UNCHANGED <<copyVars, bookingVars, listVars>>
    PROVE  CommunityInv'
<1>1. TypeOK /\ w # None => w.pc \in {"publish", "clear"}
    BY DEF CommunityInv, RowsMatchPackages, Filled
<1>2. /\ root'[c] = dir /\ assets'[c] = rows
      /\ \A d \in Cases \ {c} : root'[d] = root[d] /\ assets'[d] = assets[d]
      /\ \A d \in Cases \ {c} : (d \in unknown' <=> d \in unknown) /\ (d \in dead' <=> d \in dead)
    BY DEF OneCase, TypeOK, CommunityInv, RowsMatchPackages
<1>3. Same("target") /\ Same("copy") /\ Same("undo") /\ Same("replace")
    <2>1. \A pc \in {"target", "copy", "undo", "replace"} : h \notin Doing(pc) /\ (w # None => w.pc # pc)
        BY <1>1 DEF Doing, Publishers, CommunityInv, RowsMatchPackages, Filled
    <2> QED
        BY <2>1, OthersSame
<1>4. PublicKept
    BY <1>2 DEF PublicKept, Public
<1>5. CopyInv' /\ CopiesWhole'
    BY <1>3, <1>4, CopyKept DEF copyVars
<1>6. CancelInv' /\ ListInv'
    BY <1>3, CancelKept, ListKept
<1>7. \A g \in Publishers \ {h} : work'[g] = work[g] /\ work[g].case \in Cases \ {c}
    BY WorkShape DEF Becomes, Publishers, Doing, CommunityInv, RowsMatchPackages
<1>8. /\ work'[h] = w
      /\ \A g \in Handlers \ {h} : /\ g \in Doing("publish")' <=> g \in Doing("publish")
                                   /\ g \in Doing("clear")' <=> g \in Doing("clear")
      /\ h \in Doing("publish")' <=> w # None /\ w.pc = "publish"
      /\ h \in Doing("clear")' <=> w # None /\ w.pc = "clear"
    BY DEF Becomes, Doing
<1>9. PublishInv'
    <2>1. PublishInv /\ Publishers \subseteq Handlers /\ Publishers' \subseteq Handlers
        BY DEF CommunityInv, Publishers, Doing
    <2>2. ASSUME NEW g \in Doing("publish")'
          PROVE  /\ root'[work'[g].case] # None /\ assets'[work'[g].case] = None
                 /\ work'[g].case \notin unknown' \cup dead'
                 /\ work'[g].todo \subseteq work'[g].listed
                 /\ root'[work'[g].case].package = work'[g].listed \ work'[g].todo
                 /\ root'[work'[g].case].archive # None =>
                        work'[g].todo = {} /\ root'[work'[g].case].archive = work'[g].listed
        <3>1. CASE g = h
            BY <1>2, <1>8, <2>2, <3>1 DEF Filled
        <3>2. CASE g # h
            <4>1. /\ g \in Doing("publish") /\ work'[g] = work[g] /\ work[g].case \in Cases \ {c}
                BY <1>7, <1>8, <2>1, <2>2, <3>2 DEF Publishers
            <4>2. /\ root'[work[g].case] = root[work[g].case] /\ assets'[work[g].case] = assets[work[g].case]
                  /\ work[g].case \in unknown' <=> work[g].case \in unknown
                  /\ work[g].case \in dead' <=> work[g].case \in dead
                BY <1>2, <4>1
            <4> QED
                BY <2>1, <4>1, <4>2 DEF PublishInv
        <3> QED
            BY <3>1, <3>2
    <2>3. ASSUME NEW g \in Doing("clear")'
          PROVE  /\ root'[work'[g].case] # None
                 /\ assets'[work'[g].case] = None \/ work'[g].case \in unknown'
        <3>1. CASE g = h
            BY <1>2, <1>8, <2>3, <3>1 DEF Filled
        <3>2. CASE g # h
            <4>1. g \in Doing("clear") /\ work'[g] = work[g] /\ work[g].case \in Cases \ {c}
                BY <1>7, <1>8, <2>1, <2>3, <3>2 DEF Publishers
            <4>2. /\ root'[work[g].case] = root[work[g].case] /\ assets'[work[g].case] = assets[work[g].case]
                  /\ work[g].case \in unknown' <=> work[g].case \in unknown
                BY <1>2, <4>1
            <4> QED
                BY <2>1, <4>1, <4>2 DEF PublishInv
        <3> QED
            BY <3>1, <3>2
    <2>4. ASSUME NEW g \in Publishers', NEW k \in Publishers', work'[g].case = work'[k].case
          PROVE  g = k
        <3>1. /\ g # h => g \in Publishers /\ work'[g] = work[g] /\ work[g].case # c
              /\ k # h => k \in Publishers /\ work'[k] = work[k] /\ work[k].case # c
            BY <1>7, <1>8, <2>1, <2>4 DEF Publishers
        <3>2. h \in Publishers' => work'[h].case = c
            BY <1>8 DEF Publishers, Filled
        <3> QED
            BY <2>1, <2>4, <3>1, <3>2 DEF PublishInv
    <2> QED
        BY <2>2, <2>3, <2>4 DEF PublishInv
<1>10. RowsMatchPackages'
    <2> SUFFICES ASSUME NEW d \in Cases
                 PROVE  (IF Public(d)
                         THEN \/ d \in unknown
                              \/ PackageThere(d) /\ root[d].package = Page(d) /\ Download(d) = Page(d)
                         ELSE PackageThere(d) => Publishing(d) \/ d \in dead)'
        BY DEF RowsMatchPackages
    <2>1. CASE d = c
        <3>1. w # None => Publishing(c)'
            BY <1>8 DEF Publishing, Publishers, Filled
        <3>2. CASE w # None
            <4>1. rows = None \/ c \in unknown'
                BY <3>2 DEF Filled
            <4> QED
                BY <1>2, <2>1, <3>1, <3>2, <4>1 DEF Public
        <3>3. CASE w = None
            <4>1. /\ root'[d] = dir /\ assets'[d] = rows
                  /\ \/ rows # None /\ d \in unknown'
                     \/ rows # None /\ dir # None /\ dir.package = rows /\ dir.archive = rows
                     \/ rows = None /\ (dir = None \/ d \in dead')
                BY <1>2, <2>1, <3>3 DEF Settled
            <4> QED
                BY <4>1 DEF Public, PackageThere, Page, Download
        <3> QED
            BY <3>2, <3>3
    <2>2. CASE d # c
        <3>1. Publishing(d) => Publishing(d)'
            <4> SUFFICES ASSUME NEW g \in Publishers, work[g].case = d
                         PROVE  g \in Publishers' /\ work'[g].case = d
                BY DEF Publishing
            <4>1. g \in Handlers \ {h}
                BY <2>2 DEF Publishers, Doing
            <4> QED
                BY <1>7, <1>8, <4>1 DEF Publishers
        <3>2. /\ root'[d] = root[d] /\ assets'[d] = assets[d]
              /\ (d \in unknown' <=> d \in unknown) /\ (d \in dead' <=> d \in dead)
            BY <1>2, <2>2
        <3> QED
            BY <3>1, <3>2 DEF CommunityInv, RowsMatchPackages, Public, PackageThere, Page, Download
    <2> QED
        BY <2>1, <2>2
<1> QED
    BY <1>5, <1>6, <1>9, <1>10 DEF CommunityInv

\* While it is published or cleared, a case belongs to one handler.
LEMMA Publisher ==
    ASSUME CommunityInv, NEW h \in Publishers
    PROVE  LET c == work[h].case IN
           /\ TypeOK /\ h \in Handlers /\ work[h] # None /\ work[h].pc \in {"publish", "clear"}
           /\ c \in Cases /\ root[c] # None /\ root[c] \in Root
           /\ \A g \in Publishers : work[g].case = c => g = h
           /\ work[h].pc = "clear" => assets[c] = None \/ c \in unknown
           /\ work[h].pc = "publish" =>
                /\ assets[c] = None /\ c \notin unknown \cup dead
                /\ work[h].listed \in SUBSET Files /\ work[h].todo \in SUBSET Files
                /\ work[h].todo \subseteq work[h].listed
                /\ root[c].package = work[h].listed \ work[h].todo
                /\ root[c].archive # None => work[h].todo = {} /\ root[c].archive = work[h].listed
<1>1. TypeOK /\ h \in Handlers /\ work[h] # None /\ work[h].pc \in {"publish", "clear"}
    BY DEF CommunityInv, RowsMatchPackages, Publishers, Doing
<1>2. /\ work[h].pc = "publish" <=> h \in Doing("publish")
      /\ work[h].pc = "clear" <=> h \in Doing("clear")
    BY <1>1 DEF Doing
<1>3. /\ work[h].case \in Cases
      /\ work[h].pc = "publish" => work[h].listed \in SUBSET Files /\ work[h].todo \in SUBSET Files
    BY <1>1, <1>2, WorkShape
<1> QED
    BY <1>1, <1>2, <1>3 DEF CommunityInv, PublishInv, TypeOK

LEMMA PublishKeeps ==
    ASSUME CommunityInv, NEW h \in Handlers, Publish(h)
    PROVE  CommunityInv'
<1>1. TypeOK /\ root \in [Cases -> Root \cup {None}] /\ assets \in [Cases -> (SUBSET Files) \cup {None}]
    BY DEF CommunityInv, RowsMatchPackages, TypeOK
<1>2. ASSUME NEW c \in Cases, StartPublish(h, c)
      PROVE  CommunityInv'
    <2> DEFINE w == [pc |-> "publish", case |-> c, listed |-> Publishable, todo |-> Publishable]
               dir == [package |-> {}, archive |-> None]
    <2>1. w \in Work /\ w.pc = "publish" /\ w.case = c /\ w.listed = Publishable /\ w.todo = Publishable
        BY DEF Publishable, Work
    <2>2. dir \in Root /\ dir # None /\ dir.package = {} /\ dir.archive = None
        BY CommunityAssumption DEF Root
    <2>3. /\ work[h] = None /\ root[c] = None /\ assets[c] = None /\ c \notin unknown \cup dead
          /\ root' = [root EXCEPT ![c] = dir] /\ work' = [work EXCEPT ![h] = w]
          /\ UNCHANGED <<output, assets, unknown, dead, copyVars, bookingVars, listVars, budget>>
        BY <1>2 DEF StartPublish
    <2> HIDE DEF w, dir
    <2>4. Becomes(h, w) /\ w # None
        BY <1>1, <2>1, <2>3, StartShape
    <2>5. OneCase(c, dir, None)
        BY <1>1, <2>3 DEF OneCase
    <2>6. \A g \in Publishers : work[g].case # c
        BY <2>3, Publisher
    <2>7. Filled(c, w, dir, None)
        BY <2>1, <2>2, <2>3 DEF Filled
    <2>8. TypeOK'
        BY <1>1, <2>2, <2>3, <2>4 DEF TypeOK, Becomes, copyVars, bookingVars, listVars
    <2> QED
        BY <2>3, <2>4, <2>5, <2>6, <2>7, <2>8, PublicationStep
<1> SUFFICES ASSUME h \in Publishers
             PROVE  CommunityInv'
    BY <1>2 DEF Publish, PackageFile, Archive, InsertCase, PublishFails, CommitUnanswered,
                ClearSome, ClearAll, ClearStops, Publishers
<1> DEFINE c == work[h].case
<1>3. /\ c \in Cases /\ work[h] # None /\ work[h].pc \in {"publish", "clear"}
      /\ root[c] # None /\ root[c] \in Root
      /\ \A g \in Publishers \ {h} : work[g].case # c
      /\ work[h].pc = "clear" => assets[c] = None \/ c \in unknown
      /\ work[h].pc = "publish" =>
            /\ assets[c] = None /\ c \notin unknown \cup dead
            /\ work[h].listed \in SUBSET Files /\ work[h].todo \in SUBSET Files
            /\ work[h].todo \subseteq work[h].listed
            /\ root[c].package = work[h].listed \ work[h].todo
            /\ root[c].archive # None => work[h].todo = {} /\ root[c].archive = work[h].listed
    BY Publisher
<1>4. /\ h \in Doing("publish") <=> work[h].pc = "publish"
      /\ h \in Doing("clear") <=> work[h].pc = "clear"
    BY <1>3 DEF Doing
<1>5. ASSUME NEW f \in Files, PackageFile(h, f)
      PROVE  CommunityInv'
    <2>1. h \in Doing("publish") /\ CopiedOne(h, f)
        BY <1>5 DEF PackageFile
    <2>2. /\ Becomes(h, work'[h]) /\ work'[h] # None /\ work'[h].pc = "publish" /\ work'[h].case = c
          /\ work'[h].todo = work[h].todo \ {f} /\ work'[h].listed = work[h].listed
        BY <1>1, <1>4, <2>1, CopiedOneShape
    <2> DEFINE dir == [root[c] EXCEPT !.package = root[c].package \cup {f}]
    <2>3. /\ dir \in Root /\ dir # None
          /\ dir.package = root[c].package \cup {f} /\ dir.archive = root[c].archive
        BY <1>3, CommunityAssumption DEF Root
    <2>4. /\ f \in work[h].todo /\ root' = [root EXCEPT ![c] = dir]
          /\ UNCHANGED <<output, assets, unknown, dead, copyVars, bookingVars, listVars, budget>>
        BY <1>1, <1>3, <1>5 DEF PackageFile, IsFirst
    <2> HIDE DEF dir
    <2>5. OneCase(c, dir, None)
        BY <1>1, <1>3, <1>4, <2>1, <2>4 DEF OneCase
    <2>6. Filled(c, work'[h], dir, None)
        BY <1>3, <1>4, <2>1, <2>2, <2>3, <2>4 DEF Filled
    <2>7. TypeOK'
        BY <1>1, <2>2, <2>3, <2>4 DEF TypeOK, Becomes, copyVars, bookingVars, listVars
    <2> QED
        BY <1>3, <1>4, <2>1, <2>2, <2>4, <2>5, <2>6, <2>7, PublicationStep
<1>6. CASE Archive(h)
    <2> DEFINE dir == [root[c] EXCEPT !.archive = root[c].package]
    <2>1. /\ dir \in Root /\ dir # None /\ dir.package = root[c].package /\ dir.archive = root[c].package
        BY <1>3, CommunityAssumption DEF Root
    <2>2. /\ h \in Doing("publish") /\ work[h].todo = {}
          /\ root' = [root EXCEPT ![c] = dir] /\ work' = work
          /\ UNCHANGED <<output, assets, unknown, dead, copyVars, bookingVars, listVars, budget>>
        BY <1>1, <1>3, <1>6 DEF Archive
    <2> HIDE DEF dir
    <2>3. OneCase(c, dir, None)
        BY <1>1, <1>3, <1>4, <2>2 DEF OneCase
    <2>4. Becomes(h, work[h])
        BY <1>1, <2>2 DEF Becomes, TypeOK
    <2>5. Filled(c, work[h], dir, None)
        BY <1>3, <1>4, <2>1, <2>2 DEF Filled
    <2>6. TypeOK'
        BY <1>1, <2>1, <2>2 DEF TypeOK, copyVars, bookingVars, listVars
    <2> QED
        BY <1>3, <1>4, <2>2, <2>3, <2>4, <2>5, <2>6, PublicationStep
<1>7. CASE InsertCase(h)
    <2>1. /\ h \in Doing("publish")
          /\ root[c].archive # None /\ assets' = [assets EXCEPT ![c] = work[h].listed]
          /\ End(h) /\ UNCHANGED <<output, root, unknown, dead, copyVars, bookingVars, listVars, budget>>
        BY <1>7 DEF InsertCase, ReadyToInsert, WithRows
    <2>2. OneCase(c, root[c], work[h].listed)
        BY <1>1, <1>3, <2>1 DEF OneCase
    <2>3. work[h].listed # None /\ Settled(c, root[c], work[h].listed)
        BY <1>3, <1>4, <2>1, CommunityAssumption DEF Settled
    <2>4. Becomes(h, None)
        BY <1>1, <2>1, EndShape
    <2>5. TypeOK'
        BY <1>1, <1>3, <1>4, <2>1, <2>4 DEF TypeOK, Becomes, copyVars, bookingVars, listVars
    <2> QED
        BY <1>3, <1>4, <2>1, <2>2, <2>3, <2>4, <2>5, PublicationStep
<1> DEFINE w == [pc |-> "clear", case |-> c]
<1>8. w \in Work /\ w.pc = "clear" /\ w.case = c
    BY <1>3 DEF Work
<1> HIDE DEF w
<1>9. Clears(h) => Becomes(h, w) /\ w # None
    BY <1>1, <1>8, StartShape DEF Clears, w
<1>10. CASE PublishFails(h)
    <2>1. /\ h \in Doing("publish") /\ Clears(h)
          /\ UNCHANGED budget \/ Spend("fault")
          /\ UNCHANGED <<output, root, assets, unknown, dead, copyVars, bookingVars, listVars>>
        BY <1>10 DEF PublishFails, caseVars
    <2>2. OneCase(c, root[c], None)
        BY <1>1, <1>3, <1>4, <2>1 DEF OneCase
    <2>3. Filled(c, w, root[c], None)
        BY <1>3, <1>8 DEF Filled
    <2>4. TypeOK'
        BY <1>1, <1>9, <2>1, SpendShape DEF TypeOK, Becomes, copyVars, bookingVars, listVars
    <2> QED
        BY <1>3, <1>4, <1>9, <2>1, <2>2, <2>3, <2>4, PublicationStep
<1>11. CASE CommitUnanswered(h)
    <2>1. /\ h \in Doing("publish") /\ Clears(h) /\ Spend("fault")
          /\ assets' = [assets EXCEPT ![c] = work[h].listed] /\ unknown' = unknown \cup {c}
          /\ UNCHANGED <<output, root, dead, copyVars, bookingVars, listVars>>
        BY <1>11 DEF CommitUnanswered, WithRows
    <2>2. OneCase(c, root[c], work[h].listed)
        BY <1>1, <1>3, <2>1 DEF OneCase
    <2>3. Filled(c, w, root[c], work[h].listed)
        BY <1>3, <1>8, <2>1 DEF Filled
    <2>4. TypeOK'
        BY <1>1, <1>3, <1>4, <1>9, <2>1, SpendShape DEF TypeOK, Becomes, copyVars, bookingVars, listVars
    <2> QED
        BY <1>3, <1>4, <1>9, <2>1, <2>2, <2>3, <2>4, PublicationStep
<1>12. CASE ClearSome(h)
    <2>1. PICK dir \in Remains(root[c]) : root' = [root EXCEPT ![c] = dir]
        BY <1>12 DEF ClearSome
    <2>2. /\ h \in Doing("clear") /\ work' = work
          /\ UNCHANGED <<output, assets, unknown, dead, copyVars, bookingVars, listVars, budget>>
        BY <1>12 DEF ClearSome
    <2>3. dir \in Root /\ dir # None
        <3>1. root[c].package \in SUBSET Files /\ root[c].archive \in (SUBSET Files) \cup {None}
            BY <1>3 DEF Root
        <3>2. PICK S \in SUBSET root[c].package, a \in {root[c].archive, None} :
                dir = [package |-> S, archive |-> a]
            BY DEF Remains
        <3> QED
            BY <3>1, <3>2, CommunityAssumption DEF Root
    <2>4. OneCase(c, dir, assets[c])
        BY <1>1, <1>3, <2>1, <2>2 DEF OneCase
    <2>5. Becomes(h, work[h])
        BY <1>1, <2>2 DEF Becomes, TypeOK
    <2>6. Filled(c, work[h], dir, assets[c])
        BY <1>3, <1>4, <2>2, <2>3 DEF Filled
    <2>7. TypeOK'
        BY <1>1, <2>1, <2>2, <2>3 DEF TypeOK, copyVars, bookingVars, listVars
    <2> QED
        BY <1>3, <2>2, <2>4, <2>5, <2>6, <2>7, PublicationStep
<1>13. CASE ClearAll(h)
    <2>1. /\ h \in Doing("clear") /\ End(h) /\ root' = [root EXCEPT ![c] = None]
          /\ UNCHANGED <<output, assets, unknown, dead, copyVars, bookingVars, listVars, budget>>
        BY <1>13 DEF ClearAll
    <2>2. OneCase(c, None, assets[c])
        BY <1>1, <1>3, <2>1 DEF OneCase
    <2>3. Becomes(h, None)
        BY <1>1, <2>1, EndShape
    <2>4. Settled(c, None, assets[c])
        BY <1>3, <1>4, <2>1 DEF Settled
    <2>5. TypeOK'
        BY <1>1, <2>1, <2>3 DEF TypeOK, Becomes, copyVars, bookingVars, listVars
    <2> QED
        BY <1>3, <2>1, <2>2, <2>3, <2>4, <2>5, PublicationStep
<1>14. CASE ClearStops(h)
    <2>1. /\ h \in Doing("clear") /\ End(h) /\ Spend("fault") /\ dead' = dead \cup {c}
          /\ UNCHANGED <<output, root, assets, unknown, copyVars, bookingVars, listVars>>
        BY <1>14 DEF ClearStops
    <2>2. OneCase(c, root[c], assets[c])
        BY <1>1, <1>3, <2>1 DEF OneCase
    <2>3. Becomes(h, None)
        BY <1>1, <2>1, EndShape
    <2>4. Settled(c, root[c], assets[c])
        BY <1>3, <1>4, <2>1 DEF Settled
    <2>5. TypeOK'
        BY <1>1, <1>3, <2>1, <2>3, SpendShape DEF TypeOK, Becomes, copyVars, bookingVars, listVars
    <2> QED
        BY <1>3, <2>1, <2>2, <2>3, <2>4, <2>5, PublicationStep
<1> QED
    BY <1>2, <1>5, <1>6, <1>7, <1>10, <1>11, <1>12, <1>13, <1>14 DEF Publish

-----------------------------------------------------------------------------
(* Transfers.                                                              *)

\* What a transfer leaves to the other services.
LEMMA TransferFrame ==
    ASSUME CommunityInv, NEW h \in Handlers, work[h] = None \/ h \in Doing("target") \cup Copiers,
           NEW w, Becomes(h, w), w # None => w.pc \in {"target", "copy", "undo"},
           TypeOK', CopyInv', CopiesWhole', UNCHANGED <<caseVars, bookingVars, listVars>>
    PROVE  CommunityInv'
<1>1. Same("publish") /\ Same("clear") /\ Same("replace")
    BY OthersSame DEF Doing, Copiers
<1>2. UNCHANGED <<root, assets, unknown, dead>>
    BY DEF caseVars
<1> QED
    BY <1>1, <1>2, PublishKept, CancelKept, ListKept DEF CommunityInv

\* A transfer's case is public, unless its COMMIT was not answered, and what is
\* to be copied is on its page.
Listed(c, w) ==
    \/ c \in unknown
    \/ /\ Public(c)
       /\ w.pc = "target" => w.todo = Page(c)
       /\ w.pc = "copy" => w.todo \subseteq Page(c)

\* While nothing breaks into it, no other transfer is at work on its target.
LEMMA Transferrer ==
    ASSUME CommunityInv, NEW h \in Doing("target") \cup Copiers
    PROVE  LET u == work[h].user  c == work[h].case IN
           /\ TypeOK /\ h \in Handlers /\ work[h] # None /\ work[h].pc \in {"target", "copy", "undo"}
           /\ h \in Doing("target") <=> work[h].pc = "target"
           /\ h \in Doing("copy") <=> work[h].pc = "copy"
           /\ h \in Doing("undo") <=> work[h].pc = "undo"
           /\ u \in Users /\ c \in Cases /\ <<u, c>> \in Users \X Cases
           /\ work[h].pc # "undo" => Listed(c, work[h]) /\ work[h].todo \in SUBSET Files
           /\ h \in Copiers /\ <<u, c>> \notin cut =>
                /\ space[<<u, c>>] # None
                /\ \A g \in Copiers \ {h} : ~(work[g].user = u /\ work[g].case = c)
                /\ work[h].pc = "copy" /\ c \notin unknown => space[<<u, c>>] = Page(c) \ work[h].todo
<1>1. TypeOK /\ h \in Handlers /\ work[h] # None /\ work[h].pc \in {"target", "copy", "undo"}
    BY DEF CommunityInv, RowsMatchPackages, Doing, Copiers
<1>2. /\ h \in Doing("target") <=> work[h].pc = "target"
      /\ h \in Doing("copy") <=> work[h].pc = "copy"
      /\ h \in Doing("undo") <=> work[h].pc = "undo"
    BY <1>1 DEF Doing
<1>3. /\ work[h].user \in Users /\ work[h].case \in Cases
      /\ work[h].pc # "undo" => work[h].todo \in SUBSET Files
    BY <1>1, <1>2, WorkShape
<1>4. work[h].pc # "undo" => Listed(work[h].case, work[h])
    BY <1>1, <1>2 DEF CommunityInv, CopyInv, Listed
<1> QED
    BY <1>1, <1>2, <1>3, <1>4 DEF CommunityInv, CopyInv

\* A transfer that has not come to its target, or is the only one there: the
\* target holds what the transfer is past, unless somebody broke into it.
Waits(h, w) == UNCHANGED <<space, cut>> /\ h \notin Copiers /\ (w # None => w.pc = "target")

CopiesInto(h, w, u, c, files) ==
    /\ w # None => w.pc \in {"copy", "undo"}
    /\ <<u, c>> \notin cut' =>
        /\ \A g \in Copiers \ {h} : ~(work[g].user = u /\ work[g].case = c)
        /\ w # None => files # None
        /\ w # None /\ w.pc = "copy" /\ c \notin unknown => files = Page(c) \ w.todo
        /\ w = None => c \in unknown \/ files \in {None, Page(c)}

\* A transfer that starts, goes on or ends changes one copy at most.  The copy
\* is what the transfer is past, unless somebody broke into it.
LEMMA TransferMoves ==
    ASSUME CommunityInv, NEW h \in Handlers, work[h] = None \/ h \in Doing("target") \cup Copiers,
           NEW w, Becomes(h, w),
           NEW u \in Users, NEW c \in Cases,
           w # None => /\ w.pc \in {"target", "copy", "undo"} /\ w.user = u /\ w.case = c
                       /\ w.pc # "undo" => Listed(c, w),
           h \in Copiers => work[h].user = u /\ work[h].case = c,
           NEW files, space' = [space EXCEPT ![<<u, c>>] = files],
           cut' \in {cut, cut \cup {<<u, c>>}, cut \ {<<u, c>>}},
           Waits(h, w) \/ CopiesInto(h, w, u, c, files),
           TypeOK', UNCHANGED <<caseVars, bookingVars, listVars>>
    PROVE  CommunityInv'
<1>1. /\ TypeOK /\ CopyInv /\ CopiesWhole /\ <<u, c>> \in Users \X Cases
    BY DEF CommunityInv, RowsMatchPackages
<1>2. \A v \in Users, d \in Cases : <<v, d>> = <<u, c>> <=> v = u /\ d = c
    OBVIOUS
<1>3. /\ space'[<<u, c>>] = files
      /\ \A v \in Users, d \in Cases : ~(v = u /\ d = c) =>
            space'[<<v, d>>] = space[<<v, d>>] /\ (<<v, d>> \in cut' <=> <<v, d>> \in cut)
      /\ UNCHANGED <<assets, unknown>>
    BY <1>1, <1>2 DEF TypeOK, caseVars
<1>4. /\ work'[h] = w
      /\ h \in Doing("target")' <=> w # None /\ w.pc = "target"
      /\ h \in Doing("copy")' <=> w # None /\ w.pc = "copy"
      /\ h \in Copiers' <=> w # None /\ w.pc \in {"copy", "undo"}
      /\ \A g \in Handlers \ {h} : /\ g \in Doing("target")' <=> g \in Doing("target")
                                   /\ g \in Doing("copy")' <=> g \in Doing("copy")
                                   /\ g \in Copiers' <=> g \in Copiers
      /\ \A g \in Handlers \ {h} : work'[g] = work[g]
    BY DEF Becomes, Doing, Copiers
<1>5. \A g \in Copiers : g \in Handlers /\ work[g].user \in Users /\ work[g].case \in Cases
    BY Transferrer
<1>6. Copiers' \subseteq Handlers /\ Doing("target")' \subseteq Handlers /\ Doing("copy")' \subseteq Copiers'
    BY DEF Copiers, Doing
<1>7. ASSUME NEW g \in Copiers', <<work'[g].user, work'[g].case>> \notin cut'
      PROVE  /\ space'[<<work'[g].user, work'[g].case>>] # None
             /\ \A k \in Copiers' : work'[k].user = work'[g].user /\ work'[k].case = work'[g].case => k = g
             /\ g \in Doing("copy")' /\ work'[g].case \notin unknown =>
                    space'[<<work'[g].user, work'[g].case>>] = assets[work'[g].case] \ work'[g].todo
    <2>1. CASE g = h
        <3>1. CopiesInto(h, w, u, c, files) /\ w # None /\ w.user = u /\ w.case = c
            BY <1>4, <1>7, <2>1 DEF Waits
        <3> QED
            BY <1>3, <1>4, <1>6, <1>7, <2>1, <3>1 DEF CopiesInto, Page
    <2>2. CASE g # h
        <3>1. /\ g \in Copiers /\ work'[g] = work[g] /\ work[g].user \in Users /\ work[g].case \in Cases
              /\ g \in Doing("copy")' <=> g \in Doing("copy")
            BY <1>4, <1>5, <1>6, <1>7, <2>2
        <3>2. CASE Waits(h, w)
            <4>1. /\ space[<<work[g].user, work[g].case>>] # None
                  /\ \A k \in Copiers : work[k].user = work[g].user /\ work[k].case = work[g].case => k = g
                  /\ g \in Doing("copy") /\ work[g].case \notin unknown =>
                        space[<<work[g].user, work[g].case>>] = Page(work[g].case) \ work[g].todo
                BY <1>1, <1>7, <3>1, <3>2 DEF CopyInv, Waits
            <4> QED
                BY <1>4, <1>6, <3>1, <3>2, <4>1 DEF Waits, Page
        <3>3. CASE CopiesInto(h, w, u, c, files)
            <4>1. ~(work[g].user = u /\ work[g].case = c)
                BY <1>7, <2>2, <3>1, <3>3 DEF CopiesInto
            <4>2. <<work[g].user, work[g].case>> \notin cut
                BY <1>3, <1>7, <3>1, <4>1
            <4>3. /\ space[<<work[g].user, work[g].case>>] # None
                  /\ \A k \in Copiers : work[k].user = work[g].user /\ work[k].case = work[g].case => k = g
                  /\ g \in Doing("copy") /\ work[g].case \notin unknown =>
                        space[<<work[g].user, work[g].case>>] = Page(work[g].case) \ work[g].todo
                BY <1>1, <3>1, <4>2 DEF CopyInv
            <4>4. h \in Copiers' => work'[h].user = u /\ work'[h].case = c
                BY <1>4
            <4> QED
                BY <1>3, <1>4, <1>6, <3>1, <4>1, <4>3, <4>4 DEF Page
        <3> QED
            BY <3>2, <3>3
    <2> QED
        BY <2>1, <2>2
<1>8. CopyInv'
    <2>1. ASSUME NEW g \in Doing("target")'
          PROVE  work'[g].case \in unknown \/ (assets[work'[g].case] # None /\ work'[g].todo = assets[work'[g].case])
        BY <1>1, <1>4, <1>6, <2>1 DEF CopyInv, Listed, Public, Page
    <2>2. ASSUME NEW g \in Doing("copy")'
          PROVE  work'[g].case \in unknown \/ (assets[work'[g].case] # None /\ work'[g].todo \subseteq assets[work'[g].case])
        BY <1>1, <1>4, <1>6, <2>2 DEF CopyInv, Listed, Public, Page
    <2> QED
        BY <1>3, <1>7, <2>1, <2>2 DEF CopyInv, Public, Page
<1>9. CopiesWhole'
    <2> SUFFICES ASSUME NEW v \in Users, NEW d \in Cases, space'[<<v, d>>] # None
                 PROVE  Copying(v, d)' \/ <<v, d>> \in cut' \/ d \in unknown \/ space'[<<v, d>>] = assets[d]
        BY <1>3 DEF CopiesWhole, Page
    <2>1. CASE v = u /\ d = c /\ CopiesInto(h, w, u, c, files)
        <3>1. CASE w = None
            BY <1>3, <2>1, <3>1 DEF CopiesInto, Page
        <3>2. CASE w # None
            <4>1. h \in Copiers' /\ work'[h].user = u /\ work'[h].case = c
                BY <1>4, <2>1, <3>2 DEF CopiesInto
            <4> QED
                BY <2>1, <4>1 DEF Copying
        <3> QED
            BY <3>1, <3>2
    <2>2. CASE ~(v = u /\ d = c) \/ Waits(h, w)
        <3>1. space'[<<v, d>>] = space[<<v, d>>] /\ (<<v, d>> \in cut' <=> <<v, d>> \in cut)
            BY <1>3, <2>2 DEF Waits
        <3>2. Copying(v, d) => Copying(v, d)'
            <4> SUFFICES ASSUME NEW g \in Copiers, work[g].user = v, work[g].case = d
                         PROVE  g \in Copiers' /\ work'[g] = work[g]
                BY DEF Copying
            <4>1. g # h
                BY <2>2 DEF Waits
            <4> QED
                BY <1>4, <1>5, <4>1
        <3> QED
            BY <1>1, <3>1, <3>2 DEF CopiesWhole, Page
    <2> QED
        BY <2>1, <2>2
<1> QED
    BY <1>8, <1>9, TransferFrame

LEMMA TransferKeeps ==
    ASSUME CommunityInv, NEW h \in Handlers, Transfer(h)
    PROVE  CommunityInv'
<1>1. /\ TypeOK /\ space \in [Users \X Cases -> (SUBSET Files) \cup {None}] /\ cut \subseteq Users \X Cases
    BY DEF CommunityInv, RowsMatchPackages, TypeOK
<1>2. ASSUME NEW u \in Users, NEW c \in Cases, StartTransfer(h, u, c)
      PROVE  CommunityInv'
    <2> DEFINE w == [pc |-> "target", user |-> u, case |-> c, todo |-> root[c].package]
    <2>1. /\ work[h] = None /\ Public(c) /\ PackageThere(c) /\ Spend("copy")
          /\ work' = [work EXCEPT ![h] = w]
          /\ UNCHANGED <<caseVars, copyVars, bookingVars, listVars>>
        BY <1>2 DEF StartTransfer
    <2>2. root[c].package \in SUBSET Files
        BY <1>1, <2>1 DEF TypeOK, PackageThere, Root
    <2>3. w \in Work /\ w.pc = "target" /\ w.user = u /\ w.case = c /\ w.todo = root[c].package
        BY <2>2 DEF Work
    <2> HIDE DEF w
    <2>4. Becomes(h, w) /\ w # None
        BY <1>1, <2>1, <2>3, StartShape
    <2>5. TypeOK'
        BY <1>1, <2>1, <2>4, SpendShape
        DEF TypeOK, Becomes, caseVars, copyVars, bookingVars, listVars
    <2>6. space' = [space EXCEPT ![<<u, c>>] = space[<<u, c>>]] /\ UNCHANGED <<space, cut>>
        BY <1>1, <2>1 DEF copyVars
    <2>7. h \notin Copiers /\ Waits(h, w)
        BY <2>1, <2>3, <2>6 DEF Doing, Copiers, Waits
    <2>8. Listed(c, w)
        BY <2>1, <2>3 DEF CommunityInv, RowsMatchPackages, Listed
    <2> QED
        BY <2>1, <2>3, <2>4, <2>5, <2>6, <2>7, <2>8, TransferMoves
<1> SUFFICES ASSUME h \in Doing("target") \cup Copiers
             PROVE  CommunityInv'
    BY <1>2 DEF Transfer, MakeTarget, TransferFile, TransferEnds, TransferFails, UndoTransfer, UndoStops,
                Copiers
<1> DEFINE u == work[h].user  c == work[h].case
<1>3. /\ work[h] # None /\ work[h].pc \in {"target", "copy", "undo"}
      /\ h \in Doing("target") <=> work[h].pc = "target"
      /\ h \in Doing("copy") <=> work[h].pc = "copy"
      /\ h \in Doing("undo") <=> work[h].pc = "undo"
      /\ u \in Users /\ c \in Cases /\ <<u, c>> \in Users \X Cases
      /\ work[h].pc # "undo" => Listed(c, work[h]) /\ work[h].todo \in SUBSET Files
      /\ h \in Copiers /\ <<u, c>> \notin cut =>
            /\ space[<<u, c>>] # None
            /\ \A g \in Copiers \ {h} : ~(work[g].user = u /\ work[g].case = c)
            /\ work[h].pc = "copy" /\ c \notin unknown => space[<<u, c>>] = Page(c) \ work[h].todo
    BY Transferrer
<1>4. h \in Copiers <=> work[h].pc \in {"copy", "undo"}
    BY <1>3 DEF Copiers
<1>5. None \notin SUBSET Files
    BY CommunityAssumption
<1>6. Page(c) \in (SUBSET Files) \cup {None}
    BY <1>1, <1>3 DEF TypeOK, Page
<1>7. space' = space => space' = [space EXCEPT ![<<u, c>>] = space[<<u, c>>]]
    BY <1>1, <1>3
<1>8. ASSUME MakeTarget(h), TargetFree(u, c)
      PROVE  CommunityInv'
    <2>1. /\ h \in Doing("target")
          /\ work' = [work EXCEPT ![h].pc = "copy"]
          /\ space' = [space EXCEPT ![<<u, c>>] = {}]
          /\ cut' = IF Copying(u, c) THEN cut ELSE cut \ {<<u, c>>}
          /\ UNCHANGED <<caseVars, bookingVars, listVars, budget>>
        BY <1>1, <1>3, <1>8 DEF MakeTarget, TargetFree
    <2>2. /\ Becomes(h, work'[h]) /\ work'[h] # None /\ work'[h].pc = "copy"
          /\ work'[h].case = c /\ work'[h].user = u /\ work'[h].todo = work[h].todo
        BY <1>1, <2>1, TargetShape
    <2>3. cut' \in {cut, cut \ {<<u, c>>}}
        BY <2>1
    <2>4. TypeOK'
        BY <1>1, <1>3, <2>1, <2>2, <2>3 DEF TypeOK, Becomes, caseVars, bookingVars, listVars
    <2>5. h \notin Copiers
        BY <1>3, <1>4, <2>1
    \* A target that is not there, and that nobody broke into, has nobody at work on it.
    <2>6. <<u, c>> \notin cut' => \A g \in Copiers : ~(work[g].user = u /\ work[g].case = c)
        <3>1. space[<<u, c>>] = None
            BY <1>8 DEF TargetFree
        <3>2. Copying(u, c) => <<u, c>> \in cut
            BY <3>1, Transferrer DEF Copying
        <3> QED
            BY <2>1, <3>2 DEF Copying
    <2>7. c \notin unknown => Page(c) \ work'[h].todo = {}
        BY <1>3, <2>1, <2>2 DEF Listed
    <2>8. CopiesInto(h, work'[h], u, c, {})
        BY <1>5, <2>2, <2>6, <2>7 DEF CopiesInto
    <2>9. Listed(c, work'[h])
        BY <1>3, <2>1, <2>2 DEF Listed
    <2> QED
        BY <1>3, <2>1, <2>2, <2>3, <2>4, <2>5, <2>8, <2>9, TransferMoves
<1>9. ASSUME MakeTarget(h), ~TargetFree(u, c)
      PROVE  CommunityInv'
    <2>1. /\ h \in Doing("target") /\ End(h)
          /\ UNCHANGED <<space, cut, caseVars, bookingVars, listVars, budget>>
        BY <1>9 DEF MakeTarget, copyVars
    <2>2. Becomes(h, None)
        BY <1>1, <2>1, EndShape DEF Doing
    <2>3. TypeOK'
        BY <1>1, <2>1, <2>2 DEF TypeOK, Becomes, caseVars, bookingVars, listVars
    <2>4. h \notin Copiers /\ Waits(h, None)
        BY <1>3, <1>4, <2>1 DEF Waits
    <2> QED
        BY <1>3, <1>7, <2>1, <2>2, <2>3, <2>4, TransferMoves
<1>10. ASSUME NEW f \in Files, TransferFile(h, f)
      PROVE  CommunityInv'
    <2> DEFINE files == IF space[<<u, c>>] = None THEN {f} ELSE space[<<u, c>>] \cup {f}
    <2>1. /\ h \in Doing("copy") /\ f \in work[h].todo /\ CopiedOne(h, f)
          /\ space' = [space EXCEPT ![<<u, c>>] = files]
          /\ UNCHANGED <<caseVars, cut, bookingVars, listVars, budget>>
        BY <1>1, <1>3, <1>10 DEF TransferFile, IsFirst
    <2>2. /\ Becomes(h, work'[h]) /\ work'[h] # None /\ work'[h].pc = "copy"
          /\ work'[h].case = c /\ work'[h].user = u /\ work'[h].todo = work[h].todo \ {f}
        BY <1>1, <1>3, <2>1, CopiedOneShape
    <2>3. files \in SUBSET Files
        BY <1>1, <1>3
    <2>4. <<u, c>> \notin cut /\ c \notin unknown => files = Page(c) \ work'[h].todo
        BY <1>3, <1>4, <1>5, <2>1, <2>2 DEF Listed
    <2> HIDE DEF files
    <2>5. CopiesInto(h, work'[h], u, c, files)
        BY <1>3, <1>4, <1>5, <2>1, <2>2, <2>3, <2>4 DEF CopiesInto
    <2>6. TypeOK'
        BY <1>1, <1>3, <2>1, <2>2, <2>3 DEF TypeOK, Becomes, caseVars, bookingVars, listVars
    <2>7. Listed(c, work'[h])
        BY <1>3, <2>1, <2>2 DEF Listed
    <2> QED
        BY <1>3, <2>1, <2>2, <2>5, <2>6, <2>7, TransferMoves
<1>11. CASE TransferEnds(h)
    <2>1. /\ h \in Doing("copy") /\ work[h].todo = {} /\ End(h)
          /\ UNCHANGED <<space, cut, caseVars, bookingVars, listVars, budget>>
        BY <1>11 DEF TransferEnds, copyVars
    <2>2. Becomes(h, None)
        BY <1>1, <2>1, EndShape DEF Doing
    <2>3. TypeOK'
        BY <1>1, <2>1, <2>2 DEF TypeOK, Becomes, caseVars, bookingVars, listVars
    <2>4. CopiesInto(h, None, u, c, space[<<u, c>>])
        BY <1>3, <1>4, <1>6, <2>1 DEF CopiesInto, Listed, Public, Page
    <2> QED
        BY <1>3, <1>7, <2>1, <2>2, <2>3, <2>4, TransferMoves
<1>12. CASE TransferFails(h)
    <2> DEFINE w == [pc |-> "undo", user |-> u, case |-> c]
    <2>1. /\ h \in Doing("copy") /\ (UNCHANGED budget \/ Spend("fault"))
          /\ work' = [work EXCEPT ![h] = w]
          /\ UNCHANGED <<space, cut, caseVars, bookingVars, listVars>>
        BY <1>12 DEF TransferFails, copyVars
    <2>2. w \in Work /\ w.pc = "undo" /\ w.user = u /\ w.case = c
        BY <1>3 DEF Work
    <2> HIDE DEF w
    <2>3. Becomes(h, w) /\ w # None
        BY <1>1, <2>1, <2>2, StartShape DEF Doing
    <2>4. TypeOK'
        BY <1>1, <2>1, <2>3, SpendShape DEF TypeOK, Becomes, caseVars, bookingVars, listVars
    <2>5. CopiesInto(h, w, u, c, space[<<u, c>>])
        BY <1>3, <1>4, <2>1, <2>2, <2>3 DEF CopiesInto
    <2> QED
        BY <1>3, <1>7, <2>1, <2>2, <2>3, <2>4, <2>5, TransferMoves
<1>13. CASE UndoTransfer(h)
    <2>1. /\ h \in Doing("undo") /\ End(h)
          /\ space' = [space EXCEPT ![<<u, c>>] = None]
          /\ UNCHANGED <<cut, caseVars, bookingVars, listVars, budget>>
        BY <1>13 DEF UndoTransfer
    <2>2. Becomes(h, None)
        BY <1>1, <2>1, EndShape DEF Doing
    <2>3. TypeOK'
        BY <1>1, <1>3, <2>1, <2>2 DEF TypeOK, Becomes, caseVars, bookingVars, listVars
    <2>4. CopiesInto(h, None, u, c, None)
        BY <1>3, <1>4, <2>1 DEF CopiesInto
    <2> QED
        BY <1>3, <2>1, <2>2, <2>3, <2>4, TransferMoves
<1>14. CASE UndoStops(h)
    <2>1. /\ h \in Doing("undo") /\ End(h) /\ Spend("fault") /\ space[<<u, c>>] # None
          /\ cut' = cut \cup {<<u, c>>}
          /\ UNCHANGED <<caseVars, bookingVars, listVars>>
        BY <1>14 DEF UndoStops
    <2>2. PICK left \in SUBSET space[<<u, c>>] : space' = [space EXCEPT ![<<u, c>>] = left]
        BY <1>14 DEF UndoStops
    <2>3. left \in SUBSET Files
        BY <1>1, <1>3, <2>1, <2>2
    <2>4. Becomes(h, None)
        BY <1>1, <2>1, EndShape DEF Doing
    <2>5. TypeOK'
        BY <1>1, <1>3, <2>1, <2>2, <2>3, <2>4, SpendShape DEF TypeOK, Becomes, caseVars, bookingVars, listVars
    <2>6. CopiesInto(h, None, u, c, left)
        BY <2>1 DEF CopiesInto
    <2> QED
        BY <1>3, <2>1, <2>2, <2>4, <2>5, <2>6, TransferMoves
<1> QED
    BY <1>2, <1>8, <1>9, <1>10, <1>11, <1>12, <1>13, <1>14 DEF Transfer

-----------------------------------------------------------------------------
(* Bookings, attachments, and the users' edits.                            *)

\* A cancellation that finds its booking active is the first.
LEMMA BookKeeps ==
    ASSUME CommunityInv, NEW h \in Handlers, Book(h)
    PROVE  CommunityInv'
<1>1. TypeOK /\ CancelInv
    BY DEF CommunityInv, RowsMatchPackages
<1>2. /\ UNCHANGED <<caseVars, copyVars, listVars, budget>>
      /\ work[h] = None \/ h \in Doing("cancel")
    BY DEF Book, StartCancel, Cancel
<1>3. \E w : Becomes(h, w) /\ (w # None => w.pc = "cancel")
    <2>1. ASSUME NEW b \in Bookings, StartCancel(h, b)
          PROVE  \E w : Becomes(h, w) /\ (w # None => w.pc = "cancel")
        <3> DEFINE w == [pc |-> "cancel", booking |-> b]
        <3>1. w \in Work /\ w.pc = "cancel" /\ work' = [work EXCEPT ![h] = w]
            BY <2>1 DEF StartCancel, Work
        <3> HIDE DEF w
        <3> QED
            BY <1>1, <3>1, StartShape
    <2>2. CASE Cancel(h)
        BY <1>1, <2>2, EndShape DEF Cancel
    <2> QED
        BY <2>1, <2>2 DEF Book
<1>4. /\ Same("publish") /\ Same("clear") /\ Same("replace")
      /\ Same("target") /\ Same("copy") /\ Same("undo")
    BY <1>2, <1>3, OthersSame DEF Doing
<1>5. /\ booking' \in [Bookings -> {"absent", "active", "cancelled"}]
      /\ cancels' \in [Bookings -> Nat] /\ CancelInv'
    <2>1. CASE UNCHANGED bookingVars
        BY <1>1, <2>1 DEF bookingVars, TypeOK, CancelInv
    <2>2. ASSUME NEW b \in Bookings, booking[b] = "active",
                 booking' = [booking EXCEPT ![b] = "cancelled"],
                 cancels' = [cancels EXCEPT ![b] = @ + 1]
          PROVE  /\ booking' \in [Bookings -> {"absent", "active", "cancelled"}]
                 /\ cancels' \in [Bookings -> Nat] /\ CancelInv'
        <3>1. cancels[b] = 0
            BY <1>1, <2>2 DEF CancelInv
        <3> QED
            BY <1>1, <2>2, <3>1 DEF CancelInv, TypeOK
    <2>3. Cancel(h) => work[h].booking \in Bookings
        BY <1>1, WorkShape DEF Cancel
    <2> QED
        BY <2>1, <2>2, <2>3 DEF Book, StartCancel, Cancel, StillActive
<1>6. TypeOK'
    BY <1>1, <1>2, <1>3, <1>5 DEF TypeOK, Becomes, caseVars, copyVars, listVars
<1>7. PublishInv' /\ RowsMatchPackages'
    BY <1>2, <1>4, <1>6, PublishKept DEF caseVars
<1>8. PublicKept
    BY <1>2 DEF PublicKept, caseVars
<1>9. CopyInv' /\ CopiesWhole'
    BY <1>2, <1>4, <1>8, CopyKept DEF copyVars
<1>10. ListInv'
    BY <1>2, <1>4, ListKept
<1> QED
    BY <1>5, <1>7, <1>9, <1>10 DEF CommunityInv

\* A replacement finds what the others under way have found; the one that gets
\* through was alone, and leaves its own rows.
LEMMA ReplaceKeeps ==
    ASSUME CommunityInv, NEW h \in Handlers, Replace(h)
    PROVE  CommunityInv'
<1>1. TypeOK /\ ListInv
    BY DEF CommunityInv, RowsMatchPackages
<1>2. /\ UNCHANGED <<caseVars, copyVars, bookingVars>>
      /\ work[h] = None \/ h \in Doing("replace")
    BY DEF Replace, Deactivate, InsertAttachments
<1>3. CASE Deactivate(h)
    <2> DEFINE w == [pc |-> "replace", found |-> listing, number |-> budget["replace"]]
    <2>1. /\ work[h] = None /\ ~UpdateWaits /\ Spend("replace") /\ work' = [work EXCEPT ![h] = w]
          /\ locked' = locked \cup {h} /\ listing' = listing
        BY <1>3 DEF Deactivate
    <2>2. budget["replace"] \in 1..Replacements
        BY <1>1, <2>1, SpendShape, CommunityAssumption DEF TypeOK
    <2>3. w \in Work /\ w.pc = "replace" /\ w.found = listing
        BY <1>1, <2>2 DEF Work, TypeOK
    <2> HIDE DEF w
    <2>4. Becomes(h, w) /\ w # None
        BY <1>1, <2>1, <2>3, StartShape
    <2>5. Doing("replace")' = Doing("replace") \cup {h}
        BY <2>3, <2>4 DEF Becomes, Doing
    <2>6. ListInv'
        <3>1. \A g \in locked : g \in Handlers /\ g # h /\ work'[g] = work[g]
            BY <1>1, <2>1, <2>4 DEF ListInv, Doing, Becomes
        <3> QED
            BY <1>1, <2>1, <2>3, <2>4, <2>5, <3>1 DEF ListInv, Becomes
    <2>7. TypeOK'
        BY <1>1, <1>2, <2>1, <2>4, SpendShape DEF TypeOK, Becomes, caseVars, copyVars, bookingVars
    <2>8. /\ Same("publish") /\ Same("clear")
          /\ Same("target") /\ Same("copy") /\ Same("undo")
        BY <1>2, <2>3, <2>4, OthersSame DEF Doing
    <2>9. PublishInv' /\ RowsMatchPackages'
        BY <1>2, <2>7, <2>8, PublishKept DEF caseVars
    <2>10. PublicKept
        BY <1>2 DEF PublicKept, caseVars
    <2>11. CopyInv' /\ CopiesWhole'
        BY <1>2, <2>8, <2>10, CopyKept DEF copyVars
    <2>12. CancelInv'
        BY <1>2, CancelKept
    <2> QED
        BY <2>6, <2>9, <2>11, <2>12 DEF CommunityInv
<1>4. CASE InsertAttachments(h)
    <2>1. /\ h \in Doing("replace") /\ End(h) /\ locked' = locked \ {h} /\ UNCHANGED budget
          /\ \/ locked # {h} /\ listing' = listing
             \/ locked = {h} /\ listing' = (listing \ work[h].found) \cup {work[h].number}
        BY <1>4 DEF InsertAttachments, Blocked
    <2>2. Becomes(h, None) /\ work[h].number \in 1..Replacements
        BY <1>1, <2>1, EndShape, WorkShape
    <2>3. Doing("replace")' = Doing("replace") \ {h}
        BY <2>2 DEF Becomes, Doing
    <2>4. ListInv'
        <3>1. CASE listing' = listing
            <4>1. \A g \in locked \ {h} : work'[g] = work[g]
                BY <1>1, <2>2 DEF ListInv, Doing, Becomes
            <4> QED
                BY <1>1, <2>1, <2>3, <3>1, <4>1 DEF ListInv
        <3>2. CASE locked = {h} /\ listing' = (listing \ work[h].found) \cup {work[h].number}
            <4>1. listing' = {work[h].number} /\ locked' = {}
                BY <1>1, <2>1, <3>2 DEF ListInv
            <4> QED
                BY <1>1, <2>1, <2>3, <3>2, <4>1 DEF ListInv
        <3> QED
            BY <2>1, <3>1, <3>2
    <2>5. TypeOK'
        BY <1>1, <1>2, <2>1, <2>2 DEF TypeOK, Becomes, caseVars, copyVars, bookingVars
    <2>6. /\ Same("publish") /\ Same("clear")
          /\ Same("target") /\ Same("copy") /\ Same("undo")
        BY <1>2, <2>1, <2>2, OthersSame DEF Doing
    <2>7. PublishInv' /\ RowsMatchPackages'
        BY <1>2, <2>5, <2>6, PublishKept DEF caseVars
    <2>8. PublicKept
        BY <1>2 DEF PublicKept, caseVars
    <2>9. CopyInv' /\ CopiesWhole'
        BY <1>2, <2>6, <2>8, CopyKept DEF copyVars
    <2>10. CancelInv'
        BY <1>2, CancelKept
    <2> QED
        BY <2>4, <2>7, <2>9, <2>10 DEF CommunityInv
<1> QED
    BY <1>3, <1>4 DEF Replace

\* What a user changes of one copy is on record, unless it leaves nothing and
\* meets no transfer.
ChangesCopy(u, c, left) ==
    /\ Spend("edit")
    /\ left \in (SUBSET Files) \cup {None}
    /\ space' = [space EXCEPT ![<<u, c>>] = left]
    /\ cut' = IF left = None /\ ~Copying(u, c) THEN cut ELSE cut \cup {<<u, c>>}
    /\ UNCHANGED <<caseVars, bookingVars, listVars, work>>

LEMMA CopyChanges ==
    ASSUME TypeOK, NEW u \in Users, NEW c \in Cases, DeleteCopy(u, c) \/ MakeDirectory(u, c)
    PROVE  \E left : ChangesCopy(u, c, left)
<1>1. space[<<u, c>>] \in (SUBSET Files) \cup {None} /\ None # {}
    BY CommunityAssumption DEF TypeOK
<1>2. CASE DeleteCopy(u, c)
    <2>1. PICK left \in {None} \cup SUBSET space[<<u, c>>] :
            /\ space' = [space EXCEPT ![<<u, c>>] = left]
            /\ cut' = IF left = None /\ ~Copying(u, c) THEN cut ELSE cut \cup {<<u, c>>}
        BY <1>2 DEF DeleteCopy
    <2>2. left \in (SUBSET Files) \cup {None}
        BY <1>1, <1>2, <2>1 DEF DeleteCopy
    <2> QED
        BY <1>2, <2>1, <2>2 DEF DeleteCopy, ChangesCopy
<1>3. CASE MakeDirectory(u, c)
    <2>1. ChangesCopy(u, c, {})
        BY <1>1, <1>3 DEF MakeDirectory, ChangesCopy
    <2> QED
        BY <2>1
<1> QED
    BY <1>2, <1>3

LEMMA ChangesKeep ==
    ASSUME CommunityInv, NEW u \in Users, NEW c \in Cases, NEW left, ChangesCopy(u, c, left)
    PROVE  CommunityInv'
<1>1. /\ TypeOK /\ CopyInv /\ CopiesWhole /\ <<u, c>> \in Users \X Cases
    BY DEF CommunityInv, RowsMatchPackages
<1>2. /\ left \in (SUBSET Files) \cup {None} /\ Spend("edit")
      /\ space' = [space EXCEPT ![<<u, c>>] = left]
      /\ cut' = IF left = None /\ ~Copying(u, c) THEN cut ELSE cut \cup {<<u, c>>}
      /\ UNCHANGED <<caseVars, bookingVars, listVars, work>>
    BY DEF ChangesCopy
<1>3. TypeOK'
    BY <1>1, <1>2, SpendShape DEF TypeOK, caseVars, bookingVars, listVars
<1>4. /\ Same("publish") /\ Same("clear") /\ Same("replace")
      /\ Doing("target")' = Doing("target") /\ Doing("copy")' = Doing("copy") /\ Copiers' = Copiers
    BY <1>2 DEF Same, Doing, Copiers
<1>5. PublishInv' /\ RowsMatchPackages'
    BY <1>2, <1>3, <1>4, PublishKept DEF caseVars
<1>6. /\ space'[<<u, c>>] = left /\ UNCHANGED <<work, assets, unknown>>
      /\ \A v \in Users, d \in Cases : ~(v = u /\ d = c) =>
            /\ space'[<<v, d>>] = space[<<v, d>>]
            /\ <<v, d>> \in cut' <=> <<v, d>> \in cut
      /\ <<u, c>> \in cut' \/ (left = None /\ ~Copying(u, c))
    BY <1>1, <1>2 DEF TypeOK, caseVars
<1>7. CopyInv'
    <2>1. \A g \in Copiers : work[g].user \in Users /\ work[g].case \in Cases
        BY Transferrer
    <2>2. ASSUME NEW h \in Copiers, <<work[h].user, work[h].case>> \notin cut'
          PROVE  /\ space'[<<work[h].user, work[h].case>>] # None
                 /\ \A g \in Copiers :
                        work[g].user = work[h].user /\ work[g].case = work[h].case => g = h
                 /\ h \in Doing("copy") /\ work[h].case \notin unknown =>
                        space'[<<work[h].user, work[h].case>>] = assets[work[h].case] \ work[h].todo
        <3>1. ~(work[h].user = u /\ work[h].case = c)
            BY <1>6, <2>2 DEF Copying
        <3> QED
            BY <1>1, <1>6, <2>1, <2>2, <3>1 DEF CopyInv, Page
    <2> QED
        BY <1>1, <1>4, <1>6, <2>2 DEF CopyInv, Public, Page
<1>8. CopiesWhole'
    <2>1. \A v \in Users, d \in Cases : Copying(v, d)' <=> Copying(v, d)
        BY <1>4, <1>6 DEF Copying
    <2> QED
        BY <1>1, <1>6, <2>1 DEF CopiesWhole, Page
<1>9. CancelInv' /\ ListInv'
    BY <1>2, <1>4, CancelKept, ListKept
<1> QED
    BY <1>5, <1>7, <1>8, <1>9 DEF CommunityInv

LEMMA EditKeeps ==
    ASSUME CommunityInv, Edit
    PROVE  CommunityInv'
<1>1. TypeOK /\ CancelInv
    BY DEF CommunityInv, RowsMatchPackages
<1>2. ASSUME \/ \E f \in Files : DeleteOutput(f)
             \/ \E b \in Bookings : CreateBooking(b)
      PROVE  CommunityInv'
    <2>1. /\ UNCHANGED <<root, assets, unknown, dead, copyVars, listVars, work>>
          /\ TypeOK' /\ CancelInv'
        <3>1. CASE \E f \in Files : DeleteOutput(f)
            BY <1>1, <3>1, SpendShape DEF DeleteOutput, TypeOK, CancelInv, copyVars, bookingVars, listVars
        <3>2. CASE \E b \in Bookings : CreateBooking(b)
            BY <1>1, <3>2 DEF CreateBooking, TypeOK, CancelInv, caseVars, copyVars, listVars
        <3> QED
            BY <1>2, <3>1, <3>2
    <2>2. /\ Same("publish") /\ Same("clear") /\ Same("replace")
          /\ Same("target") /\ Same("copy") /\ Same("undo")
        BY <2>1 DEF Same, Doing
    <2>3. PublicKept
        BY <2>1 DEF PublicKept
    <2>4. PublishInv' /\ RowsMatchPackages'
        BY <2>1, <2>2, PublishKept
    <2>5. CopyInv' /\ CopiesWhole'
        BY <2>1, <2>2, <2>3, CopyKept DEF copyVars
    <2>6. ListInv'
        BY <2>1, <2>2, ListKept
    <2> QED
        BY <2>1, <2>4, <2>5, <2>6 DEF CommunityInv
<1> QED
    BY <1>1, <1>2, CopyChanges, ChangesKeep DEF Edit

\* What was under way is dead or cut; the tables are as the last transactions
\* left them.
LEMMA StopKeeps ==
    ASSUME CommunityInv, PortalStops
    PROVE  CommunityInv'
<1>1. TypeOK /\ RowsMatchPackages /\ CopyInv /\ CopiesWhole /\ ListInv
    BY DEF CommunityInv, RowsMatchPackages
<1>2. /\ Spend("fault") /\ work' = [h \in Handlers |-> None] /\ locked' = {}
      /\ dead' = dead \cup {work[h].case : h \in Publishers}
      /\ cut' = cut \cup {<<work[h].user, work[h].case>> : h \in Copiers}
      /\ UNCHANGED <<output, root, assets, unknown, space, bookingVars, listing>>
    BY DEF PortalStops
<1>3. /\ Doing("publish")' = {} /\ Doing("clear")' = {} /\ Publishers' = {} /\ Doing("replace")' = {}
      /\ Doing("target")' = {} /\ Doing("copy")' = {} /\ Copiers' = {}
    BY <1>2 DEF Doing, Publishers, Copiers
<1>4. TypeOK'
    <2>1. {work[h].case : h \in Publishers} \subseteq Cases
        BY Publisher
    <2>2. {<<work[h].user, work[h].case>> : h \in Copiers} \subseteq Users \X Cases
        BY Transferrer
    <2> QED
        BY <1>1, <1>2, <2>1, <2>2, SpendShape DEF TypeOK, bookingVars
<1>5. RowsMatchPackages'
    BY <1>1, <1>2, <1>4 DEF RowsMatchPackages, Public, PackageThere, Page, Download, Publishing
<1>6. CopiesWhole'
    BY <1>1, <1>2 DEF CopiesWhole, Copying, Page
<1>7. PublishInv' /\ ListInv'
    BY <1>1, <1>2, <1>3 DEF PublishInv, ListInv
<1>8. CopyInv'
    BY <1>3 DEF CopyInv
<1>9. CancelInv'
    BY <1>2, CancelKept
<1> QED
    BY <1>5, <1>6, <1>7, <1>8, <1>9 DEF CommunityInv

-----------------------------------------------------------------------------
LEMMA CommunityStep ==
    ASSUME CommunityInv, [Next]_vars
    PROVE  CommunityInv'
<1>1. CASE Next
    BY <1>1, PublishKeeps, TransferKeeps, BookKeeps, ReplaceKeeps, EditKeeps, StopKeeps DEF Next
<1>2. CASE UNCHANGED vars
    <2>1. /\ UNCHANGED <<output, root, assets, unknown, dead, space, cut, booking, cancels>>
          /\ UNCHANGED <<listing, locked, work, budget>>
        BY <1>2 DEF vars, caseVars, copyVars, bookingVars, listVars
    <2>2. TypeOK'
        BY <2>1 DEF CommunityInv, RowsMatchPackages, TypeOK
    <2>3. /\ Same("publish") /\ Same("clear") /\ Same("replace")
          /\ Same("target") /\ Same("copy") /\ Same("undo")
        BY <2>1 DEF Same, Doing
    <2>4. PublicKept
        BY <2>1 DEF PublicKept
    <2> QED
        BY <2>1, <2>2, <2>3, <2>4, PublishKept, CopyKept, CancelKept, ListKept
        DEF CommunityInv, bookingVars, listVars
<1> QED
    BY <1>1, <1>2

LEMMA CommunityInvHolds == Spec => []CommunityInv
BY InitCommunityInv, CommunityStep, PTL DEF Spec

(* Whatever fails, stops or is deleted meanwhile: a public case can be     *)
(* downloaded and taken over with every asset its page shows, unless its   *)
(* COMMIT was answered with an error; a directory without rows is being    *)
(* filled or cleared, or was when the portal stopped, or its removal left  *)
(* files.                                                                  *)
THEOREM CasesAreWholeOrAbsent == Spec => []RowsMatchPackages
BY CommunityInvHolds, PTL DEF CommunityInv

(* A copy no transfer is at work on has every asset of the case's page,    *)
(* unless a stop, an undoing that left files or its user broke into it     *)
(* since it was made, or the case's COMMIT was answered with an error.     *)
THEOREM CopiesAreWhole == Spec => []CopiesWhole
BY CommunityInvHolds, PTL DEF CommunityInv

\* Of the requests that found a booking active, one cancels it.
THEOREM BookingsEndOnce == Spec => []CancelledOnce
<1>1. CommunityInv => CancelledOnce
    BY DEF CommunityInv, CancelInv, CancelledOnce
<1> QED
    BY <1>1, CommunityInvHolds, PTL

\* Replacements that overlap never leave the attachments of both.
THEOREM OneReplacementShows == Spec => []OneListing
<1>1. CommunityInv => OneListing
    <2> SUFFICES ASSUME CommunityInv
                 PROVE  Cardinality(listing) <= 1
        BY DEF OneListing, Attachments
    <2>1. \A i, j \in listing : i = j
        BY DEF CommunityInv, ListInv
    <2>2. CASE listing = {}
        BY <2>2, FS_EmptySet
    <2>3. CASE listing # {}
        <3>1. PICK i \in listing : listing = {i}
            BY <2>1, <2>3
        <3>2. Cardinality(listing) = 1
            BY <3>1, FS_Singleton, Zenon
        <3> QED
            BY <3>2
    <2> QED
        BY <2>2, <2>3
<1> QED
    BY <1>1, CommunityInvHolds, PTL
=============================================================================
