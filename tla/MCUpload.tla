------------------------------ MODULE MCUpload ------------------------------
(* Small instances of Upload.                                              *)
EXTENDS Upload, TLC

CONSTANT LongSize   \* the size of the uploads that meet

Symmetry == Permutations(Ids) \cup Permutations(Paths) \cup Permutations(Handlers)

\* A handler at work on upload i of LongSize units to path p, if at all.
About(row, i, p) ==
    \/ row = None
    \/ row.op = "remove" /\ row.id = i
    \/ row.op = "init" /\ row.path = p /\ row.size = LongSize
    \/ row.op = "chunk" /\ row.id = i /\ row.path = p /\ row.size = LongSize

\* Of the quota nothing is said once uploads have met.  From then on those to
\* one path by one id are looked at.
Apart(i, p) ==
    /\ \A j \in Ids \ {i} : meta[j] = None /\ tmp[j] = None /\ j \notin raced
    /\ \A q \in Paths \ {p} : file[q] = None
    /\ meta[i] # None => meta[i].path = p /\ meta[i].size = LongSize
    /\ \A h \in Slots : About(handler[h], i, p)
    /\ \A c \in Readers : count[c] = None

OneOnceMet == shared => \E i \in Ids, p \in Paths : Apart(i, p)
=============================================================================
