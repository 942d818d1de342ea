----------------------------- MODULE MCCommunity -----------------------------
(* Small instances of Community.                                           *)
EXTENDS Community, TLC

Symmetry == Permutations(Handlers) \cup Permutations(Cases)

NoCases ==
    /\ budget["copy"] = Copies /\ budget["edit"] = Edits
    /\ \A c \in Cases : root[c] = None /\ assets[c] = None

NoRegisters ==
    /\ budget["replace"] = Replacements
    /\ \A b \in Bookings : booking[b] = "absent"

\* Cases and registers share neither a table nor a file: those at work on one
\* side are looked at without the other.
OneSide == NoCases \/ NoRegisters
=============================================================================
