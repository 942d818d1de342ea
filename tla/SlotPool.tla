------------------------------- MODULE SlotPool -------------------------------
(***************************************************************************)
(* What a resource pool promises (database/init.sql: max_concurrent is the *)
(* pool's concurrency cap): launches hold slots, a slot is granted only    *)
(* while fewer than cap are held, and slots come back at any time.         *)
(***************************************************************************)
EXTENDS Integers, FiniteSets

CONSTANT Holders    \* the launches that may ever hold a slot

VARIABLES
    held,   \* the launches that hold a slot
    cap     \* the concurrency cap

Init == held = {} /\ cap \in Nat

\* Some slots may come back in the step that grants one.
Grant(h) ==
    \E kept \in SUBSET held :
        /\ h \in Holders \ kept
        /\ Cardinality(kept) < cap
        /\ held' = kept \cup {h}
        /\ cap' = cap

Release == held' \in SUBSET held /\ cap' = cap

Raise == cap' \in Nat /\ cap' > cap /\ held' = held

Next == (\E h \in Holders : Grant(h)) \/ Release \/ Raise

Spec == Init /\ [][Next]_<<held, cap>>
=============================================================================
