---------------------------- MODULE MCEnrolment ----------------------------
(* Small instances of Enrolment.                                           *)
EXTENDS Enrolment, TLC

Symmetry ==
    Permutations(Machines) \cup Permutations(Codes) \cup Permutations(Tokens)
    \cup Permutations(Handlers)
=============================================================================
