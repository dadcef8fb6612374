----------------------------- MODULE MCDelegation -----------------------------
(* The instances of Delegation that TLC checks. *)
EXTENDS Delegation, TLC

\* Calls and task ids are interchangeable.
MCSymmetry == Permutations(Calls) \cup Permutations(Tasks)
=============================================================================
