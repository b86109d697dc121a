-------------------------- MODULE MCControlIntents --------------------------
(* A small instance of ControlIntents for TLC. *)
EXTENDS ControlIntents, TLC

\* Processes differ in nothing but their name.
ProcSymmetry == Permutations(Procs)
=============================================================================
