----------------------------- MODULE MCProcess -----------------------------
(***************************************************************************)
(* Process for TLC: the processes other than main are interchangeable.     *)
(***************************************************************************)
EXTENDS Process, TLC

Symmetry == Permutations(Proc \ {Main})
============================================================================
