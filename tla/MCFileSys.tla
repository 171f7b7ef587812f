----------------------------- MODULE MCFileSys -----------------------------
(* Small instances of FileSys. *)
EXTENDS FileSys, TLC

(* Processes are interchangeable, and so are names. *)
Symmetry == Permutations(Process) \cup Permutations(Name)

(* A behaviour is followed until two operations overlap. *)
NoOverlap == ~raced
============================================================================
