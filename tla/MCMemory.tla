------------------------------ MODULE MCMemory ------------------------------
(***************************************************************************)
(* Memory for TLC: the page allocator, the block allocator above it and    *)
(* the address spaces of processes.  The last two see the first only as    *)
(* PagePool, which it implements, so the three are explored side by side.  *)
(* Threads, and processes, are interchangeable.                            *)
(***************************************************************************)
EXTENDS PageAlloc, Malloc, AddressSpace, TLC

VARIABLE part   \* the allocator explored

Symmetry == Permutations(Thread) \cup Permutations(Proc)

Init == part \in {"pages", "blocks", "spaces"} /\ PallocInit /\ MallocInit /\ SpaceInit

Next ==
  /\ \/ part = "pages" /\ PallocNext /\ UNCHANGED <<m_vars, a_vars>>
     \/ part = "blocks" /\ MallocNext /\ UNCHANGED <<pa_vars, a_vars>>
     \/ part = "spaces" /\ SpaceNext /\ UNCHANGED <<pa_vars, m_vars>>
  /\ UNCHANGED part

Spec == Init /\ [][Next]_<<part, pa_vars, m_vars, a_vars>>
=============================================================================
