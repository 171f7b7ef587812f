------------------------------- MODULE Kernel -------------------------------
(***************************************************************************)
(* What the modules of memory, devices and programs share: the threads,    *)
(* NULL, and addresses and pages (threads/vaddr.h, lib/round.h), of any    *)
(* size.                                                                   *)
(***************************************************************************)
EXTENDS Integers

CONSTANTS
  Thread,
  NULL,
  PGSIZE   \* bytes in a page

ASSUME KernelAssumption == NULL \notin Thread /\ PGSIZE \in Nat \ {0}

DIV_ROUND_UP(x, step) == (x + step - 1) \div step
ROUND_UP(x, step) == DIV_ROUND_UP(x, step) * step

pg_ofs(va) == va % PGSIZE
pg_no(va) == va \div PGSIZE
pg_round_down(va) == pg_no(va) * PGSIZE

(* cnt things in a row, from the first. *)
Group(first, cnt) == first .. first + cnt - 1
=============================================================================
