---------------------------- MODULE AddressSpace ----------------------------
(***************************************************************************)
(* Page directories (userprog/pagedir.c) and the processes that build, use *)
(* and destroy them: load, load_segment, setup_stack, install_page,        *)
(* process_activate and process_exit (userprog/process.c).                 *)
(*                                                                         *)
(* One processor runs one process; the timer switches to another between   *)
(* any two steps.  A page is taken and given back in one step              *)
(* (ImplementsPagePool in PageAlloc).  Files are as long as load needs or  *)
(* not; which segments a program has is up to the program.                 *)
(***************************************************************************)
EXTENDS Integers, FiniteSets

CONSTANTS
  Proc,
  TableSize,   \* entries in a page table (1024)
  UserDirs,    \* page directory entries below PHYS_BASE (768)
  KernelPool,  \* pages in the kernel pool
  UserPool    \* pages in the user pool

ASSUME AddressSpaceAssumption ==
  /\ TableSize \in Nat \ {0}
  /\ UserDirs \in 1..TableSize
  /\ KernelPool \in Nat
  /\ UserPool \in Nat

init_page_dir == 0                                   \* the kernel's own
KPage == 1..KernelPool
UPage == KernelPool + 1 .. KernelPool + UserPool
Vpage == 1 .. UserDirs * TableSize - 1               \* page 0 is not mapped
StackPage == UserDirs * TableSize - 1                \* below PHYS_BASE
NONE == 0                                            \* an entry not present
Junk == -1                                           \* what free pages hold

pd_no(u) == u \div TableSize
pt_no(u) == u % TableSize

VARIABLES
  run,      \* the process that runs
  cr3,      \* the active page directory
  tlb,      \* translations the processor remembers
  pagedir,  \* t->pagedir, NONE for NULL
  entries,  \* what the tables in the kernel's pages hold
  kfree,    \* free pages of the kernel pool
  ufree,    \* free pages of the user pool
  apc,      \* where a process is
  areq      \* the page directory and page it works on

a_pools == <<kfree, ufree>>
a_vars == <<run, cr3, tlb, pagedir, entries, a_pools, apc, areq>>

NoAreq == [pd |-> NONE, u |-> 0, last |-> 0, kpage |-> NONE, i |-> 0, j |-> 0]
First(pages) == CHOOSE p \in pages : \A q \in pages : p <= q
AAt(p, l) == run = p /\ apc[p] = l
AGoto(p, l) == apc' = [apc EXCEPT ![p] = l]
ASet(p, r) == areq' = [areq EXCEPT ![p] = r]
Table(v) == [i \in 0..TableSize - 1 |-> v]

(* lookup_page without create, and pagedir_get_page. *)
lookup_page(pd, u) ==
  LET pt == entries[pd][pd_no(u)] IN IF pt = NONE THEN NONE ELSE entries[pt][pt_no(u)]
-----------------------------------------------------------------------------
(* pagedir_activate *)
Activate(pd) == cr3' = (IF pd = NONE THEN init_page_dir ELSE pd) /\ tlb' = {}

(* Mutant: a switch does not activate the process's page directory. *)
SwitchOnly(p) ==
  /\ run # p
  /\ run' = p
  /\ UNCHANGED <<cr3, tlb, pagedir, entries, a_pools, apc, areq>>

(* A switch of threads: process_activate. *)
Switch(p) ==
  /\ run # p
  /\ run' = p
  /\ Activate(pagedir[p])
  /\ UNCHANGED <<pagedir, entries, a_pools, apc, areq>>

(* The processor translates an address of the running program. *)
Access(u) ==
  /\ apc[run] = "user"
  /\ cr3 # init_page_dir
  /\ lookup_page(cr3, u) # NONE
  /\ tlb' = tlb \cup {<<u, lookup_page(cr3, u)>>}
  /\ UNCHANGED <<run, cr3, pagedir, entries, a_pools, apc, areq>>
-----------------------------------------------------------------------------
(* load: pagedir_create, a copy of the kernel's mappings ... *)
PagedirCreate(p) ==
  /\ AAt(p, "start")
  /\ IF kfree = {}
     THEN AGoto(p, "exit") /\ UNCHANGED <<pagedir, entries, kfree>>
     ELSE LET pd == First(kfree)
          IN  /\ kfree' = kfree \ {pd}
              /\ pagedir' = [pagedir EXCEPT ![p] = pd]
              /\ entries' = [entries EXCEPT ![pd] = Table(NONE)]
              /\ AGoto(p, "activate")
  /\ UNCHANGED <<run, cr3, tlb, ufree, areq>>

(* ... process_activate ... *)
LoadActivate(p) ==
  /\ AAt(p, "activate")
  /\ Activate(pagedir[p])
  /\ AGoto(p, "headers")
  /\ UNCHANGED <<run, pagedir, entries, a_pools, areq>>

(* ... then the headers: a segment that validate_segment accepts, no more  *)
(* segments, or something wrong.                                           *)
LoadHeader(p) ==
  /\ AAt(p, "headers")
  /\ \/ \E u, last \in Vpage : /\ u <= last
                               /\ ASet(p, [NoAreq EXCEPT !.u = u, !.last = last])
                               /\ AGoto(p, "page")
     \/ /\ ASet(p, [NoAreq EXCEPT !.u = StackPage, !.last = StackPage])
        /\ AGoto(p, "stack")
     \/ ASet(p, NoAreq) /\ AGoto(p, "exit")
  /\ UNCHANGED <<run, cr3, tlb, pagedir, entries, a_pools>>

(* load_segment and setup_stack get a page from the user pool ... *)
UserPage(p) ==
  /\ AAt(p, "page") \/ AAt(p, "stack")
  /\ IF ufree = {}
     THEN ASet(p, NoAreq) /\ AGoto(p, "exit") /\ UNCHANGED ufree
     ELSE /\ ufree' = ufree \ {First(ufree)}
          /\ areq' = [areq EXCEPT ![p].kpage = First(ufree)]
          /\ AGoto(p, IF apc[p] = "page" THEN "read" ELSE "map_stack")
  /\ UNCHANGED <<run, cr3, tlb, pagedir, entries, kfree>>

(* ... load_segment reads the file into it, or gives it back ... *)
ReadPage(p) ==
  /\ AAt(p, "read")
  /\ \/ AGoto(p, "map") /\ UNCHANGED <<ufree, areq>>
     \/ /\ ufree' = ufree \cup {areq[p].kpage}
        /\ ASet(p, NoAreq)
        /\ AGoto(p, "exit")
  /\ UNCHANGED <<run, cr3, tlb, pagedir, entries, kfree>>

(* ... and install_page maps it, with a new page table if need be, or back *)
(* it goes: two segments may overlap, or overlap the stack.                *)
Install(p, back) ==
  LET r == areq[p]
      pd == pagedir[p]
      new == entries[pd][pd_no(r.u)] = NONE
      pt == IF new THEN First(kfree) ELSE entries[pd][pd_no(r.u)]
      old == IF new THEN Table(NONE) ELSE entries[pt]
  IN  /\ AAt(p, "map") \/ AAt(p, "map_stack")
      /\ IF lookup_page(pd, r.u) # NONE \/ (new /\ kfree = {})
         THEN /\ ufree' = ufree \cup back
              /\ ASet(p, NoAreq)
              /\ AGoto(p, "exit")
              /\ UNCHANGED <<entries, kfree>>
         ELSE /\ kfree' = kfree \ {pt}
              /\ entries' = [entries EXCEPT ![pd][pd_no(r.u)] = pt,
                                            ![pt] = [old EXCEPT ![pt_no(r.u)] = r.kpage]]
              /\ ASet(p, IF r.u < r.last THEN [r EXCEPT !.u = @ + 1, !.kpage = NONE] ELSE NoAreq)
              /\ AGoto(p, CASE r.u < r.last -> "page"
                            [] apc[p] = "map_stack" -> "user"
                            [] OTHER -> "headers")
              /\ UNCHANGED ufree
      /\ UNCHANGED <<run, cr3, tlb, pagedir>>

(* Mutant: the page is lost when install_page fails. *)
InstallLeaks(p) == Install(p, {})

InstallPage(p) == Install(p, {areq[p].kpage})
-----------------------------------------------------------------------------
(* Mutant: process_exit forgets the directory only after leaving it. *)
ExitActivatesFirst(p) ==
  /\ AAt(p, "user") \/ AAt(p, "exit")
  /\ IF pagedir[p] = NONE
     THEN AGoto(p, "start") /\ UNCHANGED <<cr3, tlb, pagedir, areq>>
     ELSE /\ Activate(NONE)
          /\ ASet(p, [NoAreq EXCEPT !.pd = pagedir[p]])
          /\ AGoto(p, "destroy")
          /\ UNCHANGED pagedir
  /\ UNCHANGED <<run, entries, a_pools>>

(* process_exit, of a program that ran or one that could not be loaded:    *)
(* the process's directory is forgotten ...                                *)
ProcessExit(p) ==
  /\ AAt(p, "user") \/ AAt(p, "exit")
  /\ IF pagedir[p] = NONE
     THEN AGoto(p, "start") /\ UNCHANGED <<pagedir, areq>>
     ELSE /\ pagedir' = [pagedir EXCEPT ![p] = NONE]
          /\ ASet(p, [NoAreq EXCEPT !.pd = pagedir[p]])
          /\ AGoto(p, "deactivate")
  /\ UNCHANGED <<run, cr3, tlb, entries, a_pools>>

(* ... the kernel's is activated ... *)
Deactivate(p) ==
  /\ AAt(p, "deactivate")
  /\ Activate(NONE)
  /\ AGoto(p, "destroy")
  /\ UNCHANGED <<run, pagedir, entries, a_pools, areq>>

(* ... and pagedir_destroy frees what the tables lead to, each table, and  *)
(* the directory.                                                          *)
Destroy(p, size) ==
  LET r == areq[p]
      pt == entries[r.pd][r.i]
      free(page) == /\ kfree' = kfree \cup {page}
                    /\ entries' = [entries EXCEPT ![page] = Table(Junk)]
  IN  /\ AAt(p, "destroy")
      /\ IF r.i = UserDirs
         THEN free(r.pd) /\ ASet(p, NoAreq) /\ AGoto(p, "start") /\ UNCHANGED ufree
         ELSE IF pt = NONE
         THEN ASet(p, [r EXCEPT !.i = @ + 1]) /\ UNCHANGED <<entries, a_pools, apc>>
         ELSE IF r.j < size
         THEN /\ ufree' = ufree \cup ({entries[pt][r.j]} \ {NONE})
              /\ ASet(p, [r EXCEPT !.j = @ + 1])
              /\ UNCHANGED <<entries, kfree, apc>>
         ELSE free(pt) /\ ASet(p, [r EXCEPT !.i = @ + 1, !.j = 0]) /\ UNCHANGED <<ufree, apc>>
      /\ UNCHANGED <<run, cr3, tlb, pagedir>>

(* Mutant: pagedir_destroy skips the last entry of a page table. *)
DestroyShort(p) == Destroy(p, TableSize - 1)

PagedirDestroy(p) == Destroy(p, TableSize)
-----------------------------------------------------------------------------
SpaceInit ==
  /\ run \in Proc
  /\ cr3 = init_page_dir
  /\ tlb = {}
  /\ pagedir = [p \in Proc |-> NONE]
  /\ entries = [k \in KPage |-> Table(Junk)]
  /\ kfree = KPage
  /\ ufree = UPage
  /\ apc = [p \in Proc |-> "start"]
  /\ areq = [p \in Proc |-> NoAreq]

SpaceNext ==
  \/ \E u \in Vpage : Access(u)
  \/ \E p \in Proc :
       \/ Switch(p) \/ PagedirCreate(p) \/ LoadActivate(p) \/ LoadHeader(p) \/ UserPage(p)
       \/ ReadPage(p) \/ InstallPage(p) \/ ProcessExit(p) \/ Deactivate(p) \/ PagedirDestroy(p)

SpaceSpec == SpaceInit /\ [][SpaceNext]_a_vars
-----------------------------------------------------------------------------
(* The pages a page directory leads to: all of them, or, while it is being *)
(* destroyed, those not given back yet.                                    *)
Tables(pd, i) == {entries[pd][k] : k \in i..UserDirs - 1} \ {NONE}
Frames(pd, i, j) ==
  (UNION {{entries[pt][k] : k \in (IF pt = entries[pd][i] THEN j ELSE 0)..TableSize - 1} :
          pt \in Tables(pd, i)}) \ {NONE}

Dying == {p \in Proc : apc[p] = "destroy"}
Dirs == {[pd |-> pagedir[p], i |-> 0, j |-> 0] : p \in {q \in Proc : pagedir[q] # NONE}}
          \cup {[pd |-> areq[p].pd, i |-> areq[p].i, j |-> areq[p].j] :
                p \in {q \in Proc : apc[q] \in {"deactivate", "destroy"}}}
Reach(d) == {d.pd} \cup Tables(d.pd, d.i) \cup IF d.i < UserDirs THEN Frames(d.pd, d.i, d.j) ELSE {}
InFlight == {areq[p].kpage : p \in Proc} \ {NONE}

(* No page belongs to two address spaces, and none is lost: every page of  *)
(* both pools is free, reached from exactly one page directory, or about   *)
(* to be mapped, also after loads that failed half-way.                    *)
PagesAccounted ==
  /\ kfree \cup ufree \cup InFlight \cup UNION {Reach(d) : d \in Dirs} = KPage \cup UPage
  /\ \A d \in Dirs : Reach(d) \cap (kfree \cup ufree \cup InFlight) = {}
  /\ \A d, e \in Dirs : d # e => Reach(d) \cap Reach(e) = {}
  /\ InFlight \cap ufree = {}

(* The active page directory is the kernel's or the running process's own, *)
(* never one that process_exit is destroying, whenever the timer           *)
(* interrupts: the order of its three steps matters.                       *)
ActiveDirectoryLives ==
  cr3 # init_page_dir =>
    /\ cr3 \notin kfree
    /\ cr3 = pagedir[run] \/ (apc[run] = "deactivate" /\ cr3 = areq[run].pd)
    /\ cr3 \notin {areq[p].pd : p \in Dying}

(* A running program is in its own address space, and the processor        *)
(* remembers no translation that its page tables do not have.              *)
TranslationsOwn ==
  /\ apc[run] = "user" => cr3 = pagedir[run]
  /\ \A e \in tlb : cr3 # init_page_dir /\ lookup_page(cr3, e[1]) = e[2] /\ e[2] \notin ufree

(* Through switches, loads and exits the processor is in an address space  *)
(* that exists and is the running process's: the two above.                *)
SpacesOwn == ActiveDirectoryLives /\ TranslationsOwn
=============================================================================
