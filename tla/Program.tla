------------------------------ MODULE Program ------------------------------
(***************************************************************************)
(* What load (userprog/process.c) puts into a new program's memory: the    *)
(* bytes of a segment and the arguments on the stack.  AddressSpace has    *)
(* the pages and page tables they go to.  Strings cuts the command line.   *)
(***************************************************************************)
EXTENDS Kernel, Strings

CONSTANTS
  AddrSize,                     \* number of addresses: 2^32 in the code
  PHYS_BASE,                    \* where user addresses end
  COPY_SIZE,                    \* load's full_file_name_copy_2: 256 in the code
  ARGV_MAX                      \* setup_user_stack's argv: 128 in the code

ASSUME ProgramAssumption ==
  /\ AddrSize \in Nat /\ PHYS_BASE \in 1 .. AddrSize - 1
  /\ AddrSize % PGSIZE = 0 /\ PHYS_BASE % PGSIZE = 0
  /\ COPY_SIZE \in Nat /\ ARGV_MAX \in Nat

Uint32(x) == x % AddrSize
is_user_vaddr(v) == v < PHYS_BASE
WordSize == 4
-----------------------------------------------------------------------------
(* A program header is a record of its p_offset, p_vaddr, p_filesz and     *)
(* p_memsz; a file is the sequence of its bytes.                           *)
Loadable(phdr, length) ==
  /\ pg_ofs(phdr.p_offset) = pg_ofs(phdr.p_vaddr)
  /\ phdr.p_offset <= length
  /\ phdr.p_memsz >= phdr.p_filesz
  /\ phdr.p_memsz # 0
  /\ is_user_vaddr(phdr.p_vaddr)
  /\ is_user_vaddr(Uint32(phdr.p_vaddr + phdr.p_memsz))
  /\ phdr.p_vaddr >= PGSIZE

(* Mutant: a region that wraps around is let through. *)
SegmentWraps(phdr, length) == Loadable(phdr, length)

validate_segment(phdr, length) ==
  /\ Loadable(phdr, length)
  /\ Uint32(phdr.p_vaddr + phdr.p_memsz) >= phdr.p_vaddr

(* The pages from upage on, each with its bytes, or "failed" when the file *)
(* ends too early.  Memory is not exhausted here: see AddressSpace.        *)
RECURSIVE load_segment(_, _, _, _, _)
load_segment(file, ofs, upage, read_bytes, zero_bytes) ==
  LET page_read_bytes == Min({read_bytes, PGSIZE})
      page == [i \in 0 .. PGSIZE - 1 |-> IF i < page_read_bytes THEN file[ofs + i + 1] ELSE 0]
      rest == load_segment(file, ofs + page_read_bytes, Uint32(upage + PGSIZE),
                           read_bytes - page_read_bytes, zero_bytes - (PGSIZE - page_read_bytes))
  IN  IF read_bytes = 0 /\ zero_bytes = 0 THEN <<>>
      ELSE IF ofs + page_read_bytes > Len(file) THEN "failed"
      ELSE IF rest = "failed" THEN rest
      ELSE <<[upage |-> upage, bytes |-> page]>> \o rest

(* load, for one PT_LOAD header. *)
LoadSegment(phdr, file) ==
  LET page_offset == pg_ofs(phdr.p_vaddr)
      read_bytes == Uint32(page_offset + phdr.p_filesz)
      zero_bytes == Uint32(ROUND_UP(page_offset + phdr.p_memsz, PGSIZE) - read_bytes)
  IN  load_segment(file, pg_round_down(phdr.p_offset), pg_round_down(phdr.p_vaddr), read_bytes, zero_bytes)

(* A segment that passes validation is loaded whole: the file's bytes at   *)
(* its address, zeros up to its size in memory, in user pages above the    *)
(* first; it fails just when the file has too few bytes.                   *)
SegmentRight(phdr, file) ==
  LET pages == LoadSegment(phdr, file)
      Byte(v) == LET p == CHOOSE i \in DOMAIN pages : pages[i].upage = pg_round_down(v)
                 IN  pages[p].bytes[pg_ofs(v)]
  IN  validate_segment(phdr, Len(file)) =>
        IF phdr.p_offset + phdr.p_filesz > Len(file) THEN pages = "failed"
        ELSE /\ pages # "failed"
             /\ \A i \in DOMAIN pages : pages[i].upage >= PGSIZE /\ is_user_vaddr(pages[i].upage)
             /\ \A i \in 0 .. phdr.p_memsz - 1 :
                  /\ \E k \in DOMAIN pages : pages[k].upage = pg_round_down(phdr.p_vaddr + i)
                  /\ Byte(phdr.p_vaddr + i) = IF i < phdr.p_filesz THEN file[phdr.p_offset + i + 1] ELSE 0
-----------------------------------------------------------------------------
(* The stack under construction: the zeroed page that setup_stack maps at  *)
(* the top of user memory, *esp, and whether the program still lives.  A   *)
(* word occupies the cell of its address and marks the others.             *)
StackTop == [mem |-> [a \in PHYS_BASE - PGSIZE .. PHYS_BASE - 1 |-> 0], esp |-> PHYS_BASE, alive |-> TRUE]

is_valid_stack_pointer(st, esp) == is_user_vaddr(esp) /\ esp \in DOMAIN st.mem

push(st, cells) ==
  LET esp == st.esp - Len(cells)
  IN  IF ~st.alive \/ ~is_valid_stack_pointer(st, esp) THEN [st EXCEPT !.alive = FALSE]
      ELSE [st EXCEPT !.esp = esp,
                      !.mem = [a \in DOMAIN @ |-> IF a \in esp .. st.esp - 1 THEN cells[a - esp + 1] ELSE @[a]]]
push_word(st, w) == push(st, <<w>> \o [i \in 1 .. WordSize - 1 |-> "word"])

(* pad: whether the stack is aligned after the strings. *)
Arguments(args, pad) ==
  LET PushArg(acc, a) == LET st == push(acc.st, a \o <<0>>)
                         IN  [st |-> st, argv |-> <<st.esp>> \o acc.argv]
      strings == FoldLeft(PushArg, [st |-> StackTop, argv |-> <<>>], Reverse(args))
      remainder == (PHYS_BASE - strings.st.esp) % WordSize
      padded == IF remainder = 0 \/ ~pad THEN strings.st
                ELSE push(strings.st, [i \in 1 .. WordSize - remainder |-> 0])
      pointers == FoldLeft(push_word, push_word(padded, 0), Reverse(strings.argv))
      argv == push_word(pointers, pointers.esp)
      argc == push_word(argv, Len(args))
  IN  push_word(argc, 0)

(* Mutant: the strings are not padded to a word. *)
StackUnaligned(args) == Arguments(args, FALSE)

setup_user_stack(args) == Arguments(args, TRUE)

Blank == 2

(* load copies the command, with its 0, into a buffer on its stack and     *)
(* does not compare the lengths: what a longer command does is undefined.  *)
Copied(cmd) == Len(cmd) + 1 <= COPY_SIZE

(* For every command that the copy has room for (and that has a word: load *)
(* opens no file without one), its words fit into argv and the stack page, *)
(* so that load never ends the program there, and the program starts on an *)
(* aligned stack: a null return address, argc, argv and, through argv, the *)
(* words of the command in order and a null pointer.                       *)
ArgumentsRight(cmd) ==
  LET mem == [a \in 0 .. Len(cmd) + 2 |->
                IF a < Len(cmd) THEN cmd[a + 1] ELSE IF a = Len(cmd) + 1 THEN Blank ELSE 0]
      args == Tokens(mem, 0, Len(cmd) + 1)
      st == setup_user_stack(args)
      Word(i) == st.mem[st.esp + i * WordSize]
      Pointer(i) == st.mem[Word(2) + i * WordSize]
  IN  Copied(cmd) /\ args # <<>> =>
        /\ Len(args) <= ARGV_MAX
        /\ st.alive
        /\ st.esp % WordSize = 0
        /\ Word(0) = 0
        /\ Word(1) = Len(args)
        /\ \A i \in DOMAIN args : Str(st.mem, Pointer(i - 1)) = args[i]
        /\ Pointer(Len(args)) = 0
        /\ args = Pieces(cmd, {Blank})
=============================================================================
