--------------------------- MODULE FileSysProofs ----------------------------
(***************************************************************************)
(* The file system keeps its counts, its sectors and its disk, through     *)
(* crashes between any two writes, until two operations overlap.           *)
(***************************************************************************)
EXTENDS FileSys, TLAPS, FiniteSetTheorems, WellFoundedInduction

Inode == [open_cnt : Nat, deny_write_cnt : Nat, removed : BOOLEAN,
          start : 0..LastSector, length : Nat]
File == [sector : Sector \cup {0}, deny : BOOLEAN]
Operands == [proc : Process \cup {NULL}, file : Name \cup {NULL}, sector : Sector \cup {0},
             start : 0..LastSector, length : Nat]
FsPC == {"idle", "inode_create", "inode_write", "dir_add", "undo", "release",
         "release_data", "exit"}

(* TypeOK, but for the history variable. *)
FsType ==
  /\ dir \in [Name -> Sector \cup {0}]
  /\ disk_inode \in [Sector -> [start : 0..LastSector, length : Nat]]
  /\ disk_map \subseteq Sector /\ free_map \subseteq Sector
  /\ open_inodes \in [Sector -> Inode]
  /\ fdt \in [Process -> Seq(File)]
  /\ exec_file \in [Process -> Sector \cup {0}]
  /\ name \in [Process -> Name \cup {NULL}]
  /\ pc \in FsPC /\ op \in Operands

(* Tables are within bounds and hold files or nothing; a process has an    *)
(* executable exactly while it has a name.                                 *)
Tables ==
  /\ \A p \in Process : Len(fdt[p]) <= FdtMax
  /\ \A p \in Process : \A fd \in 1..Len(fdt[p]) :
       fdt[p][fd] = NoFile \/ fdt[p][fd].sector \in Sector
  /\ \A p \in Process : name[p] # NULL <=> exec_file[p] # 0

(* The counts, with what they need to be kept. *)
CInv == FsType /\ OpenCount /\ DenyCount /\ Tables /\ (pc = "exit" => op.proc \in Process)
-----------------------------------------------------------------------------
(* Sector 0 is no file's: 0 stands for none. *)
LEMMA SectorFacts ==
  /\ 0 \notin Sector /\ Sector \subseteq Nat /\ Sector \subseteq 0..LastSector
  /\ LastSector \in Nat /\ FdtMax \in Nat
  BY FileSysAssumption DEF Sector

(* A closed descriptor. *)
LEMMA NoFileType == NoFile \in File /\ NoFile.sector = 0 /\ NoFile.deny = FALSE
<1>1. FALSE \in BOOLEAN
  BY Zenon
<1> QED
  BY <1>1, Zenon DEF NoFile, File

(* An inode that nobody has open. *)
LEMMA NotOpenType ==
  /\ NotOpen \in Inode /\ NotOpen.open_cnt = 0 /\ NotOpen.deny_write_cnt = 0
<1>1. FALSE \in BOOLEAN /\ 0 \in 0..LastSector
  BY SectorFacts
<1> QED
  BY <1>1, Zenon DEF NotOpen, Inode

(* No operation in progress. *)
LEMMA NoOpType == NoOp \in Operands
<1>1. 0 \in 0..LastSector
  BY SectorFacts
<1> QED
  BY <1>1, Zenon DEF NoOp, Operands

(* Openers and Deniers for any tables f, and the same for executables x. *)
Opn(f, s) == {o \in Process \X (1..FdtMax) : o[2] \in DOMAIN f[o[1]] /\ f[o[1]][o[2]].sector = s}
Den(f, s) == {o \in Opn(f, s) : f[o[1]][o[2]].deny}
Exe(x, s) == {p \in Process : x[p] = s}
Counted(i, f, x, s) ==
  /\ i[s].open_cnt = Cardinality(Opn(f, s)) + Cardinality(Exe(x, s))
  /\ i[s].deny_write_cnt = Cardinality(Den(f, s))

(* OpenCount and DenyCount, with the tables as parameters. *)
LEMMA CountsAre ==
  /\ OpenCount /\ DenyCount <=> \A s \in Sector : Counted(open_inodes, fdt, exec_file, s)
  /\ OpenCount' /\ DenyCount' <=> \A s \in Sector : Counted(open_inodes', fdt', exec_file', s)
<1>1. \A s : /\ Openers(s) = Opn(fdt, s) /\ Openers(s)' = Opn(fdt', s)
             /\ Deniers(s) = Den(fdt, s) /\ Deniers(s)' = Den(fdt', s)
  BY Zenon DEF Openers, Deniers, Opn, Den
<1>2. \A s : /\ {p \in Process : exec_file[p] = s} = Exe(exec_file, s)
             /\ {p \in Process : exec_file'[p] = s} = Exe(exec_file', s)
  BY Zenon DEF Exe
<1> QED
  BY <1>1, <1>2, Zenon DEF OpenCount, DenyCount, Counted

(* The empty set has no members. *)
LEMMA EmptySize == Cardinality({}) = 0
  BY FS_EmptySet, Zenon

(* A finite set with a member is not counted as empty. *)
LEMMA NonEmpty ==
  ASSUME NEW S, IsFiniteSet(S), S # {} PROVE Cardinality(S) # 0
  BY FS_EmptySet, Zenon

(* A part of a finite set is finite and no larger. *)
LEMMA SubsetSize ==
  ASSUME NEW S, IsFiniteSet(S), NEW T \in SUBSET S
  PROVE  IsFiniteSet(T) /\ Cardinality(T) \in Nat /\ Cardinality(T) <= Cardinality(S)
<1>1. IsFiniteSet(T) /\ Cardinality(T) <= Cardinality(S)
  BY FS_Subset
<1>2. Cardinality(T) \in Nat
  BY <1>1, FS_CardinalityType, Zenon
<1> QED
  BY <1>1, <1>2, Zenon

(* One more member, one more counted. *)
LEMMA SizeAdds ==
  ASSUME NEW S, IsFiniteSet(S), NEW x, x \notin S
  PROVE  Cardinality(S \cup {x}) = Cardinality(S) + 1
  BY FS_AddElement

(* A non-empty set of naturals has a least element. *)
LEMMA LeastOf ==
  ASSUME NEW T \in SUBSET Nat, T # {}
  PROVE  \E x \in T : \A y \in T : x <= y
<1>1. \E x \in T : \A y \in T : ~ (<<y, x>> \in OpToRel(<, Nat))
  BY NatLessThanWellFounded, WFMin, Zenon
<1>2. PICK x \in T : \A y \in T : ~ (<<y, x>> \in OpToRel(<, Nat))
  BY <1>1, Zenon
<1>3. \A y \in T : ~ (y < x)
  BY <1>2, Zenon DEF OpToRel
<1> QED
  BY <1>3

(* The counts are of finite sets, and whoever denies writes has the inode open. *)
LEMMA Finite ==
  ASSUME NEW f, NEW x, NEW s
  PROVE  /\ IsFiniteSet(Opn(f, s)) /\ IsFiniteSet(Den(f, s)) /\ IsFiniteSet(Exe(x, s))
         /\ Cardinality(Opn(f, s)) \in Nat /\ Cardinality(Den(f, s)) \in Nat
         /\ Cardinality(Exe(x, s)) \in Nat
         /\ Cardinality(Den(f, s)) <= Cardinality(Opn(f, s))
<1>1. IsFiniteSet(Process) /\ IsFiniteSet(Process \X (1..FdtMax))
  <2>1. IsFiniteSet(Process) /\ IsFiniteSet(1..FdtMax)
    BY FileSysAssumption, FS_Interval
  <2> QED
    BY <2>1, FS_Product, Zenon
<1>2. /\ Opn(f, s) \in SUBSET (Process \X (1..FdtMax))
      /\ Den(f, s) \in SUBSET Opn(f, s)
      /\ Exe(x, s) \in SUBSET Process
  BY Zenon DEF Opn, Den, Exe
<1>3. IsFiniteSet(Opn(f, s)) /\ Cardinality(Opn(f, s)) \in Nat
  BY <1>1, <1>2, SubsetSize, Zenon
<1>4. IsFiniteSet(Exe(x, s)) /\ Cardinality(Exe(x, s)) \in Nat
  BY <1>1, <1>2, SubsetSize, Zenon
<1>5. /\ IsFiniteSet(Den(f, s)) /\ Cardinality(Den(f, s)) \in Nat
      /\ Cardinality(Den(f, s)) <= Cardinality(Opn(f, s))
  BY <1>2, <1>3, SubsetSize, Zenon
<1> QED
  BY <1>3, <1>4, <1>5, Zenon

(* Files and descriptors, one by one. *)
LEMMA OpnAre ==
  ASSUME NEW f \in [Process -> Seq(File)], NEW s, NEW q \in Process, NEW k \in 1..FdtMax
  PROVE  /\ <<q, k>> \in Opn(f, s) <=> k \in 1..Len(f[q]) /\ f[q][k].sector = s
         /\ <<q, k>> \in Den(f, s) <=>
              k \in 1..Len(f[q]) /\ f[q][k].sector = s /\ f[q][k].deny
<1> DEFINE o == <<q, k>>
<1>1. o \in Process \X (1..FdtMax) /\ o[1] = q /\ o[2] = k
  BY Zenon
<1>2. DOMAIN f[q] = 1..Len(f[q])
  OBVIOUS
<1> HIDE DEF o
<1>3. o \in Opn(f, s) <=> k \in 1..Len(f[q]) /\ f[q][k].sector = s
  BY <1>1, <1>2, Zenon DEF Opn
<1>4. o \in Den(f, s) <=> o \in Opn(f, s) /\ f[q][k].deny
  BY <1>1, Zenon DEF Den
<1> QED
  BY <1>3, <1>4, Zenon DEF o

(* An opener is a process and a descriptor. *)
LEMMA OpnShape ==
  ASSUME NEW f, NEW s PROVE \A o \in Opn(f, s) : \E q \in Process, k \in 1..FdtMax : o = <<q, k>>
  BY DEF Opn

(* So is a denier. *)
LEMMA DenShape ==
  ASSUME NEW f, NEW s PROVE \A o \in Den(f, s) : \E q \in Process, k \in 1..FdtMax : o = <<q, k>>
  BY OpnShape DEF Den

(* One more member, counted. *)
LEMMA SetAdds ==
  ASSUME NEW A, NEW B, NEW o, o \notin A, \A x : x # o => (x \in B <=> x \in A)
  PROVE  /\ o \in B => B = A \cup {o}
         /\ o \notin B => B = A
  OBVIOUS

(* One descriptor gets a file where there was none. *)
Adds(f, g, p, k, new) ==
  /\ f \in [Process -> Seq(File)] /\ g \in [Process -> Seq(File)]
  /\ p \in Process /\ k \in 1..FdtMax /\ new \in File
  /\ k \in 1..Len(g[p]) /\ g[p][k] = new /\ new.sector \in Sector
  /\ k \notin 1..Len(f[p]) \/ f[p][k].sector = 0
  /\ \A q \in Process, j \in 1..FdtMax : q # p \/ j # k =>
       /\ j \in 1..Len(f[q]) <=> j \in 1..Len(g[q])
       /\ j \in 1..Len(f[q]) => g[q][j] = f[q][j]

(* One more file in a table is one more opener of its inode. *)
LEMMA TableAdds ==
  ASSUME NEW f \in [Process -> Seq(File)], NEW g \in [Process -> Seq(File)],
         NEW p \in Process, NEW k \in 1..FdtMax, NEW new \in File, Adds(f, g, p, k, new)
  PROVE  \A s \in Sector :
           /\ Opn(g, s) = IF s = new.sector THEN Opn(f, s) \cup {<<p, k>>} ELSE Opn(f, s)
           /\ Den(g, s) = IF s = new.sector /\ new.deny THEN Den(f, s) \cup {<<p, k>>}
                                                        ELSE Den(f, s)
           /\ <<p, k>> \notin Opn(f, s) /\ <<p, k>> \notin Den(f, s)
<1>a. /\ k \in 1..Len(g[p]) /\ g[p][k] = new /\ new.sector \in Sector
      /\ k \notin 1..Len(f[p]) \/ f[p][k].sector = 0
  BY Zenon DEF Adds
<1> TAKE s \in Sector
<1> DEFINE o == <<p, k>>
<1>0. s # 0
  BY SectorFacts, Zenon
<1>1. o \notin Opn(f, s) /\ o \notin Den(f, s)
  <2>1. /\ <<p, k>> \in Opn(f, s) <=> k \in 1..Len(f[p]) /\ f[p][k].sector = s
        /\ <<p, k>> \in Den(f, s) <=> k \in 1..Len(f[p]) /\ f[p][k].sector = s /\ f[p][k].deny
    BY OpnAre, Zenon
  <2> QED
    BY <1>a, <1>0, <2>1, Zenon
<1>2. /\ o \in Opn(g, s) <=> s = new.sector
      /\ o \in Den(g, s) <=> s = new.sector /\ new.deny
  <2>1. /\ <<p, k>> \in Opn(g, s) <=> k \in 1..Len(g[p]) /\ g[p][k].sector = s
        /\ <<p, k>> \in Den(g, s) <=> k \in 1..Len(g[p]) /\ g[p][k].sector = s /\ g[p][k].deny
    BY OpnAre, Zenon
  <2> QED
    BY <1>a, <2>1, Zenon
<1>3. ASSUME NEW q \in Process, NEW j \in 1..FdtMax, q # p \/ j # k
      PROVE  /\ <<q, j>> \in Opn(g, s) <=> <<q, j>> \in Opn(f, s)
             /\ <<q, j>> \in Den(g, s) <=> <<q, j>> \in Den(f, s)
  <2>1. /\ j \in 1..Len(f[q]) <=> j \in 1..Len(g[q])
        /\ j \in 1..Len(f[q]) => g[q][j] = f[q][j]
    BY <1>3, Zenon DEF Adds
  <2>2. /\ <<q, j>> \in Opn(g, s) <=> j \in 1..Len(g[q]) /\ g[q][j].sector = s
        /\ <<q, j>> \in Den(g, s) <=> j \in 1..Len(g[q]) /\ g[q][j].sector = s /\ g[q][j].deny
    BY OpnAre, Zenon
  <2>3. /\ <<q, j>> \in Opn(f, s) <=> j \in 1..Len(f[q]) /\ f[q][j].sector = s
        /\ <<q, j>> \in Den(f, s) <=> j \in 1..Len(f[q]) /\ f[q][j].sector = s /\ f[q][j].deny
    BY OpnAre, Zenon
  <2> QED
    BY <2>1, <2>2, <2>3, Zenon
<1>4. \A q, j : <<q, j>> # o => q # p \/ j # k
  BY Zenon DEF o
<1> HIDE DEF o
<1>5. \A x : x # o => (x \in Opn(g, s) <=> x \in Opn(f, s))
  <2> TAKE x
  <2> HAVE x # o
  <2>1. \A y \in Opn(g, s) : \E q \in Process, j \in 1..FdtMax : y = <<q, j>>
    BY OpnShape
  <2>2. \A y \in Opn(f, s) : \E q \in Process, j \in 1..FdtMax : y = <<q, j>>
    BY OpnShape
  <2> QED
    <3>1. ASSUME x \in Opn(g, s) PROVE x \in Opn(f, s)
      <4>1. PICK q \in Process, j \in 1..FdtMax : x = <<q, j>>
        BY <2>1, <3>1, Zenon
      <4>2. q # p \/ j # k
        BY <1>4, <4>1, Zenon
      <4> QED
        BY <1>3, <3>1, <4>1, <4>2, Zenon
    <3>2. ASSUME x \in Opn(f, s) PROVE x \in Opn(g, s)
      <4>1. PICK q \in Process, j \in 1..FdtMax : x = <<q, j>>
        BY <2>2, <3>2, Zenon
      <4>2. q # p \/ j # k
        BY <1>4, <4>1, Zenon
      <4> QED
        BY <1>3, <3>2, <4>1, <4>2, Zenon
    <3> QED
      BY <3>1, <3>2, Zenon
<1>6. \A x : x # o => (x \in Den(g, s) <=> x \in Den(f, s))
  <2> TAKE x
  <2> HAVE x # o
  <2>1. \A y \in Den(g, s) : \E q \in Process, j \in 1..FdtMax : y = <<q, j>>
    BY DenShape
  <2>2. \A y \in Den(f, s) : \E q \in Process, j \in 1..FdtMax : y = <<q, j>>
    BY DenShape
  <2> QED
    <3>1. ASSUME x \in Den(g, s) PROVE x \in Den(f, s)
      <4>1. PICK q \in Process, j \in 1..FdtMax : x = <<q, j>>
        BY <2>1, <3>1, Zenon
      <4>2. q # p \/ j # k
        BY <1>4, <4>1, Zenon
      <4> QED
        BY <1>3, <3>1, <4>1, <4>2, Zenon
    <3>2. ASSUME x \in Den(f, s) PROVE x \in Den(g, s)
      <4>1. PICK q \in Process, j \in 1..FdtMax : x = <<q, j>>
        BY <2>2, <3>2, Zenon
      <4>2. q # p \/ j # k
        BY <1>4, <4>1, Zenon
      <4> QED
        BY <1>3, <3>2, <4>1, <4>2, Zenon
    <3> QED
      BY <3>1, <3>2, Zenon
<1>7. Opn(g, s) = IF s = new.sector THEN Opn(f, s) \cup {o} ELSE Opn(f, s)
  <2>1. o \notin Opn(f, s) /\ (o \in Opn(g, s) <=> s = new.sector)
    BY <1>1, <1>2, Zenon DEF o
  <2> QED
    BY <1>5, <2>1, SetAdds
<1>8. Den(g, s) = IF s = new.sector /\ new.deny THEN Den(f, s) \cup {o} ELSE Den(f, s)
  <2>1. o \notin Den(f, s) /\ (o \in Den(g, s) <=> s = new.sector /\ new.deny)
    BY <1>1, <1>2, Zenon DEF o
  <2> QED
    BY <1>6, <2>1, SetAdds
<1> QED
  BY <1>1, <1>7, <1>8, Zenon DEF o

(* The same, counted. *)
LEMMA TableCounts ==
  ASSUME NEW f, NEW g, NEW p, NEW k, NEW new, Adds(f, g, p, k, new)
  PROVE  \A s \in Sector :
           /\ Cardinality(Opn(g, s)) = Cardinality(Opn(f, s)) + IF s = new.sector THEN 1 ELSE 0
           /\ Cardinality(Den(g, s)) =
                Cardinality(Den(f, s)) + IF s = new.sector /\ new.deny THEN 1 ELSE 0
<1> TAKE s \in Sector
<1> DEFINE o == <<p, k>>
<1>1. /\ Opn(g, s) = IF s = new.sector THEN Opn(f, s) \cup {o} ELSE Opn(f, s)
      /\ Den(g, s) = IF s = new.sector /\ new.deny THEN Den(f, s) \cup {o} ELSE Den(f, s)
      /\ o \notin Opn(f, s) /\ o \notin Den(f, s)
  <2>1. /\ f \in [Process -> Seq(File)] /\ g \in [Process -> Seq(File)]
        /\ p \in Process /\ k \in 1..FdtMax /\ new \in File
    BY Zenon DEF Adds
  <2> QED
    BY <2>1, TableAdds, Zenon
<1> HIDE DEF o
<1>2. /\ IsFiniteSet(Opn(f, s)) /\ IsFiniteSet(Den(f, s))
      /\ Cardinality(Opn(f, s)) \in Nat /\ Cardinality(Den(f, s)) \in Nat
  BY Finite, Zenon
<1>3. /\ Cardinality(Opn(f, s) \cup {o}) = Cardinality(Opn(f, s)) + 1
      /\ Cardinality(Den(f, s) \cup {o}) = Cardinality(Den(f, s)) + 1
  BY <1>1, <1>2, SizeAdds, Zenon
<1> QED
  BY <1>1, <1>2, <1>3

(* The same for the executable of a process that has none. *)
LEMMA ExecCounts ==
  ASSUME NEW x, NEW y, NEW p \in Process, NEW n \in Sector, x[p] = 0, y[p] = n,
         \A q \in Process \ {p} : y[q] = x[q]
  PROVE  \A s \in Sector :
           Cardinality(Exe(y, s)) = Cardinality(Exe(x, s)) + IF s = n THEN 1 ELSE 0
<1> TAKE s \in Sector
<1>0. s # 0
  BY SectorFacts, Zenon
<1>1. p \notin Exe(x, s)
  BY <1>0, Zenon DEF Exe
<1>2. Exe(y, s) = IF s = n THEN Exe(x, s) \cup {p} ELSE Exe(x, s)
  BY <1>0, Zenon DEF Exe
<1>3. IsFiniteSet(Exe(x, s)) /\ Cardinality(Exe(x, s)) \in Nat
  BY Finite, Zenon
<1>4. Cardinality(Exe(x, s) \cup {p}) = Cardinality(Exe(x, s)) + 1
  BY <1>1, <1>3, SizeAdds, Zenon
<1> QED
  BY <1>2, <1>3, <1>4
-----------------------------------------------------------------------------
(* Inodes: the fields that one assignment changes. *)
WithCnt(r, n) == [r EXCEPT !.open_cnt = n]
WithDeny(r, n) == [r EXCEPT !.deny_write_cnt = n]
WithRemoved(r) == [r EXCEPT !.removed = TRUE]
Same(a, b) == a.start = b.start /\ a.length = b.length /\ a.removed = b.removed

(* Changing one field of a struct inode leaves the others alone. *)
LEMMA InodeFields ==
  ASSUME NEW r \in Inode, NEW n \in Nat
  PROVE  /\ WithCnt(r, n) \in Inode /\ WithCnt(r, n).open_cnt = n
         /\ WithCnt(r, n).deny_write_cnt = r.deny_write_cnt /\ Same(WithCnt(r, n), r)
         /\ WithDeny(r, n) \in Inode /\ WithDeny(r, n).deny_write_cnt = n
         /\ WithDeny(r, n).open_cnt = r.open_cnt /\ Same(WithDeny(r, n), r)
         /\ WithRemoved(r) \in Inode /\ WithRemoved(r).removed
         /\ WithRemoved(r).open_cnt = r.open_cnt
         /\ WithRemoved(r).deny_write_cnt = r.deny_write_cnt
         /\ WithRemoved(r).start = r.start /\ WithRemoved(r).length = r.length
  BY Zenon DEF Inode, WithCnt, WithDeny, WithRemoved, Same

ReadAnew(s) == [open_cnt |-> 1, deny_write_cnt |-> 0, removed |-> FALSE,
                start |-> disk_inode[s].start, length |-> disk_inode[s].length]

(* inode_open. *)
LEMMA Opened ==
  ASSUME FsType, NEW s \in Sector
  PROVE  LET i == InodeOpen(s)
             r == open_inodes[s]
         IN  /\ i \in [Sector -> Inode] /\ \A t \in Sector \ {s} : i[t] = open_inodes[t]
             /\ i[s].open_cnt = r.open_cnt + 1
             /\ r.open_cnt > 0 => Same(i[s], r) /\ i[s].deny_write_cnt = r.deny_write_cnt
             /\ r.open_cnt = 0 => /\ i[s].deny_write_cnt = 0 /\ ~i[s].removed
                                  /\ i[s].start = disk_inode[s].start
                                  /\ i[s].length = disk_inode[s].length
<1> DEFINE r == open_inodes[s]
           new == IF r.open_cnt > 0 THEN WithCnt(r, r.open_cnt + 1) ELSE ReadAnew(s)
<1>1. InodeOpen(s) = [open_inodes EXCEPT ![s] = new]
  BY Zenon DEF InodeOpen, WithCnt, ReadAnew
<1>2. open_inodes \in [Sector -> Inode] /\ r \in Inode /\ r.open_cnt \in Nat
  BY Zenon DEF FsType, Inode
<1>3. /\ ReadAnew(s) \in Inode /\ ReadAnew(s).open_cnt = 1 /\ ReadAnew(s).deny_write_cnt = 0
      /\ ReadAnew(s).removed = FALSE
      /\ ReadAnew(s).start = disk_inode[s].start /\ ReadAnew(s).length = disk_inode[s].length
  <2>1. disk_inode[s].start \in 0..LastSector /\ disk_inode[s].length \in Nat /\ FALSE \in BOOLEAN
    BY Zenon DEF FsType
  <2> QED
    BY <2>1, Zenon DEF ReadAnew, Inode
<1>4. /\ WithCnt(r, r.open_cnt + 1) \in Inode /\ WithCnt(r, r.open_cnt + 1).open_cnt = r.open_cnt + 1
      /\ WithCnt(r, r.open_cnt + 1).deny_write_cnt = r.deny_write_cnt
      /\ Same(WithCnt(r, r.open_cnt + 1), r)
  <2>1. r.open_cnt + 1 \in Nat
    BY <1>2
  <2> QED
    BY <1>2, <2>1, InodeFields, Zenon
<1>5. new \in Inode
  BY <1>3, <1>4, Zenon
<1> HIDE DEF new
<1>6. /\ InodeOpen(s) \in [Sector -> Inode] /\ InodeOpen(s)[s] = new
      /\ \A t \in Sector \ {s} : InodeOpen(s)[t] = open_inodes[t]
  BY <1>1, <1>2, <1>5, Zenon
<1>7. CASE r.open_cnt > 0
  BY <1>2, <1>4, <1>6, <1>7 DEF new
<1>8. CASE r.open_cnt = 0
  BY <1>3, <1>6, <1>8 DEF new
<1> QED
  BY <1>2, <1>7, <1>8

(* inode_close. *)
LEMMA Closed ==
  ASSUME NEW i \in [Sector -> Inode], NEW s \in Sector, i[s].open_cnt > 0,
         NEW p \in Process \cup {NULL}, NEW next \in {"idle", "exit"}, InodeClose(s, i, p, next)
  PROVE  LET r == i[s]
             n == open_inodes'[s]
             gone == r.open_cnt = 1 /\ r.removed
         IN  /\ open_inodes' \in [Sector -> Inode]
             /\ \A t \in Sector \ {s} : open_inodes'[t] = i[t]
             /\ n.open_cnt = r.open_cnt - 1
             /\ r.open_cnt > 1 => Same(n, r) /\ n.deny_write_cnt = r.deny_write_cnt
             /\ r.open_cnt = 1 => n.deny_write_cnt = 0
             /\ pc' \in FsPC /\ op' \in Operands
             /\ gone => /\ pc' = "release" /\ op'.sector = s
                        /\ op'.start = r.start /\ op'.length = r.length
             /\ ~gone => pc' = next /\ (next = "exit" => op'.proc = p)
<1> DEFINE r == i[s]
           gone == r.open_cnt = 1 /\ r.removed
           new == IF r.open_cnt = 1 THEN NotOpen ELSE WithCnt(r, r.open_cnt - 1)
<1>1. r \in Inode /\ r.open_cnt \in Nat /\ r.start \in 0..LastSector /\ r.length \in Nat
  BY Zenon DEF Inode
<1>2. open_inodes' = [i EXCEPT ![s] = new]
  BY Zenon DEF InodeClose, WithCnt
<1>3. r.open_cnt - 1 \in Nat
  BY <1>1
<1>4. /\ WithCnt(r, r.open_cnt - 1) \in Inode
      /\ WithCnt(r, r.open_cnt - 1).open_cnt = r.open_cnt - 1
      /\ WithCnt(r, r.open_cnt - 1).deny_write_cnt = r.deny_write_cnt
      /\ Same(WithCnt(r, r.open_cnt - 1), r)
  BY <1>1, <1>3, InodeFields, Zenon
<1>5. /\ new \in Inode /\ new.open_cnt = r.open_cnt - 1
      /\ r.open_cnt > 1 => Same(new, r) /\ new.deny_write_cnt = r.deny_write_cnt
      /\ r.open_cnt = 1 => new.deny_write_cnt = 0
  <2>1. CASE r.open_cnt = 1
    BY <2>1, NotOpenType
  <2>2. CASE r.open_cnt # 1
    BY <1>4, <2>2, Zenon
  <2> QED
    BY <2>1, <2>2, Zenon
<1> HIDE DEF new
<1>6. /\ open_inodes' \in [Sector -> Inode] /\ open_inodes'[s] = new
      /\ \A t \in Sector \ {s} : open_inodes'[t] = i[t]
  BY <1>2, <1>5, Zenon
<1>7. CASE gone
  <2>1. /\ pc' = "release"
        /\ op' = [proc |-> p, file |-> NULL, sector |-> s, start |-> r.start, length |-> r.length]
    BY <1>7, Zenon DEF InodeClose
  <2>2. /\ op' \in Operands /\ op'.sector = s /\ op'.start = r.start /\ op'.length = r.length
    BY <1>1, <2>1, Zenon DEF Operands
  <2> QED
    BY <1>5, <1>6, <1>7, <2>1, <2>2, Zenon DEF FsPC
<1>8. CASE ~gone
  <2>1. pc' = next /\ op' = IF next = "idle" THEN NoOp ELSE [NoOp EXCEPT !.proc = p]
    BY <1>8, Zenon DEF InodeClose
  <2>2. [NoOp EXCEPT !.proc = p] \in Operands /\ [NoOp EXCEPT !.proc = p].proc = p
    BY NoOpType, Zenon DEF Operands
  <2>3. op' \in Operands /\ (next = "exit" => op'.proc = p)
    BY <2>1, <2>2, NoOpType, Zenon
  <2>4. pc' \in FsPC
    BY <2>1, Zenon DEF FsPC
  <2> QED
    BY <1>5, <1>6, <1>8, <2>1, <2>3, <2>4, Zenon
<1> QED
  BY <1>7, <1>8, Zenon

(* file_close: of a file that denied writes, these are allowed first. *)
LEMMA FileClosed ==
  ASSUME FsType, NEW f \in File, f.sector \in Sector, open_inodes[f.sector].open_cnt > 0,
         f.deny => open_inodes[f.sector].deny_write_cnt > 0,
         NEW p \in Process \cup {NULL}, NEW next \in {"idle", "exit"}, FileClose(f, p, next)
  PROVE  LET s == f.sector
             r == open_inodes[s]
             n == open_inodes'[s]
             gone == r.open_cnt = 1 /\ r.removed
         IN  /\ open_inodes' \in [Sector -> Inode]
             /\ \A t \in Sector \ {s} : open_inodes'[t] = open_inodes[t]
             /\ n.open_cnt = r.open_cnt - 1
             /\ r.open_cnt > 1 =>
                  Same(n, r) /\ n.deny_write_cnt = r.deny_write_cnt - IF f.deny THEN 1 ELSE 0
             /\ r.open_cnt = 1 => n.deny_write_cnt = 0
             /\ pc' \in FsPC /\ op' \in Operands
             /\ gone => /\ pc' = "release" /\ op'.sector = s
                        /\ op'.start = r.start /\ op'.length = r.length
             /\ ~gone => pc' = next /\ (next = "exit" => op'.proc = p)
<1> DEFINE s == f.sector
           r == open_inodes[s]
           allowed == [open_inodes EXCEPT ![s] = WithDeny(r, r.deny_write_cnt - 1)]
<1>1. /\ open_inodes \in [Sector -> Inode] /\ r \in Inode /\ r.open_cnt \in Nat
      /\ r.deny_write_cnt \in Nat
  BY Zenon DEF FsType, Inode
<1>2. CASE f.deny
  <2>1. InodeClose(s, allowed, p, next)
    <3>1. allowed = [open_inodes EXCEPT ![f.sector].deny_write_cnt = @ - 1]
      BY Zenon DEF WithDeny
    <3> QED
      BY <1>2, <3>1, Zenon DEF FileClose
  <2>2. r.deny_write_cnt - 1 \in Nat
    BY <1>1, <1>2
  <2> DEFINE w == WithDeny(r, r.deny_write_cnt - 1)
  <2>3. /\ w \in Inode /\ w.deny_write_cnt = r.deny_write_cnt - 1
        /\ w.open_cnt = r.open_cnt /\ Same(w, r)
    BY <1>1, <2>2, InodeFields, Zenon
  <2> HIDE DEF w
  <2>4. /\ allowed \in [Sector -> Inode] /\ allowed[s] = w
        /\ \A t \in Sector \ {s} : allowed[t] = open_inodes[t]
    BY <1>1, <2>3, Zenon DEF w
  <2> HIDE DEF allowed
  <2>5. allowed[s].open_cnt > 0
    BY <2>3, <2>4, Zenon
  <2>6. LET q == allowed[s]
            n == open_inodes'[s]
            gone == q.open_cnt = 1 /\ q.removed
        IN  /\ open_inodes' \in [Sector -> Inode]
            /\ \A t \in Sector \ {s} : open_inodes'[t] = allowed[t]
            /\ n.open_cnt = q.open_cnt - 1
            /\ q.open_cnt > 1 => Same(n, q) /\ n.deny_write_cnt = q.deny_write_cnt
            /\ q.open_cnt = 1 => n.deny_write_cnt = 0
            /\ pc' \in FsPC /\ op' \in Operands
            /\ gone => /\ pc' = "release" /\ op'.sector = s
                       /\ op'.start = q.start /\ op'.length = q.length
            /\ ~gone => pc' = next /\ (next = "exit" => op'.proc = p)
    BY <2>1, <2>4, <2>5, Closed
  <2> QED
    BY <1>2, <2>3, <2>4, <2>6, Zenon DEF Same
<1>3. CASE ~f.deny
  <2>1. InodeClose(s, open_inodes, p, next)
    BY <1>3, Zenon DEF FileClose
  <2>2. LET q == open_inodes[s]
            n == open_inodes'[s]
            gone == q.open_cnt = 1 /\ q.removed
        IN  /\ open_inodes' \in [Sector -> Inode]
            /\ \A t \in Sector \ {s} : open_inodes'[t] = open_inodes[t]
            /\ n.open_cnt = q.open_cnt - 1
            /\ q.open_cnt > 1 => Same(n, q) /\ n.deny_write_cnt = q.deny_write_cnt
            /\ q.open_cnt = 1 => n.deny_write_cnt = 0
            /\ pc' \in FsPC /\ op' \in Operands
            /\ gone => /\ pc' = "release" /\ op'.sector = s
                       /\ op'.start = q.start /\ op'.length = q.length
            /\ ~gone => pc' = next /\ (next = "exit" => op'.proc = p)
    BY <1>1, <2>1, Closed
  <2> QED
    BY <1>1, <1>3, <2>2
<1> QED
  BY <1>2, <1>3, Zenon
-----------------------------------------------------------------------------
(* bitmap_scan finds sectors of the disk that are not in use. *)
LEMMA FirstFits ==
  ASSUME NEW cnt \in Nat, Fits(cnt) # {}
  PROVE  /\ FirstFit(cnt) \in 0..LastSector
         /\ Data(FirstFit(cnt), cnt) \subseteq Sector \ free_map
<1>1. Fits(cnt) \in SUBSET Nat
  BY SectorFacts DEF Fits
<1>2. \E x \in Fits(cnt) : \A y \in Fits(cnt) : x <= y
  BY <1>1, LeastOf, Zenon
<1>3. FirstFit(cnt) \in Fits(cnt)
  BY <1>2, Zenon DEF FirstFit
<1>4. /\ FirstFit(cnt) \in 0..LastSector
      /\ cnt = 0 \/ Data(FirstFit(cnt), cnt) \subseteq Sector \ free_map
  BY <1>3, Zenon DEF Fits
<1>5. \A s \in 0..LastSector : Data(s, 0) = {}
  BY SectorFacts DEF Data
<1> QED
  BY <1>4, <1>5, Zenon

(* bitmap_scan for one sector finds a free one. *)
LEMMA FirstFree ==
  ASSUME Fits(1) # {}
  PROVE  FirstFit(1) \in Sector \ free_map
<1>1. /\ FirstFit(1) \in 0..LastSector
      /\ Data(FirstFit(1), 1) \subseteq Sector \ free_map
  BY FirstFits, Zenon
<1>2. FirstFit(1) \in Data(FirstFit(1), 1)
  BY <1>1, SectorFacts DEF Data
<1> QED
  BY <1>1, <1>2, Zenon

(* Operands, field by field. *)
LEMMA OperandFields ==
  ASSUME NEW r \in Operands, NEW n \in Nat, NEW b \in 0..LastSector, NEW p \in Process \cup {NULL}
  PROVE  /\ r.proc \in Process \cup {NULL} /\ r.file \in Name \cup {NULL}
         /\ r.sector \in Sector \cup {0} /\ r.start \in 0..LastSector /\ r.length \in Nat
         /\ [r EXCEPT !.length = n] \in Operands /\ [r EXCEPT !.length = n].sector = r.sector
         /\ [r EXCEPT !.length = n].file = r.file /\ [r EXCEPT !.length = n].length = n
         /\ [r EXCEPT !.length = n].start = r.start
         /\ [r EXCEPT !.start = b] \in Operands /\ [r EXCEPT !.start = b].sector = r.sector
         /\ [r EXCEPT !.start = b].file = r.file /\ [r EXCEPT !.start = b].length = r.length
         /\ [r EXCEPT !.start = b].start = b
         /\ [r EXCEPT !.proc = p] \in Operands /\ [r EXCEPT !.proc = p].proc = p
  BY Zenon DEF Operands

(* An operation that leaves inodes in memory and the tables alone. *)
LEMMA CountFrame ==
  ASSUME CInv, FsType', UNCHANGED <<open_inodes, fdt, exec_file, name>>,
         pc' = "exit" => op'.proc \in Process
  PROVE  CInv'
<1>1. \A s \in Sector : Counted(open_inodes, fdt, exec_file, s)
  BY CountsAre, Zenon DEF CInv
<1>2. OpenCount' /\ DenyCount'
  BY <1>1, CountsAre, Zenon
<1>3. Tables'
  BY Zenon DEF CInv, Tables
<1> QED
  BY <1>2, <1>3, Zenon DEF CInv

(* filesys_create opens and closes nothing. *)
LEMMA CreateCounts ==
  ASSUME CInv, NEW n \in Name, NEW l \in Length, Create(n, l) PROVE CInv'
<1>1. FirstFit(1) \in Sector
  BY FirstFree, Zenon DEF Create
<1>2. l \in Nat /\ 0 \in 0..LastSector
  BY FileSysAssumption
<1>3. [proc |-> NULL, file |-> n, sector |-> FirstFit(1), start |-> 0, length |-> l] \in Operands
  BY <1>1, <1>2, Zenon DEF Operands
<1>4. free_map' \subseteq Sector /\ disk_map' \subseteq Sector
  <2>1. free_map' = free_map \cup {FirstFit(1)} /\ disk_map' = free_map'
    BY Zenon DEF Create, Mark
  <2>2. free_map \subseteq Sector
    BY Zenon DEF CInv, FsType
  <2> QED
    BY <1>1, <2>1, <2>2, Zenon
<1>5. op' \in Operands /\ pc' \in FsPC
  BY <1>3, Zenon DEF Create, FsPC
<1>6. UNCHANGED <<dir, disk_inode, open_inodes, fdt, exec_file, name>>
  BY Zenon DEF Create, procs
<1>7. FsType'
  BY <1>4, <1>5, <1>6, Zenon DEF CInv, FsType
<1> QED
  BY <1>6, <1>7, CountFrame, Zenon DEF Create

(* Nor does inode_create, *)
LEMMA InodeCreateCounts ==
  ASSUME CInv, InodeCreate PROVE CInv'
<1>0. FsType
  BY Zenon DEF CInv
<1>1. op \in Operands /\ op.length \in Nat
  BY <1>0, OperandFields, Zenon DEF FsType, Operands
<1>2. CASE Fits(op.length) = {}
  <2>1. op' \in Operands
    BY <1>1, <1>2, OperandFields DEF InodeCreate, Operands
  <2>2. FsType'
    BY <1>0, <1>2, <2>1, Zenon DEF FsType, InodeCreate, FsPC, procs
  <2> QED
    BY <1>2, <2>2, CountFrame, Zenon DEF InodeCreate, procs
<1>3. CASE Fits(op.length) # {}
  <2> DEFINE start == FirstFit(op.length)
  <2>1. start \in 0..LastSector /\ Data(start, op.length) \subseteq Sector
    BY <1>1, <1>3, FirstFits, Zenon
  <2>2. /\ op' = [op EXCEPT !.start = start] /\ pc' = "inode_write"
        /\ free_map' = free_map \cup Data(start, op.length) /\ disk_map' = free_map'
        /\ UNCHANGED <<dir, disk_inode, open_inodes, procs>>
    BY <1>3, Zenon DEF InodeCreate, Mark
  <2> HIDE DEF start
  <2>3. op' \in Operands
    BY <1>1, <2>1, <2>2, Zenon DEF Operands
  <2>4. FsType'
    BY <1>0, <2>1, <2>2, <2>3, Zenon DEF FsType, FsPC, procs
  <2> QED
    BY <2>2, <2>4, CountFrame, Zenon DEF procs
<1> QED
  BY <1>2, <1>3, Zenon

(* its write of the inode, *)
LEMMA InodeWriteCounts ==
  ASSUME CInv, InodeWrite PROVE CInv'
<1>0. FsType /\ op.start \in 0..LastSector /\ op.length \in Nat
  BY Zenon DEF CInv, FsType, Operands
<1>1. [start |-> op.start, length |-> op.length] \in [start : 0..LastSector, length : Nat]
  BY <1>0, Zenon
<1>2. disk_inode' \in [Sector -> [start : 0..LastSector, length : Nat]]
  BY <1>0, <1>1, Zenon DEF InodeWrite, FsType
<1>3. FsType'
  BY <1>0, <1>2, Zenon DEF FsType, InodeWrite, FsPC, memory, procs
<1> QED
  BY <1>3, CountFrame, Zenon DEF InodeWrite, memory, procs

(* dir_add, *)
LEMMA DirAddCounts ==
  ASSUME CInv, DirAdd PROVE CInv'
<1>0. FsType /\ op.sector \in Sector \cup {0}
  BY Zenon DEF CInv, FsType, Operands
<1>1. /\ UNCHANGED <<disk_inode, disk_map, free_map, open_inodes, fdt, exec_file, name>>
      /\ \/ pc' = "undo" /\ dir' = dir /\ op' = op
         \/ pc' = "idle" /\ dir' = [dir EXCEPT ![op.file] = op.sector] /\ op' = NoOp
  BY Zenon DEF DirAdd, memory, procs
<1>2. dir' \in [Name -> Sector \cup {0}]
  BY <1>0, <1>1, Zenon DEF FsType
<1>3. FsType'
  BY <1>0, <1>1, <1>2, NoOpType, Zenon DEF FsType, FsPC
<1> QED
  BY <1>1, <1>3, CountFrame, Zenon

(* giving back the inode's sector after a failure, *)
LEMMA UndoCounts ==
  ASSUME CInv, Undo PROVE CInv'
<1>1. FsType'
  BY NoOpType, Zenon DEF CInv, FsType, FsPC, Undo, Release, procs
<1> QED
  BY <1>1, CountFrame, Zenon DEF Undo, procs

(* or free_map_release of a removed file's inode *)
LEMMA ReleaseInodeCounts ==
  ASSUME CInv, ReleaseInode PROVE CInv'
<1>1. FsType'
  BY Zenon DEF CInv, FsType, FsPC, ReleaseInode, Release, procs
<1> QED
  BY <1>1, CountFrame, Zenon DEF ReleaseInode, procs

(* and of its data. *)
LEMMA ReleaseDataCounts ==
  ASSUME CInv, ReleaseData PROVE CInv'
<1>0. FsType /\ op.proc \in Process \cup {NULL}
  BY Zenon DEF CInv, FsType, Operands
<1>1. [NoOp EXCEPT !.proc = op.proc] \in Operands /\ [NoOp EXCEPT !.proc = op.proc].proc = op.proc
  BY <1>0, NoOpType, Zenon DEF Operands
<1>2. /\ UNCHANGED <<dir, disk_inode, open_inodes, fdt, exec_file, name>>
      /\ free_map' = free_map \ Data(op.start, op.length) /\ disk_map' = free_map'
      /\ \/ op.proc # NULL /\ pc' = "exit" /\ op' = [NoOp EXCEPT !.proc = op.proc]
         \/ pc' = "idle" /\ op' = NoOp
  BY Zenon DEF ReleaseData, Release, procs
<1>3. FsType'
  BY <1>0, <1>1, <1>2, NoOpType, Zenon DEF FsType, FsPC
<1> QED
  BY <1>0, <1>1, <1>2, <1>3, CountFrame, Zenon
-----------------------------------------------------------------------------
(* What the counts of an inode say of the tables. *)
LEMMA CountFacts ==
  ASSUME CInv, NEW s \in Sector
  PROVE  /\ Counted(open_inodes, fdt, exec_file, s)
         /\ open_inodes[s] \in Inode /\ open_inodes[s].open_cnt \in Nat
         /\ open_inodes[s].deny_write_cnt \in Nat
         /\ open_inodes[s].open_cnt = 0 => open_inodes[s].deny_write_cnt = 0
<1>1. Counted(open_inodes, fdt, exec_file, s)
  BY CountsAre, Zenon DEF CInv
<1>2. open_inodes[s] \in Inode
  BY Zenon DEF CInv, FsType
<1>3. open_inodes[s].open_cnt \in Nat /\ open_inodes[s].deny_write_cnt \in Nat
  BY <1>2, Zenon DEF Inode
<1>4. /\ Cardinality(Opn(fdt, s)) \in Nat /\ Cardinality(Den(fdt, s)) \in Nat
      /\ Cardinality(Exe(exec_file, s)) \in Nat
      /\ Cardinality(Den(fdt, s)) <= Cardinality(Opn(fdt, s))
  BY Finite, Zenon
<1> QED
  BY <1>1, <1>2, <1>3, <1>4 DEF Counted

(* filesys_open: one more descriptor, one more opener. *)
LEMMA OpenCounts ==
  ASSUME CInv, NEW p \in Process, NEW n \in Name, Open(p, n) PROVE CInv'
<1> DEFINE s == dir[n]
           d == n = name[p]
           new == [sector |-> s, deny |-> d]
           k == Len(fdt[p]) + 1
           i == InodeOpen(s)
           r == open_inodes[s]
<1>0. FsType /\ s \in Sector /\ fdt[p] \in Seq(File) /\ Len(fdt[p]) \in Nat
      /\ Len(fdt[p]) < FdtMax /\ fdt \in [Process -> Seq(File)] /\ FdtMax \in Nat
  BY SectorFacts DEF CInv, FsType, Open
<1>1. d \in BOOLEAN
  BY Zenon
<1>2. new \in File /\ new.sector = s /\ new.deny = d
  BY <1>0, <1>1, Zenon DEF File
<1>3. fdt' = [fdt EXCEPT ![p] = Append(fdt[p], new)]
  BY Zenon DEF Open
<1>4. /\ open_inodes' = IF d THEN [i EXCEPT ![s] = WithDeny(i[s], i[s].deny_write_cnt + 1)] ELSE i
  BY Zenon DEF Open, WithDeny
<1>5. UNCHANGED <<dir, disk_inode, disk_map, free_map, exec_file, name, pc, op>>
  BY Zenon DEF Open, disk
<1>6. /\ i \in [Sector -> Inode] /\ \A t \in Sector \ {s} : i[t] = open_inodes[t]
      /\ i[s].open_cnt = r.open_cnt + 1 /\ i[s].deny_write_cnt = r.deny_write_cnt
      /\ r.open_cnt \in Nat /\ r.deny_write_cnt \in Nat
  <2>1. /\ i \in [Sector -> Inode] /\ \A t \in Sector \ {s} : i[t] = open_inodes[t]
        /\ i[s].open_cnt = r.open_cnt + 1
        /\ r.open_cnt > 0 => i[s].deny_write_cnt = r.deny_write_cnt
        /\ r.open_cnt = 0 => i[s].deny_write_cnt = 0
    BY <1>0, Opened, Zenon
  <2>2. /\ r.open_cnt \in Nat /\ r.deny_write_cnt \in Nat
        /\ r.open_cnt = 0 => r.deny_write_cnt = 0
    BY <1>0, CountFacts, Zenon
  <2> QED
    BY <2>1, <2>2
<1> HIDE DEF s, d, new, i, r
<1>7. /\ open_inodes' \in [Sector -> Inode]
      /\ \A t \in Sector \ {s} : open_inodes'[t] = open_inodes[t]
      /\ open_inodes'[s].open_cnt = r.open_cnt + 1
      /\ open_inodes'[s].deny_write_cnt = r.deny_write_cnt + IF d THEN 1 ELSE 0
  <2>1. CASE d
    <3> DEFINE w == WithDeny(i[s], i[s].deny_write_cnt + 1)
    <3>1. i[s] \in Inode /\ i[s].deny_write_cnt + 1 \in Nat
      BY <1>0, <1>6
    <3>2. /\ w \in Inode /\ w.deny_write_cnt = r.deny_write_cnt + 1 /\ w.open_cnt = i[s].open_cnt
      BY <1>6, <3>1, InodeFields
    <3>3. open_inodes' = [i EXCEPT ![s] = w]
      BY <1>4, <2>1, Zenon
    <3> HIDE DEF w
    <3> QED
      BY <1>0, <1>6, <2>1, <3>2, <3>3, Zenon
  <2>2. CASE ~d
    BY <1>4, <1>6, <2>2
  <2> QED
    BY <2>1, <2>2, Zenon
<1>8. /\ fdt' \in [Process -> Seq(File)] /\ fdt'[p] \in Seq(File) /\ Len(fdt'[p]) = k
      /\ fdt'[p][k] = new /\ \A j \in 1..Len(fdt[p]) : fdt'[p][j] = fdt[p][j]
      /\ \A q \in Process \ {p} : fdt'[q] = fdt[q]
  <2>1. /\ Append(fdt[p], new) \in Seq(File) /\ Len(Append(fdt[p], new)) = k
        /\ Append(fdt[p], new)[k] = new
        /\ \A j \in 1..Len(fdt[p]) : Append(fdt[p], new)[j] = fdt[p][j]
    BY <1>0, <1>2
  <2> QED
    BY <1>0, <1>3, <2>1, Zenon
<1>9. k \in 1..FdtMax
  BY <1>0
<1>10. Adds(fdt, fdt', p, k, new)
  <2>1. k \notin 1..Len(fdt[p]) /\ k \in 1..Len(fdt'[p])
    BY <1>0, <1>8
  <2>2. \A j \in 1..FdtMax : j # k => (j \in 1..Len(fdt[p]) <=> j \in 1..Len(fdt'[p]))
    BY <1>0, <1>8
  <2>3. ASSUME NEW q \in Process, NEW j \in 1..FdtMax, q # p \/ j # k
        PROVE  /\ j \in 1..Len(fdt[q]) <=> j \in 1..Len(fdt'[q])
               /\ j \in 1..Len(fdt[q]) => fdt'[q][j] = fdt[q][j]
    <3> HIDE DEF k
    <3>1. CASE q = p
      BY <1>8, <2>2, <2>3, <3>1, Zenon
    <3>2. CASE q # p
      BY <1>8, <3>2, Zenon
    <3> QED
      BY <3>1, <3>2, Zenon
  <2> HIDE DEF k
  <2> QED
    BY <1>0, <1>2, <1>8, <1>9, <2>1, <2>3, Zenon DEF Adds
<1>11. \A t \in Sector :
         /\ Cardinality(Opn(fdt', t)) = Cardinality(Opn(fdt, t)) + IF t = s THEN 1 ELSE 0
         /\ Cardinality(Den(fdt', t)) = Cardinality(Den(fdt, t)) + IF t = s /\ d THEN 1 ELSE 0
  <2> HIDE DEF k
  <2>1. \A t \in Sector :
         /\ Cardinality(Opn(fdt', t)) = Cardinality(Opn(fdt, t)) + IF t = new.sector THEN 1 ELSE 0
         /\ Cardinality(Den(fdt', t)) =
              Cardinality(Den(fdt, t)) + IF t = new.sector /\ new.deny THEN 1 ELSE 0
    BY <1>10, TableCounts
  <2> QED
    BY <1>2, <2>1, Zenon
<1>12. OpenCount' /\ DenyCount'
  <2>1. ASSUME NEW t \in Sector PROVE Counted(open_inodes', fdt', exec_file', t)
    <3>1. Counted(open_inodes, fdt, exec_file, t)
      BY CountFacts, Zenon
    <3>2. /\ Cardinality(Opn(fdt, t)) \in Nat /\ Cardinality(Den(fdt, t)) \in Nat
          /\ Cardinality(Exe(exec_file, t)) \in Nat
      BY Finite, Zenon
    <3> QED
      BY <1>5, <1>7, <1>11, <3>1, <3>2 DEF Counted, r
  <2> QED
    BY <2>1, CountsAre, Zenon
<1>13. FsType'
  BY <1>0, <1>5, <1>7, <1>8, Zenon DEF FsType
<1>14. Tables'
  <2>1. \A q \in Process : Len(fdt'[q]) <= FdtMax
    <3> TAKE q \in Process
    <3>1. CASE q = p
      BY <1>0, <1>8, <3>1
    <3>2. CASE q # p
      BY <1>8, <3>2, Zenon DEF CInv, Tables
    <3> QED
      BY <3>1, <3>2, Zenon
  <2>2. ASSUME NEW q \in Process, NEW j \in 1..Len(fdt'[q])
        PROVE  fdt'[q][j] = NoFile \/ fdt'[q][j].sector \in Sector
    <3>1. CASE q # p
      BY <1>8, <3>1, Zenon DEF CInv, Tables
    <3>2. CASE q = p /\ j = k
      BY <1>0, <1>2, <1>8, <3>2, Zenon
    <3>3. CASE q = p /\ j # k
      <4>1. j \in 1..Len(fdt[p])
        BY <1>0, <1>8, <3>3
      <4> QED
        BY <1>8, <3>3, <4>1, Zenon DEF CInv, Tables
    <3> QED
      BY <3>1, <3>2, <3>3, Zenon
  <2> QED
    BY <1>5, <2>1, <2>2, Zenon DEF CInv, Tables
<1> QED
  BY <1>5, <1>12, <1>13, <1>14, Zenon DEF CInv

(* A file goes from a table, and is closed. *)
LEMMA DropCounts ==
  ASSUME CInv, NEW p \in Process, NEW fd \in 1..Len(fdt[p]), fdt[p][fd] # NoFile,
         NEW w \in Process \cup {NULL}, NEW next \in {"idle", "exit"},
         next = "exit" => w \in Process,
         FileClose(fdt[p][fd], w, next), fdt' = [fdt EXCEPT ![p][fd] = NoFile],
         UNCHANGED <<dir, disk_inode, disk_map, free_map, exec_file, name>>
  PROVE  CInv'
<1> DEFINE f == fdt[p][fd]
           s == f.sector
           r == open_inodes[s]
<1>0. /\ FsType /\ fdt \in [Process -> Seq(File)] /\ fdt[p] \in Seq(File)
      /\ Len(fdt[p]) \in Nat /\ Len(fdt[p]) <= FdtMax /\ FdtMax \in Nat /\ fd \in 1..FdtMax
      /\ f \in File /\ s \in Sector /\ f.deny \in BOOLEAN
  <2>1. FsType /\ fdt \in [Process -> Seq(File)] /\ fdt[p] \in Seq(File) /\ Len(fdt[p]) \in Nat
    BY DEF CInv, FsType
  <2>2. Len(fdt[p]) <= FdtMax /\ FdtMax \in Nat /\ s \in Sector
    BY SectorFacts, Zenon DEF CInv, Tables
  <2>3. f \in File /\ fd \in 1..FdtMax
    BY <2>1, <2>2
  <2> QED
    BY <2>1, <2>2, <2>3, Zenon DEF File
<1>1. /\ fdt'[p] \in Seq(File) /\ Len(fdt'[p]) = Len(fdt[p]) /\ fdt'[p][fd] = NoFile
      /\ \A j \in 1..Len(fdt[p]) : j # fd => fdt'[p][j] = fdt[p][j]
      /\ \A q \in Process \ {p} : fdt'[q] = fdt[q]
      /\ fdt' \in [Process -> Seq(File)]
  <2> DEFINE t == [fdt[p] EXCEPT ![fd] = NoFile]
  <2>1. /\ t \in Seq(File) /\ Len(t) = Len(fdt[p]) /\ t[fd] = NoFile
        /\ \A j \in 1..Len(fdt[p]) : j # fd => t[j] = fdt[p][j]
    BY <1>0, NoFileType
  <2>2. fdt' = [fdt EXCEPT ![p] = t]
    BY Zenon
  <2> HIDE DEF t
  <2> QED
    BY <1>0, <2>1, <2>2, Zenon
<1>2. Adds(fdt', fdt, p, fd, f)
  BY <1>0, <1>1, NoFileType, Zenon DEF Adds
<1>3. \A t \in Sector :
        /\ Cardinality(Opn(fdt, t)) = Cardinality(Opn(fdt', t)) + IF t = s THEN 1 ELSE 0
        /\ Cardinality(Den(fdt, t)) = Cardinality(Den(fdt', t)) + IF t = s /\ f.deny THEN 1 ELSE 0
  BY <1>2, TableCounts
<1>4. ASSUME NEW t \in Sector
      PROVE  /\ open_inodes[t].open_cnt = Cardinality(Opn(fdt, t)) + Cardinality(Exe(exec_file, t))
             /\ open_inodes[t].deny_write_cnt = Cardinality(Den(fdt, t))
             /\ Cardinality(Opn(fdt', t)) \in Nat /\ Cardinality(Den(fdt', t)) \in Nat
             /\ Cardinality(Exe(exec_file, t)) \in Nat
             /\ Cardinality(Den(fdt', t)) <= Cardinality(Opn(fdt', t))
  <2>1. Counted(open_inodes, fdt, exec_file, t)
    BY CountFacts, Zenon
  <2> QED
    BY <2>1, Finite, Zenon DEF Counted
<1> HIDE DEF f, s, r
<1>4s. /\ r.open_cnt = Cardinality(Opn(fdt', s)) + 1 + Cardinality(Exe(exec_file, s))
       /\ r.deny_write_cnt = Cardinality(Den(fdt', s)) + IF f.deny THEN 1 ELSE 0
       /\ Cardinality(Opn(fdt', s)) \in Nat /\ Cardinality(Den(fdt', s)) \in Nat
       /\ Cardinality(Exe(exec_file, s)) \in Nat
       /\ Cardinality(Den(fdt', s)) <= Cardinality(Opn(fdt', s))
  <2>1. /\ Cardinality(Opn(fdt, s)) = Cardinality(Opn(fdt', s)) + 1
        /\ Cardinality(Den(fdt, s)) = Cardinality(Den(fdt', s)) + IF f.deny THEN 1 ELSE 0
    BY <1>0, <1>3, Zenon
  <2>2. /\ r.open_cnt = Cardinality(Opn(fdt, s)) + Cardinality(Exe(exec_file, s))
        /\ r.deny_write_cnt = Cardinality(Den(fdt, s))
        /\ Cardinality(Opn(fdt', s)) \in Nat /\ Cardinality(Den(fdt', s)) \in Nat
        /\ Cardinality(Exe(exec_file, s)) \in Nat
        /\ Cardinality(Den(fdt', s)) <= Cardinality(Opn(fdt', s))
    BY <1>0, <1>4, Zenon DEF r
  <2> QED
    BY <2>1, <2>2, Zenon
<1>5. r.open_cnt > 0 /\ (f.deny => r.deny_write_cnt > 0)
  BY <1>4s
<1>6. /\ open_inodes' \in [Sector -> Inode]
      /\ \A t \in Sector \ {s} : open_inodes'[t] = open_inodes[t]
      /\ open_inodes'[s].open_cnt = r.open_cnt - 1
      /\ r.open_cnt > 1 =>
           open_inodes'[s].deny_write_cnt = r.deny_write_cnt - IF f.deny THEN 1 ELSE 0
      /\ r.open_cnt = 1 => open_inodes'[s].deny_write_cnt = 0
      /\ pc' \in FsPC /\ op' \in Operands
      /\ pc' \in {"release", next} /\ (pc' = "exit" => op'.proc = w)
  <2>1. FileClose(f, w, next)
    BY Zenon DEF f
  <2>2. LET n == open_inodes'[s]
            gone == r.open_cnt = 1 /\ r.removed
        IN  /\ open_inodes' \in [Sector -> Inode]
            /\ \A t \in Sector \ {s} : open_inodes'[t] = open_inodes[t]
            /\ n.open_cnt = r.open_cnt - 1
            /\ r.open_cnt > 1 =>
                 Same(n, r) /\ n.deny_write_cnt = r.deny_write_cnt - IF f.deny THEN 1 ELSE 0
            /\ r.open_cnt = 1 => n.deny_write_cnt = 0
            /\ pc' \in FsPC /\ op' \in Operands
            /\ gone => /\ pc' = "release" /\ op'.sector = s
                       /\ op'.start = r.start /\ op'.length = r.length
            /\ ~gone => pc' = next /\ (next = "exit" => op'.proc = w)
    BY <1>0, <1>5, <2>1, FileClosed, Zenon DEF s, r
  <2> QED
    BY <2>2, Zenon
<1>7. r \in Inode /\ r.open_cnt \in Nat
  BY <1>0, Zenon DEF FsType, Inode, r
<1>8. ASSUME NEW t \in Sector PROVE Counted(open_inodes', fdt', exec_file', t)
  <2>0. exec_file' = exec_file
    BY Zenon
  <2>1. CASE t # s
    <3>1. /\ Cardinality(Opn(fdt, t)) = Cardinality(Opn(fdt', t)) + 0
          /\ Cardinality(Den(fdt, t)) = Cardinality(Den(fdt', t)) + 0
      BY <1>3, <2>1, Zenon
    <3>2. /\ Cardinality(Opn(fdt, t)) = Cardinality(Opn(fdt', t))
          /\ Cardinality(Den(fdt, t)) = Cardinality(Den(fdt', t))
      <4>1. Cardinality(Opn(fdt', t)) \in Nat /\ Cardinality(Den(fdt', t)) \in Nat
        BY <1>4, Zenon
      <4> QED
        BY <3>1, <4>1
    <3>3. open_inodes'[t] = open_inodes[t]
      BY <1>6, <2>1, Zenon
    <3> QED
      BY <1>4, <2>0, <3>2, <3>3, Zenon DEF Counted
  <2>2. CASE t = s /\ r.open_cnt > 1
    BY <1>4s, <1>6, <2>0, <2>2 DEF Counted
  <2>3. CASE t = s /\ r.open_cnt = 1
    <3>1. Cardinality(Opn(fdt', s)) = 0 /\ Cardinality(Exe(exec_file, s)) = 0
      BY <1>4s, <2>3
    <3>2. Cardinality(Den(fdt', s)) = 0
      BY <1>4s, <3>1
    <3> QED
      BY <1>6, <2>0, <2>3, <3>1, <3>2 DEF Counted
  <2> QED
    BY <1>5, <1>7, <2>1, <2>2, <2>3
<1>9. OpenCount' /\ DenyCount'
  BY <1>8, CountsAre, Zenon
<1>10. FsType'
  BY <1>0, <1>1, <1>6, Zenon DEF FsType
<1>11. Tables'
  <2>1. ASSUME NEW q \in Process
        PROVE  /\ Len(fdt'[q]) <= FdtMax
               /\ \A j \in 1..Len(fdt'[q]) : fdt'[q][j] = NoFile \/ fdt'[q][j].sector \in Sector
    <3>1. CASE q = p
      BY <1>0, <1>1, <3>1 DEF CInv, Tables
    <3>2. CASE q # p
      BY <1>1, <3>2, Zenon DEF CInv, Tables
    <3> QED
      BY <3>1, <3>2, Zenon
  <2> QED
    BY <2>1, Zenon DEF CInv, Tables
<1>12. pc' = "exit" => op'.proc \in Process
  BY <1>6, Zenon
<1> QED
  BY <1>9, <1>10, <1>11, <1>12, Zenon DEF CInv

(* The close system call. *)
LEMMA CloseCounts ==
  ASSUME CInv, NEW p \in Process, NEW fd \in DOMAIN fdt[p], Close(p, fd) PROVE CInv'
<1>1. fd \in 1..Len(fdt[p])
  BY DEF CInv, FsType
<1> QED
  BY <1>1, DropCounts, Zenon DEF Close, disk

(* The next file that process_exit closes. *)
LEMMA NextFile ==
  ASSUME CInv, NEW p \in Process
  PROVE  LET files == {fd \in DOMAIN fdt[p] : fdt[p][fd] # NoFile}
             fd == CHOOSE f \in files : \A g \in files : f <= g
         IN  files # {} => fd \in 1..Len(fdt[p]) /\ fdt[p][fd] # NoFile
<1> DEFINE files == {fd \in DOMAIN fdt[p] : fdt[p][fd] # NoFile}
           fd == CHOOSE f \in files : \A g \in files : f <= g
<1>1. DOMAIN fdt[p] = 1..Len(fdt[p]) /\ Len(fdt[p]) \in Nat
  BY DEF CInv, FsType
<1>2. files \in SUBSET Nat
  BY <1>1
<1>3. ASSUME files # {} PROVE fd \in files
  <2> HIDE DEF files
  <2>1. \E x \in files : \A y \in files : x <= y
    BY <1>2, <1>3, LeastOf, Zenon
  <2> QED
    BY <2>1, Zenon
<1> QED
  BY <1>1, <1>3, Zenon

(* process_exit closes one file after the other. *)
LEMMA ExitFilesCounts ==
  ASSUME CInv, ExitFiles PROVE CInv'
<1> DEFINE p == op.proc
           files == {fd \in DOMAIN fdt[p] : fdt[p][fd] # NoFile}
           fd == CHOOSE f \in files : \A g \in files : f <= g
<1>1. p \in Process /\ pc = "exit"
  BY Zenon DEF CInv, ExitFiles
<1>2. UNCHANGED <<dir, disk_inode, disk_map, free_map, exec_file, name>>
  BY Zenon DEF ExitFiles, disk
<1>3. CASE files # {}
  <2>1. fd \in 1..Len(fdt[p]) /\ fdt[p][fd] # NoFile
    BY <1>1, <1>3, NextFile, Zenon
  <2>2. FileClose(fdt[p][fd], p, "exit") /\ fdt' = [fdt EXCEPT ![p][fd] = NoFile]
    BY <1>3, Zenon DEF ExitFiles
  <2> HIDE DEF fd, p
  <2> QED
    BY <1>1, <1>2, <2>1, <2>2, DropCounts, Zenon
<1>4. CASE files = {}
  <2>0. FsType /\ fdt \in [Process -> Seq(File)] /\ fdt[p] \in Seq(File)
        /\ DOMAIN fdt[p] = 1..Len(fdt[p])
    BY <1>1 DEF CInv, FsType
  <2>1. fdt' = [fdt EXCEPT ![p] = <<>>] /\ pc' = "idle" /\ op' = NoOp /\ open_inodes' = open_inodes
    BY <1>4, Zenon DEF ExitFiles
  <2>2. \A j \in 1..Len(fdt[p]) : fdt[p][j] = NoFile
    BY <1>4, <2>0, Zenon
  <2> HIDE DEF p
  <2>3. /\ fdt' \in [Process -> Seq(File)] /\ Len(fdt'[p]) = 0
        /\ \A q \in Process \ {p} : fdt'[q] = fdt[q]
    BY <1>1, <2>0, <2>1
  <2>4. ASSUME NEW s \in Sector PROVE Opn(fdt', s) = Opn(fdt, s) /\ Den(fdt', s) = Den(fdt, s)
    <3>0. s # 0 /\ NoFile.sector = 0
      BY SectorFacts, NoFileType, Zenon
    <3>1. ASSUME NEW q \in Process, NEW k \in 1..FdtMax
          PROVE  /\ <<q, k>> \in Opn(fdt', s) <=> <<q, k>> \in Opn(fdt, s)
                 /\ <<q, k>> \in Den(fdt', s) <=> <<q, k>> \in Den(fdt, s)
      <4>1. /\ <<q, k>> \in Opn(fdt', s) <=> k \in 1..Len(fdt'[q]) /\ fdt'[q][k].sector = s
            /\ <<q, k>> \in Den(fdt', s) <=>
                 k \in 1..Len(fdt'[q]) /\ fdt'[q][k].sector = s /\ fdt'[q][k].deny
        BY <2>3, OpnAre, Zenon
      <4>2. /\ <<q, k>> \in Opn(fdt, s) <=> k \in 1..Len(fdt[q]) /\ fdt[q][k].sector = s
            /\ <<q, k>> \in Den(fdt, s) <=>
                 k \in 1..Len(fdt[q]) /\ fdt[q][k].sector = s /\ fdt[q][k].deny
        BY <2>0, OpnAre, Zenon
      <4>3. CASE q # p
        BY <2>3, <4>1, <4>2, <4>3, Zenon
      <4>4. CASE q = p
        BY <2>2, <2>3, <3>0, <4>1, <4>2, <4>4
      <4> QED
        BY <4>3, <4>4, Zenon
    <3>2. Opn(fdt', s) = Opn(fdt, s)
      <4>1. \A x \in Opn(fdt', s) : \E q \in Process, k \in 1..FdtMax : x = <<q, k>>
        BY OpnShape
      <4>2. \A x \in Opn(fdt, s) : \E q \in Process, k \in 1..FdtMax : x = <<q, k>>
        BY OpnShape
      <4> QED
        BY <3>1, <4>1, <4>2
    <3>3. Den(fdt', s) = Den(fdt, s)
      <4>1. \A x \in Den(fdt', s) : \E q \in Process, k \in 1..FdtMax : x = <<q, k>>
        BY DenShape
      <4>2. \A x \in Den(fdt, s) : \E q \in Process, k \in 1..FdtMax : x = <<q, k>>
        BY DenShape
      <4> QED
        BY <3>1, <4>1, <4>2
    <3> QED
      BY <3>2, <3>3, Zenon
  <2>5. \A s \in Sector : Counted(open_inodes', fdt', exec_file', s)
    BY <1>2, <2>1, <2>4, CountFacts, Zenon DEF Counted
  <2>6. OpenCount' /\ DenyCount'
    BY <2>5, CountsAre, Zenon
  <2>7. FsType'
    BY <1>2, <2>0, <2>1, <2>3, NoOpType, Zenon DEF FsType, FsPC
  <2>8. Tables'
    <3>1. ASSUME NEW q \in Process
          PROVE  /\ Len(fdt'[q]) <= FdtMax
                 /\ \A j \in 1..Len(fdt'[q]) : fdt'[q][j] = NoFile \/ fdt'[q][j].sector \in Sector
      <4>1. CASE q = p
        BY <2>3, <4>1, SectorFacts
      <4>2. CASE q # p
        BY <2>3, <4>2, Zenon DEF CInv, Tables
      <4> QED
        BY <4>1, <4>2, Zenon
    <3> QED
      BY <1>2, <3>1, Zenon DEF CInv, Tables
  <2> QED
    BY <2>1, <2>6, <2>7, <2>8, Zenon DEF CInv
<1> QED
  BY <1>3, <1>4, Zenon

(* A program is loaded: its file is open once more. *)
LEMMA LoadCounts ==
  ASSUME CInv, NEW p \in Process, NEW n \in Name, Load(p, n) PROVE CInv'
<1> DEFINE s == dir[n]
           r == open_inodes[s]
<1>0. /\ FsType /\ s \in Sector /\ dir[n] # 0 /\ name[p] = NULL /\ exec_file[p] = 0
      /\ exec_file \in [Process -> Sector \cup {0}] /\ name \in [Process -> Name \cup {NULL}]
  <2>1. FsType /\ dir[n] # 0 /\ name[p] = NULL /\ dir \in [Name -> Sector \cup {0}]
    BY Zenon DEF CInv, FsType, Load
  <2>2. exec_file[p] = 0
    BY <2>1, Zenon DEF CInv, Tables
  <2> QED
    BY <2>1, <2>2, Zenon DEF FsType
<1>1. /\ exec_file' = [exec_file EXCEPT ![p] = s] /\ name' = [name EXCEPT ![p] = n]
      /\ open_inodes' = InodeOpen(s)
      /\ UNCHANGED <<dir, disk_inode, disk_map, free_map, fdt, pc, op>>
  BY Zenon DEF Load, disk
<1> HIDE DEF s, r
<1>2. /\ open_inodes' \in [Sector -> Inode]
      /\ \A t \in Sector \ {s} : open_inodes'[t] = open_inodes[t]
      /\ open_inodes'[s].open_cnt = r.open_cnt + 1
      /\ open_inodes'[s].deny_write_cnt = r.deny_write_cnt
  <2>1. /\ InodeOpen(s) \in [Sector -> Inode] /\ \A t \in Sector \ {s} : InodeOpen(s)[t] = open_inodes[t]
        /\ InodeOpen(s)[s].open_cnt = r.open_cnt + 1
        /\ r.open_cnt > 0 => InodeOpen(s)[s].deny_write_cnt = r.deny_write_cnt
        /\ r.open_cnt = 0 => InodeOpen(s)[s].deny_write_cnt = 0
    BY <1>0, Opened, Zenon DEF r
  <2>2. /\ r.open_cnt \in Nat /\ r.deny_write_cnt \in Nat
        /\ r.open_cnt = 0 => r.deny_write_cnt = 0
    BY <1>0, CountFacts, Zenon DEF r
  <2> QED
    BY <1>1, <2>1, <2>2
<1>3. \A t \in Sector :
        Cardinality(Exe(exec_file', t)) = Cardinality(Exe(exec_file, t)) + IF t = s THEN 1 ELSE 0
  <2>1. exec_file[p] = 0 /\ exec_file'[p] = s /\ \A q \in Process \ {p} : exec_file'[q] = exec_file[q]
    BY <1>0, <1>1, Zenon
  <2> QED
    BY <1>0, <2>1, ExecCounts
<1>4. OpenCount' /\ DenyCount'
  <2>1. ASSUME NEW t \in Sector PROVE Counted(open_inodes', fdt', exec_file', t)
    <3>1. Counted(open_inodes, fdt, exec_file, t)
      BY CountFacts, Zenon
    <3>2. /\ Cardinality(Opn(fdt, t)) \in Nat /\ Cardinality(Den(fdt, t)) \in Nat
          /\ Cardinality(Exe(exec_file, t)) \in Nat
      BY Finite, Zenon
    <3>3. fdt' = fdt
      BY <1>1, Zenon
    <3>4. CASE t = s
      <4>1. Cardinality(Exe(exec_file', t)) = Cardinality(Exe(exec_file, t)) + 1
        BY <1>3, <3>4, Zenon
      <4> QED
        BY <1>2, <3>1, <3>2, <3>3, <3>4, <4>1 DEF Counted, r
    <3>5. CASE t # s
      <4>1. Cardinality(Exe(exec_file', t)) = Cardinality(Exe(exec_file, t)) + 0
        BY <1>3, <3>5, Zenon
      <4> QED
        BY <1>2, <3>1, <3>2, <3>3, <3>5, <4>1 DEF Counted
    <3> QED
      BY <3>4, <3>5, Zenon
  <2> QED
    BY <2>1, CountsAre, Zenon
<1>5. FsType'
  BY <1>0, <1>1, <1>2, Zenon DEF FsType
<1>6. Tables'
  <2>1. \A q \in Process : name'[q] = NULL <=> exec_file'[q] = 0
    <3> TAKE q \in Process
    <3>1. CASE q = p
      BY <1>0, <1>1, <3>1, SectorFacts, FileSysAssumption, Zenon
    <3>2. CASE q # p
      BY <1>0, <1>1, <3>2, Zenon DEF CInv, Tables
    <3> QED
      BY <3>1, <3>2, Zenon
  <2> QED
    BY <1>1, <2>1, Zenon DEF CInv, Tables
<1> QED
  BY <1>1, <1>4, <1>5, <1>6, Zenon DEF CInv

(* A process exits: its program's file is closed. *)
LEMMA ExitCounts ==
  ASSUME CInv, NEW p \in Process, Exit(p) PROVE CInv'
<1> DEFINE s == exec_file[p]
           f == [sector |-> s, deny |-> FALSE]
           r == open_inodes[s]
<1>0. /\ FsType /\ s \in Sector /\ name[p] # NULL
      /\ exec_file \in [Process -> Sector \cup {0}] /\ name \in [Process -> Name \cup {NULL}]
  <2>1. FsType /\ name[p] # NULL /\ exec_file \in [Process -> Sector \cup {0}]
    BY Zenon DEF CInv, FsType, Exit
  <2>2. exec_file[p] # 0
    BY <2>1, Zenon DEF CInv, Tables
  <2> QED
    BY <2>1, <2>2, Zenon DEF FsType
<1>1. /\ exec_file' = [exec_file EXCEPT ![p] = 0] /\ name' = [name EXCEPT ![p] = NULL]
      /\ FileClose(f, p, "exit")
      /\ UNCHANGED <<dir, disk_inode, disk_map, free_map, fdt>>
  BY Zenon DEF Exit, disk
<1>2. f \in File /\ f.sector = s /\ ~f.deny
  BY <1>0, Zenon DEF File
<1> HIDE DEF f, s, r
<1>3. \A t \in Sector :
        Cardinality(Exe(exec_file, t)) = Cardinality(Exe(exec_file', t)) + IF t = s THEN 1 ELSE 0
  <2>1. exec_file'[p] = 0 /\ exec_file[p] = s /\ \A q \in Process \ {p} : exec_file[q] = exec_file'[q]
    BY <1>0, <1>1, Zenon DEF s
  <2> QED
    BY <1>0, <2>1, ExecCounts
<1>4. ASSUME NEW t \in Sector
      PROVE  /\ open_inodes[t].open_cnt = Cardinality(Opn(fdt, t)) + Cardinality(Exe(exec_file, t))
             /\ open_inodes[t].deny_write_cnt = Cardinality(Den(fdt, t))
             /\ Cardinality(Opn(fdt, t)) \in Nat /\ Cardinality(Den(fdt, t)) \in Nat
             /\ Cardinality(Exe(exec_file', t)) \in Nat
             /\ Cardinality(Den(fdt, t)) <= Cardinality(Opn(fdt, t))
  <2>1. Counted(open_inodes, fdt, exec_file, t)
    BY CountFacts, Zenon
  <2> QED
    BY <2>1, Finite, Zenon DEF Counted
<1>5. /\ r.open_cnt = Cardinality(Opn(fdt, s)) + Cardinality(Exe(exec_file', s)) + 1
      /\ r.deny_write_cnt = Cardinality(Den(fdt, s))
      /\ Cardinality(Opn(fdt, s)) \in Nat /\ Cardinality(Den(fdt, s)) \in Nat
      /\ Cardinality(Exe(exec_file', s)) \in Nat
      /\ Cardinality(Den(fdt, s)) <= Cardinality(Opn(fdt, s))
  <2>1. Cardinality(Exe(exec_file, s)) = Cardinality(Exe(exec_file', s)) + 1
    BY <1>0, <1>3, Zenon
  <2>2. /\ r.open_cnt = Cardinality(Opn(fdt, s)) + Cardinality(Exe(exec_file, s))
        /\ r.deny_write_cnt = Cardinality(Den(fdt, s))
        /\ Cardinality(Opn(fdt, s)) \in Nat /\ Cardinality(Den(fdt, s)) \in Nat
        /\ Cardinality(Exe(exec_file', s)) \in Nat
        /\ Cardinality(Den(fdt, s)) <= Cardinality(Opn(fdt, s))
    BY <1>0, <1>4, Zenon DEF r
  <2> QED
    BY <2>1, <2>2
<1>6. /\ open_inodes' \in [Sector -> Inode]
      /\ \A t \in Sector \ {s} : open_inodes'[t] = open_inodes[t]
      /\ open_inodes'[s].open_cnt = r.open_cnt - 1
      /\ r.open_cnt > 1 => open_inodes'[s].deny_write_cnt = r.deny_write_cnt
      /\ r.open_cnt = 1 => open_inodes'[s].deny_write_cnt = 0
      /\ pc' \in FsPC /\ op' \in Operands
      /\ pc' \in {"release", "exit"} /\ (pc' = "exit" => op'.proc = p)
  <2>0. r.open_cnt > 0
    BY <1>5
  <2>1. LET n == open_inodes'[f.sector]
            m == open_inodes[f.sector]
            gone == m.open_cnt = 1 /\ m.removed
        IN  /\ open_inodes' \in [Sector -> Inode]
            /\ \A t \in Sector \ {f.sector} : open_inodes'[t] = open_inodes[t]
            /\ n.open_cnt = m.open_cnt - 1
            /\ m.open_cnt > 1 =>
                 Same(n, m) /\ n.deny_write_cnt = m.deny_write_cnt - IF f.deny THEN 1 ELSE 0
            /\ m.open_cnt = 1 => n.deny_write_cnt = 0
            /\ pc' \in FsPC /\ op' \in Operands
            /\ gone => /\ pc' = "release" /\ op'.sector = f.sector
                       /\ op'.start = m.start /\ op'.length = m.length
            /\ ~gone => pc' = "exit" /\ ("exit" = "exit" => op'.proc = p)
    BY <1>0, <1>1, <1>2, <2>0, FileClosed, Zenon DEF r
  <2>2. r.deny_write_cnt - 0 = r.deny_write_cnt
    BY <1>5
  <2> QED
    BY <1>2, <2>1, <2>2, Zenon DEF r
<1>7. ASSUME NEW t \in Sector PROVE Counted(open_inodes', fdt', exec_file', t)
  <2>0. fdt' = fdt
    BY <1>1, Zenon
  <2>1. CASE t # s
    <3>1. Cardinality(Exe(exec_file, t)) = Cardinality(Exe(exec_file', t)) + 0
      BY <1>3, <2>1, Zenon
    <3>2. Cardinality(Exe(exec_file, t)) = Cardinality(Exe(exec_file', t))
      <4>1. Cardinality(Exe(exec_file', t)) \in Nat
        BY <1>4, Zenon
      <4> QED
        BY <3>1, <4>1
    <3>3. open_inodes'[t] = open_inodes[t]
      BY <1>6, <2>1, Zenon
    <3> QED
      BY <1>4, <2>0, <3>2, <3>3, Zenon DEF Counted
  <2>2. CASE t = s /\ r.open_cnt > 1
    BY <1>5, <1>6, <2>0, <2>2 DEF Counted
  <2>3. CASE t = s /\ r.open_cnt = 1
    <3>1. Cardinality(Opn(fdt, s)) = 0 /\ Cardinality(Exe(exec_file', s)) = 0
      BY <1>5, <2>3
    <3>2. Cardinality(Den(fdt, s)) = 0
      BY <1>5, <3>1
    <3> QED
      BY <1>6, <2>0, <2>3, <3>1, <3>2 DEF Counted
  <2>4. r.open_cnt = 1 \/ r.open_cnt > 1
    BY <1>5
  <2> QED
    BY <2>1, <2>2, <2>3, <2>4, Zenon
<1>8. OpenCount' /\ DenyCount'
  BY <1>7, CountsAre, Zenon
<1>9. FsType'
  BY <1>0, <1>1, <1>6, Zenon DEF FsType
<1>10. Tables'
  <2>1. \A q \in Process : name'[q] = NULL <=> exec_file'[q] = 0
    <3> TAKE q \in Process
    <3>1. CASE q = p
      BY <1>0, <1>1, <3>1, Zenon
    <3>2. CASE q # p
      BY <1>0, <1>1, <3>2, Zenon DEF CInv, Tables
    <3> QED
      BY <3>1, <3>2, Zenon
  <2> QED
    BY <1>1, <2>1, Zenon DEF CInv, Tables
<1> QED
  BY <1>6, <1>8, <1>9, <1>10, Zenon DEF CInv

(* The entry of a removed file goes; whoever has it open keeps it. *)
LEMMA RemoveCounts ==
  ASSUME CInv, NEW n \in Name, Remove(n) PROVE CInv'
<1> DEFINE s == dir[n]
           r == open_inodes[s]
           j == InodeOpen(s)
           i == [j EXCEPT ![s] = WithRemoved(j[s])]
<1>0. FsType /\ s \in Sector /\ dir \in [Name -> Sector \cup {0}]
  BY Zenon DEF CInv, FsType, Remove
<1>1. /\ dir' = [dir EXCEPT ![n] = 0] /\ InodeClose(s, i, NULL, "idle")
      /\ UNCHANGED <<disk_inode, disk_map, free_map, fdt, exec_file, name>>
  BY Zenon DEF Remove, procs, WithRemoved
<1>2. /\ j \in [Sector -> Inode] /\ \A t \in Sector \ {s} : j[t] = open_inodes[t]
      /\ j[s].open_cnt = r.open_cnt + 1
      /\ r.open_cnt > 0 => j[s].deny_write_cnt = r.deny_write_cnt
      /\ r.open_cnt = 0 => j[s].deny_write_cnt = 0
  BY <1>0, Opened, Zenon
<1>3. /\ Counted(open_inodes, fdt, exec_file, s) /\ r.open_cnt \in Nat /\ r.deny_write_cnt \in Nat
      /\ r.open_cnt = 0 => r.deny_write_cnt = 0
  BY <1>0, CountFacts, Zenon
<1> HIDE DEF j, r
<1>4. /\ i \in [Sector -> Inode] /\ \A t \in Sector \ {s} : i[t] = open_inodes[t]
      /\ i[s].open_cnt = r.open_cnt + 1 /\ i[s].deny_write_cnt = r.deny_write_cnt
  <2>1. j[s] \in Inode
    BY <1>0, <1>2, Zenon
  <2>2. /\ WithRemoved(j[s]) \in Inode /\ WithRemoved(j[s]).open_cnt = j[s].open_cnt
        /\ WithRemoved(j[s]).deny_write_cnt = j[s].deny_write_cnt
    BY <2>1, InodeFields, Zenon
  <2> QED
    BY <1>0, <1>2, <1>3, <2>2
<1> HIDE DEF i
<1>5. /\ open_inodes' \in [Sector -> Inode]
      /\ \A t \in Sector \ {s} : open_inodes'[t] = open_inodes[t]
      /\ open_inodes'[s].open_cnt = r.open_cnt
      /\ open_inodes'[s].deny_write_cnt = r.deny_write_cnt
      /\ pc' \in FsPC /\ op' \in Operands /\ pc' \in {"release", "idle"}
  <2>1. i[s].open_cnt > 0
    BY <1>3, <1>4
  <2>2. LET m == i[s]
            o == open_inodes'[s]
            gone == m.open_cnt = 1 /\ m.removed
        IN  /\ open_inodes' \in [Sector -> Inode]
            /\ \A t \in Sector \ {s} : open_inodes'[t] = i[t]
            /\ o.open_cnt = m.open_cnt - 1
            /\ m.open_cnt > 1 => Same(o, m) /\ o.deny_write_cnt = m.deny_write_cnt
            /\ m.open_cnt = 1 => o.deny_write_cnt = 0
            /\ pc' \in FsPC /\ op' \in Operands
            /\ gone => /\ pc' = "release" /\ op'.sector = s
                       /\ op'.start = m.start /\ op'.length = m.length
            /\ ~gone => pc' = "idle" /\ ("idle" = "exit" => op'.proc = NULL)
    BY <1>0, <1>1, <1>4, <2>1, Closed, Zenon
  <2> QED
    BY <1>3, <1>4, <2>2
<1> HIDE DEF s
<1>6. ASSUME NEW t \in Sector PROVE Counted(open_inodes', fdt', exec_file', t)
  <2>1. Counted(open_inodes, fdt, exec_file, t)
    BY CountFacts, Zenon
  <2>2. /\ open_inodes'[t].open_cnt = open_inodes[t].open_cnt
        /\ open_inodes'[t].deny_write_cnt = open_inodes[t].deny_write_cnt
    BY <1>5, Zenon DEF r
  <2> QED
    BY <1>1, <2>1, <2>2, Zenon DEF Counted
<1>7. OpenCount' /\ DenyCount'
  BY <1>6, CountsAre, Zenon
<1>8. FsType'
  <2>1. dir' \in [Name -> Sector \cup {0}]
    BY <1>0, <1>1, Zenon
  <2> QED
    BY <1>0, <1>1, <1>5, <2>1, Zenon DEF FsType
<1>9. Tables'
  BY <1>1, Zenon DEF CInv, Tables
<1> QED
  BY <1>5, <1>7, <1>8, <1>9, Zenon DEF CInv

(* With no tables and no inodes open there is nothing to count. *)
LEMMA EmptyCounts ==
  ASSUME open_inodes' = [s \in Sector |-> NotOpen], fdt' = [p \in Process |-> <<>>],
         exec_file' = [p \in Process |-> 0]
  PROVE  OpenCount' /\ DenyCount'
<1>1. ASSUME NEW s \in Sector PROVE Counted(open_inodes', fdt', exec_file', s)
  <2>1. Opn(fdt', s) = {} /\ Den(fdt', s) = {} /\ Exe(exec_file', s) = {}
    <3>1. s # 0
      BY SectorFacts, Zenon
    <3>2. fdt' \in [Process -> Seq(File)] /\ \A q \in Process : Len(fdt'[q]) = 0
      OBVIOUS
    <3>3. Opn(fdt', s) = {}
      <4>1. \A q \in Process, k \in 1..FdtMax : <<q, k>> \notin Opn(fdt', s)
        <5> TAKE q \in Process, k \in 1..FdtMax
        <5>1. <<q, k>> \in Opn(fdt', s) => k \in 1..Len(fdt'[q])
          BY <3>2, OpnAre, Zenon
        <5> QED
          BY <3>2, <5>1
      <4>2. \A x \in Opn(fdt', s) : \E q \in Process, k \in 1..FdtMax : x = <<q, k>>
        BY OpnShape
      <4> QED
        BY <4>1, <4>2
    <3>4. Den(fdt', s) \in SUBSET Opn(fdt', s)
      BY Zenon DEF Den
    <3>5. Exe(exec_file', s) = {}
      BY <3>1, Zenon DEF Exe
    <3> QED
      BY <3>3, <3>4, <3>5, Zenon
  <2>2. Cardinality({}) = 0
    BY EmptySize, Zenon
  <2>3. open_inodes'[s].open_cnt = 0 /\ open_inodes'[s].deny_write_cnt = 0
    BY Zenon DEF NotOpen
  <2> QED
    <3>1. /\ Cardinality(Opn(fdt', s)) = 0 /\ Cardinality(Den(fdt', s)) = 0
          /\ Cardinality(Exe(exec_file', s)) = 0
      BY <2>1, <2>2, Zenon
    <3> QED
      BY <2>3, <3>1 DEF Counted
<1> QED
  BY <1>1, CountsAre, Zenon

(* Nothing is open after a crash. *)
LEMMA CrashCounts ==
  ASSUME CInv, Reboot PROVE CInv'
<1>1. /\ open_inodes' = [s \in Sector |-> NotOpen] /\ fdt' = [p \in Process |-> <<>>]
      /\ exec_file' = [p \in Process |-> 0] /\ name' = [p \in Process |-> NULL]
      /\ pc' = "idle" /\ op' = NoOp /\ free_map' = disk_map
      /\ UNCHANGED <<dir, disk_inode, disk_map>>
  BY Zenon DEF Reboot, disk
<1>2. OpenCount' /\ DenyCount'
  BY <1>1, EmptyCounts, Zenon
<1>3. FsType'
  BY <1>1, NotOpenType, NoOpType DEF CInv, FsType, FsPC
<1>4. Tables'
  <2>1. \A p \in Process : Len(fdt'[p]) = 0 /\ name'[p] = NULL /\ exec_file'[p] = 0
    BY <1>1, Zenon
  <2> QED
    BY <2>1, SectorFacts DEF Tables
<1> QED
  BY <1>1, <1>2, <1>3, <1>4, Zenon DEF CInv

(* The counts are right to begin with. *)
LEMMA CInvInit ==
  ASSUME Init PROVE CInv
<1>1. FsType
  BY NotOpenType, NoOpType, SectorFacts DEF Init, FsType, FsPC
<1>2. OpenCount /\ DenyCount
  <2>1. ASSUME NEW s \in Sector PROVE Counted(open_inodes, fdt, exec_file, s)
    <3>0. s # 0
      BY SectorFacts, Zenon
    <3>1. fdt \in [Process -> Seq(File)] /\ \A q \in Process : Len(fdt[q]) = 0
      BY DEF Init
    <3>2. Opn(fdt, s) = {}
      <4>1. \A q \in Process, k \in 1..FdtMax : <<q, k>> \notin Opn(fdt, s)
        <5> TAKE q \in Process, k \in 1..FdtMax
        <5>1. <<q, k>> \in Opn(fdt, s) => k \in 1..Len(fdt[q])
          BY <3>1, OpnAre, Zenon
        <5> QED
          BY <3>1, <5>1
      <4>2. \A x \in Opn(fdt, s) : \E q \in Process, k \in 1..FdtMax : x = <<q, k>>
        BY OpnShape
      <4> QED
        BY <4>1, <4>2
    <3>3. Den(fdt, s) \in SUBSET Opn(fdt, s)
      BY Zenon DEF Den
    <3>4. Exe(exec_file, s) = {}
      BY <3>0, Zenon DEF Exe, Init
    <3>5. Cardinality({}) = 0
      BY EmptySize, Zenon
    <3>6. open_inodes[s].open_cnt = 0 /\ open_inodes[s].deny_write_cnt = 0
      BY Zenon DEF NotOpen, Init
    <3>7. /\ Cardinality(Opn(fdt, s)) = 0 /\ Cardinality(Den(fdt, s)) = 0
          /\ Cardinality(Exe(exec_file, s)) = 0
      <4>1. Den(fdt, s) = {}
        BY <3>2, <3>3, Zenon
      <4> QED
        BY <3>2, <3>4, <3>5, <4>1, Zenon
    <3> QED
      BY <3>6, <3>7 DEF Counted
  <2> QED
    BY <2>1, CountsAre, Zenon
<1>3. Tables /\ pc = "idle"
  BY SectorFacts DEF Tables, Init
<1> QED
  BY <1>1, <1>2, <1>3, Zenon DEF CInv

(* They stay right when nothing happens. *)
LEMMA StutterCounts ==
  ASSUME CInv, UNCHANGED state PROVE CInv'
<1>1. UNCHANGED <<dir, disk_inode, disk_map, free_map, open_inodes, fdt, exec_file, name, pc, op>>
  BY Zenon DEF state, disk, memory, procs
<1>2. OpenCount' /\ DenyCount'
  <2>1. \A s \in Sector : Counted(open_inodes', fdt', exec_file', s)
    BY <1>1, CountFacts, Zenon DEF Counted
  <2> QED
    BY <2>1, CountsAre, Zenon
<1>3. FsType' /\ Tables'
  BY <1>1, Zenon DEF CInv, FsType, Tables
<1> QED
  BY <1>1, <1>2, <1>3, Zenon DEF CInv

(* The steps of operations, whoever takes them, and the crash. *)
FileStep ==
  \/ \E n \in Name : (\E l \in Length : Create(n, l)) \/ Remove(n)
  \/ \E p \in Process, n \in Name : Open(p, n) \/ Load(p, n)
  \/ InodeCreate \/ InodeWrite \/ DirAdd \/ Undo
  \/ ReleaseInode \/ ReleaseData
  \/ \E p \in Process : (\E fd \in DOMAIN fdt[p] : Close(p, fd)) \/ Exit(p)
  \/ ExitFiles \/ Reboot

(* The counts are kept, operation by operation. *)
LEMMA CInvNext ==
  ASSUME CInv, [FileStep]_state PROVE CInv'
<1>1. ASSUME NEW n \in Name, NEW l \in Length, Create(n, l) PROVE CInv'
  BY <1>1, CreateCounts, Zenon
<1>2. ASSUME NEW n \in Name, Remove(n) PROVE CInv'
  BY <1>2, RemoveCounts, Zenon
<1>3. ASSUME NEW p \in Process, NEW n \in Name, Open(p, n) PROVE CInv'
  BY <1>3, OpenCounts, Zenon
<1>4. ASSUME NEW p \in Process, NEW n \in Name, Load(p, n) PROVE CInv'
  BY <1>4, LoadCounts, Zenon
<1>5. CASE InodeCreate
  BY <1>5, InodeCreateCounts, Zenon
<1>6. CASE InodeWrite
  BY <1>6, InodeWriteCounts, Zenon
<1>7. CASE DirAdd
  BY <1>7, DirAddCounts, Zenon
<1>8. CASE Undo
  BY <1>8, UndoCounts, Zenon
<1>9. CASE ReleaseInode
  BY <1>9, ReleaseInodeCounts, Zenon
<1>10. CASE ReleaseData
  BY <1>10, ReleaseDataCounts, Zenon
<1>11. ASSUME NEW p \in Process, NEW fd \in DOMAIN fdt[p], Close(p, fd) PROVE CInv'
  BY <1>11, CloseCounts, Zenon
<1>12. ASSUME NEW p \in Process, Exit(p) PROVE CInv'
  BY <1>12, ExitCounts, Zenon
<1>13. CASE ExitFiles
  BY <1>13, ExitFilesCounts, Zenon
<1>14. CASE Reboot
  BY <1>14, CrashCounts, Zenon
<1>15. CASE UNCHANGED state
  BY <1>15, StutterCounts, Zenon
<1> QED
  BY <1>1, <1>2, <1>3, <1>4, <1>5, <1>6, <1>7, <1>8, <1>9, <1>10, <1>11, <1>12, <1>13, <1>14,
     <1>15, Zenon DEF FileStep
-----------------------------------------------------------------------------
(* Sectors.  Every marked sector has one owner: a file that an entry or an *)
(* open inode leads to, the operation in progress, or nobody (lost).       *)
IsOpen(s) == open_inodes[s].open_cnt > 0
Files == Entries \cup {s \in Sector : IsOpen(s)}
Space == [s \in Sector |-> OnDisk(s)]

(* The sectors that the operation in progress has taken, or gives back. *)
Pending ==
  CASE pc = "inode_create" -> {op.sector}
    [] pc \in {"inode_write", "dir_add", "undo", "release"} ->
         {op.sector} \cup Data(op.start, op.length)
    [] pc = "release_data" -> Data(op.start, op.length)
    [] OTHER -> {}

(* F files with the space D, P pending, L lost, M marked. *)
Partition(F, D, P, L, M) ==
  /\ \A s \in F : D[s] \subseteq M /\ D[s] \cap P = {} /\ D[s] \cap L = {}
  /\ \A s, t \in F : s # t => D[s] \cap D[t] = {}
  /\ P \subseteq M /\ L \subseteq M /\ P \cap L = {}
  /\ \A x \in M : x \in P \/ x \in L \/ \E s \in F : x \in D[s]

(* An open inode is as the disk has it, and removed if it has no entry. *)
Fresh ==
  \A s \in Sector : IsOpen(s) =>
    /\ open_inodes[s].start = disk_inode[s].start
    /\ open_inodes[s].length = disk_inode[s].length
    /\ open_inodes[s].removed <=> s \notin Entries

Names == \A m, n \in Name : m # n /\ dir[m] # 0 => dir[m] # dir[n]
Apart == \A s \in Files : s \notin Data(disk_inode[s].start, disk_inode[s].length)

OpFits ==
  /\ pc \in {"inode_create", "inode_write", "dir_add", "undo", "release"} => op.sector \in Sector
  /\ pc \in {"inode_create", "inode_write", "dir_add", "undo"} => op.file \in Name
  /\ pc \in {"inode_write", "dir_add", "undo", "release"} =>
       op.sector \notin Data(op.start, op.length)
  /\ pc = "dir_add" =>
       disk_inode[op.sector].start = op.start /\ disk_inode[op.sector].length = op.length

DInv ==
  /\ Partition(Files, Space, Pending, lost, free_map)
  /\ Fresh /\ Names /\ Apart /\ OpFits /\ disk_map = free_map

(* How the partition changes: free sectors are taken, *)
LEMMA Taken ==
  ASSUME NEW F, NEW D, NEW P, NEW L, NEW M, NEW X, Partition(F, D, P, L, M), X \cap M = {}
  PROVE  Partition(F, D, P \cup X, L, M \cup X)
  BY Zenon DEF Partition

(* pending ones are given back, *)
LEMMA GivenBack ==
  ASSUME NEW F, NEW D, NEW P, NEW L, NEW M, NEW X, Partition(F, D, P, L, M), X \subseteq P
  PROVE  Partition(F, D, P \ X, L, M \ X)
  BY Zenon DEF Partition

(* or lost, *)
LEMMA Lost ==
  ASSUME NEW F, NEW D, NEW P, NEW L, NEW M, NEW X, Partition(F, D, P, L, M), X \subseteq P
  PROVE  Partition(F, D, P \ X, L \cup X, M)
  BY Zenon DEF Partition

(* a file begins with the pending ones, *)
LEMMA Adopted ==
  ASSUME NEW F, NEW D, NEW P, NEW L, NEW M, NEW s, Partition(F, D, P, L, M), D[s] = P
  PROVE  Partition(F \cup {s}, D, {}, L, M)
  BY Zenon DEF Partition

(* a file ends, *)
LEMMA Orphaned ==
  ASSUME NEW F, NEW D, NEW L, NEW M, NEW s \in F, Partition(F, D, {}, L, M)
  PROVE  Partition(F \ {s}, D, D[s], L, M)
<1> DEFINE G == F \ {s}
<1>1. \A t \in G : D[t] \subseteq M /\ D[t] \cap D[s] = {} /\ D[t] \cap L = {}
  BY Zenon DEF Partition
<1>2. \A t, u \in G : t # u => D[t] \cap D[u] = {}
  BY Zenon DEF Partition
<1>3. D[s] \subseteq M /\ L \subseteq M /\ D[s] \cap L = {}
  BY Zenon DEF Partition
<1>4. \A x \in M : x \in D[s] \/ x \in L \/ \E t \in G : x \in D[t]
  BY Zenon DEF Partition
<1> QED
  BY <1>1, <1>2, <1>3, <1>4, Zenon DEF Partition

(* only the files that entries lead to are left after a crash. *)
LEMMA Crashed ==
  ASSUME NEW F, NEW D, NEW P, NEW L, NEW M, NEW G, NEW N, Partition(F, D, P, L, M), G \subseteq F,
         \A x : x \in N <=> x \in M /\ \A s \in G : x \notin D[s]
  PROVE  Partition(G, D, {}, N, M)
<1>1. \A s \in G : D[s] \subseteq M /\ D[s] \cap {} = {} /\ D[s] \cap N = {}
  BY Zenon DEF Partition
<1>2. \A s, t \in G : s # t => D[s] \cap D[t] = {}
  BY Zenon DEF Partition
<1>3. N \subseteq M /\ \A x \in M : x \in N \/ \E s \in G : x \in D[s]
  BY Zenon
<1> QED
  BY <1>1, <1>2, <1>3, Zenon DEF Partition

(* Only the space of files counts. *)
LEMMA SameSpace ==
  ASSUME NEW F, NEW D, NEW E, NEW P, NEW L, NEW M, Partition(F, D, P, L, M),
         \A s \in F : E[s] = D[s]
  PROVE  Partition(F, E, P, L, M)
<1>1. \A s, t \in F : s # t => E[s] \cap E[t] = {}
  BY Zenon DEF Partition
<1>2. \A s \in F : E[s] \subseteq M /\ E[s] \cap P = {} /\ E[s] \cap L = {}
  BY Zenon DEF Partition
<1>3. P \subseteq M /\ L \subseteq M /\ P \cap L = {}
  BY Zenon DEF Partition
<1>4. \A x \in M : x \in P \/ x \in L \/ \E s \in F : x \in E[s]
  BY Zenon DEF Partition
<1> QED
  BY <1>1, <1>2, <1>3, <1>4, Zenon DEF Partition

(* A file is a sector, and owns its inode's. *)
LEMMA FileFacts ==
  ASSUME CInv, DInv
  PROVE  /\ Files \subseteq Sector /\ Entries \subseteq Sector
         /\ \A s \in Files : s \in Space[s] /\ s \in free_map /\ s \notin Pending /\ s \notin lost
         /\ \A s \in Sector : Space[s] = {s} \cup Data(disk_inode[s].start, disk_inode[s].length)
<1>1. Entries \subseteq Sector
  BY DEF CInv, FsType, Entries
<1>2. Files \subseteq Sector
  BY <1>1, Zenon DEF Files
<1>3. \A s \in Sector : Space[s] = {s} \cup Data(disk_inode[s].start, disk_inode[s].length)
  BY Zenon DEF Space, OnDisk
<1>4. \A s \in Files : s \in Space[s]
  BY <1>2, <1>3, Zenon
<1>5. \A s \in Files : Space[s] \subseteq free_map /\ Space[s] \cap Pending = {} /\ Space[s] \cap lost = {}
  BY Zenon DEF DInv, Partition
<1>6. \A s \in Files : s \in free_map /\ s \notin Pending /\ s \notin lost
  <2> TAKE s \in Files
  <2> HIDE DEF Files, Space, Pending
  <2> QED
    BY <1>4, <1>5, Zenon
<1> QED
  BY <1>1, <1>2, <1>3, <1>4, <1>6, Zenon

(* Steps that leave entries, inodes and open inodes alone. *)
LEMMA FilesFrame ==
  ASSUME DInv, UNCHANGED <<dir, disk_inode, open_inodes>>
  PROVE  Files' = Files /\ Space' = Space /\ Fresh' /\ Names' /\ Apart'
<1>1. Entries' = Entries
  BY Zenon DEF Entries
<1>2. Files' = Files
  BY <1>1, Zenon DEF Files, IsOpen
<1>3. Space' = Space
  BY Zenon DEF Space, OnDisk, Data
<1>4. Fresh' /\ Names'
  BY <1>1, Zenon DEF DInv, Fresh, IsOpen, Names
<1>5. Apart'
  BY <1>2, Zenon DEF DInv, Apart, Data
<1> QED
  BY <1>2, <1>3, <1>4, <1>5, Zenon

(* The pending sectors by the step that comes next, *)
LEMMA PendingIs ==
  /\ pc \in {"idle", "exit"} => Pending = {}
  /\ pc = "inode_create" => Pending = {op.sector}
  /\ pc \in {"inode_write", "dir_add", "undo", "release"} =>
       Pending = {op.sector} \cup Data(op.start, op.length)
  /\ pc = "release_data" => Pending = Data(op.start, op.length)
  BY Zenon DEF Pending

(* and in the next state. *)
LEMMA PendingIsThen ==
  /\ pc' \in {"idle", "exit"} => Pending' = {}
  /\ pc' = "inode_create" => Pending' = {op'.sector}
  /\ pc' \in {"inode_write", "dir_add", "undo", "release"} =>
       Pending' = {op'.sector} \cup Data(op'.start, op'.length)
  /\ pc' = "release_data" => Pending' = Data(op'.start, op'.length)
  BY Zenon DEF Pending, Data

(* filesys_create takes a free sector for the inode. *)
LEMMA CreateSectors ==
  ASSUME CInv, DInv, NEW n \in Name, NEW l \in Length, Create(n, l) PROVE DInv'
<1>0. FirstFit(1) \in Sector \ free_map
  BY FirstFree, Zenon DEF Create
<1> DEFINE x == FirstFit(1)
<1>1. /\ pc = "idle" /\ pc' = "inode_create" /\ op'.sector = x /\ op'.file = n
      /\ free_map' = free_map \cup {x} /\ disk_map' = free_map'
      /\ UNCHANGED <<dir, disk_inode, open_inodes, lost>>
  BY Zenon DEF Create, Mark
<1> HIDE DEF x
<1>2. Files' = Files /\ Space' = Space /\ Fresh' /\ Names' /\ Apart'
  BY <1>1, FilesFrame, Zenon
<1>3. Pending = {} /\ Pending' = {x}
  BY <1>1, PendingIs, PendingIsThen, Zenon
<1>4. Partition(Files, Space, {} \cup {x}, lost, free_map \cup {x})
  <2>1. Partition(Files, Space, {}, lost, free_map) /\ {x} \cap free_map = {}
    BY <1>0, <1>3, Zenon DEF DInv, x
  <2> QED
    BY <2>1, Taken, Zenon
<1>5. Partition(Files', Space', Pending', lost', free_map')
  <2>1. {} \cup {x} = {x}
    BY Zenon
  <2> QED
    BY <1>1, <1>2, <1>3, <1>4, <2>1, Zenon
<1>6. OpFits'
  BY <1>0, <1>1, Zenon DEF OpFits, x
<1> QED
  BY <1>1, <1>2, <1>5, <1>6, Zenon DEF DInv

(* inode_create takes free sectors for the data, or fails. *)
LEMMA InodeCreateSectors ==
  ASSUME CInv, DInv, InodeCreate PROVE DInv'
<1>0. /\ op \in Operands /\ op.length \in Nat /\ op.start \in 0..LastSector
      /\ pc = "inode_create" /\ op.sector \in Sector /\ op.file \in Name
  <2>1. op \in Operands /\ pc = "inode_create"
    BY Zenon DEF CInv, FsType, InodeCreate
  <2>2. op.sector \in Sector /\ op.file \in Name
    BY <2>1, Zenon DEF DInv, OpFits
  <2> QED
    BY <2>1, <2>2, Zenon DEF Operands
<1>1. UNCHANGED <<dir, disk_inode, open_inodes, lost>>
  BY Zenon DEF InodeCreate
<1>2. Files' = Files /\ Space' = Space /\ Fresh' /\ Names' /\ Apart'
  BY <1>1, FilesFrame, Zenon
<1>3. Pending = {op.sector} /\ op.sector \in free_map
  <2>1. Pending = {op.sector}
    BY <1>0, PendingIs, Zenon
  <2> QED
    BY <2>1, Zenon DEF DInv, Partition
<1>4. CASE Fits(op.length) = {}
  <2>1. /\ pc' = "undo" /\ op' = [op EXCEPT !.length = 0] /\ UNCHANGED <<free_map, disk_map>>
    BY <1>4, Zenon DEF InodeCreate
  <2>2. op'.length = 0 /\ op'.start = op.start /\ op'.sector = op.sector /\ op'.file = op.file
    BY <1>0, <2>1, OperandFields
  <2>3. Data(op'.start, op'.length) = {}
    BY <1>0, <2>2, SectorFacts DEF Data
  <2>4. Pending' = {op.sector}
    BY <2>1, <2>2, <2>3, PendingIsThen, Zenon
  <2>5. Partition(Files', Space', Pending', lost', free_map')
    BY <1>1, <1>2, <1>3, <2>1, <2>4, Zenon DEF DInv
  <2>6. OpFits'
    BY <1>0, <2>1, <2>2, <2>3, Zenon DEF OpFits, Data
  <2> QED
    BY <1>2, <2>1, <2>5, <2>6, Zenon DEF DInv
<1>5. CASE Fits(op.length) # {}
  <2> DEFINE x == FirstFit(op.length)
             d == Data(x, op.length)
  <2>1. x \in 0..LastSector /\ d \subseteq Sector \ free_map
    BY <1>0, <1>5, FirstFits, Zenon
  <2>2. /\ pc' = "inode_write" /\ op' = [op EXCEPT !.start = x]
        /\ free_map' = free_map \cup d /\ disk_map' = free_map'
    BY <1>5, Zenon DEF InodeCreate, Mark
  <2> HIDE DEF x
  <2>3. op'.length = op.length /\ op'.start = x /\ op'.sector = op.sector /\ op'.file = op.file
    BY <1>0, <2>1, <2>2, OperandFields
  <2>4. Pending' = {op.sector} \cup d
    BY <2>2, <2>3, PendingIsThen, Zenon
  <2> HIDE DEF d
  <2>5. Partition(Files, Space, {op.sector} \cup d, lost, free_map \cup d)
    <3>1. Partition(Files, Space, {op.sector}, lost, free_map) /\ d \cap free_map = {}
      BY <1>3, <2>1, Zenon DEF DInv
    <3> QED
      BY <3>1, Taken, Zenon
  <2>6. Partition(Files', Space', Pending', lost', free_map')
    BY <1>1, <1>2, <2>2, <2>4, <2>5, Zenon
  <2>7. op'.sector \notin Data(op'.start, op'.length)
    BY <1>3, <2>1, <2>3, Zenon DEF d
  <2>8. OpFits'
    BY <1>0, <2>2, <2>3, <2>7, Zenon DEF OpFits, Data
  <2> QED
    BY <1>2, <2>2, <2>6, <2>8, Zenon DEF DInv
<1> QED
  BY <1>4, <1>5, Zenon

(* The inode is written to a sector that is no file's. *)
LEMMA InodeWriteSectors ==
  ASSUME CInv, DInv, InodeWrite PROVE DInv'
<1> DEFINE x == op.sector
<1>0. /\ pc = "inode_write" /\ x \in Sector /\ x \notin Data(op.start, op.length) /\ op.file \in Name
      /\ disk_inode \in [Sector -> [start : 0..LastSector, length : Nat]]
  BY Zenon DEF InodeWrite, DInv, OpFits, CInv, FsType
<1>1. /\ disk_inode' = [disk_inode EXCEPT ![x] = [start |-> op.start, length |-> op.length]]
      /\ pc' = "dir_add" /\ UNCHANGED <<dir, disk_map, free_map, open_inodes, op, lost>>
  BY Zenon DEF InodeWrite, memory
<1>2. disk_inode'[x].start = op.start /\ disk_inode'[x].length = op.length
  BY <1>0, <1>1, Zenon
<1>3. \A s \in Sector \ {x} : disk_inode'[s] = disk_inode[s]
  BY <1>0, <1>1, Zenon
<1> HIDE DEF x
<1>4. Pending = {x} \cup Data(op.start, op.length) /\ Pending' = Pending
  BY <1>0, <1>1, PendingIs, PendingIsThen, Zenon DEF x, Data
<1>5. x \notin Files /\ Files \subseteq Sector /\ Entries \subseteq Sector
  BY <1>4, FileFacts, Zenon
<1>6. Entries' = Entries /\ Files' = Files
  BY <1>1, Zenon DEF Entries, Files, IsOpen
<1>7. \A s \in Files : disk_inode'[s] = disk_inode[s]
  BY <1>3, <1>5, Zenon
<1>8. \A s \in Files : Space'[s] = Space[s]
  BY <1>5, <1>7, Zenon DEF Space, OnDisk, Data
<1>9. Partition(Files', Space', Pending', lost', free_map')
  <2>1. Partition(Files, Space', Pending, lost, free_map)
    BY <1>8, SameSpace, Zenon DEF DInv
  <2> QED
    BY <1>1, <1>4, <1>6, <2>1, Zenon
<1>10. Fresh' /\ Names'
  <2>1. Names'
    BY <1>1, Zenon DEF DInv, Names
  <2>2. \A s \in Sector : IsOpen(s) => disk_inode'[s] = disk_inode[s]
    BY <1>7, Zenon DEF Files
  <2> QED
    BY <1>1, <1>6, <2>1, <2>2, Zenon DEF DInv, Fresh, IsOpen
<1>11. Apart'
  BY <1>6, <1>7, Zenon DEF DInv, Apart, Data
<1>12. OpFits'
  BY <1>0, <1>1, <1>2, Zenon DEF OpFits, x, Data
<1> QED
  BY <1>1, <1>9, <1>10, <1>11, <1>12, Zenon DEF DInv

(* dir_add turns the pending sectors into a file, or fails. *)
LEMMA DirAddSectors ==
  ASSUME CInv, DInv, DirAdd PROVE DInv'
<1> DEFINE x == op.sector
<1>0. /\ pc = "dir_add" /\ x \in Sector /\ x \notin Data(op.start, op.length) /\ op.file \in Name
      /\ disk_inode[x].start = op.start /\ disk_inode[x].length = op.length
      /\ dir \in [Name -> Sector \cup {0}]
  BY Zenon DEF DirAdd, DInv, OpFits, CInv, FsType
<1>1. UNCHANGED <<disk_inode, disk_map, free_map, open_inodes, lost>>
  BY Zenon DEF DirAdd, memory
<1>2. Pending = {x} \cup Data(op.start, op.length)
  BY <1>0, PendingIs, Zenon
<1>3. CASE pc' = "undo" /\ UNCHANGED <<dir, op>>
  <2>1. Files' = Files /\ Space' = Space /\ Fresh' /\ Names' /\ Apart'
    BY <1>1, <1>3, FilesFrame, Zenon
  <2>2. Pending' = Pending
    BY <1>2, <1>3, PendingIsThen, Zenon DEF Data
  <2>3. Partition(Files', Space', Pending', lost', free_map')
    BY <1>1, <2>1, <2>2, Zenon DEF DInv
  <2>4. OpFits'
    BY <1>0, <1>3, Zenon DEF OpFits, Data
  <2> QED
    BY <1>1, <2>1, <2>3, <2>4, Zenon DEF DInv
<1>4. CASE dir[op.file] = 0 /\ dir' = [dir EXCEPT ![op.file] = x] /\ pc' = "idle"
  <2> HIDE DEF x
  <2>0. x # 0 /\ x \notin Files /\ Files \subseteq Sector /\ Entries \subseteq Sector
    BY <1>0, <1>2, FileFacts, SectorFacts, Zenon
  <2>1. dir'[op.file] = x /\ \A n \in Name \ {op.file} : dir'[n] = dir[n]
    BY <1>0, <1>4, Zenon
  <2>2. Entries' = Entries \cup {x}
    BY <1>0, <1>4, <2>0, <2>1 DEF Entries
  <2>3. Files' = Files \cup {x}
    BY <1>1, <2>2, Zenon DEF Files, IsOpen
  <2>4. Space' = Space
    BY <1>1, Zenon DEF Space, OnDisk, Data
  <2>5. Pending' = {}
    BY <1>4, PendingIsThen, Zenon
  <2>6. Space[x] = Pending
    BY <1>0, <1>2, Zenon DEF Space, OnDisk
  <2>7. Partition(Files', Space', Pending', lost', free_map')
    <3>1. Partition(Files, Space, Pending, lost, free_map)
      BY Zenon DEF DInv
    <3>2. Partition(Files \cup {x}, Space, {}, lost, free_map)
      BY <2>6, <3>1, Adopted, Zenon
    <3> QED
      BY <1>1, <2>3, <2>4, <2>5, <3>2, Zenon
  <2>8. Fresh'
    <3>1. \A s \in Sector : IsOpen(s) => s # x
      BY <2>0, Zenon DEF Files
    <3> QED
      BY <1>1, <2>2, <3>1, Zenon DEF DInv, Fresh, IsOpen
  <2>9. Names'
    <3>1. \A n \in Name : dir[n] # x
      BY <1>0, <2>0, Zenon DEF Files, Entries
    <3> QED
      BY <2>0, <2>1, <3>1, Zenon DEF DInv, Names
  <2>10. Apart'
    <3>1. ASSUME NEW s \in Files' PROVE s \notin Data(disk_inode[s].start, disk_inode[s].length)
      <4>1. CASE s = x
        BY <1>0, <4>1, Zenon DEF x
      <4>2. CASE s \in Files
        BY <4>2, Zenon DEF DInv, Apart
      <4> QED
        BY <2>3, <4>1, <4>2, Zenon
    <3> QED
      BY <1>1, <3>1, Zenon DEF Apart, Data
  <2>11. OpFits'
    BY <1>4, Zenon DEF OpFits
  <2> QED
    BY <1>1, <2>7, <2>8, <2>9, <2>10, <2>11, Zenon DEF DInv
<1> QED
  BY <1>3, <1>4, Zenon DEF DirAdd

(* A failed create gives the inode's sector back and loses the data's. *)
LEMMA UndoSectors ==
  ASSUME CInv, DInv, Undo PROVE DInv'
<1> DEFINE x == op.sector
           d == Data(op.start, op.length)
<1>0. pc = "undo" /\ x \notin d
  BY Zenon DEF Undo, DInv, OpFits
<1>1. /\ free_map' = free_map \ {x} /\ disk_map' = free_map' /\ lost' = lost \cup d /\ pc' = "idle"
      /\ UNCHANGED <<dir, disk_inode, open_inodes>>
  BY Zenon DEF Undo, Release
<1>2. Files' = Files /\ Space' = Space /\ Fresh' /\ Names' /\ Apart'
  BY <1>1, FilesFrame, Zenon
<1>3. Pending = {x} \cup d /\ Pending' = {}
  BY <1>0, <1>1, PendingIs, PendingIsThen, Zenon
<1> HIDE DEF x, d
<1>4. Partition(Files, Space, {x} \cup d, lost, free_map)
  BY <1>3, Zenon DEF DInv
<1>5. Partition(Files, Space, ({x} \cup d) \ {x}, lost, free_map \ {x})
  BY <1>4, GivenBack, Zenon
<1>6. Partition(Files, Space, d, lost, free_map \ {x})
  <2>1. ({x} \cup d) \ {x} = d
    BY <1>0, Zenon
  <2> QED
    BY <1>5, <2>1, Zenon
<1>7. Partition(Files, Space, d \ d, lost \cup d, free_map \ {x})
  BY <1>6, Lost, Zenon
<1>8. Partition(Files', Space', Pending', lost', free_map')
  <2>1. d \ d = {}
    BY Zenon
  <2> QED
    BY <1>1, <1>2, <1>3, <1>7, <2>1, Zenon
<1>9. OpFits'
  BY <1>1, Zenon DEF OpFits
<1> QED
  BY <1>1, <1>2, <1>8, <1>9, Zenon DEF DInv

(* A removed file's inode is given back, *)
LEMMA ReleaseInodeSectors ==
  ASSUME CInv, DInv, ReleaseInode PROVE DInv'
<1> DEFINE x == op.sector
           d == Data(op.start, op.length)
<1>0. pc = "release" /\ x \notin d
  BY Zenon DEF ReleaseInode, DInv, OpFits
<1>1. /\ free_map' = free_map \ {x} /\ disk_map' = free_map' /\ pc' = "release_data"
      /\ UNCHANGED <<dir, disk_inode, open_inodes, lost, op>>
  BY Zenon DEF ReleaseInode, Release
<1>2. Files' = Files /\ Space' = Space /\ Fresh' /\ Names' /\ Apart'
  BY <1>1, FilesFrame, Zenon
<1>3. Pending = {x} \cup d /\ Pending' = d
  BY <1>0, <1>1, PendingIs, PendingIsThen, Zenon
<1> HIDE DEF x, d
<1>4. Partition(Files, Space, {x} \cup d, lost, free_map)
  BY <1>3, Zenon DEF DInv
<1>5. Partition(Files, Space, ({x} \cup d) \ {x}, lost, free_map \ {x})
  BY <1>4, GivenBack, Zenon
<1>6. Partition(Files', Space', Pending', lost', free_map')
  <2>1. ({x} \cup d) \ {x} = d
    BY <1>0, Zenon
  <2> QED
    BY <1>1, <1>2, <1>3, <1>5, <2>1, Zenon
<1>7. OpFits'
  BY <1>1, Zenon DEF OpFits
<1> QED
  BY <1>1, <1>2, <1>6, <1>7, Zenon DEF DInv

(* and then its data. *)
LEMMA ReleaseDataSectors ==
  ASSUME CInv, DInv, ReleaseData PROVE DInv'
<1> DEFINE d == Data(op.start, op.length)
<1>0. pc = "release_data"
  BY Zenon DEF ReleaseData
<1>1. /\ free_map' = free_map \ d /\ disk_map' = free_map' /\ pc' \in {"idle", "exit"}
      /\ UNCHANGED <<dir, disk_inode, open_inodes, lost>>
  BY Zenon DEF ReleaseData, Release
<1>2. Files' = Files /\ Space' = Space /\ Fresh' /\ Names' /\ Apart'
  BY <1>1, FilesFrame, Zenon
<1>3. Pending = d /\ Pending' = {}
  BY <1>0, <1>1, PendingIs, PendingIsThen, Zenon
<1> HIDE DEF d
<1>4. Partition(Files, Space, d, lost, free_map)
  BY <1>3, Zenon DEF DInv
<1>5. Partition(Files, Space, d \ d, lost, free_map \ d)
  BY <1>4, GivenBack, Zenon
<1>6. Partition(Files', Space', Pending', lost', free_map')
  <2>1. d \ d = {}
    BY Zenon
  <2> QED
    BY <1>1, <1>2, <1>3, <1>5, <2>1, Zenon
<1>7. OpFits'
  BY <1>1, Zenon DEF OpFits
<1> QED
  BY <1>1, <1>2, <1>6, <1>7, Zenon DEF DInv

(* An inode is opened that an entry leads to. *)
LEMMA OpenSectors ==
  ASSUME CInv, DInv, NEW s \in Entries,
         UNCHANGED <<dir, disk_inode, disk_map, free_map, pc, op, lost>>,
         \A t \in Sector \ {s} : open_inodes'[t] = open_inodes[t],
         open_inodes'[s].open_cnt > 0, ~open_inodes'[s].removed,
         open_inodes'[s].start = disk_inode[s].start,
         open_inodes'[s].length = disk_inode[s].length
  PROVE  DInv'
<1>0. s \in Sector
  BY FileFacts, Zenon
<1>1. Entries' = Entries
  BY Zenon DEF Entries
<1>2. Files' = Files
  BY <1>1, Zenon DEF Files, IsOpen
<1>3. Space' = Space
  BY Zenon DEF Space, OnDisk, Data
<1>4. Pending' = Pending
  BY Zenon DEF Pending, Data
<1>5. Partition(Files', Space', Pending', lost', free_map')
  BY <1>2, <1>3, <1>4, Zenon DEF DInv
<1>6. Fresh'
  <2>1. ASSUME NEW t \in Sector, open_inodes'[t].open_cnt > 0
        PROVE  /\ open_inodes'[t].start = disk_inode[t].start
               /\ open_inodes'[t].length = disk_inode[t].length
               /\ open_inodes'[t].removed <=> t \notin Entries
    <3>1. CASE t = s
      BY <3>1, Zenon
    <3>2. CASE t # s
      BY <2>1, <3>2, Zenon DEF DInv, Fresh, IsOpen
    <3> QED
      BY <3>1, <3>2, Zenon
  <2> QED
    BY <1>1, <2>1, Zenon DEF Fresh, IsOpen
<1>7. Names' /\ Apart' /\ OpFits'
  BY <1>2, Zenon DEF DInv, Names, Apart, OpFits, Data
<1> QED
  BY <1>5, <1>6, <1>7, Zenon DEF DInv

(* What InodeOpen reads, or has already. *)
LEMMA OpenedFresh ==
  ASSUME CInv, DInv, NEW n \in Name, dir[n] # 0
  PROVE  LET s == dir[n]
             i == InodeOpen(s)
         IN  /\ s \in Sector /\ s \in Entries /\ i \in [Sector -> Inode]
             /\ \A t \in Sector \ {s} : i[t] = open_inodes[t]
             /\ i[s].open_cnt = open_inodes[s].open_cnt + 1 /\ open_inodes[s].open_cnt \in Nat
             /\ ~i[s].removed /\ i[s].start = disk_inode[s].start
             /\ i[s].length = disk_inode[s].length
<1> DEFINE s == dir[n]
           i == InodeOpen(s)
           r == open_inodes[s]
<1>1. s \in Sector /\ s \in Entries /\ FsType
  BY Zenon DEF CInv, FsType, Entries
<1>2. /\ i \in [Sector -> Inode] /\ \A t \in Sector \ {s} : i[t] = open_inodes[t]
      /\ i[s].open_cnt = r.open_cnt + 1
      /\ r.open_cnt > 0 => Same(i[s], r)
      /\ r.open_cnt = 0 => /\ ~i[s].removed
                           /\ i[s].start = disk_inode[s].start
                           /\ i[s].length = disk_inode[s].length
  BY <1>1, Opened, Zenon
<1>3. r.open_cnt \in Nat
  BY <1>1, CountFacts, Zenon
<1>4. r.open_cnt > 0 =>
        /\ r.start = disk_inode[s].start /\ r.length = disk_inode[s].length /\ ~r.removed
  BY <1>1, Zenon DEF DInv, Fresh, IsOpen
<1> HIDE DEF i, r, s
<1>5. /\ ~i[s].removed /\ i[s].start = disk_inode[s].start /\ i[s].length = disk_inode[s].length
  BY <1>2, <1>3, <1>4 DEF Same
<1> QED
  BY <1>1, <1>2, <1>3, <1>5, Zenon DEF i, r, s

(* filesys_open. *)
LEMMA OpenFileSectors ==
  ASSUME CInv, DInv, NEW p \in Process, NEW n \in Name, Open(p, n) PROVE DInv'
<1> DEFINE s == dir[n]
           i == InodeOpen(s)
<1>1. UNCHANGED <<dir, disk_inode, disk_map, free_map, pc, op, lost>> /\ dir[n] # 0
  BY Zenon DEF Open, disk
<1>2. /\ s \in Sector /\ s \in Entries /\ i \in [Sector -> Inode]
      /\ \A t \in Sector \ {s} : i[t] = open_inodes[t]
      /\ i[s].open_cnt = open_inodes[s].open_cnt + 1 /\ open_inodes[s].open_cnt \in Nat
      /\ ~i[s].removed /\ i[s].start = disk_inode[s].start /\ i[s].length = disk_inode[s].length
  BY <1>1, OpenedFresh, Zenon
<1>3. open_inodes' = IF n = name[p] THEN [i EXCEPT ![s] = WithDeny(i[s], i[s].deny_write_cnt + 1)] ELSE i
  BY Zenon DEF Open, WithDeny
<1> HIDE DEF s, i
<1>4. /\ \A t \in Sector \ {s} : open_inodes'[t] = open_inodes[t]
      /\ open_inodes'[s].open_cnt > 0 /\ ~open_inodes'[s].removed
      /\ open_inodes'[s].start = disk_inode[s].start
      /\ open_inodes'[s].length = disk_inode[s].length
  <2>0. i[s].open_cnt > 0
    BY <1>2
  <2>1. CASE n = name[p]
    <3> DEFINE w == WithDeny(i[s], i[s].deny_write_cnt + 1)
    <3>1. i[s] \in Inode /\ i[s].deny_write_cnt + 1 \in Nat
      BY <1>2 DEF Inode
    <3>2. w.open_cnt = i[s].open_cnt /\ Same(w, i[s])
      BY <3>1, InodeFields, Zenon
    <3>3. open_inodes' = [i EXCEPT ![s] = w]
      BY <1>3, <2>1, Zenon
    <3> HIDE DEF w
    <3>4. open_inodes'[s] = w /\ \A t \in Sector \ {s} : open_inodes'[t] = i[t]
      BY <1>2, <3>3, Zenon
    <3> QED
      BY <1>2, <2>0, <3>2, <3>4, Zenon DEF Same
  <2>2. CASE n # name[p]
    BY <1>2, <1>3, <2>0, <2>2, Zenon
  <2> QED
    BY <2>1, <2>2, Zenon
<1> QED
  BY <1>1, <1>2, <1>4, OpenSectors, Zenon

(* load opens the program. *)
LEMMA LoadSectors ==
  ASSUME CInv, DInv, NEW p \in Process, NEW n \in Name, Load(p, n) PROVE DInv'
<1> DEFINE s == dir[n]
           i == InodeOpen(s)
<1>1. /\ UNCHANGED <<dir, disk_inode, disk_map, free_map, pc, op, lost>> /\ dir[n] # 0
      /\ open_inodes' = i
  BY Zenon DEF Load, disk
<1>2. /\ s \in Sector /\ s \in Entries /\ i \in [Sector -> Inode]
      /\ \A t \in Sector \ {s} : i[t] = open_inodes[t]
      /\ i[s].open_cnt = open_inodes[s].open_cnt + 1 /\ open_inodes[s].open_cnt \in Nat
      /\ ~i[s].removed /\ i[s].start = disk_inode[s].start /\ i[s].length = disk_inode[s].length
  BY <1>1, OpenedFresh, Zenon
<1> HIDE DEF s, i
<1>3. i[s].open_cnt > 0
  BY <1>2
<1> QED
  BY <1>1, <1>2, <1>3, OpenSectors, Zenon

(* A file is closed; the last one of a removed file makes its space pending. *)
LEMMA CloseSectors ==
  ASSUME CInv, DInv, NEW s \in Sector, pc \in {"idle", "exit"},
         UNCHANGED <<dir, disk_inode, disk_map, free_map, lost>>,
         \A t \in Sector \ {s} : open_inodes'[t] = open_inodes[t],
         open_inodes[s].open_cnt > 0,
         open_inodes'[s].open_cnt = open_inodes[s].open_cnt - 1,
         open_inodes[s].open_cnt > 1 => Same(open_inodes'[s], open_inodes[s]),
         open_inodes[s].open_cnt = 1 /\ open_inodes[s].removed =>
           /\ pc' = "release" /\ op'.sector = s /\ op'.start = open_inodes[s].start
           /\ op'.length = open_inodes[s].length,
         ~(open_inodes[s].open_cnt = 1 /\ open_inodes[s].removed) => pc' \in {"idle", "exit"}
  PROVE  DInv'
<1> DEFINE r == open_inodes[s]
           n == open_inodes'[s]
<1>0. r.open_cnt \in Nat /\ IsOpen(s) /\ s \in Files
  BY CountFacts, Zenon DEF IsOpen, Files
<1>1. /\ r.start = disk_inode[s].start /\ r.length = disk_inode[s].length
      /\ r.removed <=> s \notin Entries
  BY <1>0, Zenon DEF DInv, Fresh
<1>2. Entries' = Entries /\ Space' = Space /\ Names'
  <2>1. Entries' = Entries
    BY Zenon DEF Entries
  <2>2. Space' = Space
    BY Zenon DEF Space, OnDisk, Data
  <2>3. Names'
    BY Zenon DEF DInv, Names
  <2> QED
    BY <2>1, <2>2, <2>3, Zenon
<1>3. Pending = {}
  BY PendingIs, Zenon
<1>4. Fresh'
  <2>1. ASSUME NEW t \in Sector, open_inodes'[t].open_cnt > 0
        PROVE  /\ open_inodes'[t].start = disk_inode[t].start
               /\ open_inodes'[t].length = disk_inode[t].length
               /\ open_inodes'[t].removed <=> t \notin Entries
    <3>1. CASE t = s
      <4>1. r.open_cnt > 1
        BY <1>0, <2>1, <3>1
      <4> QED
        BY <1>1, <3>1, <4>1, Zenon DEF Same
    <3>2. CASE t # s
      BY <2>1, <3>2, Zenon DEF DInv, Fresh, IsOpen
    <3> QED
      BY <3>1, <3>2, Zenon
  <2> QED
    BY <1>2, <2>1, Zenon DEF Fresh, IsOpen
<1>5. CASE r.open_cnt = 1 /\ r.removed
  <2>0. n.open_cnt = r.open_cnt - 1
    BY Zenon
  <2>1. s \notin Entries /\ ~(n.open_cnt > 0)
    <3>1. s \notin Entries
      BY <1>1, <1>5, Zenon
    <3> HIDE DEF n, r
    <3>2. n.open_cnt = 0
      BY <1>5, <2>0
    <3> QED
      BY <3>1, <3>2
  <2>2. Files' = Files \ {s}
    BY <1>0, <1>2, <2>1, Zenon DEF Files, IsOpen
  <2>3. Pending' = Space[s]
    BY <1>1, <1>5, PendingIsThen, Zenon DEF Space, OnDisk
  <2>4. Partition(Files \ {s}, Space, Space[s], lost, free_map)
    <3>1. Partition(Files, Space, {}, lost, free_map)
      BY <1>3, Zenon DEF DInv
    <3> QED
      BY <1>0, <3>1, Orphaned, Zenon
  <2>5. Partition(Files', Space', Pending', lost', free_map')
    BY <1>2, <2>2, <2>3, <2>4, Zenon
  <2>6. Apart'
    BY <2>2, Zenon DEF DInv, Apart, Data
  <2>7. OpFits'
    <3>1. s \notin Data(r.start, r.length)
      BY <1>0, <1>1, Zenon DEF DInv, Apart
    <3> QED
      BY <1>5, <3>1, Zenon DEF OpFits, Data
  <2> QED
    BY <1>2, <1>4, <2>5, <2>6, <2>7, Zenon DEF DInv
<1>6. CASE ~(r.open_cnt = 1 /\ r.removed)
  <2>1. n.open_cnt > 0 \/ s \in Entries
    BY <1>0, <1>1, <1>6
  <2>2. Files' = Files
    BY <1>0, <1>2, <2>1, Zenon DEF Files, IsOpen
  <2>3. Pending' = {}
    BY <1>6, PendingIsThen, Zenon
  <2>4. Partition(Files', Space', Pending', lost', free_map')
    BY <1>2, <1>3, <2>2, <2>3, Zenon DEF DInv
  <2>5. Apart'
    BY <2>2, Zenon DEF DInv, Apart, Data
  <2>6. OpFits'
    BY <1>6, Zenon DEF OpFits
  <2> QED
    BY <1>2, <1>4, <2>4, <2>5, <2>6, Zenon DEF DInv
<1> QED
  BY <1>5, <1>6, Zenon

(* FileClose of a file that is open. *)
LEMMA FileCloseSectors ==
  ASSUME CInv, DInv,
         NEW f \in File, f.sector \in Sector, open_inodes[f.sector].open_cnt > 0,
         f.deny => open_inodes[f.sector].deny_write_cnt > 0,
         NEW p \in Process \cup {NULL}, NEW next \in {"idle", "exit"}, FileClose(f, p, next),
         pc \in {"idle", "exit"}, UNCHANGED <<dir, disk_inode, disk_map, free_map, lost>>
  PROVE  DInv'
<1>0. FsType
  BY Zenon DEF CInv
<1>1. LET s == f.sector
          r == open_inodes[s]
          n == open_inodes'[s]
          gone == r.open_cnt = 1 /\ r.removed
      IN  /\ \A t \in Sector \ {s} : open_inodes'[t] = open_inodes[t]
          /\ n.open_cnt = r.open_cnt - 1
          /\ r.open_cnt > 1 => Same(n, r)
          /\ gone => /\ pc' = "release" /\ op'.sector = s
                     /\ op'.start = r.start /\ op'.length = r.length
          /\ ~gone => pc' = next
  BY <1>0, FileClosed, Zenon
<1> DEFINE s == f.sector
<1>2. /\ \A t \in Sector \ {s} : open_inodes'[t] = open_inodes[t]
      /\ open_inodes'[s].open_cnt = open_inodes[s].open_cnt - 1
      /\ open_inodes[s].open_cnt > 1 => Same(open_inodes'[s], open_inodes[s])
      /\ open_inodes[s].open_cnt = 1 /\ open_inodes[s].removed =>
           /\ pc' = "release" /\ op'.sector = s /\ op'.start = open_inodes[s].start
           /\ op'.length = open_inodes[s].length
      /\ ~(open_inodes[s].open_cnt = 1 /\ open_inodes[s].removed) => pc' \in {"idle", "exit"}
  BY <1>1, Zenon
<1>3. s \in Sector /\ open_inodes[s].open_cnt > 0
  BY Zenon
<1> HIDE DEF s
<1> QED
  BY <1>2, <1>3, CloseSectors, Zenon

(* What a table or a program holds is open. *)
LEMMA HeldOpen ==
  ASSUME CInv, NEW p \in Process, NEW fd \in 1..Len(fdt[p]), fdt[p][fd] # NoFile
  PROVE  LET f == fdt[p][fd]
         IN  /\ f \in File /\ f.sector \in Sector /\ open_inodes[f.sector].open_cnt > 0
             /\ f.deny => open_inodes[f.sector].deny_write_cnt > 0
<1> DEFINE f == fdt[p][fd]
           s == f.sector
           o == <<p, fd>>
<1>1. /\ fdt \in [Process -> Seq(File)] /\ Len(fdt[p]) \in Nat /\ Len(fdt[p]) <= FdtMax /\ FdtMax \in Nat
      /\ f \in File /\ s \in Sector
  <2>1. fdt \in [Process -> Seq(File)] /\ fdt[p] \in Seq(File)
    BY Zenon DEF CInv, FsType
  <2>2. Len(fdt[p]) <= FdtMax /\ s \in Sector
    BY Zenon DEF CInv, Tables
  <2>3. f \in File
    BY <2>1
  <2> QED
    BY <2>1, <2>2, <2>3, SectorFacts
<1>2. fd \in 1..FdtMax
  BY <1>1
<1> HIDE DEF s
<1>3. o \in Opn(fdt, s) /\ (f.deny => o \in Den(fdt, s))
  <2>1. /\ <<p, fd>> \in Opn(fdt, s) <=> fd \in 1..Len(fdt[p]) /\ fdt[p][fd].sector = s
        /\ <<p, fd>> \in Den(fdt, s) <=>
             fd \in 1..Len(fdt[p]) /\ fdt[p][fd].sector = s /\ fdt[p][fd].deny
    BY <1>1, <1>2, OpnAre, Zenon
  <2>2. fdt[p][fd].sector = s
    BY Zenon DEF s
  <2> QED
    BY <2>1, <2>2, Zenon
<1> HIDE DEF o, f
<1>4. /\ Cardinality(Opn(fdt, s)) \in Nat /\ Cardinality(Den(fdt, s)) \in Nat
      /\ Cardinality(Exe(exec_file, s)) \in Nat
      /\ IsFiniteSet(Opn(fdt, s)) /\ IsFiniteSet(Den(fdt, s))
  BY Finite, Zenon
<1>5. Cardinality(Opn(fdt, s)) # 0 /\ (f.deny => Cardinality(Den(fdt, s)) # 0)
  <2>1. Opn(fdt, s) # {} /\ (f.deny => Den(fdt, s) # {})
    BY <1>3, Zenon
  <2> QED
    BY <1>4, <2>1, NonEmpty, Zenon
<1>6. Counted(open_inodes, fdt, exec_file, s)
  BY <1>1, CountFacts, Zenon
<1>7. open_inodes[s].open_cnt > 0 /\ (f.deny => open_inodes[s].deny_write_cnt > 0)
  BY <1>4, <1>5, <1>6 DEF Counted
<1> QED
  BY <1>1, <1>7, Zenon DEF s, f

(* A running program's file is open. *)
LEMMA ExecOpen ==
  ASSUME CInv, NEW p \in Process, name[p] # NULL
  PROVE  exec_file[p] \in Sector /\ open_inodes[exec_file[p]].open_cnt > 0
<1> DEFINE s == exec_file[p]
<1>1. s \in Sector
  BY Zenon DEF CInv, FsType, Tables
<1>2. p \in Exe(exec_file, s)
  BY Zenon DEF Exe
<1> HIDE DEF s
<1>3. /\ Cardinality(Opn(fdt, s)) \in Nat /\ Cardinality(Exe(exec_file, s)) \in Nat
      /\ IsFiniteSet(Exe(exec_file, s))
  BY Finite, Zenon
<1>4. Cardinality(Exe(exec_file, s)) # 0
  <2>1. Exe(exec_file, s) # {}
    BY <1>2, Zenon
  <2> QED
    BY <1>3, <2>1, NonEmpty, Zenon
<1>5. Counted(open_inodes, fdt, exec_file, s)
  BY <1>1, CountFacts, Zenon
<1>6. open_inodes[s].open_cnt > 0
  BY <1>3, <1>4, <1>5 DEF Counted
<1> QED
  BY <1>1, <1>6, Zenon DEF s

(* The close system call. *)
LEMMA CloseFileSectors ==
  ASSUME CInv, DInv, NEW p \in Process, NEW fd \in DOMAIN fdt[p], Close(p, fd) PROVE DInv'
<1> DEFINE f == fdt[p][fd]
<1>1. fd \in 1..Len(fdt[p])
  BY DEF CInv, FsType
<1>2. /\ pc = "idle" /\ f # NoFile /\ FileClose(f, NULL, "idle")
      /\ UNCHANGED <<dir, disk_inode, disk_map, free_map, lost>>
  BY Zenon DEF Close, disk
<1>3. /\ f \in File /\ f.sector \in Sector /\ open_inodes[f.sector].open_cnt > 0
      /\ f.deny => open_inodes[f.sector].deny_write_cnt > 0
  BY <1>1, <1>2, HeldOpen, Zenon
<1> HIDE DEF f
<1> QED
  BY <1>2, <1>3, FileCloseSectors, Zenon

(* process_exit closes the program. *)
LEMMA ExitSectors ==
  ASSUME CInv, DInv, NEW p \in Process, Exit(p) PROVE DInv'
<1> DEFINE f == [sector |-> exec_file[p], deny |-> FALSE]
<1>1. /\ pc = "idle" /\ name[p] # NULL /\ FileClose(f, p, "exit")
      /\ UNCHANGED <<dir, disk_inode, disk_map, free_map, lost>>
  BY Zenon DEF Exit, disk
<1>2. exec_file[p] \in Sector /\ open_inodes[exec_file[p]].open_cnt > 0
  BY <1>1, ExecOpen, Zenon
<1>3. f \in File /\ f.sector = exec_file[p] /\ ~f.deny
  BY <1>2, Zenon DEF File
<1> HIDE DEF f
<1> QED
  BY <1>1, <1>2, <1>3, FileCloseSectors, Zenon

(* process_exit closes one file after the other. *)
LEMMA ExitFilesSectors ==
  ASSUME CInv, DInv, ExitFiles PROVE DInv'
<1> DEFINE p == op.proc
           files == {fd \in DOMAIN fdt[p] : fdt[p][fd] # NoFile}
           fd == CHOOSE f \in files : \A g \in files : f <= g
           f == fdt[p][fd]
<1>1. p \in Process /\ pc = "exit"
  BY Zenon DEF CInv, ExitFiles
<1>2. UNCHANGED <<dir, disk_inode, disk_map, free_map, lost>>
  BY Zenon DEF ExitFiles, disk
<1>3. CASE files # {}
  <2>1. fd \in 1..Len(fdt[p]) /\ fdt[p][fd] # NoFile
    BY <1>1, <1>3, NextFile, Zenon
  <2>2. FileClose(f, p, "exit")
    BY <1>3, Zenon DEF ExitFiles
  <2> HIDE DEF fd, p
  <2>3. /\ f \in File /\ f.sector \in Sector /\ open_inodes[f.sector].open_cnt > 0
        /\ f.deny => open_inodes[f.sector].deny_write_cnt > 0
    BY <1>1, <2>1, HeldOpen, Zenon
  <2> HIDE DEF f
  <2> QED
    BY <1>1, <1>2, <2>2, <2>3, FileCloseSectors, Zenon
<1>4. CASE files = {}
  <2>1. pc' = "idle" /\ open_inodes' = open_inodes
    BY <1>4, Zenon DEF ExitFiles
  <2>2. Files' = Files /\ Space' = Space /\ Fresh' /\ Names' /\ Apart'
    BY <1>2, <2>1, FilesFrame, Zenon
  <2>3. Pending = {} /\ Pending' = {}
    BY <1>1, <2>1, PendingIs, PendingIsThen, Zenon
  <2>4. Partition(Files', Space', Pending', lost', free_map')
    BY <1>2, <2>2, <2>3, Zenon DEF DInv
  <2>5. OpFits'
    BY <2>1, Zenon DEF OpFits
  <2> QED
    BY <1>2, <2>2, <2>4, <2>5, Zenon DEF DInv
<1> QED
  BY <1>3, <1>4, Zenon

(* filesys_remove: the file stays while it is open, or ends at once. *)
LEMMA RemoveSectors ==
  ASSUME CInv, DInv, NEW n \in Name, Remove(n) PROVE DInv'
<1> DEFINE s == dir[n]
           r == open_inodes[s]
           j == InodeOpen(s)
           i == [j EXCEPT ![s] = WithRemoved(j[s])]
           m == open_inodes'[s]
<1>0. /\ pc = "idle" /\ dir[n] # 0 /\ dir' = [dir EXCEPT ![n] = 0] /\ InodeClose(s, i, NULL, "idle")
      /\ UNCHANGED <<disk_inode, disk_map, free_map, lost>>
  BY Zenon DEF Remove, WithRemoved
<1>1. /\ s \in Sector /\ s \in Entries /\ j \in [Sector -> Inode]
      /\ \A t \in Sector \ {s} : j[t] = open_inodes[t]
      /\ j[s].open_cnt = r.open_cnt + 1 /\ r.open_cnt \in Nat
      /\ ~j[s].removed /\ j[s].start = disk_inode[s].start /\ j[s].length = disk_inode[s].length
  BY <1>0, OpenedFresh, Zenon
<1>2. /\ dir \in [Name -> Sector \cup {0}] /\ Pending = {} /\ s \in Files
      /\ Files \subseteq Sector /\ Entries \subseteq Sector /\ s # 0
  BY <1>0, <1>1, FileFacts, PendingIs, Zenon DEF CInv, FsType, Files
<1>3. dir'[n] = 0 /\ \A k \in Name \ {n} : dir'[k] = dir[k]
  BY <1>0, <1>2, Zenon
<1>4. \A k \in Name \ {n} : dir[k] # s
  BY <1>2, Zenon DEF DInv, Names
<1>5. Entries' = Entries \ {s}
  BY <1>3, <1>4, Zenon DEF Entries
<1> HIDE DEF j, r, s
<1>6. /\ i \in [Sector -> Inode] /\ \A t \in Sector \ {s} : i[t] = open_inodes[t]
      /\ i[s].open_cnt = r.open_cnt + 1 /\ i[s].removed
      /\ i[s].start = disk_inode[s].start /\ i[s].length = disk_inode[s].length
  <2>1. j[s] \in Inode
    BY <1>1, Zenon
  <2>2. /\ WithRemoved(j[s]) \in Inode /\ WithRemoved(j[s]).open_cnt = j[s].open_cnt
        /\ WithRemoved(j[s]).removed /\ WithRemoved(j[s]).start = j[s].start
        /\ WithRemoved(j[s]).length = j[s].length
    BY <2>1, InodeFields, Zenon
  <2> QED
    BY <1>1, <2>2, Zenon
<1> HIDE DEF i
<1>7. /\ \A t \in Sector \ {s} : open_inodes'[t] = open_inodes[t]
      /\ m.open_cnt = r.open_cnt
      /\ r.open_cnt > 0 => /\ m.removed /\ m.start = disk_inode[s].start
                           /\ m.length = disk_inode[s].length /\ pc' = "idle"
      /\ r.open_cnt = 0 => /\ pc' = "release" /\ op'.sector = s
                           /\ op'.start = disk_inode[s].start /\ op'.length = disk_inode[s].length
  <2>0. r.open_cnt \in Nat /\ i[s].open_cnt = r.open_cnt + 1
    BY <1>1, <1>6, Zenon
  <2>1. i[s].open_cnt > 0
    BY <2>0
  <2>2. LET k == i[s]
            o == open_inodes'[s]
            gone == k.open_cnt = 1 /\ k.removed
        IN  /\ \A t \in Sector \ {s} : open_inodes'[t] = i[t]
            /\ o.open_cnt = k.open_cnt - 1
            /\ k.open_cnt > 1 => Same(o, k)
            /\ gone => /\ pc' = "release" /\ op'.sector = s
                       /\ op'.start = k.start /\ op'.length = k.length
            /\ ~gone => pc' = "idle"
    <3>1. s \in Sector /\ i \in [Sector -> Inode] /\ InodeClose(s, i, NULL, "idle")
      BY <1>0, <1>1, <1>6, Zenon
    <3> QED
      BY <2>1, <3>1, Closed, Zenon
  <2>3. r.open_cnt > 0 => i[s].open_cnt > 1 /\ i[s].open_cnt # 1
    BY <2>0
  <2>4. r.open_cnt = 0 => i[s].open_cnt = 1
    BY <2>0
  <2>5. m.open_cnt = r.open_cnt
    BY <2>0, <2>2
  <2> QED
    BY <1>6, <2>2, <2>3, <2>4, <2>5, Zenon DEF Same
<1>8. Space' = Space
  BY <1>0, Zenon DEF Space, OnDisk, Data
<1>9. Names'
  BY <1>3, Zenon DEF DInv, Names
<1>10. Fresh'
  <2>1. ASSUME NEW t \in Sector, open_inodes'[t].open_cnt > 0
        PROVE  /\ open_inodes'[t].start = disk_inode[t].start
               /\ open_inodes'[t].length = disk_inode[t].length
               /\ open_inodes'[t].removed <=> t \notin Entries'
    <3>1. CASE t = s
      <4>1. r.open_cnt > 0
        BY <1>7, <2>1, <3>1, Zenon
      <4> QED
        BY <1>5, <1>7, <3>1, <4>1, Zenon
    <3>2. CASE t # s
      BY <1>5, <1>7, <2>1, <3>2, Zenon DEF DInv, Fresh, IsOpen
    <3> QED
      BY <3>1, <3>2, Zenon
  <2> QED
    BY <1>0, <2>1, Zenon DEF Fresh, IsOpen
<1>11. CASE r.open_cnt = 0
  <2>0. ~(m.open_cnt > 0)
    BY <1>7, <1>11, Zenon
  <2>1. Files' = Files \ {s}
    <3>1. \A u \in Sector : IsOpen(u)' <=> u # s /\ IsOpen(u)
      BY <1>7, <2>0, Zenon DEF IsOpen
    <3>2. ASSUME NEW u PROVE u \in Files' <=> u \in Files /\ u # s
      BY <1>2, <1>5, <3>1, Zenon DEF Files
    <3> QED
      BY <3>2, Zenon
  <2>2. Pending' = Space[s]
    BY <1>1, <1>7, <1>11, PendingIsThen, Zenon DEF Space, OnDisk
  <2>3. Partition(Files \ {s}, Space, Space[s], lost, free_map)
    <3>1. Partition(Files, Space, {}, lost, free_map)
      BY <1>2, Zenon DEF DInv
    <3> QED
      BY <1>2, <3>1, Orphaned, Zenon
  <2>4. Partition(Files', Space', Pending', lost', free_map')
    BY <1>0, <1>8, <2>1, <2>2, <2>3, Zenon
  <2>5. Apart'
    BY <1>0, <2>1, Zenon DEF DInv, Apart, Data
  <2>6. OpFits'
    <3>1. s \notin Data(disk_inode[s].start, disk_inode[s].length)
      BY <1>2, Zenon DEF DInv, Apart
    <3> QED
      BY <1>1, <1>7, <1>11, <3>1, Zenon DEF OpFits, Data
  <2> QED
    BY <1>0, <1>9, <1>10, <2>4, <2>5, <2>6, Zenon DEF DInv
<1>12. CASE r.open_cnt > 0
  <2>1. Files' = Files
    <3>1. r.open_cnt > 0 /\ m.open_cnt > 0
      BY <1>7, <1>12, Zenon
    <3> QED
      BY <1>2, <1>5, <1>7, <3>1, Zenon DEF Files, IsOpen, r
  <2>2. Pending' = {}
    BY <1>7, <1>12, PendingIsThen, Zenon
  <2>3. Partition(Files', Space', Pending', lost', free_map')
    BY <1>0, <1>2, <1>8, <2>1, <2>2, Zenon DEF DInv
  <2>4. Apart'
    BY <1>0, <2>1, Zenon DEF DInv, Apart, Data
  <2>5. OpFits'
    BY <1>7, <1>12, Zenon DEF OpFits
  <2> QED
    BY <1>0, <1>9, <1>10, <2>3, <2>4, <2>5, Zenon DEF DInv
<1> QED
  BY <1>1, <1>11, <1>12

(* A crash leaves the files that entries lead to; the rest is lost. *)
LEMMA CrashSectors ==
  ASSUME CInv, DInv, Reboot PROVE DInv'
<1>1. /\ open_inodes' = [s \in Sector |-> NotOpen] /\ free_map' = disk_map /\ pc' = "idle"
      /\ UNCHANGED <<dir, disk_inode, disk_map>>
      /\ lost' = disk_map \ UNION {{dir[n]} \cup Data(disk_inode[dir[n]].start,
                                                     disk_inode[dir[n]].length) :
                                   n \in {m \in Name : dir[m] # 0}}
  BY Zenon DEF Reboot, disk
<1>2. disk_map = free_map /\ Entries \subseteq Sector /\ Entries \subseteq Files
  BY FileFacts, Zenon DEF DInv, Files
<1>3. \A s \in Sector : ~(open_inodes'[s].open_cnt > 0)
  BY <1>1 DEF NotOpen
<1>4. Entries' = Entries /\ Files' = Entries
  BY <1>1, <1>3, Zenon DEF Entries, Files, IsOpen
<1>5. Space' = Space /\ Pending' = {}
  BY <1>1, PendingIsThen, Zenon DEF Space, OnDisk, Data
<1>6. \A x : x \in lost' <=> x \in free_map /\ \A s \in Entries : x \notin Space[s]
  <2>1. \A s \in Entries : Space[s] = {s} \cup Data(disk_inode[s].start, disk_inode[s].length)
    BY <1>2, Zenon DEF Space, OnDisk
  <2>2. \A s : s \in Entries <=> \E n \in {m \in Name : dir[m] # 0} : s = dir[n]
    BY Zenon DEF Entries
  <2> QED
    BY <1>1, <1>2, <2>1, <2>2
<1>7. Partition(Entries, Space, {}, lost', free_map)
  <2>1. Partition(Files, Space, Pending, lost, free_map)
    BY Zenon DEF DInv
  <2> QED
    BY <1>2, <1>6, <2>1, Crashed, Zenon
<1>8. Partition(Files', Space', Pending', lost', free_map')
  BY <1>1, <1>2, <1>4, <1>5, <1>7, Zenon
<1>9. Fresh' /\ Names' /\ OpFits'
  BY <1>1, <1>3, Zenon DEF DInv, Fresh, IsOpen, Names, OpFits
<1>10. Apart'
  BY <1>1, <1>2, <1>4, Zenon DEF DInv, Apart, Data
<1> QED
  BY <1>1, <1>2, <1>8, <1>9, <1>10, Zenon DEF DInv

(* A formatted disk has no owners to confuse. *)
LEMMA DInvInit == Init => DInv
<1> SUFFICES ASSUME Init PROVE DInv
  BY Zenon
<1>1. /\ \A n \in Name : dir[n] = 0
      /\ \A s \in Sector : ~(open_inodes[s].open_cnt > 0)
      /\ pc = "idle" /\ lost = {} /\ free_map = {} /\ disk_map = {}
  BY DEF Init, NotOpen
<1>2. Entries = {} /\ Files = {}
  BY <1>1, Zenon DEF Entries, Files, IsOpen
<1>3. Pending = {}
  BY <1>1, PendingIs, Zenon
<1>4. Partition({}, Space, {}, {}, {})
  BY Zenon DEF Partition
<1>5. Partition(Files, Space, Pending, lost, free_map)
  BY <1>1, <1>2, <1>3, <1>4, Zenon
<1>6. Fresh /\ Names /\ Apart /\ OpFits
  BY <1>1, <1>2, Zenon DEF Fresh, IsOpen, Names, Apart, OpFits
<1> QED
  BY <1>1, <1>5, <1>6, Zenon DEF DInv

(* Ownership stays when nothing happens. *)
LEMMA StutterSectors ==
  ASSUME DInv, UNCHANGED state PROVE DInv'
<1>1. UNCHANGED <<dir, disk_inode, disk_map, free_map, open_inodes, pc, op, lost>>
  BY Zenon DEF state, disk, memory
<1>2. Files' = Files /\ Space' = Space /\ Fresh' /\ Names' /\ Apart'
  BY <1>1, FilesFrame, Zenon
<1>3. Pending' = Pending
  BY <1>1, Zenon DEF Pending, Data
<1>4. Partition(Files', Space', Pending', lost', free_map')
  BY <1>1, <1>2, <1>3, Zenon DEF DInv
<1>5. OpFits'
  BY <1>1, Zenon DEF DInv, OpFits, Data
<1> QED
  BY <1>1, <1>2, <1>4, <1>5, Zenon DEF DInv

(* The ownership of the sectors is kept, operation by operation. *)
LEMMA DInvNext ==
  ASSUME CInv, DInv, [FileStep]_state PROVE DInv'
<1>1. ASSUME NEW n \in Name, NEW l \in Length, Create(n, l) PROVE DInv'
  BY <1>1, CreateSectors, Zenon
<1>2. ASSUME NEW n \in Name, Remove(n) PROVE DInv'
  BY <1>2, RemoveSectors, Zenon
<1>3. ASSUME NEW p \in Process, NEW n \in Name, Open(p, n) PROVE DInv'
  BY <1>3, OpenFileSectors, Zenon
<1>4. ASSUME NEW p \in Process, NEW n \in Name, Load(p, n) PROVE DInv'
  BY <1>4, LoadSectors, Zenon
<1>5. CASE InodeCreate
  BY <1>5, InodeCreateSectors, Zenon
<1>6. CASE InodeWrite
  BY <1>6, InodeWriteSectors, Zenon
<1>7. CASE DirAdd
  BY <1>7, DirAddSectors, Zenon
<1>8. CASE Undo
  BY <1>8, UndoSectors, Zenon
<1>9. CASE ReleaseInode
  BY <1>9, ReleaseInodeSectors, Zenon
<1>10. CASE ReleaseData
  BY <1>10, ReleaseDataSectors, Zenon
<1>11. ASSUME NEW p \in Process, NEW fd \in DOMAIN fdt[p], Close(p, fd) PROVE DInv'
  BY <1>11, CloseFileSectors, Zenon
<1>12. ASSUME NEW p \in Process, Exit(p) PROVE DInv'
  BY <1>12, ExitSectors, Zenon
<1>13. CASE ExitFiles
  BY <1>13, ExitFilesSectors, Zenon
<1>14. CASE Reboot
  BY <1>14, CrashSectors, Zenon
<1>15. CASE UNCHANGED state
  BY <1>15, StutterSectors, Zenon
<1> QED
  BY <1>1, <1>2, <1>3, <1>4, <1>5, <1>6, <1>7, <1>8, <1>9, <1>10, <1>11, <1>12, <1>13, <1>14,
     <1>15, Zenon DEF FileStep
----------------------------------------------------------------------------
(* One operation is in progress, and only a process has filesys_lock. *)
Callers ==
  /\ caller \in Process \cup {Main, NULL}
  /\ filesys_lock \in {caller, NULL}
  /\ filesys_lock # NULL => caller \in Process
  /\ raced \in BOOLEAN

(* Whoever is in progress goes on or returns; an overlap ends the story. *)
LEMMA CallersNext ==
  ASSUME Callers, [Next]_vars PROVE Callers'
<1>1. ASSUME NEW t \in Process \cup {Main}, Begin(t, FALSE) PROVE Callers'
  BY <1>1, Zenon DEF Begin, Callers
<1>2. ASSUME NEW t \in Process, Begin(t, TRUE) PROVE Callers'
  BY <1>2, Zenon DEF Begin, Callers
<1>3. CASE Step
  BY <1>3, Zenon DEF Step, Leave, Callers
<1>4. CASE NoChange
  BY <1>4, Zenon DEF NoChange, Leave, Callers
<1>5. CASE Crash
  BY <1>5, Zenon DEF Crash, Leave, Callers
<1>6. CASE UNCHANGED vars
  BY <1>6, Zenon DEF vars, Callers
<1> QED
  BY <1>1, <1>2, <1>3, <1>4, <1>5, <1>6, Zenon DEF Next

(* What a thread does to the files is one of the steps above, or nothing. *)
LEMMA StepsAre ==
  ASSUME Callers, [Next]_vars PROVE [FileStep]_state
<1>1. ASSUME NEW t, NEW l, Begin(t, l) PROVE UNCHANGED state
  BY <1>1, Zenon DEF Begin
<1>2. CASE Step
  <2>1. CASE NextStep
    BY <2>1, Zenon DEF NextStep, FileStep
  <2>2. CASE FirstStep
    <3>1. CASE \E n \in Name : (\E l \in Length : Create(n, l)) \/ Remove(n)
      BY <3>1, Zenon DEF FileStep
    <3>2. ASSUME filesys_lock # NULL, NEW n \in Name, Open(caller, n) PROVE FileStep
      BY <3>2, Zenon DEF FileStep, Callers
    <3>3. ASSUME filesys_lock # NULL, NEW fd \in DOMAIN fdt[caller], Close(caller, fd)
          PROVE  FileStep
      BY <3>3, Zenon DEF FileStep, Callers
    <3>4. ASSUME caller \in Process, NEW n \in Name, Load(caller, n) PROVE FileStep
      BY <3>4, Zenon DEF FileStep
    <3>5. ASSUME caller \in Process, Exit(caller) PROVE FileStep
      BY <3>5, Zenon DEF FileStep
    <3> QED
      BY <2>2, <3>1, <3>2, <3>3, <3>4, <3>5, Zenon DEF FirstStep
  <2> QED
    BY <1>2, <2>1, <2>2, Zenon DEF Step
<1>3. CASE NoChange
  BY <1>3, Zenon DEF NoChange
<1>4. CASE Crash
  BY <1>4, Zenon DEF Crash, FileStep
<1>5. CASE UNCHANGED vars
  BY <1>5, Zenon DEF vars
<1> QED
  BY <1>1, <1>2, <1>3, <1>4, <1>5, Zenon DEF Next

(* The inductive invariant: counts, sectors and their owners, until two    *)
(* operations overlap.                                                     *)
FsInv == Callers /\ CInv /\ DInv

(* The counts of inode.c and the ownership of sectors hold, crashes        *)
(* included, until an operation that takes no filesys_lock (load,          *)
(* process_exit, a command of the kernel's) overlaps another.              *)
THEOREM FsInvHolds == Spec => []FsInv
<1>1. Init => FsInv
  <2>1. Init => Callers
    BY Zenon DEF Init, Callers
  <2> QED
    BY <2>1, CInvInit, DInvInit DEF FsInv
<1>2. FsInv /\ [Next]_vars => FsInv'
  BY CallersNext, StepsAre, CInvNext, DInvNext DEF FsInv
<1> QED
  BY <1>1, <1>2, PTL DEF Spec

(* The counts of inode.c: open_cnt is the number of files that have the    *)
(* inode open, in descriptor tables or as a program, and deny_write_cnt    *)
(* the number of those that deny writes, whatever processes open, close,   *)
(* remove, run and exit, and across crashes, until an operation without    *)
(* filesys_lock overlaps another.                                          *)
THEOREM CountsExactHolds == Spec => []CountsExact
<1>1. FsInv => CountsExact
  <2> SUFFICES ASSUME FsInv PROVE CountsExact
    OBVIOUS
  <2>1. FsType /\ OpenCount /\ DenyCount
    BY DEF FsInv, CInv
  <2>2. lost \subseteq Sector
    BY <2>1 DEF FsInv, DInv, Partition, FsType
  <2>3. TypeOK
    BY <2>1, <2>2, Zenon DEF TypeOK, FsType, Inode, File, FsPC, Operands, FsInv, Callers
  <2> QED
    BY <2>1, <2>3 DEF CountsExact
<1> QED
  BY <1>1, FsInvHolds, PTL

(* filesys_remove and inode_close: an open file's sectors stay marked and  *)
(* belong to no other open file and no other entry, also when the file has *)
(* been removed or its inode is being given back, until an operation       *)
(* without filesys_lock overlaps another.                                  *)
THEOREM OpenFilesKeepSectorsHolds == Spec => []OpenFilesKeepSectors
<1>1. FsInv => OpenFilesKeepSectors
  <2> SUFFICES ASSUME FsInv, NEW s \in Sector, open_inodes[s].open_cnt > 0
               PROVE  /\ InMemory(s) \subseteq free_map
                      /\ \A t \in Sector \ {s} : open_inodes[t].open_cnt > 0 =>
                           InMemory(s) \cap InMemory(t) = {}
                      /\ \A t \in Entries \ {s} : InMemory(s) \cap OnDisk(t) = {}
                      /\ open_inodes[s].removed <=> s \notin Entries
    BY DEF OpenFilesKeepSectors, SectorsKept
  <2>1. CInv /\ DInv
    BY DEF FsInv
  <2>2. \A t \in Sector : open_inodes[t].open_cnt > 0 => t \in Files /\ InMemory(t) = Space[t]
    BY <2>1 DEF DInv, Fresh, IsOpen, Files, InMemory, Space, OnDisk
  <2>3. \A t \in Entries : t \in Files /\ OnDisk(t) = Space[t]
    BY <2>1, FileFacts DEF Files, Space
  <2>4. /\ \A t \in Files : Space[t] \subseteq free_map
        /\ \A t, u \in Files : t # u => Space[t] \cap Space[u] = {}
    BY <2>1 DEF DInv, Partition
  <2>5. open_inodes[s].removed <=> s \notin Entries
    BY <2>1 DEF DInv, Fresh, IsOpen
  <2> HIDE DEF Files, Space
  <2>6. InMemory(s) \subseteq free_map
    BY <2>2, <2>4
  <2>7. ASSUME NEW t \in Sector \ {s}, open_inodes[t].open_cnt > 0
        PROVE  InMemory(s) \cap InMemory(t) = {}
    BY <2>2, <2>4, <2>7, Zenon
  <2>8. ASSUME NEW t \in Entries \ {s} PROVE InMemory(s) \cap OnDisk(t) = {}
    BY <2>2, <2>3, <2>4, Zenon
  <2> QED
    BY <2>5, <2>6, <2>7, <2>8
<1> QED
  BY <1>1, FsInvHolds, PTL

(* After every single write to the disk each entry leads to an inode whose *)
(* sectors are marked and nobody else's; between operations every marked   *)
(* sector is an entry's, an open file's, or one that a failed create or a  *)
(* crash left behind.  So it is until an operation without filesys_lock    *)
(* overlaps another.                                                       *)
THEOREM DiskKeptHolds == Spec => []DiskKept
<1>1. FsInv => DiskKept
  <2> SUFFICES ASSUME FsInv PROVE DiskKept
    OBVIOUS
  <2>1. CInv /\ DInv
    BY DEF FsInv
  <2>2. \A t \in Sector : open_inodes[t].open_cnt > 0 => InMemory(t) = Space[t]
    BY <2>1 DEF DInv, Fresh, IsOpen, InMemory, Space, OnDisk
  <2>3. \A t \in Entries : t \in Files /\ OnDisk(t) = Space[t]
    BY <2>1, FileFacts DEF Files, Space
  <2>4. Partition(Files, Space, Pending, lost, free_map) /\ disk_map = free_map
    BY <2>1 DEF DInv
  <2>5. Files = Entries \cup {t \in Sector : open_inodes[t].open_cnt > 0}
    BY DEF Files, IsOpen
  <2> HIDE DEF Files, Space
  <2>6. DiskSound
    <3>1. \A s \in Entries : OnDisk(s) \subseteq disk_map
      <4>1. \A s \in Files : Space[s] \subseteq disk_map
        BY <2>4 DEF Partition
      <4> QED
        BY <2>3, <4>1, Zenon
    <3>2. ASSUME NEW m \in Name, NEW n \in Name, m # n, dir[m] # 0, dir[n] # 0
          PROVE  OnDisk(dir[m]) \cap OnDisk(dir[n]) = {}
      <4>1. dir[m] # dir[n]
        BY <2>1, <3>2 DEF DInv, Names
      <4>2. dir[m] \in Entries /\ dir[n] \in Entries
        BY <3>2 DEF Entries
      <4> QED
        BY <2>3, <2>4, <4>1, <4>2, Zenon DEF Partition
    <3> QED
      BY <3>1, <3>2 DEF DiskSound
  <2>7. NoOtherLeak
    <3> SUFFICES ASSUME pc = "idle"
                 PROVE  free_map =
                          lost \cup (UNION {OnDisk(s) : s \in Entries})
                               \cup (UNION {InMemory(s) :
                                            s \in {t \in Sector : open_inodes[t].open_cnt > 0}})
      BY DEF NoOtherLeak
    <3> DEFINE A == UNION {OnDisk(s) : s \in Entries}
               B == UNION {InMemory(s) : s \in {t \in Sector : open_inodes[t].open_cnt > 0}}
    <3>1. Pending = {}
      BY PendingIs
    <3>2. /\ \A s \in Files : Space[s] \subseteq free_map
          /\ lost \subseteq free_map
          /\ \A x \in free_map : x \in lost \/ \E s \in Files : x \in Space[s]
      BY <2>4, <3>1 DEF Partition
    <3>3. \A x : x \in A <=> \E s \in Entries : x \in Space[s]
      BY <2>3
    <3>4. \A x : x \in B <=> \E s \in {t \in Sector : open_inodes[t].open_cnt > 0} : x \in Space[s]
      BY <2>2
    <3> HIDE DEF A, B
    <3>5. free_map = lost \cup A \cup B
      BY <2>5, <3>2, <3>3, <3>4
    <3> QED
      BY <3>5 DEF A, B
  <2> QED
    BY <2>6, <2>7 DEF DiskKept
<1> QED
  BY <1>1, FsInvHolds, PTL
=============================================================================
