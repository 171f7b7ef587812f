----------------------------- MODULE FileBytes -----------------------------
(***************************************************************************)
(* The bytes of one file: inode_read_at and inode_write_at (filesys/       *)
(* inode.c), which go through whole sectors and a bounce buffer, under     *)
(* filesys/file.c's positions.  FileSys has the sectors and the open       *)
(* counts; here the file is open twice, each with its own position.        *)
(***************************************************************************)
EXTENDS Integers, SequencesExt, FiniteSetsExt

CONSTANTS
  File,               \* the struct files open on the inode
  SectorSize,         \* BLOCK_SECTOR_SIZE: 512 in the code
  FileLength,         \* inode_disk's length
  MaxTransfer         \* the longest read or write asked for

VARIABLES
  sectors,            \* the disk's sectors, each a sequence of bytes
  pos,                \* file->pos
  deny_write,         \* file->deny_write
  flat,               \* what the file should hold
  got                 \* what the last read or write returned, and should have
f_vars == <<sectors, pos, deny_write, flat, got>>

ASSUME FileBytesAssumption == SectorSize \in Nat \ {0} /\ FileLength \in Nat /\ MaxTransfer \in Nat

(* The file's data begin at sector 1; a sector of other files follows. *)
start == 1
bytes_to_sectors(size) == (size + SectorSize - 1) \div SectorSize
Sectors == 0 .. start + bytes_to_sectors(FileLength)
byte_to_sector(at) == IF at < FileLength THEN start + at \div SectorSize ELSE -1

Foreign == [i \in 1 .. SectorSize |-> 9]                \* another file's data
Zeros == [i \in 1 .. SectorSize |-> 0]

Chunk(size, offset) == Min({size, FileLength - offset, SectorSize - (offset % SectorSize)})
Whole(size, offset) == offset % SectorSize = 0 /\ Chunk(size, offset) = SectorSize

(* Mutant: whatever a sector holds beyond the bytes written is lost. *)
BounceZeroed(sector, ofs, chunk) == Zeros
(* The bounce buffer before the new bytes are copied into it. *)
Bounce(sector, ofs, chunk) == IF ofs > 0 \/ chunk < SectorSize - ofs THEN sector ELSE Zeros

RECURSIVE inode_read_at(_, _, _), inode_write_at(_, _, _, _)

(* The bytes read.  bounce: whether malloc can give a bounce buffer. *)
inode_read_at(size, offset, bounce) ==
  LET chunk == Chunk(size, offset)
      ofs == offset % SectorSize
  IN  IF size <= 0 \/ chunk <= 0 \/ (~Whole(size, offset) /\ ~bounce) THEN <<>>
      ELSE SubSeq(sectors[byte_to_sector(offset)], ofs + 1, ofs + chunk)
             \o inode_read_at(size - chunk, offset + chunk, bounce)

(* The sectors after the write of buffer, and the number of bytes written. *)
inode_write_at(disk, buffer, offset, bounce) ==
  LET chunk == Chunk(Len(buffer), offset)
      ofs == offset % SectorSize
      sector == byte_to_sector(offset)
      old == Bounce(disk[sector], ofs, chunk)
      new == [i \in 1 .. SectorSize |-> IF i \in ofs + 1 .. ofs + chunk THEN buffer[i - ofs] ELSE old[i]]
  IN  IF buffer = <<>> \/ chunk <= 0 \/ (~Whole(Len(buffer), offset) /\ ~bounce)
      THEN [disk |-> disk, written |-> 0]
      ELSE LET rest == inode_write_at([disk EXCEPT ![sector] = new],
                                      SubSeq(buffer, chunk + 1, Len(buffer)), offset + chunk, bounce)
           IN  [disk |-> rest.disk, written |-> chunk + rest.written]

inode_deny_write == \E f \in File : deny_write[f]

BytesInit ==
  /\ sectors = [s \in Sectors |-> IF s \in start .. start + bytes_to_sectors(FileLength) - 1
                                  THEN Zeros ELSE Foreign]
  /\ pos = [f \in File |-> 0]
  /\ deny_write = [f \in File |-> FALSE]
  /\ flat = [i \in 1 .. FileLength |-> 0]
  /\ got = [what |-> <<>>, due |-> <<>>]

(* The part of a transfer of n bytes at p that is within the file. *)
Within(n, p) == Max({0, Min({n, FileLength - p})})

FileRead(f, size, bounce) ==
  LET bytes == inode_read_at(size, pos[f], bounce)
      due == SubSeq(flat, pos[f] + 1, pos[f] + Within(size, pos[f]))
  IN  /\ got' = [what |-> bytes, due |-> IF bounce THEN due ELSE SubSeq(due, 1, Len(bytes))]
      /\ pos' = [pos EXCEPT ![f] = @ + Len(bytes)]
      /\ UNCHANGED <<sectors, deny_write, flat>>

FileWrite(f, size, bounce) ==
  LET buffer == [i \in 1 .. size |-> i]
      w == IF inode_deny_write THEN [disk |-> sectors, written |-> 0]
           ELSE inode_write_at(sectors, buffer, pos[f], bounce)
      n == IF inode_deny_write THEN 0 ELSE IF bounce THEN Within(size, pos[f]) ELSE w.written
  IN  /\ sectors' = w.disk
      /\ pos' = [pos EXCEPT ![f] = @ + w.written]
      /\ flat' = [i \in DOMAIN flat |-> IF i \in pos[f] + 1 .. pos[f] + n THEN buffer[i - pos[f]] ELSE flat[i]]
      /\ got' = [what |-> w.written, due |-> n]
      /\ UNCHANGED deny_write

FileSeek(f, new_pos) ==
  /\ pos' = [pos EXCEPT ![f] = new_pos]
  /\ UNCHANGED <<sectors, deny_write, flat, got>>

(* file_deny_write and file_allow_write. *)
FileDeny(f, deny) ==
  /\ deny_write[f] # deny
  /\ deny_write' = [deny_write EXCEPT ![f] = deny]
  /\ UNCHANGED <<sectors, pos, flat, got>>

BytesNext ==
  \E f \in File :
    \/ \E size \in 0 .. MaxTransfer, bounce \in BOOLEAN : FileRead(f, size, bounce) \/ FileWrite(f, size, bounce)
    \/ \E p \in 0 .. FileLength + 1 : FileSeek(f, p)
    \/ \E deny \in BOOLEAN : FileDeny(f, deny)

(* Through sectors and bounce buffers the file is an array of bytes shared *)
(* by its openers: reads return what was last written there, transfers     *)
(* stop at the end, and no byte outside the file changes.                  *)
FileIsBytes ==
  /\ \A i \in 1 .. FileLength : sectors[byte_to_sector(i - 1)][((i - 1) % SectorSize) + 1] = flat[i]
  /\ sectors[0] = Foreign /\ sectors[start + bytes_to_sectors(FileLength)] = Foreign
  /\ got.what = got.due
=============================================================================
