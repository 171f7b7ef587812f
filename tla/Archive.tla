------------------------------ MODULE Archive ------------------------------
(***************************************************************************)
(* The kernel's commands that move files to and from the scratch device:   *)
(* filesys/fsutil.c on the format of lib/ustar.c.  A command runs to its   *)
(* end, or the machine stops between two of its writes to the device.  The *)
(* static sector numbers start from 0 at every boot.  A sector is a header *)
(* record, bytes, or zeros; a header keeps its numbers as octal text, and  *)
(* its checksum is abstracted to a sum over its fields.                    *)
(***************************************************************************)
EXTENDS Format

CONSTANTS
  Files,                        \* the file system: bytes by name, a sequence of characters
  BLOCK_SECTOR_SIZE,            \* bytes of a sector: 512 in the code
  ScratchSize,                  \* sectors of the scratch device
  MaxName                       \* longest name of a header: 99 in the code

VARIABLES
  scratch,                      \* the scratch device's sectors
  append_sector, extract_sector,\* the commands' static variables
  panicked,                     \* a command stopped the machine
  archived,                     \* what the archive should hold, when that is known
  extracted                     \* whether the last extract put what it should have
ar_vars == <<scratch, append_sector, extract_sector, panicked, archived, extracted>>

ASSUME ArchiveAssumption == BLOCK_SECTOR_SIZE \in Nat \ {0} /\ ScratchSize \in Nat /\ MaxName \in Nat

zeros == [kind |-> "zeros"]
is_all_zeros(sector) ==
  sector.kind = "zeros" \/ (sector.kind = "data" /\ \A i \in DOMAIN sector.data : sector.data[i] = 0)

Torn == [known |-> FALSE, files |-> <<>>]
Holding(list) == [known |-> TRUE, files |-> list]
-----------------------------------------------------------------------------
FieldSize == 5                  \* of a number's text: 8 or 12 in the code
Octal(value) == vsnprintf(FieldSize, <<"%", "0", "4", "o">>, <<value>>).buffer

(* The field's value, -1 when it is refused; text ends with its null. *)
parse_octal_field(s) ==
  LET n == Min({i \in 1 .. Len(s) + 1 : i = Len(s) + 1 \/ s[i] \notin {Digits[d] : d \in 1..8}})
      end == CharAt(s, n)
  IN  IF n > 1 /\ n <= Len(s) /\ end \in {" ", "nul"}
      THEN FoldLeft(LAMBDA v, c : v * 8 + DigitValue(c), 0, SubSeq(s, 1, n - 1)) ELSE -1

calculate_chksum(hdr) ==
  Len(hdr.name) + FoldLeft(LAMBDA v, c : v + (IF isdigit(c) THEN DigitValue(c) ELSE 0), 0, hdr.size)

RECURSIVE strip(_)
strip(name) ==
  IF Len(name) > 0 /\ name[1] = "/" THEN strip(Tail(name))
  ELSE IF Len(name) > 1 /\ SubSeq(name, 1, 2) = <<".", "/">> THEN strip(SubSeq(name, 3, Len(name)))
  ELSE IF Len(name) > 2 /\ SubSeq(name, 1, 3) = <<".", ".", "/">> THEN strip(SubSeq(name, 4, Len(name)))
  ELSE name
strip_antisocial_prefixes(name) ==
  IF strip(name) \in {<<>>, <<".", ".">>} THEN <<".">> ELSE strip(name)

(* The header of a file; no checksum when the name is too long. *)
ustar_make_header(name, type, size) ==
  LET short == strip_antisocial_prefixes(name)
      h0 == [name |-> short, size |-> Octal(size), type |-> type, chksum |-> <<>>]
  IN  IF Len(short) > MaxName THEN h0
      ELSE [h0 EXCEPT !.chksum = Octal(calculate_chksum(h0))]

(* The file's name and size, the end of the archive, or an error; a        *)
(* directory's size is not looked at.                                      *)
ustar_parse_header(sector) ==
  IF is_all_zeros(sector) THEN [type |-> "EOF"]
  ELSE IF sector.kind # "header" THEN [type |-> "error"]
  ELSE LET hdr == sector.header
           size == IF hdr.type = "DIRECTORY" THEN 0 ELSE parse_octal_field(hdr.size)
       IN  IF parse_octal_field(hdr.chksum) # calculate_chksum(hdr) \/ size < 0 THEN [type |-> "error"]
           ELSE [type |-> hdr.type, name |-> strip_antisocial_prefixes(hdr.name), size |-> size]
-----------------------------------------------------------------------------
ArchiveInit ==
  /\ scratch = [s \in 0 .. ScratchSize - 1 |-> zeros]
  /\ append_sector = 0 /\ extract_sector = 0
  /\ panicked = FALSE
  /\ archived = Holding(<<>>)
  /\ extracted = TRUE

Chunks(data) == [i \in 1 .. (Len(data) + BLOCK_SECTOR_SIZE - 1) \div BLOCK_SECTOR_SIZE |->
                   [j \in 1 .. BLOCK_SECTOR_SIZE |->
                      LET k == (i - 1) * BLOCK_SECTOR_SIZE + j IN IF k <= Len(data) THEN data[k] ELSE 0]]

(* The writes of fsutil_append from sector s on; it stops, with a panic of *)
(* its own or block_write's, at the first that is outside the device.  The *)
(* machine may also stop after any number of them.                         *)
Append_(name, ends, stop) ==
  LET data == Files[name]
      header == ustar_make_header(name, "REGULAR", Len(data))
      body == <<[kind |-> "header", header |-> header]>>
                \o [i \in DOMAIN Chunks(data) |-> [kind |-> "data", data |-> Chunks(data)[i]]]
      writes == body \o [i \in 1 .. ends |-> zeros]
      room == ScratchSize - append_sector
      done == Min({Len(writes), room, stop})
  IN  /\ ~panicked
      /\ stop <= Len(writes)
      /\ IF header.chksum = <<>> THEN panicked' = TRUE /\ UNCHANGED <<scratch, append_sector, archived>>
         ELSE /\ scratch' = [s \in DOMAIN scratch |-> IF s \in append_sector .. append_sector + done - 1
                                                      THEN writes[s - append_sector + 1] ELSE scratch[s]]
              /\ append_sector' = append_sector + Len(body)
              /\ panicked' = (done < Len(writes))
              /\ archived' = IF done < Len(writes) \/ (~archived.known /\ append_sector > 0) THEN Torn
                             ELSE Holding(Append(IF append_sector = 0 THEN <<>> ELSE archived.files,
                                                 <<strip_antisocial_prefixes(name), data>>))
      /\ UNCHANGED <<extract_sector, extracted>>

(* Mutant: the end of the archive is not marked. *)
AppendUnended(name, stop) == Append_(name, 0, stop)

FsutilAppend(name, stop) == Append_(name, 2, stop)

(* fsutil_extract: the files from sector s on, up to the end of the        *)
(* archive, to which the sector is advanced, or a panic.  Directories are  *)
(* ignored.                                                                *)
RECURSIVE ExtractFrom(_, _)
ExtractFrom(s, put) ==
  IF s >= ScratchSize THEN [panic |-> TRUE, put |-> put, at |-> s]
  ELSE LET hdr == ustar_parse_header(scratch[s])
       IN  IF hdr.type = "error" THEN [panic |-> TRUE, put |-> put, at |-> s]
           ELSE IF hdr.type = "EOF" THEN [panic |-> FALSE, put |-> put, at |-> s + 1]
           ELSE IF hdr.type = "DIRECTORY" THEN ExtractFrom(s + 1, put)
           ELSE LET n == (hdr.size + BLOCK_SECTOR_SIZE - 1) \div BLOCK_SECTOR_SIZE
                    sectors == [i \in 1..n |-> IF s + i < ScratchSize THEN scratch[s + i] ELSE zeros]
                    bytes == FlattenSeq([i \in 1..n |-> IF sectors[i].kind = "data"
                                                        THEN sectors[i].data
                                                        ELSE [j \in 1 .. BLOCK_SECTOR_SIZE |-> 0]])
                IN  IF s + n >= ScratchSize \/ \E i \in DOMAIN put : put[i][1] = hdr.name
                    THEN [panic |-> TRUE, put |-> put, at |-> s]
                    ELSE ExtractFrom(s + n + 1, Append(put, <<hdr.name, SubSeq(bytes, 1, hdr.size)>>))

(* Into a file system that has none of the names; then the first two       *)
(* sectors are erased, unless the machine stops before the first or the    *)
(* second.                                                                 *)
FsutilExtract(erased) ==
  LET x == ExtractFrom(extract_sector, <<>>)
  IN  /\ ~panicked
      /\ x.panic => erased = 0
      /\ panicked' = (x.panic \/ erased < 2)
      /\ extract_sector' = x.at
      /\ scratch' = [s \in DOMAIN scratch |-> IF s < erased THEN zeros ELSE scratch[s]]
      /\ extracted' = (x.put = archived.files \/ ~archived.known \/ extract_sector > 0 \/ x.panic)
      /\ archived' = IF erased = 0 THEN archived ELSE IF append_sector > 0 THEN Torn ELSE Holding(<<>>)
      /\ UNCHANGED append_sector

(* What the pintos script puts on the scratch device: an archive of a      *)
(* directory and a file of one sector.                                     *)
HostName == <<"h">>
HostData == [i \in 1 .. BLOCK_SECTOR_SIZE |-> 1]
HostArchive ==
  <<[kind |-> "header", header |-> ustar_make_header(<<"d">>, "DIRECTORY", 0)],
    [kind |-> "header", header |-> ustar_make_header(HostName, "REGULAR", BLOCK_SECTOR_SIZE)],
    [kind |-> "data", data |-> HostData], zeros, zeros>>

(* The machine is started again, perhaps with an archive made by the host. *)
Boot ==
  /\ append_sector' = 0 /\ extract_sector' = 0
  /\ panicked' = FALSE
  /\ \/ UNCHANGED <<scratch, archived>>
     \/ /\ scratch' = [s \in DOMAIN scratch |-> IF s < Len(HostArchive) THEN HostArchive[s + 1] ELSE scratch[s]]
        /\ archived' = Holding(<<<<HostName, HostData>>>>)
  /\ UNCHANGED extracted

ArchiveNext ==
  \/ \E name \in DOMAIN Files, stop \in 0 .. ScratchSize : FsutilAppend(name, stop)
  \/ \E erased \in 0 .. 2 : FsutilExtract(erased)
  \/ Boot

(* The device holds the files appended since the boot that began the       *)
(* archive, in order and complete, and an extract puts just those, also    *)
(* after a stop in an extract; what a stop in an append left is not known, *)
(* until the next boot's first append begins the archive again.            *)
ArchiveKept ==
  /\ archived.known =>
       LET x == ExtractFrom(0, <<>>)
           twice == \E i, j \in DOMAIN archived.files : i # j /\ archived.files[i][1] = archived.files[j][1]
       IN  IF twice THEN x.panic ELSE ~x.panic /\ x.put = archived.files
  /\ extracted
=============================================================================
