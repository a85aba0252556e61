---------------------------- MODULE VmdkExtents ----------------------------
(***************************************************************************)
(* How the native backends of DiskReader serve a range of a virtual disk:  *)
(* a raw file, a sparse VMDK read grain by grain through its directory and *)
(* tables, or the extents of a descriptor, one after the other.            *)
(*                                                                         *)
(* A byte that a file holds is <<file, position>>, so that data from the   *)
(* wrong place is told apart from the right one; Zero is a byte of zeroes. *)
(* A file is a record [id, size].  A disk is one of                        *)
(*   [backend |-> "raw", file]                                             *)
(*   [backend |-> "sparse", extent]                                        *)
(*   [backend |-> "extents", file, extents], file the descriptor's own     *)
(* and an extent a record with its kind and its sectors:                   *)
(*   [kind |-> "flat", sectors, file, offset]    offset in sectors         *)
(*   [kind |-> "zero", sectors]                                            *)
(*   [kind |-> "sparse", sectors, file, grain, gtes, capacity, directory,  *)
(*    tables]   grain and capacity in sectors, directory a sequence of     *)
(*    sectors, tables: sector -> sequence of sectors                       *)
(***************************************************************************)
EXTENDS Integers, Sequences

CONSTANT SectorSize  \* SECTOR, in bytes

ASSUME SectorAssumption == SectorSize \in Nat \ {0}

Lesser(a, b) == IF a < b THEN a ELSE b

Zero == <<0, 0>>
Zeroes(n) == [i \in 1 .. n |-> Zero]

\* read_or_zeros: what lies beyond the end of the file is filled with zeroes.
ReadOrZeros(file, at, n) ==
  [i \in 1 .. n |-> IF at + i - 1 < file.size THEN <<file.id, at + i - 1>>
                                              ELSE Zero]

\* SparseExtent::table: an entry of 0 or 1 is a table that is not allocated.
Table(x, g) ==
  IF g + 1 \in DOMAIN x.directory /\ x.directory[g + 1] > 1
  THEN x.tables[x.directory[g + 1]] ELSE <<>>

GrainSector(x, grain) ==
  LET t == Table(x, grain \div x.gtes)
      i == (grain % x.gtes) + 1
  IN IF i \in DOMAIN t THEN t[i] ELSE 0

\* SparseExtent::read_at: grain by grain, up to the capacity of the extent.
ReadAt(x, offset, len) ==
  LET grain == x.grain * SectorSize
      total == Lesser(len, x.capacity * SectorSize - offset)
      from[done \in 0 .. total] ==
        IF done = total THEN <<>>
        ELSE LET pos    == offset + done
                 within == pos % grain
                 n      == Lesser(grain - within, total - done)
                 sector == GrainSector(x, pos \div grain)
             IN (IF sector > 1
                 THEN ReadOrZeros(x.file, sector * SectorSize + within, n)
                 ELSE Zeroes(n)) \o from[done + n]
  IN IF offset >= x.capacity * SectorSize THEN <<>> ELSE from[0]

ZeroFill(data, n) == data \o Zeroes(n - Len(data))

\* open_vmdk_native lays the extents out one behind the other.
Length(e) == e.sectors * SectorSize
Start(extents, k) ==
  LET upTo[i \in 1 .. k] ==
        IF i = 1 THEN 0 ELSE upTo[i - 1] + Length(extents[i - 1])
  IN upTo[k]

\* The part of one extent that a read wants.
ReadExtent(e, within, n) ==
  CASE e.kind = "flat"   ->
         ReadOrZeros(e.file, e.offset * SectorSize + within, n)
    [] e.kind = "sparse" -> ZeroFill(ReadAt(e, within, n), n)
    [] e.kind = "zero"   -> Zeroes(n)

\* read_from_extents: the first extent that covers the position serves what it
\* can; a gap ends the loop and leaves zeroes.
ReadFromExtents(extents, offset, len) ==
  LET Covers(k, pos) == /\ pos >= Start(extents, k)
                        /\ pos < Start(extents, k) + Length(extents[k])
      from[done \in 0 .. len] ==
        LET pos == offset + done
            hit == {k \in DOMAIN extents : Covers(k, pos)}
        IN IF done = len THEN <<>>
           ELSE IF hit = {} THEN Zeroes(len - done)
           ELSE LET k == CHOOSE j \in hit : \A i \in hit : j <= i
                    within == pos - Start(extents, k)
                    n == Lesser(Length(extents[k]) - within, len - done)
                IN ReadExtent(extents[k], within, n) \o from[done + n]
  IN from[0]

\* identify_image and native_vmdk_capacity: the size of the virtual disk.
VirtualSize(d) ==
  CASE d.backend = "raw"     -> d.file.size
    [] d.backend = "sparse"  -> d.extent.capacity * SectorSize
    [] d.backend = "extents" ->
         LET total == Start(d.extents, Len(d.extents) + 1)
         IN IF total > 0 THEN total ELSE d.file.size

\* DiskReader::read_range behind the check of the token.
ReadRange(d, offset, asked) ==
  LET len == Lesser(asked, VirtualSize(d) - offset) IN
  IF offset >= VirtualSize(d) \/ asked = 0 THEN <<>>
  ELSE CASE d.backend = "raw"     -> ReadOrZeros(d.file, offset, len)
         [] d.backend = "sparse"  -> ReadAt(d.extent, offset, len)
         [] d.backend = "extents" -> ReadFromExtents(d.extents, offset, len)

\* VmDriver::read_range fills the buffer up with zeroes.
DriverBytes(d, offset, n) == ZeroFill(ReadRange(d, offset, n), n)

-----------------------------------------------------------------------------
(* The disks that can be open natively: unsupported_reason turns away a        *)
(* sparse VMDK whose grains or tables are empty.                               *)

GoodFile(f) == f.id \in Nat /\ f.size \in Nat

GoodSparse(x) ==
  /\ GoodFile(x.file) /\ x.capacity \in Nat
  /\ x.grain \in Nat \ {0} /\ x.gtes \in Nat \ {0}
  /\ x.directory \in Seq(Nat)
  /\ \A i \in DOMAIN x.directory :
       x.directory[i] > 1 => x.tables[x.directory[i]] \in Seq(Nat)

GoodExtent(e) ==
  /\ e.kind \in {"flat", "sparse", "zero"} /\ e.sectors \in Nat
  /\ e.kind = "flat" => GoodFile(e.file) /\ e.offset \in Nat
  /\ e.kind = "sparse" => GoodSparse(e)

GoodExtents(ext) ==
  /\ Len(ext) \in Nat /\ DOMAIN ext = 1 .. Len(ext)
  /\ \A k \in 1 .. Len(ext) : GoodExtent(ext[k])

GoodDisk(d) ==
  \/ d.backend = "raw" /\ GoodFile(d.file)
  \/ d.backend = "sparse" /\ GoodSparse(d.extent)
  \/ d.backend = "extents" /\ GoodFile(d.file) /\ GoodExtents(d.extents)

-----------------------------------------------------------------------------
(* The reference: the whole disk, byte by byte. *)

FileByte(file, at) == IF at < file.size THEN <<file.id, at>> ELSE Zero

SparseByte(x, at) ==
  LET sector == GrainSector(x, at \div (x.grain * SectorSize)) IN
  IF at < x.capacity * SectorSize /\ sector > 1
  THEN FileByte(x.file, sector * SectorSize + (at % (x.grain * SectorSize)))
  ELSE Zero

ExtentBytes(e) ==
  [i \in 1 .. Length(e) |->
     CASE e.kind = "flat"   -> FileByte(e.file, e.offset * SectorSize + i - 1)
       [] e.kind = "sparse" -> SparseByte(e, i - 1)
       [] e.kind = "zero"   -> Zero]

Content(d) ==
  LET joined[k \in 0 .. Len(d.extents)] ==
        IF k = 0 THEN <<>> ELSE joined[k - 1] \o ExtentBytes(d.extents[k])
      whole == joined[Len(d.extents)]
  IN CASE d.backend = "raw"     ->
            [i \in 1 .. d.file.size |-> <<d.file.id, i - 1>>]
       [] d.backend = "sparse"  ->
            [i \in 1 .. VirtualSize(d) |-> SparseByte(d.extent, i - 1)]
       [] d.backend = "extents" -> ZeroFill(whole, VirtualSize(d))

\* The driver delivers the bytes of the disk, on every range within it.
Faithful(d) ==
  /\ VirtualSize(d) \in Nat
  /\ Content(d) \in [1 .. VirtualSize(d) -> Nat \X Nat]
  /\ \A at, n \in 0 .. VirtualSize(d) : at + n <= VirtualSize(d) =>
       DriverBytes(d, at, n) = SubSeq(Content(d), at + 1, at + n)
=============================================================================
