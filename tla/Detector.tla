------------------------------ MODULE Detector ------------------------------
(***************************************************************************)
(* detect_with_progress (vms/detector.rs): the partition table of a disk,  *)
(* the file system of each partition and the operating system they point   *)
(* to.  The detector runs inside one inspection (module Inspection, which  *)
(* counts its partitions as tasks); every one of its reads goes through    *)
(* DiskReader::read_range, which looks at the token before the backend.    *)
(*                                                                         *)
(* A disk is a record:                                                     *)
(*   gpt   the header in sector 1 has the GPT signature                    *)
(*   valid its table parameters are in range                               *)
(*   table its entries, each [used, first, last]                           *)
(*   boot  sector 0 has the boot signature                                 *)
(*   mbr   the four entries, each [kind, lba, sectors]                     *)
(*   ebr   lba -> extended boot record [kind, rel, sectors, next]; a       *)
(*         sector outside its domain has no boot signature                 *)
(*   fs    lba -> the file system whose signature is found from there on   *)
(*   size  in sectors                                                      *)
(* An lba is a number of sectors, an offset a number of bytes of width     *)
(* Width: the release build multiplies modulo 2^64.                        *)
(***************************************************************************)
EXTENDS Naturals, Sequences, FiniteSets

CONSTANTS
  Disks,   \* the disks an inspection may meet
  MaxEbr,  \* links of an extended chain that are followed (64)
  Sector,  \* SECTOR, in bytes
  Width    \* 2^64

\* File systems by the read that recognises them.
BootSectorFs == {"ntfs", "xfs", "lvm2", "fat"}
ExtFs        == {"ext2", "ext3", "ext4"}
LinuxFs      == ExtFs \cup {"xfs", "btrfs", "lvm2"}
FileSystems  == BootSectorFs \cup ExtFs \cup {"btrfs", "swap"}

\* What the numbers of a table can be, and the names of the file systems.
IsDisk(d) ==
  /\ d.table \in Seq([used : BOOLEAN, first : Nat, last : Nat])
  /\ d.mbr \in [1 .. 4 -> [kind : {"empty", "data", "extended"}, lba : Nat, sectors : Nat]]
  /\ DOMAIN d.ebr \subseteq Nat
  /\ \A x \in DOMAIN d.ebr :
       d.ebr[x].rel \in Nat /\ d.ebr[x].sectors \in Nat /\ d.ebr[x].next \in Nat
  /\ \A x \in DOMAIN d.fs : d.fs[x] \in FileSystems
  /\ d.size \in Nat

ASSUME DetectorAssumption ==
  /\ MaxEbr \in Nat \ {0} /\ Sector \in Nat \ {0} /\ Width \in Nat \ {0}
  /\ Width % Sector = 0
  /\ \A d \in Disks : IsDisk(d)

VARIABLES
  disk,     \* what is on the disk
  dpc,      \* where detect_with_progress stands
  slot,     \* the entry of the table being looked at
  base,     \* lba_extended
  lba,      \* lba_ebr
  links,    \* extended boot records read in this chain
  parts,    \* partitions found: [start, size, fs]
  current,  \* the partition being probed
  scheme,   \* PartitionScheme
  os,       \* OperatingSystem
  failure,  \* the io::ErrorKind the detector returned, or "none"
  token,    \* the cancellation token
  refused   \* a read was refused because of the token

walkVars     == <<slot, base, lba, links>>
detectorVars == <<disk, dpc, walkVars, parts, current, scheme, os, failure>>

DetectorInit ==
  /\ disk \in Disks
  /\ dpc = "entry" /\ slot = 1 /\ base = 0 /\ lba = 0 /\ links = 0
  /\ parts = <<>> /\ current = 1
  /\ scheme = "none" /\ os = "unknown" /\ failure = "none"

Bytes(sectors) == (sectors * Sector) % Width

FsAt(n) == IF n \in DOMAIN disk.fs THEN disk.fs[n] ELSE "unknown"

\* identify_fs: the signatures that live in the first sector.
IdentifyFs(n) == IF FsAt(n) \in BootSectorFs THEN FsAt(n) ELSE "unknown"

Partition(first, sectors) ==
  [start |-> Bytes(first), size |-> Bytes(sectors), fs |-> "unknown"]

Fail(kind) == dpc' = "done" /\ failure' = kind /\ UNCHANGED <<parts, scheme>>
Go(to)     == dpc' = to /\ UNCHANGED failure

-----------------------------------------------------------------------------
(* Reads and checks. *)

\* The detector's own look at the token.
CheckToken(from, to) ==
  /\ dpc = from
  /\ \/ token /\ Fail("interrupted")
     \/ ~token /\ Go(to) /\ UNCHANGED <<parts, scheme>>
  /\ UNCHANGED <<disk, walkVars, current, os, refused>>

\* read_blocks: refused when the token is set, else served by the backend, which
\* may fail.  Either error reaches the detector with the kind Other.
ReadBlocks(next) ==
  \/ token /\ refused' = TRUE /\ Fail("other") /\ UNCHANGED walkVars
  \/ ~token /\ UNCHANGED refused
       /\ (next \/ (Fail("other") /\ UNCHANGED walkVars))

-----------------------------------------------------------------------------
(* The table. *)

Whole == <<[start |-> 0, size |-> Bytes(disk.size), fs |-> IdentifyFs(0)]>>

\* Sectors 0 and 1 in one read.
ReadHeader ==
  /\ dpc = "header"
  /\ ReadBlocks(
       /\ \/ disk.gpt /\ Go("gpt") /\ scheme' = "gpt" /\ UNCHANGED parts
          \/ ~disk.gpt /\ disk.boot /\ Go("mbr") /\ scheme' = "mbr"
               /\ UNCHANGED parts
          \/ ~disk.gpt /\ ~disk.boot /\ Go("between") /\ parts' = Whole
               /\ UNCHANGED scheme
       /\ UNCHANGED walkVars)
  /\ UNCHANGED <<disk, current, os>>

\* read_gpt: invalid parameters are an error, else the table in one read.
ReadGpt ==
  /\ dpc = "gpt"
  /\ \/ ~disk.valid /\ Fail("invalid_data") /\ UNCHANGED <<walkVars, refused>>
     \/ disk.valid /\ ReadBlocks(Go("table") /\ UNCHANGED <<parts, walkVars, scheme>>)
  /\ UNCHANGED <<disk, current, os>>

\* One entry of the table: used, and not reversed.
IsListed(e) == e.used /\ e.last >= e.first
ReadGptEntry ==
  /\ dpc = "table"
  /\ \/ /\ slot > Len(disk.table)
        /\ dpc' = "between" /\ UNCHANGED <<slot, parts>>
     \/ /\ slot <= Len(disk.table)
        /\ LET e == disk.table[slot] IN
           parts' = IF IsListed(e)
                    THEN Append(parts, Partition(e.first, e.last - e.first + 1))
                    ELSE parts
        /\ slot' = slot + 1 /\ UNCHANGED dpc
  /\ UNCHANGED <<disk, base, lba, links, current, scheme, os, failure, refused>>

\* One entry of the MBR: nothing, a primary partition, or a chain to walk.
ReadMbr ==
  /\ dpc = "mbr" /\ slot <= 4
  /\ LET e == disk.mbr[slot] IN
     \/ /\ e.kind = "empty" \/ e.sectors = 0
        /\ slot' = slot + 1
        /\ UNCHANGED <<dpc, base, lba, links, parts>>
     \/ /\ e.kind = "data" /\ e.sectors > 0
        /\ slot' = slot + 1
        /\ parts' = Append(parts, Partition(e.lba, e.sectors))
        /\ UNCHANGED <<dpc, base, lba, links>>
     \/ /\ e.kind = "extended" /\ e.sectors > 0
        /\ dpc' = "ebr" /\ base' = e.lba /\ lba' = e.lba /\ links' = 0
        /\ UNCHANGED <<slot, parts>>
  /\ UNCHANGED <<disk, current, scheme, os, failure, refused>>

\* A boot sector without partitions may be a volume of its own.
EndOfMbr ==
  /\ dpc = "mbr" /\ slot > 4
  /\ dpc' = "between"
  /\ \/ /\ parts = <<>> /\ IdentifyFs(0) # "unknown"
        /\ scheme' = "none" /\ parts' = Whole
     \/ /\ ~(parts = <<>> /\ IdentifyFs(0) # "unknown")
        /\ UNCHANGED <<scheme, parts>>
  /\ UNCHANGED <<disk, walkVars, current, os, failure, refused>>

\* Back to the loop over the entries.
EndOfChain ==
  dpc' = "mbr" /\ slot' = slot + 1 /\ UNCHANGED <<failure, base, lba>>

Logical(at) ==
  IF disk.ebr[at].kind # "empty" /\ disk.ebr[at].sectors > 0
  THEN <<Partition(at + disk.ebr[at].rel, disk.ebr[at].sectors)>> ELSE <<>>

\* Mutant of ReadEbr: the next record is taken relative to this one.
ReadEbrRelative ==
  /\ dpc = "ebr" /\ links < MaxEbr
  /\ ReadBlocks(
       /\ links' = links + 1
       /\ \/ lba \notin DOMAIN disk.ebr /\ EndOfChain /\ UNCHANGED parts
          \/ /\ lba \in DOMAIN disk.ebr
             /\ parts' = parts \o Logical(lba)
             /\ \/ disk.ebr[lba].next = 0 /\ EndOfChain
                \/ /\ disk.ebr[lba].next # 0
                   /\ lba' = lba + disk.ebr[lba].next
                   /\ UNCHANGED <<dpc, failure, slot, base>>
       /\ UNCHANGED scheme)
  /\ UNCHANGED <<disk, current, os>>

\* One extended boot record: its logical partition lies relative to the record,
\* the next record relative to the start of the extended partition.
ReadEbr ==
  /\ dpc = "ebr" /\ links < MaxEbr
  /\ ReadBlocks(
       /\ links' = links + 1
       /\ \/ lba \notin DOMAIN disk.ebr /\ EndOfChain /\ UNCHANGED parts
          \/ /\ lba \in DOMAIN disk.ebr
             /\ parts' = parts \o Logical(lba)
             /\ \/ disk.ebr[lba].next = 0 /\ EndOfChain
                \/ /\ disk.ebr[lba].next # 0
                   /\ lba' = base + disk.ebr[lba].next
                   /\ UNCHANGED <<dpc, failure, slot, base>>
       /\ UNCHANGED scheme)
  /\ UNCHANGED <<disk, current, os>>

\* The bound against corrupt or cyclic chains.
ChainTooLong ==
  /\ dpc = "ebr" /\ links = MaxEbr
  /\ EndOfChain
  /\ UNCHANGED <<disk, links, parts, current, scheme, os, refused>>

-----------------------------------------------------------------------------
(* The partitions. *)

FirstSector(p) == parts[p].start \div Sector

SetFs(fs) == parts' = [parts EXCEPT ![current].fs = fs] /\ UNCHANGED scheme

\* The head of the loop; behind the last partition classify_os decides.
NextPartition ==
  /\ dpc = "partition"
  /\ \/ /\ current <= Len(parts) /\ token
        /\ Fail("interrupted") /\ UNCHANGED os
     \/ /\ current <= Len(parts) /\ ~token
        /\ Go(IF parts[current].fs = "unknown" /\ parts[current].size > 0
              THEN "boot_sector" ELSE "count")
        /\ UNCHANGED <<parts, scheme, os>>
     \/ /\ current > Len(parts)
        /\ Go("done")
        /\ os' = LET found == {parts[p].fs : p \in DOMAIN parts}
                 IN IF "ntfs" \in found THEN "windows"
                    ELSE IF found \cap LinuxFs # {} THEN "linux" ELSE "unknown"
        /\ UNCHANGED <<parts, scheme>>
  /\ UNCHANGED <<disk, walkVars, current, refused>>

\* The first sector and, if that tells nothing, the superblocks of the Linux
\* file systems, one read each.
Probe(from, recognised, to) ==
  /\ dpc = from
  /\ ReadBlocks(
       /\ LET fs == FsAt(FirstSector(current)) IN
          \/ fs \in recognised /\ SetFs(fs) /\ Go("count")
          \/ fs \notin recognised /\ Go(to) /\ UNCHANGED <<parts, scheme>>
       /\ UNCHANGED walkVars)
  /\ UNCHANGED <<disk, current, os>>

ProbeBootSector == Probe("boot_sector", BootSectorFs, "ext")
ProbeExt        == Probe("ext", ExtFs, "btrfs")
ProbeBtrfs      == Probe("btrfs", {"btrfs"}, "swap")
ProbeSwap       == Probe("swap", {"swap"}, "count")

\* increment_completed_tasks is the caller's.
CountPartition ==
  /\ dpc = "count"
  /\ current' = current + 1
  /\ dpc' = "partition"
  /\ UNCHANGED <<disk, walkVars, parts, scheme, os, failure, refused>>

-----------------------------------------------------------------------------
(* What the tables declare, as a reference. *)

Declared(first, sectors) ==
  [start |-> Bytes(first), size |-> Bytes(sectors),
   fs |-> IF Bytes(sectors) = 0 THEN "unknown"
          ELSE FsAt(Bytes(first) \div Sector)]

\* A chain of extended boot records: k links behind the one at `from`.
IsChain(c, from, k) ==
  /\ c[0] = from
  /\ \A i \in 0 .. k - 1 :
       disk.ebr[c[i]].next # 0 /\ c[i + 1] = from + disk.ebr[c[i]].next
Chains(from, k) == {c \in [0 .. k -> DOMAIN disk.ebr] : IsChain(c, from, k)}

\* The extended boot records that the one at `from` leads to, within n links.
Reaches(from, n) == UNION {{c[k] : c \in Chains(from, k)} : k \in 0 .. n}

Entries(kind) ==
  {s \in 1 .. 4 : disk.mbr[s].kind = kind /\ disk.mbr[s].sectors > 0}
Primary  == Entries("data")
Extended == Entries("extended")

LogicalOf(s) ==
  {Declared(x + disk.ebr[x].rel, disk.ebr[x].sectors) :
     x \in {y \in Reaches(disk.mbr[s].lba, MaxEbr - 1) :
              disk.ebr[y].kind # "empty" /\ disk.ebr[y].sectors > 0}}

MbrDeclares ==
  {Declared(disk.mbr[s].lba, disk.mbr[s].sectors) : s \in Primary}
    \cup UNION {LogicalOf(s) : s \in Extended}

GptDeclares ==
  {Declared(e.first, e.last - e.first + 1) :
     e \in {disk.table[i] : i \in {j \in DOMAIN disk.table : IsListed(disk.table[j])}}}

\* A detector that succeeds has found exactly the partitions that the table
\* declares, logical ones at the end of a chain of extended boot records
\* included, each with the file system that starts there (offsets modulo 2^64);
\* a disk without a table is one volume.  Whatever the tables say, a chain
\* contributes at most MaxEbr partitions.
PartitionsExact ==
  dpc = "done" /\ failure = "none" =>
    LET found == {parts[p] : p \in DOMAIN parts} IN
    /\ scheme = "gpt" => found = GptDeclares
    /\ scheme = "mbr" => found = MbrDeclares
    /\ scheme = "none" => Len(parts) = 1 /\ parts[1].start = 0
    /\ Len(parts) <= IF scheme = "gpt" THEN Len(disk.table)
                     ELSE Cardinality(Primary)
                            + MaxEbr * Cardinality(Extended) + 1
=============================================================================
