----------------------------- MODULE ChunkCache -----------------------------
(***************************************************************************)
(* VirtualDisk: the Read + Seek view of one partition that every guest     *)
(* parser reads through.  A read is served chunk by chunk from an LRU      *)
(* cache of aligned chunks, each loaded from the driver when it is missed. *)
(*                                                                         *)
(* The driver is a native backend of DiskReader (module VmdkExtents).      *)
(* Offsets of a chunk are relative to the view, and the partition table    *)
(* may declare a partition that ends beyond the disk.                      *)
(***************************************************************************)
EXTENDS VmdkExtents

CONSTANTS
  ChunkSize,  \* chunk_size, a power of two
  MaxChunks,  \* max_chunks
  Disks,      \* the disks a driver may read, a sequence
  Views,      \* the views that are opened: [disk, base, length]
  MaxRead,    \* bound: the longest buffer a parser passes
  MaxSeek,    \* bound: how far beyond either end a parser seeks
  MaxReads    \* bound: reads of one run

ASSUME ChunkAssumption ==
  /\ ChunkSize \in Nat \ {0} /\ MaxChunks \in Nat \ {0}
  /\ \A v \in Views :
       v.disk \in DOMAIN Disks /\ v.base \in Nat /\ v.length \in Nat
  /\ MaxRead \in Nat /\ MaxSeek \in Nat /\ MaxReads \in Nat

ASSUME DiskAssumption == \A v \in Views : GoodDisk(Disks[v.disk])

VARIABLES
  disk,         \* index of the disk the driver reads
  base, length, \* the view
  position,     \* the cursor of Read and Seek
  cache,        \* entries, most recently used first
  pc,           \* "idle", "load" (find the chunk) or "copy"
  from,         \* pos of the read in progress
  asked,        \* buf.len()
  buf,          \* bytes delivered so far
  cursor,       \* whether the read is a Read::read, which moves the cursor
  answer,       \* how the last read ended
  uses,         \* every chunk touched so far, latest first
  count         \* reads started

view == <<disk, base, length>>
vars == <<view, position, cache, pc, from, asked, buf, cursor, answer,
          uses, count>>

\* VmDriver::virtual_size
DiskSize == VirtualSize(Disks[disk])

Init ==
  /\ \E v \in Views : disk = v.disk /\ base = v.base /\ length = v.length
  /\ position = 0 /\ cache = <<>>
  /\ pc = "idle" /\ from = 0 /\ asked = 0 /\ buf = <<>> /\ cursor = FALSE
  /\ answer = "none" /\ uses = <<>> /\ count = 0

\* Mutant of ChunkBytes: chunks aligned to the disk instead of the view.
ChunkBytesOfDisk(k) ==
  LET abs == k * ChunkSize IN
  IF abs < DiskSize
  THEN DriverBytes(Disks[disk], abs, Lesser(ChunkSize, DiskSize - abs))
  ELSE <<>>

\* The bytes of chunk k: it may reach beyond the view, never beyond the disk.
ChunkBytes(k) ==
  LET abs == base + k * ChunkSize IN
  IF abs < DiskSize
  THEN DriverBytes(Disks[disk], abs, Lesser(ChunkSize, DiskSize - abs))
  ELSE <<>>

\* total: what the read delivers at most
Want == IF from >= length THEN 0 ELSE Lesser(length - from, asked)

Here == from + Len(buf)           \* current_offset
ChunkIndex  == Here \div ChunkSize
WithinChunk == Here % ChunkSize

\* The history of uses after one more use of chunk k: k leaves its old place, if
\* it has one, and those before that place move back by one.
LastUse(k) ==
  IF \E p \in DOMAIN uses : uses[p] = k
  THEN CHOOSE p \in DOMAIN uses : uses[p] = k
  ELSE Len(uses) + 1
Touch(k) ==
  LET p == LastUse(k) IN
  [i \in 1 .. (IF p > Len(uses) THEN p ELSE Len(uses)) |->
     IF i = 1 THEN k ELSE IF i <= p THEN uses[i - 1] ELSE uses[i]]

Hit == \E p \in DOMAIN cache : cache[p].chunk = ChunkIndex

-----------------------------------------------------------------------------

\* Read::read reads at the cursor, ReadAt::read_at and read_at_offset anywhere.
BeginRead(pos, n, moves) ==
  /\ pc = "idle" /\ count < MaxReads
  /\ moves => pos = position
  /\ from' = pos /\ asked' = n /\ buf' = <<>> /\ cursor' = moves
  /\ pc' = "load" /\ answer' = "none"
  /\ count' = count + 1
  /\ UNCHANGED <<view, position, cache, uses>>

Deliver ==
  /\ pc' = "idle" /\ answer' = "data"
  /\ position' = IF cursor THEN position + Len(buf) ELSE position

\* The head of the loop, which also ends a read of nothing.
Done ==
  /\ pc = "load" /\ Len(buf) = Want
  /\ Deliver
  /\ UNCHANGED <<view, cache, from, asked, buf, cursor, uses, count>>

\* Mutant of CacheHit: the entry stays where it is and is read from the front.
CacheHitInPlace ==
  /\ pc = "load" /\ Len(buf) < Want
  /\ Hit
  /\ uses' = Touch(ChunkIndex)
  /\ pc' = "copy"
  /\ UNCHANGED <<view, position, cache, from, asked, buf, cursor, answer,
                 count>>

ToFront(s, p) == <<s[p]>> \o (SubSeq(s, 1, p - 1) \o SubSeq(s, p + 1, Len(s)))

\* Moves the entry to the front.
CacheHit ==
  /\ pc = "load" /\ Len(buf) < Want
  /\ Hit
  /\ LET p == CHOOSE q \in DOMAIN cache :
                /\ cache[q].chunk = ChunkIndex
                /\ \A r \in 1 .. q - 1 : cache[r].chunk # ChunkIndex
     IN cache' = ToFront(cache, p)
  /\ uses' = Touch(ChunkIndex)
  /\ pc' = "copy"
  /\ UNCHANGED <<view, position, from, asked, buf, cursor, answer, count>>

\* Drops the entry at the back of a full cache and pushes the chunk in front.
CacheMiss ==
  /\ pc = "load" /\ Len(buf) < Want
  /\ ~Hit
  /\ LET kept == IF Len(cache) >= MaxChunks
                 THEN SubSeq(cache, 1, Len(cache) - 1) ELSE cache
     IN cache' = <<[chunk |-> ChunkIndex, data |-> ChunkBytes(ChunkIndex)]>>
                   \o kept
  /\ uses' = Touch(ChunkIndex)
  /\ pc' = "copy"
  /\ UNCHANGED <<view, position, from, asked, buf, cursor, answer, count>>

\* The driver fails: the read returns the error, the bytes already copied are
\* not delivered, and neither the cursor nor the cache changes.
DriverFails ==
  /\ pc = "load" /\ Len(buf) < Want
  /\ ~Hit /\ base + ChunkIndex * ChunkSize < DiskSize
  /\ pc' = "idle" /\ answer' = "error"
  /\ UNCHANGED <<view, position, cache, from, asked, buf, cursor, uses,
                 count>>

\* Mutant of Copy: a chunk that ends too early is asked for again.
CopyRetries ==
  /\ pc = "copy"
  /\ LET data == cache[1].data
         n == Lesser(Want - Len(buf), Len(data) - WithinChunk)
     IN buf' = IF WithinChunk >= Len(data) THEN buf
               ELSE buf \o SubSeq(data, WithinChunk + 1, WithinChunk + n)
  /\ pc' = "load"
  /\ UNCHANGED <<view, position, answer, cache, from, asked, cursor, uses,
                 count>>

\* Copies from the entry in front; a chunk that ends too early ends the read.
Copy ==
  /\ pc = "copy"
  /\ LET data == cache[1].data
         n == Lesser(Want - Len(buf), Len(data) - WithinChunk)
     IN \/ /\ WithinChunk >= Len(data)
           /\ Deliver
           /\ UNCHANGED buf
        \/ /\ WithinChunk < Len(data)
           /\ buf' = buf \o SubSeq(data, WithinChunk + 1, WithinChunk + n)
           /\ pc' = "load"
           /\ UNCHANGED <<position, answer>>
  /\ UNCHANGED <<view, cache, from, asked, cursor, uses, count>>

\* SeekFrom::Start, End and Current, each a sum that must not be negative.
Seek ==
  /\ pc = "idle" /\ count < MaxReads
  /\ \E whence \in {0, length, position}, d \in -MaxSeek .. MaxSeek :
       /\ whence + d >= 0
       /\ position' = whence + d
  /\ count' = count + 1 /\ answer' = "none"
  /\ UNCHANGED <<view, cache, pc, from, asked, buf, cursor, uses>>

Step == Done \/ CacheHit \/ CacheMiss \/ DriverFails \/ Copy

\* The bound on the reads of one run is reached.
Finished == pc = "idle" /\ count = MaxReads /\ UNCHANGED vars

Next ==
  \/ Step \/ Seek \/ Finished
  \/ \E n \in 0 .. MaxRead, moves \in BOOLEAN :
       \E pos \in 0 .. length + 1 \cup {position} : BeginRead(pos, n, moves)

Spec == Init /\ [][Next]_vars

\* A read in progress is carried on by the thread that called it.  Some step
\* is enabled whenever a read is in progress (there is no deadlock), so this is
\* WF_vars(Step), in a form for which TLC evaluates no ENABLED.
InProgress == pc # "idle"
FairSpec == Spec /\ ([]<>~InProgress \/ []<><<InProgress>>_vars)

-----------------------------------------------------------------------------
(* Properties. *)

\* The reference: the part of the view that lies on the disk, cut to the buffer.
Slice(pos, n) ==
  IF pos >= length THEN <<>>
  ELSE SubSeq(Content(Disks[disk]), base + pos + 1,
              Lesser(DiskSize, base + pos + Lesser(n, length - pos)))

\* A read that succeeds delivers exactly the bytes of the disk it asks for, as
\* many as view and disk have there, across chunk boundaries, on cached chunks
\* that end beyond the view, and after reads that failed half way.
ReadsTheDisk ==
  answer = "data" => buf = Slice(from, asked)

\* The cache holds each chunk once, with the bytes the disk has there, in the
\* order of their last use: what a full cache drops was used least recently.
LeastRecentlyUsed ==
  /\ \A p \in DOMAIN cache : cache[p].data = ChunkBytes(cache[p].chunk)
  /\ Len(cache) = Lesser(MaxChunks, Len(uses))
  /\ \A p \in DOMAIN cache : cache[p].chunk = uses[p]

\* The loop ends, on a partition that ends beyond the disk too.
ReadReturns == InProgress ~> ~InProgress

-----------------------------------------------------------------------------
(* What these need to be inductive, and what they ask of the driver. *)

\* The driver delivers the bytes of the disk of every view.
DriverFaithful == \A v \in Views : Faithful(Disks[v.disk])

Entry(k) == [chunk |-> k, data |-> ChunkBytes(k)]

\* The history tells what the cache holds: the chunks used last, with their bytes.
CacheInv ==
  /\ \E v \in Views : disk = v.disk /\ base = v.base /\ length = v.length
  /\ from \in Nat /\ asked \in Nat /\ position \in Nat /\ Len(buf) \in Nat
  /\ uses \in Seq(Nat)
  /\ \A p, q \in DOMAIN uses : uses[p] = uses[q] => p = q
  /\ cache = [p \in 1 .. Lesser(MaxChunks, Len(uses)) |-> Entry(uses[p])]

\* What has been copied is what lies on the disk from the start of the read on,
\* and the chunk that is copied from is the one in front.
ReadInv ==
  /\ pc \in {"idle", "load", "copy"}
  /\ buf \in Seq(Nat \X Nat)
  /\ pc # "idle" =>
       /\ answer = "none" /\ Len(buf) <= Want
       /\ Len(buf) > 0 => base + from + Len(buf) <= DiskSize
       /\ \A i \in 1 .. Len(buf) : buf[i] = Content(Disks[disk])[base + from + i]
  /\ pc = "copy" =>
       Len(buf) < Want /\ Len(cache) > 0 /\ cache[1].chunk = ChunkIndex
  /\ ReadsTheDisk
=============================================================================
