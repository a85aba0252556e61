---------------------------- MODULE MCChunkCache ----------------------------
(* Small disks in sectors of one byte and chunks of two bytes, and views of  *)
(* them that are not aligned to a chunk, that end beyond the disk and that   *)
(* start beyond it.                                                          *)
EXTENDS ChunkCache, TLC

File(n, bytes) == [id |-> n, size |-> bytes]

\* Grains of two sectors, three to a table: the second and the fifth grain are
\* not allocated, the third table is not either, and the file ends within the
\* last grain.  The capacity is less than the descriptor says.
Grains == [kind |-> "sparse", sectors |-> 16, file |-> File(3, 21), grain |-> 2,
           gtes |-> 3, capacity |-> 13, directory |-> <<4, 8, 1>>,
           tables |-> (4 :> <<12, 1, 18>>) @@ (8 :> <<14, 0, 20>>)]

Flat(n, f, at) == [kind |-> "flat", sectors |-> n, file |-> f, offset |-> at]

Raw     == [backend |-> "raw", file |-> File(1, 7)]
Sparse  == [backend |-> "sparse", extent |-> Grains]
\* A flat extent whose file is too short, a hole, an empty one and a sparse one.
Extents == [backend |-> "extents", file |-> File(4, 3), extents |->
              <<Flat(3, File(2, 4), 2),
                Flat(0, File(5, 4), 0),
                [kind |-> "zero", sectors |-> 2], Grains>>]
\* A descriptor whose extents declare no sectors.
NoSectors == [backend |-> "extents", file |-> File(4, 3),
              extents |-> <<[kind |-> "zero", sectors |-> 0]>>]

MCDisks == <<Raw, Sparse, Extents, NoSectors>>
View(d, b, n) == [disk |-> d, base |-> b, length |-> n]
MCViews == {View(1, 3, 7), View(1, 8, 2), View(2, 3, 7), View(3, 1, 6),
            View(3, 15, 7), View(4, 0, 3)}
=============================================================================
