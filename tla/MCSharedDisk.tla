---------------------------- MODULE MCSharedDisk ----------------------------
(***************************************************************************)
(* Two processes on a disk of two FAT blocks that holds two files, which   *)
(* they delete and replace by a third.                                     *)
(***************************************************************************)
EXTENDS SharedDisk, TLC

CONSTANTS a, b, c, p1, p2

MCNames == {a, b, c}
MCCreateNames == {c}
MCDeleteNames == {a, b}
MCSizes == {0, 5, 8}
MCProcs == {p1, p2}
MCGarbage == {ZeroEntry}

File(n, size, first) ==
    [filename |-> n, file_size |-> size, file_first_index |-> first,
     isEmpty |-> FALSE]

\* The chain 1 -> 3 of the first file crosses from one FAT block to the other,
\* that of the second is 2 -> 4.  Each FAT block begins at the entry of its
\* number.
MCOutset ==
    [fat |-> 0 :> (0 :> FAT_EOC @@ 1 :> 3 @@ 2 :> 4 @@ 3 :> FAT_EOC)
          @@ 1 :> (0 :> 3 @@ 1 :> 4 @@ 2 :> FAT_EOC @@ 3 :> FAT_EOC),
     root |-> 0 :> File(a, 5, 1) @@ 1 :> File(b, 8, 2) @@ 2 :> ZeroEntry]

ProcessesAlike == Permutations(MCProcs)
=============================================================================
