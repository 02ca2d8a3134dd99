----------------------------- MODULE FsMetadata -----------------------------
(***************************************************************************)
(* The two metadata structures of src/libfs/fs.c and the pure part of what *)
(* is done to them: the file allocation table (fat_blocks), the root       *)
(* directory (root_dir), their form on disk and in memory, and the loops   *)
(* that load, store, search, fill and clear them.  No state lives here.    *)
(*                                                                         *)
(* The C records do not fit their blocks.  A struct root_entry is 36 bytes *)
(* in memory (the flag isEmpty and the alignment come on top of the 32     *)
(* bytes of its other fields), so a 4096-byte block holds the first 113 of *)
(* the 128 entries whole, all of the 114th but its flag isEmpty, and       *)
(* nothing of the last 14.  Whole = 113 and NEntries = 128 in fs.c.        *)
(***************************************************************************)
EXTENDS Integers, FiniteSetsExt, FileNames

CONSTANTS
    Sizes,              \* file sizes in bytes
    BlockSize,          \* bytes in a block, 4096 in disk.h
    FatBlocks,          \* blocks of the FAT, fat_blck_amount
    PerBlock,           \* FAT entries in a block, BLOCK_SIZE / 2
    NEntries,           \* entries of root_dir, FS_FILE_MAX_COUNT
    Whole               \* entries that lie whole inside the root block

FAT_EOC == -1

FatIndex == 0 .. FatBlocks * PerBlock - 1
BlockRef == FatIndex \cup {FAT_EOC}
EntryIndex == 0 .. NEntries - 1
OnRootBlock == 0 .. Whole       \* the last of them without its flag

Entry == [filename : MaybeName, file_size : Sizes,
          file_first_index : BlockRef, isEmpty : BOOLEAN]

ASSUME MetadataAssumption ==
    /\ 0 \in Sizes /\ Sizes \subseteq Nat
    /\ BlockSize \in Nat \ {0}
    /\ FatBlocks \in Nat \ {0}
    /\ PerBlock \in Nat \ {0}
    /\ NEntries \in Nat \ {0}
    /\ Whole \in 0 .. NEntries - 1

\* Memory and disk blocks full of zeroes.
ZeroEntry == [filename |-> NoName, file_size |-> 0,
              file_first_index |-> 0, isEmpty |-> FALSE]
ZeroFatImage == [i \in 0 .. FatBlocks - 1 |-> [j \in 0 .. PerBlock - 1 |-> 0]]
ZeroFat == [k \in FatIndex |-> 0]
ZeroDir == [i \in EntryIndex |-> ZeroEntry]

Fat == [FatIndex -> BlockRef]
Dir == [EntryIndex -> Entry]
FatImage == [0 .. FatBlocks - 1 -> [0 .. PerBlock - 1 -> BlockRef]]
RootImage == [OnRootBlock -> Entry]

----------------------------------------------------------------------------
(* The FAT between disk and memory.  The address handed to block_read and  *)
(* block_write for block i is &fat_blocks[i]: entry i of the array, not    *)
(* entry i * PerBlock.                                                     *)

\* The blocks whose read covers entry k, those in `unread` having failed.
Covering(k, unread) ==
    {i \in 0 .. FatBlocks - 1 : i \notin unread /\ i <= k /\ k < i + PerBlock}

\* fs_mount: the array starts as zeroes, each block read overlays the one
\* before it from one entry further on.
LoadFat(blocks, unread) ==
    [k \in FatIndex |->
        LET cover == Covering(k, unread)
        IN  IF cover = {} THEN 0 ELSE blocks[Max(cover)][k - Max(cover)]]

\* A block taken one entry too far into the array.
FatBlock_Shifted(fat, i) ==
    [j \in 0 .. PerBlock - 1 |->
        IF i + j + 1 \in FatIndex THEN fat[i + j + 1] ELSE 0]

\* fs_unmount: block i is written from entry i of the array on.
FatBlock(fat, i) == [j \in 0 .. PerBlock - 1 |-> fat[i + j]]

----------------------------------------------------------------------------
(* The chain of a file.                                                    *)

\* An index outside the array: pFAT[-1] is the upper half of the size field
\* the allocator keeps before a block, which is 0 and stays 0.
FatRead(fat, b) == IF b \in FatIndex THEN fat[b] ELSE 0

\* The successive values of current_index in fs_delete.  The entry is zeroed
\* as soon as its successor is read, so a block met again leads to block 0.
Walk(fat, first, n) ==
    LET pos[k \in 0 .. n] ==
            IF k = 0 THEN first
            ELSE IF \E j \in 0 .. k - 2 : pos[j] = pos[k - 1] THEN 0
            ELSE FatRead(fat, pos[k - 1])
    IN  pos

\* A loop that advances before it zeroes.
Walked_PastTheHead(fat, first, n) == {Walk(fat, first, n)[k] : k \in 1 .. n - 1}

\* The blocks the loop of fs_delete zeroes when it makes n rounds.
Walked(fat, first, n) == {Walk(fat, first, n)[k] : k \in 0 .. n - 1}

FreeChain(fat, first, n) ==
    [b \in FatIndex |-> IF b \in Walked(fat, first, n) THEN 0 ELSE fat[b]]

\* file_blck_size in fs_delete: rounded down.
WholeBlocks(entry) == entry.file_size \div BlockSize

----------------------------------------------------------------------------
(* The root directory.                                                     *)

\* The entries strcmp() finds; the flag isEmpty plays no part in it.
Matches(dir, n) == {i \in EntryIndex : dir[i].filename = n}

FreeEntries(dir) == {i \in EntryIndex : dir[i].isEmpty}

NewEntry(n) == [filename |-> n, file_size |-> 0,
                file_first_index |-> FAT_EOC, isEmpty |-> FALSE]

\* A fs_create that is content with the first free entry.
FillFree_FirstOnly(dir, n) == [dir EXCEPT ![Min(FreeEntries(dir))] = NewEntry(n)]

\* fs_create: the loop over the free entries has no break.
FillFree(dir, n) ==
    [i \in EntryIndex |-> IF dir[i].isEmpty THEN NewEntry(n) ELSE dir[i]]

\* A fs_delete that leaves the size alone.
ClearMatches_KeepingSize(dir, n) ==
    [i \in EntryIndex |->
        IF dir[i].filename = n
        THEN [dir[i] EXCEPT !.file_first_index = FAT_EOC, !.isEmpty = TRUE]
        ELSE dir[i]]

\* A fs_delete that leaves the loop at the first entry it finds.
ClearMatches_FirstOnly(dir, n) ==
    IF Matches(dir, n) = {} THEN dir
    ELSE [dir EXCEPT ![Min(Matches(dir, n))] =
             [@ EXCEPT !.file_size = 0, !.file_first_index = FAT_EOC,
                       !.isEmpty = TRUE]]

\* fs_delete: every entry of that name is reset, its filename stays.
ClearMatches(dir, n) ==
    [i \in EntryIndex |->
        IF dir[i].filename = n
        THEN [dir[i] EXCEPT !.file_size = 0, !.file_first_index = FAT_EOC,
                            !.isEmpty = TRUE]
        ELSE dir[i]]

\* The entry fs_delete copies: the last one it finds.
Victim(dir, n) == dir[Max(Matches(dir, n))]

\* What fs_delete frees is not what the root block says of the file: the entry it
\* copied is none of that block, and it is that entry or the stored one that has
\* blocks to free.
Misled(dir, n, rounds) ==
    LET found == Matches(dir, n) IN
    /\ found = {} \/ Max(found) > Whole
    /\ rounds > 0 \/ \E i \in found \cap OnRootBlock : WholeBlocks(dir[i]) > 0

\* Entries stored without the flag, as the 32 bytes of the other fields.
RootBlock_WithoutFlags(dir) ==
    [i \in OnRootBlock |-> [dir[i] EXCEPT !.isEmpty = FALSE]]

\* fs_unmount: the part of root_dir that one block holds.
RootBlock(dir) ==
    [i \in OnRootBlock |->
        IF i < Whole THEN dir[i] ELSE [dir[i] EXCEPT !.isEmpty = FALSE]]

\* fs_mount: the entries of the root block, the rest as the heap had it.
LoadRoot(root, heap) ==
    [i \in EntryIndex |->
        IF i < Whole THEN root[i]
        ELSE IF i = Whole THEN [root[i] EXCEPT !.isEmpty = heap[i].isEmpty]
        ELSE heap[i]]
=============================================================================
