---------------------------- MODULE MCFileSystem ----------------------------
(***************************************************************************)
(* Small disks for FileSystem.  A block has 4 bytes and a FAT block 4      *)
(* entries; the directory has four entries of which two lie whole on the   *)
(* root block, the third lacks its flag and the fourth is not stored.      *)
(***************************************************************************)
EXTENDS FsContract, TLC

CONSTANTS a, b, disk1, disk2

MCNames == {a, b}
MCDisks == {disk1}
MCTwoDisks == {disk1, disk2}
MCSizes == {0, 3, 4, 5}

Used(n, size, first, flag) ==
    [filename |-> n, file_size |-> size, file_first_index |-> first,
     isEmpty |-> flag]

\* The heap of a process that has not used it yet.
MCFreshHeap == {ZeroEntry}

\* Uninitialised records: fresh heap, what an earlier mount left there, and
\* an arbitrary file.
MCGarbage ==
    MCFreshHeap \cup {Used(a, 0, FAT_EOC, TRUE), Used(b, 4, 3, FALSE)}

\* Only the first FAT block of a fresh file system is not all zeroes.
FatOf(first) ==
    [i \in 0 .. FatBlocks - 1 |->
        [j \in 0 .. PerBlock - 1 |-> IF i = 0 THEN first[j] ELSE 0]]

RootOf(entries) ==
    [i \in OnRootBlock |->
        IF i \in DOMAIN entries THEN entries[i] ELSE ZeroEntry]

Disk(first, entries) ==
    [fat |-> FatOf([j \in 0 .. PerBlock - 1 |->
                        IF j \in DOMAIN first THEN first[j] ELSE 0]),
     root |-> RootOf(entries)]

FreshDisk == Disk(0 :> FAT_EOC, <<>>)

\* One file of two blocks, the second not full.
OneFile ==
    Disk(0 :> FAT_EOC @@ 1 :> 2 @@ 2 :> FAT_EOC, 0 :> Used(a, 5, 1, FALSE))

\* Two files as another program stores them, in records of 32 bytes: the flag
\* of the first entry is the first letter of the second name, and the second
\* entry starts behind that name and takes its first block for a size.
TwoFiles ==
    Disk(0 :> FAT_EOC @@ 1 :> 2 @@ 2 :> FAT_EOC @@ 3 :> FAT_EOC,
         0 :> Used(a, 5, 1, TRUE) @@ 1 :> Used(NoName, 3, 0, FALSE))

\* The same on every disk.
Everywhere(found) == [d \in Disks |-> found]

MCImages == {Everywhere(FreshDisk), Everywhere(OneFile), Everywhere(TwoFiles)}

\* Disks this library's own records describe.
MCOwnImages == {Everywhere(FreshDisk), Everywhere(OneFile)}

\* Both FAT blocks in use, with a chain that crosses from one to the other.
LongFat ==
    [fat |-> [i \in 0 .. FatBlocks - 1 |->
                 [j \in 0 .. PerBlock - 1 |->
                     IF i = 0 THEN (IF j = 0 THEN FAT_EOC ELSE IF j = 1 THEN PerBlock ELSE 0)
                     ELSE (IF j = 0 THEN FAT_EOC ELSE 0)]],
     root |-> RootOf(0 :> Used(a, 5, 1, FALSE))]

MCLongImages == {Everywhere(FreshDisk), Everywhere(LongFat)}

\* The one disk has a file, the other has none.
MCTwoImages == {disk1 :> FreshDisk @@ disk2 :> LongFat}

MCOneImage == {Everywhere(OneFile)}
MCFewGarbage == MCFreshHeap \cup {Used(b, 4, 3, FALSE)}

\* States that differ in the last answer only have the same successors, for no
\* action reads ret; so have those that differ in the disk on which a closed
\* descriptor was open, or in the name of a disk that no pointer belongs to.
ButForTheAnswer ==
    <<file_system, fat_blocks, root_dir, disk_fd, writeback, images, damaged,
      fdVars, IF file_system = "null" THEN disk1 ELSE diskname,
      [fd \in Fds |-> IF Named(fd) THEN opened_on[fd] ELSE disk1]>>
=============================================================================
