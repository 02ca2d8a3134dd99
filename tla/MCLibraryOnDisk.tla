--------------------------- MODULE MCLibraryOnDisk ---------------------------
(***************************************************************************)
(* Two disks with two FAT blocks of two entries and a root block that      *)
(* holds one entry and the next without its flag.  One holds a file and    *)
(* has a data block, the other is fresh, and its superblock is refused.    *)
(***************************************************************************)
EXTENDS LibraryOnDisk

CONSTANTS a, disk_fs, foreign, good, bad

MCNames == {a}
MCSizes == {0, 4, 5}
MCPaths == {disk_fs, foreign}
MCSuperblocks == {good, bad}

\* So the foreign disk is mounted where the read of its superblock fails and the
\* memory still holds that of the other disk, whose signature begins alike.
MCAccepted == [p \in MCPaths |-> {good}]

RootEntry(n, size, first, flag) ==
    [filename |-> n, file_size |-> size, file_first_index |-> first, isEmpty |-> flag]

Deleted == RootEntry(a, 0, -1, TRUE)

\* A file of two blocks, whose chain leads from the first entry of the second FAT
\* block to the entry behind it; each FAT block begins at the entry of its number.
MCDiskFile ==
    <<good, good, -1, 2, 2, -1, Deleted, RootEntry(a, 5, 1, FALSE), 0, 0>>

MCForeignFile ==
    <<bad, bad, -1, 0, 0, 0,
      RootEntry(NoName, 0, -1, TRUE), RootEntry(NoName, 0, -1, FALSE)>>

MCOutset ==
    [p \in MCPaths |-> IF p = disk_fs THEN MCDiskFile ELSE MCForeignFile]

MCGarbage == {Deleted}

\* No action reads the two answers but in the step that gives them, the FAT of a
\* mount that is over, the disk on which a closed descriptor was open, or the name
\* of a disk that no pointer belongs to.
ButForTheAnswers ==
    <<file_system, fat_blocks, root_dir, writeback, damaged, fd_table,
      fd_open_count, files, disk, host, leaked, mounting, closing,
      IF mounting = NotMounting THEN {} ELSE {loading},
      IF file_system = "null" THEN disk_fs ELSE diskname,
      [fd \in C!Fds |-> IF C!Named(fd) THEN opened_on[fd] ELSE disk_fs]>>
=============================================================================
