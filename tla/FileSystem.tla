----------------------------- MODULE FileSystem -----------------------------
(***************************************************************************)
(* The library of src/libfs/fs.c on top of the disk of src/libfs/disk.c:   *)
(* one process calls it, one disk is open at a time, and the disks outlive *)
(* the process.  Every call is one action, except fs_umount, whose writes  *)
(* are separate steps because the process may be killed between them.  All *)
(* disks have the geometry of FsMetadata.                                  *)
(*                                                                         *)
(* C leaves some results undefined: uninitialised memory, memory already   *)
(* freed, a function that returns nothing.  What the program reads there   *)
(* is a free choice.  Where it would follow a null pointer or free memory  *)
(* twice, the process ends.                                                *)
(***************************************************************************)
EXTENDS FsMetadata, FdTable

CONSTANTS
    Disks,              \* the disks that fs_mount may be given
    Garbage,            \* what an uninitialised struct root_entry may hold
    NameChecks,         \* what isValidName() may yield for a good name
    Faults,             \* the faults that may occur, a subset of FaultKinds
    Images              \* what a first process may find on the disks

\* "io": a block transfer fails or is cut short;
\* "umount_unchecked": fs_umount is called after sys_error_check() has refused
\* the disk.
FaultKinds == {"io", "umount_unchecked"}

ASSUME FileSystemAssumption ==
    /\ Disks # {}
    /\ Garbage \subseteq Entry /\ Garbage # {}
    /\ NameChecks \subseteq BOOLEAN
    /\ Faults \subseteq FaultKinds
    /\ Images \subseteq [Disks -> [fat : FatImage, root : RootImage]]

VARIABLES
    file_system,        \* what the pointer of that name points at
    fat_blocks,         \* its FAT, ZeroFat unless mounted
    root_dir,           \* its root directory, ZeroDir unless mounted
    disk_fd,            \* "open" or "closed", the disk of disk.c
    writeback,          \* the next block fs_umount writes, or NotWriting
    images,             \* the FAT blocks and the root block on each disk
    diskname,           \* the disk that was opened last
    ret,                \* the last call, its argument and what it returned
    damaged,            \* history: an undefined value, a failed transfer or
                        \* an interrupted write-back has decided something
    opened_on           \* history: the disk each descriptor was opened on

whichDisk == <<diskname, opened_on>>
fsVars == <<file_system, fat_blocks, root_dir, disk_fd, writeback, images,
            whichDisk, ret, damaged>>
vars == <<fsVars, fdVars>>

\* file_system is NULL, points at an unchecked superblock (fs_mount failed),
\* at a mounted file system, or at memory that fs_umount has freed.  The
\* code can tell only the first from the others.
PointerStates == {"null", "unchecked", "mounted", "freed"}

\* The disk that the library reads from and writes to.
image == images[diskname]

Mounted == file_system = "mounted"
Dangling == file_system \in {"unchecked", "freed"}

NotWriting == -1
Idle == writeback = NotWriting

NoArg == 0
NoCall == [call |-> "none", arg |-> NoArg, value |-> 0]
Returns(call, arg, value) ==
    ret' = [call |-> call, arg |-> arg, value |-> value]

Init ==
    /\ file_system = "null"
    /\ fat_blocks = ZeroFat /\ root_dir = ZeroDir
    /\ disk_fd = "closed"
    /\ writeback = NotWriting
    /\ images \in Images
    /\ diskname \in Disks /\ opened_on = [fd \in Fds |-> diskname]
    /\ ret = NoCall
    /\ damaged = FALSE
    /\ FdInit

----------------------------------------------------------------------------
(* The process ends: killed, through exit() in the callers, by following a *)
(* null pointer, or by the allocator when memory is freed twice.           *)
ProcessEnds ==
    /\ file_system' = "null"
    /\ fat_blocks' = ZeroFat /\ root_dir' = ZeroDir
    /\ disk_fd' = "closed"
    /\ writeback' = NotWriting
    /\ ret' = NoCall
    /\ damaged' = (damaged \/ writeback \in 1 .. FatBlocks)
    /\ ResetTable
    /\ UNCHANGED <<images, whichDisk>>

----------------------------------------------------------------------------
(* Mounting.                                                               *)

\* The blocks fs_mount fails to read; FatBlocks stands for the root block.
UnreadBlocks == IF "io" \in Faults THEN SUBSET (0 .. FatBlocks) ELSE {{}}

\* The name is refused, or block_disk_open() fails; it always does while a
\* disk is open.
MountRefused ==
    /\ Returns("fs_mount", NoArg, -1)
    /\ UNCHANGED <<file_system, fat_blocks, root_dir, disk_fd, writeback,
                   images, whichDisk, damaged, fdVars>>

\* sys_error_check() refuses the superblock: the disk stays open and the
\* pointer stays set.
MountUnchecked(d) ==
    /\ disk_fd = "closed"
    /\ disk_fd' = "open" /\ diskname' = d
    /\ file_system' = "unchecked"
    /\ Returns("fs_mount", NoArg, -1)
    /\ UNCHANGED <<fat_blocks, root_dir, writeback, images, damaged, opened_on,
                   fdVars>>

MountLoaded(d) ==
    /\ disk_fd = "closed"
    /\ disk_fd' = "open" /\ diskname' = d
    /\ file_system' = "mounted"
    /\ \E unread \in UnreadBlocks, heap \in [EntryIndex -> Garbage] :
        /\ fat_blocks' = LoadFat(images[d].fat, unread)
        /\ root_dir' = IF FatBlocks \in unread THEN heap
                       ELSE LoadRoot(images[d].root, heap)
        /\ damaged' = (damaged \/ unread # {})
    /\ Returns("fs_mount", NoArg, 0)
    /\ UNCHANGED <<writeback, images, opened_on, fdVars>>

fs_mount(d) == Idle /\ (MountRefused \/ MountUnchecked(d) \/ MountLoaded(d))

----------------------------------------------------------------------------
(* Unmounting: the FAT blocks, then the root block, then the release of    *)
(* the memory and of the disk.                                             *)

\* How much of a transfer of `full` items reaches the disk; block_write()
\* takes a short write() for a complete one, and its result is not looked at.
Transferred(full) == IF "io" \in Faults THEN 0 .. full ELSE {full}

fs_umount ==
    /\ Idle
    /\ \/ /\ file_system \in {"null", "freed"}
          /\ ProcessEnds
       \/ /\ Mounted
          /\ writeback' = 0
          /\ ret' = NoCall
          /\ UNCHANGED <<file_system, fat_blocks, root_dir, disk_fd, images,
                         whichDisk, damaged, fdVars>>
       \/ \* The refused superblock says which blocks to write, and the memory
          \* they are written from has never been filled.
          /\ file_system = "unchecked" /\ "umount_unchecked" \in Faults
          /\ \E heap \in [OnRootBlock -> Garbage] :
                \E left \in [fat : {image.fat, ZeroFatImage}, root : {image.root, heap}] :
                   images' = [images EXCEPT ![diskname] = left]
          /\ file_system' = "freed"
          /\ disk_fd' = "closed"
          /\ damaged' = TRUE
          /\ Returns("fs_umount", NoArg, 0)
          /\ UNCHANGED <<fat_blocks, root_dir, writeback, whichDisk, fdVars>>

\* A write-back that leaves the last block of the FAT out.
WriteFatBlock_SkippingLast ==
    /\ writeback \in 0 .. FatBlocks - 1
    /\ images' = IF writeback = FatBlocks - 1 THEN images
                 ELSE [images EXCEPT ![diskname].fat[writeback] =
                          FatBlock(fat_blocks, writeback)]
    /\ writeback' = writeback + 1
    /\ ret' = NoCall
    /\ UNCHANGED <<file_system, fat_blocks, root_dir, disk_fd, whichDisk, damaged,
                   fdVars>>

\* A loop whose counter stands still.
WriteFatBlock_Stuck ==
    /\ writeback \in 0 .. FatBlocks - 1
    /\ images' = [images EXCEPT ![diskname].fat[writeback] =
                     FatBlock(fat_blocks, writeback)]
    /\ ret' = NoCall
    /\ UNCHANGED <<file_system, fat_blocks, root_dir, disk_fd, writeback, whichDisk,
                   damaged, fdVars>>

WriteFatBlock ==
    /\ writeback \in 0 .. FatBlocks - 1
    /\ \E m \in Transferred(PerBlock) :
        /\ images' = [images EXCEPT ![diskname].fat[writeback] =
                        [j \in 0 .. PerBlock - 1 |->
                            IF j < m THEN FatBlock(fat_blocks, writeback)[j]
                            ELSE @[j]]]
        /\ damaged' = (damaged \/ m < PerBlock)
    /\ writeback' = writeback + 1
    /\ ret' = NoCall
    /\ UNCHANGED <<file_system, fat_blocks, root_dir, disk_fd, whichDisk, fdVars>>

\* A release that leaves the disk open.
WriteRootAndRelease_LeavingDiskOpen ==
    /\ writeback = FatBlocks
    /\ images' = [images EXCEPT ![diskname].root = RootBlock(root_dir)]
    /\ file_system' = "freed"
    /\ fat_blocks' = ZeroFat /\ root_dir' = ZeroDir
    /\ writeback' = NotWriting
    /\ Returns("fs_umount", NoArg, 0)
    /\ UNCHANGED <<disk_fd, whichDisk, damaged, fdVars>>

\* A release that also forgets the pointer.
WriteRootAndRelease_ClearingPointer ==
    /\ writeback = FatBlocks
    /\ images' = [images EXCEPT ![diskname].root = RootBlock(root_dir)]
    /\ file_system' = "null"
    /\ disk_fd' = "closed"
    /\ fat_blocks' = ZeroFat /\ root_dir' = ZeroDir
    /\ writeback' = NotWriting
    /\ Returns("fs_umount", NoArg, 0)
    /\ UNCHANGED <<whichDisk, damaged, fdVars>>

WriteRootAndRelease ==
    /\ writeback = FatBlocks
    /\ \E m \in Transferred(Whole + 1) :
        /\ images' = [images EXCEPT ![diskname].root =
                        [i \in OnRootBlock |->
                            IF i < m THEN RootBlock(root_dir)[i] ELSE @[i]]]
        /\ damaged' = (damaged \/ m < Whole + 1)
    /\ file_system' = "freed"
    /\ disk_fd' = "closed"
    /\ fat_blocks' = ZeroFat /\ root_dir' = ZeroDir
    /\ writeback' = NotWriting
    /\ Returns("fs_umount", NoArg, 0)
    /\ UNCHANGED <<whichDisk, fdVars>>

----------------------------------------------------------------------------
(* Files.                                                                  *)

\* isValidName() refuses the empty name, and for a good one reaches the end
\* of the function without a return statement.
isValidName(n) == IF n = NoName THEN {FALSE} ELSE NameChecks

\* A call that reports a value and changes nothing.
Reports(call, arg, value) ==
    /\ Returns(call, arg, value)
    /\ UNCHANGED <<file_system, fat_blocks, root_dir, disk_fd, writeback,
                   images, whichDisk, damaged, fdVars>>

CreateRefused(n) ==
    \/ file_system = "null"
    \/ FALSE \in isValidName(n)
    \/ Dangling
    \/ Mounted /\ (Matches(root_dir, n) # {} \/ FreeEntries(root_dir) = {})

fs_create(n) ==
    /\ Idle
    /\ \/ CreateRefused(n) /\ Reports("fs_create", n, -1)
       \/ Dangling /\ TRUE \in isValidName(n) /\ Reports("fs_create", n, 0)
       \/ /\ Mounted /\ TRUE \in isValidName(n)
          /\ Matches(root_dir, n) = {}
          /\ FreeEntries(root_dir) # {}
          /\ root_dir' = FillFree(root_dir, n)
          /\ Returns("fs_create", n, 0)
          /\ UNCHANGED <<file_system, fat_blocks, disk_fd, writeback, images,
                         whichDisk, damaged, fdVars>>

\* delete_file is left uninitialised when no entry has the name.  Entries
\* behind the root block come from the heap, whoever filled them.
fs_delete(n) ==
    /\ Idle
    /\ \/ file_system = "null" /\ ProcessEnds
       \/ Dangling /\ Reports("fs_delete", n, 0)
       \/ /\ Mounted
          /\ LET found == Matches(root_dir, n) IN
             \E victim \in IF found = {} THEN Garbage ELSE {Victim(root_dir, n)} :
                LET rounds == WholeBlocks(victim) IN
                /\ fat_blocks' =
                      FreeChain(fat_blocks, victim.file_first_index, rounds)
                /\ damaged' = (damaged \/ Misled(root_dir, n, rounds))
          /\ root_dir' = ClearMatches(root_dir, n)
          /\ Returns("fs_delete", n, 0)
          /\ UNCHANGED <<file_system, disk_fd, writeback, images, whichDisk, fdVars>>

----------------------------------------------------------------------------
(* Descriptors.                                                            *)

\* Numbers callers may pass, valid or not.
FdArgs == -1 .. MaxOpen

isValidFD(fd) == file_system # "null" /\ fd \in Fds /\ Named(fd)

OpenRefused(n) ==
    \/ file_system = "null"
    \/ FALSE \in isValidName(n)
    \/ fd_open_count = MaxOpen
    \/ Dangling
    \/ Mounted /\ Matches(root_dir, n) # {}

\* A test that no longer looks for the name in the directory.
OpenAccepted_AnyName(n) == file_system # "null" /\ TRUE \in isValidName(n)

\* The names the directory has are refused and the others are opened; of
\* memory that holds no directory, strcmp() may say either.
OpenAccepted(n) ==
    /\ file_system # "null"
    /\ TRUE \in isValidName(n)
    /\ Mounted => Matches(root_dir, n) = {}

fs_open(n) ==
    /\ Idle
    /\ \/ OpenRefused(n) /\ Reports("fs_open", n, -1)
       \/ /\ OpenAccepted(n)
          /\ OpenEntry(n)
          /\ opened_on' = [opened_on EXCEPT ![fd_open_count] = diskname]
          /\ damaged' = (damaged \/ Dangling)
          /\ Returns("fs_open", n, fd_open_count)
          /\ UNCHANGED <<file_system, fat_blocks, root_dir, disk_fd,
                         writeback, images, diskname>>

fs_close(fd) ==
    /\ Idle
    /\ \/ ~isValidFD(fd) /\ Reports("fs_close", fd, -1)
       \/ /\ isValidFD(fd)
          /\ CloseEntry(fd)
          /\ Returns("fs_close", fd, 0)
          /\ UNCHANGED <<file_system, fat_blocks, root_dir, disk_fd,
                         writeback, images, whichDisk, damaged>>

\* The size of the first entry that has the descriptor's name; 0 if none has.
StatValues(fd) ==
    LET found == Matches(root_dir, fd_table[fd].filename) IN
    IF ~isValidFD(fd) THEN {-1}
    ELSE IF Dangling THEN Sizes
    ELSE IF found = {} THEN {0}
    ELSE {root_dir[Min(found)].file_size}

fs_stat(fd) ==
    /\ Idle
    /\ \E size \in StatValues(fd) : Reports("fs_stat", fd, size)

\* A valid descriptor is refused.  For any other, fs_stat() yields -1, which
\* compares as the largest size_t, and the offset is stored.  Next to the
\* table, where the two invalid numbers of FdArgs lead, the build has padding.
fs_lseek(fd, offset) ==
    /\ Idle
    /\ \/ isValidFD(fd) /\ Reports("fs_lseek", fd, -1)
       \/ ~isValidFD(fd) /\ fd \notin Fds /\ Reports("fs_lseek", fd, 0)
       \/ /\ ~isValidFD(fd) /\ fd \in Fds
          /\ fd_table' = [fd_table EXCEPT ![fd].offset = offset]
          /\ Returns("fs_lseek", fd, 0)
          /\ UNCHANGED <<file_system, fat_blocks, root_dir, disk_fd,
                         writeback, images, whichDisk, damaged, fd_open_count>>

\* A read that reports the ten bytes it was asked for.
fs_read_Counting(fd) == Idle /\ Reports("fs_read", fd, IF isValidFD(fd) THEN 10 ELSE -1)

\* Not written yet: both return 0 whatever they are given.
fs_write(fd) == Idle /\ Reports("fs_write", fd, 0)
fs_read(fd) == Idle /\ Reports("fs_read", fd, 0)

\* What they print is left out; fs_ls looks for no mounted file system.
fs_info == Idle /\ Reports("fs_info", NoArg, IF file_system = "null" THEN -1 ELSE 0)
fs_ls ==
    /\ Idle
    /\ \/ file_system = "null" /\ ProcessEnds
       \/ file_system # "null" /\ Reports("fs_ls", NoArg, 0)

----------------------------------------------------------------------------
Next ==
    \/ \E d \in Disks : fs_mount(d)
    \/ fs_umount
    \/ WriteFatBlock
    \/ WriteRootAndRelease
    \/ \E n \in MaybeName : fs_create(n) \/ fs_delete(n) \/ fs_open(n)
    \/ \E fd \in FdArgs : \/ fs_close(fd) \/ fs_stat(fd)
                          \/ fs_write(fd) \/ fs_read(fd)
    \/ \E fd \in FdArgs, offset \in Offsets : fs_lseek(fd, offset)
    \/ fs_info
    \/ fs_ls
    \/ ProcessEnds

Spec == Init /\ [][Next]_vars
=============================================================================
