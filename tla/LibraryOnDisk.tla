---------------------------- MODULE LibraryOnDisk ----------------------------
(***************************************************************************)
(* The library on the block device: fs.c calling disk.c, one transfer at a *)
(* time.  FileSystem speaks of an image and of a disk that is open or not; *)
(* here the image is a file of the host, in which the superblock, the FAT  *)
(* blocks, the root block and the data blocks have their places, and       *)
(* fs_mount reads it block by block.  The process may be killed between    *)
(* any two transfers.  A unit of the file is an entry of whatever kind the *)
(* block has.                                                              *)
(***************************************************************************)
EXTENDS Integers, Sequences

CONSTANTS
    Names, NoName, Sizes, BlockSize, FatBlocks, PerBlock, NEntries, Whole,
    MaxOpen, Offsets, Garbage, NameChecks,      \* as in FileSystem
    Paths, NoPath, HostFds,                     \* as in BlockDisk
    Superblocks,        \* first units of superblocks, as far as
                        \* sys_error_check() tells them apart
    Accepted,           \* those it accepts for a file, by the file's name and
                        \* the number of its blocks
    Outset,             \* the host's files before the process starts
    DiskFaults          \* a subset of {"io", "short"}

\* The files that fs_mount may accept.
Disks == {p \in DOMAIN Outset : Accepted[p] # {}}

\* Such a file has the blocks its superblock speaks of: sys_error_check() has
\* compared their number with that of the file.  What else it makes sure of is
\* in DiskGeometry.
ASSUME LayerAssumption ==
    /\ FatBlocks \in Nat \ {0} /\ PerBlock \in Nat \ {0} /\ NEntries \in Nat \ {0}
    /\ Whole \in 0 .. NEntries - 1 /\ Whole < PerBlock
    /\ HostFds \subseteq Nat
    /\ DOMAIN Outset \subseteq Paths /\ NoPath \notin Paths
    /\ \A p \in DOMAIN Outset :
          Len(Outset[p]) \in Nat /\ DOMAIN Outset[p] = 1 .. Len(Outset[p])
    /\ Accepted \in [Paths -> SUBSET Superblocks] /\ Superblocks # {} /\ Disks # {}
    /\ \A p \in Disks : Len(Outset[p]) >= (FatBlocks + 2) * PerBlock
    /\ DiskFaults \subseteq {"io", "short"}

VARIABLES
    file_system, fat_blocks, root_dir, writeback, ret, damaged,     \* fs.c
    fd_table, fd_open_count,
    diskname,           \* the disk mounted last
    opened_on,          \* history: as in FileSystem
    files, disk, host, leaked, replaced, answer,                    \* disk.c
    mounting,           \* the next block fs_mount reads, or NotMounting
    loading,            \* the FAT it has so far, and the blocks it has missed
    closing             \* fs_umount has only block_disk_close() left to call

libVars == <<file_system, fat_blocks, root_dir, writeback, ret, damaged,
             fd_table, fd_open_count, diskname, opened_on>>
blockVars == <<files, disk, host, leaked, replaced, answer>>
layerVars == <<libVars, blockVars, mounting, loading, closing>>

\* Where the blocks lie on the disk.
SUPERBLOCK_INDEX == 0

\* A place that forgets the superblock in front of the FAT.
FatPlace_FromZero(i) == i

FatPlace(i) == i + 1

root_dir_index == FatBlocks + 1

\* The block device.  A block has as many units as the FAT has entries in one;
\* no step takes a unit from Values.
D == INSTANCE BlockDisk WITH
    BlockSize <- PerBlock, MaxBlocks <- root_dir_index, Replacements <- {},
    Faults <- DiskFaults,
    Values <- Sizes \cup (-1 .. FatBlocks * PerBlock)

NotMounting == -1

ImageOf(file) ==
    [fat |-> [i \in 0 .. FatBlocks - 1 |->
                 [j \in 0 .. PerBlock - 1 |-> file[D!Place(FatPlace(i), j + 1)]]],
     root |-> [i \in 0 .. Whole |-> file[D!Place(root_dir_index, i + 1)]]]

\* The disk counts as open from the end of fs_mount to the beginning of the close.
DiskState == IF D!IsOpen /\ mounting = NotMounting /\ ~closing THEN "open" ELSE "closed"
DiskImages == [d \in Disks |-> ImageOf(files[d])]
OutsetImages == {[d \in Disks |-> ImageOf(Outset[d])]}
TransferFaults == IF DiskFaults = {} THEN {} ELSE {"io"}

\* The operations that make no transfer are those of FileSystem.
C == INSTANCE FileSystem WITH
    images <- DiskImages, disk_fd <- DiskState,
    Images <- OutsetImages, Faults <- TransferFaults

\* What FileSystem assumes of its constants.
ASSUME LibraryAssumption ==
    /\ NoName \notin Names
    /\ 0 \in Sizes /\ Sizes \subseteq Nat /\ BlockSize \in Nat \ {0}
    /\ MaxOpen \in Nat /\ Offsets \subseteq Nat
    /\ Garbage \subseteq C!Entry /\ Garbage # {} /\ NameChecks \subseteq BOOLEAN

\* The library this layer implements, with what holds of it: once only the close
\* is left, the unmount counts as done.
L == INSTANCE FsProperties WITH
    images <- DiskImages, disk_fd <- DiskState,
    Images <- OutsetImages, Faults <- TransferFaults,
    ret <- IF closing THEN [call |-> "fs_umount", arg |-> 0, value |-> 0] ELSE ret

AtRest == mounting = NotMounting /\ ~closing

\* Blocks taken from the array one behind the other.
FatBuffer_InOrder(fat, i) == [u \in 1 .. PerBlock |-> fat[i * PerBlock + u - 1]]

\* Buffers count from 1, arrays from 0.  The entries of a directory need not fill
\* a block.
FatBuffer(fat, i) == [u \in 1 .. PerBlock |-> fat[i + u - 1]]

RootBuffer(dir) == [u \in 1 .. PerBlock |-> IF u - 1 \in DOMAIN dir THEN dir[u - 1] ELSE 0]

LayerInit ==
    /\ D!DiskInit
    /\ mounting = NotMounting /\ closing = FALSE
    /\ loading = [fat |-> C!ZeroFat, missed |-> {}]
    /\ ret = C!NoCall
    /\ C!Init

----------------------------------------------------------------------------
(* fs_mount.                                                               *)

MountBegins(p) ==
    /\ AtRest /\ C!Idle
    /\ D!block_disk_open(p)
    /\ IF answer'.value = 0
       THEN /\ mounting' = 0
            /\ UNCHANGED ret
       ELSE /\ C!Returns("fs_mount", C!NoArg, -1)
            /\ UNCHANGED mounting
    /\ UNCHANGED <<file_system, fat_blocks, root_dir, writeback, damaged,
                   fd_table, fd_open_count, diskname, opened_on, loading, closing>>

\* The name is empty or too long.
MountNameRefused ==
    /\ AtRest /\ C!Idle
    /\ C!Returns("fs_mount", C!NoArg, -1)
    /\ UNCHANGED <<file_system, fat_blocks, root_dir, writeback, damaged,
                   fd_table, fd_open_count, diskname, opened_on, blockVars,
                   mounting, loading, closing>>

\* The memory may hold any superblock before the read, also that of an earlier
\* mount, and whatever is there afterwards is checked.
ReadSuperblock ==
    /\ mounting = 0
    /\ \E heap \in Superblocks :
          D!block_read(SUPERBLOCK_INDEX, [u \in 1 .. PerBlock |-> heap])
    /\ IF answer'.data[1] \in Accepted[host[disk.fd]]
       THEN /\ mounting' = 1
            /\ loading' = [fat |-> C!ZeroFat, missed |-> {}]
            /\ UNCHANGED <<file_system, ret>>
       ELSE /\ mounting' = NotMounting
            /\ file_system' = "unchecked"
            /\ C!Returns("fs_mount", C!NoArg, -1)
            /\ UNCHANGED loading
    /\ UNCHANGED <<fat_blocks, root_dir, writeback, damaged, fd_table,
                   fd_open_count, diskname, opened_on, files, disk, host, leaked,
                   replaced, closing>>

\* A read to where the entries of the block belong.
OverlayAt_InOrder(i) == i * PerBlock

\* &fat_blocks[i] in the call that reads block i of the FAT.
OverlayAt(i) == i

\* FAT block i arrives, over what the blocks before it have left there.
ReadFatBlock ==
    /\ mounting \in 1 .. FatBlocks
    /\ LET i == mounting - 1
           at == OverlayAt(i) IN
       /\ D!block_read(FatPlace(i), FatBuffer(loading.fat, at))
       /\ loading' =
             [fat |-> [k \in DOMAIN loading.fat |->
                          IF k \in at .. at + PerBlock - 1
                          THEN answer'.data[k - at + 1] ELSE loading.fat[k]],
              missed |-> IF answer'.value = 0 THEN loading.missed
                         ELSE loading.missed \cup {i}]
    /\ mounting' = mounting + 1
    /\ UNCHANGED <<libVars, files, disk, host, leaked, replaced, closing>>

\* The root block arrives; behind it the heap stays as it was.
ReadRoot ==
    /\ mounting = root_dir_index
    /\ \E heap \in [0 .. NEntries - 1 -> Garbage] :
        /\ D!block_read(root_dir_index, RootBuffer(heap))
        /\ root_dir' =
              [i \in 0 .. NEntries - 1 |->
                  IF i < Whole THEN answer'.data[i + 1]
                  ELSE IF i = Whole
                  THEN [answer'.data[i + 1] EXCEPT !.isEmpty = heap[i].isEmpty]
                  ELSE heap[i]]
    /\ fat_blocks' = loading.fat /\ diskname' = host[disk.fd]
    /\ file_system' = "mounted"
    /\ damaged' = (damaged \/ loading.missed # {} \/ answer'.value # 0)
    /\ C!Returns("fs_mount", C!NoArg, 0)
    /\ mounting' = NotMounting
    /\ UNCHANGED <<writeback, fd_table, fd_open_count, opened_on, files, disk,
                   host, leaked, replaced, loading, closing>>

----------------------------------------------------------------------------
(* fs_umount.                                                              *)

LayerEnds ==
    /\ D!DiskProcessEnds
    /\ mounting' = NotMounting /\ closing' = FALSE
    /\ loading' = [fat |-> C!ZeroFat, missed |-> {}]
    /\ C!ProcessEnds

UmountBegins ==
    /\ AtRest
    /\ IF file_system \in {"null", "freed"} THEN C!Idle /\ LayerEnds
       ELSE /\ C!Mounted
            /\ UNCHANGED <<blockVars, mounting, loading, closing>>
            /\ C!fs_umount

\* What a transfer that failed or stopped early did not write is lost.
Lost(block, buffer) ==
    ImageOf(files'[host[disk.fd]])
        # ImageOf(D!Stored(D!OpenImage, block, buffer, PerBlock))

WriteFatBlock ==
    /\ AtRest /\ writeback \in 0 .. FatBlocks - 1
    /\ LET buffer == FatBuffer(fat_blocks, writeback) IN
       /\ D!block_write(FatPlace(writeback), buffer)
       /\ damaged' = (damaged \/ Lost(FatPlace(writeback), buffer))
    /\ writeback' = writeback + 1
    /\ ret' = C!NoCall
    /\ UNCHANGED <<file_system, fat_blocks, root_dir, fd_table, fd_open_count,
                   diskname, opened_on, mounting, loading, closing>>

\* The root block goes out, and the memory is freed before the disk is closed.
WriteRootAndFree ==
    /\ AtRest /\ writeback = FatBlocks
    /\ LET buffer == RootBuffer(C!RootBlock(root_dir)) IN
       /\ D!block_write(root_dir_index, buffer)
       /\ damaged' = (damaged \/ Lost(root_dir_index, buffer))
    /\ file_system' = "freed"
    /\ fat_blocks' = C!ZeroFat /\ root_dir' = C!ZeroDir
    /\ writeback' = C!NotWriting
    /\ closing' = TRUE
    /\ UNCHANGED <<ret, fd_table, fd_open_count, diskname, opened_on, mounting,
                   loading>>

CloseDisk ==
    /\ closing
    /\ D!block_disk_close
    /\ C!Returns("fs_umount", C!NoArg, answer'.value)
    /\ closing' = FALSE
    /\ UNCHANGED <<file_system, fat_blocks, root_dir, writeback, damaged,
                   fd_table, fd_open_count, diskname, opened_on, mounting,
                   loading>>

----------------------------------------------------------------------------
\* The calls that transfer nothing; without a mounted disk two of them follow
\* the null pointer.
OtherCalls ==
    /\ AtRest
    /\ UNCHANGED <<blockVars, mounting, loading, closing>>
    /\ \/ \E n \in C!MaybeName : C!fs_create(n) \/ C!fs_open(n)
       \/ \E n \in C!MaybeName : file_system # "null" /\ C!fs_delete(n)
       \/ \E fd \in C!FdArgs : \/ C!fs_close(fd) \/ C!fs_stat(fd)
                               \/ C!fs_write(fd) \/ C!fs_read(fd)
       \/ \E fd \in C!FdArgs, offset \in Offsets : C!fs_lseek(fd, offset)
       \/ C!fs_info
       \/ file_system # "null" /\ C!fs_ls

LayerNext ==
    \/ \E p \in Paths : MountBegins(p)
    \/ MountNameRefused
    \/ ReadSuperblock
    \/ ReadFatBlock
    \/ ReadRoot
    \/ UmountBegins
    \/ WriteFatBlock
    \/ WriteRootAndFree
    \/ CloseDisk
    \/ OtherCalls
    \/ LayerEnds

LayerSpec == LayerInit /\ [][LayerNext]_layerVars

----------------------------------------------------------------------------
\* fs.c calling disk.c is the library of FileSystem: reading block by block
\* comes to the same as loading the image at once, a kill in the middle of
\* fs_mount to a kill before it, the close of the disk never fails, and a failed
\* or short transfer has no effect but those FileSystem allows.
ImplementsFileSystem == L!Spec

\* Every file on every disk of the host has as many blocks as its size calls
\* for, none free and none of another file, and so it has in memory, however
\* many transfers a mount or an unmount takes: unless a transfer has failed, an
\* unmount was cut off, or an undefined value has decided something, and but for
\* the time between the first write of an unmount and the last.
FileChainsIntact == L!MemoryChainsIntact /\ L!ImageChainsIntact

\* The library writes the FAT and the root block of the disk it has mounted, in
\* an unmount, and nothing else: not the superblock, no data block, no other
\* file, whichever transfers fail and wherever the process is killed.
OnlyMetadataWritten ==
    [][\A p \in DOMAIN files : \A k \in 1 .. Len(files[p]) :
         files'[p][k] # files[p][k]
            => /\ p = diskname /\ writeback # C!NotWriting
               /\ k \in D!Place(SUPERBLOCK_INDEX + 1, 1) .. D!Place(root_dir_index, PerBlock)
      ]_layerVars
=============================================================================
