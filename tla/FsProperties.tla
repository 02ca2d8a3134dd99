---------------------------- MODULE FsProperties ----------------------------
(***************************************************************************)
(* What holds of the library as it is written: invariants, properties of   *)
(* single steps, and refinements.                                          *)
(***************************************************************************)
EXTENDS FileSystem, FsImages

\* Type invariant.
TypeOK ==
    /\ file_system \in PointerStates
    /\ fat_blocks \in Fat
    /\ root_dir \in Dir
    /\ disk_fd \in {"open", "closed"}
    /\ writeback \in {NotWriting} \cup 0 .. FatBlocks
    /\ images \in [Disks -> [fat : FatImage, root : RootImage]]
    /\ diskname \in Disks /\ opened_on \in [Fds -> Disks]
    /\ damaged \in BOOLEAN
    /\ FdTypeOK

\* The disk of disk.c is open exactly while fs.c has memory that belongs to
\* it, checked or not; and a write-back is under way only while mounted.  So
\* once sys_error_check() has refused a disk, block_disk_open() answers "disk
\* already open" to every later fs_mount of that process.
DiskHeld ==
    /\ disk_fd = "open" <=> file_system \in {"unchecked", "mounted"}
    /\ ~Idle => Mounted

\* Before the first fs_mount no descriptor can be open, although the table
\* outlives every later mount.
NoHandleBeforeMount ==
    file_system = "null" => \A fd \in Fds : ~Named(fd)

----------------------------------------------------------------------------
(* Chains.                                                                 *)

\* fs_create, fs_delete and the unmount/mount cycle never leave a file with a
\* block that is free, missing or shared, as long as no undefined value, failed
\* transfer or interrupted write-back was involved.
MemoryChainsIntact ==
    Mounted /\ ~damaged => ChainsIntact(root_dir, fat_blocks)

\* The same on every disk, whenever fs_umount is not in the middle of its writes.
ImageChainsIntact ==
    Idle /\ ~damaged =>
        \A d \in Disks : ChainsIntact(images[d].root, LoadFat(images[d].fat, {}))

\* fs_delete frees the blocks of the last entry it finds only, and rounds their
\* number down.  Still no file of that name on the root block, the last or not,
\* keeps more than one block allocated: unless an entry that no disk holds has
\* decided what is freed.
DeleteLeavesAtMostOneBlock ==
    [][\A n \in MaybeName :
         /\ ret' = [call |-> "fs_delete", arg |-> n, value |-> 0]
         /\ Mounted /\ ~damaged'
         => \A i \in Matches(root_dir, n) \cap OnRootBlock :
              Cardinality({b \in Chain(root_dir[i], fat_blocks) :
                              fat_blocks'[b] # 0}) <= 1]_vars

----------------------------------------------------------------------------
(* The directory.                                                          *)

\* Entries of one name that lie whole on the root block are equal in every field:
\* among them it makes no difference that fs_stat takes the first it finds and
\* fs_delete the last.  fs_create makes such twins whenever several entries are
\* free.  An entry behind the whole ones may differ, and be the last.
TwinsAgreeIn(dir) ==
    \A i, j \in 0 .. Whole - 1 :
        dir[i].filename = dir[j].filename /\ dir[i].filename \in Names
            => dir[i] = dir[j]

\* Twins agree in memory and on every disk, unless something was damaged.
TwinsAgree ==
    ~damaged => /\ Mounted => TwinsAgreeIn(root_dir)
                /\ \A d \in Disks : TwinsAgreeIn(images[d].root)

\* The names on a root block, the empty name of unused entries being one of them,
\* are never more than they were.  Only deleted entries are free, a deleted entry
\* keeps its name until fs_create gives it another, and fs_create gives all free
\* entries the same.  A file can so replace another, or all unused entries at
\* once, whose empty name fs_delete accepts: never be added to both.
NamesNeverMultiply ==
    [][\A d \in Disks : Cardinality(NamesOn(images'[d].root))
                           <= Cardinality(NamesOn(images[d].root))]_vars

EmptyIn(dir, n) ==
    \A i \in OnRootBlock : dir[i].filename = n => dir[i].file_size = 0

\* The root directory of a disk: that in memory while the disk is mounted.
RootOn(d) == IF Mounted /\ diskname = d THEN root_dir ELSE images[d].root

\* A name can only be opened while the directory lacks it, so on the disk it was
\* opened on no descriptor ever refers to an entry of the root block that holds
\* data, whatever is unmounted and mounted in between.  On another disk it may:
\* a descriptor outlives its disk, and a name is all it has.
OpenFilesAreEmpty ==
    ~damaged =>
        \A fd \in Fds : Named(fd) =>
            EmptyIn(RootOn(opened_on[fd]), fd_table[fd].filename)

----------------------------------------------------------------------------
(* Refinements.                                                            *)

\* A disk that was not the last to be opened is closed; "saved" is what a caller
\* knows once fs_umount has returned 0.
StorePhase(d) ==
    CASE diskname # d -> "closed"
      [] diskname = d /\ file_system = "freed" -> "saved"
      [] diskname = d /\ Mounted -> IF Idle THEN "open" ELSE "flushing"
      [] OTHER -> "closed"

\* The FAT of a disk as a write-back store, one cell for each entry that is read.
FatStore(d) == INSTANCE WriteBackStore WITH
    Cells <- FatIndex, Values <- BlockRef, Blank <- ZeroFat,
    phase <- StorePhase(d), memory <- IF diskname = d THEN fat_blocks ELSE ZeroFat,
    durable <- LoadFat(images[d].fat, {})

\* Its root directory as a write-back store, as far as its block reaches.
RootStore(d) == INSTANCE WriteBackStore WITH
    Cells <- WholeEntries, Values <- Entry, Blank <- WholePart(ZeroDir),
    phase <- StorePhase(d),
    memory <- WholePart(IF diskname = d THEN root_dir ELSE ZeroDir),
    durable <- WholePart(images[d].root)

\* Without faults the FAT a process loads is the one the last complete
\* unmount of that disk wrote, for any number of FAT blocks, although mounting
\* and unmounting place the blocks one entry apart instead of one block.
FatWrittenBack ==
    /\ \A d \in Disks : FatStore(d)!StoreInit
    /\ [][\A d \in Disks : [FatStore(d)!StoreNext]_(FatStore(d)!storeVars)]_vars

\* Without faults the same holds of the entries that lie whole on the root
\* block, and nothing else ever changes them on disk.
RootWrittenBack ==
    /\ \A d \in Disks : RootStore(d)!StoreInit
    /\ [][\A d \in Disks : [RootStore(d)!StoreNext]_(RootStore(d)!storeVars)]_vars

\* The descriptor table takes no other steps than those of module FdTable:
\* in particular fs_lseek, which stores an offset whenever file_system is
\* NULL, never meets an open descriptor.
TableSteps == FdSpec
=============================================================================
