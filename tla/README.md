# ECS150FS: specifications of the file system in `src/libfs` and its driver

The repository is a student's file system: a library (`src/libfs/fs.c`) that
keeps files on a disk image through a block device (`src/libfs/disk.c`), and
programs that call it (`src/apps`). The modules here model the library, the
block device, the test driver and the demo programs, TLC checks them on small
disks, and TLAPS proves the main results for disks of any size.

## 1. Inventory

| Component | Source | State | Operations |
|---|---|---|---|
| Mount and unmount | `fs.c:127-201` | the pointer `file_system`, what it points at | `fs_mount`, `fs_unmount` |
| FAT and root directory | `fs.c:20-58` and the loops over them | `fat_blocks`, `root_dir`, their blocks on the disk | load, store, search, fill, clear, walk a chain |
| Directory operations | `fs.c:237-333` | none of their own | `isValidName`, `fs_create`, `fs_delete` |
| File descriptors | `fs.c:351-464` | `fd_table`, `fd_open_count` | `fs_open`, `fs_close`, `fs_stat`, `fs_lseek`, stubs `fs_read`, `fs_write` |
| Superblock check | `fs.c:77-125` | none | `sys_error_check` |
| Listing | `fs.c:203-235, 335-349` | none, prints | `fs_info`, `fs_ls` |
| Block device | `disk.c` | the open disk and its block count; the host's file | `block_disk_open`, `_close`, `_count`, `block_read`, `block_write` |
| Test driver | `apps/test_fs.c` | the flag `mounted`, the descriptor in use | seven commands, one of them a script interpreter |
| Demo programs | `apps/simple_*.c`, `libfs/mount_tester.c` | none | fixed sequences of calls |
| Formatter, reference | `apps/fs_make.x`, `apps/fs_ref.x` | | binaries without source |
| Earlier versions | `libfs/fs2.0.c`, `libfs/fs3.0.c` | | not built |

**How they interact.** Everything is synchronous calls in one process and one
thread (the `thread_` in the driver's function names is only a name). A driver
calls the library, the library calls the block device, the block device calls
the host. The metadata live in memory between `fs_mount` and `fs_umount` and on
the disk otherwise; the descriptor table lives as long as the process and is not
touched by mounting or unmounting. `block_disk_open` takes no lock, so processes
also interact through the image, when several have it mounted.

**What is hard.** Not concurrency inside the process, but (a) the process can
be killed between any two transfers, and other processes may read and write the
image between them, (b) memory that is used
uninitialised, after it was freed, or behind the end of a block decides results,
(c) transfers fail or stop half-way and nobody looks, (d) long legal sequences
of create, delete, open, close, unmount and mount reach states no test of the
repository reaches, (e) integer widths and roundings at particular disk sizes,
(f) tests in the code that are negated once too often, so that what protects an
invariant is often not the test that was meant to.

**What makes each part correct.** Mounting and unmounting: the metadata a mount
finds are those the last complete unmount wrote, and the disk is held exactly
while the library has memory for it. FAT and directory: every file has as many
blocks as its size calls for, none free, none shared. Descriptors: a number means
one open file at a time. Superblock check: accepted regions do not overlap.
Block device: no transfer leaves its block, no descriptor of the host is used
by two. Driver: every mount is matched by an unmount. Several processes: whatever
they leave on the image between them, no file has blocks of another.

## 2. How `fs.c` is read

`fs.c` as committed does not compile. The modules model the program one gets
by the smallest changes that make it compile, none of which changes a decision:

| In `fs.c` | Read as | Because |
|---|---|---|
| `FILE_DESCRIPTOR_TABLE_SIZE` (72, 367, 395) | `FS_OPEN_MAX_COUNT`, 32 | `fs.c:22`, `fs.h:12-13` |
| `DISK_NAME_MAX`, `file_size` in `fs_mount` (133, 152) | 255, the length of the disk's name | `fs3.0.c:12`, `fs3.0.c:112-113,132` |
| `calloc` with one argument (163) | that many zeroed bytes | the comment at 162 |
| `block_disk_close(diskname)` (194) | `block_disk_close()` | `disk.h:27` |
| `fs_unmount` (178) | `fs_umount` | `fs.h:37` |
| `isvalidFD`, `fileName` | `isValidFD`, `filename` | 389, 237 |
| `filename = filename`, `padding = BLOCK_SIZE` (281, 284) | a copy of the string; nothing | arrays; `padding` is never read |
| `struct superBlock* pFAT` (321) | `uint16_t *` | `fat_blocks`, 57 |
| `fs_info` (204-235) | its test for NULL, and prints | |

Measured with gcc on this reading: `struct root_entry` has 36 bytes with
`isEmpty` at 32, so one block holds 113 of the 128 entries whole and the 114th
without its flag; `isValidName` has no return statement for good names and gcc
yields true at `-O0`, `-O1` and `-O2`; freeing the file system twice ends the
process (glibc: "double free or corruption"); the bytes at `fd_table[-1].offset`
and `fd_table[32].offset` are padding.

## 3. Modules

| Module | Models | Source |
|---|---|---|
| `FileNames` | names, which are only compared | |
| `FdTable` | the descriptor table and the steps that change it | `fs.c:60-75, 351-454` |
| `HandleIssuer` | abstract: a dispenser of numbered handles | what `FdTable` implements |
| `FsMetadata` | FAT and root directory in memory and on disk, as operators | `fs.c:20-58` and the loops |
| `FileSystem` | the library: all calls, write-back, kills; composes the two above | `fs.c` |
| `WriteBackStore` | abstract: a copy in memory, loaded, edited, flushed | what mounting promises |
| `FsImages` | what makes a FAT and a directory whole: chains, whole entries | |
| `FsProperties` | invariants, step properties and refinements of `FileSystem` | |
| `FsContract` | sentences of comments in `fs.c` that the code breaks | |
| `DiskGeometry` | `sys_error_check`, and the formatter as an external | `fs.c:77-125` |
| `BlockDisk` | the block device on the host's files and descriptors | `disk.c` |
| `LibraryOnDisk` | the library on the block device, transfer by transfer; implements `FileSystem` | `fs.c:127-201`, `disk.c` |
| `SharedDisk` | several processes on one image | `fs.c:127-333`, `disk.c:36-62` |
| `Demos` | the call lists and ASSERTs of the demo programs | `simple_*.c`, `mount_tester.c` |
| `TestFs` | the driver and the demos as clients of `FileSystem` | `test_fs.c` |
| `MCFileSystem`, `MCDiskGeometry`, `MCBlockDisk`, `MCLibraryOnDisk`, `MCSharedDisk`, `MCTestFs` | small instances | |
| `FsMetadataProofs`, `FileSystemProofs`, `DirectoryProofs`, `TestFsProofs`, `BlockDiskProofs`, `LibraryOnDiskProofs`, `SharedDiskProofs`, `DiskGeometryProofs` | theorems | |

**State of `FileSystem`.** `file_system` is the pointer: `"null"`; `"unchecked"`
after a mount that `sys_error_check` refused (the code leaves disk and pointer
set); `"mounted"`; `"freed"` after an unmount (the code does not reset the
pointer). The code can distinguish only the first from the rest, and every guard
in the model distinguishes no more. `fat_blocks` and `root_dir` are the memory
behind it; `images` are the disks, each FAT block by FAT block and the root block;
`diskname` is the disk that was opened last, and `image` what is on it;
`writeback` is the next block `fs_umount` writes; `disk_fd` is whether `disk.c`
has a disk open; `ret` is the last answer. `opened_on` and `damaged` are history
variables. The one says on which disk a descriptor was opened, which the code does
not record. The other is set when an undefined value, a failed or short transfer or
an interrupted write-back has decided something that reached the metadata, and the
invariants about chains are stated for the rest. Among the undefined values are the
directory entries behind the root block, which come from the heap: a delete whose
last match is one of them counts as damage if it frees blocks, or if it clears the
entry of a stored file of a block or more whose blocks it does not free (`Misled`).

**Actions.** One per call. `fs_mount(d)` mounts any of the disks, one after the
other in the life of a process. `fs_umount` alone is several: `fs_umount` enters the
function, `WriteFatBlock` is one round of its loop, `WriteRootAndRelease` the
rest. `ProcessEnds` is a kill, an `exit()`, a null pointer followed or memory
freed twice, and may happen in every state; it loses everything but `images`.

**Undefined results** are free choices: the heap behind a fresh `malloc`, the
uninitialised `delete_file` (both over `Garbage`), what freed memory says
(`Dangling`), what `isValidName` yields for good names (`NameChecks`).

**`TestFs`.** A job is a list of calls that remain, with the disk and the file the
program was given. `Calls` gives the list of a command or a demo, `Following` what a
result makes of it (go on, unmount and die, die at once), and a script is a job whose
next call is chosen freely. `Start` gives `stat`, `cat` and `rm` any name, the empty
one too, which `rm` passes on to `fs_delete` unchecked; `add` gets the name of a file
it has found on the host (`FileArgs`). The tester alone mounts several disks
(`DiskArgs`). The writer wants all its 26 bytes written and the reader its 10 bytes
read, which must be the right letters: `letters` is whether the reader's buffer, which
it never initialises and `fs_read` never fills, happens to hold them. The library's
actions are used unchanged.

**`BlockDisk`.** A file is a sequence of units, a block is `BlockSize` of them,
so that short transfers and misaligned sizes exist.

**`LibraryOnDisk`.** The composition of the two. A disk is a file of the host in
which superblock, FAT, root directory and data have their places, a unit is an
entry of whatever kind the block has, and every transfer is a step: `fs_mount`
opens (`MountBegins`), reads the superblock, each FAT block and the root block;
`fs_umount` writes and then closes. `mounting`, `loading` and `closing` are where
in those functions the process is. `Superblocks` are the superblocks that
`sys_error_check` can tell apart, and `Accepted` says which of them it accepts for
which file: it compares as many letters of the signature as the file's name has, and
sizes, so a superblock may pass for several files and a file may have several that
pass. `Disks` are the files for which any passes. The memory the superblock is read
into may hold any superblock before (`ReadSuperblock`), so a failed read may pass the
check with that of an earlier mount, of another disk too. The module instantiates
`BlockDisk` (`D`) for every transfer, `FileSystem` (`C`) for the calls that make none,
and `FsProperties`, which extends it, (`L`) as what it implements: the images are read
out of the files (`DiskImages`), the disk counts as open from the end of `fs_mount` to
the beginning of the close, and the answer of `fs_umount` is given when only the close
is left. `FileSystem`'s choices `UnreadBlocks` and `Transferred` are what failed and
short transfers come to there. The fault `"umount_unchecked"` is left to `FileSystem`.
`LayerAssumption` says that there is a disk, and that each has room for the blocks its
superblock speaks of, which is what `sys_error_check` compares the block count for
(`AcceptedLayout`). A block may have room for more units than the root block has
entries; what lies there is written as zeroes and not looked at.

**`SharedDisk`.** Every process has a session: what it is doing, the next block it
transfers, and its copies of FAT and directory. Loading and saving go block by
block; the calls in between change only the copy. `damaged` is set when a
write-back overlaps a mount or unmount of another process or is cut off by a kill
after its first write, and when `fs_delete` walks from an undefined entry;
`edited` says that some process has changed its copy; a session's `alone` that no
other process has written since its unmount began. The write of a block is one
step, and does not fail.

## 4. Runs

Passing runs:

| Run | Question | Bounds |
|---|---|---|
| `fd_table` | is the table a dispenser? | 3 descriptors, 2 names, 2 offsets |
| `core` | do chains and twins stay intact under every sequence of calls and restarts, and what does a delete leave? | 1 disk in 3 initial states, 1 FAT block of 4 entries, 4 directory entries of which 2 whole, 2 names and the empty one, sizes 0 to a block and a quarter, 1 descriptor, 3 contents of memory |
| `faults` | what survives failed and short transfers, and an unmount after a refused mount? | 3 entries of which 1 whole, 1 disk |
| `write_back` | are FAT and directory of each disk write-back stores when the process is killed anywhere, and what do descriptors speak of when disks change under them? | 2 disks mounted in turn, one fresh, one with a file and both FAT blocks in use, 2 FAT blocks of 4 entries, 1 name, 1 descriptor |
| `geometry` | which disks are accepted, and are they laid out soundly? | formatted disks within 25 blocks of every multiple of 2048 up to the 16-bit limit; 12 sizes with every superblock field off by at most one |
| `block_disk` | are host descriptors accounted for, is the block count right, and what can a write reach when the image is replaced meanwhile? | 2 images, 1 missing file, 3 host descriptors, blocks of 2 units, 3 replacements |
| `test_fs` | what do the driver's commands, its scripts and the demos leave behind, killed at any point, and do they end? | 2 disks as in `write_back`, 2 FAT blocks, 2 names and the empty one, 1 descriptor, all commands, every script and every demo, in any order |
| `library_on_disk` | does the library on the block device implement `FileSystem`, do chains stay whole on the host's files, and what does it write? | 2 disks, one with a file, one fresh whose own superblock is refused and which is mounted only when memory still holds that of the first, 2 FAT blocks of 2 entries, 2 directory entries of which 1 whole, 1 name, 1 host descriptor, failed and short transfers, kills anywhere |
| `shared_disk` | what can sessions that overlap leave on the image? | 2 processes, 2 FAT blocks of 4 entries, 2 files with crossing chains, which the processes delete (`DeleteNames`), and a third name to create (`CreateNames`), kills anywhere |

What each shows is in section 5. A run takes between a second and two minutes; the largest are `shared_disk` with 1,147,411 distinct states and `faults` with
695,500.

The bounds are small because what the code does depends on few distinctions. A
block of four bytes and sizes 0, 3, 4 and 5 give empty files, files below, at
and above a whole block. Four directory entries with `Whole = 2` have two entries
that are stored, the one without its flag and one that is not stored at all, so
the layout of 113, 1 and 14 entries is there in small. Two disks are what it takes
for a descriptor to outlive its own. Two FAT blocks of four
entries overlap in three, as two of 2048 overlap in 2047. Two names are what a
test of equality can tell apart. One descriptor in `core` already makes the table
full; `fd_table` has three. `Garbage` has fresh heap, a deleted entry and a used
one. `TwoFiles` is a disk written by another implementation, with directory
records of 32 bytes, read through records of 36. In `shared_disk` two processes are
enough for each hazard it is about (a lost update, a mixture of two unmounts, a
mount torn by an unmount), and `SharedDiskProofs` has any number of them; its two
chains cross from one FAT block to the other. Where a size matters beyond these
classes (`geometry`) the run uses the real numbers.

`core`, `faults`, `write_back` and `block_disk` use the view `ButForTheAnswer`,
and `library_on_disk` the view `ButForTheAnswers`, which leave out the last answer
(`ret`, `answer`), the disk on which a closed descriptor was open, the name of a disk
no pointer belongs to, and in `library_on_disk` the FAT of a mount that is over: no
action reads them, so states that differ in them only have the same successors, no
invariant of these runs looks at them, and TLC still evaluates action properties on
every transition. `test_fs`
has no view, since `EndsUnmounted` looks at the answer and two properties are
liveness properties. `shared_disk` takes processes for interchangeable
(`ProcessesAlike`): they start alike, and no property singles one out. Deadlock is
checked everywhere but in `geometry`, whose specification ends after its single check.

Runs that end in a violation show a sentence of the documentation that the code
does not keep, where it takes several steps or a particular size to see it. None
of them uses a fault.

| Run | Sentence | What happens |
|---|---|---|
| `delete_frees` | `fs.c:319` | the last, partly filled block stays allocated |
| `root_remount` | `fs.c:186` | entries behind the block are lost |
| `fat_loaded` | `fs.c:165` | FAT blocks overlap in memory |

Other sentences the code does not keep are visible from a single line of it, or
from a property that holds, and the models translate it as it stands. They have no
run of their own:

| Sentence | Line | What the models do |
|---|---|---|
| `fs.h:97-98`, `fs_open` fails if there is no such file | `fs.c:374-377` | `OpenRefused`: the names the directory has are refused, the others opened |
| `fs.h:52`, `fs_create` makes one file; `fs.c:276` | `fs.c:278-287` | `FillFree`: every free entry is given the name |
| `fs.h:57-59`, it fails if the file exists already | `fs.c:270` | `Matches` ignores `isEmpty`: a deleted name is still taken |
| `fs.h:57-59`, or if the directory is full | `fs.c:279` | `FreeEntries`: only deleted entries are free, none of the stored ones on a fresh disk |
| `fs.h:57`, or if nothing is mounted | `fs.c:191` | `Dangling`: freed memory passes for a mounted disk |
| `fs.h:71-72`, `fs_delete` fails if there is no such file | `fs.c:332` | it returns 0 |
| `fs.h:34-35`, `fs_umount` fails while descriptors are open | `fs.c:178` | `fs_umount` never looks at them |
| `fs.h:136-138`, `fs_lseek` fails on an invalid descriptor | `fs.c:442` | exactly the invalid ones are accepted |
| `fs.c:74`, the counter counts the open files | `fs.c:408-420` | `CloseEntry` leaves the count as it is |
| `apps/scripts/README.md:68-69`, a script runs on a disk of 100 blocks | `fs.c:96` | `FatCount` is 0 there: by `FormattedAccepted` the disk is refused |
| `disk.h:17-18`, `block_disk_open` fails only on a file that cannot be opened or a disk already open | `disk.c:53` | `block_disk_open`: failed opens keep the host's descriptors (`leaked`), until `Granted` is empty |
| `disk.h:45-46`, `block_write` fails if the write fails | `disk.c:109` | a short write is a success |
| `disk.h:58-59`, `block_read` fails on an inaccessible block | `disk.c:137` | a read behind the end is a success |
| `test_fs.c:429-431`, `add` fills the file it creates | `fs.c:374-377` | it cannot open what it has created, and leaves it empty |

## 5. What holds

* **Chains** (`MemoryChainsIntact`, `ImageChainsIntact`). Although create makes
  twins and delete frees too little, no file ever has a block that is free,
  missing or another file's. That rests on delete clearing the size of *all*
  entries of a name; `DeleteLeavesAtMostOneBlock` bounds what is lost: of every
  stored file of the name, the last match or not, at most one block, unless an entry
  behind the root block has decided what is freed.
* **Twins** (`TwinsAgree`). Which of several *whole* entries of a name is looked at
  makes no difference. An entry behind them may differ, and `fs_delete` takes the
  last.
* **Names** (`NamesNeverMultiply`). Deleted names stay, new files come in twins of
  one name, and only deleted entries are free, so no sequence of calls, mounts and
  kills leaves more different names in the whole entries of a disk than it was made
  with, the empty name of unused entries counted as one. That bounds names, not files:
  on a fresh disk none of these entries is free, but `fs_delete("")` frees them all,
  and the next `fs_create` then makes a file of each, under one name.
* **Descriptors** (`RefinesIssuer`, `OpenAtStart`, `OpenFilesAreEmpty`). Numbers
  are handed out once in the life of a process, open descriptors stand at 0, and on
  the disk they were opened on they refer to nothing that holds data. They survive
  `fs_umount` as mere names, and on a disk mounted after it the name may be that of a
  file with data. These are consequences of the negated tests, which later
  changes to `fs_open` and `fs_close` will have to replace by something else.
* **Write-back** (`FatWrittenBack`, `RootWrittenBack`). Each disk is a store of its
  own, whichever a process mounts in turn. The overlapping blocks are
  read and written in the same overlapping way, so what the library wrote it reads
  back, for any number of blocks. Once `fs_umount` has returned the disk has all of
  it; a kill leaves every entry either old or new.
  What another program wrote to several FAT blocks is not read as it stands
  (`fat_loaded`).
* **Disk** (`DiskHeld`). The disk is open exactly while the library has memory
  for it; after a superblock was refused no later mount of the process works.
* **Geometry** (`AcceptedLayout`, `FormattedAccepted`). Accepted regions fill the
  disk without overlap; of the formatter's disks only those are accepted at whose
  size the two roundings agree and fit 16 bits.
* **Block device** (`DescriptorsAccounted`, `CountIsImage`, `WritesStayInBlock`).
  Every descriptor of the host is that of the open disk or lost to a failed open;
  the block count is right until another process replaces the image; a write
  reaches no unit outside its block even then.
* **Library on the block device** (`ImplementsFileSystem`, `FileChainsIntact`,
  `OnlyMetadataWritten`).
  What `FileSystem` does in one step for a mount, and with a flag for the disk,
  is what `fs.c` and `disk.c` come to together: a kill in the middle of `fs_mount`
  amounts to one before it, closing the disk never fails, and after a failed read of
  the superblock the pointer and the open disk are those of a refused one, or a
  superblock left in memory lets the mount go on, even on a disk whose own would have
  been refused. Whatever fails, the superblock, the data blocks and all files but the
  disk that is mounted stay as they are; and unless a transfer failed or an unmount
  was cut off, the chains in the host's files are whole.
* **Several processes** (`OverlappingLookersKeepDisk`, `MixturesOnlyFree`,
  `SeparateTransfersKeepChains`, `UndisturbedSaveIsWhole`). Processes that only look
  may overlap as they like. If write-backs keep clear of other processes' mounts and
  unmounts, sessions may overlap: the last unmount wins and edits are lost, but
  every chain on the disk is whole. If not, chains break, yet only in one
  direction: FAT entries become free and files lose their data, and no file gets
  blocks of another, since `fs_write` is a stub and nothing is ever allocated. That
  will not outlive an `fs_write` that allocates. An unmount that gets to the root
  block and met no write of another process leaves its whole copy, whatever mixture
  was there before.
* **Driver** (`FlagAgrees`, `UmountMeetsMount`, `EndsUnmounted`, `RmIsDurable`,
  `LookingKeepsDisk`). `fs_umount` trusts its callers, and the driver deserves it
  but for scripts that fail while nothing is mounted. A command that ends by itself leaves a disk
  mounted in two cases only: a `cat` that has just been told its file is empty, and a
  script whose second mount has just failed. What `rm` deleted is
  gone from the disk it was given, and `stat`, `cat`, `ls` and `info`, which write all metadata
  back, change nothing on any disk even when they are killed.
* **Demos** (`DemosKeepDisk`). None of the three ever writes a block of any disk: the writer
  cannot open what it has created, the reader opens only what is not there and reads
  nothing, the tester unmounts nothing, and all exit with the disk mounted.
* **Progress** (`UnmountReleasesDisk`, `CommandsEnd`). An unmount that has begun
  ends with the disk released, and every command but a script ends. The run has no
  failing transfers; `fs_umount` looks at no result of its writes.

**Fairness.** `TestFairSpec` adds weak fairness of `Proceeds`: the steps the driver
takes of its own accord, which are the calls of a command, the rounds of
`fs_umount` and the exit. The process has one thread, no call waits for anything,
and the loop of `fs_unmount` makes at most 127 rounds, so it goes on unless it is
killed, which `Killed` allows at any time. The lines of a script are not fair: a
script may go on for ever or stop anywhere.

## 6. Proofs

All theorems are checked by tlapm with SMT, Zenon and PTL, from the named
assumptions on the constants (`FdAssumption`, `MetadataAssumption`,
`FileSystemAssumption`, `GeometryAssumption`, `NamesAssumption`,
`BlockDiskAssumption`, `LayerAssumption`, `LibraryAssumption`, `SharedDiskAssumption`,
`TestFsAssumption`), which say that sizes are natural numbers, that choices come from
the right sets, and of `LibraryOnDisk` that each disk is as large as its superblock
says (section 3). The number of disks is not bounded. A theorem that
needs more says so in its ASSUME: `Faults = {}` where a failed transfer really
breaks the property, or one of six conditions on the disks a first process finds,
which some other program has made:

| Condition | Says | Needed because |
|---|---|---|
| `TwinsOnImages` | twins on a disk agree | mounting shows what is there |
| `ChainsOnImages` | chains are whole once the disk is loaded | same; the disk `LongFat` of `write_back`, whose run checks no chains, is one where they are not |
| `ShortOnImages` | of several stored entries of one name none has more than one block | a delete frees the blocks of one of them |
| `FlagsOnImages` | entries of one name that are stored whole agree on whether they are free | `fs_create` fills the free ones: if a name has one of each kind, filling the free one adds a name and loses none |
| `IntactAtOutset` | the blocks of `LibraryOnDisk`'s disks hold what belongs in them, and their chains are whole | the same for the host's files |
| `ChainsAtOutset` | `SharedDisk`'s constants describe a disk with whole chains | the same for several processes |

* `FsMetadataProofs`. Each operator on FAT and directory yields a FAT or directory;
  the maximum of a non-empty bounded set is a member of it. The lemma `WriteThenLoad`
  is the heart of what is known about overlapping blocks: writing the blocks of an
  array and loading them again gives the array. The rest is about `Walk`, a recursive
  function over a chain. What it computes is proved without induction over data:
  if the walks of two FATs differed somewhere, there would be a shortest difference
  (`WFMin` of the natural numbers), and one step before it they would agree
  (`WalkExists`, `WalksAgree`, `WalkPrefix`, `WalkedKept`). From these follow what
  the proofs about chains use: two FATs that read alike along a chain have the same
  chain (`SameChains`), and freeing blocks of one file leaves the chain of another
  (`FreedInChain`, `ChainKept`).
* `FileSystemProofs`. First the table: `FdInv` joins types, "only issued entries are
  named", "named entries stand at 0" and "used iff named", and gives
  `FdTypeOKHolds`, `OnlyIssuedAreNamedHolds`, `OpenAtStartHolds`,
  `UsedIffNamedHolds` and the refinement `TableRefinesIssuer`. Then the library:
  `FsInv` joins `TypeOK`, `DiskHeld`, `FdInv` and
  `NoHandleBeforeMount`. The last is what makes it inductive: `fs_lseek` stores an
  offset whenever `file_system` is NULL, which would reach an open descriptor, but
  none is open before the first mount. Hence `TypeOKHolds`, `DiskHeldHolds`,
  `TableStepsHold` (the library takes only the table's own steps) and, through it,
  `LibraryRefinesIssuer`. All of them for every set of faults. Last the write-back:
  `StoreInv` says which blocks of the disk already equal
  those in memory, and that entries no block covers are zero, as long as nothing is
  `damaged`; with `WriteThenLoad` that is enough. It holds for every set of faults
  (`StoreInvariance`); `FatWrittenBackHolds` and
  `RootWrittenBackHolds` are stated under `Faults = {}`, since a short write or a
  failed read breaks both.
* `DirectoryProofs`. `DirectoryInv` joins `TwinsAgree`, that twins stay short if they
  were, and `OpenFilesAreEmpty`. It is inductive because storing and loading keep the fields both are about on every
  entry of the root block, create and delete give all entries of a name the same
  fields, and a name is opened only while no entry of the disk has it; mounting another
  disk leaves this one as it was. `TwinsAgreeHolds` assumes
  `TwinsOnImages`; `OpenFilesAreEmptyHolds` assumes nothing. Both for every
  set of faults. `ChainInv` says that, as long as nothing is `damaged`, chains are whole in
  memory, and on the disk unless `fs_umount` is under way and has written a block; a
  kill then is damage. By `StoreInv` the disk has the memory's chains once the last
  block is written. It gives `MemoryChainsIntactHolds`, `ImageChainsIntactHolds` and, with it,
  `DeleteLeavesAtMostOneBlockHolds`, for every set of faults and under
  `ChainsOnImages`, the last under `ShortOnImages` too: the blocks freed are those of
  one entry of the name, and each of the others has at most one. `NamesInv` says that entries of a
  name agree on whether they are free, and that the memory has no more names than the
  disk: `fs_create` either fills no whole entry, or replaces all entries of the deleted
  names by the new one. It gives `NamesNeverMultiplyHolds` under `FlagsOnImages` and
  `Faults = {}`.
* `TestFsProofs`. `ProgramsAreCallers` says that the driver and the demos are
  callers of the library: `TestSpec => Spec`, so all theorems about `FileSystem` are
  theorems about its programs. `JobInv` says for each kind of program where it is
  and what the library's state is there: the flag and the pointer, whether the disk
  is open, which calls remain. It gives `FlagAgreesHolds`, `UmountMeetsMountHolds`,
  `EndsUnmountedHolds` and `DemosKeepDiskHolds`, for every set of faults. `RmInv`
  adds that the whole entries of the name `rm` was given are empty and free in memory
  from its delete on, and on the disk once it has unmounted; `LookInv` that memory and
  disk agree while a command only looks. With `StoreInv`
  they give `RmIsDurableHolds` and `LookingKeepsDiskHolds`, under `Faults = {}`.
* `BlockDiskProofs`. `DiskInv` joins the device's invariants and adds that the open
  disk is one of the files. The arithmetic is in three lemmas: `StoredFile` (what a
  write leaves of a file), `FetchedIsBuffer`, and `BlockFits` (a block below the
  count ends inside a file of whole blocks), on which `CountIsImageHolds` rests.
  `WritesStayInBlockHolds` does not use the count at all, which is why it holds of
  replaced images too.
* `LibraryOnDiskProofs`. `LayerInv` joins four parts: the host's files keep
  their lengths (`FilesKept`); the open descriptor
  stands for a file and its count is the file's (`DeviceWhole`); where the process is
  in `fs_mount` and `fs_umount`, and that what it has open there is the disk it
  has mounted (`Phases`); and that the FAT a mount has put together so far is the one of a mount
  which fails to read all the blocks that are left (`LoadingInv`). The last is what
  makes reading block by block come to `LoadFat`: one more read removes one block
  from those not read (`OneMoreBlock`), a failed read leaves the array as it was,
  and the read of the root block finds none left. `Places` and `PlacesDiffer` say
  that blocks lie apart in the file, and `StoredBlock` that a write of `m` units
  changes these and no others. From it follow `OnlyMetadataWrittenHolds` and, since
  a write into the host's file then is a write of some first entries of one block of
  the image (`FatImageOver`, `RootImageOver`), the two writing steps of the
  refinement: what FileSystem calls `m` entries transferred is all of them if
  the image is as if the write had been whole, and as many as were written
  otherwise. `ImplementsFileSystemHolds` has one lemma per action; opening, reading
  the FAT and closing are steps `FileSystem` does not see. It needs neither an
  assumption on the faults nor one on what the disks hold or how many they are; of `LibraryAssumption` it
  uses only that the heap is full of entries. The refinement carries what is proved
  of `FileSystem` to the host's files: `P` is the library with its theorems,
  `SameNext` says that it is the library `LibraryOnDisk` names, and
  `FileChainsIntactHolds` follows from the chain theorems of `DirectoryProofs` under
  `IntactAtOutset`. Any other of them carries over the same way.
* `SharedDiskProofs`, for any number of processes. `FatInv`: an entry of the FAT
  that is loaded, in memory or from the disk, is free or as it was at the outset,
  and as it was while no one has edited. `RootInv` says the same of extents and
  entries of the directory. Neither needs to know which process wrote what, because
  each step only moves values or frees them; that is the argument for
  `MixturesOnlyFreeHolds` and `OverlappingLookersKeepDiskHolds`. `SaveInv`: the
  blocks an undisturbed unmount has written are those of its copy; with
  `WriteThenLoad` it gives `UndisturbedSaveIsWholeHolds`. `TransferInv` is about
  transfers that keep apart: while nothing is damaged, nobody else saves or mounts
  while one process saves; every complete copy has intact chains, and so has the disk
  unless a save has written some of its blocks; and what a mount has loaded so far is
  what the disk still has. It gives `SeparateTransfersKeepChainsHolds` under
  `ChainsAtOutset`.
* `DiskGeometryProofs`. `AcceptedLayoutHolds`, and `FormattedAcceptedHolds`, whose
  core is the lemma that the two roundings agree exactly when at most `q + 2`
  entries of `q` FAT blocks are left over.

Only model-checked: the two liveness properties (`UnmountReleasesDisk`,
`CommandsEnd`), which are out of the prover's
reach, and the runs that end in a violation. Every other property of a run is a
theorem.

## 7. Not modelled

* What `fs_info` and `fs_ls` print. Earlier versions of the library, which the
  Makefile does not build, and the two binaries without source, but for the layout
  `fs_make.x` gives a disk.
* Disks with a FAT of no blocks. `sys_error_check` accepts them below 2048
  blocks; the formatter makes none, and `fs_delete` would index an empty array.
* Disks of different geometry in one process. All disks have the same number and size
  of FAT blocks, as those have that the formatter makes of one size; which sizes are
  accepted is in `DiskGeometry`.
* Power loss. A write that `write(2)` has accepted is taken to be on the disk;
  `disk.c` never calls `fsync`.
* Failed and short transfers in `SharedDisk`, and descriptors there: they belong to
  one process and are in `FileSystem` and `LibraryOnDisk`.
* File contents: `fs_read` and `fs_write` are stubs and no data block is touched.
* What scripts compare and print, and lines of a script with missing arguments,
  which pass NULL to `strcmp` or `atoi` and end the process, as `Killed` may at any
  time.

## 8. Plan

Done: descriptor table; metadata; library; write-back; superblock check; block
device; driver and demos; the library on the block device; several processes;
their runs; the proofs of section 6.

Next: failed and short transfers in `SharedDisk`, with the proofs of its section.
