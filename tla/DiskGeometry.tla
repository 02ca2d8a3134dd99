---------------------------- MODULE DiskGeometry ----------------------------
(***************************************************************************)
(* Which disks fs_mount accepts: the checks sys_error_check() makes on a   *)
(* superblock, with the integer widths of its fields, against the number   *)
(* of blocks of the disk image.  The formatter, fs_make.x, is not among    *)
(* the sources; Formatted states the layout it gives a disk.               *)
(***************************************************************************)
EXTENDS Integers

BLOCK_SIZE == 4096

\* Conversions to the types of the superblock's fields.
Int8(x) == ((x + 128) % 256) - 128
Int16(x) == ((x + 32768) % 65536) - 32768

Superblock ==
    [dsk_blck_amount : -32768 .. 32767, root_dir_index : -32768 .. 32767,
     data_blck_index : -32768 .. 32767, data_blck_amount : -32768 .. 32767,
     fat_blck_amount : -128 .. 127]

\* A disk image: its blocks, its superblock, whether the name it is mounted
\* under agrees with the signature as far as the name goes, and the number of
\* data blocks the formatter was asked for (0: not the formatter's).
Disk == [blocks : Nat, sp : Superblock, named : BOOLEAN, asked : Nat]

CONSTANT Disks          \* the disks that may be mounted

ASSUME GeometryAssumption == Disks \subseteq Disk

VARIABLES disk, verdict     \* the disk at hand; 1 before the check ran

geometryVars == <<disk, verdict>>

----------------------------------------------------------------------------
(* The formatter: one FAT entry for each data block, rounded up to whole   *)
(* blocks, between the superblock and the root directory.                  *)

FatBlocksFor(n) == (n * 2 + BLOCK_SIZE - 1) \div BLOCK_SIZE

Formatted(n, named) ==
    LET fat == FatBlocksFor(n) IN
    [blocks |-> n + fat + 2,
     sp |-> [dsk_blck_amount |-> Int16(n + fat + 2),
             root_dir_index |-> Int16(fat + 1),
             data_blck_index |-> Int16(fat + 2),
             data_blck_amount |-> Int16(n),
             fat_blck_amount |-> Int8(fat)],
     named |-> named,
     asked |-> n]

----------------------------------------------------------------------------
(* sys_error_check().                                                      *)

FatCount_RoundedUp(blocks) == (blocks * 2 + BLOCK_SIZE - 1) \div BLOCK_SIZE

\* disk_fat_count: computed from all blocks of the disk, rounded down.
FatCount(blocks) == (blocks * 2) \div BLOCK_SIZE

AmountsAgree(blocks, sp) ==
    /\ sp.dsk_blck_amount = blocks
    /\ sp.fat_blck_amount = FatCount(blocks)
    /\ sp.data_blck_amount = blocks - (2 + FatCount(blocks))

IndexesAgree_RootOnly(blocks, sp) == sp.root_dir_index = FatCount(blocks) + 1

IndexesAgree(blocks, sp) ==
    /\ sp.root_dir_index = FatCount(blocks) + 1
    /\ sp.data_blck_index = FatCount(blocks) + 2

Accepts(d) ==
    /\ d.named
    /\ AmountsAgree(d.blocks, d.sp)
    /\ IndexesAgree(d.blocks, d.sp)

GeometryInit == disk \in Disks /\ verdict = 1

sys_error_check ==
    /\ verdict = 1
    /\ verdict' = IF Accepts(disk) THEN 0 ELSE -1
    /\ UNCHANGED disk

GeometrySpec == GeometryInit /\ [][sys_error_check]_geometryVars

----------------------------------------------------------------------------
\* The regions fs_mount and its successors use.
FatRegion(sp) == 1 .. sp.fat_blck_amount
DataRegion(sp) ==
    sp.data_blck_index .. sp.data_blck_index + sp.data_blck_amount - 1

\* On a disk that is accepted the superblock, the FAT, the root directory and
\* the data blocks fill the disk without touching each other, so no block that
\* fs_mount reads or fs_umount writes is out of bounds or used twice; the one
\* exception is a disk of fewer than two blocks, whose superblock has to claim
\* a negative number of data blocks.
AcceptedLayout ==
    verdict = 0 /\ disk.sp.data_blck_amount >= 0 =>
        LET sp == disk.sp IN
        /\ {0} \cup FatRegion(sp) \cup {sp.root_dir_index} \cup DataRegion(sp)
              = 0 .. disk.blocks - 1
        /\ sp.root_dir_index \notin FatRegion(sp) \cup DataRegion(sp) \cup {0}
        /\ FatRegion(sp) \cap DataRegion(sp) = {}
        /\ 0 \notin DataRegion(sp)

\* sys_error_check() derives the FAT from all blocks and rounds down, the
\* formatter from the data blocks and rounds up.  They agree only when at most
\* q + 2 of the entries of the q FAT blocks are left over, and the number of
\* blocks fits the superblock's 16 bits.
AgreedSize(n) ==
    LET q == FatBlocksFor(n) IN
    /\ q * (BLOCK_SIZE \div 2) - n <= q + 2
    /\ n + q + 2 <= 32767

\* A formatted disk is accepted exactly when its size is one of those.
FormattedAccepted ==
    disk.asked > 0 /\ disk = Formatted(disk.asked, TRUE) /\ verdict # 1 =>
        (verdict = 0 <=> AgreedSize(disk.asked))
=============================================================================
