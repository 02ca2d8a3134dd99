--------------------------- MODULE MCDiskGeometry ---------------------------
(***************************************************************************)
(* Disks for DiskGeometry: what the formatter makes, around every multiple *)
(* of the entries a FAT block has and around the limit of 16 bits, and     *)
(* disks of sizes at the edges with each superblock field off by at most   *)
(* one from what sys_error_check() computes.                               *)
(***************************************************************************)
EXTENDS DiskGeometry, TLC

DataCounts ==
    {1, 2, 100} \cup
    UNION {{n \in 2048 * q - 25 .. 2048 * q + 3 : n > 0} : q \in 1 .. 16}

DiskSizes == {0, 1, 2, 3, 100, 2047, 2048, 2049, 4095, 4096, 4097, 32767}

NearSuperblocks(blocks) ==
    LET fat == FatCount(blocks)
        Near(x) == x - 1 .. x + 1
    IN  {sp \in [dsk_blck_amount : Near(blocks), root_dir_index : Near(fat + 1),
                 data_blck_index : Near(fat + 2),
                 data_blck_amount : Near(blocks - fat - 2),
                 fat_blck_amount : Near(fat)] : sp \in Superblock}

MCDisks ==
    {Formatted(n, named) : n \in DataCounts, named \in BOOLEAN} \cup
    UNION {{[blocks |-> blocks, sp |-> sp, named |-> TRUE, asked |-> 0] :
               sp \in NearSuperblocks(blocks)} : blocks \in DiskSizes}
=============================================================================
