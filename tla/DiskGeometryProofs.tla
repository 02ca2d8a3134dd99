------------------------- MODULE DiskGeometryProofs -------------------------
(***************************************************************************)
(* Proofs about the geometry check, for every set of disks.                *)
(***************************************************************************)
EXTENDS DiskGeometry, TLAPS

\* A verdict is the one sys_error_check() computes, on a well-typed disk.
GeometryInv ==
    /\ disk \in Disk
    /\ verdict \in {0, 1, -1}
    /\ verdict # 1 => (verdict = 0 <=> Accepts(disk))

LEMMA GeometryInvariance == GeometrySpec => []GeometryInv
<1>1. GeometryInit => GeometryInv
  BY GeometryAssumption DEF GeometryInit, GeometryInv
<1>2. GeometryInv /\ [sys_error_check]_geometryVars => GeometryInv'
  <2> SUFFICES ASSUME GeometryInv, [sys_error_check]_geometryVars
               PROVE  GeometryInv'
    OBVIOUS
  <2>1. CASE sys_error_check
    <3>1. disk' = disk
      BY <2>1 DEF sys_error_check
    <3>2. Accepts(disk)' <=> Accepts(disk)
      BY <3>1 DEF Accepts
    <3>3. verdict' = IF Accepts(disk) THEN 0 ELSE -1
      BY <2>1 DEF sys_error_check
    <3> QED
      BY <3>1, <3>2, <3>3 DEF GeometryInv
  <2>2. CASE UNCHANGED geometryVars
    BY <2>2 DEF geometryVars, GeometryInv, Accepts
  <2> QED
    BY <2>1, <2>2
<1> QED
  BY <1>1, <1>2, PTL DEF GeometrySpec

----------------------------------------------------------------------------
(* The arithmetic behind the two properties.                               *)

\* FatCount is the number of whole FAT blocks the entries of all blocks fill.
LEMMA FatCountBounds ==
  ASSUME NEW blocks \in Nat
  PROVE  /\ FatCount(blocks) \in Nat
         /\ FatCount(blocks) * 2048 <= blocks
         /\ blocks < (FatCount(blocks) + 1) * 2048
  BY DEF FatCount, BLOCK_SIZE

\* FatBlocksFor is the least number of FAT blocks with n entries.
LEMMA FatBlocksForBounds ==
  ASSUME NEW n \in Nat
  PROVE  /\ FatBlocksFor(n) \in Nat
         /\ n <= FatBlocksFor(n) * 2048
         /\ FatBlocksFor(n) * 2048 < n + 2048
  BY DEF FatBlocksFor, BLOCK_SIZE

LEMMA Mod16 ==
  ASSUME NEW y \in Nat
  PROVE  /\ y % 65536 \in Int /\ 0 <= y % 65536 /\ y % 65536 <= 65535
         /\ y < 65536 => y % 65536 = y
  OBVIOUS

LEMMA Int16InRange ==
  ASSUME NEW x \in Nat
  PROVE  /\ Int16(x) \in Int /\ Int16(x) <= 32767
         /\ x <= 32767 => Int16(x) = x
<1> DEFINE r == (x + 32768) % 65536
<1>1. x + 32768 \in Nat
  OBVIOUS
<1>2. r \in Int /\ r <= 65535 /\ (x + 32768 < 65536 => r = x + 32768)
  BY <1>1, Mod16
<1>3. Int16(x) = r - 32768
  BY DEF Int16
<1> HIDE DEF r
<1> QED
  BY <1>2, <1>3

LEMMA Int8OfSmall ==
  ASSUME NEW x \in 0 .. 127
  PROVE  Int8(x) = x
  BY DEF Int8

\* With a size that fits, both roundings agree exactly when few entries of the
\* last FAT block are left over.
LEMMA RoundingsAgree ==
  ASSUME NEW n \in Nat, n + FatBlocksFor(n) + 2 <= 32767
  PROVE  FatCount(n + FatBlocksFor(n) + 2) = FatBlocksFor(n)
            <=> FatBlocksFor(n) * 2048 - n <= FatBlocksFor(n) + 2
<1> DEFINE q == FatBlocksFor(n)
<1> DEFINE f == FatCount(n + q + 2)
<1>1. q \in Nat /\ n <= q * 2048 /\ q * 2048 < n + 2048
  BY FatBlocksForBounds
<1>2. n + q + 2 \in Nat
  BY <1>1
<1>3. f \in Nat /\ f * 2048 <= n + q + 2 /\ n + q + 2 < (f + 1) * 2048
  BY <1>2, FatCountBounds
<1>4. q <= 17
  BY <1>1
<1> HIDE DEF q, f
<1>5. f = q <=> q * 2048 - n <= q + 2
  BY <1>1, <1>3, <1>4
<1> QED
  BY <1>5 DEF q, f

\* A disk the formatter made for n data blocks passes every comparison when
\* the sizes agree, and fails one when they do not.
LEMMA FormattedDisk ==
  ASSUME NEW n \in Nat \ {0}
  PROVE  Accepts(Formatted(n, TRUE)) <=> AgreedSize(n)
<1> DEFINE q == FatBlocksFor(n)
<1> DEFINE d == Formatted(n, TRUE)
<1>1. q \in Nat /\ n <= q * 2048 /\ q * 2048 < n + 2048
  BY FatBlocksForBounds
<1>2. /\ d.named = TRUE /\ d.blocks = n + q + 2
      /\ d.sp.dsk_blck_amount = Int16(n + q + 2)
      /\ d.sp.root_dir_index = Int16(q + 1)
      /\ d.sp.data_blck_index = Int16(q + 2)
      /\ d.sp.data_blck_amount = Int16(n)
      /\ d.sp.fat_blck_amount = Int8(q)
  BY DEF Formatted
<1>3. AgreedSize(n) <=> q * 2048 - n <= q + 2 /\ n + q + 2 <= 32767
  BY DEF AgreedSize, BLOCK_SIZE
<1> HIDE DEF q, d
<1>4. ASSUME n + q + 2 <= 32767
      PROVE  Accepts(d) <=> q * 2048 - n <= q + 2
  <2>1. q \in 0 .. 127
    BY <1>1, <1>4
  <2>2. n + q + 2 \in Nat /\ q + 1 \in Nat /\ q + 2 \in Nat /\ n \in Nat
    BY <1>1
  <2>3. q + 1 <= 32767 /\ q + 2 <= 32767 /\ n <= 32767
    BY <1>1, <1>4
  <2>4. Int16(n + q + 2) = n + q + 2
    BY <1>4, <2>2, Int16InRange
  <2>5. Int16(q + 1) = q + 1 /\ Int16(q + 2) = q + 2 /\ Int16(n) = n
    BY <2>2, <2>3, Int16InRange
  <2>6. Int8(q) = q
    BY <2>1, Int8OfSmall
  <2>7. FatCount(n + q + 2) = q <=> q * 2048 - n <= q + 2
    BY <1>4, RoundingsAgree DEF q
  <2>8. FatCount(n + q + 2) \in Nat
    BY <2>2, FatCountBounds
  <2>9. Accepts(d) <=> FatCount(n + q + 2) = q
    BY <1>1, <1>2, <2>4, <2>5, <2>6, <2>8 DEF Accepts, AmountsAgree, IndexesAgree
  <2> QED
    BY <2>7, <2>9
<1>5. ASSUME ~(n + q + 2 <= 32767)
      PROVE  ~Accepts(d)
  <2>1. n + q + 2 \in Nat
    BY <1>1
  <2>2. Int16(n + q + 2) # n + q + 2
    BY <1>5, <2>1, Int16InRange
  <2> QED
    BY <1>2, <2>2 DEF Accepts, AmountsAgree
<1>6. Accepts(d) <=> q * 2048 - n <= q + 2 /\ n + q + 2 <= 32767
  BY <1>4, <1>5
<1>7. Accepts(d) <=> AgreedSize(n)
  BY <1>3, <1>6
<1> QED
  BY <1>7, Zenon DEF d

----------------------------------------------------------------------------
\* fs.c: sys_error_check() accepts a formatted disk exactly when its number
\* of data blocks is one of those for which both roundings agree.
THEOREM FormattedAcceptedHolds == GeometrySpec => []FormattedAccepted
<1>1. GeometryInv => FormattedAccepted
  <2> SUFFICES ASSUME GeometryInv, disk.asked > 0,
                      disk = Formatted(disk.asked, TRUE), verdict # 1
               PROVE  verdict = 0 <=> AgreedSize(disk.asked)
    BY DEF FormattedAccepted
  <2>1. disk.asked \in Nat \ {0}
    BY DEF GeometryInv, Disk
  <2>2. Accepts(disk) <=> AgreedSize(disk.asked)
    BY <2>1, FormattedDisk
  <2> QED
    BY <2>2 DEF GeometryInv
<1> QED
  BY <1>1, GeometryInvariance, PTL

\* fs.c: on an accepted disk the regions fs_mount and fs_umount use fill the
\* disk and do not touch each other.
THEOREM AcceptedLayoutHolds == GeometrySpec => []AcceptedLayout
<1>1. GeometryInv => AcceptedLayout
  <2> SUFFICES ASSUME GeometryInv, verdict = 0, disk.sp.data_blck_amount >= 0
               PROVE  /\ {0} \cup FatRegion(disk.sp) \cup {disk.sp.root_dir_index}
                            \cup DataRegion(disk.sp) = 0 .. disk.blocks - 1
                      /\ disk.sp.root_dir_index \notin
                            FatRegion(disk.sp) \cup DataRegion(disk.sp) \cup {0}
                      /\ FatRegion(disk.sp) \cap DataRegion(disk.sp) = {}
                      /\ 0 \notin DataRegion(disk.sp)
    BY DEF AcceptedLayout
  <2> DEFINE f == FatCount(disk.blocks)
  <2> DEFINE n == disk.sp.data_blck_amount
  <2>1. disk.blocks \in Nat
    BY DEF GeometryInv, Disk
  <2>2. f \in Nat
    BY <2>1 DEF FatCount, BLOCK_SIZE
  <2>3. Accepts(disk)
    BY DEF GeometryInv
  <2>4. /\ disk.sp.fat_blck_amount = f /\ disk.sp.root_dir_index = f + 1
        /\ disk.sp.data_blck_index = f + 2 /\ n = disk.blocks - (2 + f)
    BY <2>3 DEF Accepts, AmountsAgree, IndexesAgree
  <2>5. n \in Nat /\ disk.blocks = n + f + 2
    BY <2>1, <2>2, <2>4
  <2>6. FatRegion(disk.sp) = 1 .. f /\ DataRegion(disk.sp) = f + 2 .. n + f + 1
    BY <2>2, <2>4, <2>5 DEF FatRegion, DataRegion
  <2> HIDE DEF f, n
  <2> DEFINE sp == disk.sp
  <2>7. {0} \cup FatRegion(sp) \cup {sp.root_dir_index} \cup DataRegion(sp)
            = 0 .. disk.blocks - 1
    <3>1. {0} \cup (1 .. f) \cup {f + 1} \cup (f + 2 .. n + f + 1)
              = 0 .. n + f + 1
      BY <2>2, <2>5
    <3>2. disk.blocks - 1 = n + f + 1
      BY <2>2, <2>5
    <3> QED
      BY <2>4, <2>6, <3>1, <3>2
  <2>8. sp.root_dir_index \notin FatRegion(sp) \cup DataRegion(sp) \cup {0}
    BY <2>2, <2>4, <2>5, <2>6
  <2>9. FatRegion(sp) \cap DataRegion(sp) = {} /\ 0 \notin DataRegion(sp)
    BY <2>2, <2>5, <2>6
  <2> QED
    BY <2>7, <2>8, <2>9
<1> QED
  BY <1>1, GeometryInvariance, PTL
=============================================================================
