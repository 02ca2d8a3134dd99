------------------------- MODULE LibraryOnDiskProofs -------------------------
(***************************************************************************)
(* The library on the block device implements FileSystem, and writes       *)
(* metadata only: proofs for every geometry, every set of files, whichever *)
(* of them are disks, and every set of faults.                             *)
(***************************************************************************)
EXTENDS LibraryOnDisk, WellFoundedInduction, TLAPS

DiskFile == files[host[disk.fd]]

\* The files keep their lengths.
FilesKept ==
    /\ DOMAIN files = DOMAIN Outset
    /\ \A p \in DOMAIN files :
          Len(files[p]) = Len(Outset[p]) /\ DOMAIN files[p] = 1 .. Len(files[p])

\* The open disk is a file, and its block count is the file's.
DeviceWhole ==
    /\ host \in [HostFds -> Paths \cup {NoPath}]
    /\ disk \in [fd : HostFds \cup {D!INVALID_FD}, bcount : Nat]
    /\ D!IsOpen => /\ host[disk.fd] \in DOMAIN files
                   /\ disk.bcount = D!BlocksOf(D!OpenImage)

\* What is open is a disk: a file that may hold a file system.
OnDisk == D!IsOpen /\ host[disk.fd] \in Disks

\* Where the process is in fs_mount and fs_umount, and what it has open there.
Phases ==
    /\ mounting \in {NotMounting} \cup (0 .. root_dir_index)
    /\ writeback \in {C!NotWriting} \cup (0 .. FatBlocks)
    /\ closing \in BOOLEAN /\ diskname \in Disks
    /\ mounting # NotMounting =>
          D!IsOpen /\ ~closing /\ ~C!Mounted /\ C!Idle /\ (mounting > 0 => OnDisk)
    /\ C!Mounted => OnDisk /\ host[disk.fd] = diskname /\ ~closing
    /\ writeback # C!NotWriting => C!Mounted
    /\ closing => D!IsOpen

\* The FAT fs_mount has so far is that of a mount which fails to read the rest.
LoadingInv ==
    mounting > 0 =>
        /\ loading.missed \subseteq 0 .. mounting - 2
        /\ loading.missed # {} => "io" \in DiskFaults
        /\ loading.fat = C!LoadFat(ImageOf(DiskFile).fat,
                                   loading.missed \cup (mounting - 1 .. FatBlocks - 1))

LayerInv == FilesKept /\ DeviceWhole /\ Phases /\ LoadingInv

----------------------------------------------------------------------------
(* Places in the file.                                                     *)

LEMMA LayerConstants ==
  /\ FatBlocks \in Nat /\ FatBlocks > 0 /\ PerBlock \in Nat /\ PerBlock > 0
  /\ NEntries \in Nat /\ Whole \in Nat /\ Whole < NEntries /\ Whole < PerBlock
  /\ root_dir_index = FatBlocks + 1
  /\ D!INVALID_FD = -1 /\ D!INVALID_FD \notin HostFds
  /\ C!NotWriting = -1 /\ NotMounting = -1
  BY LayerAssumption DEF root_dir_index, D!INVALID_FD, C!NotWriting, NotMounting

\* The units of the blocks that are read and written.
Described == (FatBlocks + 2) * PerBlock

\* Blocks lie one behind the other.
LEMMA BlocksApart ==
  ASSUME NEW b \in Nat, NEW c \in Nat, b < c
  PROVE  b * PerBlock + PerBlock <= c * PerBlock
<1>1. (b + 1) * PerBlock <= c * PerBlock
  BY LayerConstants
<1> QED
  BY <1>1, LayerConstants

LEMMA Places ==
  ASSUME NEW b \in 0 .. root_dir_index
  PROVE  /\ D!Place(b, 0) \in Nat
         /\ \A u \in Int : D!Place(b, u) = D!Place(b, 0) + u
         /\ D!Place(b, 0) + PerBlock <= Described
         /\ \A c \in 0 .. root_dir_index :
               b < c => D!Place(b, 0) + PerBlock <= D!Place(c, 0)
<1>1. b \in Nat /\ b < FatBlocks + 2 /\ FatBlocks + 2 \in Nat
  BY LayerConstants
<1>2. b * PerBlock \in Nat
  BY <1>1, LayerConstants
<1>3. /\ D!Place(b, 0) = b * PerBlock
      /\ \A u \in Int : D!Place(b, u) = b * PerBlock + u
  BY <1>2 DEF D!Place
<1>4. b * PerBlock + PerBlock <= (FatBlocks + 2) * PerBlock
  BY <1>1, BlocksApart
<1>5. b * PerBlock + PerBlock <= Described
  BY <1>4 DEF Described
<1>6. ASSUME NEW c \in 0 .. root_dir_index, b < c
      PROVE  b * PerBlock + PerBlock <= D!Place(c, 0)
  <2>1. c \in Nat /\ c * PerBlock \in Nat
    BY LayerConstants
  <2>2. D!Place(c, 0) = c * PerBlock
    BY <2>1 DEF D!Place
  <2> QED
    BY <1>1, <1>6, <2>1, <2>2, BlocksApart
<1> QED
  BY <1>2, <1>3, <1>5, <1>6

\* A unit of one block is no unit of another.
LEMMA PlacesDiffer ==
  ASSUME NEW b \in 0 .. root_dir_index, NEW c \in 0 .. root_dir_index,
         NEW u \in 1 .. PerBlock
  PROVE  /\ D!Place(c, u) \in 1 .. Described
         /\ \A m \in 1 .. PerBlock :
               D!Place(c, u) \in D!Place(b, 1) .. D!Place(b, m) <=> c = b /\ u <= m
         /\ D!Place(b, u) - D!Place(b, 0) = u
<1> DEFINE pb == D!Place(b, 0)
           pc == D!Place(c, 0)
<1>0. /\ \A v \in Int : D!Place(b, v) = pb + v
      /\ \A v \in Int : D!Place(c, v) = pc + v
  BY Places
<1>1. /\ pb \in Nat /\ pc \in Nat
      /\ pc + PerBlock <= Described
      /\ b < c => pb + PerBlock <= pc
      /\ c < b => pc + PerBlock <= pb
      /\ b = c => pb = pc
  BY Places
<1> HIDE DEF pb, pc
<1>2. u \in Int /\ u >= 1 /\ u <= PerBlock /\ PerBlock \in Int /\ 1 \in Int
  BY LayerConstants
<1>3. Described \in Int
  BY LayerConstants DEF Described
<1>4. b < c \/ c < b \/ b = c
  BY LayerConstants
<1>5. D!Place(c, u) \in 1 .. Described
  <2>1. D!Place(c, u) = pc + u
    BY <1>0, <1>2
  <2>2. pc + u >= 1 /\ pc + u <= Described /\ pc + u \in Int
    BY <1>1, <1>2, <1>3
  <2> QED
    BY <2>1, <2>2, <1>3
<1>6. ASSUME NEW m \in 1 .. PerBlock
      PROVE  D!Place(c, u) \in D!Place(b, 1) .. D!Place(b, m) <=> c = b /\ u <= m
  <2>1. m \in Int /\ m <= PerBlock
    BY LayerConstants
  <2>2. D!Place(c, u) = pc + u /\ D!Place(b, 1) = pb + 1 /\ D!Place(b, m) = pb + m
    BY <1>0, <1>2, <2>1
  <2>3. /\ pb + 1 <= pc + u /\ pc + u <= pb + m <=> c = b /\ u <= m
        /\ pc + u \in Int /\ pb + 1 \in Int /\ pb + m \in Int
    BY <1>1, <1>2, <1>4, <2>1
  <2> QED
    BY <2>2, <2>3
<1>7. D!Place(b, u) - pb = u
  BY <1>0, <1>1, <1>2
<1> QED
  BY <1>5, <1>6, <1>7 DEF pb

----------------------------------------------------------------------------
(* Reading and writing one block.                                          *)

\* A file that has those blocks.
IsFile(file) ==
    Len(file) \in Nat /\ Len(file) >= Described /\ DOMAIN file = 1 .. Len(file)

LEMMA LengthOfFunction ==
  ASSUME NEW n \in Nat, NEW f, DOMAIN f = 1 .. n, f = [k \in 1 .. n |-> f[k]]
  PROVE  Len(f) = n
<1> DEFINE units == {f[k] : k \in 1 .. n}
<1>1. f \in [1 .. n -> units]
  BY Zenon
<1>2. f \in Seq(units)
  BY <1>1
<1> QED
  BY <1>2

\* A write of the first m units, m = PerBlock if it is whole.
LEMMA StoredBlock ==
  ASSUME NEW file, IsFile(file), NEW b \in 0 .. root_dir_index, NEW data,
         NEW m \in 1 .. PerBlock
  PROVE  LET new == D!Stored(file, b, data, m)
         IN  /\ IsFile(new) /\ Len(new) = Len(file)
             /\ \A k \in 1 .. Len(file) :
                   k \notin D!Place(b, 1) .. D!Place(b, m) => new[k] = file[k]
             /\ \A c \in 0 .. root_dir_index, u \in 1 .. PerBlock :
                   new[D!Place(c, u)] =
                      IF c = b /\ u <= m THEN data[u] ELSE file[D!Place(c, u)]
<1> DEFINE new == D!Stored(file, b, data, m)
           n == Len(file)
<1>1. n \in Nat /\ n >= Described /\ Described \in Int
  BY LayerConstants DEF IsFile, Described
<1>2. m \in Int /\ 1 <= m /\ m <= PerBlock /\ PerBlock \in Int
  BY LayerConstants
<1>3. D!Place(b, m) \in Int /\ D!Place(b, m) <= n
  <2>1. /\ D!Place(b, m) = D!Place(b, 0) + m /\ D!Place(b, 0) \in Nat
        /\ D!Place(b, 0) + PerBlock <= Described
    BY <1>2, Places
  <2> QED
    BY <1>1, <1>2, <2>1
<1>4. D!Max({n, D!Place(b, m)}) = n
  <2>1. n \in {n, D!Place(b, m)} /\ \A y \in {n, D!Place(b, m)} : n >= y
    BY <1>1, <1>3
  <2>2. \A x \in {n, D!Place(b, m)} : (\A y \in {n, D!Place(b, m)} : x >= y) => x = n
    BY <1>1, <1>3
  <2> QED
    BY <2>1, <2>2 DEF D!Max
<1>5. new = [k \in 1 .. n |->
                IF k \in D!Place(b, 1) .. D!Place(b, m) THEN data[k - D!Place(b, 0)]
                ELSE IF k <= n THEN file[k] ELSE 0]
  BY <1>1, <1>4 DEF D!Stored
<1> HIDE DEF new
<1>6. IsFile(new) /\ Len(new) = n
  <2>1. DOMAIN new = 1 .. n /\ new = [k \in 1 .. n |-> new[k]]
    BY <1>5
  <2>2. Len(new) = n
    BY <1>1, <2>1, LengthOfFunction
  <2> QED
    BY <1>1, <2>1, <2>2 DEF IsFile
<1>7. ASSUME NEW k \in 1 .. n, k \notin D!Place(b, 1) .. D!Place(b, m)
      PROVE  new[k] = file[k]
  BY <1>1, <1>5, <1>7
<1>8. ASSUME NEW c \in 0 .. root_dir_index, NEW u \in 1 .. PerBlock
      PROVE  new[D!Place(c, u)] =
                IF c = b /\ u <= m THEN data[u] ELSE file[D!Place(c, u)]
  <2>1. /\ D!Place(c, u) \in 1 .. Described
        /\ D!Place(c, u) \in D!Place(b, 1) .. D!Place(b, m) <=> c = b /\ u <= m
        /\ D!Place(b, u) - D!Place(b, 0) = u
    BY PlacesDiffer
  <2>2. D!Place(c, u) \in 1 .. n
    BY <1>1, <2>1
  <2>3. CASE c = b /\ u <= m
    <3>1. new[D!Place(c, u)] = data[D!Place(c, u) - D!Place(b, 0)]
      BY <1>5, <2>1, <2>3, <2>2
    <3> QED
      BY <2>1, <2>3, <3>1
  <2>4. CASE ~(c = b /\ u <= m)
    BY <1>7, <2>1, <2>4, <2>2
  <2> QED
    BY <2>3, <2>4
<1> QED
  BY <1>6, <1>7, <1>8 DEF new

\* A read that succeeds.
LEMMA FetchedBlock ==
  ASSUME NEW file, IsFile(file), NEW b \in 0 .. root_dir_index, NEW before
  PROVE  D!Fetched(file, b, before) = [u \in 1 .. PerBlock |-> file[D!Place(b, u)]]
<1>1. ASSUME NEW u \in 1 .. PerBlock
      PROVE  D!Place(b, u) <= Len(file)
  <2>1. D!Place(b, u) \in 1 .. Described /\ Described \in Int
    BY PlacesDiffer, LayerConstants DEF Described
  <2> QED
    BY <2>1 DEF IsFile
<1> QED
  BY <1>1 DEF D!Fetched

LEMMA QuotientIsNat ==
  ASSUME NEW n \in Nat, NEW b \in Nat \ {0}
  PROVE  n \div b \in Nat
  BY Z3

LEMMA EnoughBlocks ==
  ASSUME NEW n \in Nat, NEW b \in Nat \ {0}, NEW q \in Nat, n >= (q + 1) * b
  PROVE  n \div b \in Nat /\ q < n \div b
<1> DEFINE r == n \div b
<1>1. r \in Nat /\ n < b * (r + 1)
  BY Z3
<1> HIDE DEF r
<1>2. (q + 1) * b < (r + 1) * b
  <2>1. b * (r + 1) = (r + 1) * b /\ (q + 1) * b \in Nat /\ (r + 1) * b \in Nat
    BY <1>1
  <2> QED
    BY <1>1, <2>1
<1>3. q < r
  <2> SUFFICES ASSUME r <= q
               PROVE  FALSE
    BY <1>1
  <2>1. (r + 1) * b <= (q + 1) * b
    BY <1>1
  <2>2. (q + 1) * b \in Nat /\ (r + 1) * b \in Nat
    BY <1>1
  <2> QED
    BY <1>2, <2>1, <2>2
<1> QED
  BY <1>1, <1>3 DEF r

\* The file of an open disk has a superblock, the FAT and the root block.
LEMMA DiskHasBlocks ==
  ASSUME FilesKept, OnDisk
  PROVE  IsFile(DiskFile) /\ \A b \in 0 .. root_dir_index : b < D!BlocksOf(DiskFile)
<1> DEFINE n == Len(DiskFile)
           blocks == n \div PerBlock
<1>1. PICK p \in Disks : p = host[disk.fd]
  BY DEF OnDisk
<1>2. /\ p \in DOMAIN files /\ p \in DOMAIN Outset /\ DiskFile = files[p]
      /\ Len(Outset[p]) \in Nat /\ Len(Outset[p]) >= (FatBlocks + 2) * PerBlock
  BY <1>1, LayerAssumption DEF FilesKept, Disks, DiskFile
<1>3. n = Len(Outset[p]) /\ DOMAIN DiskFile = 1 .. n
  BY <1>2 DEF FilesKept
<1>4. n \in Nat /\ n >= (FatBlocks + 2) * PerBlock
  BY <1>2, <1>3
<1>5. FatBlocks + 1 \in Nat /\ FatBlocks + 2 = FatBlocks + 1 + 1 /\ PerBlock \in Nat \ {0}
  BY LayerConstants
<1> HIDE DEF n
<1>6. blocks \in Nat /\ FatBlocks + 1 < blocks
  BY <1>4, <1>5, EnoughBlocks
<1>7. D!BlocksOf(DiskFile) = blocks
  BY DEF n, D!BlocksOf
<1>8. IsFile(DiskFile)
  BY <1>3, <1>4 DEF n, IsFile, Described
<1> HIDE DEF blocks
<1>9. ASSUME NEW b \in 0 .. root_dir_index
      PROVE  b < D!BlocksOf(DiskFile)
  <2>1. b \in Int /\ b <= FatBlocks + 1
    BY LayerConstants
  <2> QED
    BY <1>5, <1>6, <1>7, <2>1
<1> QED
  BY <1>8, <1>9

\* What a read of the disk's file brings: the block, or nothing at all.
LEMMA ReadStep ==
  ASSUME FilesKept, DeviceWhole, OnDisk,
         NEW b \in 0 .. root_dir_index, NEW before, D!block_read(b, before)
  PROVE  /\ UNCHANGED <<files, disk, host>>
         /\ \/ /\ answer'.value # 0 /\ answer'.data = before /\ "io" \in DiskFaults
            \/ /\ answer'.value = 0
               /\ answer'.data = [u \in 1 .. PerBlock |-> DiskFile[D!Place(b, u)]]
<1>1. D!OpenImage = DiskFile
  BY DEF D!OpenImage, DiskFile, OnDisk
<1>2. D!InBounds(b)
  BY <1>1, DiskHasBlocks DEF D!InBounds, DeviceWhole, OnDisk
<1>3. D!Fetched(DiskFile, b, before) = [u \in 1 .. PerBlock |-> DiskFile[D!Place(b, u)]]
  BY DiskHasBlocks, FetchedBlock
<1>4. CASE "io" \in DiskFaults /\ D!Answers("block_read", b, before, -1)
  BY <1>4 DEF D!Answers, D!block_read
<1>5. CASE D!Answers("block_read", b, D!Fetched(DiskFile, b, before), 0)
  BY <1>3, <1>5 DEF D!Answers, D!block_read
<1> QED
  BY <1>1, <1>2, <1>4, <1>5 DEF D!block_read

\* What a write to the disk's file leaves: its first m units, and all of them
\* if no transfer fails.
LEMMA WriteStep ==
  ASSUME FilesKept, DeviceWhole, OnDisk,
         NEW b \in 0 .. root_dir_index, NEW data, D!block_write(b, data)
  PROVE  /\ UNCHANGED <<disk, host>> /\ DOMAIN files' = DOMAIN files
         /\ \A p \in DOMAIN files : p # host[disk.fd] => files'[p] = files[p]
         /\ IsFile(DiskFile') /\ Len(DiskFile') = Len(DiskFile)
         /\ \A k \in 1 .. Len(DiskFile) :
               k \notin D!Place(b, 1) .. D!Place(b, PerBlock) => DiskFile'[k] = DiskFile[k]
         /\ \E m \in 0 .. PerBlock :
               /\ m < PerBlock => DiskFaults # {}
               /\ \A c \in 0 .. root_dir_index, u \in 1 .. PerBlock :
                     DiskFile'[D!Place(c, u)] =
                        IF c = b /\ u <= m THEN data[u] ELSE DiskFile[D!Place(c, u)]
<1>1. D!InBounds(b)
  <2>1. D!OpenImage = DiskFile
    BY DEF D!OpenImage, DiskFile, OnDisk
  <2> QED
    BY <2>1, DiskHasBlocks DEF D!InBounds, DeviceWhole, OnDisk
<1>2. UNCHANGED <<disk, host>>
  BY DEF D!block_write
<1>3. IsFile(DiskFile) /\ host[disk.fd] \in DOMAIN files
  BY DiskHasBlocks DEF FilesKept, OnDisk, Disks
<1>4. CASE files' = files /\ "io" \in DiskFaults
  <2>1. \A c \in 0 .. root_dir_index, u \in 1 .. PerBlock :
           DiskFile'[D!Place(c, u)] =
              IF c = b /\ u <= 0 THEN data[u] ELSE DiskFile[D!Place(c, u)]
    BY <1>2, <1>4, LayerConstants DEF DiskFile
  <2>2. 0 \in 0 .. PerBlock /\ DiskFaults # {}
    BY <1>4, LayerConstants
  <2> QED
    BY <1>2, <1>3, <1>4, <2>1, <2>2 DEF DiskFile
<1>5. ASSUME NEW m \in IF "short" \in DiskFaults THEN 1 .. PerBlock ELSE {PerBlock},
             files' = [files EXCEPT ![host[disk.fd]] = D!Stored(@, b, data, m)]
      PROVE  /\ DOMAIN files' = DOMAIN files
             /\ \A p \in DOMAIN files : p # host[disk.fd] => files'[p] = files[p]
             /\ IsFile(DiskFile') /\ Len(DiskFile') = Len(DiskFile)
             /\ \A k \in 1 .. Len(DiskFile) :
                   k \notin D!Place(b, 1) .. D!Place(b, PerBlock)
                      => DiskFile'[k] = DiskFile[k]
             /\ m \in 0 .. PerBlock
             /\ m < PerBlock => DiskFaults # {}
             /\ \A c \in 0 .. root_dir_index, u \in 1 .. PerBlock :
                   DiskFile'[D!Place(c, u)] =
                      IF c = b /\ u <= m THEN data[u] ELSE DiskFile[D!Place(c, u)]
  <2>1. m \in 1 .. PerBlock /\ m \in 0 .. PerBlock /\ (m < PerBlock => DiskFaults # {})
    BY LayerConstants
  <2>2. DiskFile' = D!Stored(DiskFile, b, data, m)
    BY <1>2, <1>3, <1>5 DEF DiskFile
  <2>3. /\ IsFile(DiskFile') /\ Len(DiskFile') = Len(DiskFile)
        /\ \A k \in 1 .. Len(DiskFile) :
              k \notin D!Place(b, 1) .. D!Place(b, m) => DiskFile'[k] = DiskFile[k]
        /\ \A c \in 0 .. root_dir_index, u \in 1 .. PerBlock :
              DiskFile'[D!Place(c, u)] =
                 IF c = b /\ u <= m THEN data[u] ELSE DiskFile[D!Place(c, u)]
    BY <1>3, <2>1, <2>2, StoredBlock
  <2>4. D!Place(b, 1) .. D!Place(b, m) \subseteq D!Place(b, 1) .. D!Place(b, PerBlock)
    <3>1. /\ D!Place(b, 0) \in Nat /\ D!Place(b, 1) = D!Place(b, 0) + 1
          /\ D!Place(b, m) = D!Place(b, 0) + m
          /\ D!Place(b, PerBlock) = D!Place(b, 0) + PerBlock
      BY <2>1, Places, LayerConstants
    <3> QED
      BY <2>1, <3>1, LayerConstants
  <2> QED
    BY <1>5, <2>1, <2>3, <2>4
<1> QED
  BY <1>1, <1>2, <1>3, <1>4, <1>5 DEF D!block_write

----------------------------------------------------------------------------
(* Opening and closing the disk.                                           *)

LEMMA MinIsMember ==
  ASSUME NEW granted \in SUBSET Nat, granted # {}
  PROVE  D!Min(granted) \in granted
<1> DEFINE below == {ss \in Nat \X Nat : ss[1] < ss[2]}
<1>1. IsWellFoundedOn(below, Nat)
  BY NatLessThanWellFounded DEF OpToRel
<1>2. PICK least \in granted : \A y \in granted : <<y, least>> \notin below
  BY <1>1, WFMin
<1>3. ASSUME NEW y \in granted
      PROVE  least <= y
  <2>1. y \in Nat /\ least \in Nat
    OBVIOUS
  <2>2. ~(y < least)
    BY <1>2, <2>1
  <2> QED
    BY <2>1, <2>2
<1> QED
  BY <1>3 DEF D!Min

\* An open that fails leaves the disk as it was, and so does one while it is open.
LEMMA OpenStep ==
  ASSUME FilesKept, DeviceWhole, NEW p \in Paths, D!block_disk_open(p)
  PROVE  /\ files' = files /\ DeviceWhole'
         /\ answer'.value = 0 => ~D!IsOpen /\ D!IsOpen'
         /\ answer'.value # 0 => UNCHANGED <<D!IsOpen, OnDisk>>
         /\ answer'.value # 0 /\ D!IsOpen => UNCHANGED host[disk.fd]
<1>1. CASE D!Says("block_disk_open", -1)
  <2>1. UNCHANGED <<files, disk, host>> /\ answer'.value # 0
    BY <1>1 DEF D!Says, D!Answers
  <2>2. UNCHANGED <<D!IsOpen, OnDisk, D!OpenImage>>
    BY <2>1 DEF D!IsOpen, OnDisk, D!OpenImage
  <2> QED
    BY <2>1, <2>2 DEF DeviceWhole, D!BlocksOf
<1>2. CASE ~D!OpenRefused(p) /\ ~D!Says("block_disk_open", -1)
  <2> DEFINE fd == D!Min(D!Granted)
  <2>1. ~D!IsOpen /\ p \in DOMAIN files /\ D!Granted # {} /\ D!Granted \subseteq HostFds
    BY <1>2 DEF D!OpenRefused, D!Granted
  <2>2. fd \in HostFds /\ fd # D!INVALID_FD
    BY <2>1, MinIsMember, LayerAssumption, LayerConstants
  <2>3. files' = files /\ host' = [host EXCEPT ![fd] = p]
    BY <1>2 DEF D!block_disk_open
  <2>4. \/ answer'.value = -1 /\ disk' = disk
        \/ answer'.value = 0 /\ disk' = [fd |-> fd, bcount |-> D!BlocksOf(files[p])]
    BY <1>2 DEF D!block_disk_open, D!Answers
  <2> HIDE DEF fd
  <2>5. host' \in [HostFds -> Paths \cup {NoPath}] /\ host'[fd] = p
    BY <2>2, <2>3 DEF DeviceWhole
  <2>6. D!BlocksOf(files[p]) \in Nat
    <3>1. Len(files[p]) \in Nat /\ PerBlock \in Nat \ {0}
      BY <2>1, LayerAssumption DEF FilesKept
    <3>2. Len(files[p]) \div PerBlock \in Nat
      BY <3>1, QuotientIsNat
    <3> QED
      BY <3>2 DEF D!BlocksOf
  <2>7. CASE answer'.value = -1 /\ disk' = disk
    BY <2>1, <2>3, <2>5, <2>7 DEF D!IsOpen, DeviceWhole, OnDisk
  <2>8. CASE answer'.value = 0 /\ disk' = [fd |-> fd, bcount |-> D!BlocksOf(files[p])]
    <3>1. disk'.fd = fd /\ disk'.bcount = D!BlocksOf(files[p])
      BY <2>8
    <3>2. D!IsOpen' /\ D!OpenImage' = files[p] /\ host'[disk'.fd] = p
      BY <2>2, <2>3, <2>5, <3>1 DEF D!IsOpen, D!OpenImage
    <3>3. disk' \in [fd : HostFds \cup {D!INVALID_FD}, bcount : Nat]
      BY <2>2, <2>6, <2>8
    <3>4. DeviceWhole'
      BY <2>1, <2>3, <2>5, <3>1, <3>2, <3>3 DEF DeviceWhole, D!BlocksOf
    <3> QED
      BY <2>1, <2>3, <2>8, <3>2, <3>4
  <2> QED
    BY <2>4, <2>7, <2>8
<1> QED
  BY <1>1, <1>2 DEF D!block_disk_open

LEMMA CloseStep ==
  ASSUME FilesKept, DeviceWhole, D!IsOpen, D!block_disk_close
  PROVE  files' = files /\ DeviceWhole' /\ ~D!IsOpen' /\ answer'.value = 0
<1>1. /\ host' = [host EXCEPT ![disk.fd] = NoPath]
      /\ disk' = [disk EXCEPT !.fd = D!INVALID_FD]
      /\ files' = files /\ answer'.value = 0
  BY DEF D!block_disk_close, D!Says, D!Answers
<1>2. disk'.fd = D!INVALID_FD /\ ~D!IsOpen'
  BY <1>1 DEF DeviceWhole, D!IsOpen
<1> QED
  BY <1>1, <1>2 DEF DeviceWhole

\* The host takes everything back.
LEMMA EndStep ==
  ASSUME D!DiskProcessEnds
  PROVE  files' = files /\ DeviceWhole' /\ ~D!IsOpen'
  BY DEF D!DiskProcessEnds, DeviceWhole, D!IsOpen

----------------------------------------------------------------------------
(* The invariant.                                                          *)

LEMMA LayerInvInit == LayerInit => LayerInv
<1> SUFFICES ASSUME LayerInit
             PROVE  LayerInv
  OBVIOUS
<1>1. FilesKept
  BY LayerAssumption DEF LayerInit, D!DiskInit, FilesKept
<1>2. DeviceWhole /\ ~D!IsOpen
  BY DEF LayerInit, D!DiskInit, DeviceWhole, D!IsOpen
<1>3. /\ mounting = NotMounting /\ closing = FALSE
      /\ file_system = "null" /\ writeback = C!NotWriting /\ diskname \in Disks
  BY DEF LayerInit, C!Init
<1>4. Phases
  BY <1>3 DEF Phases, C!Mounted
<1>5. LoadingInv
  BY <1>3 DEF LoadingInv, NotMounting
<1> QED
  BY <1>1, <1>2, <1>4, <1>5 DEF LayerInv

\* No transfer, and the process stays where it is.
LEMMA InvAtRest ==
  ASSUME LayerInv, UNCHANGED <<blockVars, mounting, loading, closing, file_system, writeback,
                             diskname>>
  PROVE  LayerInv'
<1>1. UNCHANGED <<D!IsOpen, OnDisk, D!OpenImage, C!Mounted, C!Idle, DiskFile>>
  BY DEF blockVars, D!IsOpen, OnDisk, D!OpenImage, C!Mounted, C!Idle, DiskFile
<1>2. FilesKept' /\ DeviceWhole' /\ Phases'
  BY <1>1 DEF LayerInv, FilesKept, DeviceWhole, Phases, blockVars, D!BlocksOf
<1>3. LoadingInv'
  BY <1>1 DEF LayerInv, LoadingInv
<1> QED
  BY <1>2, <1>3 DEF LayerInv

LEMMA InvAtMountBegins ==
  ASSUME LayerInv, NEW p \in Paths, MountBegins(p)
  PROVE  LayerInv'
<1>1. /\ files' = files /\ DeviceWhole'
      /\ answer'.value = 0 => ~D!IsOpen /\ D!IsOpen'
      /\ answer'.value # 0 => UNCHANGED <<D!IsOpen, OnDisk>>
      /\ answer'.value # 0 /\ D!IsOpen => UNCHANGED host[disk.fd]
  BY OpenStep DEF LayerInv, MountBegins
<1>2. /\ mounting = NotMounting /\ ~closing /\ C!Idle
      /\ UNCHANGED <<file_system, writeback, closing, loading, diskname>>
      /\ mounting' = IF answer'.value = 0 THEN 0 ELSE mounting
  BY DEF MountBegins, AtRest
<1>3. FilesKept'
  BY <1>1 DEF LayerInv, FilesKept
<1>4. UNCHANGED <<C!Mounted, C!Idle>> /\ 0 \in 0 .. root_dir_index /\ ~(NotMounting > 0)
  BY <1>2, LayerConstants DEF C!Mounted, C!Idle
<1>5. Phases'
  <2>1. CASE answer'.value = 0
    <3>1. ~C!Mounted /\ mounting' = 0 /\ D!IsOpen'
      BY <1>1, <1>2, <2>1 DEF LayerInv, Phases, OnDisk
    <3> QED
      BY <1>2, <1>4, <3>1 DEF LayerInv, Phases
  <2>2. CASE answer'.value # 0
    BY <1>1, <1>2, <1>4, <2>2 DEF LayerInv, Phases, OnDisk
  <2> QED
    BY <2>1, <2>2
<1>6. LoadingInv'
  BY <1>2, <1>4 DEF LoadingInv
<1> QED
  BY <1>1, <1>3, <1>5, <1>6 DEF LayerInv

\* Only the superblock of a disk is accepted, wherever it comes from.
LEMMA AcceptedIsDisk ==
  ASSUME LayerInv, ReadSuperblock, answer'.data[1] \in Accepted[host[disk.fd]]
  PROVE  OnDisk
<1>1. D!IsOpen
  BY LayerConstants DEF ReadSuperblock, LayerInv, Phases
<1>2. host[disk.fd] \in DOMAIN Outset
  BY <1>1 DEF LayerInv, DeviceWhole, FilesKept
<1> QED
  BY <1>1, <1>2 DEF OnDisk, Disks

----------------------------------------------------------------------------
(* Loading block by block.                                                 *)

LEMMA MaxIs ==
  ASSUME NEW numbers \in SUBSET Int, NEW m \in numbers, \A y \in numbers : y <= m
  PROVE  C!Max(numbers) = m
<1>1. m \in numbers /\ \A y \in numbers : m >= y
  OBVIOUS
<1>2. \A x \in numbers : (\A y \in numbers : x >= y) => x = m
  OBVIOUS
<1> QED
  BY <1>1, <1>2 DEF C!Max

\* A mount that reads none of the blocks.
LEMMA NothingLoaded ==
  ASSUME NEW blocks
  PROVE  C!LoadFat(blocks, {} \cup (0 .. FatBlocks - 1)) = C!ZeroFat
<1>1. \A k : C!Covering(k, {} \cup (0 .. FatBlocks - 1)) = {}
  BY DEF C!Covering
<1> QED
  BY <1>1 DEF C!LoadFat, C!ZeroFat

\* Block i read over what a mount has loaded that reads none from i on.
LEMMA OneMoreBlock ==
  ASSUME NEW blocks, NEW i \in 0 .. FatBlocks - 1, NEW unread,
         \A j \in 0 .. FatBlocks - 1 : j >= i => j \in unread
  PROVE  \A k \in C!FatIndex :
            C!LoadFat(blocks, unread \ {i})[k] =
                IF k \in i .. i + PerBlock - 1 THEN blocks[i][k - i]
                ELSE C!LoadFat(blocks, unread)[k]
<1>0. i \in Int /\ PerBlock \in Int /\ FatBlocks * PerBlock \in Int
  BY LayerConstants
<1>1. ASSUME NEW k \in C!FatIndex
      PROVE  C!Covering(k, unread \ {i}) =
                IF k \in i .. i + PerBlock - 1 THEN C!Covering(k, unread) \cup {i}
                ELSE C!Covering(k, unread)
  <2>1. k \in Int
    BY <1>0 DEF C!FatIndex
  <2>2. i <= k /\ k < i + PerBlock <=> k \in i .. i + PerBlock - 1
    BY <1>0, <2>1
  <2> QED
    BY <2>2 DEF C!Covering
<1>2. ASSUME NEW k \in C!FatIndex, k \in i .. i + PerBlock - 1
      PROVE  C!Max(C!Covering(k, unread \ {i})) = i
  <2>1. \A j \in C!Covering(k, unread) : j \in Int /\ j < i
    BY <1>0, LayerConstants DEF C!Covering
  <2>2. C!Covering(k, unread \ {i}) = C!Covering(k, unread) \cup {i}
    BY <1>1, <1>2
  <2>3. /\ C!Covering(k, unread \ {i}) \in SUBSET Int
        /\ i \in C!Covering(k, unread \ {i})
    BY <1>0, <2>1, <2>2
  <2>4. \A y \in C!Covering(k, unread \ {i}) : y <= i
    BY <1>0, <2>1, <2>2
  <2> QED
    BY <2>3, <2>4, MaxIs
<1> SUFFICES ASSUME NEW k \in C!FatIndex
             PROVE  C!LoadFat(blocks, unread \ {i})[k] =
                       IF k \in i .. i + PerBlock - 1 THEN blocks[i][k - i]
                       ELSE C!LoadFat(blocks, unread)[k]
  OBVIOUS
<1>3. CASE k \in i .. i + PerBlock - 1
  BY <1>1, <1>2, <1>3 DEF C!LoadFat
<1>4. CASE k \notin i .. i + PerBlock - 1
  BY <1>1, <1>4 DEF C!LoadFat
<1> QED
  BY <1>3, <1>4

----------------------------------------------------------------------------
(* The invariant at reads and writes.                                      *)

\* Steps that only look at the files.
LEMMA DeviceUntouched ==
  ASSUME LayerInv, UNCHANGED <<files, disk, host>>
  PROVE  /\ FilesKept' /\ DeviceWhole'
         /\ UNCHANGED <<D!IsOpen, OnDisk, DiskFile, host[disk.fd]>>
<1>1. UNCHANGED <<D!IsOpen, OnDisk, DiskFile, D!OpenImage>>
  BY DEF D!IsOpen, OnDisk, DiskFile, D!OpenImage
<1> QED
  BY <1>1 DEF LayerInv, FilesKept, DeviceWhole, D!BlocksOf

LEMMA InvAtReadSuperblock ==
  ASSUME LayerInv, ReadSuperblock
  PROVE  LayerInv'
<1>1. /\ mounting = 0 /\ mounting # NotMounting
      /\ UNCHANGED <<files, disk, host, closing, writeback, diskname>>
  BY LayerConstants DEF ReadSuperblock
<1>2. FilesKept' /\ DeviceWhole' /\ UNCHANGED <<D!IsOpen, OnDisk, DiskFile, host[disk.fd]>>
  BY <1>1, DeviceUntouched
<1>3. D!IsOpen /\ ~closing /\ ~C!Mounted /\ C!Idle /\ C!Idle'
  BY <1>1 DEF LayerInv, Phases, C!Idle
<1>4. CASE answer'.data[1] \in Accepted[host[disk.fd]]
  <2>1. OnDisk
    BY <1>4, AcceptedIsDisk
  <2>2. mounting' = 1 /\ file_system' = file_system /\ 1 \in 0 .. root_dir_index
        /\ loading' = [fat |-> C!ZeroFat, missed |-> {}]
    BY <1>4, LayerConstants DEF ReadSuperblock
  <2>3. Phases'
    BY <1>1, <1>2, <1>3, <2>1, <2>2 DEF LayerInv, Phases, C!Mounted
  <2>4. LoadingInv'
    <3>1. loading'.fat = C!ZeroFat /\ loading'.missed = {} /\ mounting' - 1 = 0
      BY <2>2
    <3>2. C!LoadFat(ImageOf(DiskFile).fat, {} \cup (0 .. FatBlocks - 1)) = C!ZeroFat
      BY NothingLoaded
    <3> QED
      BY <1>2, <3>1, <3>2 DEF LoadingInv
  <2> QED
    BY <1>2, <2>3, <2>4 DEF LayerInv
<1>5. CASE answer'.data[1] \notin Accepted[host[disk.fd]]
  <2>1. mounting' = NotMounting /\ file_system' = "unchecked"
    BY <1>5 DEF ReadSuperblock
  <2>2. Phases'
    BY <1>1, <1>2, <1>3, <2>1 DEF LayerInv, Phases, C!Mounted, C!Idle
  <2>3. LoadingInv'
    BY <2>1, LayerConstants DEF LoadingInv
  <2> QED
    BY <1>2, <2>2, <2>3 DEF LayerInv
<1> QED
  BY <1>4, <1>5

\* The FAT after one more read, successful or not.
LEMMA LoadingStep ==
  ASSUME LayerInv, ReadFatBlock
  PROVE  /\ loading'.missed \subseteq 0 .. mounting - 1
         /\ loading'.missed # {} => "io" \in DiskFaults
         /\ loading'.fat = C!LoadFat(ImageOf(DiskFile).fat,
                                     loading'.missed \cup (mounting .. FatBlocks - 1))
<1>0. PICK i \in 0 .. FatBlocks - 1 : i = mounting - 1
  BY LayerConstants DEF ReadFatBlock
<1> DEFINE blocks == ImageOf(DiskFile).fat
           buffer == FatBuffer(loading.fat, i)
           unread == loading.missed \cup (i .. FatBlocks - 1)
<1>1. /\ i \in Int /\ PerBlock \in Int /\ mounting > 0 /\ mounting \in Int
      /\ (mounting - 1 .. FatBlocks - 1) = (i .. FatBlocks - 1)
      /\ (0 .. mounting - 2) = (0 .. i - 1) /\ (0 .. mounting - 1) = (0 .. i)
      /\ (mounting .. FatBlocks - 1) = (i .. FatBlocks - 1) \ {i}
  BY <1>0, LayerConstants DEF ReadFatBlock
<1>2. /\ loading.missed \in SUBSET (0 .. i - 1)
      /\ loading.missed # {} => "io" \in DiskFaults
      /\ loading.fat = C!LoadFat(blocks, unread)
  BY <1>1 DEF LayerInv, LoadingInv
<1>3. /\ D!block_read(i + 1, buffer)
      /\ loading' =
            [fat |-> [k \in DOMAIN loading.fat |->
                         IF k \in i .. i + PerBlock - 1
                         THEN answer'.data[k - i + 1] ELSE loading.fat[k]],
             missed |-> IF answer'.value = 0 THEN loading.missed
                        ELSE loading.missed \cup {i}]
  BY <1>0 DEF ReadFatBlock, OverlayAt, FatPlace
<1>4. OnDisk /\ i + 1 \in 0 .. root_dir_index
  BY <1>0, <1>1, LayerConstants DEF ReadFatBlock, LayerInv, Phases
<1>5. /\ DOMAIN loading.fat = C!FatIndex
      /\ loading.fat = [k \in C!FatIndex |-> loading.fat[k]]
  BY <1>2 DEF C!LoadFat
<1>6. \A k \in i .. i + PerBlock - 1 :
            k - i + 1 \in 1 .. PerBlock /\ i + (k - i + 1) - 1 = k
            /\ k - i \in 0 .. PerBlock - 1
  BY <1>1
<1>7. CASE answer'.value # 0 /\ answer'.data = buffer /\ "io" \in DiskFaults
  <2>1. \A k \in i .. i + PerBlock - 1 : answer'.data[k - i + 1] = loading.fat[k]
    BY <1>6, <1>7 DEF FatBuffer
  <2>2. loading'.fat = loading.fat /\ loading'.missed = loading.missed \cup {i}
    BY <1>3, <1>5, <1>7, <2>1
  <2>3. unread = (loading.missed \cup {i}) \cup (mounting .. FatBlocks - 1)
    BY <1>1
  <2>4. loading.missed \cup {i} \subseteq 0 .. mounting - 1
    BY <1>1, <1>2
  <2> HIDE DEF unread
  <2> QED
    BY <1>2, <1>7, <2>2, <2>3, <2>4
<1>8. CASE /\ answer'.value = 0
           /\ answer'.data = [u \in 1 .. PerBlock |-> DiskFile[D!Place(i + 1, u)]]
  <2>1. blocks[i] = [j \in 0 .. PerBlock - 1 |-> DiskFile[D!Place(i + 1, j + 1)]]
    BY <1>1 DEF ImageOf, FatPlace
  <2>2. \A k \in i .. i + PerBlock - 1 : answer'.data[k - i + 1] = blocks[i][k - i]
    BY <1>6, <1>8, <2>1
  <2>3. loading'.missed = loading.missed
        /\ loading'.fat = [k \in C!FatIndex |->
              IF k \in i .. i + PerBlock - 1 THEN answer'.data[k - i + 1] ELSE loading.fat[k]]
    BY <1>3, <1>5, <1>8
  <2>4. \A j \in 0 .. FatBlocks - 1 : j >= i => j \in unread
    BY <1>1
  <2>5. unread \ {i} = loading.missed \cup (mounting .. FatBlocks - 1)
    BY <1>1, <1>2
  <2> HIDE DEF blocks, unread
  <2>6. \A k \in C!FatIndex :
           C!LoadFat(blocks, unread \ {i})[k] =
               IF k \in i .. i + PerBlock - 1 THEN blocks[i][k - i] ELSE loading.fat[k]
    BY <1>0, <1>2, <2>4, OneMoreBlock
  <2>7. loading'.fat = C!LoadFat(blocks, unread \ {i})
    <3>1. C!LoadFat(blocks, unread \ {i}) =
             [k \in C!FatIndex |-> C!LoadFat(blocks, unread \ {i})[k]]
      BY DEF C!LoadFat
    <3> QED
      BY <2>2, <2>3, <2>6, <3>1
  <2>8. loading.missed \subseteq 0 .. mounting - 1
    BY <1>1, <1>2
  <2> QED
    BY <1>2, <2>3, <2>5, <2>7, <2>8 DEF blocks
<1> HIDE DEF buffer
<1>9. \/ answer'.value # 0 /\ answer'.data = buffer /\ "io" \in DiskFaults
      \/ /\ answer'.value = 0
         /\ answer'.data = [u \in 1 .. PerBlock |-> DiskFile[D!Place(i + 1, u)]]
  BY <1>3, <1>4, ReadStep DEF LayerInv
<1> QED
  BY <1>7, <1>8, <1>9

LEMMA InvAtReadFatBlock ==
  ASSUME LayerInv, ReadFatBlock
  PROVE  LayerInv'
<1>1. /\ mounting \in 1 .. FatBlocks /\ mounting' = mounting + 1
      /\ UNCHANGED <<files, disk, host, closing, writeback, file_system, diskname>>
  BY DEF ReadFatBlock, libVars
<1>2. FilesKept' /\ DeviceWhole' /\ UNCHANGED <<D!IsOpen, OnDisk, DiskFile, host[disk.fd]>>
  BY <1>1, DeviceUntouched
<1>3. Phases'
  <2>1. mounting # NotMounting /\ mounting > 0 /\ mounting' \in 0 .. root_dir_index
    BY <1>1, LayerConstants
  <2> QED
    BY <1>1, <1>2, <2>1 DEF LayerInv, Phases, C!Mounted, C!Idle
<1>4. LoadingInv'
  <2>1. mounting' - 2 = mounting - 1 /\ mounting' - 1 = mounting
    BY <1>1
  <2> QED
    BY <1>2, <2>1, LoadingStep DEF LoadingInv
<1> QED
  BY <1>2, <1>3, <1>4 DEF LayerInv

LEMMA InvAtReadRoot ==
  ASSUME LayerInv, ReadRoot
  PROVE  LayerInv'
<1>1. /\ mounting = root_dir_index /\ mounting' = NotMounting /\ file_system' = "mounted"
      /\ diskname' = host[disk.fd] /\ UNCHANGED <<files, disk, host, closing, writeback>>
  BY DEF ReadRoot, D!block_read
<1>2. FilesKept' /\ DeviceWhole' /\ UNCHANGED <<D!IsOpen, OnDisk, DiskFile, host[disk.fd]>>
  BY <1>1, DeviceUntouched
<1>3. mounting > 0 /\ mounting # NotMounting
  BY <1>1, LayerConstants
<1>4. OnDisk /\ ~closing /\ host[disk.fd] \in Disks
  BY <1>3 DEF LayerInv, Phases, OnDisk
<1>5. Phases'
  BY <1>1, <1>2, <1>3, <1>4 DEF LayerInv, Phases, C!Mounted, C!Idle
<1>6. LoadingInv'
  BY <1>1, LayerConstants DEF LoadingInv
<1> QED
  BY <1>2, <1>5, <1>6 DEF LayerInv

\* A write keeps the files' lengths and what the device knows of the disk.
LEMMA DeviceWritten ==
  ASSUME LayerInv, OnDisk, NEW b \in 0 .. root_dir_index, NEW data,
         D!block_write(b, data)
  PROVE  FilesKept' /\ DeviceWhole' /\ OnDisk' /\ UNCHANGED host[disk.fd]
<1>1. /\ UNCHANGED <<disk, host>> /\ DOMAIN files' = DOMAIN files
      /\ \A p \in DOMAIN files : p # host[disk.fd] => files'[p] = files[p]
      /\ IsFile(DiskFile') /\ Len(DiskFile') = Len(DiskFile)
  BY WriteStep DEF LayerInv
<1>2. host[disk.fd] \in DOMAIN files
  BY DEF LayerInv, FilesKept, OnDisk, Disks
<1>3. FilesKept'
  BY <1>1, <1>2 DEF LayerInv, FilesKept, IsFile, DiskFile
<1>4. OnDisk' /\ D!IsOpen /\ D!IsOpen'
  BY <1>1 DEF OnDisk, D!IsOpen
<1>5. Len(D!OpenImage') = Len(D!OpenImage)
  BY <1>1 DEF D!OpenImage, DiskFile
<1>6. DeviceWhole'
  BY <1>1, <1>4, <1>5 DEF LayerInv, DeviceWhole, D!BlocksOf
<1> QED
  BY <1>1, <1>3, <1>4, <1>6

LEMMA InvAtWriteFatBlock ==
  ASSUME LayerInv, WriteFatBlock
  PROVE  LayerInv'
<1>1. /\ writeback \in 0 .. FatBlocks - 1 /\ writeback' = writeback + 1
      /\ mounting = NotMounting /\ ~closing
      /\ UNCHANGED <<file_system, mounting, loading, closing, diskname>>
  BY DEF WriteFatBlock, AtRest
<1>2. /\ D!block_write(writeback + 1, FatBuffer(fat_blocks, writeback))
      /\ writeback + 1 \in 0 .. root_dir_index
      /\ writeback # C!NotWriting /\ writeback' \in 0 .. FatBlocks
  BY <1>1, LayerConstants DEF WriteFatBlock, FatPlace
<1>3. C!Mounted /\ OnDisk
  BY <1>2 DEF LayerInv, Phases
<1>4. FilesKept' /\ DeviceWhole' /\ OnDisk' /\ UNCHANGED host[disk.fd]
  BY <1>2, <1>3, DeviceWritten
<1>5. Phases'
  BY <1>1, <1>2, <1>3, <1>4 DEF LayerInv, Phases, C!Mounted, C!Idle
<1>6. LoadingInv'
  BY <1>1, LayerConstants DEF LoadingInv
<1> QED
  BY <1>4, <1>5, <1>6 DEF LayerInv

LEMMA InvAtWriteRoot ==
  ASSUME LayerInv, WriteRootAndFree
  PROVE  LayerInv'
<1>1. /\ writeback = FatBlocks /\ writeback' = C!NotWriting
      /\ mounting = NotMounting /\ ~closing /\ closing' = TRUE
      /\ file_system' = "freed" /\ UNCHANGED <<mounting, loading, diskname>>
  BY DEF WriteRootAndFree, AtRest
<1>2. /\ D!block_write(root_dir_index, RootBuffer(C!RootBlock(root_dir)))
      /\ root_dir_index \in 0 .. root_dir_index /\ writeback # C!NotWriting
  BY <1>1, LayerConstants DEF WriteRootAndFree
<1>3. C!Mounted /\ OnDisk
  BY <1>2 DEF LayerInv, Phases
<1>4. FilesKept' /\ DeviceWhole' /\ OnDisk' /\ UNCHANGED host[disk.fd]
  BY <1>2, <1>3, DeviceWritten
<1>5. Phases'
  BY <1>1, <1>4 DEF LayerInv, Phases, C!Mounted, OnDisk
<1>6. LoadingInv'
  BY <1>1, LayerConstants DEF LoadingInv
<1> QED
  BY <1>4, <1>5, <1>6 DEF LayerInv

LEMMA InvAtClose ==
  ASSUME LayerInv, CloseDisk
  PROVE  LayerInv'
<1>1. /\ closing /\ closing' = FALSE
      /\ UNCHANGED <<file_system, writeback, mounting, loading, diskname>>
  BY DEF CloseDisk
<1>2. /\ D!IsOpen /\ ~C!Mounted /\ writeback = C!NotWriting /\ mounting = NotMounting
  BY <1>1 DEF LayerInv, Phases
<1>3. files' = files /\ DeviceWhole' /\ ~D!IsOpen'
  BY <1>2, CloseStep DEF LayerInv, CloseDisk
<1>4. FilesKept'
  BY <1>3 DEF LayerInv, FilesKept
<1>5. Phases'
  BY <1>1, <1>2 DEF LayerInv, Phases, C!Mounted
<1>6. LoadingInv'
  BY <1>1, <1>2, LayerConstants DEF LoadingInv
<1> QED
  BY <1>3, <1>4, <1>5, <1>6 DEF LayerInv

LEMMA InvAtEnd ==
  ASSUME LayerInv, LayerEnds
  PROVE  LayerInv'
<1>1. /\ file_system' = "null" /\ writeback' = C!NotWriting
      /\ mounting' = NotMounting /\ closing' = FALSE /\ diskname' = diskname
  BY DEF LayerEnds, C!ProcessEnds, C!whichDisk
<1>2. files' = files /\ DeviceWhole' /\ ~D!IsOpen'
  BY EndStep DEF LayerEnds
<1>3. FilesKept'
  BY <1>2 DEF LayerInv, FilesKept
<1>4. Phases'
  BY <1>1 DEF LayerInv, Phases, C!Mounted
<1>5. LoadingInv'
  BY <1>1, LayerConstants DEF LoadingInv
<1> QED
  BY <1>2, <1>3, <1>4, <1>5 DEF LayerInv

LEMMA InvAtUmountBegins ==
  ASSUME LayerInv, UmountBegins
  PROVE  LayerInv'
<1>1. CASE file_system \in {"null", "freed"}
  BY <1>1, InvAtEnd DEF UmountBegins
<1>2. CASE file_system \notin {"null", "freed"}
  <2>1. /\ C!Mounted /\ writeback' = 0 /\ 0 \in 0 .. FatBlocks
        /\ UNCHANGED <<blockVars, mounting, loading, closing, file_system, diskname>>
        /\ mounting = NotMounting
    BY <1>2, LayerConstants DEF UmountBegins, AtRest, C!fs_umount, C!Mounted,
         C!whichDisk
  <2>2. FilesKept' /\ DeviceWhole' /\ UNCHANGED <<D!IsOpen, OnDisk, DiskFile, host[disk.fd]>>
    BY <2>1, DeviceUntouched DEF blockVars
  <2>3. Phases'
    BY <2>1, <2>2 DEF LayerInv, Phases, C!Mounted
  <2>4. LoadingInv'
    BY <2>1, LayerConstants DEF LoadingInv
  <2> QED
    BY <2>2, <2>3, <2>4 DEF LayerInv
<1> QED
  BY <1>1, <1>2

LEMMA CallsKeepPlace ==
  ASSUME OtherCalls
  PROVE  UNCHANGED <<blockVars, mounting, loading, closing, file_system, writeback,
                     diskname>>
<1>1. UNCHANGED <<blockVars, mounting, loading, closing>>
  BY DEF OtherCalls
<1>2. ASSUME NEW n, C!fs_create(n) \/ C!fs_open(n) \/ (file_system # "null" /\ C!fs_delete(n))
      PROVE  UNCHANGED <<file_system, writeback, diskname>>
  BY <1>2 DEF C!fs_create, C!fs_open, C!fs_delete, C!Reports, C!whichDisk
<1>3. ASSUME NEW fd, C!fs_close(fd) \/ C!fs_stat(fd) \/ C!fs_write(fd) \/ C!fs_read(fd)
      PROVE  UNCHANGED <<file_system, writeback, diskname>>
  BY <1>3 DEF C!fs_close, C!fs_stat, C!fs_write, C!fs_read, C!Reports, C!whichDisk
<1>4. ASSUME NEW fd, NEW offset, C!fs_lseek(fd, offset)
      PROVE  UNCHANGED <<file_system, writeback, diskname>>
  BY <1>4 DEF C!fs_lseek, C!Reports, C!whichDisk
<1>5. C!fs_info \/ (file_system # "null" /\ C!fs_ls) => UNCHANGED <<file_system, writeback, diskname>>
  BY DEF C!fs_info, C!fs_ls, C!Reports, C!whichDisk
<1> QED
  BY <1>1, <1>2, <1>3, <1>4, <1>5 DEF OtherCalls

LEMMA LayerInvStep == LayerInv /\ [LayerNext]_layerVars => LayerInv'
<1> SUFFICES ASSUME LayerInv, [LayerNext]_layerVars
             PROVE  LayerInv'
  OBVIOUS
<1>1. CASE UNCHANGED layerVars
  BY <1>1, InvAtRest DEF layerVars, libVars
<1>2. CASE \E p \in Paths : MountBegins(p)
  BY <1>2, InvAtMountBegins
<1>3. CASE MountNameRefused
  BY <1>3, InvAtRest DEF MountNameRefused
<1>4. CASE ReadSuperblock
  BY <1>4, InvAtReadSuperblock
<1>5. CASE ReadFatBlock
  BY <1>5, InvAtReadFatBlock
<1>6. CASE ReadRoot
  BY <1>6, InvAtReadRoot
<1>7. CASE UmountBegins
  BY <1>7, InvAtUmountBegins
<1>8. CASE WriteFatBlock
  BY <1>8, InvAtWriteFatBlock
<1>9. CASE WriteRootAndFree
  BY <1>9, InvAtWriteRoot
<1>10. CASE CloseDisk
  BY <1>10, InvAtClose
<1>11. CASE OtherCalls
  BY <1>11, CallsKeepPlace, InvAtRest
<1>12. CASE LayerEnds
  BY <1>12, InvAtEnd
<1> QED
  BY <1>1, <1>2, <1>3, <1>4, <1>5, <1>6, <1>7, <1>8, <1>9, <1>10, <1>11, <1>12
  DEF LayerNext

LEMMA LayerInvariance == LayerSpec => []LayerInv
<1> QED
  BY LayerInvInit, LayerInvStep, PTL DEF LayerSpec

----------------------------------------------------------------------------
(* What the library writes.                                                *)

LEMMA OnlyWritesChangeFiles ==
  ASSUME LayerInv, LayerNext, files' # files
  PROVE  WriteFatBlock \/ WriteRootAndFree
<1>1. ASSUME NEW p \in Paths, MountBegins(p)
      PROVE  FALSE
  BY <1>1, OpenStep DEF MountBegins, LayerInv
<1>2. ~MountNameRefused /\ ~OtherCalls
  BY CallsKeepPlace DEF MountNameRefused, blockVars
<1>3. ~ReadSuperblock /\ ~ReadFatBlock /\ ~ReadRoot
  BY DEF ReadSuperblock, ReadFatBlock, ReadRoot
<1>4. ~LayerEnds
  BY EndStep DEF LayerEnds
<1>5. ~UmountBegins
  BY <1>4 DEF UmountBegins, blockVars
<1>6. ~CloseDisk
  BY CloseStep DEF CloseDisk, LayerInv, Phases
<1> QED
  BY <1>1, <1>2, <1>3, <1>4, <1>5, <1>6 DEF LayerNext

\* The units a write behind the superblock changes.
LEMMA ChangedIsMetadata ==
  ASSUME LayerInv, OnDisk, NEW b \in 1 .. root_dir_index, NEW data,
         D!block_write(b, data),
         NEW p \in DOMAIN files, NEW k \in 1 .. Len(files[p]), files'[p][k] # files[p][k]
  PROVE  /\ p = host[disk.fd]
         /\ k \in D!Place(SUPERBLOCK_INDEX + 1, 1) .. D!Place(root_dir_index, PerBlock)
<1>1. b \in 0 .. root_dir_index
  BY LayerConstants
<1>2. /\ UNCHANGED <<disk, host>>
      /\ \A q \in DOMAIN files : q # host[disk.fd] => files'[q] = files[q]
      /\ \A j \in 1 .. Len(DiskFile) :
            j \notin D!Place(b, 1) .. D!Place(b, PerBlock) => DiskFile'[j] = DiskFile[j]
  BY <1>1, WriteStep DEF LayerInv
<1>3. p = host[disk.fd]
  BY <1>2
<1>4. Len(files[p]) = Len(DiskFile)
  BY <1>3 DEF DiskFile
<1>5. k \in D!Place(b, 1) .. D!Place(b, PerBlock)
  BY <1>2, <1>3, <1>4 DEF DiskFile
<1>6. /\ 1 \in 0 .. root_dir_index /\ root_dir_index \in 0 .. root_dir_index
      /\ 1 \in Int /\ PerBlock \in Int
  BY LayerConstants
<1>7. /\ D!Place(1, 0) \in Nat /\ D!Place(1, 1) = D!Place(1, 0) + 1
      /\ D!Place(1, 0) + PerBlock <= D!Place(b, 0) \/ b = 1
  BY <1>1, <1>6, Places, LayerConstants
<1>8. /\ D!Place(b, 0) \in Nat /\ D!Place(b, 1) = D!Place(b, 0) + 1
      /\ D!Place(b, PerBlock) = D!Place(b, 0) + PerBlock
      /\ D!Place(b, 0) + PerBlock <= D!Place(root_dir_index, 0) \/ b = root_dir_index
  BY <1>1, <1>6, Places, LayerConstants
<1>9. /\ D!Place(root_dir_index, 0) \in Nat
      /\ D!Place(root_dir_index, PerBlock) = D!Place(root_dir_index, 0) + PerBlock
  BY <1>6, Places
<1>10. k \in D!Place(1, 1) .. D!Place(root_dir_index, PerBlock)
  BY <1>5, <1>7, <1>8, <1>9, LayerConstants
<1> QED
  BY <1>3, <1>10 DEF SUPERBLOCK_INDEX

\* fs_umount() writes behind the superblock and before the data blocks, to the
\* disk that was mounted, whichever of its transfers fail and wherever the
\* process is killed; no other call writes.
THEOREM OnlyMetadataWrittenHolds == LayerSpec => OnlyMetadataWritten
<1> DEFINE kept ==
      \A p \in DOMAIN files : \A k \in 1 .. Len(files[p]) :
         files'[p][k] # files[p][k]
            => /\ p = diskname /\ writeback # C!NotWriting
               /\ k \in D!Place(SUPERBLOCK_INDEX + 1, 1) .. D!Place(root_dir_index, PerBlock)
<1>1. LayerInv /\ [LayerNext]_layerVars => [kept]_layerVars
  <2> SUFFICES ASSUME LayerInv, LayerNext,
                      NEW p \in DOMAIN files, NEW k \in 1 .. Len(files[p]),
                      files'[p][k] # files[p][k]
               PROVE  /\ p = diskname /\ writeback # C!NotWriting
                      /\ k \in D!Place(SUPERBLOCK_INDEX + 1, 1)
                                  .. D!Place(root_dir_index, PerBlock)
    OBVIOUS
  <2>1. CASE WriteFatBlock
    <3>1. /\ writeback # C!NotWriting /\ writeback + 1 \in 1 .. root_dir_index
          /\ D!block_write(writeback + 1, FatBuffer(fat_blocks, writeback))
      BY <2>1, LayerConstants DEF WriteFatBlock, FatPlace
    <3>2. OnDisk /\ host[disk.fd] = diskname
      BY <3>1 DEF LayerInv, Phases
    <3> QED
      BY <3>1, <3>2, ChangedIsMetadata
  <2>2. CASE WriteRootAndFree
    <3>1. /\ writeback # C!NotWriting /\ root_dir_index \in 1 .. root_dir_index
          /\ D!block_write(root_dir_index, RootBuffer(C!RootBlock(root_dir)))
      BY <2>2, LayerConstants DEF WriteRootAndFree
    <3>2. OnDisk /\ host[disk.fd] = diskname
      BY <3>1 DEF LayerInv, Phases
    <3> QED
      BY <3>1, <3>2, ChangedIsMetadata
  <2> QED
    BY <2>1, <2>2, OnlyWritesChangeFiles
<1>2. LayerSpec => [][kept]_layerVars
  BY <1>1, LayerInvariance, PTL DEF LayerSpec
<1> QED
  BY <1>2 DEF OnlyMetadataWritten

----------------------------------------------------------------------------
(* Implementing FileSystem, step by step.                                  *)

LEMMA InitImplements == LayerInit => L!Init
<1> SUFFICES ASSUME LayerInit
             PROVE  L!Init
  OBVIOUS
<1>1. C!Init /\ closing = FALSE
  BY DEF LayerInit
<1> QED
  BY <1>1 DEF C!Init, L!Init, C!ZeroFat, L!ZeroFat, C!FatIndex, L!FatIndex,
     C!ZeroDir, L!ZeroDir, C!EntryIndex, L!EntryIndex, C!ZeroEntry, L!ZeroEntry,
     C!NotWriting, L!NotWriting, C!NoCall, L!NoCall, C!NoArg, L!NoArg,
     C!FdInit, L!FdInit, C!Fds, L!Fds, C!UnusedEntry, L!UnusedEntry

\* Steps of the process that FileSystem does not see.
LEMMA StutterImplements ==
  ASSUME UNCHANGED <<libVars, closing, files, DiskState>>
  PROVE  UNCHANGED L!vars
  BY DEF libVars, L!vars, L!fsVars, L!fdVars, L!whichDisk, DiskImages

LEMMA EndImplements ==
  ASSUME LayerEnds
  PROVE  L!ProcessEnds
<1>1. ~D!IsOpen' /\ files' = files /\ closing' = FALSE /\ DiskState' = "closed"
  BY EndStep DEF LayerEnds, DiskState
<1> QED
  BY <1>1 DEF LayerEnds, C!ProcessEnds, L!ProcessEnds, C!ZeroFat, L!ZeroFat,
     C!FatIndex, L!FatIndex, C!ZeroDir, L!ZeroDir, C!EntryIndex, L!EntryIndex,
     C!ZeroEntry, L!ZeroEntry, C!NotWriting, L!NotWriting, C!NoCall, L!NoCall,
     C!NoArg, L!NoArg, C!ResetTable, L!ResetTable, C!Fds, L!Fds, C!UnusedEntry, L!UnusedEntry,
     C!whichDisk, L!whichDisk, DiskImages

\* A mount that is refused before it reads.
LEMMA RefusalImplements ==
  ASSUME AtRest, C!Idle, C!Returns("fs_mount", C!NoArg, -1),
         UNCHANGED <<file_system, fat_blocks, root_dir, writeback, damaged, fd_table,
                     fd_open_count, diskname, opened_on, closing, files, DiskState>>
  PROVE  \E d \in Disks : L!fs_mount(d)
<1>1. PICK d \in Disks : TRUE
  BY LayerAssumption
<1>2. L!fs_mount(d)
  BY DEF AtRest, C!Idle, L!Idle, C!NotWriting, L!NotWriting, C!Returns, L!Returns,
     C!NoArg, L!NoArg, L!fs_mount, L!MountRefused, L!fdVars, L!whichDisk, DiskImages
<1> QED
  BY <1>2

LEMMA MountBeginsImplements ==
  ASSUME LayerInv, NEW p \in Paths, MountBegins(p)
  PROVE  (\E d \in Disks : L!fs_mount(d)) \/ UNCHANGED L!vars
<1>1. /\ files' = files
      /\ answer'.value = 0 => ~D!IsOpen
      /\ answer'.value # 0 => UNCHANGED D!IsOpen
  BY OpenStep DEF LayerInv, MountBegins
<1>2. CASE answer'.value = 0
  <2>1. DiskState = "closed" /\ DiskState' = "closed"
    BY <1>1, <1>2, LayerConstants DEF MountBegins, DiskState
  <2> QED
    BY <1>1, <1>2, <2>1, StutterImplements DEF MountBegins, libVars
<1>3. CASE answer'.value # 0
  <2>1. UNCHANGED DiskState
    BY <1>1, <1>3 DEF MountBegins, DiskState
  <2> QED
    BY <1>1, <1>3, <2>1, RefusalImplements DEF MountBegins
<1> QED
  BY <1>2, <1>3

LEMMA NameRefusedImplements ==
  ASSUME MountNameRefused
  PROVE  \E d \in Disks : L!fs_mount(d)
<1>1. UNCHANGED DiskState
  BY DEF MountNameRefused, blockVars, DiskState, D!IsOpen
<1> QED
  BY <1>1, RefusalImplements DEF MountNameRefused, blockVars

LEMMA SuperblockImplements ==
  ASSUME LayerInv, ReadSuperblock
  PROVE  (\E d \in Disks : L!fs_mount(d)) \/ UNCHANGED L!vars
<1>1. /\ mounting # NotMounting /\ D!IsOpen /\ ~closing /\ C!Idle
      /\ UNCHANGED <<files, disk, closing>>
  BY LayerConstants DEF ReadSuperblock, LayerInv, Phases
<1>2. DiskState = "closed" /\ UNCHANGED D!IsOpen
  BY <1>1 DEF DiskState, D!IsOpen
<1>3. CASE answer'.data[1] \in Accepted[host[disk.fd]]
  <2>1. DiskState' = "closed"
    BY <1>3, LayerConstants DEF ReadSuperblock, DiskState
  <2> QED
    BY <1>1, <1>2, <1>3, <2>1, StutterImplements DEF ReadSuperblock, libVars
<1>4. CASE answer'.data[1] \notin Accepted[host[disk.fd]]
  <2>1. DiskState' = "open"
    BY <1>1, <1>2, <1>4 DEF ReadSuperblock, DiskState
  <2>2. PICK d \in Disks : d = diskname
    BY DEF LayerInv, Phases
  <2>3. L!MountUnchecked(d)
    BY <1>1, <1>2, <1>4, <2>1, <2>2 DEF ReadSuperblock, L!MountUnchecked, C!Returns,
       L!Returns, C!NoArg, L!NoArg, L!fdVars, DiskImages
  <2> QED
    BY <1>1, <2>3 DEF L!fs_mount, C!Idle, L!Idle, C!NotWriting, L!NotWriting
<1> QED
  BY <1>3, <1>4

LEMMA ReadFatBlockImplements ==
  ASSUME LayerInv, ReadFatBlock
  PROVE  UNCHANGED L!vars
<1>1. mounting # NotMounting /\ mounting' # NotMounting
  BY LayerConstants DEF ReadFatBlock
<1>2. DiskState = "closed" /\ DiskState' = "closed"
  BY <1>1 DEF DiskState
<1> QED
  BY <1>2, StutterImplements DEF ReadFatBlock

\* The two instances of FileSystem differ in what the last call has returned.
LEMMA SameLoading ==
  /\ \A blocks, unread : L!LoadFat(blocks, unread) = C!LoadFat(blocks, unread)
  /\ L!FatIndex = C!FatIndex /\ L!EntryIndex = C!EntryIndex /\ L!OnRootBlock = 0 .. Whole
  /\ L!ZeroFat = C!ZeroFat /\ L!ZeroDir = C!ZeroDir
  /\ L!NotWriting = C!NotWriting /\ L!NoCall = C!NoCall /\ L!NoArg = C!NoArg
  BY DEF L!LoadFat, C!LoadFat, L!Covering, C!Covering, L!FatIndex, C!FatIndex,
     L!Max, C!Max, L!EntryIndex, C!EntryIndex, L!OnRootBlock, L!ZeroFat, C!ZeroFat,
     L!ZeroDir, C!ZeroDir, L!ZeroEntry, C!ZeroEntry, L!NotWriting, C!NotWriting,
     L!NoCall, C!NoCall, L!NoArg, C!NoArg

\* The FAT does not depend on the read of the root block.
LEMMA FatUnreadOnly ==
  ASSUME NEW blocks, NEW unread, NEW missed,
         \A i \in 0 .. FatBlocks - 1 : i \in unread <=> i \in missed
  PROVE  C!LoadFat(blocks, unread) = C!LoadFat(blocks, missed)
<1>1. \A k : C!Covering(k, unread) = C!Covering(k, missed)
  BY DEF C!Covering
<1> QED
  BY <1>1 DEF C!LoadFat

\* What root_dir holds once the root block has arrived, or has not.
LEMMA RootArrives ==
  ASSUME LayerInv, OnDisk, NEW heap \in [0 .. NEntries - 1 -> Garbage],
         D!block_read(root_dir_index, RootBuffer(heap))
  PROVE  LET dir == [i \in 0 .. NEntries - 1 |->
                        IF i < Whole THEN answer'.data[i + 1]
                        ELSE IF i = Whole
                        THEN [answer'.data[i + 1] EXCEPT !.isEmpty = heap[i].isEmpty]
                        ELSE heap[i]]
         IN  /\ UNCHANGED <<files, disk, host>>
             /\ answer'.value # 0 => "io" \in DiskFaults /\ dir = heap
             /\ answer'.value = 0 => dir = L!LoadRoot(ImageOf(DiskFile).root, heap)
<1> DEFINE buffer == RootBuffer(heap)
           dir == [i \in 0 .. NEntries - 1 |->
                      IF i < Whole THEN answer'.data[i + 1]
                      ELSE IF i = Whole
                      THEN [answer'.data[i + 1] EXCEPT !.isEmpty = heap[i].isEmpty]
                      ELSE heap[i]]
<1>1. root_dir_index \in 0 .. root_dir_index
  BY LayerConstants
<1>2. \A i \in 0 .. Whole :
         i \in 0 .. NEntries - 1 /\ i + 1 \in 1 .. PerBlock /\ i + 1 - 1 = i
  BY LayerConstants
<1>3. \A i \in 0 .. NEntries - 1 : i < Whole \/ i = Whole => i \in 0 .. Whole
  BY LayerConstants
<1>4. CASE answer'.value # 0 /\ answer'.data = buffer /\ "io" \in DiskFaults
  <2>1. \A i \in 0 .. Whole : answer'.data[i + 1] = heap[i]
    BY <1>2, <1>4 DEF RootBuffer
  <2>2. \A i \in 0 .. NEntries - 1 : [heap[i] EXCEPT !.isEmpty = heap[i].isEmpty] = heap[i]
    BY LibraryAssumption DEF C!Entry
  <2>3. \A i \in 0 .. NEntries - 1 : dir[i] = heap[i]
    BY <1>3, <2>1, <2>2
  <2>4. dir = heap
    BY <2>3
  <2> QED
    BY <1>4, <2>4, ReadStep, <1>1 DEF LayerInv
<1>5. CASE /\ answer'.value = 0
           /\ answer'.data = [u \in 1 .. PerBlock |-> DiskFile[D!Place(root_dir_index, u)]]
  <2>1. \A i \in 0 .. Whole : answer'.data[i + 1] = ImageOf(DiskFile).root[i]
    BY <1>2, <1>5 DEF ImageOf
  <2>2. dir = L!LoadRoot(ImageOf(DiskFile).root, heap)
    BY <1>3, <2>1 DEF L!LoadRoot, L!EntryIndex
  <2> QED
    BY <1>5, <2>2, ReadStep, <1>1 DEF LayerInv
<1> QED
  BY <1>1, <1>4, <1>5, ReadStep DEF LayerInv

LEMMA ReadRootImplements ==
  ASSUME LayerInv, ReadRoot
  PROVE  \E d \in Disks : L!fs_mount(d)
<1> DEFINE unread == loading.missed \cup IF answer'.value # 0 THEN {FatBlocks} ELSE {}
<1>1. /\ mounting = FatBlocks + 1 /\ mounting # NotMounting /\ mounting > 0
      /\ FatBlocks \in Int /\ mounting' = NotMounting
  BY LayerConstants DEF ReadRoot
<1>2. OnDisk /\ ~closing /\ C!Idle /\ D!IsOpen
  BY <1>1 DEF LayerInv, Phases, OnDisk
<1>3. PICK heap \in [0 .. NEntries - 1 -> Garbage] :
         /\ D!block_read(root_dir_index, RootBuffer(heap))
         /\ root_dir' =
               [i \in 0 .. NEntries - 1 |->
                   IF i < Whole THEN answer'.data[i + 1]
                   ELSE IF i = Whole
                   THEN [answer'.data[i + 1] EXCEPT !.isEmpty = heap[i].isEmpty]
                   ELSE heap[i]]
  BY DEF ReadRoot
<1>4. /\ UNCHANGED <<files, disk, host>>
      /\ answer'.value # 0 => "io" \in DiskFaults /\ root_dir' = heap
      /\ answer'.value = 0 => root_dir' = L!LoadRoot(ImageOf(DiskFile).root, heap)
  BY <1>2, <1>3, RootArrives
<1>5. /\ loading.missed \subseteq 0 .. FatBlocks - 1
      /\ loading.missed # {} => "io" \in DiskFaults
      /\ loading.fat = C!LoadFat(ImageOf(DiskFile).fat, loading.missed \cup (FatBlocks .. FatBlocks - 1))
  <2>1. mounting - 1 = FatBlocks /\ mounting - 2 = FatBlocks - 1
    BY <1>1
  <2> QED
    BY <1>1, <2>1 DEF LayerInv, LoadingInv
<1>6. loading.fat = L!LoadFat(ImageOf(DiskFile).fat, unread)
  <2>1. \A i \in 0 .. FatBlocks - 1 :
           i \in unread <=> i \in loading.missed \cup (FatBlocks .. FatBlocks - 1)
    BY <1>1
  <2> QED
    BY <1>5, <2>1, FatUnreadOnly, SameLoading
<1>7. FatBlocks \in unread <=> answer'.value # 0
  BY <1>1, <1>5
<1>8. unread \in L!UnreadBlocks
  <2>1. unread \subseteq 0 .. FatBlocks
    BY <1>1, <1>5, LayerConstants
  <2>2. unread # {} => "io" \in TransferFaults
    BY <1>4, <1>5 DEF TransferFaults
  <2> QED
    BY <2>1, <2>2 DEF L!UnreadBlocks
<1>9. unread # {} <=> loading.missed # {} \/ answer'.value # 0
  OBVIOUS
<1> HIDE DEF unread
<1>10. DiskState = "closed" /\ DiskState' = "open"
  BY <1>1, <1>2, <1>4 DEF DiskState, D!IsOpen, ReadRoot
<1>11. PICK d \in Disks : d = host[disk.fd]
  BY <1>2 DEF OnDisk
<1>12. DiskImages[d] = ImageOf(DiskFile)
  BY <1>11 DEF DiskImages, DiskFile
<1>13. root_dir' = IF FatBlocks \in unread THEN heap
                   ELSE L!LoadRoot(DiskImages[d].root, heap)
  BY <1>4, <1>7, <1>12
<1>14. damaged' = (damaged \/ unread # {}) /\ fat_blocks' = loading.fat
  BY <1>9 DEF ReadRoot
<1>15. heap \in [L!EntryIndex -> Garbage]
  BY <1>3 DEF L!EntryIndex
<1>16. L!MountLoaded(d)
  <2>1. /\ file_system' = "mounted" /\ C!Returns("fs_mount", C!NoArg, 0)
        /\ closing' = FALSE /\ diskname' = d
        /\ UNCHANGED <<writeback, fd_table, fd_open_count, opened_on, files>>
    BY <1>2, <1>11 DEF ReadRoot
  <2>2. L!Returns("fs_mount", L!NoArg, 0)
    BY <2>1, SameLoading DEF C!Returns, L!Returns
  <2>3. DiskImages' = DiskImages
    BY <2>1 DEF DiskImages
  <2>4. loading.fat = L!LoadFat(DiskImages[d].fat, unread)
    BY <1>6, <1>12
  <2> QED
    BY <1>8, <1>10, <1>13, <1>14, <1>15, <2>1, <2>2, <2>3, <2>4 DEF L!MountLoaded, L!fdVars
<1> QED
  BY <1>2, <1>16, SameLoading DEF L!fs_mount, C!Idle, L!Idle

\* A write to the open disk, seen as a change of the images.
LEMMA DiskImageWritten ==
  ASSUME LayerInv, OnDisk, host[disk.fd] = diskname,
         NEW b \in 0 .. root_dir_index, NEW data, D!block_write(b, data)
  PROVE  /\ UNCHANGED host[disk.fd]
         /\ diskname \in Disks /\ DiskImages[diskname] = ImageOf(DiskFile)
         /\ DiskImages' = [DiskImages EXCEPT ![diskname] = ImageOf(DiskFile')]
<1>1. /\ UNCHANGED <<disk, host>>
      /\ \A p \in DOMAIN files : p # host[disk.fd] => files'[p] = files[p]
  BY WriteStep DEF LayerInv
<1>2. DOMAIN files = DOMAIN Outset /\ Disks \subseteq DOMAIN Outset
  BY DEF LayerInv, FilesKept, Disks
<1>3. \A p \in Disks : p # diskname => ImageOf(files'[p]) = ImageOf(files[p])
  BY <1>1, <1>2
<1>4. DiskFile' = files'[diskname] /\ DiskFile = files[diskname] /\ diskname \in Disks
  BY <1>1 DEF DiskFile, OnDisk
<1> QED
  BY <1>1, <1>3, <1>4 DEF DiskImages

\* An image with the first m units of a buffer in one of its blocks.
FatOver(img, i, data, m) ==
    [img EXCEPT !.fat[i] =
        [j \in 0 .. PerBlock - 1 |-> IF j < m THEN data[j + 1] ELSE @[j]]]
RootOver(img, data, m) ==
    [img EXCEPT !.root = [k \in 0 .. Whole |-> IF k < m THEN data[k + 1] ELSE @[k]]]

\* A new file that differs from the old one in the first m units of a block.
Overwrites(new, old, b, data, m) ==
    \A c \in 0 .. root_dir_index, u \in 1 .. PerBlock :
       new[D!Place(c, u)] = IF c = b /\ u <= m THEN data[u] ELSE old[D!Place(c, u)]

LEMMA FatImageOver ==
  ASSUME NEW old, NEW new, NEW i \in 0 .. FatBlocks - 1, NEW data, NEW m \in 0 .. PerBlock,
         Overwrites(new, old, FatPlace(i), data, m)
  PROVE  ImageOf(new) = FatOver(ImageOf(old), i, data, m)
<1>1. \A h \in 0 .. FatBlocks - 1, j \in 0 .. PerBlock - 1 :
         /\ h + 1 \in 0 .. root_dir_index /\ j + 1 \in 1 .. PerBlock
         /\ h + 1 = i + 1 <=> h = i
         /\ j + 1 <= m <=> j < m
  BY LayerConstants
<1>2. \A h \in 0 .. FatBlocks - 1, j \in 0 .. PerBlock - 1 :
         new[D!Place(h + 1, j + 1)] =
            IF h = i /\ j < m THEN data[j + 1] ELSE old[D!Place(h + 1, j + 1)]
  BY <1>1 DEF Overwrites, FatPlace
<1>3. \A k \in 0 .. Whole :
         new[D!Place(root_dir_index, k + 1)] = old[D!Place(root_dir_index, k + 1)]
  <2> SUFFICES ASSUME NEW k \in 0 .. Whole
               PROVE  new[D!Place(root_dir_index, k + 1)] = old[D!Place(root_dir_index, k + 1)]
    OBVIOUS
  <2>1. root_dir_index \in 0 .. root_dir_index /\ k + 1 \in 1 .. PerBlock
        /\ root_dir_index # FatPlace(i)
    BY LayerConstants DEF FatPlace
  <2> QED
    BY <2>1 DEF Overwrites
<1>4. ImageOf(new).root = ImageOf(old).root
  BY <1>3 DEF ImageOf
<1>5. \A h \in 0 .. FatBlocks - 1 : h # i => ImageOf(new).fat[h] = ImageOf(old).fat[h]
  BY <1>2 DEF ImageOf, FatPlace
<1>6. ImageOf(new).fat[i] =
         [j \in 0 .. PerBlock - 1 |-> IF j < m THEN data[j + 1] ELSE ImageOf(old).fat[i][j]]
  BY <1>2 DEF ImageOf, FatPlace
<1>7. /\ ImageOf(new) = [fat |-> ImageOf(new).fat, root |-> ImageOf(new).root]
      /\ ImageOf(old) = [fat |-> ImageOf(old).fat, root |-> ImageOf(old).root]
      /\ ImageOf(new).fat = [h \in 0 .. FatBlocks - 1 |-> ImageOf(new).fat[h]]
      /\ ImageOf(old).fat = [h \in 0 .. FatBlocks - 1 |-> ImageOf(old).fat[h]]
  BY DEF ImageOf
<1> DEFINE block == [j \in 0 .. PerBlock - 1 |->
                        IF j < m THEN data[j + 1] ELSE ImageOf(old).fat[i][j]]
<1>8. ImageOf(new).fat = [ImageOf(old).fat EXCEPT ![i] = block]
  BY <1>5, <1>6, <1>7
<1>9. FatOver(ImageOf(old), i, data, m)
         = [fat |-> [ImageOf(old).fat EXCEPT ![i] = block], root |-> ImageOf(old).root]
  <2>1. FatOver(ImageOf(old), i, data, m) = [ImageOf(old) EXCEPT !.fat[i] = block]
    BY DEF FatOver
  <2> HIDE DEF block
  <2> QED
    BY <1>7, <2>1
<1> QED
  BY <1>4, <1>7, <1>8, <1>9

LEMMA RootImageOver ==
  ASSUME NEW old, NEW new, NEW data, NEW m \in 0 .. PerBlock,
         Overwrites(new, old, root_dir_index, data, m)
  PROVE  ImageOf(new) = RootOver(ImageOf(old), data, m)
<1>1. \A k \in 0 .. Whole :
         /\ root_dir_index \in 0 .. root_dir_index /\ k + 1 \in 1 .. PerBlock
         /\ k + 1 <= m <=> k < m
  BY LayerConstants
<1>2. \A k \in 0 .. Whole :
         new[D!Place(root_dir_index, k + 1)] =
            IF k < m THEN data[k + 1] ELSE old[D!Place(root_dir_index, k + 1)]
  BY <1>1 DEF Overwrites
<1>3. \A h \in 0 .. FatBlocks - 1, j \in 0 .. PerBlock - 1 :
         new[D!Place(h + 1, j + 1)] = old[D!Place(h + 1, j + 1)]
  <2> SUFFICES ASSUME NEW h \in 0 .. FatBlocks - 1, NEW j \in 0 .. PerBlock - 1
               PROVE  new[D!Place(h + 1, j + 1)] = old[D!Place(h + 1, j + 1)]
    OBVIOUS
  <2>1. h + 1 \in 0 .. root_dir_index /\ h + 1 # root_dir_index /\ j + 1 \in 1 .. PerBlock
    BY LayerConstants
  <2> QED
    BY <2>1 DEF Overwrites
<1>4. ImageOf(new).fat = ImageOf(old).fat
  BY <1>3 DEF ImageOf, FatPlace
<1>5. ImageOf(new).root =
         [k \in 0 .. Whole |-> IF k < m THEN data[k + 1] ELSE ImageOf(old).root[k]]
  BY <1>2 DEF ImageOf
<1>6. /\ ImageOf(new) = [fat |-> ImageOf(new).fat, root |-> ImageOf(new).root]
      /\ ImageOf(old) = [fat |-> ImageOf(old).fat, root |-> ImageOf(old).root]
  BY DEF ImageOf
<1> QED
  BY <1>4, <1>5, <1>6 DEF RootOver

\* What a write of fs_umount makes of the image: nothing is lost, or some last
\* units of the block.
LEMMA ImageWritten ==
  ASSUME LayerInv, OnDisk, NEW b \in 0 .. root_dir_index, NEW data,
         D!block_write(b, data)
  PROVE  \E m \in 0 .. PerBlock :
            /\ m < PerBlock => TransferFaults = {"io"}
            /\ Overwrites(DiskFile', DiskFile, b, data, m)
            /\ Overwrites(D!Stored(DiskFile, b, data, PerBlock), DiskFile, b, data, PerBlock)
<1>0. FilesKept /\ DeviceWhole
  BY DEF LayerInv
<1>1. PICK m \in 0 .. PerBlock :
         /\ m < PerBlock => DiskFaults # {}
         /\ \A c \in 0 .. root_dir_index, u \in 1 .. PerBlock :
               DiskFile'[D!Place(c, u)] =
                  IF c = b /\ u <= m THEN data[u] ELSE DiskFile[D!Place(c, u)]
  BY <1>0, WriteStep
<1>2. IsFile(DiskFile) /\ PerBlock \in 1 .. PerBlock
  BY DiskHasBlocks, LayerConstants DEF LayerInv
<1>3. Overwrites(D!Stored(DiskFile, b, data, PerBlock), DiskFile, b, data, PerBlock)
  BY <1>2, StoredBlock DEF Overwrites
<1> QED
  BY <1>1, <1>3 DEF Overwrites, TransferFaults

LEMMA WriteFatBlockImplements ==
  ASSUME LayerInv, WriteFatBlock
  PROVE  L!WriteFatBlock
<1> DEFINE i == writeback
           data == FatBuffer(fat_blocks, i)
           old == ImageOf(DiskFile)
<1>1. /\ i \in 0 .. FatBlocks - 1 /\ i # C!NotWriting
      /\ FatPlace(i) \in 0 .. root_dir_index
      /\ D!block_write(FatPlace(i), data)
      /\ damaged' = (damaged \/ Lost(FatPlace(i), data))
      /\ PerBlock \in Nat
  BY LayerConstants DEF WriteFatBlock, FatPlace
<1>2. OnDisk /\ host[disk.fd] = diskname /\ ~closing /\ mounting = NotMounting
  BY <1>1 DEF LayerInv, Phases, WriteFatBlock, AtRest
<1> HIDE DEF i, data
<1>3. PICK m \in 0 .. PerBlock :
         /\ m < PerBlock => TransferFaults = {"io"}
         /\ Overwrites(DiskFile', DiskFile, FatPlace(i), data, m)
         /\ Overwrites(D!Stored(DiskFile, FatPlace(i), data, PerBlock), DiskFile,
                       FatPlace(i), data, PerBlock)
  BY <1>1, <1>2, ImageWritten
<1>4. /\ ImageOf(DiskFile') = FatOver(old, i, data, m)
      /\ ImageOf(D!Stored(DiskFile, FatPlace(i), data, PerBlock))
            = FatOver(old, i, data, PerBlock)
  BY <1>1, <1>3, FatImageOver
<1>5. \E part \in L!Transferred(PerBlock) :
         /\ ImageOf(DiskFile') = FatOver(old, i, data, part)
         /\ Lost(FatPlace(i), data) <=> part < PerBlock
  <2>1. Lost(FatPlace(i), data) <=> FatOver(old, i, data, m) # FatOver(old, i, data, PerBlock)
    BY <1>1, <1>2, <1>4, DiskImageWritten DEF Lost, DiskFile, D!OpenImage
  <2>2. CASE Lost(FatPlace(i), data)
    <3>1. m < PerBlock
      BY <1>1, <1>3, <2>1, <2>2
    <3>2. m \in L!Transferred(PerBlock)
      BY <1>3, <3>1 DEF L!Transferred
    <3> QED
      BY <1>4, <2>2, <3>1, <3>2
  <2>3. CASE ~Lost(FatPlace(i), data)
    <3>1. PerBlock \in L!Transferred(PerBlock) /\ ~(PerBlock < PerBlock)
      BY <1>1 DEF L!Transferred
    <3> QED
      BY <1>4, <2>1, <2>3, <3>1
  <2> QED
    BY <2>2, <2>3
<1>6. PICK part \in L!Transferred(PerBlock) :
         /\ ImageOf(DiskFile') = FatOver(old, i, data, part)
         /\ Lost(FatPlace(i), data) <=> part < PerBlock
  BY <1>5
<1>7. \A j \in 0 .. PerBlock - 1 : data[j + 1] = L!FatBlock(fat_blocks, i)[j]
  BY <1>1 DEF data, FatBuffer, L!FatBlock, i
<1>8. FatOver(old, i, data, part) =
         [old EXCEPT !.fat[i] =
             [j \in 0 .. PerBlock - 1 |->
                 IF j < part THEN L!FatBlock(fat_blocks, i)[j] ELSE @[j]]]
  BY <1>7 DEF FatOver
<1>9. damaged' = (damaged \/ part < PerBlock)
  BY <1>1, <1>6
<1>10. UNCHANGED DiskState /\ closing' = closing
  BY <1>1, <1>2, WriteStep DEF LayerInv, DiskState, D!IsOpen, WriteFatBlock
<1>11. /\ writeback \in 0 .. FatBlocks - 1 /\ writeback' = writeback + 1
       /\ ret' = L!NoCall
       /\ UNCHANGED <<file_system, fat_blocks, root_dir, fd_table, fd_open_count,
                      diskname, opened_on>>
  BY SameLoading DEF WriteFatBlock
<1>12. /\ DiskImages[diskname] = old
       /\ DiskImages' = [DiskImages EXCEPT ![diskname] = ImageOf(DiskFile')]
  BY <1>1, <1>2, DiskImageWritten
<1> HIDE DEF old
<1>13. \E p \in L!Transferred(PerBlock) :
          /\ DiskImages' =
                [DiskImages EXCEPT ![diskname].fat[writeback] =
                   [j \in 0 .. PerBlock - 1 |->
                      IF j < p THEN L!FatBlock(fat_blocks, writeback)[j] ELSE @[j]]]
          /\ damaged' = (damaged \/ p < PerBlock)
  BY <1>6, <1>8, <1>9, <1>12 DEF i
<1> QED
  BY <1>2, <1>10, <1>11, <1>13 DEF L!WriteFatBlock, L!fdVars, L!whichDisk

\* The memory is freed before the disk is closed; FileSystem sees both at once.
LEMMA WriteRootImplements ==
  ASSUME LayerInv, WriteRootAndFree
  PROVE  L!WriteRootAndRelease
<1> DEFINE block == C!RootBlock(root_dir)
           data == RootBuffer(block)
           old == ImageOf(DiskFile)
<1>1. /\ writeback = FatBlocks /\ writeback # C!NotWriting
      /\ root_dir_index \in 0 .. root_dir_index
      /\ D!block_write(root_dir_index, data)
      /\ damaged' = (damaged \/ Lost(root_dir_index, data))
      /\ Whole + 1 \in 0 .. PerBlock /\ Whole \in Nat /\ PerBlock \in 0 .. PerBlock
  BY LayerConstants DEF WriteRootAndFree
<1>2. OnDisk /\ host[disk.fd] = diskname /\ ~closing /\ mounting = NotMounting
  BY <1>1 DEF LayerInv, Phases, WriteRootAndFree, AtRest
<1>3. \A k \in 0 .. Whole : data[k + 1] = L!RootBlock(root_dir)[k]
  <2>1. \A k \in 0 .. Whole : k + 1 \in 1 .. PerBlock /\ k + 1 - 1 = k
    BY LayerConstants
  <2>2. block = L!RootBlock(root_dir) /\ DOMAIN block = 0 .. Whole
    BY DEF C!RootBlock, L!RootBlock, C!OnRootBlock, L!OnRootBlock
  <2> HIDE DEF block
  <2> QED
    BY <2>1, <2>2 DEF RootBuffer
<1> HIDE DEF data
<1>4. PICK m \in 0 .. PerBlock :
         /\ m < PerBlock => TransferFaults = {"io"}
         /\ Overwrites(DiskFile', DiskFile, root_dir_index, data, m)
         /\ Overwrites(D!Stored(DiskFile, root_dir_index, data, PerBlock), DiskFile,
                       root_dir_index, data, PerBlock)
  BY <1>1, <1>2, ImageWritten
<1>5. /\ ImageOf(DiskFile') = RootOver(old, data, m)
      /\ ImageOf(D!Stored(DiskFile, root_dir_index, data, PerBlock))
            = RootOver(old, data, PerBlock)
  BY <1>1, <1>4, RootImageOver
<1>6. \A n \in 0 .. PerBlock : n >= Whole + 1 =>
         RootOver(old, data, n) = RootOver(old, data, Whole + 1)
  <2> SUFFICES ASSUME NEW n \in 0 .. PerBlock, n >= Whole + 1
               PROVE  RootOver(old, data, n) = RootOver(old, data, Whole + 1)
    OBVIOUS
  <2>1. \A k \in 0 .. Whole : k < n /\ k < Whole + 1
    BY <1>1
  <2> QED
    BY <2>1 DEF RootOver
<1>7. PICK part \in L!Transferred(Whole + 1) :
         /\ ImageOf(DiskFile') = RootOver(old, data, part)
         /\ Lost(root_dir_index, data) <=> part < Whole + 1
  <2>1. Lost(root_dir_index, data) <=> RootOver(old, data, m) # RootOver(old, data, PerBlock)
    BY <1>1, <1>2, <1>5, DiskImageWritten DEF Lost, DiskFile, D!OpenImage
  <2>2. RootOver(old, data, PerBlock) = RootOver(old, data, Whole + 1)
    BY <1>1, <1>6
  <2>3. CASE Lost(root_dir_index, data)
    <3>1. m < Whole + 1
      BY <1>1, <1>4, <1>6, <2>1, <2>2, <2>3
    <3>2. m \in L!Transferred(Whole + 1)
      BY <1>1, <1>4, <3>1 DEF L!Transferred
    <3> QED
      BY <1>5, <2>3, <3>1, <3>2
  <2>4. CASE ~Lost(root_dir_index, data)
    <3>1. Whole + 1 \in L!Transferred(Whole + 1) /\ ~(Whole + 1 < Whole + 1)
      BY <1>1 DEF L!Transferred
    <3> QED
      BY <1>5, <2>1, <2>2, <2>4, <3>1
  <2> QED
    BY <2>3, <2>4
<1>8. RootOver(old, data, part) =
         [old EXCEPT !.root =
             [i \in L!OnRootBlock |-> IF i < part THEN L!RootBlock(root_dir)[i] ELSE @[i]]]
  BY <1>3 DEF RootOver, L!OnRootBlock
<1>9. damaged' = (damaged \/ part < Whole + 1)
  BY <1>1, <1>7
<1>10. DiskState' = "closed" /\ closing' = TRUE
  BY DEF WriteRootAndFree, DiskState
<1>11. L!Returns("fs_umount", L!NoArg, 0)
  BY <1>10 DEF L!Returns, L!NoArg
<1>12. /\ file_system' = "freed" /\ fat_blocks' = L!ZeroFat /\ root_dir' = L!ZeroDir
       /\ writeback' = L!NotWriting
       /\ UNCHANGED <<fd_table, fd_open_count, diskname, opened_on>>
  BY SameLoading DEF WriteRootAndFree
<1>13. /\ DiskImages[diskname] = old
       /\ DiskImages' = [DiskImages EXCEPT ![diskname] = ImageOf(DiskFile')]
  BY <1>1, <1>2, DiskImageWritten
<1> HIDE DEF old
<1>14. \E p \in L!Transferred(Whole + 1) :
          /\ DiskImages' =
                [DiskImages EXCEPT ![diskname].root =
                   [i \in L!OnRootBlock |-> IF i < p THEN L!RootBlock(root_dir)[i] ELSE @[i]]]
          /\ damaged' = (damaged \/ p < Whole + 1)
  BY <1>7, <1>8, <1>9, <1>13
<1> QED
  BY <1>1, <1>10, <1>11, <1>12, <1>14 DEF L!WriteRootAndRelease, L!fdVars, L!whichDisk

\* Nothing is left to do for FileSystem once the memory is freed.
LEMMA CloseImplements ==
  ASSUME LayerInv, CloseDisk
  PROVE  UNCHANGED L!vars
<1>1. D!IsOpen /\ closing /\ closing' = FALSE
  BY DEF CloseDisk, LayerInv, Phases
<1>2. files' = files /\ ~D!IsOpen' /\ answer'.value = 0
  BY <1>1, CloseStep DEF LayerInv, CloseDisk
<1>3. DiskState = "closed" /\ DiskState' = "closed"
  BY <1>1, <1>2 DEF DiskState
<1>4. ret' = [call |-> "fs_umount", arg |-> 0, value |-> 0]
  BY <1>2 DEF CloseDisk, C!Returns, C!NoArg
<1> QED
  BY <1>1, <1>2, <1>3, <1>4 DEF CloseDisk, L!vars, L!fsVars, L!fdVars, L!whichDisk, DiskImages

LEMMA UmountBeginsImplements ==
  ASSUME LayerInv, UmountBegins
  PROVE  L!fs_umount
<1>1. CASE file_system \in {"null", "freed"}
  BY <1>1, EndImplements, SameLoading DEF UmountBegins, L!fs_umount, C!Idle, L!Idle
<1>2. CASE file_system \notin {"null", "freed"}
  <2>1. /\ ~closing /\ UNCHANGED <<blockVars, mounting, closing>>
        /\ C!Mounted /\ C!fs_umount
    BY <1>2 DEF UmountBegins, AtRest
  <2>2. UNCHANGED <<DiskState, files>>
    BY <2>1 DEF blockVars, DiskState, D!IsOpen
  <2>3. /\ C!Idle /\ writeback' = 0 /\ ret' = C!NoCall
        /\ UNCHANGED <<file_system, fat_blocks, root_dir, damaged, fd_table, fd_open_count,
                       diskname, opened_on>>
    BY <2>1 DEF C!fs_umount, C!Mounted, C!fdVars, C!whichDisk
  <2> QED
    BY <2>1, <2>2, <2>3, SameLoading DEF L!fs_umount, C!Idle, L!Idle, C!Mounted, L!Mounted,
       L!fdVars, L!whichDisk, DiskImages
<1> QED
  BY <1>1, <1>2

\* What the calls that transfer nothing look at and leave as it is.
LEMMA SameCallParts ==
  ASSUME closing = FALSE, closing' = FALSE
  PROVE  /\ L!MaybeName = C!MaybeName /\ L!FdArgs = C!FdArgs
         /\ L!Mounted = C!Mounted /\ L!Dangling = C!Dangling /\ L!Idle = C!Idle
         /\ \A call, arg, value : L!Returns(call, arg, value) <=> C!Returns(call, arg, value)
         /\ \A n : L!isValidName(n) = C!isValidName(n)
         /\ \A fd : L!isValidFD(fd) = C!isValidFD(fd)
         /\ L!Fds = C!Fds
         /\ \A dir, n : L!Matches(dir, n) = C!Matches(dir, n)
         /\ \A dir : L!FreeEntries(dir) = C!FreeEntries(dir)
         /\ \A numbers : L!Max(numbers) = C!Max(numbers) /\ L!Min(numbers) = C!Min(numbers)
  BY DEF L!MaybeName, C!MaybeName, L!FdArgs, C!FdArgs, L!Mounted, C!Mounted, L!Dangling,
     C!Dangling, L!Idle, C!Idle, L!NotWriting, C!NotWriting, L!Returns, C!Returns,
     L!isValidName, C!isValidName, L!isValidFD, C!isValidFD, L!Fds, C!Fds, L!Named, C!Named,
     L!Matches, C!Matches, L!EntryIndex, C!EntryIndex, L!FreeEntries, C!FreeEntries,
     L!Max, C!Max, L!Min, C!Min

LEMMA SameReports ==
  ASSUME closing = FALSE, closing' = FALSE, UNCHANGED <<DiskState, files>>
  PROVE  \A call, arg, value : C!Reports(call, arg, value) => L!Reports(call, arg, value)
  BY SameCallParts DEF C!Reports, L!Reports, C!fdVars, L!fdVars, C!whichDisk, L!whichDisk,
     DiskImages

LEMMA CreateImplements ==
  ASSUME closing = FALSE, closing' = FALSE, UNCHANGED <<DiskState, files>>,
         NEW n, C!fs_create(n)
  PROVE  L!fs_create(n)
<1>1. C!CreateRefused(n) => L!CreateRefused(n)
  BY SameCallParts DEF C!CreateRefused, L!CreateRefused
<1>2. L!FillFree(root_dir, n) = C!FillFree(root_dir, n)
  BY DEF L!FillFree, C!FillFree, L!NewEntry, C!NewEntry, L!FAT_EOC, C!FAT_EOC,
     L!EntryIndex, C!EntryIndex
<1> QED
  BY <1>1, <1>2, SameCallParts, SameReports DEF C!fs_create, L!fs_create, C!fdVars, L!fdVars,
     C!whichDisk, L!whichDisk, DiskImages

LEMMA OpenImplements ==
  ASSUME closing = FALSE, closing' = FALSE, UNCHANGED <<DiskState, files>>,
         NEW n, C!fs_open(n)
  PROVE  L!fs_open(n)
<1>1. C!OpenRefused(n) => L!OpenRefused(n)
  BY SameCallParts DEF C!OpenRefused, L!OpenRefused
<1>2. C!OpenAccepted(n) => L!OpenAccepted(n)
  BY SameCallParts DEF C!OpenAccepted, L!OpenAccepted
<1>3. C!OpenEntry(n) => L!OpenEntry(n)
  BY DEF C!OpenEntry, L!OpenEntry
<1> QED
  <2>1. CASE C!OpenRefused(n) /\ C!Reports("fs_open", n, -1)
    BY <1>1, <2>1, SameCallParts, SameReports DEF C!fs_open, L!fs_open
  <2>2. CASE ~(C!OpenRefused(n) /\ C!Reports("fs_open", n, -1))
    <3>1. /\ C!Idle /\ C!OpenAccepted(n) /\ C!OpenEntry(n)
          /\ damaged' = (damaged \/ C!Dangling)
          /\ C!Returns("fs_open", n, fd_open_count)
          /\ opened_on' = [opened_on EXCEPT ![fd_open_count] = diskname]
          /\ UNCHANGED <<file_system, fat_blocks, root_dir, writeback, diskname>>
      BY <2>2 DEF C!fs_open
    <3>2. L!Idle /\ L!Returns("fs_open", n, fd_open_count) /\ L!Dangling = C!Dangling
      BY <3>1, SameCallParts
    <3> QED
      BY <1>2, <1>3, <3>1, <3>2 DEF L!fs_open, DiskImages
  <2> QED
    BY <2>1, <2>2

\* The same blocks are freed, however long the chain.
LEMMA DeleteImplements ==
  ASSUME closing = FALSE, closing' = FALSE, UNCHANGED <<DiskState, files>>,
         file_system # "null", NEW n, C!fs_delete(n)
  PROVE  L!fs_delete(n)
<1>1. \A fat, first, rounds : L!FreeChain(fat, first, rounds) = C!FreeChain(fat, first, rounds)
  <2>1. \A fat, first, rounds : L!Walk(fat, first, rounds) = C!Walk(fat, first, rounds)
    BY DEF L!Walk, C!Walk, L!FatRead, C!FatRead, L!FatIndex, C!FatIndex
  <2> QED
    BY <2>1 DEF L!FreeChain, C!FreeChain, L!Walked, C!Walked, L!FatIndex, C!FatIndex
<1>2. \A entry : L!WholeBlocks(entry) = C!WholeBlocks(entry)
  BY DEF L!WholeBlocks, C!WholeBlocks
<1>3. L!ClearMatches(root_dir, n) = C!ClearMatches(root_dir, n)
  BY DEF L!ClearMatches, C!ClearMatches, L!EntryIndex, C!EntryIndex, L!FAT_EOC, C!FAT_EOC
<1>4. L!Victim(root_dir, n) = C!Victim(root_dir, n)
  BY SameCallParts DEF L!Victim, C!Victim
<1>5. \A rounds : L!Misled(root_dir, n, rounds) = C!Misled(root_dir, n, rounds)
  BY <1>2, SameCallParts DEF L!Misled, C!Misled, L!OnRootBlock, C!OnRootBlock
<1>6. CASE C!Dangling /\ C!Reports("fs_delete", n, 0)
  BY <1>6, SameCallParts, SameReports DEF C!fs_delete, L!fs_delete
<1>7. CASE ~(C!Dangling /\ C!Reports("fs_delete", n, 0))
  BY <1>1, <1>2, <1>3, <1>4, <1>7, <1>5, SameCallParts
  DEF C!fs_delete, L!fs_delete, C!fdVars, L!fdVars, C!whichDisk, L!whichDisk, DiskImages
<1> QED
  BY <1>6, <1>7

LEMMA DescriptorCallsImplement ==
  ASSUME closing = FALSE, closing' = FALSE, UNCHANGED <<DiskState, files>>, NEW fd
  PROVE  /\ C!fs_close(fd) => L!fs_close(fd)
         /\ C!fs_stat(fd) => L!fs_stat(fd)
         /\ C!fs_write(fd) => L!fs_write(fd)
         /\ C!fs_read(fd) => L!fs_read(fd)
         /\ \A offset : C!fs_lseek(fd, offset) => L!fs_lseek(fd, offset)
<1>1. C!fs_close(fd) => L!fs_close(fd)
  <2>1. C!CloseEntry(fd) => L!CloseEntry(fd)
    BY DEF C!CloseEntry, L!CloseEntry, C!UnusedEntry, L!UnusedEntry, C!Named, L!Named
  <2> QED
    BY <2>1, SameCallParts, SameReports DEF C!fs_close, L!fs_close, C!whichDisk,
       L!whichDisk, DiskImages
<1>2. C!fs_stat(fd) => L!fs_stat(fd)
  <2>1. L!StatValues(fd) = C!StatValues(fd)
    BY DEF L!StatValues, C!StatValues, L!Matches, C!Matches, L!EntryIndex, C!EntryIndex,
       L!isValidFD, C!isValidFD, L!Fds, C!Fds, L!Named, C!Named, L!Dangling, C!Dangling,
       L!Min, C!Min
  <2> QED
    BY <2>1, SameCallParts, SameReports DEF C!fs_stat, L!fs_stat
<1>3. /\ C!fs_write(fd) => L!fs_write(fd)
      /\ C!fs_read(fd) => L!fs_read(fd)
  <2>1. L!Idle <=> C!Idle
    BY DEF L!Idle, C!Idle, L!NotWriting, C!NotWriting
  <2>2. C!fs_write(fd) => L!fs_write(fd)
    BY <2>1, SameReports DEF C!fs_write, L!fs_write
  <2>3. C!fs_read(fd) => L!fs_read(fd)
    BY <2>1, SameReports DEF C!fs_read, L!fs_read
  <2> QED
    BY <2>2, <2>3
<1>4. \A offset : C!fs_lseek(fd, offset) => L!fs_lseek(fd, offset)
  BY SameCallParts, SameReports DEF C!fs_lseek, L!fs_lseek, C!whichDisk,
     L!whichDisk, DiskImages
<1> QED
  BY <1>1, <1>2, <1>3, <1>4

LEMMA OtherCallsImplement ==
  ASSUME LayerInv, OtherCalls
  PROVE  L!Next
<1>1. /\ closing = FALSE /\ closing' = FALSE
      /\ UNCHANGED <<blockVars, mounting, closing>>
  BY DEF OtherCalls, AtRest, LayerInv, Phases
<1>2. UNCHANGED <<DiskState, files>>
  BY <1>1 DEF blockVars, DiskState, D!IsOpen
<1>3. L!MaybeName = C!MaybeName /\ L!FdArgs = C!FdArgs
  BY <1>1, SameCallParts
<1>4. CASE \E n \in C!MaybeName :
              C!fs_create(n) \/ C!fs_open(n) \/ (file_system # "null" /\ C!fs_delete(n))
  BY <1>1, <1>2, <1>3, <1>4, CreateImplements, OpenImplements, DeleteImplements DEF L!Next
<1>5. CASE \E fd \in C!FdArgs : \/ C!fs_close(fd) \/ C!fs_stat(fd)
                                \/ C!fs_write(fd) \/ C!fs_read(fd)
  BY <1>1, <1>2, <1>3, <1>5, DescriptorCallsImplement DEF L!Next
<1>6. CASE \E fd \in C!FdArgs, offset \in Offsets : C!fs_lseek(fd, offset)
  BY <1>1, <1>2, <1>3, <1>6, DescriptorCallsImplement DEF L!Next
<1>7. CASE C!fs_info
  <2>1. L!fs_info
    BY <1>1, <1>2, <1>7, SameReports, SameCallParts, SameLoading DEF C!fs_info, L!fs_info
  <2> QED
    BY <2>1 DEF L!Next
<1>8. CASE file_system # "null" /\ C!fs_ls
  <2>1. L!fs_ls
    BY <1>1, <1>2, <1>8, SameReports, SameCallParts, SameLoading DEF C!fs_ls, L!fs_ls
  <2> QED
    BY <2>1 DEF L!Next
<1> QED
  BY <1>4, <1>5, <1>6, <1>7, <1>8 DEF OtherCalls

LEMMA StepImplements ==
  LayerInv /\ [LayerNext]_layerVars => [L!Next]_(L!vars)
<1> SUFFICES ASSUME LayerInv, [LayerNext]_layerVars
             PROVE  L!Next \/ UNCHANGED L!vars
  OBVIOUS
<1>1. CASE UNCHANGED layerVars
  <2>1. UNCHANGED <<libVars, closing, files, DiskState>>
    BY <1>1 DEF layerVars, blockVars, DiskState, D!IsOpen
  <2> QED
    BY <2>1, StutterImplements
<1>2. CASE \E p \in Paths : MountBegins(p)
  BY <1>2, MountBeginsImplements DEF L!Next
<1>3. CASE MountNameRefused
  BY <1>3, NameRefusedImplements DEF L!Next
<1>4. CASE ReadSuperblock
  BY <1>4, SuperblockImplements DEF L!Next
<1>5. CASE ReadFatBlock
  BY <1>5, ReadFatBlockImplements
<1>6. CASE ReadRoot
  BY <1>6, ReadRootImplements DEF L!Next
<1>7. CASE UmountBegins
  BY <1>7, UmountBeginsImplements DEF L!Next
<1>8. CASE WriteFatBlock
  BY <1>8, WriteFatBlockImplements DEF L!Next
<1>9. CASE WriteRootAndFree
  BY <1>9, WriteRootImplements DEF L!Next
<1>10. CASE CloseDisk
  BY <1>10, CloseImplements
<1>11. CASE OtherCalls
  BY <1>11, OtherCallsImplement
<1>12. CASE LayerEnds
  BY <1>12, EndImplements DEF L!Next
<1> QED
  BY <1>1, <1>2, <1>3, <1>4, <1>5, <1>6, <1>7, <1>8, <1>9, <1>10, <1>11, <1>12
  DEF LayerNext

\* fs.c on disk.c is the library of FileSystem: whatever transfers fail or stop
\* early, wherever the process is killed, and whichever of the host's files are
\* opened, every transfer is a step of FileSystem or none.
THEOREM ImplementsFileSystemHolds == LayerSpec => ImplementsFileSystem
<1>1. LayerInit => L!Init
  BY InitImplements
<1>2. LayerInv /\ [LayerNext]_layerVars => [L!Next]_(L!vars)
  BY StepImplements
<1> QED
  BY <1>1, <1>2, LayerInvariance, PTL DEF LayerSpec, ImplementsFileSystem, L!Spec

----------------------------------------------------------------------------
(* What is known of the library, known of the host's files.                *)

\* The library with its theorems.
P == INSTANCE DirectoryProofs WITH
    images <- DiskImages, disk_fd <- DiskState,
    Images <- OutsetImages, Faults <- TransferFaults,
    ret <- IF closing THEN [call |-> "fs_umount", arg |-> 0, value |-> 0] ELSE ret

\* The disks' blocks hold what belongs there, and their chains are whole.
IntactAtOutset ==
    /\ OutsetImages \subseteq [Disks -> [fat : P!FatImage, root : P!RootImage]]
    /\ P!ChainsOnImages

\* The same definitions, reached through two names.
LEMMA SameInit == L!Init <=> P!Init
  BY DEF L!Init, P!Init, L!ZeroFat, P!ZeroFat, L!FatIndex, P!FatIndex, L!ZeroDir, P!ZeroDir,
     L!EntryIndex, P!EntryIndex, L!ZeroEntry, P!ZeroEntry, L!NotWriting, P!NotWriting,
     L!NoCall, P!NoCall, L!NoArg, P!NoArg, L!FdInit, P!FdInit, L!Fds, P!Fds,
     L!UnusedEntry, P!UnusedEntry

LEMMA SameVars == L!vars = P!vars /\ (L!vars)' = (P!vars)'
  BY DEF L!vars, P!vars, L!fsVars, P!fsVars, L!fdVars, P!fdVars, L!whichDisk, P!whichDisk

LEMMA SameNext == L!Next <=> P!Next
  BY Zenon
  DEF L!Idle, P!Idle, L!NotWriting, P!NotWriting, L!Mounted, P!Mounted, L!Dangling,
     P!Dangling, L!NoArg, P!NoArg, L!NoCall, P!NoCall, L!Returns, P!Returns, L!fdVars,
     P!fdVars, L!whichDisk, P!whichDisk, L!image, P!image, L!Misled, P!Misled,
     L!ProcessEnds, P!ProcessEnds, L!ZeroFat, P!ZeroFat, L!FatIndex,
     P!FatIndex, L!ZeroDir, P!ZeroDir, L!ZeroEntry, P!ZeroEntry, L!ResetTable,
     P!ResetTable, L!Fds, P!Fds, L!UnusedEntry, P!UnusedEntry, L!fs_mount, P!fs_mount,
     L!MountRefused, P!MountRefused, L!MountUnchecked, P!MountUnchecked, L!MountLoaded,
     P!MountLoaded, L!UnreadBlocks, P!UnreadBlocks, L!EntryIndex, P!EntryIndex,
     L!LoadFat, P!LoadFat, L!Covering, P!Covering, L!Max, P!Max, L!LoadRoot,
     P!LoadRoot, L!fs_umount, P!fs_umount, L!OnRootBlock, P!OnRootBlock,
     L!ZeroFatImage, P!ZeroFatImage, L!WriteFatBlock, P!WriteFatBlock, L!Transferred,
     P!Transferred, L!FatBlock, P!FatBlock, L!WriteRootAndRelease,
     P!WriteRootAndRelease, L!RootBlock, P!RootBlock, L!Reports, P!Reports,
     L!isValidName, P!isValidName, L!Matches, P!Matches, L!FreeEntries, P!FreeEntries,
     L!FAT_EOC, P!FAT_EOC, L!fs_create, P!fs_create, L!CreateRefused, P!CreateRefused,
     L!FillFree, P!FillFree, L!NewEntry, P!NewEntry, L!fs_delete, P!fs_delete,
     L!Victim, P!Victim, L!WholeBlocks, P!WholeBlocks, L!FreeChain, P!FreeChain,
     L!Walked, P!Walked, L!Walk, P!Walk, L!FatRead, P!FatRead, L!ClearMatches,
     P!ClearMatches, L!isValidFD, P!isValidFD, L!Named, P!Named, L!fs_open, P!fs_open,
     L!OpenRefused, P!OpenRefused, L!OpenAccepted, P!OpenAccepted, L!OpenEntry,
     P!OpenEntry, L!fs_close, P!fs_close, L!CloseEntry, P!CloseEntry, L!fs_stat,
     P!fs_stat, L!StatValues, P!StatValues, L!Min, P!Min, L!fs_lseek, P!fs_lseek,
     L!fs_write, P!fs_write, L!fs_read, P!fs_read, L!fs_info, P!fs_info, L!fs_ls,
     P!fs_ls, L!MaybeName, P!MaybeName, L!FdArgs, P!FdArgs, L!Next, P!Next

LEMMA SameChains ==
  P!MemoryChainsIntact /\ P!ImageChainsIntact => FileChainsIntact
  BY Zenon
  DEF FileChainsIntact, L!MemoryChainsIntact, P!MemoryChainsIntact, L!ImageChainsIntact,
      P!ImageChainsIntact, L!Mounted, P!Mounted, L!Idle, P!Idle, L!NotWriting, P!NotWriting,
      L!ChainsIntact, P!ChainsIntact, L!OnRootBlock, P!OnRootBlock, L!Chain, P!Chain,
      L!OccupiedBlocks, P!OccupiedBlocks, L!Walk, P!Walk, L!FatRead, P!FatRead,
      L!FatIndex, P!FatIndex, L!LoadFat, P!LoadFat, L!Covering, P!Covering, L!Max, P!Max,
      L!Cardinality, P!Cardinality

\* Chains stay whole on the host's disks and in memory, transfer by transfer,
\* for every geometry, every fault and every chain length.
THEOREM FileChainsIntactHolds ==
  ASSUME IntactAtOutset
  PROVE  LayerSpec => []FileChainsIntact
<1>1. /\ NoName \notin Names
      /\ 0 \in Sizes /\ Sizes \subseteq Nat /\ BlockSize \in Nat \ {0}
      /\ FatBlocks \in Nat \ {0} /\ PerBlock \in Nat \ {0} /\ NEntries \in Nat \ {0}
      /\ Whole \in 0 .. NEntries - 1
      /\ MaxOpen \in Nat /\ Offsets \subseteq Nat
  BY LayerAssumption, LibraryAssumption
<1>2. /\ Garbage \subseteq P!Entry /\ Garbage # {} /\ NameChecks \subseteq BOOLEAN
      /\ TransferFaults \subseteq P!FaultKinds
      /\ OutsetImages \subseteq [Disks -> [fat : P!FatImage, root : P!RootImage]]
      /\ Disks # {}
  <2>1. P!Entry = C!Entry
    BY DEF P!Entry, C!Entry, P!MaybeName, C!MaybeName, P!BlockRef, C!BlockRef,
       P!FatIndex, C!FatIndex, P!FAT_EOC, C!FAT_EOC
  <2> QED
    BY <2>1, LayerAssumption, LibraryAssumption, IntactAtOutset DEF TransferFaults, P!FaultKinds, IntactAtOutset
<1>3. P!ChainsOnImages
  BY DEF IntactAtOutset
<1>4. P!Spec => []P!MemoryChainsIntact
  BY <1>1, <1>2, <1>3, P!MemoryChainsIntactHolds
<1>5. P!Spec => []P!ImageChainsIntact
  BY <1>1, <1>2, <1>3, P!ImageChainsIntactHolds
<1>6. [L!Next]_(L!vars) => [P!Next]_(P!vars)
  BY SameNext, SameVars
<1> QED
  BY <1>4, <1>5, <1>6, SameInit, SameChains, ImplementsFileSystemHolds, PTL
  DEF ImplementsFileSystem, L!Spec, P!Spec
=============================================================================
