-------------------------- MODULE FileSystemProofs --------------------------
(***************************************************************************)
(* Proofs about the library of fs.c, for every geometry, every set of      *)
(* names, every content of uninitialised memory and every set of faults.   *)
(***************************************************************************)
EXTENDS FsProperties, FsMetadataProofs

(***************************************************************************)
(* The table of open files by itself, for every set of names, every table  *)
(* size and every set of offsets.                                          *)
(***************************************************************************)
\* The inductive invariant: the three facts and the types they need.
FdInv == FdTypeOK /\ UsedIffNamed /\ OnlyIssuedAreNamed /\ OpenAtStart

LEMMA FdInvInit == FdInit => FdInv
  BY FdAssumption, NamesAssumption
  DEF MaybeName, FdInit, FdInv, FdTypeOK, UsedIffNamed, OnlyIssuedAreNamed, OpenAtStart,
      Named, UnusedEntry, FdEntry, Fds

LEMMA OpenKeepsFdInv ==
  ASSUME FdInv, NEW n \in Names, OpenEntry(n)
  PROVE  FdInv'
<1> USE FdAssumption, NamesAssumption DEF MaybeName, Fds, FdEntry, Named
<1>1. fd_open_count \in Fds
  BY DEF OpenEntry, FdInv, FdTypeOK
<1>2. FdTypeOK'
  BY <1>1 DEF FdInv, FdTypeOK, OpenEntry
<1>3. UsedIffNamed'
  BY <1>1 DEF FdInv, FdTypeOK, UsedIffNamed, OpenEntry
<1>4. OnlyIssuedAreNamed'
  BY <1>1 DEF FdInv, FdTypeOK, OnlyIssuedAreNamed, OpenEntry
<1>5. OpenAtStart'
  BY <1>1 DEF FdInv, FdTypeOK, OpenAtStart, OpenEntry
<1> QED
  BY <1>2, <1>3, <1>4, <1>5 DEF FdInv

LEMMA CloseKeepsFdInv ==
  ASSUME FdInv, NEW fd \in Fds, CloseEntry(fd)
  PROVE  FdInv'
<1> USE FdAssumption, NamesAssumption DEF MaybeName, Fds, FdEntry, Named, UnusedEntry
<1>1. FdTypeOK'
  BY DEF FdInv, FdTypeOK, CloseEntry
<1>2. UsedIffNamed'
  BY DEF FdInv, FdTypeOK, UsedIffNamed, CloseEntry
<1>3. OnlyIssuedAreNamed'
  BY DEF FdInv, FdTypeOK, OnlyIssuedAreNamed, CloseEntry
<1>4. OpenAtStart'
  BY DEF FdInv, FdTypeOK, OpenAtStart, CloseEntry
<1> QED
  BY <1>1, <1>2, <1>3, <1>4 DEF FdInv

LEMMA SeekKeepsFdInv ==
  ASSUME FdInv, NEW fd \in Fds, NEW offset \in Offsets, SeekEntry(fd, offset)
  PROVE  FdInv'
<1> USE FdAssumption, NamesAssumption DEF MaybeName, Fds, FdEntry, Named
<1>1. FdTypeOK'
  BY DEF FdInv, FdTypeOK, SeekEntry
<1>2. UsedIffNamed'
  BY DEF FdInv, FdTypeOK, UsedIffNamed, SeekEntry
<1>3. OnlyIssuedAreNamed'
  BY DEF FdInv, FdTypeOK, OnlyIssuedAreNamed, SeekEntry
<1>4. OpenAtStart'
  BY DEF FdInv, FdTypeOK, OpenAtStart, SeekEntry
<1> QED
  BY <1>1, <1>2, <1>3, <1>4 DEF FdInv

LEMMA ResetKeepsFdInv == ResetTable => FdInv'
  BY FdAssumption, NamesAssumption
  DEF MaybeName, ResetTable, FdInv, FdTypeOK, UsedIffNamed, OnlyIssuedAreNamed,
      OpenAtStart, Named, UnusedEntry, FdEntry, Fds

LEMMA FdInvStep == FdInv /\ [FdNext]_fdVars => FdInv'
<1> SUFFICES ASSUME FdInv, [FdNext]_fdVars
             PROVE  FdInv'
  OBVIOUS
<1>1. CASE \E n \in Names : OpenEntry(n)
  BY <1>1, OpenKeepsFdInv
<1>2. CASE \E fd \in Fds : CloseEntry(fd)
  BY <1>2, CloseKeepsFdInv
<1>3. CASE \E fd \in Fds, offset \in Offsets : SeekEntry(fd, offset)
  BY <1>3, SeekKeepsFdInv
<1>4. CASE ResetTable
  BY <1>4, ResetKeepsFdInv
<1>5. CASE UNCHANGED fdVars
  BY <1>5 DEF fdVars, FdInv, FdTypeOK, UsedIffNamed, OnlyIssuedAreNamed,
              OpenAtStart, Named
<1> QED
  BY <1>1, <1>2, <1>3, <1>4, <1>5 DEF FdNext

\* The whole invariant holds in every reachable state of the table.
THEOREM FdInvariance == FdSpec => []FdInv
<1> QED
  BY FdInvInit, FdInvStep, PTL DEF FdSpec

\* fs.c: an open descriptor never carries an offset other than 0, whatever
\* was stored in closed entries before (fs_open, fs_close, fs_lseek).
THEOREM OpenAtStartHolds == FdSpec => []OpenAtStart
<1>1. FdInv => OpenAtStart
  BY DEF FdInv
<1> QED
  BY <1>1, FdInvariance, PTL

\* fs.c: the flag `used` agrees with the test isValidFD() makes.
THEOREM UsedIffNamedHolds == FdSpec => []UsedIffNamed
<1>1. FdInv => UsedIffNamed
  BY DEF FdInv
<1> QED
  BY <1>1, FdInvariance, PTL

\* fs.c: whatever callers open, close and seek, fd_open_count stays within the
\* table and no other entry is written.
THEOREM FdTypeOKHolds == FdSpec => []FdTypeOK
<1>1. FdInv => FdTypeOK
  BY DEF FdInv
<1> QED
  BY <1>1, FdInvariance, PTL

\* fs.c: isValidFD() refuses every number that fs_open has not handed out yet.
THEOREM OnlyIssuedAreNamedHolds == FdSpec => []OnlyIssuedAreNamed
<1>1. FdInv => OnlyIssuedAreNamed
  BY DEF FdInv
<1> QED
  BY <1>1, FdInvariance, PTL

----------------------------------------------------------------------------
(* The refinement: the table implements the dispenser of HandleIssuer.     *)

LEMMA InitRefines == FdInit => Issuer!IssuerInit
  BY DEF FdInit, Issuer!IssuerInit, Named, UnusedEntry

LEMMA StepRefines ==
  FdInv /\ [FdNext]_fdVars => [Issuer!IssuerNext]_(Issuer!issuerVars)
<1> SUFFICES ASSUME FdInv, [FdNext]_fdVars
             PROVE  [Issuer!IssuerNext]_(Issuer!issuerVars)
  OBVIOUS
<1> USE FdAssumption, NamesAssumption DEF MaybeName, FdInv, FdTypeOK, Fds, Issuer!issuerVars
<1>1. ASSUME NEW n \in Names, OpenEntry(n)
      PROVE  Issuer!Issue
  <2>1. fd_open_count \in Fds /\ fd_open_count' = fd_open_count + 1
    BY <1>1 DEF OpenEntry
  <2>2. \A fd \in Fds : Named(fd)' <=> Named(fd) \/ fd = fd_open_count
    BY <1>1, <2>1 DEF OpenEntry, Named
  <2>3. {fd \in Fds : Named(fd)}' = {fd \in Fds : Named(fd)} \cup {fd_open_count}
    BY <2>1, <2>2
  <2> QED
    BY <1>1, <2>1, <2>3 DEF Issuer!Issue, OpenEntry
<1>2. ASSUME NEW fd \in Fds, CloseEntry(fd)
      PROVE  \E h \in Issuer!Handles : Issuer!Retire(h)
  <2>1. \A g \in Fds : Named(g)' <=> Named(g) /\ g # fd
    BY <1>2 DEF CloseEntry, Named, UnusedEntry
  <2>2. {g \in Fds : Named(g)}' = {g \in Fds : Named(g)} \ {fd}
    BY <2>1
  <2>3. Issuer!Retire(fd)
    BY <1>2, <2>2 DEF Issuer!Retire, CloseEntry
  <2> QED
    BY <2>3 DEF Issuer!Handles
<1>3. ASSUME NEW fd \in Fds, NEW offset \in Offsets, SeekEntry(fd, offset)
      PROVE  UNCHANGED Issuer!issuerVars
  <2>1. \A g \in Fds : Named(g)' <=> Named(g)
    BY <1>3 DEF SeekEntry, Named
  <2> QED
    BY <1>3, <2>1 DEF SeekEntry
<1>4. ASSUME ResetTable
      PROVE  Issuer!Restart
  BY <1>4 DEF ResetTable, Issuer!Restart, Named, UnusedEntry
<1>5. CASE UNCHANGED fdVars
  BY <1>5 DEF fdVars, Named
<1> QED
  BY <1>1, <1>2, <1>3, <1>4, <1>5 DEF FdNext, Issuer!IssuerNext

\* fs_open never hands out a descriptor a second time, and fs_close never
\* makes room: the table implements the dispenser.
THEOREM TableRefinesIssuer == FdSpec => RefinesIssuer
<1> QED
  BY InitRefines, StepRefines, FdInvariance, PTL
  DEF FdSpec, RefinesIssuer, Issuer!IssuerSpec

(***************************************************************************)
(* The library as a whole.                                                 *)
(***************************************************************************)

\* Without a mounted disk there is no copy in memory.
BlankUnlessMounted == ~Mounted => fat_blocks = ZeroFat /\ root_dir = ZeroDir

\* The inductive invariant.  That no descriptor is open before the first
\* fs_mount is what keeps fs_lseek away from open descriptors.
FsInv == TypeOK /\ DiskHeld /\ NoHandleBeforeMount /\ FdInv /\ BlankUnlessMounted

LEMMA ConstantTypes ==
  /\ Garbage \subseteq Entry
  /\ [EntryIndex -> Garbage] \subseteq [EntryIndex -> Entry]
  /\ \A n : isValidName(n) \subseteq BOOLEAN /\ (TRUE \in isValidName(n) => n # NoName)
  BY FileSystemAssumption DEF isValidName

LEMMA FsInvInit == Init => FsInv
<1> SUFFICES ASSUME Init
             PROVE  FsInv
  OBVIOUS
<1>1. FdInv
  BY FdInvInit DEF Init
<1>2. TypeOK
  BY <1>1, ZeroFatType, ZeroDirType, FileSystemAssumption
  DEF Init, TypeOK, PointerStates, NotWriting, FdInv
<1>3. DiskHeld
  BY DEF Init, DiskHeld, Idle
<1>4. NoHandleBeforeMount
  BY DEF Init, NoHandleBeforeMount, FdInit, UnusedEntry, Named
<1> QED
  BY <1>1, <1>2, <1>3, <1>4 DEF FsInv, Init, BlankUnlessMounted

----------------------------------------------------------------------------
(* The library takes no step in the table of open files that FdTable does  *)
(* not have.                                                               *)

LEMMA StepsInTable ==
  ASSUME NoHandleBeforeMount, Next
  PROVE  [FdNext]_fdVars
<1> USE DEF FdNext
<1>1. CASE \E d \in Disks : fs_mount(d)
  BY <1>1 DEF fs_mount, MountRefused, MountUnchecked, MountLoaded
<1>2. CASE fs_umount
  BY <1>2 DEF fs_umount, ProcessEnds
<1>3. CASE WriteFatBlock \/ WriteRootAndRelease
  BY <1>3 DEF WriteFatBlock, WriteRootAndRelease
<1>4. CASE \E n \in MaybeName : fs_create(n) \/ fs_delete(n)
  BY <1>4 DEF fs_create, fs_delete, Reports, ProcessEnds
<1>5. ASSUME NEW n \in MaybeName, fs_open(n)
      PROVE  [FdNext]_fdVars
  <2>1. CASE Reports("fs_open", n, -1)
    BY <2>1 DEF Reports
  <2>2. CASE OpenAccepted(n) /\ OpenEntry(n)
    <3>1. n \in Names
      BY <2>2, ConstantTypes DEF OpenAccepted, MaybeName
    <3> QED
      BY <2>2, <3>1
  <2> QED
    BY <1>5, <2>1, <2>2 DEF fs_open
<1>6. ASSUME NEW fd \in FdArgs, fs_close(fd) \/ fs_stat(fd) \/ fs_write(fd) \/ fs_read(fd)
      PROVE  [FdNext]_fdVars
  BY <1>6 DEF fs_close, fs_stat, fs_write, fs_read, Reports, isValidFD
<1>7. ASSUME NEW fd \in FdArgs, NEW offset \in Offsets, fs_lseek(fd, offset)
      PROVE  [FdNext]_fdVars
  <2>1. CASE Reports("fs_lseek", fd, -1)
    BY <2>1 DEF Reports
  <2>2. CASE Reports("fs_lseek", fd, 0)
    BY <2>2 DEF Reports
  <2>3. CASE /\ ~isValidFD(fd) /\ fd \in Fds
             /\ fd_table' = [fd_table EXCEPT ![fd].offset = offset]
             /\ UNCHANGED fd_open_count
    <3>1. ~Named(fd)
      BY <2>3 DEF isValidFD, NoHandleBeforeMount
    <3>2. SeekEntry(fd, offset)
      BY <2>3, <3>1 DEF SeekEntry
    <3> QED
      BY <2>3, <3>2
  <2> QED
    BY <1>7, <2>1, <2>2, <2>3 DEF fs_lseek
<1>8. CASE ProcessEnds \/ fs_info \/ fs_ls
  BY <1>8 DEF ProcessEnds, fs_info, fs_ls, Reports
<1> QED
  BY <1>1, <1>2, <1>3, <1>4, <1>5, <1>6, <1>7, <1>8 DEF Next

----------------------------------------------------------------------------
(* Types.                                                                  *)

\* TypeOK without the table.
FsTypeOK ==
    /\ file_system \in PointerStates
    /\ fat_blocks \in Fat
    /\ root_dir \in Dir
    /\ disk_fd \in {"open", "closed"}
    /\ writeback \in {NotWriting} \cup 0 .. FatBlocks
    /\ images \in [Disks -> [fat : FatImage, root : RootImage]]
    /\ diskname \in Disks /\ opened_on \in [Fds -> Disks]
    /\ damaged \in BOOLEAN

LEMMA ImageTypes ==
  ASSUME FsTypeOK
  PROVE  /\ image \in [fat : FatImage, root : RootImage]
         /\ image.fat \in FatImage /\ image.root \in RootImage
  BY DEF FsTypeOK, image

\* A disk that is written to changes, the others do not.
LEMMA ImageStored ==
  ASSUME FsTypeOK, NEW new, images' = [images EXCEPT ![diskname] = new], diskname' = diskname
  PROVE  /\ image' = new
         /\ \A d \in Disks : d # diskname => images'[d] = images[d]
         /\ new \in [fat : FatImage, root : RootImage]
               => images' \in [Disks -> [fat : FatImage, root : RootImage]]
  BY DEF FsTypeOK, image

LEMMA EndKeepsTypes ==
  ASSUME FsTypeOK, ProcessEnds
  PROVE  FsTypeOK'
  BY ZeroFatType, ZeroDirType DEF FsTypeOK, ProcessEnds, PointerStates, whichDisk

LEMMA MountKeepsTypes ==
  ASSUME FsTypeOK, NEW d \in Disks, fs_mount(d)
  PROVE  FsTypeOK'
<1>1. CASE MountRefused
  BY <1>1 DEF FsTypeOK, MountRefused, whichDisk
<1>2. CASE MountUnchecked(d)
  BY <1>2 DEF FsTypeOK, MountUnchecked, PointerStates
<1>3. CASE MountLoaded(d)
  <2>1. PICK unread \in UnreadBlocks, heap \in [EntryIndex -> Garbage] :
            /\ fat_blocks' = LoadFat(images[d].fat, unread)
            /\ root_dir' = IF FatBlocks \in unread THEN heap
                           ELSE LoadRoot(images[d].root, heap)
            /\ damaged' = (damaged \/ unread # {})
    BY <1>3 DEF MountLoaded
  <2>2. images[d].fat \in FatImage /\ images[d].root \in RootImage
    BY DEF FsTypeOK
  <2>3. heap \in [EntryIndex -> Entry]
    BY ConstantTypes
  <2>4. fat_blocks' \in Fat
    BY <2>1, <2>2, LoadFatType
  <2>5. root_dir' \in Dir
    BY <2>1, <2>2, <2>3, LoadRootType DEF Dir
  <2> QED
    BY <1>3, <2>1, <2>4, <2>5 DEF FsTypeOK, MountLoaded, PointerStates
<1> QED
  BY <1>1, <1>2, <1>3 DEF fs_mount

LEMMA UmountKeepsTypes ==
  ASSUME FsTypeOK, fs_umount
  PROVE  FsTypeOK'
<1>1. CASE ProcessEnds
  BY <1>1, EndKeepsTypes
<1>2. CASE /\ writeback' = 0
           /\ UNCHANGED <<file_system, fat_blocks, root_dir, disk_fd, images, whichDisk,
                          damaged>>
  BY <1>2, GeometryTypes DEF FsTypeOK, whichDisk
<1>3. CASE /\ \E heap \in [OnRootBlock -> Garbage] :
                 \E left \in [fat : {image.fat, ZeroFatImage}, root : {image.root, heap}] :
                    images' = [images EXCEPT ![diskname] = left]
           /\ file_system' = "freed" /\ disk_fd' = "closed" /\ damaged' = TRUE
           /\ UNCHANGED <<fat_blocks, root_dir, writeback, whichDisk>>
  <2>1. ZeroFatImage \in FatImage
    BY GeometryTypes DEF ZeroFatImage, FatImage
  <2>2. \A heap \in [OnRootBlock -> Garbage] : heap \in RootImage
    BY ConstantTypes DEF RootImage
  <2>3. images' \in [Disks -> [fat : FatImage, root : RootImage]]
    <3>1. PICK heap \in [OnRootBlock -> Garbage] :
             \E left \in [fat : {image.fat, ZeroFatImage}, root : {image.root, heap}] :
                images' = [images EXCEPT ![diskname] = left]
      BY <1>3
    <3>2. PICK left \in [fat : {image.fat, ZeroFatImage}, root : {image.root, heap}] :
             images' = [images EXCEPT ![diskname] = left]
      BY <3>1
    <3>3. heap \in RootImage /\ image.fat \in FatImage /\ image.root \in RootImage
      BY <2>2, ImageTypes
    <3>4. left \in [fat : FatImage, root : RootImage]
      BY <2>1, <3>2, <3>3
    <3> QED
      BY <1>3, <3>2, <3>4, ImageStored DEF whichDisk
  <2> QED
    BY <1>3, <2>3 DEF FsTypeOK, PointerStates, whichDisk
<1> QED
  BY <1>1, <1>2, <1>3 DEF fs_umount

\* What a step of the write-back stores, as a change of the disk it writes to.
LEMMA FatStored ==
  ASSUME FsTypeOK, WriteFatBlock
  PROVE  \E m \in Transferred(PerBlock) :
            /\ images' =
                  [images EXCEPT ![diskname] =
                     [image EXCEPT !.fat =
                        [@ EXCEPT ![writeback] =
                           [j \in 0 .. PerBlock - 1 |->
                              IF j < m THEN FatBlock(fat_blocks, writeback)[j]
                              ELSE image.fat[writeback][j]]]]]
            /\ damaged' = (damaged \/ m < PerBlock)
  BY DEF WriteFatBlock, image, FsTypeOK

LEMMA RootStored ==
  ASSUME FsTypeOK, WriteRootAndRelease
  PROVE  \E m \in Transferred(Whole + 1) :
            /\ images' =
                  [images EXCEPT ![diskname] =
                     [image EXCEPT !.root =
                        [i \in OnRootBlock |->
                           IF i < m THEN RootBlock(root_dir)[i] ELSE image.root[i]]]]
            /\ damaged' = (damaged \/ m < Whole + 1)
  BY DEF WriteRootAndRelease, image, FsTypeOK

LEMMA WriteFatKeepsTypes ==
  ASSUME FsTypeOK, WriteFatBlock
  PROVE  FsTypeOK'
<1>1. writeback \in 0 .. FatBlocks - 1 /\ UNCHANGED whichDisk
  BY DEF WriteFatBlock
<1> DEFINE block(m) == [j \in 0 .. PerBlock - 1 |->
                          IF j < m THEN FatBlock(fat_blocks, writeback)[j]
                          ELSE image.fat[writeback][j]]
           new(m) == [image EXCEPT !.fat = [@ EXCEPT ![writeback] = block(m)]]
<1>2. PICK m \in Transferred(PerBlock) :
         /\ images' = [images EXCEPT ![diskname] = new(m)]
         /\ damaged' = (damaged \/ m < PerBlock)
  BY FatStored
<1>3. FatBlock(fat_blocks, writeback) \in [0 .. PerBlock - 1 -> BlockRef]
  BY <1>1, FatBlockType DEF FsTypeOK
<1>4. image.fat[writeback] \in [0 .. PerBlock - 1 -> BlockRef]
  BY <1>1, ImageTypes DEF FatImage
<1>5. block(m) \in [0 .. PerBlock - 1 -> BlockRef]
  BY <1>3, <1>4
<1> HIDE DEF block
<1>7. [image.fat EXCEPT ![writeback] = block(m)] \in FatImage
  BY <1>1, <1>5, ImageTypes DEF FatImage
<1>8. new(m) \in [fat : FatImage, root : RootImage]
  BY <1>7, ImageTypes
<1> HIDE DEF new
<1>9. images' \in [Disks -> [fat : FatImage, root : RootImage]]
  BY <1>1, <1>2, <1>8, ImageStored DEF whichDisk
<1>10. writeback' \in 0 .. FatBlocks
  BY <1>1, GeometryTypes DEF WriteFatBlock
<1> QED
  BY <1>1, <1>2, <1>9, <1>10 DEF FsTypeOK, WriteFatBlock, whichDisk

LEMMA WriteRootKeepsTypes ==
  ASSUME FsTypeOK, WriteRootAndRelease
  PROVE  FsTypeOK'
<1> DEFINE root(m) == [i \in OnRootBlock |->
                         IF i < m THEN RootBlock(root_dir)[i] ELSE image.root[i]]
<1>1. PICK m \in Transferred(Whole + 1) :
         /\ images' = [images EXCEPT ![diskname] = [image EXCEPT !.root = root(m)]]
         /\ damaged' = (damaged \/ m < Whole + 1)
  BY RootStored
<1>2. RootBlock(root_dir) \in RootImage /\ image.root \in RootImage
  BY RootBlockType, ImageTypes DEF FsTypeOK
<1>3. root(m) \in RootImage
  BY <1>2 DEF RootImage
<1> HIDE DEF root
<1>4. [image EXCEPT !.root = root(m)] \in [fat : FatImage, root : RootImage]
  BY <1>3, ImageTypes
<1>5. UNCHANGED whichDisk
  BY DEF WriteRootAndRelease
<1>6. images' \in [Disks -> [fat : FatImage, root : RootImage]]
  BY <1>1, <1>4, <1>5, ImageStored DEF whichDisk
<1> QED
  BY <1>1, <1>5, <1>6, ZeroFatType, ZeroDirType
  DEF FsTypeOK, WriteRootAndRelease, PointerStates, whichDisk

LEMMA ReportsKeepsTypes ==
  ASSUME FsTypeOK, NEW call, NEW arg, NEW value, Reports(call, arg, value)
  PROVE  FsTypeOK'
  BY DEF FsTypeOK, Reports, whichDisk

LEMMA CreateKeepsTypes ==
  ASSUME FsTypeOK, NEW n \in MaybeName, fs_create(n)
  PROVE  FsTypeOK'
<1>1. CASE \E value \in {-1, 0} : Reports("fs_create", n, value)
  BY <1>1, ReportsKeepsTypes
<1>2. CASE /\ root_dir' = FillFree(root_dir, n)
           /\ UNCHANGED <<file_system, fat_blocks, disk_fd, writeback, images, whichDisk,
                          damaged>>
  <2>1. root_dir' \in Dir
    BY <1>2, FillFreeType DEF FsTypeOK
  <2> QED
    BY <1>2, <2>1 DEF FsTypeOK, whichDisk
<1> QED
  BY <1>1, <1>2 DEF fs_create

LEMMA DeleteKeepsTypes ==
  ASSUME FsTypeOK, NEW n \in MaybeName, fs_delete(n)
  PROVE  FsTypeOK'
<1>1. CASE ProcessEnds
  BY <1>1, EndKeepsTypes
<1>2. CASE Reports("fs_delete", n, 0)
  BY <1>2, ReportsKeepsTypes
<1>3. CASE Mounted /\ ~ProcessEnds /\ ~Reports("fs_delete", n, 0)
  <2>1. PICK victim : /\ fat_blocks' = FreeChain(fat_blocks, victim.file_first_index,
                                                 WholeBlocks(victim))
                      /\ damaged' \in BOOLEAN
    BY <1>3 DEF fs_delete, Misled, FsTypeOK
  <2>2. root_dir' = ClearMatches(root_dir, n)
    BY <1>3 DEF fs_delete
  <2>3. UNCHANGED <<file_system, disk_fd, writeback, images, whichDisk>>
    BY <1>3 DEF fs_delete
  <2>4. fat_blocks' \in Fat
    BY <2>1, FreeChainType DEF FsTypeOK
  <2>5. root_dir' \in Dir
    BY <2>2, ClearMatchesType DEF FsTypeOK
  <2> QED
    BY <2>1, <2>3, <2>4, <2>5 DEF FsTypeOK, whichDisk
<1> QED
  BY <1>1, <1>2, <1>3 DEF fs_delete

LEMMA DescriptorCallsKeepTypes ==
  ASSUME FsTypeOK,
         \/ \E n \in MaybeName : fs_open(n)
         \/ \E fd \in FdArgs :
               fs_close(fd) \/ fs_stat(fd) \/ fs_write(fd) \/ fs_read(fd)
         \/ \E fd \in FdArgs, offset \in Offsets : fs_lseek(fd, offset)
         \/ fs_info \/ fs_ls
  PROVE  FsTypeOK'
<1>1. CASE \E call, arg, value : Reports(call, arg, value)
  BY <1>1, ReportsKeepsTypes
<1>2. CASE ProcessEnds
  BY <1>2, EndKeepsTypes
<1>3. CASE /\ UNCHANGED <<file_system, fat_blocks, root_dir, disk_fd, writeback, images,
                          diskname>>
           /\ damaged' \in {damaged, damaged \/ Dangling}
           /\ \E fd : opened_on' \in {opened_on, [opened_on EXCEPT ![fd] = diskname]}
  BY <1>3 DEF FsTypeOK
<1> QED
  BY <1>1, <1>2, <1>3
  DEF whichDisk, fs_open, fs_close, fs_stat, fs_write, fs_read, fs_lseek, fs_info, fs_ls

LEMMA TypesStep ==
  ASSUME FsTypeOK, [Next]_vars
  PROVE  FsTypeOK'
<1>1. CASE UNCHANGED vars
  BY <1>1 DEF vars, fsVars, whichDisk, FsTypeOK
<1>2. CASE \E n \in MaybeName : fs_create(n) \/ fs_delete(n)
  BY <1>2, CreateKeepsTypes, DeleteKeepsTypes
<1>3. CASE \/ \E n \in MaybeName : fs_open(n)
           \/ \E fd \in FdArgs :
                 fs_close(fd) \/ fs_stat(fd) \/ fs_write(fd) \/ fs_read(fd)
           \/ \E fd \in FdArgs, offset \in Offsets : fs_lseek(fd, offset)
           \/ fs_info \/ fs_ls
  BY <1>3, DescriptorCallsKeepTypes
<1> QED
  BY <1>1, <1>2, <1>3, MountKeepsTypes, UmountKeepsTypes, WriteFatKeepsTypes,
     WriteRootKeepsTypes, EndKeepsTypes
  DEF Next
----------------------------------------------------------------------------
(* The disk and the descriptors across mounts.                             *)

\* Most calls leave the disk, the pointer and the write-back alone, or end
\* the process.
LEMMA CallsKeepDisk ==
  ASSUME \/ \E n \in MaybeName : fs_create(n) \/ fs_delete(n) \/ fs_open(n)
         \/ \E fd \in FdArgs :
               fs_close(fd) \/ fs_stat(fd) \/ fs_write(fd) \/ fs_read(fd)
         \/ \E fd \in FdArgs, offset \in Offsets : fs_lseek(fd, offset)
         \/ fs_info \/ fs_ls
  PROVE  ProcessEnds \/ UNCHANGED <<file_system, disk_fd, writeback>>
  BY DEF fs_create, fs_delete, fs_open, fs_close, fs_stat, fs_write, fs_read,
         fs_lseek, fs_info, fs_ls, Reports

LEMMA DiskHeldStep ==
  ASSUME FsTypeOK, DiskHeld, [Next]_vars
  PROVE  DiskHeld'
<1> USE DEF DiskHeld, Idle, Mounted
<1>1. CASE UNCHANGED vars
  BY <1>1 DEF vars, fsVars, whichDisk
<1>2. CASE \E d \in Disks : fs_mount(d)
  BY <1>2 DEF fs_mount, MountRefused, MountUnchecked, MountLoaded
<1>3. CASE fs_umount
  BY <1>3 DEF fs_umount, ProcessEnds, Dangling
<1>4. CASE WriteFatBlock
  <2>1. writeback # NotWriting
    BY <1>4, GeometryTypes DEF WriteFatBlock, NotWriting
  <2> QED
    BY <1>4, <2>1 DEF WriteFatBlock
<1>5. CASE WriteRootAndRelease
  BY <1>5 DEF WriteRootAndRelease
<1>6. CASE ProcessEnds
  BY <1>6 DEF ProcessEnds
<1>7. CASE UNCHANGED <<file_system, disk_fd, writeback>>
  BY <1>7
<1> QED
  BY <1>1, <1>2, <1>3, <1>4, <1>5, <1>6, <1>7, CallsKeepDisk DEF Next

LEMMA NoHandleStep ==
  ASSUME FdTypeOK, NoHandleBeforeMount, [Next]_vars
  PROVE  NoHandleBeforeMount'
<1> SUFFICES ASSUME file_system' = "null", NEW fd \in Fds
             PROVE  ~Named(fd)'
  BY DEF NoHandleBeforeMount
<1>1. CASE ProcessEnds
  BY <1>1 DEF ProcessEnds, ResetTable, UnusedEntry, Named
<1>2. CASE file_system # "null" /\ ~ProcessEnds
  <2>1. CASE UNCHANGED vars
    BY <1>2, <2>1 DEF vars, fsVars, whichDisk
  <2>2. CASE UNCHANGED file_system
    BY <1>2, <2>2
  <2>3. CASE (\E d \in Disks : fs_mount(d)) \/ fs_umount \/ WriteFatBlock \/ WriteRootAndRelease
    BY <1>2, <2>3 DEF fs_mount, MountRefused, MountUnchecked, MountLoaded, fs_umount,
                      WriteFatBlock, WriteRootAndRelease, Mounted
  <2> QED
    BY <1>2, <2>1, <2>2, <2>3, CallsKeepDisk DEF Next
<1>3. CASE file_system = "null" /\ ~ProcessEnds
  <2>1. ~Named(fd)
    BY <1>3 DEF NoHandleBeforeMount
  <2>2. CASE UNCHANGED fd_table
    BY <2>1, <2>2 DEF Named
  <2>3. CASE \E n \in MaybeName : fs_open(n)
    BY <1>3, <2>2, <2>3 DEF fs_open, Reports, OpenAccepted, fdVars
  <2>4. CASE \E g \in FdArgs :
                fs_close(g) \/ fs_stat(g) \/ fs_write(g) \/ fs_read(g)
    BY <1>3, <2>2, <2>4 DEF fs_close, fs_stat, fs_write, fs_read, Reports,
                            isValidFD, fdVars
  <2>5. ASSUME NEW g \in FdArgs, NEW offset \in Offsets, fs_lseek(g, offset)
        PROVE  ~Named(fd)'
    <3>1. CASE UNCHANGED fd_table
      BY <2>2, <3>1
    <3>2. CASE g \in Fds /\ fd_table' = [fd_table EXCEPT ![g].offset = offset]
      BY <2>1, <3>2 DEF Named, FdTypeOK, FdEntry
    <3> QED
      BY <1>3, <2>5, <3>1, <3>2 DEF fs_lseek, Reports, fdVars
  <2>6. CASE \E n \in MaybeName : fs_create(n) \/ fs_delete(n)
    BY <1>3, <2>2, <2>6 DEF fs_create, fs_delete, Reports, fdVars
  <2>7. CASE \/ UNCHANGED vars \/ (\E d \in Disks : fs_mount(d)) \/ fs_umount \/ WriteFatBlock
             \/ WriteRootAndRelease \/ fs_info \/ fs_ls
    BY <1>3, <2>2, <2>7
    DEF vars, fdVars, fs_mount, MountRefused, MountUnchecked, MountLoaded, fs_umount,
        WriteFatBlock, WriteRootAndRelease, fs_info, fs_ls, Reports
  <2> QED
    BY <1>3, <2>3, <2>4, <2>5, <2>6, <2>7 DEF Next
<1> QED
  BY <1>1, <1>2, <1>3

LEMMA BlankStep ==
  ASSUME DiskHeld, BlankUnlessMounted, [Next]_vars
  PROVE  BlankUnlessMounted'
<1> USE DEF BlankUnlessMounted, Mounted
<1>1. CASE UNCHANGED vars
  BY <1>1 DEF vars, fsVars
<1>2. CASE \E d \in Disks : fs_mount(d)
  BY <1>2 DEF fs_mount, MountRefused, MountUnchecked, MountLoaded, DiskHeld
<1>3. CASE ProcessEnds
  BY <1>3 DEF ProcessEnds
<1>4. CASE fs_umount
  BY <1>3, <1>4 DEF fs_umount
<1>5. CASE WriteFatBlock \/ WriteRootAndRelease
  BY <1>5 DEF WriteFatBlock, WriteRootAndRelease
<1>6. CASE \E n \in MaybeName : fs_create(n) \/ fs_delete(n) \/ fs_open(n)
  BY <1>3, <1>6 DEF fs_create, fs_delete, fs_open, Reports
<1>7. CASE \/ \E fd \in FdArgs :
                 fs_close(fd) \/ fs_stat(fd) \/ fs_write(fd) \/ fs_read(fd)
           \/ \E fd \in FdArgs, offset \in Offsets : fs_lseek(fd, offset)
           \/ fs_info \/ fs_ls
  BY <1>3, <1>7 DEF fs_close, fs_stat, fs_write, fs_read, fs_lseek, fs_info, fs_ls, Reports
<1> QED
  BY <1>1, <1>2, <1>3, <1>4, <1>5, <1>6, <1>7 DEF Next

\* What is damaged stays damaged.
LEMMA DamageStays == [Next]_vars => (damaged => damaged')
  BY DEF Next, vars, fsVars, fs_mount, MountRefused, MountUnchecked, MountLoaded,
         fs_umount, WriteFatBlock, WriteRootAndRelease, ProcessEnds, fs_create, fs_delete,
         fs_open, fs_close, fs_stat, fs_write, fs_read, fs_lseek, fs_info, fs_ls, Reports

----------------------------------------------------------------------------
LEMMA FsInvStep == FsInv /\ [Next]_vars => FsInv'
<1> SUFFICES ASSUME FsInv, [Next]_vars
             PROVE  FsInv'
  OBVIOUS
<1>1. FsTypeOK /\ FdTypeOK
  BY DEF FsInv, TypeOK, FsTypeOK
<1>2. FdInv'
  <2>1. [FdNext]_fdVars
    BY StepsInTable DEF FsInv, vars, fdVars
  <2> QED
    BY <2>1, FdInvStep DEF FsInv
<1>3. TypeOK'
  BY <1>1, <1>2, TypesStep DEF TypeOK, FsTypeOK, FdInv
<1>4. DiskHeld' /\ NoHandleBeforeMount' /\ BlankUnlessMounted'
  BY <1>1, DiskHeldStep, NoHandleStep, BlankStep DEF FsInv
<1> QED
  BY <1>2, <1>3, <1>4 DEF FsInv

THEOREM FsInvariance == Spec => []FsInv
<1> QED
  BY FsInvInit, FsInvStep, PTL DEF Spec

\* fs.c: no call, fault or undefined value takes the library's state out of
\* its types: no index leaves the FAT, the directory or the table.
THEOREM TypeOKHolds == Spec => []TypeOK
<1>1. FsInv => TypeOK
  BY DEF FsInv
<1> QED
  BY <1>1, FsInvariance, PTL

\* fs.c, disk.c: the disk is open exactly while fs.c has memory for it.
THEOREM DiskHeldHolds == Spec => []DiskHeld
<1>1. FsInv => DiskHeld
  BY DEF FsInv
<1> QED
  BY <1>1, FsInvariance, PTL

\* The library uses its table of open files as FdTable says, so all that is
\* proved of FdTable holds of the library.
THEOREM TableStepsHold == Spec => TableSteps
<1>1. Init => FdInit
  BY DEF Init
<1>2. FsInv /\ [Next]_vars => [FdNext]_fdVars
  BY StepsInTable DEF FsInv, vars, fdVars
<1> QED
  BY <1>1, <1>2, FsInvariance, PTL DEF Spec, TableSteps, FdSpec

\* fs_open, fs_close, fs_mount and all other calls together: descriptors are
\* handed out in increasing order, each at most once in a process.
THEOREM LibraryRefinesIssuer == Spec => RefinesIssuer
<1> QED
  BY TableStepsHold, TableRefinesIssuer, PTL DEF TableSteps

-----------------------------------------------------------------------------
(* Writing back.  Without faults the FAT and the stored part of the root    *)
(* directory are write-back stores.                                        *)


\* Entries of the array that no block covers are zero, and the blocks already
\* written are those of the array in memory, unless a transfer was cut short.
StoreInv ==
    /\ \A k \in FatIndex : Covering(k, {}) = {} => fat_blocks[k] = 0
    /\ Faults = {} \/ ~damaged =>
          \A i \in 0 .. FatBlocks - 1 :
             i < writeback => image.fat[i] = FatBlock(fat_blocks, i)

LEMMA StoreInvInit == Init => StoreInv
  BY DEF Init, StoreInv, ZeroFat, NotWriting

\* The block an undamaged step of the write-back leaves behind.
LEMMA BlockWritten ==
  ASSUME FsTypeOK, WriteFatBlock, Faults = {} \/ ~damaged'
  PROVE  /\ writeback \in 0 .. FatBlocks - 1 /\ writeback' = writeback + 1
         /\ image'.fat[writeback] = FatBlock(fat_blocks, writeback)
         /\ \A i \in 0 .. FatBlocks - 1 :
               i # writeback => image'.fat[i] = image.fat[i]
         /\ UNCHANGED <<file_system, fat_blocks, diskname>>
         /\ \A d \in Disks : d # diskname => images'[d] = images[d]
<1>1. writeback \in 0 .. FatBlocks - 1 /\ diskname' = diskname
  BY DEF WriteFatBlock, whichDisk
<1> DEFINE stored(k) == [j \in 0 .. PerBlock - 1 |->
                           IF j < k THEN FatBlock(fat_blocks, writeback)[j]
                           ELSE image.fat[writeback][j]]
<1>2. PICK m \in Transferred(PerBlock) :
         /\ images' = [images EXCEPT ![diskname] =
                          [image EXCEPT !.fat = [@ EXCEPT ![writeback] = stored(m)]]]
         /\ damaged' = (damaged \/ m < PerBlock)
  BY FatStored
<1>3. m \in Int /\ ~(m < PerBlock)
  <2>1. m \in Int /\ (Faults = {} => m = PerBlock)
    BY GeometryTypes DEF Transferred
  <2>2. m < PerBlock => damaged'
    BY <1>2
  <2> QED
    BY <2>1, <2>2, GeometryTypes
<1> DEFINE block == stored(m)
<1>4. /\ image' = [image EXCEPT !.fat = [@ EXCEPT ![writeback] = block]]
      /\ \A d \in Disks : d # diskname => images'[d] = images[d]
  BY <1>1, <1>2, ImageStored
<1>5. block = FatBlock(fat_blocks, writeback)
  BY <1>3, GeometryTypes DEF FatBlock
<1> HIDE DEF block, stored
<1>6. image'.fat = [image.fat EXCEPT ![writeback] = block]
  BY <1>4, ImageTypes
<1> QED
  BY <1>1, <1>4, <1>5, <1>6, ImageTypes DEF FatImage, WriteFatBlock

LEMMA StoreInvStep == FsInv /\ StoreInv /\ [Next]_vars => StoreInv'
<1> SUFFICES ASSUME FsInv, StoreInv, [Next]_vars
             PROVE  StoreInv'
  OBVIOUS
<1>1. FsTypeOK
  BY DEF FsInv, TypeOK, FsTypeOK
<1>2. CASE fat_blocks' = ZeroFat /\ writeback' = NotWriting
  BY <1>2 DEF StoreInv, ZeroFat, NotWriting
<1>3. CASE UNCHANGED <<fat_blocks, writeback, image>>
  BY <1>3, DamageStays DEF StoreInv
<1>4. UNCHANGED <<images, diskname>> => UNCHANGED image
  BY DEF image
<1>5. ASSUME NEW d \in Disks, fs_mount(d)
      PROVE  StoreInv'
  <2>1. CASE MountLoaded(d)
    <3>1. PICK unread : fat_blocks' = LoadFat(images[d].fat, unread) /\ writeback' = NotWriting
      BY <1>5, <2>1 DEF MountLoaded, fs_mount, Idle
    <3>2. \A k : Covering(k, unread) \subseteq Covering(k, {})
      BY DEF Covering
    <3> QED
      BY <3>1, <3>2 DEF StoreInv, LoadFat, NotWriting
  <2>2. CASE MountUnchecked(d)
    BY <1>5, <2>2 DEF fs_mount, MountUnchecked, Idle, StoreInv, NotWriting
  <2> QED
    BY <1>3, <1>4, <1>5, <2>1, <2>2 DEF fs_mount, MountRefused, whichDisk
<1>6. CASE fs_umount
  <2>1. CASE writeback' \in {0, NotWriting} /\ UNCHANGED fat_blocks
    BY <2>1 DEF StoreInv, NotWriting
  <2> QED
    BY <1>2, <1>6, <2>1 DEF fs_umount, ProcessEnds, Idle
<1>7. CASE WriteFatBlock
  <2>1. writeback \in 0 .. FatBlocks - 1 /\ writeback' = writeback + 1 /\ UNCHANGED fat_blocks
    BY <1>7 DEF WriteFatBlock
  <2>2. ASSUME Faults = {} \/ ~damaged'
        PROVE  \A i \in 0 .. FatBlocks - 1 :
                  i < writeback + 1 => image'.fat[i] = FatBlock(fat_blocks, i)
    <3>1. \A i \in 0 .. FatBlocks - 1 : i < writeback + 1 /\ i # writeback => i < writeback
      BY <2>1
    <3>2. \A i \in 0 .. FatBlocks - 1 : i < writeback => image.fat[i] = FatBlock(fat_blocks, i)
      BY <2>2, DamageStays DEF StoreInv
    <3> QED
      BY <1>1, <1>7, <2>2, <3>1, <3>2, BlockWritten
  <2> QED
    BY <2>1, <2>2 DEF StoreInv
<1>8. ASSUME NEW n \in MaybeName, fs_delete(n)
      PROVE  StoreInv'
  <2>1. CASE \E first, rounds : /\ fat_blocks' = FreeChain(fat_blocks, first, rounds)
                                /\ writeback' = NotWriting
    BY <2>1 DEF StoreInv, FreeChain, NotWriting
  <2> QED
    BY <1>2, <1>3, <1>4, <1>8, <2>1 DEF fs_delete, ProcessEnds, Reports, Idle, whichDisk
<1>9. CASE ProcessEnds
  BY <1>2, <1>9 DEF ProcessEnds
<1>10. CASE WriteRootAndRelease
  BY <1>2, <1>10 DEF WriteRootAndRelease
<1>11. CASE \/ \E n \in MaybeName : fs_create(n) \/ fs_open(n)
            \/ \E fd \in FdArgs :
                  fs_close(fd) \/ fs_stat(fd) \/ fs_write(fd) \/ fs_read(fd)
            \/ \E fd \in FdArgs, offset \in Offsets : fs_lseek(fd, offset)
            \/ fs_info \/ fs_ls
            \/ UNCHANGED vars
  BY <1>3, <1>4, <1>9, <1>11
  DEF fs_create, fs_open, fs_close, fs_stat, fs_write, fs_read, fs_lseek, fs_info, fs_ls,
      Reports, vars, fsVars, whichDisk
<1> QED
  BY <1>5, <1>6, <1>7, <1>8, <1>9, <1>10, <1>11 DEF Next

LEMMA StoreInvariance == Spec => []StoreInv
  BY StoreInvInit, StoreInvStep, FsInvariance, PTL DEF Spec
----------------------------------------------------------------------------
(* The FAT of a disk as a write-back store.                                *)

\* To the stores of the other disks nothing happens while one disk is in use.
LEMMA OtherStoreKept ==
  ASSUME NEW d \in Disks, d # diskname, d # diskname', images'[d] = images[d]
  PROVE  UNCHANGED FatStore(d)!storeVars /\ UNCHANGED RootStore(d)!storeVars
  BY DEF FatStore!storeVars, RootStore!storeVars, StorePhase

LEMMA FatStoreInit ==
  ASSUME NEW d \in Disks
  PROVE  Init => FatStore(d)!StoreInit
<1> SUFFICES ASSUME Init
             PROVE  FatStore(d)!StoreInit
  OBVIOUS
<1>1. images[d].fat \in FatImage
  BY FileSystemAssumption DEF Init
<1> QED
  BY <1>1, LoadFatType DEF Init, FatStore!StoreInit, StorePhase, Mounted, Fat

LEMMA FatFlush ==
  ASSUME Faults = {}, FsInv, StoreInv, WriteFatBlock, NEW d \in Disks, d = diskname
  PROVE  FatStore(d)!Flush
<1>1. FsTypeOK /\ DiskHeld
  BY DEF FsInv, TypeOK, FsTypeOK
<1>2. /\ writeback \in 0 .. FatBlocks - 1 /\ writeback' = writeback + 1
      /\ image'.fat[writeback] = FatBlock(fat_blocks, writeback)
      /\ \A i \in 0 .. FatBlocks - 1 : i # writeback => image'.fat[i] = image.fat[i]
      /\ UNCHANGED <<file_system, fat_blocks, diskname>>
  BY <1>1, BlockWritten
<1>3. writeback # NotWriting /\ writeback' # NotWriting
  BY <1>2, GeometryTypes DEF NotWriting
<1>4. StorePhase(d) = "flushing" /\ StorePhase(d)' = "flushing"
  BY <1>1, <1>2, <1>3 DEF StorePhase, DiskHeld, Idle, Mounted
<1>5. image'.fat \in FatImage /\ image = images[d] /\ image' = images'[d]
  BY <1>1, <1>2, WriteFatKeepsTypes DEF FsTypeOK, image
<1>6. LoadFat(image'.fat, {}) \in [FatIndex -> BlockRef]
  BY <1>5, LoadFatType DEF Fat
<1>7. ASSUME NEW k \in FatIndex
      PROVE  LoadFat(image'.fat, {})[k] \in {LoadFat(image.fat, {})[k], fat_blocks[k]}
  <2>1. CASE Covering(k, {}) = {}
    BY <2>1 DEF LoadFat
  <2>2. CASE Covering(k, {}) # {}
    <3> DEFINE m == Max(Covering(k, {}))
    <3>1. m \in 0 .. FatBlocks - 1
      BY <2>2, LastCover
    <3>2. CASE m = writeback
      <4>1. LoadFat(image'.fat, {})[k] = fat_blocks[k]
        BY <1>1, <1>2, <2>2, <3>2, StoredEntry DEF FsTypeOK
      <4> QED
        BY <4>1
    <3>3. CASE m # writeback
      BY <1>2, <2>2, <3>1, <3>3 DEF LoadFat
    <3> QED
      BY <3>2, <3>3
  <2> QED
    BY <2>1, <2>2
<1> QED
  BY <1>2, <1>4, <1>5, <1>6, <1>7 DEF FatStore!Flush

\* The last step of the unmount stores the root block and nothing else.
LEMMA SavedRoot ==
  ASSUME FsTypeOK, WriteRootAndRelease
  PROVE  /\ image'.fat = image.fat /\ UNCHANGED diskname
         /\ image' \in [fat : FatImage, root : RootImage]
         /\ \A d \in Disks : d # diskname => images'[d] = images[d]
         /\ \E m \in Transferred(Whole + 1) :
               /\ image'.root = [i \in OnRootBlock |->
                                    IF i < m THEN RootBlock(root_dir)[i] ELSE image.root[i]]
               /\ damaged' = (damaged \/ m < Whole + 1)
<1> DEFINE root(k) == [i \in OnRootBlock |->
                         IF i < k THEN RootBlock(root_dir)[i] ELSE image.root[i]]
<1>1. PICK m \in Transferred(Whole + 1) :
         /\ images' = [images EXCEPT ![diskname] = [image EXCEPT !.root = root(m)]]
         /\ damaged' = (damaged \/ m < Whole + 1)
  BY RootStored
<1>2. UNCHANGED diskname
  BY DEF WriteRootAndRelease, whichDisk
<1>3. image' \in [fat : FatImage, root : RootImage]
  BY <1>2, WriteRootKeepsTypes, ImageTypes DEF FsTypeOK, image
<1>4. /\ image' = [image EXCEPT !.root = root(m)]
      /\ \A d \in Disks : d # diskname => images'[d] = images[d]
  BY <1>1, <1>2, ImageStored
<1>5. image'.root = root(m) /\ image'.fat = image.fat
  BY <1>4, ImageTypes
<1> QED
  BY <1>1, <1>2, <1>3, <1>4, <1>5

LEMMA FatCommit ==
  ASSUME Faults = {}, FsInv, StoreInv, WriteRootAndRelease, NEW d \in Disks, d = diskname
  PROVE  FatStore(d)!Commit
<1>1. FsTypeOK /\ DiskHeld
  BY DEF FsInv, TypeOK, FsTypeOK
<1>2. writeback = FatBlocks /\ writeback # NotWriting
  BY GeometryTypes DEF WriteRootAndRelease, NotWriting
<1>3. StorePhase(d) = "flushing" /\ StorePhase(d)' = "saved"
  BY <1>1, <1>2, SavedRoot DEF StorePhase, DiskHeld, Idle, Mounted, WriteRootAndRelease
<1>4. images'[d].fat = images[d].fat /\ diskname' = d
  BY <1>1, SavedRoot DEF image
<1>5. LoadFat(images[d].fat, {}) = fat_blocks
  <2>1. \A i \in 0 .. FatBlocks - 1 : images[d].fat[i] = FatBlock(fat_blocks, i)
    BY <1>2, GeometryTypes DEF StoreInv, image
  <2> QED
    BY <1>1, <2>1, WriteThenLoad DEF FsTypeOK, StoreInv
<1> QED
  BY <1>3, <1>4, <1>5 DEF FatStore!Commit, WriteRootAndRelease

LEMMA FatLoad ==
  ASSUME Faults = {}, FsInv, NEW e \in Disks, fs_mount(e), NEW d \in Disks
  PROVE  FatStore(d)!Load \/ FatStore(d)!RefuseLoad \/ UNCHANGED FatStore(d)!storeVars
<1>1. DiskHeld /\ BlankUnlessMounted
  BY DEF FsInv
<1>2. CASE MountRefused
  BY <1>2 DEF MountRefused, FatStore!storeVars, StorePhase, Mounted, Idle, whichDisk
<1>3. CASE MountUnchecked(e) \/ MountLoaded(e)
  <2>1. /\ UNCHANGED images /\ diskname' = e
        /\ file_system \notin {"unchecked", "mounted"}
    BY <1>1, <1>3 DEF MountUnchecked, MountLoaded, DiskHeld
  <2>2. fat_blocks = ZeroFat /\ StorePhase(d) \in {"closed", "saved"}
    BY <1>1, <2>1 DEF BlankUnlessMounted, Mounted, StorePhase
  <2>3. CASE MountUnchecked(e) \/ e # d
    <3>1. StorePhase(d)' = "closed"
      BY <2>1, <2>3 DEF MountUnchecked, StorePhase, Mounted
    <3>2. (IF diskname = d THEN fat_blocks ELSE ZeroFat)'
             = IF diskname = d THEN fat_blocks ELSE ZeroFat
      BY <2>1, <2>2, <2>3 DEF MountUnchecked
    <3> QED
      BY <2>1, <2>2, <3>1, <3>2 DEF FatStore!RefuseLoad
  <2>4. CASE MountLoaded(e) /\ e = d
    <3>1. fat_blocks' = LoadFat(images[d].fat, {})
      BY <2>4 DEF MountLoaded, UnreadBlocks
    <3>2. StorePhase(d)' = "open"
      BY <2>1, <2>4 DEF MountLoaded, fs_mount, StorePhase, Mounted, Idle
    <3> QED
      BY <2>1, <2>2, <2>4, <3>1, <3>2 DEF FatStore!Load
  <2> QED
    BY <1>3, <2>3, <2>4
<1> QED
  BY <1>2, <1>3 DEF fs_mount

\* The end of the process loses the copy in memory and nothing else.
LEMMA FatCrash ==
  ASSUME ProcessEnds, NEW d \in Disks
  PROVE  FatStore(d)!Crash
  BY DEF ProcessEnds, FatStore!Crash, StorePhase, Mounted, whichDisk

LEMMA FatStoreStep ==
  ASSUME Faults = {}, FsInv, FsInv', StoreInv, [Next]_vars, NEW d \in Disks
  PROVE  [FatStore(d)!StoreNext]_(FatStore(d)!storeVars)
<1> SUFFICES FatStore(d)!StoreNext \/ UNCHANGED FatStore(d)!storeVars
  OBVIOUS
<1> USE DEF FatStore!StoreNext
<1>1. CASE UNCHANGED <<file_system, writeback, fat_blocks, images, diskname>>
  BY <1>1 DEF FatStore!storeVars, StorePhase, Mounted, Idle
<1>2. CASE ProcessEnds
  BY <1>2, FatCrash
<1>3. CASE d # diskname /\ UNCHANGED <<images, diskname>>
  BY <1>3, OtherStoreKept
<1>4. CASE fs_umount
  <2>1. CASE Mounted /\ writeback' = 0
             /\ UNCHANGED <<file_system, fat_blocks, images, diskname>> /\ d = diskname
    <3>1. StorePhase(d) = "open" /\ StorePhase(d)' = "flushing"
      BY <1>4, <2>1 DEF fs_umount, StorePhase, Mounted, Idle, NotWriting
    <3> QED
      BY <2>1, <3>1 DEF FatStore!StartFlush
  <2> QED
    BY <1>2, <1>3, <1>4, <2>1 DEF fs_umount, whichDisk
<1>5. ASSUME NEW n \in MaybeName, fs_delete(n)
      PROVE  FatStore(d)!StoreNext \/ UNCHANGED FatStore(d)!storeVars
  <2>1. CASE Mounted /\ d = diskname /\ UNCHANGED <<file_system, writeback, images, diskname>>
    <3>1. StorePhase(d) = "open" /\ StorePhase(d)' = "open"
      BY <1>5, <2>1 DEF fs_delete, StorePhase, Mounted, Idle
    <3>2. fat_blocks' \in [FatIndex -> BlockRef]
      BY DEF FsInv, TypeOK, Fat
    <3> QED
      BY <2>1, <3>1, <3>2 DEF FatStore!Edit
  <2> QED
    BY <1>1, <1>2, <1>3, <1>5, <2>1 DEF fs_delete, Reports, whichDisk
<1>6. CASE WriteFatBlock \/ WriteRootAndRelease
  <2>1. FsTypeOK
    BY DEF FsInv, TypeOK, FsTypeOK
  <2>2. d # diskname => images'[d] = images[d] /\ diskname' = diskname
    BY <1>6, <2>1, BlockWritten, SavedRoot
  <2> QED
    BY <1>6, <2>2, OtherStoreKept, FatFlush, FatCommit
<1>7. CASE \/ \E n \in MaybeName : fs_create(n) \/ fs_open(n)
           \/ \E fd \in FdArgs :
                 fs_close(fd) \/ fs_stat(fd) \/ fs_write(fd) \/ fs_read(fd)
           \/ \E fd \in FdArgs, offset \in Offsets : fs_lseek(fd, offset)
           \/ fs_info \/ fs_ls
           \/ UNCHANGED vars
  BY <1>1, <1>2, <1>7
  DEF fs_create, fs_open, fs_close, fs_stat, fs_write, fs_read, fs_lseek, fs_info, fs_ls,
      Reports, vars, fsVars, whichDisk
<1> QED
  BY <1>2, <1>4, <1>5, <1>6, <1>7, FatLoad DEF Next

\* fs_mount, fs_umount: without faults the FAT that is loaded is the one the
\* last complete unmount of that disk wrote, for every number of FAT blocks and
\* of disks; a disk's FAT changes only in an unmount of it, and a kill leaves each
\* of its entries as it was or as it was to be written.
THEOREM FatWrittenBackHolds ==
  ASSUME Faults = {}
  PROVE  Spec => FatWrittenBack
<1>1. Init => \A d \in Disks : FatStore(d)!StoreInit
  BY FatStoreInit
<1>2. FsInv /\ FsInv' /\ StoreInv /\ [Next]_vars
         => [\A d \in Disks : [FatStore(d)!StoreNext]_(FatStore(d)!storeVars)]_vars
  BY FatStoreStep
<1> QED
  BY <1>1, <1>2, FsInvariance, StoreInvariance, PTL DEF Spec, FatWrittenBack
----------------------------------------------------------------------------
(* The entries that lie whole on the root block as a write-back store.     *)

LEMMA WholePartType ==
  /\ \A dir \in Dir : WholePart(dir) \in [WholeEntries -> Entry]
  /\ \A root \in RootImage : WholePart(root) \in [WholeEntries -> Entry]
<1>1. WholeEntries \subseteq EntryIndex /\ WholeEntries \subseteq OnRootBlock
  BY GeometryTypes DEF WholeEntries, EntryIndex, OnRootBlock
<1> QED
  BY <1>1 DEF WholePart, Dir, RootImage

\* A mount and a write-back without faults, as far as entries lie whole.
LEMMA WholeLoaded ==
  ASSUME Faults = {}, NEW d \in Disks, MountLoaded(d)
  PROVE  WholePart(root_dir') = WholePart(images[d].root)
<1>1. PICK heap : root_dir' = LoadRoot(images[d].root, heap)
  BY DEF MountLoaded, UnreadBlocks
<1> QED
  BY <1>1, GeometryTypes DEF WholePart, WholeEntries, LoadRoot, EntryIndex

LEMMA WholeSaved ==
  ASSUME Faults = {}, FsTypeOK, WriteRootAndRelease
  PROVE  WholePart(image'.root) = WholePart(root_dir)
<1>1. PICK m \in Transferred(Whole + 1) :
         image'.root = [i \in OnRootBlock |-> IF i < m THEN RootBlock(root_dir)[i]
                                              ELSE image.root[i]]
  BY SavedRoot
<1>2. m = Whole + 1
  BY DEF Transferred
<1> QED
  BY <1>1, <1>2, GeometryTypes DEF WholePart, WholeEntries, OnRootBlock, RootBlock

LEMMA RootStoreInit ==
  ASSUME NEW d \in Disks
  PROVE  Init => RootStore(d)!StoreInit
<1> SUFFICES ASSUME Init
             PROVE  RootStore(d)!StoreInit
  OBVIOUS
<1>1. images[d].root \in RootImage
  BY FileSystemAssumption DEF Init
<1> QED
  BY <1>1, WholePartType DEF Init, RootStore!StoreInit, StorePhase, Mounted

\* What a mount reads of the whole entries is what the block has, whatever the
\* heap holds.
LEMMA RootLoad ==
  ASSUME Faults = {}, FsInv, NEW e \in Disks, fs_mount(e), NEW d \in Disks
  PROVE  RootStore(d)!Load \/ RootStore(d)!RefuseLoad \/ UNCHANGED RootStore(d)!storeVars
<1>1. DiskHeld /\ BlankUnlessMounted
  BY DEF FsInv
<1>2. CASE MountRefused
  BY <1>2 DEF MountRefused, RootStore!storeVars, StorePhase, Mounted, Idle, whichDisk
<1>3. CASE MountUnchecked(e) \/ MountLoaded(e)
  <2>1. /\ UNCHANGED images /\ diskname' = e
        /\ file_system \notin {"unchecked", "mounted"}
    BY <1>1, <1>3 DEF MountUnchecked, MountLoaded, DiskHeld
  <2>2. root_dir = ZeroDir /\ StorePhase(d) \in {"closed", "saved"}
    BY <1>1, <2>1 DEF BlankUnlessMounted, Mounted, StorePhase
  <2>3. CASE MountUnchecked(e) \/ e # d
    <3>1. StorePhase(d)' = "closed"
      BY <2>1, <2>3 DEF MountUnchecked, StorePhase, Mounted
    <3>2. (IF diskname = d THEN root_dir ELSE ZeroDir)'
             = IF diskname = d THEN root_dir ELSE ZeroDir
      BY <2>1, <2>2, <2>3 DEF MountUnchecked
    <3> QED
      BY <2>1, <2>2, <3>1, <3>2 DEF RootStore!RefuseLoad
  <2>4. CASE MountLoaded(e) /\ e = d
    <3>1. WholePart(root_dir') = WholePart(images[d].root)
      BY <2>4, WholeLoaded
    <3>2. StorePhase(d)' = "open"
      BY <2>1, <2>4 DEF MountLoaded, fs_mount, StorePhase, Mounted, Idle
    <3> QED
      BY <2>1, <2>2, <2>4, <3>1, <3>2 DEF RootStore!Load
  <2> QED
    BY <1>3, <2>3, <2>4
<1> QED
  BY <1>2, <1>3 DEF fs_mount

\* The root block is written whole, after all FAT blocks.
LEMMA RootCommit ==
  ASSUME Faults = {}, FsInv, WriteRootAndRelease, NEW d \in Disks, d = diskname
  PROVE  RootStore(d)!Commit
<1>1. FsTypeOK /\ DiskHeld
  BY DEF FsInv, TypeOK, FsTypeOK
<1>2. writeback = FatBlocks /\ writeback # NotWriting
  BY GeometryTypes DEF WriteRootAndRelease, NotWriting
<1>3. StorePhase(d) = "flushing" /\ StorePhase(d)' = "saved"
  BY <1>1, <1>2, SavedRoot DEF StorePhase, DiskHeld, Idle, Mounted, WriteRootAndRelease
<1>4. WholePart(images'[d].root) = WholePart(root_dir) /\ diskname' = d
  BY <1>1, WholeSaved, SavedRoot DEF image
<1> QED
  BY <1>3, <1>4 DEF RootStore!Commit, WriteRootAndRelease

LEMMA RootCrash ==
  ASSUME ProcessEnds, NEW d \in Disks
  PROVE  RootStore(d)!Crash
  BY DEF ProcessEnds, RootStore!Crash, StorePhase, Mounted, whichDisk

\* A call that leaves pointer, write-back and disk alone edits an open store.
LEMMA RootEdit ==
  ASSUME FsInv', Mounted, Idle, NEW d \in Disks, d = diskname,
         UNCHANGED <<file_system, writeback, images, diskname>>
  PROVE  RootStore(d)!Edit
<1>1. StorePhase(d) = "open" /\ StorePhase(d)' = "open"
  BY DEF StorePhase, Mounted, Idle
<1>2. WholePart(root_dir') \in [WholeEntries -> Entry]
  BY WholePartType DEF FsInv, TypeOK
<1> QED
  BY <1>1, <1>2 DEF RootStore!Edit

\* No block of the FAT is part of the root directory.
LEMMA RootUntouched ==
  ASSUME FsTypeOK, WriteFatBlock
  PROVE  /\ image'.root = image.root /\ UNCHANGED diskname
         /\ \A d \in Disks : d # diskname => images'[d] = images[d]
<1> DEFINE stored(k) == [j \in 0 .. PerBlock - 1 |->
                           IF j < k THEN FatBlock(fat_blocks, writeback)[j]
                           ELSE image.fat[writeback][j]]
<1>1. UNCHANGED diskname
  BY DEF WriteFatBlock, whichDisk
<1>2. PICK m \in Transferred(PerBlock) :
         images' = [images EXCEPT ![diskname] =
                        [image EXCEPT !.fat = [@ EXCEPT ![writeback] = stored(m)]]]
  BY FatStored
<1> HIDE DEF stored
<1>3. /\ image' = [image EXCEPT !.fat = [@ EXCEPT ![writeback] = stored(m)]]
      /\ \A d \in Disks : d # diskname => images'[d] = images[d]
  BY <1>1, <1>2, ImageStored
<1> QED
  BY <1>1, <1>3, ImageTypes

LEMMA RootStoreStep ==
  ASSUME Faults = {}, FsInv, FsInv', [Next]_vars, NEW d \in Disks
  PROVE  [RootStore(d)!StoreNext]_(RootStore(d)!storeVars)
<1> SUFFICES RootStore(d)!StoreNext \/ UNCHANGED RootStore(d)!storeVars
  OBVIOUS
<1> USE DEF RootStore!StoreNext
<1>0. FsTypeOK
  BY DEF FsInv, TypeOK, FsTypeOK
<1>1. CASE UNCHANGED <<file_system, writeback, root_dir, images, diskname>>
  BY <1>1 DEF RootStore!storeVars, StorePhase, Mounted, Idle
<1>2. CASE ProcessEnds
  BY <1>2, RootCrash
<1>3. CASE d # diskname /\ UNCHANGED <<images, diskname>>
  BY <1>3, OtherStoreKept
<1>4. CASE fs_umount
  <2>1. CASE Mounted /\ writeback' = 0
             /\ UNCHANGED <<file_system, root_dir, images, diskname>> /\ d = diskname
    <3>1. StorePhase(d) = "open" /\ StorePhase(d)' = "flushing"
      BY <1>4, <2>1 DEF fs_umount, StorePhase, Mounted, Idle, NotWriting
    <3> QED
      BY <2>1, <3>1 DEF RootStore!StartFlush
  <2> QED
    BY <1>2, <1>3, <1>4, <2>1 DEF fs_umount, whichDisk
<1>5. CASE WriteFatBlock
  <2>1. d # diskname => images'[d] = images[d] /\ diskname' = diskname
    BY <1>0, <1>5, BlockWritten
  <2>2. CASE d = diskname
    <3>1. images'[d].root = images[d].root /\ UNCHANGED <<file_system, root_dir, diskname>>
      BY <1>0, <1>5, <2>2, RootUntouched DEF image, WriteFatBlock
    <3>2. writeback # NotWriting /\ writeback' # NotWriting
      BY <1>5, GeometryTypes DEF WriteFatBlock, NotWriting
    <3> QED
      BY <3>1, <3>2 DEF RootStore!storeVars, StorePhase, Mounted, Idle
  <2> QED
    BY <2>1, <2>2, OtherStoreKept
<1>6. CASE WriteRootAndRelease
  BY <1>0, <1>6, SavedRoot, OtherStoreKept, RootCommit
<1>7. ASSUME NEW n \in MaybeName, fs_create(n) \/ fs_delete(n)
      PROVE  RootStore(d)!StoreNext \/ UNCHANGED RootStore(d)!storeVars
  <2>1. CASE Mounted /\ Idle /\ UNCHANGED <<file_system, writeback, images, diskname>>
    BY <1>3, <2>1, RootEdit
  <2> QED
    BY <1>1, <1>2, <1>7, <2>1 DEF fs_create, fs_delete, Reports, whichDisk
<1>8. CASE \/ \E n \in MaybeName : fs_open(n)
           \/ \E fd \in FdArgs :
                 fs_close(fd) \/ fs_stat(fd) \/ fs_write(fd) \/ fs_read(fd)
           \/ \E fd \in FdArgs, offset \in Offsets : fs_lseek(fd, offset)
           \/ fs_info \/ fs_ls
           \/ UNCHANGED vars
  BY <1>1, <1>2, <1>8
  DEF fs_open, fs_close, fs_stat, fs_write, fs_read, fs_lseek, fs_info, fs_ls,
      Reports, vars, fsVars, whichDisk
<1> QED
  BY <1>2, <1>4, <1>5, <1>6, <1>7, <1>8, RootLoad DEF Next

\* fs_mount, fs_umount: without faults the entries that lie whole on the root
\* block are loaded as the last complete unmount of that disk wrote them,
\* whatever the heap holds, and no other step changes them on any disk.
THEOREM RootWrittenBackHolds ==
  ASSUME Faults = {}
  PROVE  Spec => RootWrittenBack
<1>1. Init => \A d \in Disks : RootStore(d)!StoreInit
  BY RootStoreInit
<1>2. FsInv /\ FsInv' /\ [Next]_vars
         => [\A d \in Disks : [RootStore(d)!StoreNext]_(RootStore(d)!storeVars)]_vars
  BY RootStoreStep
<1> QED
  BY <1>1, <1>2, FsInvariance, PTL DEF Spec, RootWrittenBack
=============================================================================
