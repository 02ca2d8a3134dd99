--------------------------- MODULE DirectoryProofs ---------------------------
(***************************************************************************)
(* Entries of one name agree, open files are empty, chains stay whole and  *)
(* names never multiply: proofs for every geometry and every set of names. *)
(***************************************************************************)
EXTENDS FileSystemProofs

\* Of several entries of one name none has more than one block.
TwinsShortIn(dir) ==
    \A i, j \in OnRootBlock :
        i # j /\ dir[i].filename = dir[j].filename => OccupiedBlocks(dir[i]) <= 1

\* What the disks the library finds must have for twins to agree, or to be short,
\* at all.
TwinsOnImages == \A found \in Images, d \in Disks : TwinsAgreeIn(found[d].root)
ShortOnImages == \A found \in Images, d \in Disks : TwinsShortIn(found[d].root)

RootSound(dir) ==
    /\ TwinsOnImages => TwinsAgreeIn(dir)
    /\ ShortOnImages => TwinsShortIn(dir)

\* The directory in memory and those on all disks are sound, and open files have
\* no data on the disk they were opened on.
DirectoryInv ==
    ~damaged =>
        /\ Mounted => RootSound(root_dir)
        /\ \A d \in Disks : RootSound(images[d].root)
        /\ OpenFilesAreEmpty

----------------------------------------------------------------------------
(* What the operations do to a directory.                                  *)

LEMMA FillKeepsTwins ==
  ASSUME NEW dir \in Dir, NEW n, TwinsAgreeIn(dir), Matches(dir, n) = {}
  PROVE  TwinsAgreeIn(FillFree(dir, n))
<1> DEFINE new == FillFree(dir, n)
<1> SUFFICES ASSUME NEW i \in 0 .. Whole - 1, NEW j \in 0 .. Whole - 1,
                    new[i].filename = new[j].filename, new[i].filename \in Names
             PROVE  new[i] = new[j]
  BY DEF TwinsAgreeIn
<1>1. i \in EntryIndex /\ j \in EntryIndex
  BY WholeIsOnRoot
<1>2. \A k \in EntryIndex : new[k] = IF dir[k].isEmpty THEN NewEntry(n) ELSE dir[k]
  BY DEF FillFree
<1>3. \A k \in EntryIndex : dir[k].filename # n
  BY DEF Matches
<1>4. NewEntry(n).filename = n
  BY DEF NewEntry
<1> HIDE DEF new
<1> QED
  BY <1>1, <1>2, <1>3, <1>4 DEF TwinsAgreeIn

LEMMA ClearKeepsTwins ==
  ASSUME NEW dir \in Dir, NEW n, TwinsAgreeIn(dir)
  PROVE  TwinsAgreeIn(ClearMatches(dir, n))
<1> DEFINE new == ClearMatches(dir, n)
           cleared(e) == [e EXCEPT !.file_size = 0, !.file_first_index = FAT_EOC,
                                   !.isEmpty = TRUE]
<1> SUFFICES ASSUME NEW i \in 0 .. Whole - 1, NEW j \in 0 .. Whole - 1,
                    new[i].filename = new[j].filename, new[i].filename \in Names
             PROVE  new[i] = new[j]
  BY DEF TwinsAgreeIn
<1>1. i \in EntryIndex /\ j \in EntryIndex
  BY WholeIsOnRoot
<1>2. \A k \in EntryIndex :
         new[k] = IF dir[k].filename = n THEN cleared(dir[k]) ELSE dir[k]
  BY DEF ClearMatches
<1>3. \A k \in EntryIndex : cleared(dir[k]).filename = dir[k].filename
  BY DEF Dir, Entry
<1> HIDE DEF new, cleared
<1>4. dir[i].filename = dir[j].filename /\ dir[i].filename \in Names
  BY <1>1, <1>2, <1>3
<1>5. dir[i] = dir[j]
  BY <1>4 DEF TwinsAgreeIn
<1> QED
  BY <1>1, <1>2, <1>5

LEMMA EditsKeepEmpty ==
  ASSUME NEW dir \in Dir, NEW n, NEW m, EmptyIn(dir, m)
  PROVE  EmptyIn(FillFree(dir, n), m) /\ EmptyIn(ClearMatches(dir, n), m)
<1>1. ASSUME NEW i \in OnRootBlock, FillFree(dir, n)[i].filename = m
      PROVE  FillFree(dir, n)[i].file_size = 0
  BY <1>1, RootEntries DEF EmptyIn, FillFree, NewEntry
<1>2. ASSUME NEW i \in OnRootBlock, ClearMatches(dir, n)[i].filename = m
      PROVE  ClearMatches(dir, n)[i].file_size = 0
  <2>1. i \in EntryIndex /\ dir[i] \in Entry
    BY RootEntries DEF Dir
  <2>2. CASE dir[i].filename = n
    BY <2>1, <2>2 DEF ClearMatches, Entry
  <2>3. CASE dir[i].filename # n
    BY <1>2, <2>1, <2>3 DEF ClearMatches, EmptyIn
  <2> QED
    BY <2>2, <2>3
<1> QED
  BY <1>1, <1>2 DEF EmptyIn

LEMMA FillKeepsShort ==
  ASSUME NEW dir \in Dir, NEW n \in MaybeName, TwinsShortIn(dir), Matches(dir, n) = {}
  PROVE  TwinsShortIn(FillFree(dir, n))
<1> DEFINE new == FillFree(dir, n)
<1> SUFFICES ASSUME NEW i \in OnRootBlock, NEW j \in OnRootBlock, i # j,
                    new[i].filename = new[j].filename
             PROVE  OccupiedBlocks(new[i]) <= 1
  BY DEF TwinsShortIn
<1>1. /\ i \in EntryIndex /\ j \in EntryIndex
      /\ new[i] \in Entry
  BY RootEntries, FillFreeType DEF Dir
<1>2. \A k \in EntryIndex : new[k] = IF dir[k].isEmpty THEN NewEntry(n) ELSE dir[k]
  BY DEF FillFree
<1>3. \A k \in EntryIndex : dir[k].filename # n
  BY DEF Matches
<1>4. NewEntry(n).filename = n /\ NewEntry(n).file_size = 0
  BY DEF NewEntry
<1> HIDE DEF new
<1>5. CASE dir[i].isEmpty
  BY <1>1, <1>2, <1>4, <1>5, BlockCounts
<1>6. CASE ~dir[i].isEmpty
  <2>1. new[i] = dir[i] /\ new[j] = dir[j]
    BY <1>1, <1>2, <1>3, <1>4, <1>6
  <2> QED
    BY <2>1 DEF TwinsShortIn
<1> QED
  BY <1>5, <1>6

LEMMA ClearKeepsShort ==
  ASSUME NEW dir \in Dir, NEW n, TwinsShortIn(dir)
  PROVE  TwinsShortIn(ClearMatches(dir, n))
<1> DEFINE new == ClearMatches(dir, n)
           cleared(e) == [e EXCEPT !.file_size = 0, !.file_first_index = FAT_EOC,
                                   !.isEmpty = TRUE]
<1> SUFFICES ASSUME NEW i \in OnRootBlock, NEW j \in OnRootBlock, i # j,
                    new[i].filename = new[j].filename
             PROVE  OccupiedBlocks(new[i]) <= 1
  BY DEF TwinsShortIn
<1>1. /\ i \in EntryIndex /\ j \in EntryIndex
      /\ new[i] \in Entry
  BY RootEntries, ClearMatchesType DEF Dir
<1>2. \A k \in EntryIndex :
         new[k] = IF dir[k].filename = n THEN cleared(dir[k]) ELSE dir[k]
  BY DEF ClearMatches
<1>3. \A k \in EntryIndex : cleared(dir[k]).filename = dir[k].filename
                            /\ cleared(dir[k]).file_size = 0
  BY DEF Dir, Entry
<1> HIDE DEF new, cleared
<1>4. dir[i].filename = dir[j].filename
  BY <1>1, <1>2, <1>3
<1>5. CASE dir[i].filename = n
  BY <1>1, <1>2, <1>3, <1>5, BlockCounts
<1>6. CASE dir[i].filename # n
  BY <1>1, <1>2, <1>4, <1>6 DEF TwinsShortIn
<1> QED
  BY <1>5, <1>6

LEMMA EditsKeepSound ==
  ASSUME NEW dir \in Dir, NEW n \in MaybeName, RootSound(dir)
  PROVE  /\ Matches(dir, n) = {} => RootSound(FillFree(dir, n))
         /\ RootSound(ClearMatches(dir, n))
  BY FillKeepsTwins, FillKeepsShort, ClearKeepsTwins, ClearKeepsShort DEF RootSound

LEMMA SameCarriesOver ==
  ASSUME NEW dir, NEW root, SameOnRoot(dir, root)
  PROVE  /\ RootSound(dir) <=> RootSound(root)
         /\ \A m : EmptyIn(dir, m) <=> EmptyIn(root, m)
<1>1. TwinsAgreeIn(dir) <=> TwinsAgreeIn(root)
  BY DEF SameOnRoot, TwinsAgreeIn
<1>2. \A i \in OnRootBlock : OccupiedBlocks(dir[i]) = OccupiedBlocks(root[i])
  BY DEF SameOnRoot, OccupiedBlocks
<1>3. TwinsShortIn(dir) <=> TwinsShortIn(root)
  BY <1>2 DEF SameOnRoot, TwinsShortIn
<1>4. \A m : EmptyIn(dir, m) <=> EmptyIn(root, m)
  BY DEF SameOnRoot, EmptyIn
<1> QED
  BY <1>1, <1>3, <1>4 DEF RootSound

\* An undamaged mount reads what the disk has.
LEMMA LoadedUndamaged ==
  ASSUME FsTypeOK, NEW d \in Disks, MountLoaded(d), ~damaged'
  PROVE  /\ ~damaged /\ UNCHANGED images /\ diskname' = d
         /\ SameOnRoot(root_dir', images[d].root)
         /\ fat_blocks' = LoadFat(images[d].fat, {})
<1>1. PICK unread \in UnreadBlocks, heap \in [EntryIndex -> Garbage] :
         /\ fat_blocks' = LoadFat(images[d].fat, unread)
         /\ root_dir' = IF FatBlocks \in unread THEN heap
                        ELSE LoadRoot(images[d].root, heap)
         /\ damaged' = (damaged \/ unread # {})
  BY DEF MountLoaded
<1>2. ~damaged /\ unread = {}
  <2>1. damaged \/ unread # {} => damaged'
    BY <1>1
  <2> QED
    BY <2>1
<1>3. images[d].root \in RootImage
  BY DEF FsTypeOK
<1> QED
  BY <1>1, <1>2, <1>3, LoadedIsSame DEF MountLoaded

\* An undamaged write-back leaves on the disk what the memory has.
LEMMA SavedUndamaged ==
  ASSUME FsTypeOK, WriteRootAndRelease, ~damaged'
  PROVE  /\ ~damaged /\ UNCHANGED diskname
         /\ image'.fat = image.fat
         /\ SameOnRoot(root_dir, image'.root)
         /\ \A d \in Disks : d # diskname => images'[d] = images[d]
<1>1. PICK m \in Transferred(Whole + 1) :
         /\ image'.root = [i \in OnRootBlock |->
                             IF i < m THEN RootBlock(root_dir)[i] ELSE image.root[i]]
         /\ damaged' = (damaged \/ m < Whole + 1)
  BY SavedRoot
<1>2. ~damaged /\ ~(m < Whole + 1) /\ m \in Int
  <2>1. damaged \/ m < Whole + 1 => damaged'
    BY <1>1
  <2>2. m \in Int
    BY GeometryTypes DEF Transferred
  <2> QED
    BY <2>1, <2>2
<1>3. \A i \in OnRootBlock : image'.root[i] = RootBlock(root_dir)[i]
  BY <1>1, <1>2, RootEntries
<1>4. SameOnRoot(root_dir, RootBlock(root_dir))
  BY StoredIsSame DEF FsTypeOK
<1> QED
  BY <1>2, <1>3, <1>4, SavedRoot, WholeIsOnRoot DEF SameOnRoot

----------------------------------------------------------------------------
(* The steps.                                                              *)

LEMMA DirectoryInvInit == Init => DirectoryInv
<1> SUFFICES ASSUME Init
             PROVE  DirectoryInv
  OBVIOUS
<1>1. ~Mounted /\ \A fd \in Fds : ~Named(fd)
  BY DEF Init, FdInit, Mounted, Named, UnusedEntry
<1>2. \A d \in Disks : RootSound(images[d].root)
  BY DEF Init, RootSound, TwinsOnImages, ShortOnImages
<1> QED
  BY <1>1, <1>2 DEF DirectoryInv, OpenFilesAreEmpty

\* Steps that close files at most, and of every disk leave the directory as the
\* root block tells it.
LEMMA DirectoryKept ==
  ASSUME FsTypeOK, DirectoryInv, damaged => damaged',
         Mounted' /\ ~damaged' => RootSound(root_dir'),
         ~damaged' => \A d \in Disks : RootSound(images'[d].root),
         ~damaged' => \A d \in Disks : SameOnRoot(RootOn(d)', RootOn(d)),
         \A fd \in Fds : Named(fd)' => /\ Named(fd)
                                       /\ fd_table'[fd].filename = fd_table[fd].filename
                                       /\ opened_on'[fd] = opened_on[fd]
  PROVE  DirectoryInv'
<1> SUFFICES ASSUME ~damaged', NEW fd \in Fds, Named(fd)'
             PROVE  EmptyIn(RootOn(opened_on[fd])', fd_table[fd].filename)
  BY DEF DirectoryInv, OpenFilesAreEmpty
<1>1. opened_on[fd] \in Disks
  BY DEF FsTypeOK
<1>2. EmptyIn(RootOn(opened_on[fd]), fd_table[fd].filename)
  BY DEF DirectoryInv, OpenFilesAreEmpty
<1> QED
  BY <1>1, <1>2, SameCarriesOver

LEMMA SameAsItself == \A dir : SameOnRoot(dir, dir)
  BY DEF SameOnRoot

\* Steps that touch no directory.
LEMMA DirectoryUntouched ==
  ASSUME FsTypeOK, DirectoryInv, damaged => damaged',
         UNCHANGED <<root_dir, diskname, opened_on>>, Mounted' <=> Mounted,
         \A d \in Disks : images'[d].root = images[d].root,
         \A fd \in Fds : Named(fd)' => /\ Named(fd)
                                       /\ fd_table'[fd].filename = fd_table[fd].filename
  PROVE  DirectoryInv'
<1>1. \A d \in Disks : RootOn(d)' = RootOn(d)
  BY DEF RootOn
<1>2. \A d \in Disks : SameOnRoot(RootOn(d)', RootOn(d))
  BY <1>1, SameAsItself
<1> QED
  BY <1>2, DirectoryKept DEF DirectoryInv

\* The end of the process closes every file.
LEMMA DirectoryAtEnd ==
  ASSUME DirectoryInv, ProcessEnds
  PROVE  DirectoryInv'
<1>1. \A fd \in Fds : ~Named(fd)'
  BY DEF ProcessEnds, ResetTable, Named, UnusedEntry
<1>2. ~Mounted' /\ UNCHANGED images /\ (damaged => damaged')
  BY DEF ProcessEnds, Mounted
<1> QED
  BY <1>1, <1>2 DEF DirectoryInv, OpenFilesAreEmpty

LEMMA DirectoryAtMount ==
  ASSUME FsTypeOK, DiskHeld, DirectoryInv, damaged => damaged',
         NEW d \in Disks, MountUnchecked(d) \/ MountLoaded(d)
  PROVE  DirectoryInv'
<1>1. ~Mounted /\ diskname' = d /\ UNCHANGED <<images, opened_on, fd_table>>
  BY DEF MountUnchecked, MountLoaded, DiskHeld, Mounted, fdVars
<1>2. ASSUME ~damaged', MountLoaded(d)
      PROVE  SameOnRoot(root_dir', images[d].root) /\ RootSound(root_dir')
  <2>1. ~damaged /\ SameOnRoot(root_dir', images[d].root)
    BY <1>2, LoadedUndamaged
  <2>2. RootSound(images[d].root)
    BY <2>1 DEF DirectoryInv
  <2> QED
    BY <2>1, <2>2, SameCarriesOver
<1>3. MountUnchecked(d) => ~Mounted'
  BY DEF MountUnchecked, Mounted
<1>4. ASSUME ~damaged', NEW e \in Disks
      PROVE  SameOnRoot(RootOn(e)', RootOn(e))
  <2>1. RootOn(e) = images[e].root
    BY <1>1 DEF RootOn
  <2>2. RootOn(e)' = IF Mounted' /\ d = e THEN root_dir' ELSE images[e].root
    BY <1>1 DEF RootOn
  <2> QED
    BY <1>2, <1>3, <1>4, <2>1, <2>2, SameAsItself
<1> QED
  BY <1>1, <1>2, <1>3, <1>4, DirectoryKept DEF DirectoryInv, Named

LEMMA DirectoryAtSave ==
  ASSUME FsTypeOK, DiskHeld, DirectoryInv, damaged => damaged', WriteRootAndRelease
  PROVE  DirectoryInv'
<1>1. Mounted /\ ~Mounted' /\ UNCHANGED <<fd_table, opened_on>>
  BY GeometryTypes DEF WriteRootAndRelease, DiskHeld, Idle, NotWriting, Mounted, fdVars,
                       whichDisk
<1>2. ASSUME ~damaged'
      PROVE  /\ ~damaged /\ diskname' = diskname
             /\ SameOnRoot(root_dir, images'[diskname].root)
             /\ \A d \in Disks : d # diskname => images'[d] = images[d]
  BY <1>2, SavedUndamaged DEF image
<1>3. ASSUME ~damaged', NEW d \in Disks
      PROVE  RootSound(images'[d].root) /\ SameOnRoot(RootOn(d)', RootOn(d))
  <2>1. RootSound(images[d].root) /\ RootSound(root_dir)
    BY <1>1, <1>2, <1>3 DEF DirectoryInv
  <2>2. /\ RootOn(d) = IF d = diskname THEN root_dir ELSE images[d].root
        /\ RootOn(d)' = images'[d].root
    BY <1>1 DEF RootOn
  <2>3. CASE d = diskname
    <3>1. SameOnRoot(images'[d].root, root_dir)
      BY <1>2, <1>3, <2>3 DEF SameOnRoot
    <3> QED
      BY <2>1, <2>2, <2>3, <3>1, SameCarriesOver
  <2>4. CASE d # diskname
    BY <1>2, <1>3, <2>1, <2>2, <2>4, SameAsItself
  <2> QED
    BY <2>3, <2>4
<1> QED
  BY <1>1, <1>3, DirectoryKept DEF Named

\* fs_create and fs_delete while a disk is mounted.
LEMMA DirectoryAtEdit ==
  ASSUME FsTypeOK, DirectoryInv, NEW n \in MaybeName, Mounted, Mounted',
         \/ Matches(root_dir, n) = {} /\ root_dir' = FillFree(root_dir, n)
         \/ root_dir' = ClearMatches(root_dir, n),
         UNCHANGED <<images, fd_table, diskname, opened_on>>, damaged => damaged'
  PROVE  DirectoryInv'
<1> SUFFICES ASSUME ~damaged'
             PROVE  DirectoryInv'
  BY DEF DirectoryInv
<1>1. /\ RootSound(root_dir) /\ \A d \in Disks : RootSound(images[d].root)
      /\ OpenFilesAreEmpty /\ root_dir \in Dir
  BY DEF DirectoryInv, FsTypeOK
<1>2. RootSound(root_dir')
  BY <1>1, EditsKeepSound
<1>3. ASSUME NEW fd \in Fds, Named(fd)'
      PROVE  EmptyIn(RootOn(opened_on[fd])', fd_table[fd].filename)
  <2>1. EmptyIn(RootOn(opened_on[fd]), fd_table[fd].filename)
    BY <1>1, <1>3 DEF OpenFilesAreEmpty, Named
  <2> QED
    BY <1>1, <2>1, EditsKeepEmpty DEF RootOn
<1> QED
  BY <1>1, <1>2, <1>3 DEF DirectoryInv, OpenFilesAreEmpty

\* The name that is opened is one the directory lacks.
LEMMA DirectoryAtOpen ==
  ASSUME FsTypeOK, FdTypeOK, DirectoryInv, NEW n \in MaybeName,
         OpenAccepted(n), OpenEntry(n),
         opened_on' = [opened_on EXCEPT ![fd_open_count] = diskname],
         damaged' = (damaged \/ Dangling), file_system \in PointerStates,
         UNCHANGED <<file_system, root_dir, images, diskname>>
  PROVE  DirectoryInv'
<1> SUFFICES ASSUME ~damaged'
             PROVE  DirectoryInv'
  BY DEF DirectoryInv
<1>1. ~damaged /\ Mounted /\ Mounted' /\ Matches(root_dir, n) = {}
  BY DEF OpenAccepted, Dangling, Mounted, PointerStates
<1>2. EmptyIn(root_dir, n)
  BY <1>1, RootEntries DEF EmptyIn, Matches
<1>3. \A d : RootOn(d)' = RootOn(d)
  BY <1>1 DEF RootOn
<1>4. ASSUME NEW fd \in Fds, Named(fd)'
      PROVE  EmptyIn(RootOn(opened_on'[fd]), fd_table'[fd].filename)
  <2>1. CASE fd = fd_open_count
    <3>1. opened_on'[fd] = diskname /\ fd_table'[fd].filename = n
      BY <2>1 DEF OpenEntry, FdTypeOK, FsTypeOK
    <3> QED
      BY <1>1, <1>2, <3>1 DEF RootOn
  <2>2. CASE fd # fd_open_count
    <3>1. opened_on'[fd] = opened_on[fd] /\ fd_table'[fd] = fd_table[fd]
      BY <2>2 DEF OpenEntry, FdTypeOK, FsTypeOK
    <3> QED
      BY <1>1, <1>4, <3>1 DEF Named, DirectoryInv, OpenFilesAreEmpty
  <2> QED
    BY <2>1, <2>2
<1> QED
  BY <1>1, <1>3, <1>4 DEF DirectoryInv, OpenFilesAreEmpty

LEMMA DirectoryInvStep == FsInv /\ DirectoryInv /\ [Next]_vars => DirectoryInv'
<1> SUFFICES ASSUME FsInv, DirectoryInv, [Next]_vars
             PROVE  DirectoryInv'
  OBVIOUS
<1>1. FsTypeOK /\ FdTypeOK /\ DiskHeld /\ file_system \in PointerStates
  BY DEF FsInv, TypeOK, FsTypeOK
<1>2. damaged => damaged'
  BY DamageStays
<1>3. CASE UNCHANGED <<root_dir, images, whichDisk, file_system, fd_table>>
  BY <1>1, <1>2, <1>3, DirectoryUntouched DEF Mounted, Named, whichDisk
<1>4. CASE ProcessEnds
  BY <1>4, DirectoryAtEnd
<1>5. ASSUME NEW d \in Disks, fs_mount(d)
      PROVE  DirectoryInv'
  BY <1>1, <1>2, <1>3, <1>5, DirectoryAtMount DEF fs_mount, MountRefused, fdVars
<1>6. CASE fs_umount
  <2>1. CASE damaged'
    BY <2>1 DEF DirectoryInv
  <2> QED
    BY <1>3, <1>4, <1>6, <2>1 DEF fs_umount, fdVars
<1>7. CASE WriteFatBlock
  <2>1. UNCHANGED <<root_dir, file_system, fd_table, diskname, opened_on>>
    BY <1>7 DEF WriteFatBlock, fdVars, whichDisk
  <2>2. \A d \in Disks : images'[d].root = images[d].root
    BY <1>1, <1>7, RootUntouched DEF image
  <2> QED
    BY <1>1, <1>2, <2>1, <2>2, DirectoryUntouched DEF Mounted, Named
<1>8. CASE WriteRootAndRelease
  BY <1>1, <1>2, <1>8, DirectoryAtSave
<1>9. ASSUME NEW n \in MaybeName, fs_create(n)
      PROVE  DirectoryInv'
  <2>1. \/ UNCHANGED <<root_dir, images, whichDisk, file_system, fd_table>>
        \/ /\ Mounted /\ Mounted' /\ Matches(root_dir, n) = {}
           /\ root_dir' = FillFree(root_dir, n)
           /\ UNCHANGED <<images, fd_table, diskname, opened_on>>
    BY <1>9 DEF fs_create, Reports, fdVars, Mounted, whichDisk
  <2> QED
    BY <1>1, <1>2, <1>3, <2>1, DirectoryAtEdit
<1>10. ASSUME NEW n \in MaybeName, fs_delete(n)
       PROVE  DirectoryInv'
  <2>1. \/ UNCHANGED <<root_dir, images, whichDisk, file_system, fd_table>>
        \/ ProcessEnds
        \/ /\ Mounted /\ Mounted' /\ UNCHANGED <<images, fd_table, diskname, opened_on>>
           /\ root_dir' = ClearMatches(root_dir, n)
    BY <1>10 DEF fs_delete, Reports, fdVars, Mounted, whichDisk
  <2> QED
    BY <1>1, <1>2, <1>3, <1>4, <2>1, DirectoryAtEdit
<1>11. ASSUME NEW n \in MaybeName, fs_open(n)
       PROVE  DirectoryInv'
  <2>1. \/ UNCHANGED <<root_dir, images, whichDisk, file_system, fd_table>>
        \/ /\ OpenAccepted(n) /\ OpenEntry(n) /\ damaged' = (damaged \/ Dangling)
           /\ opened_on' = [opened_on EXCEPT ![fd_open_count] = diskname]
           /\ UNCHANGED <<file_system, root_dir, images, diskname>>
    BY <1>11 DEF fs_open, Reports, fdVars
  <2> QED
    BY <1>1, <1>3, <2>1, DirectoryAtOpen
<1>12. ASSUME NEW fd \in FdArgs,
              \/ fs_close(fd) \/ fs_stat(fd) \/ fs_write(fd) \/ fs_read(fd)
              \/ \E offset \in Offsets : fs_lseek(fd, offset)
       PROVE  DirectoryInv'
  <2>1. UNCHANGED <<root_dir, images, file_system, diskname, opened_on>>
    BY <1>12 DEF fs_close, fs_stat, fs_write, fs_read, fs_lseek, Reports, whichDisk
  <2>2. \A g \in Fds : Named(g)' => /\ Named(g)
                                    /\ fd_table'[g].filename = fd_table[g].filename
    <3>1. CASE UNCHANGED fd_table
      BY <3>1 DEF Named
    <3>2. CASE \E offset \in Offsets : fs_lseek(fd, offset)
      <4>1. CASE UNCHANGED fd_table
        BY <4>1 DEF Named
      <4>2. CASE \E offset : fd_table' = [fd_table EXCEPT ![fd].offset = offset]
        BY <1>1, <4>2 DEF Named, FdTypeOK, FdEntry
      <4> QED
        BY <3>2, <4>1, <4>2 DEF fs_lseek, Reports, fdVars
    <3>3. CASE fs_close(fd)
      <4>1. CASE fd_table' = [fd_table EXCEPT ![fd] = UnusedEntry]
        BY <1>1, <4>1 DEF Named, UnusedEntry, FdTypeOK
      <4> QED
        BY <3>1, <3>3, <4>1 DEF fs_close, CloseEntry, Reports, fdVars
    <3> QED
      BY <1>12, <3>1, <3>2, <3>3 DEF fs_stat, fs_write, fs_read, Reports, fdVars
  <2> QED
    BY <1>1, <1>2, <2>1, <2>2, DirectoryUntouched DEF Mounted
<1>13. CASE fs_info \/ fs_ls \/ UNCHANGED vars
  BY <1>3, <1>4, <1>13 DEF fs_info, fs_ls, Reports, vars, fsVars, fdVars
<1> QED
  BY <1>4, <1>5, <1>6, <1>7, <1>8, <1>9, <1>10, <1>11, <1>12, <1>13 DEF Next

LEMMA DirectoryInvariance == Spec => []DirectoryInv
  BY DirectoryInvInit, DirectoryInvStep, FsInvariance, PTL DEF Spec

----------------------------------------------------------------------------
\* fs_create and fs_delete, over any number of mounts: entries of one name that
\* lie whole on the root block stay equal, in memory and on disk, if they are
\* on the disks the library finds.
THEOREM TwinsAgreeHolds ==
  ASSUME TwinsOnImages
  PROVE  Spec => []TwinsAgree
<1>1. DirectoryInv => TwinsAgree
  BY DEF DirectoryInv, RootSound, TwinsAgree
<1> QED
  BY <1>1, DirectoryInvariance, PTL

\* fs_open, over any number of mounts of any number of disks: on the disk it was
\* opened on no open file has data on the root block, if nothing was damaged.
THEOREM OpenFilesAreEmptyHolds == Spec => []OpenFilesAreEmpty
<1>1. DirectoryInv => OpenFilesAreEmpty
  BY DEF DirectoryInv, OpenFilesAreEmpty
<1> QED
  BY <1>1, DirectoryInvariance, PTL

----------------------------------------------------------------------------
(* Chains, with and without faults.                                        *)

\* What the disks the library finds must have for chains to be intact at all.
ChainsOn(d) == ChainsIntact(images[d].root, LoadFat(images[d].fat, {}))
ChainsOnImages ==
    \A found \in Images, d \in Disks :
        ChainsIntact(found[d].root, LoadFat(found[d].fat, {}))

\* While fs_umount has written some FAT blocks and not yet the root block the
\* disk may mix two states; a kill that leaves it so is damage.
ChainInv ==
    ~damaged =>
        /\ Mounted => ChainsIntact(root_dir, fat_blocks)
        /\ \A d \in Disks : d # diskname \/ Idle \/ writeback = 0 => ChainsOn(d)

LEMMA ChainInvInit ==
  ASSUME ChainsOnImages
  PROVE  Init => ChainInv
  BY DEF ChainsOnImages, ChainsOn, Init, ChainInv, Mounted

\* Steps that leave entries and FAT alone.
LEMMA ChainsUntouched ==
  ASSUME ChainInv, damaged => damaged',
         UNCHANGED <<root_dir, fat_blocks, images, diskname, file_system, writeback>>
  PROVE  ChainInv'
  BY DEF ChainInv, ChainsOn, Mounted, Idle

LEMMA ChainsAtEnd ==
  ASSUME FsTypeOK, ChainInv, ProcessEnds
  PROVE  ChainInv'
<1>1. UNCHANGED <<images, diskname>> /\ ~Mounted'
  BY DEF ProcessEnds, Mounted, whichDisk
<1>2. ~damaged' => ~damaged /\ writeback \notin 1 .. FatBlocks
  BY DEF ProcessEnds
<1>3. writeback \notin 1 .. FatBlocks => Idle \/ writeback = 0
  BY GeometryTypes DEF FsTypeOK, Idle, NotWriting
<1> QED
  BY <1>1, <1>2, <1>3 DEF ChainInv, ChainsOn

LEMMA ChainsAtMount ==
  ASSUME FsTypeOK, ChainInv, NEW d \in Disks, fs_mount(d), MountLoaded(d)
  PROVE  ChainInv'
<1> SUFFICES ASSUME ~damaged'
             PROVE  ChainInv'
  BY DEF ChainInv
<1>1. /\ ~damaged /\ UNCHANGED images /\ SameOnRoot(root_dir', images[d].root)
      /\ fat_blocks' = LoadFat(images[d].fat, {})
  BY LoadedUndamaged
<1>2. \A e \in Disks : ChainsOn(e) /\ ChainsOn(e)'
  BY <1>1 DEF ChainInv, ChainsOn, fs_mount
<1>3. ChainsIntact(root_dir', fat_blocks')
  BY <1>1, <1>2, SameOnRootChains DEF ChainsOn
<1> QED
  BY <1>2, <1>3 DEF ChainInv

LEMMA ChainsAtSave ==
  ASSUME FsTypeOK, DiskHeld, StoreInv, ChainInv, WriteRootAndRelease
  PROVE  ChainInv'
<1> SUFFICES ASSUME ~damaged'
             PROVE  ChainInv'
  BY DEF ChainInv
<1>1. /\ ~damaged /\ image'.fat = image.fat /\ SameOnRoot(root_dir, image'.root)
      /\ UNCHANGED diskname /\ \A d \in Disks : d # diskname => images'[d] = images[d]
  BY SavedUndamaged
<1>2. writeback = FatBlocks /\ Mounted /\ ~Mounted'
  BY GeometryTypes DEF WriteRootAndRelease, DiskHeld, Idle, NotWriting, Mounted
<1>3. \A i \in 0 .. FatBlocks - 1 : image.fat[i] = FatBlock(fat_blocks, i)
  BY <1>1, <1>2, GeometryTypes DEF StoreInv
<1>4. image.fat \in FatImage
  BY ImageTypes
<1>5. LoadFat(image.fat, {}) = fat_blocks
  BY <1>3, <1>4, WriteThenLoad DEF FsTypeOK, StoreInv
<1>6. ChainsIntact(image'.root, LoadFat(image'.fat, {}))
  BY <1>1, <1>2, <1>5, SameOnRootChains DEF ChainInv
<1>7. \A d \in Disks : ChainsOn(d)'
  BY <1>1, <1>6 DEF ChainInv, ChainsOn, image
<1> QED
  BY <1>2, <1>7 DEF ChainInv

\* The entry whose blocks fs_delete frees, as far as the step is undamaged: one of
\* the root block if it has blocks to free, and if it is none of that block no
\* stored entry of the name has any.
LEMMA DeleteVictim ==
  ASSUME FsTypeOK, NEW n, Mounted, fs_delete(n), ~damaged'
  PROVE  \E victim \in Entry :
            /\ fat_blocks' = FreeChain(fat_blocks, victim.file_first_index,
                                       WholeBlocks(victim))
            /\ root_dir' = ClearMatches(root_dir, n) /\ ~damaged
            /\ Matches(root_dir, n) # {} => victim = Victim(root_dir, n)
            /\ WholeBlocks(victim) > 0 =>
                  \E v \in OnRootBlock : root_dir[v].filename = n /\ victim = root_dir[v]
            /\ \A i \in Matches(root_dir, n) \cap OnRootBlock :
                  Max(Matches(root_dir, n)) > Whole => ~(WholeBlocks(root_dir[i]) > 0)
<1> DEFINE found == Matches(root_dir, n)
<1>1. PICK victim \in IF found = {} THEN Garbage ELSE {Victim(root_dir, n)} :
         /\ fat_blocks' = FreeChain(fat_blocks, victim.file_first_index,
                                    WholeBlocks(victim))
         /\ damaged' = (damaged \/ Misled(root_dir, n, WholeBlocks(victim)))
  BY DEF fs_delete, Mounted, Dangling
<1>2. root_dir' = ClearMatches(root_dir, n)
  BY DEF fs_delete, Mounted, Dangling
<1>3. found # {} => Max(found) \in found
  BY LastMatch
<1>4. victim \in Entry
  BY <1>1, <1>3, FileSystemAssumption DEF Victim, Matches, FsTypeOK, Dir
<1>5. ~damaged /\ ~Misled(root_dir, n, WholeBlocks(victim))
  <2>1. damaged \/ Misled(root_dir, n, WholeBlocks(victim)) => damaged'
    BY <1>1
  <2> QED
    BY <2>1
<1>6. WholeBlocks(victim) > 0 =>
         \E v \in OnRootBlock : root_dir[v].filename = n /\ victim = root_dir[v]
  BY <1>1, <1>5, NotMisled DEF Victim
<1>7. \A i \in found \cap OnRootBlock :
         Max(found) > Whole => ~(WholeBlocks(root_dir[i]) > 0)
  BY <1>5 DEF Misled
<1> QED
  BY <1>1, <1>2, <1>4, <1>5, <1>6, <1>7

LEMMA ChainInvStep == FsInv /\ StoreInv /\ ChainInv /\ [Next]_vars => ChainInv'
<1> SUFFICES ASSUME FsInv, StoreInv, ChainInv, [Next]_vars, ~damaged'
             PROVE  ChainInv'
  BY DEF ChainInv
<1>1. FsTypeOK /\ DiskHeld
  BY DEF FsInv, TypeOK, FsTypeOK
<1>2. ~damaged
  BY DamageStays
<1>3. CASE UNCHANGED <<root_dir, fat_blocks, images, diskname, file_system, writeback>>
  BY <1>2, <1>3, ChainsUntouched
<1>4. CASE ProcessEnds
  BY <1>1, <1>4, ChainsAtEnd
<1>5. ASSUME NEW d \in Disks, fs_mount(d)
      PROVE  ChainInv'
  <2>1. CASE MountUnchecked(d)
    BY <1>2, <1>5, <2>1 DEF fs_mount, MountUnchecked, ChainInv, ChainsOn, Mounted, Idle
  <2> QED
    BY <1>1, <1>3, <1>5, <2>1, ChainsAtMount DEF fs_mount, MountRefused, whichDisk
<1>6. CASE fs_umount
  <2>1. CASE Mounted /\ writeback' = 0
    BY <1>2, <1>4, <1>6, <2>1
    DEF fs_umount, ChainInv, ChainsOn, Mounted, Idle, whichDisk
  <2> QED
    BY <1>4, <1>6, <2>1 DEF fs_umount
<1>7. CASE WriteFatBlock
  <2>1. ~Idle' /\ writeback' # 0 /\ UNCHANGED <<file_system, root_dir, fat_blocks>>
    BY <1>7, GeometryTypes DEF WriteFatBlock, Idle, NotWriting
  <2>2. diskname' = diskname /\ \A d \in Disks : d # diskname => images'[d] = images[d]
    BY <1>1, <1>7, BlockWritten
  <2> QED
    BY <1>2, <2>1, <2>2 DEF ChainInv, ChainsOn, Mounted
<1>8. CASE WriteRootAndRelease
  BY <1>1, <1>8, ChainsAtSave
<1>9. ASSUME NEW n \in MaybeName, fs_create(n)
      PROVE  ChainInv'
  <2>1. CASE Mounted /\ root_dir' = FillFree(root_dir, n)
             /\ UNCHANGED <<fat_blocks, images, diskname, file_system, writeback>>
    BY <1>1, <1>2, <2>1, FillKeepsChains DEF ChainInv, ChainsOn, Mounted, Idle, FsTypeOK
  <2> QED
    BY <1>3, <1>9, <2>1 DEF fs_create, Reports, whichDisk
<1>10. ASSUME NEW n \in MaybeName, fs_delete(n)
       PROVE  ChainInv'
  <2>1. CASE Mounted /\ UNCHANGED <<images, diskname, file_system, writeback>>
    <3>1. ChainsIntact(root_dir', fat_blocks')
      BY <1>1, <1>2, <1>10, <2>1, DeleteVictim, ClearKeepsChains DEF ChainInv, FsTypeOK
    <3> QED
      BY <1>2, <2>1, <3>1 DEF ChainInv, ChainsOn, Mounted, Idle
  <2> QED
    BY <1>3, <1>4, <1>10, <2>1 DEF fs_delete, Reports, whichDisk
<1>11. CASE \/ \E n \in MaybeName : fs_open(n)
            \/ \E fd \in FdArgs :
                  fs_close(fd) \/ fs_stat(fd) \/ fs_write(fd) \/ fs_read(fd)
            \/ \E fd \in FdArgs, offset \in Offsets : fs_lseek(fd, offset)
            \/ fs_info \/ fs_ls
            \/ UNCHANGED vars
  BY <1>3, <1>4, <1>11
  DEF fs_open, fs_close, fs_stat, fs_write, fs_read, fs_lseek, fs_info, fs_ls,
      Reports, vars, fsVars, whichDisk
<1> QED
  BY <1>4, <1>5, <1>6, <1>7, <1>8, <1>9, <1>10, <1>11 DEF Next

LEMMA ChainInvariance ==
  ASSUME ChainsOnImages
  PROVE  Spec => []ChainInv
  BY ChainInvInit, ChainInvStep, FsInvariance, StoreInvariance, PTL DEF Spec

\* fs_create, fs_delete, fs_mount and fs_umount, with any faults: as long as
\* nothing was damaged no file of the mounted directory has a block that is
\* free, missing or shared, if that is so on the disks the library finds.
THEOREM MemoryChainsIntactHolds ==
  ASSUME ChainsOnImages
  PROVE  Spec => []MemoryChainsIntact
<1>1. ChainInv => MemoryChainsIntact
  BY DEF ChainInv, MemoryChainsIntact
<1> QED
  BY <1>1, ChainInvariance, PTL

\* The same of every disk, whenever fs_umount is not in the middle of its writes.
THEOREM ImageChainsIntactHolds ==
  ASSUME ChainsOnImages
  PROVE  Spec => []ImageChainsIntact
<1>1. ChainInv => ImageChainsIntact
  BY DEF ChainInv, ImageChainsIntact, ChainsOn
<1> QED
  BY <1>1, ChainInvariance, PTL

\* Which step answers a delete.
LEMMA AnswersDelete ==
  ASSUME Next, NEW n, ret' = [call |-> "fs_delete", arg |-> n, value |-> 0], Mounted
  PROVE  fs_delete(n)
<1>1. ret'.call = "fs_delete" /\ ret'.arg = n
  OBVIOUS
<1>2. (\A d : ~fs_mount(d)) /\ ~fs_info /\ ~fs_ls /\ ~ProcessEnds
  BY <1>1 DEF fs_mount, MountRefused, MountUnchecked, MountLoaded, fs_info, fs_ls,
              ProcessEnds, NoCall, Returns, Reports
<1>3. ~fs_umount /\ ~WriteFatBlock /\ ~WriteRootAndRelease
  BY <1>1 DEF fs_umount, WriteFatBlock, WriteRootAndRelease, ProcessEnds, NoCall, Returns
<1>4. \A m : ~fs_create(m) /\ ~fs_open(m)
  BY <1>1 DEF fs_create, fs_open, Returns, Reports
<1>5. \A fd : /\ ~fs_close(fd) /\ ~fs_stat(fd) /\ ~fs_write(fd) /\ ~fs_read(fd)
              /\ \A offset : ~fs_lseek(fd, offset)
  BY <1>1 DEF fs_close, fs_stat, fs_write, fs_read, fs_lseek, Returns, Reports
<1>6. \A m : fs_delete(m) => m = n
  BY <1>1, <1>2 DEF fs_delete, Returns, Reports
<1> QED
  BY <1>2, <1>3, <1>4, <1>5, <1>6 DEF Next

\* Of the entry whose blocks are freed.
LEMMA VictimKeepsOneBlock ==
  ASSUME FsTypeOK, ChainInv, NEW n \in MaybeName, fs_delete(n),
         Mounted, ~damaged', Matches(root_dir, n) # {}
  PROVE  \E last : {b \in Chain(Victim(root_dir, n), fat_blocks) :
                       fat_blocks'[b] # 0} \subseteq {last}
<1> DEFINE victim == Victim(root_dir, n)
           freed == Walked(fat_blocks, victim.file_first_index, WholeBlocks(victim))
           left == {b \in Chain(victim, fat_blocks) : fat_blocks'[b] # 0}
<1>1. /\ victim \in Entry /\ ~damaged
      /\ fat_blocks' = FreeChain(fat_blocks, victim.file_first_index, WholeBlocks(victim))
      /\ WholeBlocks(victim) > 0 =>
            \E v \in OnRootBlock : root_dir[v].filename = n /\ victim = root_dir[v]
  BY DeleteVictim
<1> HIDE DEF victim
<1>2. PICK last : Chain(victim, fat_blocks) \ freed \subseteq {last}
  BY <1>1, FreedInChain
<1>3. left \cap freed = {}
  <2>1. CASE WholeBlocks(victim) > 0
    <3>1. Chain(victim, fat_blocks) \subseteq FatIndex
      BY <1>1, <2>1 DEF ChainInv, ChainsIntact
    <3> QED
      BY <1>1, <3>1 DEF FreeChain
  <2>2. CASE ~(WholeBlocks(victim) > 0)
    <3>1. WholeBlocks(victim) = 0
      BY <1>1, <2>2, BlockCounts
    <3> QED
      BY <3>1 DEF Walked
  <2> QED
    BY <2>1, <2>2
<1> QED
  BY <1>2, <1>3 DEF victim

\* A file of one block at most has no other to keep.
LEMMA ShortChain ==
  ASSUME NEW e \in Entry, OccupiedBlocks(e) <= 1, NEW fat
  PROVE  \E last : Chain(e, fat) \subseteq {last}
<1> DEFINE w == Walk(fat, e.file_first_index, OccupiedBlocks(e))
<1>1. \A k \in 0 .. OccupiedBlocks(e) - 1 : k = 0
  BY BlockCounts
<1> HIDE DEF w
<1>2. {w[k] : k \in 0 .. OccupiedBlocks(e) - 1} \subseteq {w[0]}
  BY <1>1
<1> QED
  BY <1>2 DEF Chain, w

\* Of every stored entry of the name: it is the one whose blocks are freed, or the
\* twin of one on the root block, or it has too little for a whole block.
LEMMA AtMostOneBlock ==
  ASSUME ShortOnImages, FsTypeOK, ChainInv, DirectoryInv, NEW n \in MaybeName, fs_delete(n),
         Mounted, ~damaged', NEW i \in Matches(root_dir, n) \cap OnRootBlock
  PROVE  Cardinality({b \in Chain(root_dir[i], fat_blocks) : fat_blocks'[b] # 0}) <= 1
<1> DEFINE found == Matches(root_dir, n)
           left == {b \in Chain(root_dir[i], fat_blocks) : fat_blocks'[b] # 0}
<1>1. /\ root_dir[i] \in Entry /\ root_dir[i].filename = n
      /\ i \in EntryIndex
  BY RootEntries DEF FsTypeOK, Dir, Matches
<1>2. Max(found) \in found
  BY LastMatch
<1>3. /\ ~damaged
      /\ Max(found) > Whole => ~(WholeBlocks(root_dir[i]) > 0)
  BY DeleteVictim
<1>4. \E last : left \subseteq {last}
  <2>1. CASE i = Max(found)
    BY <2>1, VictimKeepsOneBlock DEF Victim
  <2>2. CASE i # Max(found)
    <3>1. CASE Max(found) > Whole
      BY <1>1, <1>3, <3>1, BlockCounts, ShortChain
    <3>2. CASE ~(Max(found) > Whole)
      <4>1. Max(found) \in OnRootBlock /\ root_dir[Max(found)].filename = n
        BY <1>2, <3>2, GeometryTypes DEF Matches, EntryIndex, OnRootBlock
      <4>2. TwinsShortIn(root_dir)
        BY <1>3 DEF DirectoryInv, RootSound
      <4>3. OccupiedBlocks(root_dir[i]) <= 1
        BY <1>1, <2>2, <4>1, <4>2 DEF TwinsShortIn
      <4> QED
        BY <1>1, <4>3, ShortChain
    <3> QED
      BY <3>1, <3>2
  <2> QED
    BY <2>1, <2>2
<1> HIDE DEF left
<1>5. PICK last : left \subseteq {last}
  BY <1>4
<1>6. Cardinality({last}) = 1 /\ IsFiniteSet({last})
  BY FS_Singleton
<1>7. Cardinality(left) <= 1
  BY <1>5, <1>6, FS_Subset
<1> QED
  BY <1>7 DEF left

\* fs_delete: it frees the blocks of one entry only, and a number of them rounded
\* down; still every stored file of the name keeps one block at most, whatever its
\* size and wherever its blocks lie, unless an entry behind the root block or none
\* at all has decided what is freed.  The disks the library finds must have whole
\* chains and no two files of one name and several blocks.
THEOREM DeleteLeavesAtMostOneBlockHolds ==
  ASSUME ChainsOnImages, ShortOnImages
  PROVE  Spec => DeleteLeavesAtMostOneBlock
<1> DEFINE Leaves ==
      \A n \in MaybeName :
         /\ ret' = [call |-> "fs_delete", arg |-> n, value |-> 0]
         /\ Mounted /\ ~damaged'
         => \A i \in Matches(root_dir, n) \cap OnRootBlock :
              Cardinality({b \in Chain(root_dir[i], fat_blocks) :
                              fat_blocks'[b] # 0}) <= 1
<1>1. FsInv /\ ChainInv /\ DirectoryInv /\ [Next]_vars => [Leaves]_vars
  <2> SUFFICES ASSUME FsInv, ChainInv, DirectoryInv, Next
               PROVE  Leaves
    OBVIOUS
  <2>1. FsTypeOK
    BY DEF FsInv, TypeOK, FsTypeOK
  <2> QED
    BY <2>1, AnswersDelete, AtMostOneBlock
<1> QED
  BY <1>1, ChainInvariance, DirectoryInvariance, FsInvariance, PTL
  DEF Spec, DeleteLeavesAtMostOneBlock

----------------------------------------------------------------------------
(* The number of names.                                                    *)

\* Whether an entry is free is a matter of its name.
FlagsAgreeIn(dir) ==
    \A i, j \in WholeEntries :
        dir[i].filename = dir[j].filename => dir[i].isEmpty = dir[j].isEmpty

\* What the disks the library finds must have for this.
FlagsOnImages == \A found \in Images, d \in Disks : FlagsAgreeIn(found[d].root)

NamesInv ==
    /\ \A d \in Disks : FlagsAgreeIn(images[d].root)
    /\ Mounted => /\ FlagsAgreeIn(root_dir)
                  /\ Cardinality(NamesOn(root_dir)) <= Cardinality(NamesOn(image.root))

LEMMA NamesFinite ==
  ASSUME NEW dir
  PROVE  IsFiniteSet(NamesOn(dir)) /\ Cardinality(NamesOn(dir)) \in Nat
<1> DEFINE f == [i \in WholeEntries |-> dir[i].filename]
<1>1. IsFiniteSet(WholeEntries)
  BY GeometryTypes, FS_Interval DEF WholeEntries
<1>2. f \in Surjection(WholeEntries, NamesOn(dir))
  BY DEF Surjection, NamesOn
<1>3. IsFiniteSet(NamesOn(dir))
  BY <1>1, <1>2, FS_Surjection
<1> QED
  BY <1>3, FS_CardinalityType

LEMMA SameNames ==
  ASSUME NEW dir, NEW root, WholePart(dir) = WholePart(root)
  PROVE  NamesOn(dir) = NamesOn(root) /\ (FlagsAgreeIn(dir) <=> FlagsAgreeIn(root))
<1>1. \A i \in WholeEntries : dir[i] = root[i]
  BY DEF WholePart
<1> QED
  BY <1>1 DEF NamesOn, FlagsAgreeIn

\* The free entries lose at least one name and get one.
LEMMA NamesAtCreate ==
  ASSUME NEW dir, NEW n, FlagsAgreeIn(dir)
  PROVE  LET new == FillFree(dir, n)
         IN  Matches(dir, n) = {} =>
                /\ FlagsAgreeIn(new)
                /\ Cardinality(NamesOn(new)) <= Cardinality(NamesOn(dir))
<1> DEFINE new == FillFree(dir, n)
<1> SUFFICES ASSUME Matches(dir, n) = {}
             PROVE  /\ FlagsAgreeIn(new)
                    /\ Cardinality(NamesOn(new)) <= Cardinality(NamesOn(dir))
  OBVIOUS
<1>1. \A i \in WholeEntries :
         /\ new[i] = IF dir[i].isEmpty THEN NewEntry(n) ELSE dir[i]
         /\ dir[i].filename # n
  BY WholeIsOnRoot DEF FillFree, Matches, WholeEntries
<1>2. NewEntry(n).filename = n /\ ~NewEntry(n).isEmpty
  BY DEF NewEntry
<1> HIDE DEF new
<1>3. FlagsAgreeIn(new)
  BY <1>1, <1>2 DEF FlagsAgreeIn
<1>4. CASE \A i \in WholeEntries : ~dir[i].isEmpty
  <2>1. NamesOn(new) = NamesOn(dir)
    BY <1>1, <1>4 DEF NamesOn
  <2> QED
    BY <1>3, <2>1, NamesFinite
<1>5. CASE \E i \in WholeEntries : dir[i].isEmpty
  <2>1. PICK f \in WholeEntries : dir[f].isEmpty
    BY <1>5
  <2> DEFINE x == dir[f].filename
             kept == NamesOn(dir) \ {x}
  <2>2. NamesOn(new) \subseteq kept \cup {n}
    BY <1>1, <1>2, <2>1 DEF NamesOn, FlagsAgreeIn
  <2>3. x \in NamesOn(dir) /\ n \notin NamesOn(dir)
    BY <1>1 DEF NamesOn
  <2> HIDE DEF x
  <2>4. /\ IsFiniteSet(kept) /\ Cardinality(kept) = Cardinality(NamesOn(dir)) - 1
        /\ Cardinality(NamesOn(dir)) \in Nat
    BY <2>3, NamesFinite, FS_RemoveElement
  <2>5. n \notin kept
    BY <2>3
  <2> HIDE DEF kept
  <2>6. /\ IsFiniteSet(kept \cup {n})
        /\ Cardinality(kept \cup {n}) = Cardinality(kept) + 1
    BY <2>4, <2>5, FS_AddElement
  <2>7. Cardinality(NamesOn(new)) <= Cardinality(kept \cup {n})
    BY <2>2, <2>6, FS_Subset
  <2> QED
    BY <1>3, <2>4, <2>6, <2>7, NamesFinite
<1> QED
  BY <1>4, <1>5

LEMMA NamesAtDelete ==
  ASSUME NEW dir \in Dir, NEW n, FlagsAgreeIn(dir)
  PROVE  /\ FlagsAgreeIn(ClearMatches(dir, n))
         /\ NamesOn(ClearMatches(dir, n)) = NamesOn(dir)
<1> DEFINE new == ClearMatches(dir, n)
<1>1. \A i \in WholeEntries : i \in EntryIndex /\ dir[i] \in Entry
  BY WholeIsOnRoot DEF WholeEntries, Dir
<1>2. ASSUME NEW i \in WholeEntries
      PROVE  /\ new[i].filename = dir[i].filename
             /\ new[i].isEmpty = IF dir[i].filename = n THEN TRUE ELSE dir[i].isEmpty
  BY <1>1 DEF ClearMatches, Entry
<1> HIDE DEF new
<1>3. NamesOn(new) = NamesOn(dir)
  BY <1>2 DEF NamesOn
<1>4. FlagsAgreeIn(new)
  <2> SUFFICES ASSUME NEW i \in WholeEntries, NEW j \in WholeEntries,
                      new[i].filename = new[j].filename
               PROVE  new[i].isEmpty = new[j].isEmpty
    BY DEF FlagsAgreeIn
  <2>1. dir[i].filename = dir[j].filename
    BY <1>2
  <2>2. dir[i].isEmpty = dir[j].isEmpty
    BY <2>1 DEF FlagsAgreeIn
  <2> QED
    BY <1>2, <2>1, <2>2
<1> QED
  BY <1>3, <1>4 DEF new

LEMMA NamesInvInit ==
  ASSUME FlagsOnImages
  PROVE  Init => NamesInv
  BY DEF FlagsOnImages, Init, NamesInv, Mounted

NamesOnDisksNotMore ==
    \A d \in Disks : Cardinality(NamesOn(images'[d].root))
                        <= Cardinality(NamesOn(images[d].root))

LEMMA NamesStep ==
  ASSUME Faults = {}
  PROVE  FsInv /\ NamesInv /\ [Next]_vars => NamesInv' /\ NamesOnDisksNotMore
<1> SUFFICES ASSUME FsInv, NamesInv, [Next]_vars
             PROVE  NamesInv' /\ NamesOnDisksNotMore
  OBVIOUS
<1>1. FsTypeOK /\ DiskHeld
  BY DEF FsInv, TypeOK, FsTypeOK
<1>2. \A dir : Cardinality(NamesOn(dir)) \in Nat
  BY NamesFinite
<1>3. CASE UNCHANGED images /\ ~Mounted'
  BY <1>2, <1>3 DEF NamesInv, NamesOnDisksNotMore
<1>4. CASE UNCHANGED <<root_dir, file_system, diskname>>
           /\ \A d \in Disks : images'[d].root = images[d].root
  BY <1>1, <1>2, <1>4 DEF NamesInv, NamesOnDisksNotMore, Mounted, image, FsTypeOK
<1>5. CASE ProcessEnds
  BY <1>3, <1>5 DEF ProcessEnds, Mounted
<1>6. ASSUME NEW d \in Disks, fs_mount(d)
      PROVE  NamesInv' /\ NamesOnDisksNotMore
  <2>1. CASE MountUnchecked(d)
    BY <1>3, <2>1 DEF MountUnchecked, Mounted
  <2>2. CASE MountLoaded(d)
    <3>1. UNCHANGED images /\ diskname' = d
      BY <2>2 DEF MountLoaded
    <3>2. /\ NamesOn(root_dir') = NamesOn(images[d].root)
          /\ FlagsAgreeIn(root_dir') <=> FlagsAgreeIn(images[d].root)
      BY <2>2, WholeLoaded, SameNames
    <3> QED
      BY <1>2, <3>1, <3>2 DEF NamesInv, NamesOnDisksNotMore, image
  <2> QED
    BY <1>4, <1>6, <2>1, <2>2 DEF fs_mount, MountRefused, whichDisk
<1>7. CASE fs_umount
  BY <1>4, <1>5, <1>7 DEF fs_umount, whichDisk
<1>8. CASE WriteFatBlock
  <2>1. \A d \in Disks : images'[d].root = images[d].root
    BY <1>1, <1>8, RootUntouched DEF image
  <2> QED
    BY <1>4, <1>8, <2>1 DEF WriteFatBlock, whichDisk
<1>9. CASE WriteRootAndRelease
  <2>1. Mounted /\ ~Mounted'
    BY <1>1, <1>9, GeometryTypes DEF WriteRootAndRelease, DiskHeld, Idle, NotWriting, Mounted
  <2>2. /\ NamesOn(image'.root) = NamesOn(root_dir)
        /\ FlagsAgreeIn(image'.root) <=> FlagsAgreeIn(root_dir)
    BY <1>1, <1>9, WholeSaved, SameNames
  <2>3. /\ diskname' = diskname /\ diskname \in Disks
        /\ \A d \in Disks : d # diskname => images'[d] = images[d]
    BY <1>1, <1>9, SavedRoot DEF FsTypeOK
  <2> QED
    BY <1>2, <2>1, <2>2, <2>3 DEF NamesInv, NamesOnDisksNotMore, image
<1>10. ASSUME NEW n \in MaybeName, fs_create(n)
       PROVE  NamesInv' /\ NamesOnDisksNotMore
  <2>1. CASE /\ Mounted /\ Matches(root_dir, n) = {} /\ root_dir' = FillFree(root_dir, n)
             /\ UNCHANGED <<file_system, images, diskname>>
    <3>1. /\ FlagsAgreeIn(root_dir')
          /\ Cardinality(NamesOn(root_dir')) <= Cardinality(NamesOn(root_dir))
      BY <2>1, NamesAtCreate DEF NamesInv
    <3> QED
      BY <1>2, <2>1, <3>1 DEF NamesInv, NamesOnDisksNotMore, image
  <2> QED
    BY <1>4, <1>10, <2>1 DEF fs_create, Reports, whichDisk
<1>11. ASSUME NEW n \in MaybeName, fs_delete(n)
       PROVE  NamesInv' /\ NamesOnDisksNotMore
  <2>1. CASE /\ Mounted /\ root_dir' = ClearMatches(root_dir, n)
             /\ UNCHANGED <<file_system, images, diskname>>
    <3>1. FlagsAgreeIn(root_dir') /\ NamesOn(root_dir') = NamesOn(root_dir)
      BY <1>1, <2>1, NamesAtDelete DEF NamesInv, FsTypeOK
    <3> QED
      BY <1>2, <2>1, <3>1 DEF NamesInv, NamesOnDisksNotMore, image
  <2> QED
    BY <1>4, <1>5, <1>11, <2>1 DEF fs_delete, Reports, whichDisk
<1>12. CASE \/ \E n \in MaybeName : fs_open(n)
            \/ \E fd \in FdArgs :
                  fs_close(fd) \/ fs_stat(fd) \/ fs_write(fd) \/ fs_read(fd)
            \/ \E fd \in FdArgs, offset \in Offsets : fs_lseek(fd, offset)
            \/ fs_info \/ fs_ls
            \/ UNCHANGED vars
  BY <1>4, <1>5, <1>12
  DEF fs_open, fs_close, fs_stat, fs_write, fs_read, fs_lseek, fs_info, fs_ls,
      Reports, vars, fsVars, whichDisk
<1> QED
  BY <1>5, <1>6, <1>7, <1>8, <1>9, <1>10, <1>11, <1>12 DEF Next

\* fs_create, fs_delete and fs_umount: without faults a disk on which no free
\* entry has the name of one in use never gets more names than it had, the empty
\* name of its unused entries being one.
THEOREM NamesNeverMultiplyHolds ==
  ASSUME Faults = {}, FlagsOnImages
  PROVE  Spec => NamesNeverMultiply
<1>1. FsInv /\ NamesInv /\ [Next]_vars => NamesInv' /\ [NamesOnDisksNotMore]_vars
  BY NamesStep
<1> QED
  BY <1>1, NamesInvInit, FsInvariance, PTL
  DEF Spec, NamesNeverMultiply, NamesOnDisksNotMore
=============================================================================
