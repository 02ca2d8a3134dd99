-------------------------- MODULE SharedDiskProofs --------------------------
(***************************************************************************)
(* What sessions of any number of processes can do to an image they share, *)
(* for every geometry and every image.                                     *)
(***************************************************************************)
EXTENDS SharedDisk, FsMetadataProofs

SharedTypeOK ==
    /\ image \in [fat : FatImage, root : RootImage]
    /\ session \in [Procs -> Session]
    /\ edited \in BOOLEAN /\ damaged \in BOOLEAN

LEMMA CallersNames == CreateNames \subseteq Names /\ DeleteNames \subseteq Names
  BY SharedDiskAssumption

LEMMA NoSessionType == NoSession \in Session
  BY ZeroFatType, ZeroDirType, GeometryTypes DEF NoSession, Session

LEMMA OverlaidType ==
  ASSUME NEW fat \in Fat, NEW i \in 0 .. FatBlocks - 1,
         NEW block \in [0 .. PerBlock - 1 -> BlockRef]
  PROVE  Overlaid(fat, i, block) \in Fat
<1> SUFFICES ASSUME NEW k \in FatIndex, k \in i .. i + PerBlock - 1
             PROVE  block[k - i] \in BlockRef
  BY DEF Overlaid, Fat
<1>1. k - i \in 0 .. PerBlock - 1
  BY GeometryTypes DEF FatIndex
<1> QED
  BY <1>1

LEMMA SharedTypesInit == SharedInit => SharedTypeOK
  BY NoSessionType, SharedDiskAssumption DEF SharedInit, SharedTypeOK

LEMMA SharedTypesStep == SharedTypeOK /\ [SharedNext]_sharedVars => SharedTypeOK'
<1> SUFFICES ASSUME SharedTypeOK, [SharedNext]_sharedVars
             PROVE  SharedTypeOK'
  OBVIOUS
<1> USE DEF SharedTypeOK
<1>1. CASE UNCHANGED sharedVars
  BY <1>1 DEF sharedVars
<1> USE DEF Becomes
<1>2. ASSUME NEW p \in Procs, BeginMount(p)
      PROVE  SharedTypeOK'
  <2>1. [NoSession EXCEPT !.at = "mounting"] \in Session
    BY NoSessionType DEF Session
  <2> QED
    BY <1>2, <2>1 DEF BeginMount
<1>3. ASSUME NEW p \in Procs, ReadFatBlock(p)
      PROVE  SharedTypeOK'
  <2> DEFINE i == session[p].block
             s == [session[p] EXCEPT !.fat = Overlaid(@, i, image.fat[i]), !.block = i + 1]
  <2>1. i \in 0 .. FatBlocks - 1 /\ i + 1 \in 0 .. FatBlocks
    BY <1>3, GeometryTypes DEF ReadFatBlock, Session
  <2>2. image.fat[i] \in [0 .. PerBlock - 1 -> BlockRef]
    BY <2>1 DEF FatImage
  <2>3. Overlaid(session[p].fat, i, image.fat[i]) \in Fat
    BY <2>1, <2>2, OverlaidType DEF Session
  <2>4. s \in Session
    BY <2>1, <2>3 DEF Session
  <2> QED
    BY <1>3, <2>4 DEF ReadFatBlock
<1>4. ASSUME NEW p \in Procs, ReadRoot(p)
      PROVE  SharedTypeOK'
  <2>1. PICK heap \in [EntryIndex -> Garbage] :
           Becomes(p, [session[p] EXCEPT !.root = LoadRoot(image.root, heap),
                                         !.at = "mounted"])
    BY <1>4 DEF ReadRoot
  <2>2. heap \in [EntryIndex -> Entry]
    BY SharedDiskAssumption
  <2>3. LoadRoot(image.root, heap) \in Dir
    BY <2>2, LoadRootType
  <2>4. [session[p] EXCEPT !.root = LoadRoot(image.root, heap), !.at = "mounted"]
           \in Session
    BY <2>3 DEF Session
  <2> QED
    BY <1>4, <2>1, <2>4 DEF ReadRoot
<1>5. ASSUME NEW p \in Procs, NEW n \in Names, fs_create(p, n)
      PROVE  SharedTypeOK'
  <2>1. FillFree(session[p].root, n) \in Dir
    BY FillFreeType DEF Session, MaybeName
  <2>2. [session[p] EXCEPT !.root = FillFree(@, n)] \in Session
    BY <2>1 DEF Session
  <2> QED
    BY <1>5, <2>2 DEF fs_create
<1>6. ASSUME NEW p \in Procs, NEW n \in Names, fs_delete(p, n)
      PROVE  SharedTypeOK'
  <2>1. PICK victim : Becomes(p, [session[p] EXCEPT
                !.fat = FreeChain(@, victim.file_first_index, WholeBlocks(victim)),
                !.root = ClearMatches(@, n)])
    BY <1>6 DEF fs_delete
  <2>2. FreeChain(session[p].fat, victim.file_first_index, WholeBlocks(victim)) \in Fat
    BY FreeChainType DEF Session
  <2>3. ClearMatches(session[p].root, n) \in Dir
    BY ClearMatchesType DEF Session
  <2>4. [session[p] EXCEPT
            !.fat = FreeChain(@, victim.file_first_index, WholeBlocks(victim)),
            !.root = ClearMatches(@, n)] \in Session
    BY <2>2, <2>3 DEF Session
  <2>5. damaged' \in BOOLEAN /\ edited' \in BOOLEAN /\ image' = image
    BY <1>6 DEF fs_delete
  <2> QED
    BY <2>1, <2>4, <2>5
<1>7. ASSUME NEW p \in Procs, BeginSave(p)
      PROVE  SharedTypeOK'
  <2>1. [session[p] EXCEPT !.at = "saving", !.block = 0, !.alone = TRUE] \in Session
    <3>1. session[p] \in Session /\ 0 \in 0 .. FatBlocks /\ TRUE \in BOOLEAN
      BY GeometryTypes
    <3> HIDE DEF SharedTypeOK
    <3> QED
      BY <3>1 DEF Session
  <2>2. damaged' \in BOOLEAN
    BY <1>7 DEF BeginSave
  <2> QED
    BY <1>7, <2>1, <2>2 DEF BeginSave
<1>8. ASSUME NEW p \in Procs, WriteFatBlock(p)
      PROVE  SharedTypeOK'
  <2> DEFINE i == session[p].block
  <2>1. i \in 0 .. FatBlocks - 1 /\ i + 1 \in 0 .. FatBlocks
    BY <1>8, GeometryTypes DEF WriteFatBlock, Session
  <2>2. FatBlock(session[p].fat, i) \in [0 .. PerBlock - 1 -> BlockRef]
    BY <2>1, FatBlockType DEF Session
  <2>3. image' \in [fat : FatImage, root : RootImage]
    BY <1>8, <2>2 DEF WriteFatBlock, FatImage
  <2>4. \A q \in Procs : session'[q] \in Session
    BY <1>8, <2>1 DEF WriteFatBlock, Disturbed, Session
  <2>5. session' \in [Procs -> Session]
    BY <1>8, <2>4 DEF WriteFatBlock
  <2> QED
    BY <1>8, <2>3, <2>5 DEF WriteFatBlock
<1>9. ASSUME NEW p \in Procs, WriteRoot(p)
      PROVE  SharedTypeOK'
  <2>1. RootBlock(session[p].root) \in RootImage
    BY RootBlockType DEF Session
  <2>2. \A q \in Procs : session'[q] \in Session
    BY <1>9, NoSessionType DEF WriteRoot, Disturbed, Session
  <2>3. session' \in [Procs -> Session]
    BY <1>9, <2>2 DEF WriteRoot
  <2> QED
    BY <1>9, <2>1, <2>3 DEF WriteRoot
<1>10. ASSUME NEW p \in Procs, Kill(p)
       PROVE  SharedTypeOK'
  BY <1>10, NoSessionType DEF Kill
<1> QED
  BY <1>1, <1>2, <1>3, <1>4, <1>5, <1>6, <1>7, <1>8, <1>9, <1>10, CallersNames DEF SharedNext

----------------------------------------------------------------------------
(* Overlapping blocks.                                                     *)

\* Block i brings the entries that no later block covers.
LEMMA LastToArrive ==
  ASSUME NEW blocks, NEW k \in FatIndex, NEW i \in Covering(k, {}),
         \A c \in Covering(k, {}) : c < i + 1
  PROVE  LoadFat(blocks, {})[k] = blocks[i][k - i]
<1> DEFINE cover == Covering(k, {})
<1>1. cover \in SUBSET (0 .. FatBlocks - 1) /\ FatBlocks - 1 \in Nat
  BY GeometryTypes DEF Covering
<1>2. Max(cover) \in cover /\ Max(cover) >= i
  BY <1>1, MaxIsMember
<1>3. Max(cover) = i
  BY <1>1, <1>2
<1> QED
  BY <1>3 DEF LoadFat

\* One block of an array written over the image changes what is loaded to the
\* entries of the array, or not at all.
LEMMA OneBlockWritten ==
  ASSUME NEW fat \in Fat, NEW blocks \in FatImage, NEW i \in 0 .. FatBlocks - 1,
         NEW k \in FatIndex
  PROVE  LoadFat([blocks EXCEPT ![i] = FatBlock(fat, i)], {})[k]
            \in {LoadFat(blocks, {})[k], fat[k]}
<1> DEFINE after == [blocks EXCEPT ![i] = FatBlock(fat, i)]
           m == Max(Covering(k, {}))
<1>1. CASE Covering(k, {}) = {}
  BY <1>1 DEF LoadFat
<1>2. CASE Covering(k, {}) # {}
  <2>1. m \in 0 .. FatBlocks - 1
    BY <1>2, LastCover
  <2>2. CASE m = i
    <3>1. after[m] = FatBlock(fat, m)
      BY <2>1, <2>2 DEF FatImage
    <3>2. LoadFat(after, {})[k] = fat[k]
      BY <1>2, <3>1, StoredEntry
    <3> QED
      BY <3>2
  <2>3. CASE m # i
    <3>1. after[m] = blocks[m]
      BY <2>1, <2>3 DEF FatImage
    <3>2. LoadFat(after, {})[k] = LoadFat(blocks, {})[k]
      BY <1>2, <3>1 DEF LoadFat
    <3> QED
      BY <3>2
  <2> QED
    BY <2>2, <2>3
<1> QED
  BY <1>1, <1>2

----------------------------------------------------------------------------
(* What is known of the entries, on the disk and in every session.         *)

Known(k) == IF edited THEN {FatThen[k], 0} ELSE {FatThen[k]}

\* The entry has its final value once the last block that covers it is read.
Loaded(p, k) ==
    \/ session[p].at \in {"mounted", "saving"}
    \/ At(p, "mounting") /\ \A i \in Covering(k, {}) : i < session[p].block

FatInv ==
    /\ \A k \in FatIndex : FatNow[k] \in Known(k)
    /\ \A p \in Procs, k \in FatIndex :
          Loaded(p, k) => session[p].fat[k] \in Known(k)

KnownEntry(i, entry, changed) ==
    /\ Extent(entry) \in {Extent(Outset.root[i]), NoExtent}
    /\ i < Whole /\ ~changed => entry = Outset.root[i]

RootInv ==
    /\ \A i \in OnRootBlock : KnownEntry(i, image.root[i], edited)
    /\ \A p \in Procs : session[p].at \in {"mounted", "saving"} =>
          \A i \in OnRootBlock : KnownEntry(i, session[p].root[i], edited)

LEMMA FatInvInit == SharedInit => FatInv
  BY DEF SharedInit, FatInv, FatNow, FatThen, Known, Loaded, At, NoSession

LEMMA RootInvInit == SharedInit => RootInv
  BY DEF SharedInit, RootInv, KnownEntry, NoSession

LEMMA EditedStays == [SharedNext]_sharedVars => (edited => edited')
  BY DEF SharedNext, sharedVars, BeginMount, ReadFatBlock, ReadRoot, fs_create,
         fs_delete, BeginSave, WriteFatBlock, WriteRoot, Kill

\* A session other than the one that takes the step keeps all but `alone`.
LEMMA OthersStay ==
  ASSUME SharedTypeOK, NEW p \in Procs, NEW q \in Procs, q # p,
         \/ \E s : Becomes(p, s)
         \/ WriteFatBlock(p)
         \/ WriteRoot(p)
  PROVE  /\ session'[q].at = session[q].at /\ session'[q].block = session[q].block
         /\ session'[q].fat = session[q].fat /\ session'[q].root = session[q].root
<1>1. CASE \E s : Becomes(p, s)
  BY <1>1 DEF Becomes, SharedTypeOK
<1>2. CASE session'[q] = Disturbed(q)
  BY <1>2 DEF Disturbed, SharedTypeOK, Session
<1> QED
  BY <1>1, <1>2 DEF WriteFatBlock, WriteRoot

LEMMA StepIsOfOne ==
  ASSUME SharedTypeOK, NEW p \in Procs,
         \/ BeginMount(p) \/ ReadFatBlock(p) \/ ReadRoot(p)
         \/ \E n \in Names : fs_create(p, n) \/ fs_delete(p, n)
         \/ BeginSave(p) \/ Kill(p)
  PROVE  \E s : Becomes(p, s)
  BY DEF BeginMount, ReadFatBlock, ReadRoot, fs_create, fs_delete, BeginSave, Kill

LEMMA KnownGrows ==
  ASSUME [SharedNext]_sharedVars, NEW k
  PROVE  Known(k) \subseteq Known(k)'
  BY EditedStays DEF Known, FatThen

LEMMA FatInvStep == SharedTypeOK /\ FatInv /\ [SharedNext]_sharedVars => FatInv'
<1> SUFFICES ASSUME SharedTypeOK, FatInv, [SharedNext]_sharedVars
             PROVE  FatInv'
  OBVIOUS
<1>1. CASE UNCHANGED sharedVars
  BY <1>1 DEF sharedVars, FatInv, FatNow, Known, Loaded, At
<1>2. ASSUME NEW p \in Procs, NEW k \in FatIndex,
             image'.fat = image.fat \/ WriteFatBlock(p)
      PROVE  FatNow'[k] \in Known(k)'
  <2>1. CASE image'.fat = image.fat
    BY <2>1, KnownGrows DEF FatInv, FatNow
  <2>2. CASE WriteFatBlock(p)
    <3> DEFINE i == session[p].block
    <3>1. i \in 0 .. FatBlocks - 1 /\ session[p].fat \in Fat /\ image.fat \in FatImage
      BY <2>2, GeometryTypes DEF WriteFatBlock, SharedTypeOK, Session
    <3>2. image'.fat = [image.fat EXCEPT ![i] = FatBlock(session[p].fat, i)]
      BY <2>2 DEF WriteFatBlock, SharedTypeOK
    <3>3. LoadFat(image'.fat, {})[k] \in {FatNow[k], session[p].fat[k]}
      BY <3>1, <3>2, OneBlockWritten DEF FatNow
    <3>4. session[p].fat[k] \in Known(k)
      BY <2>2 DEF WriteFatBlock, At, Loaded, FatInv
    <3> QED
      BY <3>3, <3>4, KnownGrows DEF FatInv, FatNow
  <2> QED
    BY <1>2, <2>1, <2>2
<1>3. ASSUME NEW p \in Procs, NEW q \in Procs, q # p, NEW k \in FatIndex,
             (\E s : Becomes(p, s)) \/ WriteFatBlock(p) \/ WriteRoot(p),
             Loaded(q, k)'
      PROVE  session'[q].fat[k] \in Known(k)'
  <2>1. Loaded(q, k)
    BY <1>3, OthersStay DEF Loaded, At
  <2> QED
    BY <1>3, <2>1, OthersStay, KnownGrows DEF FatInv
<1>4. ASSUME NEW p \in Procs, BeginMount(p), NEW k \in FatIndex, Loaded(p, k)'
      PROVE  session'[p].fat[k] \in Known(k)'
  <2>1. session'[p] = [NoSession EXCEPT !.at = "mounting"]
    BY <1>4 DEF BeginMount, Becomes, SharedTypeOK
  <2>2. Covering(k, {}) = {}
    BY <1>4, <2>1 DEF Loaded, At, NoSession, Covering
  <2>3. FatThen[k] = 0 /\ session'[p].fat[k] = 0
    BY <2>1, <2>2 DEF FatThen, LoadFat, NoSession, ZeroFat
  <2> QED
    BY <2>3 DEF Known
<1>5. ASSUME NEW p \in Procs, ReadFatBlock(p), NEW k \in FatIndex, Loaded(p, k)'
      PROVE  session'[p].fat[k] \in Known(k)'
  <2> DEFINE i == session[p].block
  <2>1. i \in 0 .. FatBlocks - 1
    BY <1>5, GeometryTypes DEF ReadFatBlock, SharedTypeOK, Session
  <2>2. /\ session'[p].fat = Overlaid(session[p].fat, i, image.fat[i])
        /\ session'[p].block = i + 1 /\ session'[p].at = "mounting"
    BY <1>5 DEF ReadFatBlock, Becomes, SharedTypeOK, Session, At
  <2>3. \A c \in Covering(k, {}) : c < i + 1
    BY <1>5, <2>2 DEF Loaded, At
  <2>4. CASE i \in Covering(k, {})
    <3>1. session'[p].fat[k] = image.fat[i][k - i]
      BY <2>1, <2>2, <2>4, GeometryTypes DEF Overlaid, Covering, FatIndex
    <3>2. session'[p].fat[k] = FatNow[k]
      BY <2>3, <2>4, <3>1, LastToArrive DEF FatNow
    <3> QED
      BY <3>2, KnownGrows DEF FatInv
  <2>5. CASE i \notin Covering(k, {})
    <3>1. session'[p].fat[k] = session[p].fat[k]
      BY <2>1, <2>2, <2>5, GeometryTypes DEF Overlaid, Covering, FatIndex
    <3>2. \A c \in Covering(k, {}) : c < i
      BY <2>1, <2>3, <2>5 DEF Covering
    <3>3. Loaded(p, k)
      BY <1>5, <3>2 DEF Loaded, ReadFatBlock
    <3> QED
      BY <3>1, <3>3, KnownGrows DEF FatInv
  <2> QED
    BY <2>4, <2>5
<1>6. ASSUME NEW p \in Procs, ReadRoot(p), NEW k \in FatIndex
      PROVE  session'[p].fat[k] \in Known(k)'
  <2>1. session'[p].fat = session[p].fat
    BY <1>6 DEF ReadRoot, Becomes, SharedTypeOK, Session
  <2>2. Loaded(p, k)
    <3>1. \A c \in Covering(k, {}) : c < FatBlocks
      BY GeometryTypes DEF Covering
    <3> QED
      BY <1>6, <3>1 DEF Loaded, ReadRoot
  <2> QED
    BY <2>1, <2>2, KnownGrows DEF FatInv
<1>7. ASSUME NEW p \in Procs, NEW n \in Names, fs_create(p, n) \/ fs_delete(p, n),
             NEW k \in FatIndex
      PROVE  session'[p].fat[k] \in Known(k)'
  <2>1. edited' /\ Loaded(p, k)
    BY <1>7 DEF fs_create, fs_delete, Loaded, At
  <2>2. session'[p].fat[k] \in {session[p].fat[k], 0}
    <3>1. CASE fs_create(p, n)
      BY <3>1 DEF fs_create, Becomes, SharedTypeOK, Session
    <3>2. CASE fs_delete(p, n)
      <4>1. PICK victim : Becomes(p, [session[p] EXCEPT
                  !.fat = FreeChain(@, victim.file_first_index, WholeBlocks(victim)),
                  !.root = ClearMatches(@, n)])
        BY <3>2 DEF fs_delete
      <4>2. session'[p].fat =
               FreeChain(session[p].fat, victim.file_first_index, WholeBlocks(victim))
        BY <4>1 DEF Becomes, SharedTypeOK, Session
      <4> QED
        BY <4>2 DEF FreeChain
    <3> QED
      BY <1>7, <3>1, <3>2
  <2>3. Known(k)' = {FatThen[k], 0}
    BY <2>1 DEF Known, FatThen
  <2>4. session[p].fat[k] \in {FatThen[k], 0}
    BY <2>1 DEF FatInv, Known
  <2> QED
    BY <2>2, <2>3, <2>4
<1>8. ASSUME NEW p \in Procs, BeginSave(p), NEW k \in FatIndex
      PROVE  session'[p].fat[k] \in Known(k)'
  <2>1. session'[p].fat = session[p].fat /\ Loaded(p, k)
    BY <1>8 DEF BeginSave, Becomes, SharedTypeOK, Session, Loaded, At
  <2> QED
    BY <2>1, KnownGrows DEF FatInv
<1>9. ASSUME NEW p \in Procs, WriteFatBlock(p), NEW k \in FatIndex
      PROVE  session'[p].fat[k] \in Known(k)'
  <2>1. session'[p].fat = session[p].fat /\ Loaded(p, k)
    BY <1>9 DEF WriteFatBlock, SharedTypeOK, Session, Loaded, At
  <2> QED
    BY <2>1, KnownGrows DEF FatInv
<1>10. ASSUME NEW p \in Procs, WriteRoot(p) \/ Kill(p), NEW k \in FatIndex
       PROVE  ~ Loaded(p, k)'
  <2>1. session'[p] = NoSession
    BY <1>10 DEF WriteRoot, Kill, Becomes, SharedTypeOK
  <2> QED
    BY <2>1 DEF Loaded, At, NoSession
<1>11. ASSUME NEW p \in Procs,
             \/ BeginMount(p) \/ ReadFatBlock(p) \/ ReadRoot(p)
             \/ \E n \in Names : fs_create(p, n) \/ fs_delete(p, n)
             \/ BeginSave(p) \/ WriteFatBlock(p) \/ WriteRoot(p) \/ Kill(p)
       PROVE  FatInv'
  <2>1. image'.fat = image.fat \/ WriteFatBlock(p)
    BY <1>11 DEF BeginMount, ReadFatBlock, ReadRoot, fs_create, fs_delete, BeginSave,
                 WriteRoot, Kill, SharedTypeOK
  <2>2. (\E s : Becomes(p, s)) \/ WriteFatBlock(p) \/ WriteRoot(p)
    BY <1>11, StepIsOfOne
  <2>3. ASSUME NEW k \in FatIndex, Loaded(p, k)'
        PROVE  session'[p].fat[k] \in Known(k)'
    BY <1>4, <1>5, <1>6, <1>7, <1>8, <1>9, <1>10, <1>11, <2>3
  <2> QED
    BY <1>2, <1>3, <2>1, <2>2, <2>3 DEF FatInv
<1> QED
  BY <1>1, <1>11, CallersNames DEF SharedNext

----------------------------------------------------------------------------
LEMMA EntryLoaded ==
  ASSUME NEW root \in RootImage, NEW heap \in [EntryIndex -> Garbage],
         NEW i \in OnRootBlock, NEW changed, KnownEntry(i, root[i], changed)
  PROVE  KnownEntry(i, LoadRoot(root, heap)[i], changed)
<1>1. i \in EntryIndex /\ i <= Whole /\ root[i] \in Entry
  BY GeometryTypes DEF OnRootBlock, RootImage
<1>2. CASE i < Whole
  BY <1>1, <1>2 DEF LoadRoot
<1>3. CASE i = Whole
  <2>1. LoadRoot(root, heap)[i] = [root[i] EXCEPT !.isEmpty = heap[i].isEmpty]
    BY <1>1, <1>3, GeometryTypes DEF LoadRoot
  <2>2. Extent(LoadRoot(root, heap)[i]) = Extent(root[i])
    BY <1>1, <2>1 DEF Extent, Entry
  <2>3. ~(i < Whole)
    BY <1>3, GeometryTypes
  <2> QED
    BY <2>2, <2>3 DEF KnownEntry
<1> QED
  BY <1>1, <1>2, <1>3, GeometryTypes DEF OnRootBlock

LEMMA EntryStored ==
  ASSUME NEW dir \in Dir, NEW i \in OnRootBlock, NEW changed,
         KnownEntry(i, dir[i], changed)
  PROVE  KnownEntry(i, RootBlock(dir)[i], changed)
<1>1. i \in EntryIndex /\ i <= Whole /\ dir[i] \in Entry
  BY GeometryTypes DEF OnRootBlock, Dir
<1>2. CASE i < Whole
  BY <1>1, <1>2 DEF RootBlock
<1>3. CASE ~(i < Whole)
  <2>1. RootBlock(dir)[i] = [dir[i] EXCEPT !.isEmpty = FALSE]
    BY <1>1, <1>3 DEF RootBlock
  <2>2. Extent(RootBlock(dir)[i]) = Extent(dir[i])
    BY <1>1, <2>1 DEF Extent, Entry
  <2> QED
    BY <1>3, <2>2 DEF KnownEntry
<1> QED
  BY <1>2, <1>3

LEMMA EntryEdited ==
  ASSUME NEW dir \in Dir, NEW n, NEW i \in OnRootBlock, NEW changed,
         KnownEntry(i, dir[i], changed)
  PROVE  /\ KnownEntry(i, FillFree(dir, n)[i], TRUE)
         /\ KnownEntry(i, ClearMatches(dir, n)[i], TRUE)
<1>1. i \in EntryIndex /\ dir[i] \in Entry
  BY GeometryTypes DEF Dir
<1>2. FillFree(dir, n)[i] \in {dir[i], NewEntry(n)} /\ Extent(NewEntry(n)) = NoExtent
  BY <1>1 DEF FillFree, NewEntry, Extent, NoExtent
<1>3. \/ ClearMatches(dir, n)[i] = dir[i]
      \/ Extent(ClearMatches(dir, n)[i]) = NoExtent
  BY <1>1 DEF ClearMatches, Extent, NoExtent, Entry
<1> QED
  BY <1>2, <1>3 DEF KnownEntry

LEMMA RootInvStep == SharedTypeOK /\ RootInv /\ [SharedNext]_sharedVars => RootInv'
<1> SUFFICES ASSUME SharedTypeOK, RootInv, [SharedNext]_sharedVars
             PROVE  RootInv'
  OBVIOUS
<1> DEFINE Holds(q) == session[q].at \in {"mounted", "saving"}
<1>1. CASE UNCHANGED sharedVars
  BY <1>1 DEF sharedVars, RootInv
<1>2. ASSUME NEW i \in OnRootBlock, NEW entry, KnownEntry(i, entry, edited)
      PROVE  KnownEntry(i, entry, edited')
  BY <1>2, EditedStays DEF KnownEntry
<1>3. ASSUME NEW p \in Procs, NEW i \in OnRootBlock,
             image'.root = image.root \/ WriteRoot(p)
      PROVE  KnownEntry(i, image'.root[i], edited')
  <2>1. CASE image'.root = image.root
    BY <1>2, <2>1 DEF RootInv
  <2>2. CASE WriteRoot(p)
    <3>1. image'.root = RootBlock(session[p].root) /\ session[p].root \in Dir
      BY <2>2 DEF WriteRoot, SharedTypeOK, Session
    <3>2. KnownEntry(i, session[p].root[i], edited)
      BY <2>2 DEF WriteRoot, At, RootInv
    <3> QED
      BY <1>2, <3>1, <3>2, EntryStored
  <2> QED
    BY <1>3, <2>1, <2>2
<1>4. ASSUME NEW p \in Procs, NEW q \in Procs, q # p, NEW i \in OnRootBlock,
             (\E s : Becomes(p, s)) \/ WriteFatBlock(p) \/ WriteRoot(p),
             Holds(q)'
      PROVE  KnownEntry(i, session'[q].root[i], edited')
  <2>1. Holds(q) /\ session'[q].root = session[q].root
    BY <1>4, OthersStay
  <2> QED
    BY <1>2, <2>1 DEF RootInv
<1>5. ASSUME NEW p \in Procs, NEW i \in OnRootBlock, ReadRoot(p)
      PROVE  KnownEntry(i, session'[p].root[i], edited')
  <2>1. PICK heap \in [EntryIndex -> Garbage] :
           Becomes(p, [session[p] EXCEPT !.root = LoadRoot(image.root, heap),
                                         !.at = "mounted"])
    BY <1>5 DEF ReadRoot
  <2>2. session'[p].root = LoadRoot(image.root, heap)
    BY <2>1 DEF Becomes, SharedTypeOK, Session
  <2>3. image.root \in RootImage /\ KnownEntry(i, image.root[i], edited)
    BY DEF SharedTypeOK, RootInv
  <2> QED
    BY <1>2, <2>2, <2>3, EntryLoaded
<1>6. ASSUME NEW p \in Procs, NEW n \in Names, NEW i \in OnRootBlock,
             fs_create(p, n) \/ fs_delete(p, n)
      PROVE  KnownEntry(i, session'[p].root[i], edited')
  <2>1. /\ session[p].root \in Dir /\ edited' = TRUE
        /\ KnownEntry(i, session[p].root[i], edited)
    BY <1>6 DEF fs_create, fs_delete, At, SharedTypeOK, Session, RootInv
  <2>2. session'[p].root \in {FillFree(session[p].root, n), ClearMatches(session[p].root, n)}
    <3>1. CASE fs_create(p, n)
      BY <3>1 DEF fs_create, Becomes, SharedTypeOK, Session
    <3>2. CASE fs_delete(p, n)
      <4>1. PICK victim : Becomes(p, [session[p] EXCEPT
                  !.fat = FreeChain(@, victim.file_first_index, WholeBlocks(victim)),
                  !.root = ClearMatches(@, n)])
        BY <3>2 DEF fs_delete
      <4> QED
        BY <4>1 DEF Becomes, SharedTypeOK, Session
    <3> QED
      BY <1>6, <3>1, <3>2
  <2> QED
    BY <2>1, <2>2, EntryEdited
<1>7. ASSUME NEW p \in Procs, NEW i \in OnRootBlock, BeginSave(p) \/ WriteFatBlock(p)
      PROVE  KnownEntry(i, session'[p].root[i], edited')
  <2>1. Holds(p) /\ session'[p].root = session[p].root
    <3>1. CASE BeginSave(p)
      BY <3>1 DEF BeginSave, Becomes, At, SharedTypeOK, Session
    <3>2. CASE WriteFatBlock(p)
      BY <3>2 DEF WriteFatBlock, At, SharedTypeOK, Session
    <3> QED
      BY <1>7, <3>1, <3>2
  <2> QED
    BY <1>2, <2>1 DEF RootInv
<1>8. ASSUME NEW p \in Procs, BeginMount(p) \/ ReadFatBlock(p) \/ WriteRoot(p) \/ Kill(p)
      PROVE  ~ Holds(p)'
  <2>1. session'[p].at \in {"mounting", "idle"}
    <3>1. CASE ReadFatBlock(p)
      BY <3>1 DEF ReadFatBlock, Becomes, At, SharedTypeOK, Session
    <3>2. CASE BeginMount(p)
      BY <3>2 DEF BeginMount, Becomes, NoSession, SharedTypeOK
    <3>3. CASE WriteRoot(p) \/ Kill(p)
      BY <3>3 DEF WriteRoot, Kill, Becomes, NoSession, SharedTypeOK
    <3> QED
      BY <1>8, <3>1, <3>2, <3>3
  <2> QED
    BY <2>1
<1>9. ASSUME NEW p \in Procs,
             \/ BeginMount(p) \/ ReadFatBlock(p) \/ ReadRoot(p)
             \/ \E n \in Names : fs_create(p, n) \/ fs_delete(p, n)
             \/ BeginSave(p) \/ WriteFatBlock(p) \/ WriteRoot(p) \/ Kill(p)
      PROVE  RootInv'
  <2>1. image'.root = image.root \/ WriteRoot(p)
    BY <1>9 DEF BeginMount, ReadFatBlock, ReadRoot, fs_create, fs_delete, BeginSave,
                WriteFatBlock, Kill, SharedTypeOK
  <2>2. (\E s : Becomes(p, s)) \/ WriteFatBlock(p) \/ WriteRoot(p)
    BY <1>9, StepIsOfOne
  <2>3. ASSUME NEW i \in OnRootBlock, Holds(p)'
        PROVE  KnownEntry(i, session'[p].root[i], edited')
    BY <1>5, <1>6, <1>7, <1>8, <1>9, <2>3
  <2>4. \A q \in Procs : Holds(q)' =>
           \A i \in OnRootBlock : KnownEntry(i, session'[q].root[i], edited')
    BY <1>4, <2>2, <2>3
  <2>5. \A i \in OnRootBlock : KnownEntry(i, image'.root[i], edited')
    BY <1>3, <2>1
  <2> QED
    BY <2>4, <2>5 DEF RootInv
<1> QED
  BY <1>1, <1>9, CallersNames DEF SharedNext

----------------------------------------------------------------------------
\* No process, however many there are and whatever they edit, leaves a FAT entry
\* that is neither free nor what it was, nor gives a file another's blocks.
THEOREM MixturesOnlyFreeHolds == SharedSpec => []MixturesOnlyFree
<1>1. FatInv /\ RootInv => MixturesOnlyFree
  BY DEF FatInv, RootInv, Known, KnownEntry, MixturesOnlyFree
<1> QED
  BY <1>1, SharedTypesInit, SharedTypesStep, FatInvInit, FatInvStep, RootInvInit,
     RootInvStep, PTL DEF SharedSpec

\* Processes that only look leave the FAT and the whole entries as they were.
THEOREM OverlappingLookersKeepDiskHolds == SharedSpec => []OverlappingLookersKeepDisk
<1>1. SharedTypeOK /\ FatInv /\ RootInv => OverlappingLookersKeepDisk
  <2> SUFFICES ASSUME SharedTypeOK, FatInv, RootInv, ~edited
               PROVE  /\ FatNow = FatThen
                      /\ WholePart(image.root) = WholePart(Outset.root)
    BY DEF OverlappingLookersKeepDisk
  <2>1. \A k \in FatIndex : FatNow[k] = FatThen[k]
    BY DEF FatInv, Known
  <2>2. FatNow \in Fat /\ FatThen \in Fat
    BY LoadFatType, SharedDiskAssumption DEF SharedTypeOK, FatNow, FatThen
  <2>3. \A i \in WholeEntries : image.root[i] = Outset.root[i]
    BY GeometryTypes DEF RootInv, KnownEntry, WholeEntries, OnRootBlock
  <2> QED
    BY <2>1, <2>2, <2>3 DEF Fat, WholePart
<1> QED
  BY <1>1, SharedTypesInit, SharedTypesStep, FatInvInit, FatInvStep, RootInvInit,
     RootInvStep, PTL DEF SharedSpec

----------------------------------------------------------------------------
(* An unmount that no one disturbs.                                        *)

\* Entries that no block covers are zero in memory, and as long as an unmount is
\* alone, the blocks it has written are those of its array.
SaveInv ==
    /\ \A p \in Procs, k \in FatIndex :
          Covering(k, {}) = {} => session[p].fat[k] = 0
    /\ \A p \in Procs : At(p, "saving") /\ session[p].alone =>
          \A i \in 0 .. FatBlocks - 1 :
             i < session[p].block => image.fat[i] = FatBlock(session[p].fat, i)

LEMMA SaveInvInit == SharedInit => SaveInv
  BY DEF SharedInit, SaveInv, At, NoSession, ZeroFat

LEMMA SaveInvStep == SharedTypeOK /\ SaveInv /\ [SharedNext]_sharedVars => SaveInv'
<1> SUFFICES ASSUME SharedTypeOK, SaveInv, [SharedNext]_sharedVars
             PROVE  SaveInv'
  OBVIOUS
<1> DEFINE Uncovered(fat) == \A k \in FatIndex : Covering(k, {}) = {} => fat[k] = 0
           Alone(q) == At(q, "saving") /\ session[q].alone
           Written(q) == \A i \in 0 .. FatBlocks - 1 :
                 i < session[q].block => image.fat[i] = FatBlock(session[q].fat, i)
<1>1. CASE UNCHANGED sharedVars
  BY <1>1 DEF sharedVars, SaveInv, At
<1>2. ASSUME NEW p \in Procs, BeginMount(p) \/ WriteRoot(p) \/ Kill(p)
      PROVE  Uncovered(session'[p].fat) /\ ~Alone(p)'
  <2>1. CASE BeginMount(p)
    BY <2>1 DEF BeginMount, Becomes, NoSession, SharedTypeOK, ZeroFat, At
  <2>2. CASE WriteRoot(p) \/ Kill(p)
    BY <2>2 DEF WriteRoot, Kill, Becomes, NoSession, SharedTypeOK, ZeroFat, At
  <2> QED
    BY <1>2, <2>1, <2>2
<1>3. ASSUME NEW p \in Procs, ReadFatBlock(p)
      PROVE  Uncovered(session'[p].fat) /\ ~Alone(p)'
  <2> DEFINE i == session[p].block
  <2>1. i \in 0 .. FatBlocks - 1
    BY <1>3, GeometryTypes DEF ReadFatBlock, SharedTypeOK, Session
  <2>2. /\ session'[p].fat = Overlaid(session[p].fat, i, image.fat[i])
        /\ session'[p].at = "mounting"
    BY <1>3 DEF ReadFatBlock, Becomes, SharedTypeOK, Session, At
  <2>3. ASSUME NEW k \in FatIndex, Covering(k, {}) = {}
        PROVE  session'[p].fat[k] = 0
    <3>1. session'[p].fat[k] = session[p].fat[k]
      BY <2>1, <2>2, <2>3, GeometryTypes DEF Overlaid, Covering, FatIndex
    <3> QED
      BY <2>3, <3>1 DEF SaveInv
  <2> QED
    BY <2>2, <2>3 DEF At
<1>4. ASSUME NEW p \in Procs, ReadRoot(p)
      PROVE  Uncovered(session'[p].fat) /\ ~Alone(p)'
  <2>1. session'[p].fat = session[p].fat /\ session'[p].at = "mounted"
    BY <1>4 DEF ReadRoot, Becomes, SharedTypeOK, Session
  <2> QED
    BY <2>1 DEF SaveInv, At
<1>5. ASSUME NEW p \in Procs, NEW n \in Names, fs_create(p, n) \/ fs_delete(p, n)
      PROVE  Uncovered(session'[p].fat) /\ ~Alone(p)'
  <2>1. CASE fs_create(p, n)
    <3>1. session'[p].fat = session[p].fat /\ session'[p].at = "mounted"
      BY <2>1 DEF fs_create, Becomes, SharedTypeOK, Session, At
    <3> QED
      BY <3>1 DEF SaveInv, At
  <2>2. CASE fs_delete(p, n)
    <3>1. PICK victim : Becomes(p, [session[p] EXCEPT
                !.fat = FreeChain(@, victim.file_first_index, WholeBlocks(victim)),
                !.root = ClearMatches(@, n)])
      BY <2>2 DEF fs_delete
    <3>2. /\ session'[p].at = "mounted"
          /\ session'[p].fat =
                FreeChain(session[p].fat, victim.file_first_index, WholeBlocks(victim))
      BY <2>2, <3>1 DEF fs_delete, Becomes, SharedTypeOK, Session, At
    <3> QED
      BY <3>2 DEF SaveInv, At, FreeChain
  <2> QED
    BY <1>5, <2>1, <2>2
<1>6. ASSUME NEW p \in Procs, BeginSave(p)
      PROVE  Uncovered(session'[p].fat) /\ Written(p)'
  <2>1. session'[p].fat = session[p].fat /\ session'[p].block = 0
    BY <1>6 DEF BeginSave, Becomes, SharedTypeOK, Session
  <2> QED
    BY <2>1 DEF SaveInv
<1>7. ASSUME NEW p \in Procs, WriteFatBlock(p)
      PROVE  Uncovered(session'[p].fat) /\ (Alone(p)' => Written(p)')
  <2> DEFINE i == session[p].block
  <2>1. i \in 0 .. FatBlocks - 1
    BY <1>7, GeometryTypes DEF WriteFatBlock, SharedTypeOK, Session
  <2>2. /\ session'[p].fat = session[p].fat /\ session'[p].block = i + 1
        /\ session'[p].alone = session[p].alone
    BY <1>7 DEF WriteFatBlock, SharedTypeOK, Session
  <2>3. image'.fat = [image.fat EXCEPT ![i] = FatBlock(session[p].fat, i)]
    BY <1>7 DEF WriteFatBlock, SharedTypeOK
  <2>4. ASSUME Alone(p)', NEW j \in 0 .. FatBlocks - 1, j < i + 1
        PROVE  image'.fat[j] = FatBlock(session[p].fat, j)
    <3>1. CASE j = i
      BY <2>1, <2>3, <3>1 DEF SharedTypeOK, FatImage
    <3>2. CASE j # i
      <4>1. j < i
        BY <2>1, <2>4, <3>2
      <4>2. Alone(p)
        BY <1>7, <2>2, <2>4 DEF WriteFatBlock
      <4>3. image.fat[j] = FatBlock(session[p].fat, j)
        BY <4>1, <4>2 DEF SaveInv
      <4> QED
        BY <2>1, <2>3, <3>2, <4>3 DEF SharedTypeOK, FatImage
    <3> QED
      BY <3>1, <3>2
  <2> QED
    BY <2>2, <2>4 DEF SaveInv
<1>8. ASSUME NEW p \in Procs, NEW q \in Procs, q # p,
             \/ (\E s : Becomes(p, s)) /\ image' = image
             \/ WriteFatBlock(p) \/ WriteRoot(p)
      PROVE  Uncovered(session'[q].fat) /\ (Alone(q)' => Written(q)')
  <2>1. session'[q].fat = session[q].fat
    BY <1>8, OthersStay
  <2>2. CASE (\E s : Becomes(p, s)) /\ image' = image
    <3>1. session'[q] = session[q]
      BY <1>8, <2>2 DEF Becomes, SharedTypeOK
    <3> QED
      BY <2>2, <3>1 DEF SaveInv, At
  <2>3. CASE WriteFatBlock(p) \/ WriteRoot(p)
    <3>1. session'[q] = Disturbed(q)
      BY <1>8, <2>3 DEF WriteFatBlock, WriteRoot
    <3>2. session'[q].alone = FALSE
      BY <3>1 DEF Disturbed, SharedTypeOK, Session
    <3> QED
      BY <2>1, <3>2 DEF SaveInv
  <2> QED
    BY <1>8, <2>2, <2>3
<1>9. ASSUME NEW p \in Procs,
             \/ BeginMount(p) \/ ReadFatBlock(p) \/ ReadRoot(p)
             \/ \E n \in Names : fs_create(p, n) \/ fs_delete(p, n)
             \/ BeginSave(p) \/ WriteFatBlock(p) \/ WriteRoot(p) \/ Kill(p)
      PROVE  SaveInv'
  <2>1. \/ (\E s : Becomes(p, s)) /\ image' = image
        \/ WriteFatBlock(p) \/ WriteRoot(p)
    <3>1. CASE WriteFatBlock(p) \/ WriteRoot(p)
      BY <3>1
    <3>2. CASE ~(WriteFatBlock(p) \/ WriteRoot(p))
      <4>1. image' = image
        BY <1>9, <3>2 DEF BeginMount, ReadFatBlock, ReadRoot, fs_create, fs_delete,
                          BeginSave, Kill
      <4> QED
        BY <1>9, <3>2, <4>1, StepIsOfOne
    <3> QED
      BY <3>1, <3>2
  <2>2. Uncovered(session'[p].fat) /\ (Alone(p)' => Written(p)')
    BY <1>2, <1>3, <1>4, <1>5, <1>6, <1>7, <1>9
  <2>3. \A q \in Procs : Uncovered(session'[q].fat) /\ (Alone(q)' => Written(q)')
    BY <1>8, <2>1, <2>2
  <2> QED
    BY <2>3 DEF SaveInv
<1> QED
  BY <1>1, <1>9, CallersNames DEF SharedNext

\* Whatever mixture the disk was left in, an unmount that meets no write of
\* another process leaves its own FAT and whole entries.
THEOREM UndisturbedSaveIsWholeHolds == SharedSpec => UndisturbedSaveIsWhole
<1> DEFINE AllSaved(p) ==
        /\ LoadFat(image'.fat, {}) = session[p].fat
        /\ WholePart(image'.root) = WholePart(session[p].root)
<1>1. ASSUME SharedTypeOK, SaveInv, NEW p \in Procs, WriteRoot(p), session[p].alone
      PROVE  AllSaved(p)
  <2>1. At(p, "saving")
    BY <1>1 DEF WriteRoot
  <2>2. /\ image'.fat = image.fat /\ image'.root = RootBlock(session[p].root)
        /\ session[p].block = FatBlocks
    BY <1>1 DEF WriteRoot, SharedTypeOK
  <2>3. LoadFat(image.fat, {}) = session[p].fat
    <3>1. \A i \in 0 .. FatBlocks - 1 : image.fat[i] = FatBlock(session[p].fat, i)
      <4> TAKE i \in 0 .. FatBlocks - 1
      <4>1. i < session[p].block
        BY <2>2, GeometryTypes
      <4> QED
        BY <1>1, <2>1, <4>1 DEF SaveInv
    <3>2. session[p].fat \in Fat /\ image.fat \in FatImage
      BY <1>1 DEF SharedTypeOK, Session
    <3>3. \A k \in FatIndex : Covering(k, {}) = {} => session[p].fat[k] = 0
      BY <1>1 DEF SaveInv
    <3> QED
      BY <3>1, <3>2, <3>3, WriteThenLoad
  <2>4. WholePart(image'.root) = WholePart(session[p].root)
    BY <2>2, GeometryTypes DEF WholePart, WholeEntries, RootBlock, OnRootBlock
  <2> QED
    BY <2>2, <2>3, <2>4
<1>2. SharedTypeOK /\ SaveInv /\ [SharedNext]_sharedVars =>
         [\A p \in Procs : WriteRoot(p) /\ session[p].alone => AllSaved(p)]_sharedVars
  BY <1>1
<1> QED
  BY <1>2, SharedTypesInit, SharedTypesStep, SaveInvInit, SaveInvStep, PTL
  DEF SharedSpec, UndisturbedSaveIsWhole

----------------------------------------------------------------------------
(* Sessions whose transfers do not overlap.                                *)

\* What the image must have for chains to be intact at all.
ChainsAtOutset == ChainsIntact(Outset.root, FatThen)

\* Nobody writes while another process writes or mounts.
Separate ==
    \A p \in Procs : At(p, "saving") =>
        \A q \in Procs \ {p} : session[q].at \notin {"saving", "mounting"}

\* A writer has been alone since it began, a copy that is complete has intact
\* chains, and what a mount has loaded so far is what the disk still has.
SessionIntact(p) ==
    /\ At(p, "saving") => session[p].alone
    /\ session[p].at \in {"mounted", "saving"} =>
          ChainsIntact(session[p].root, session[p].fat)
    /\ At(p, "mounting") =>
          \A k \in FatIndex : (\A i \in Covering(k, {}) : i < session[p].block)
                                 => session[p].fat[k] = FatNow[k]

NothingWritten == \A p \in Procs : At(p, "saving") => session[p].block = 0

TransferInv ==
    ~damaged =>
        /\ Separate
        /\ \A p \in Procs : SessionIntact(p)
        /\ NothingWritten => ChainsIntact(image.root, FatNow)

LEMMA TransferInvInit ==
  ASSUME ChainsAtOutset
  PROVE  SharedInit => TransferInv
<1> SUFFICES ASSUME SharedInit
             PROVE  TransferInv
  OBVIOUS
<1>1. \A p \in Procs : session[p].at = "idle"
  BY DEF SharedInit, NoSession
<1>2. ChainsIntact(image.root, FatNow)
  BY DEF SharedInit, ChainsAtOutset, FatNow, FatThen
<1> QED
  BY <1>1, <1>2 DEF TransferInv, Separate, SessionIntact, At

LEMMA SharedDamageStays == [SharedNext]_sharedVars => (damaged => damaged')
  BY DEF SharedNext, sharedVars, BeginMount, ReadFatBlock, ReadRoot, fs_create,
         fs_delete, BeginSave, WriteFatBlock, WriteRoot, Kill

\* The steps that leave the image alone, for the process that takes them.

LEMMA IntactAtOpen ==
  ASSUME SharedTypeOK, NEW p \in Procs, BeginMount(p)
  PROVE  SessionIntact(p)'
<1>1. session'[p] = [NoSession EXCEPT !.at = "mounting"] /\ image' = image
  BY DEF BeginMount, Becomes, SharedTypeOK
<1>2. session'[p].at = "mounting" /\ session'[p].block = 0 /\ session'[p].fat = ZeroFat
  BY <1>1 DEF NoSession
<1>3. ASSUME NEW k \in FatIndex, \A i \in Covering(k, {}) : i < 0
      PROVE  ZeroFat[k] = LoadFat(image.fat, {})[k]
  <2>1. Covering(k, {}) = {}
    BY <1>3 DEF Covering
  <2> QED
    BY <2>1 DEF ZeroFat, LoadFat
<1> QED
  BY <1>1, <1>2, <1>3 DEF SessionIntact, At, FatNow

LEMMA IntactAtFatRead ==
  ASSUME SharedTypeOK, NEW p \in Procs, SessionIntact(p), ReadFatBlock(p)
  PROVE  SessionIntact(p)'
<1> DEFINE i == session[p].block
<1>1. i \in 0 .. FatBlocks - 1 /\ At(p, "mounting") /\ image' = image
  BY GeometryTypes DEF ReadFatBlock, SharedTypeOK, Session
<1>2. /\ session'[p].fat = Overlaid(session[p].fat, i, image.fat[i])
      /\ session'[p].block = i + 1 /\ session'[p].at = "mounting"
  BY DEF ReadFatBlock, Becomes, SharedTypeOK, Session, At
<1>3. ASSUME NEW k \in FatIndex, \A c \in Covering(k, {}) : c < i + 1
      PROVE  session'[p].fat[k] = FatNow[k]
  <2>1. CASE i \in Covering(k, {})
    <3>1. session'[p].fat[k] = image.fat[i][k - i]
      BY <1>1, <1>2, <2>1, GeometryTypes DEF Overlaid, Covering, FatIndex
    <3> QED
      BY <1>3, <2>1, <3>1, LastToArrive DEF FatNow
  <2>2. CASE i \notin Covering(k, {})
    <3>1. session'[p].fat[k] = session[p].fat[k]
      BY <1>1, <1>2, <2>2, GeometryTypes DEF Overlaid, Covering, FatIndex
    <3>2. \A c \in Covering(k, {}) : c < i
      BY <1>1, <1>3, <2>2 DEF Covering
    <3> QED
      BY <1>1, <3>1, <3>2 DEF SessionIntact
  <2> QED
    BY <2>1, <2>2
<1>4. FatNow' = FatNow
  BY <1>1 DEF FatNow
<1> HIDE DEF i
<1> QED
  BY <1>2, <1>3, <1>4 DEF SessionIntact, At

LEMMA IntactAtRootRead ==
  ASSUME SharedTypeOK, NEW p \in Procs, SessionIntact(p), ReadRoot(p),
         ChainsIntact(image.root, FatNow)
  PROVE  SessionIntact(p)'
<1>1. PICK heap \in [EntryIndex -> Garbage] :
         Becomes(p, [session[p] EXCEPT !.root = LoadRoot(image.root, heap),
                                       !.at = "mounted"])
  BY DEF ReadRoot
<1>2. /\ session'[p].root = LoadRoot(image.root, heap) /\ session'[p].at = "mounted"
      /\ session'[p].fat = session[p].fat
  BY <1>1 DEF Becomes, SharedTypeOK, Session
<1>3. \A k \in FatIndex : session[p].fat[k] = FatNow[k]
  <2>1. \A k \in FatIndex : \A c \in Covering(k, {}) : c < FatBlocks
    BY GeometryTypes DEF Covering
  <2> QED
    BY <2>1 DEF ReadRoot, SessionIntact
<1>4. session[p].fat \in Fat /\ FatNow \in Fat
  BY LoadFatType DEF SharedTypeOK, Session, FatNow
<1>5. session[p].fat = FatNow
  BY <1>3, <1>4 DEF Fat
<1>6. SameOnRoot(session'[p].root, image.root)
  BY <1>2, LoadedIsSame DEF SharedTypeOK
<1>7. ChainsIntact(session'[p].root, session'[p].fat)
  BY <1>2, <1>5, <1>6, SameOnRootChains
<1> QED
  BY <1>2, <1>7 DEF SessionIntact, At

LEMMA IntactAtCreate ==
  ASSUME SharedTypeOK, NEW p \in Procs, NEW n \in Names, SessionIntact(p), fs_create(p, n)
  PROVE  SessionIntact(p)'
<1>1. /\ session'[p].root = FillFree(session[p].root, n) /\ session'[p].at = "mounted"
      /\ session'[p].fat = session[p].fat
  BY DEF fs_create, Becomes, SharedTypeOK, Session, At
<1>2. session[p].root \in Dir /\ n \in MaybeName
  BY DEF SharedTypeOK, Session, MaybeName
<1>3. ChainsIntact(session[p].root, session[p].fat)
  BY DEF fs_create, SessionIntact, At
<1>4. ChainsIntact(session'[p].root, session'[p].fat)
  BY <1>1, <1>2, <1>3, FillKeepsChains
<1> QED
  BY <1>1, <1>4 DEF SessionIntact, At

LEMMA IntactAtDelete ==
  ASSUME SharedTypeOK, NEW p \in Procs, NEW n \in Names, SessionIntact(p), fs_delete(p, n),
         ~damaged'
  PROVE  SessionIntact(p)'
<1> DEFINE dir == session[p].root
           found == Matches(dir, n)
<1>1. PICK victim \in IF found = {} THEN Garbage ELSE {Victim(dir, n)} :
         /\ Becomes(p, [session[p] EXCEPT
                !.fat = FreeChain(@, victim.file_first_index, WholeBlocks(victim)),
                !.root = ClearMatches(@, n)])
         /\ damaged' = (damaged \/ Misled(dir, n, WholeBlocks(victim)))
  BY DEF fs_delete
<1>2. /\ session'[p].root = ClearMatches(dir, n) /\ session'[p].at = "mounted"
      /\ session'[p].fat = FreeChain(session[p].fat, victim.file_first_index,
                                     WholeBlocks(victim))
  BY <1>1 DEF fs_delete, Becomes, SharedTypeOK, Session, At
<1>3. dir \in Dir
  BY DEF SharedTypeOK, Session
<1>4. ChainsIntact(dir, session[p].fat)
  BY DEF fs_delete, SessionIntact, At
<1> HIDE DEF dir
<1>5. found # {} => Max(found) \in found
  BY LastMatch
<1>6. victim \in Entry
  BY <1>1, <1>3, <1>5, SharedDiskAssumption DEF Victim, Matches, Dir
<1>7. ~Misled(dir, n, WholeBlocks(victim))
  <2>1. Misled(dir, n, WholeBlocks(victim)) => damaged'
    BY <1>1
  <2> QED
    BY <2>1
<1>8. WholeBlocks(victim) > 0 =>
         \E v \in OnRootBlock : dir[v].filename = n /\ victim = dir[v]
  BY <1>1, <1>7, NotMisled DEF Victim
<1>9. ChainsIntact(session'[p].root, session'[p].fat)
  BY <1>2, <1>3, <1>4, <1>6, <1>8, ClearKeepsChains
<1> QED
  BY <1>2, <1>9 DEF SessionIntact, At

LEMMA IntactAtBeginSave ==
  ASSUME SharedTypeOK, NEW p \in Procs, SessionIntact(p), BeginSave(p)
  PROVE  SessionIntact(p)'
<1>1. /\ session'[p].root = session[p].root /\ session'[p].fat = session[p].fat
      /\ session'[p].at = "saving" /\ session'[p].alone = TRUE /\ At(p, "mounted")
  BY DEF BeginSave, Becomes, SharedTypeOK, Session
<1> QED
  BY <1>1 DEF SessionIntact, At

\* No step but the beginning of a transfer makes a process one that transfers.
LEMMA SeparateKept ==
  ASSUME SharedTypeOK, Separate, NEW p \in Procs,
         \A q \in Procs \ {p} : session'[q].at = session[q].at,
         \/ BeginMount(p) \/ ReadFatBlock(p) \/ ReadRoot(p)
         \/ \E n \in Names : fs_create(p, n) \/ fs_delete(p, n)
         \/ BeginSave(p) \/ WriteFatBlock(p) \/ WriteRoot(p) \/ Kill(p),
         ~damaged'
  PROVE  Separate'
<1>1. CASE BeginMount(p)
  <2>1. session'[p].at = "mounting" /\ ~OthersAt(p, "saving")
    BY <1>1 DEF BeginMount, Becomes, SharedTypeOK, NoSession
  <2> QED
    BY <2>1 DEF Separate, At, OthersAt
<1>2. CASE BeginSave(p)
  <2>1. session'[p].at = "saving" /\ ~OthersAt(p, "saving") /\ ~OthersAt(p, "mounting")
    BY <1>2 DEF BeginSave, Becomes, SharedTypeOK, Session
  <2> QED
    BY <2>1 DEF Separate, At, OthersAt
<1>3. CASE ReadFatBlock(p) \/ WriteFatBlock(p)
  <2>1. session'[p].at = session[p].at
    BY <1>3 DEF ReadFatBlock, WriteFatBlock, Becomes, SharedTypeOK, Session
  <2> QED
    BY <2>1 DEF Separate, At
<1>4. CASE \/ ReadRoot(p) \/ WriteRoot(p) \/ Kill(p)
           \/ \E n \in Names : fs_create(p, n) \/ fs_delete(p, n)
  <2>1. session'[p].at \in {"mounted", "idle"}
    <3>1. CASE ReadRoot(p)
      BY <3>1 DEF ReadRoot, Becomes, SharedTypeOK, Session
    <3>2. CASE WriteRoot(p) \/ Kill(p)
      BY <3>2 DEF WriteRoot, Kill, Becomes, SharedTypeOK, NoSession
    <3>3. ASSUME NEW n \in Names, fs_create(p, n)
          PROVE  session'[p].at = "mounted"
      BY <3>3 DEF fs_create, Becomes, SharedTypeOK, Session, At
    <3>4. ASSUME NEW n \in Names, fs_delete(p, n)
          PROVE  session'[p].at = "mounted"
      <4>1. PICK victim : Becomes(p, [session[p] EXCEPT
                  !.fat = FreeChain(@, victim.file_first_index, WholeBlocks(victim)),
                  !.root = ClearMatches(@, n)])
        BY <3>4 DEF fs_delete
      <4> QED
        BY <3>4, <4>1 DEF fs_delete, Becomes, SharedTypeOK, Session, At
    <3> QED
      BY <1>4, <3>1, <3>2, <3>3, <3>4
  <2> QED
    BY <2>1 DEF Separate, At
<1> QED
  BY <1>1, <1>2, <1>3, <1>4

LEMMA TransferInvStep ==
  SharedTypeOK /\ SaveInv /\ TransferInv /\ [SharedNext]_sharedVars => TransferInv'
<1> SUFFICES ASSUME SharedTypeOK, SaveInv, TransferInv, [SharedNext]_sharedVars, ~damaged'
             PROVE  TransferInv'
  BY DEF TransferInv
<1>1. /\ Separate /\ \A p \in Procs : SessionIntact(p)
      /\ NothingWritten => ChainsIntact(image.root, FatNow)
  BY SharedDamageStays DEF TransferInv
<1>2. CASE UNCHANGED sharedVars
  BY <1>2 DEF sharedVars, TransferInv, Separate, SessionIntact, NothingWritten, At, FatNow
<1>3. ASSUME NEW p \in Procs,
             \/ BeginMount(p) \/ ReadFatBlock(p) \/ ReadRoot(p)
             \/ \E n \in Names : fs_create(p, n) \/ fs_delete(p, n)
             \/ BeginSave(p) \/ Kill(p)
      PROVE  TransferInv'
  <2>1. image' = image /\ FatNow' = FatNow
    BY <1>3 DEF BeginMount, ReadFatBlock, ReadRoot, fs_create, fs_delete, BeginSave,
                Kill, FatNow
  <2>2. \A q \in Procs \ {p} : session'[q] = session[q]
    BY <1>3, StepIsOfOne DEF Becomes, SharedTypeOK
  <2>3. Separate'
    BY <1>1, <1>3, <2>2, SeparateKept
  <2>4. ASSUME NothingWritten'
        PROVE  NothingWritten
    <3>1. \A q \in Procs \ {p} : At(q, "saving") => session[q].block = 0
      BY <2>2, <2>4 DEF NothingWritten, At
    <3>2. At(p, "saving") => session[p].block = 0
      <4>1. CASE Kill(p)
        <5>1. At(p, "saving") /\ session[p].block > 0 => damaged'
          BY <4>1 DEF Kill
        <5>2. session[p].block \in Nat
          BY GeometryTypes DEF SharedTypeOK, Session
        <5> QED
          BY <5>1, <5>2
      <4>2. CASE ~Kill(p)
        BY <1>3, <4>2 DEF BeginMount, ReadFatBlock, ReadRoot, fs_create, fs_delete,
                          BeginSave, At
      <4> QED
        BY <4>1, <4>2
    <3> QED
      BY <3>1, <3>2 DEF NothingWritten
  <2>5. SessionIntact(p)'
    <3>1. CASE ReadRoot(p)
      <4>1. \A q \in Procs : ~At(q, "saving")
        BY <1>1, <3>1 DEF Separate, ReadRoot, At
      <4> QED
        BY <1>1, <3>1, <4>1, IntactAtRootRead DEF NothingWritten
    <3>2. CASE Kill(p)
      BY <3>2 DEF Kill, Becomes, SharedTypeOK, NoSession, SessionIntact, At
    <3> QED
      BY <1>1, <1>3, <3>1, <3>2, IntactAtOpen, IntactAtFatRead, IntactAtCreate,
         IntactAtDelete, IntactAtBeginSave
  <2>6. \A q \in Procs \ {p} : SessionIntact(q)'
    BY <1>1, <2>1, <2>2 DEF SessionIntact, At
  <2> QED
    BY <1>1, <2>1, <2>3, <2>4, <2>5, <2>6 DEF TransferInv
<1>4. ASSUME NEW p \in Procs, WriteFatBlock(p) \/ WriteRoot(p)
      PROVE  /\ Separate' /\ At(p, "saving")
             /\ \A q \in Procs \ {p} : SessionIntact(q)'
             /\ \A q \in Procs \ {p} : ~At(q, "saving") /\ ~At(q, "saving")'
  <2>1. At(p, "saving")
    BY <1>4 DEF WriteFatBlock, WriteRoot
  <2>2. \A q \in Procs \ {p} :
           /\ session'[q].at = session[q].at /\ session'[q].fat = session[q].fat
           /\ session'[q].root = session[q].root
    BY <1>4, OthersStay
  <2>3. \A q \in Procs \ {p} : session[q].at \notin {"saving", "mounting"}
    BY <1>1, <2>1 DEF Separate
  <2>4. \A q \in Procs \ {p} : SessionIntact(q)'
    BY <1>1, <2>2, <2>3 DEF SessionIntact, At
  <2>5. Separate'
    BY <1>1, <1>4, <2>2, SeparateKept
  <2> QED
    BY <2>1, <2>2, <2>3, <2>4, <2>5 DEF At
<1>5. ASSUME NEW p \in Procs, WriteFatBlock(p)
      PROVE  TransferInv'
  <2>1. /\ session'[p].at = "saving" /\ session'[p].alone = session[p].alone
        /\ session'[p].fat = session[p].fat /\ session'[p].root = session[p].root
        /\ session'[p].block = session[p].block + 1 /\ At(p, "saving")
    BY <1>5 DEF WriteFatBlock, SharedTypeOK, Session, At
  <2>2. SessionIntact(p)'
    BY <1>1, <2>1 DEF SessionIntact, At
  <2>3. session[p].block \in Nat
    BY GeometryTypes DEF SharedTypeOK, Session
  <2>4. ~NothingWritten'
    BY <2>1, <2>3 DEF NothingWritten, At
  <2> QED
    BY <1>4, <1>5, <2>2, <2>4 DEF TransferInv
<1>6. ASSUME NEW p \in Procs, WriteRoot(p)
      PROVE  TransferInv'
  <2>1. /\ image'.fat = image.fat /\ image'.root = RootBlock(session[p].root)
        /\ session[p].block = FatBlocks /\ At(p, "saving") /\ session'[p].at = "idle"
    BY <1>6 DEF WriteRoot, SharedTypeOK, NoSession
  <2>2. SessionIntact(p)'
    BY <2>1 DEF SessionIntact, At
  <2>3. LoadFat(image.fat, {}) = session[p].fat
    <3>1. \A i \in 0 .. FatBlocks - 1 : i < session[p].block
      BY <2>1, GeometryTypes
    <3>2. \A i \in 0 .. FatBlocks - 1 : image.fat[i] = FatBlock(session[p].fat, i)
      BY <1>1, <2>1, <3>1 DEF SaveInv, SessionIntact
    <3>3. session[p].fat \in Fat /\ image.fat \in FatImage
      BY DEF SharedTypeOK, Session
    <3>4. \A k \in FatIndex : Covering(k, {}) = {} => session[p].fat[k] = 0
      BY DEF SaveInv
    <3> QED
      BY <3>2, <3>3, <3>4, WriteThenLoad
  <2>4. ChainsIntact(session[p].root, session[p].fat)
    BY <1>1, <2>1 DEF SessionIntact, At
  <2>5. SameOnRoot(session[p].root, RootBlock(session[p].root))
    BY StoredIsSame DEF SharedTypeOK, Session
  <2>6. ChainsIntact(image'.root, FatNow')
    BY <2>1, <2>3, <2>4, <2>5, SameOnRootChains DEF FatNow
  <2> QED
    BY <1>4, <1>6, <2>2, <2>6 DEF TransferInv
<1> QED
  BY <1>2, <1>3, <1>5, <1>6, CallersNames DEF SharedNext

\* fs_mount and fs_umount of processes whose sessions overlap but whose transfers
\* do not: every chain on the disk is whole whenever no one is writing, however
\* many processes there are, if it is so before anyone opens the image.
THEOREM SeparateTransfersKeepChainsHolds ==
  ASSUME ChainsAtOutset
  PROVE  SharedSpec => []SeparateTransfersKeepChains
<1>1. TransferInv => SeparateTransfersKeepChains
  BY DEF TransferInv, SeparateTransfersKeepChains, NothingWritten
<1> QED
  BY <1>1, SharedTypesInit, SharedTypesStep, SaveInvInit, SaveInvStep,
     TransferInvInit, TransferInvStep, PTL DEF SharedSpec
=============================================================================
