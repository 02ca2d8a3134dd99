-------------------------- MODULE FsMetadataProofs --------------------------
(***************************************************************************)
(* Lemmas about the operators of FsMetadata and FsImages, for every        *)
(* geometry.                                                               *)
(***************************************************************************)
EXTENDS FsImages, FiniteSetTheorems, WellFoundedInduction, TLAPS

LEMMA GeometryTypes ==
  /\ FatBlocks \in Nat /\ FatBlocks > 0 /\ PerBlock \in Nat /\ PerBlock > 0
  /\ NEntries \in Nat /\ Whole \in Nat /\ Whole < NEntries
  /\ OnRootBlock \subseteq EntryIndex /\ 0 \in Sizes
  /\ FAT_EOC \in BlockRef /\ 0 \in FatIndex /\ 0 \in BlockRef
<1>1. FatBlocks \in Nat /\ FatBlocks > 0 /\ PerBlock \in Nat /\ PerBlock > 0
  BY MetadataAssumption
<1>2. FatBlocks * PerBlock \in Nat /\ FatBlocks * PerBlock > 0
  BY <1>1
<1>3. 0 \in FatIndex
  BY <1>2 DEF FatIndex
<1> QED
  BY <1>1, <1>3, MetadataAssumption DEF OnRootBlock, EntryIndex, BlockRef

----------------------------------------------------------------------------
(* Max of a bounded set of naturals.                                       *)

Below == {ss \in Nat \X Nat : ss[1] < ss[2]}

LEMMA BelowIsWellFounded == IsWellFoundedOn(Below, Nat)
  BY NatLessThanWellFounded DEF OpToRel, Below

LEMMA MaxIsMember ==
  ASSUME NEW n \in Nat, NEW S \in SUBSET (0 .. n), S # {}
  PROVE  Max(S) \in S /\ \A y \in S : Max(S) >= y
<1> DEFINE T == {n - x : x \in S}
<1>1. T \subseteq Nat
  OBVIOUS
<1>2. T # {}
  <2>1. PICK s \in S : TRUE
    OBVIOUS
  <2>2. n - s \in T
    OBVIOUS
  <2> QED
    BY <2>2
<1>3. PICK t \in T : \A y \in T : <<y, t>> \notin Below
  BY <1>1, <1>2, BelowIsWellFounded, WFMin
<1>4. PICK x \in S : t = n - x
  BY <1>3
<1>5. \A y \in S : x >= y
  <2> TAKE y \in S
  <2>1. n - y \in T
    OBVIOUS
  <2>2. ~(n - y < t)
    BY <1>1, <1>3, <2>1 DEF Below
  <2> QED
    BY <1>4, <2>2
<1> QED
  BY <1>4, <1>5 DEF Max

----------------------------------------------------------------------------
(* The FAT.                                                                *)

LEMMA ZeroFatType == ZeroFat \in Fat
  BY GeometryTypes DEF ZeroFat, Fat

\* Whatever could not be read, what fs_mount loads is a FAT: no entry is taken
\* from outside the block it is read from.
LEMMA LoadFatType ==
  ASSUME NEW blocks \in FatImage, NEW unread
  PROVE  LoadFat(blocks, unread) \in Fat
<1> SUFFICES ASSUME NEW k \in FatIndex
             PROVE  (LET cover == Covering(k, unread)
                     IN  IF cover = {} THEN 0
                         ELSE blocks[Max(cover)][k - Max(cover)]) \in BlockRef
  BY DEF LoadFat, Fat
<1> DEFINE cover == Covering(k, unread)
<1>1. CASE cover = {}
  BY <1>1, GeometryTypes
<1>2. CASE cover # {}
  <2>1. cover \in SUBSET (0 .. FatBlocks - 1) /\ FatBlocks - 1 \in Nat
    BY GeometryTypes DEF Covering
  <2>2. Max(cover) \in cover
    BY <1>2, <2>1, MaxIsMember
  <2>3. Max(cover) \in 0 .. FatBlocks - 1 /\ Max(cover) <= k /\ k < Max(cover) + PerBlock
    BY <2>2 DEF Covering
  <2>4. k - Max(cover) \in 0 .. PerBlock - 1
    BY <2>3, GeometryTypes DEF FatIndex
  <2> HIDE DEF cover
  <2>5. blocks[Max(cover)][k - Max(cover)] \in BlockRef
    BY <2>3, <2>4 DEF FatImage
  <2> QED
    BY <1>2, <2>5 DEF cover
<1> QED
  BY <1>1, <1>2

\* Every entry block i covers is inside the array.
LEMMA FatBlockType ==
  ASSUME NEW fat \in Fat, NEW i \in 0 .. FatBlocks - 1
  PROVE  FatBlock(fat, i) \in [0 .. PerBlock - 1 -> BlockRef]
<1> SUFFICES ASSUME NEW j \in 0 .. PerBlock - 1
             PROVE  fat[i + j] \in BlockRef
  BY DEF FatBlock
<1>1. i + j <= FatBlocks - 1 + PerBlock - 1
  BY GeometryTypes
<1>2. FatBlocks - 1 + PerBlock - 1 <= FatBlocks * PerBlock - 1
  <2>1. (FatBlocks - 1) * (PerBlock - 1) >= 0
    BY GeometryTypes
  <2>2. (FatBlocks - 1) * (PerBlock - 1) = FatBlocks * PerBlock - FatBlocks - PerBlock + 1
    BY GeometryTypes
  <2> QED
    BY <2>1, <2>2, GeometryTypes
<1>3. FatBlocks * PerBlock \in Nat
  BY GeometryTypes
<1>4. i + j \in FatIndex
  BY <1>1, <1>2, <1>3, GeometryTypes DEF FatIndex
<1> QED
  BY <1>4 DEF Fat

LEMMA FreeChainType ==
  ASSUME NEW fat \in Fat, NEW first, NEW n
  PROVE  FreeChain(fat, first, n) \in Fat
  BY GeometryTypes DEF FreeChain, Fat

\* Entry k comes from the last block that covers it.
LEMMA LastCover ==
  ASSUME NEW k \in FatIndex, Covering(k, {}) # {}
  PROVE  /\ Max(Covering(k, {})) \in 0 .. FatBlocks - 1
         /\ k - Max(Covering(k, {})) \in 0 .. PerBlock - 1
<1> DEFINE cover == Covering(k, {})
<1>1. cover \in SUBSET (0 .. FatBlocks - 1) /\ FatBlocks - 1 \in Nat
  BY GeometryTypes DEF Covering
<1>2. Max(cover) \in cover
  BY <1>1, MaxIsMember
<1>3. Max(cover) \in 0 .. FatBlocks - 1 /\ Max(cover) <= k /\ k < Max(cover) + PerBlock
  BY <1>2 DEF Covering
<1> HIDE DEF cover
<1>4. k - Max(cover) \in 0 .. PerBlock - 1
  BY <1>3, GeometryTypes DEF FatIndex
<1> QED
  BY <1>3, <1>4 DEF cover

\* A block of the array, stored where it was loaded from, is read back.
LEMMA StoredEntry ==
  ASSUME NEW fat \in Fat, NEW blocks, NEW k \in FatIndex,
         Covering(k, {}) # {},
         blocks[Max(Covering(k, {}))] = FatBlock(fat, Max(Covering(k, {})))
  PROVE  LoadFat(blocks, {})[k] = fat[k]
<1> DEFINE m == Max(Covering(k, {}))
<1>1. m \in 0 .. FatBlocks - 1 /\ k - m \in 0 .. PerBlock - 1
  BY LastCover
<1>2. LoadFat(blocks, {})[k] = blocks[m][k - m]
  BY DEF LoadFat
<1>3. blocks[m][k - m] = fat[m + (k - m)]
  BY <1>1 DEF FatBlock
<1> HIDE DEF m
<1>4. m + (k - m) = k
  BY <1>1, GeometryTypes DEF FatIndex
<1> QED
  BY <1>2, <1>3, <1>4

\* The array written back block by block and loaded again is the same array,
\* although the blocks overlap in it.
LEMMA WriteThenLoad ==
  ASSUME NEW fat \in Fat, NEW blocks \in FatImage,
         \A k \in FatIndex : Covering(k, {}) = {} => fat[k] = 0,
         \A i \in 0 .. FatBlocks - 1 : blocks[i] = FatBlock(fat, i)
  PROVE  LoadFat(blocks, {}) = fat
<1>1. \A k \in FatIndex : LoadFat(blocks, {})[k] = fat[k]
  <2> TAKE k \in FatIndex
  <2>1. CASE Covering(k, {}) = {}
    BY <2>1 DEF LoadFat
  <2>2. CASE Covering(k, {}) # {}
    BY <2>2, LastCover, StoredEntry
  <2> QED
    BY <2>1, <2>2
<1>2. LoadFat(blocks, {}) \in Fat
  BY LoadFatType
<1> QED
  BY <1>1, <1>2 DEF Fat

----------------------------------------------------------------------------
(* The walk along a chain.                                                 *)

\* The value of current_index in round k, from those of the rounds before.
WalkStep(fat, first, pos, k) ==
    IF k = 0 THEN first
    ELSE IF \E j \in 0 .. k - 2 : pos[j] = pos[k - 1] THEN 0
    ELSE FatRead(fat, pos[k - 1])

IsWalk(fat, first, n, pos) ==
    pos = [k \in 0 .. n |-> WalkStep(fat, first, pos, k)]

LEMMA WalkExists ==
  ASSUME NEW fat, NEW first, NEW n \in Nat
  PROVE  \E pos : IsWalk(fat, first, n, pos)
<1> DEFINE Missing == {m \in Nat : \A pos : ~IsWalk(fat, first, m, pos)}
<1> SUFFICES ASSUME Missing # {}
             PROVE  FALSE
  OBVIOUS
<1>1. PICK m \in Missing : \A l \in Missing : <<l, m>> \notin Below
  <2>1. Missing \subseteq Nat
    OBVIOUS
  <2> HIDE DEF Missing
  <2> QED
    BY <2>1, BelowIsWellFounded, WFMin
<1>2. CASE m = 0
  <2>1. IsWalk(fat, first, 0, [k \in 0 .. 0 |-> first])
    BY DEF IsWalk, WalkStep
  <2> QED
    BY <1>1, <1>2, <2>1
<1>3. CASE m > 0
  <2>1. m \in Nat /\ m - 1 \in Nat /\ <<m - 1, m>> \in Below
    BY <1>3 DEF Below
  <2>2. PICK q : IsWalk(fat, first, m - 1, q)
    BY <1>1, <2>1
  <2> DEFINE pos == [k \in 0 .. m |-> IF k < m THEN q[k] ELSE WalkStep(fat, first, q, m)]
  <2>3. \A k \in 0 .. m - 1 : pos[k] = q[k] /\ q[k] = WalkStep(fat, first, q, k)
    <3>1. \A k \in 0 .. m - 1 : q[k] = WalkStep(fat, first, q, k)
      BY <2>2 DEF IsWalk
    <3>2. \A k \in 0 .. m - 1 : k \in 0 .. m /\ k < m
      BY <2>1
    <3>3. \A k \in 0 .. m - 1 : pos[k] = q[k]
      BY <3>2
    <3> QED
      BY <3>1, <3>3
  <2>4. pos[m] = WalkStep(fat, first, q, m)
    BY <2>1
  <2>5. pos = [k \in 0 .. m |-> pos[k]]
    OBVIOUS
  <2> HIDE DEF pos
  <2>6. ASSUME NEW k \in 0 .. m
        PROVE  WalkStep(fat, first, pos, k) = WalkStep(fat, first, q, k)
    <3>1. k # 0 => pos[k - 1] = q[k - 1]
      BY <2>1, <2>3
    <3>2. \A j \in 0 .. k - 2 : pos[j] = q[j]
      BY <2>1, <2>3
    <3> QED
      BY <3>1, <3>2 DEF WalkStep
  <2>7. \A k \in 0 .. m : pos[k] = WalkStep(fat, first, pos, k)
    <3> TAKE k \in 0 .. m
    <3>1. k \in 0 .. m - 1 \/ k = m
      BY <2>1
    <3> QED
      BY <2>3, <2>4, <2>6, <3>1
  <2>8. IsWalk(fat, first, m, pos)
    BY <2>5, <2>7 DEF IsWalk
  <2> QED
    BY <1>1, <2>8
<1> QED
  BY <1>1, <1>2, <1>3

\* The equations a walk is defined by, for its first rounds.
Follows(fat, first, m, pos) == \A k \in 0 .. m : pos[k] = WalkStep(fat, first, pos, k)

\* Both arrays have the same successors for the first m blocks.
ReadAlike(fat, gat, pos, m) ==
    \A k \in 0 .. m - 1 : FatRead(fat, pos[k]) = FatRead(gat, pos[k])

LEMMA WalkSteps ==
  ASSUME NEW fat, NEW first, NEW n \in Nat, NEW m \in 0 .. n
  PROVE  Follows(fat, first, m, Walk(fat, first, n))
<1>1. \E pos : IsWalk(fat, first, n, pos)
  BY WalkExists
<1>2. IsWalk(fat, first, n, CHOOSE pos : IsWalk(fat, first, n, pos))
  BY <1>1
<1>3. Walk(fat, first, n) = CHOOSE pos : IsWalk(fat, first, n, pos)
  BY DEF Walk, IsWalk, WalkStep
<1>4. IsWalk(fat, first, n, Walk(fat, first, n))
  BY <1>2, <1>3
<1> DEFINE w == Walk(fat, first, n)
<1> HIDE DEF w
<1>5. \A k \in 0 .. m : k \in 0 .. n
  OBVIOUS
<1> QED
  BY <1>4, <1>5 DEF IsWalk, Follows, w

\* What follows the same equations takes the same course.
LEMMA WalksAgree ==
  ASSUME NEW fat, NEW gat, NEW first, NEW m \in Nat, NEW u, NEW v,
         Follows(fat, first, m, u), Follows(gat, first, m, v),
         ReadAlike(fat, gat, u, m)
  PROVE  \A k \in 0 .. m : u[k] = v[k]
<1> DEFINE Apart == {k \in 0 .. m : u[k] # v[k]}
<1> SUFFICES ASSUME Apart # {}
             PROVE  FALSE
  OBVIOUS
<1>1. PICK k \in Apart : \A j \in Apart : <<j, k>> \notin Below
  <2>1. Apart \subseteq Nat
    OBVIOUS
  <2> HIDE DEF Apart
  <2> QED
    BY <2>1, BelowIsWellFounded, WFMin
<1>2. \A j \in 0 .. k - 1 : u[j] = v[j]
  <2> TAKE j \in 0 .. k - 1
  <2>1. j \in 0 .. m /\ <<j, k>> \in Below
    BY DEF Below
  <2> QED
    BY <1>1, <2>1
<1>3. /\ k \in 0 .. m /\ u[k] # v[k]
      /\ u[k] = WalkStep(fat, first, u, k) /\ v[k] = WalkStep(gat, first, v, k)
  BY <1>1 DEF Follows
<1>4. CASE k = 0
  BY <1>3, <1>4 DEF WalkStep
<1>5. CASE k # 0
  <2>1. k - 1 \in 0 .. m - 1 /\ k - 1 \in 0 .. k - 1
    BY <1>3, <1>5
  <2>2. u[k - 1] = v[k - 1] /\ FatRead(fat, u[k - 1]) = FatRead(gat, u[k - 1])
    BY <1>2, <2>1 DEF ReadAlike
  <2>3. \A j \in 0 .. k - 2 : u[j] = v[j]
    BY <1>2, <1>3
  <2> QED
    BY <1>3, <1>5, <2>2, <2>3 DEF WalkStep
<1> QED
  BY <1>4, <1>5

\* A longer walk starts like a shorter one.
LEMMA WalkPrefix ==
  ASSUME NEW fat, NEW first, NEW n \in Nat, NEW m \in 0 .. n
  PROVE  \A k \in 0 .. m : Walk(fat, first, m)[k] = Walk(fat, first, n)[k]
<1>1. m \in Nat /\ m \in 0 .. m
  OBVIOUS
<1>2. /\ Follows(fat, first, m, Walk(fat, first, n))
      /\ Follows(fat, first, m, Walk(fat, first, m))
  BY <1>1, WalkSteps
<1>3. ReadAlike(fat, fat, Walk(fat, first, m), m)
  BY DEF ReadAlike
<1> QED
  BY <1>1, <1>2, <1>3, WalksAgree

\* A walk depends on the entries it reads only.
LEMMA WalkedKept ==
  ASSUME NEW fat, NEW gat, NEW first, NEW n \in Nat,
         \A b \in Walked(fat, first, n) : FatRead(fat, b) = FatRead(gat, b)
  PROVE  Walked(gat, first, n) = Walked(fat, first, n)
<1> DEFINE u == Walk(fat, first, n)
           v == Walk(gat, first, n)
<1>1. Follows(fat, first, n, u) /\ Follows(gat, first, n, v)
  <2>1. n \in 0 .. n
    OBVIOUS
  <2> QED
    BY <2>1, WalkSteps
<1>2. Walked(fat, first, n) = {u[k] : k \in 0 .. n - 1} /\ Walked(gat, first, n) = {v[k] : k \in 0 .. n - 1}
  BY DEF Walked
<1> HIDE DEF u, v
<1>3. ReadAlike(fat, gat, u, n)
  BY <1>2 DEF ReadAlike
<1>4. \A k \in 0 .. n : u[k] = v[k]
  BY <1>1, <1>3, WalksAgree
<1>5. \A k \in 0 .. n - 1 : u[k] = v[k]
  BY <1>4
<1> QED
  BY <1>2, <1>5

----------------------------------------------------------------------------
(* The root directory.                                                     *)

LEMMA ZeroDirType == ZeroDir \in Dir
  BY GeometryTypes DEF ZeroDir, ZeroEntry, Dir, Entry, MaybeName

LEMMA FillFreeType ==
  ASSUME NEW dir \in Dir, NEW n \in MaybeName
  PROVE  FillFree(dir, n) \in Dir
  BY GeometryTypes DEF FillFree, NewEntry, Dir, Entry

LEMMA ClearMatchesType ==
  ASSUME NEW dir \in Dir, NEW n
  PROVE  ClearMatches(dir, n) \in Dir
  BY GeometryTypes DEF ClearMatches, Dir, Entry

LEMMA RootBlockType ==
  ASSUME NEW dir \in Dir
  PROVE  RootBlock(dir) \in RootImage
  BY GeometryTypes DEF RootBlock, RootImage, Dir, Entry

LEMMA LoadRootType ==
  ASSUME NEW root \in RootImage, NEW heap \in [EntryIndex -> Entry]
  PROVE  LoadRoot(root, heap) \in Dir
<1> SUFFICES ASSUME NEW i \in EntryIndex
             PROVE  (IF i < Whole THEN root[i]
                     ELSE IF i = Whole
                          THEN [root[i] EXCEPT !.isEmpty = heap[i].isEmpty]
                          ELSE heap[i]) \in Entry
  BY DEF LoadRoot, Dir
<1>1. i <= Whole => i \in OnRootBlock
  BY GeometryTypes DEF OnRootBlock, EntryIndex
<1>2. heap[i] \in Entry /\ (i <= Whole => root[i] \in Entry)
  BY <1>1 DEF RootImage
<1>3. i = Whole => [root[i] EXCEPT !.isEmpty = heap[i].isEmpty] \in Entry
  BY <1>2, GeometryTypes DEF Entry
<1> QED
  BY <1>2, <1>3, GeometryTypes DEF EntryIndex

LEMMA RootEntries ==
  ASSUME NEW i \in OnRootBlock
  PROVE  i \in EntryIndex /\ i \in Nat /\ i <= Whole /\ Whole \in Nat
  BY GeometryTypes DEF OnRootBlock, EntryIndex

LEMMA WholeIsOnRoot ==
  ASSUME NEW i \in 0 .. Whole - 1
  PROVE  i \in OnRootBlock /\ i \in EntryIndex /\ i < Whole /\ i \in Nat
  BY GeometryTypes DEF OnRootBlock, EntryIndex

LEMMA LastMatch ==
  ASSUME NEW dir, NEW n, Matches(dir, n) # {}
  PROVE  Max(Matches(dir, n)) \in Matches(dir, n)
<1>1. Matches(dir, n) \in SUBSET (0 .. NEntries - 1) /\ NEntries - 1 \in Nat
  BY GeometryTypes DEF Matches, EntryIndex
<1> QED
  BY <1>1, MaxIsMember

\* An undamaged delete that frees blocks frees those of a stored entry.
LEMMA NotMisled ==
  ASSUME NEW dir, NEW n, NEW rounds, rounds > 0, ~Misled(dir, n, rounds)
  PROVE  /\ Matches(dir, n) # {} /\ Max(Matches(dir, n)) \in OnRootBlock
         /\ dir[Max(Matches(dir, n))].filename = n
<1> DEFINE v == Max(Matches(dir, n))
<1>1. Matches(dir, n) # {} /\ ~(v > Whole)
  BY DEF Misled
<1>2. v \in Matches(dir, n)
  BY <1>1, LastMatch
<1> HIDE DEF v
<1>3. v \in OnRootBlock /\ dir[v].filename = n
  BY <1>1, <1>2, GeometryTypes DEF Matches, EntryIndex, OnRootBlock
<1> QED
  BY <1>1, <1>3 DEF v

\* The entries of the root block are the same in memory and on disk but for
\* their flags, and those that lie whole in it are the same.
SameOnRoot(dir, root) ==
    /\ \A i \in OnRootBlock : /\ dir[i].filename = root[i].filename
                              /\ dir[i].file_size = root[i].file_size
                              /\ dir[i].file_first_index = root[i].file_first_index
    /\ \A i \in 0 .. Whole - 1 : dir[i] = root[i]

LEMMA StoredIsSame ==
  ASSUME NEW dir \in Dir
  PROVE  SameOnRoot(dir, RootBlock(dir))
<1>1. ASSUME NEW i \in OnRootBlock
      PROVE  /\ dir[i].filename = RootBlock(dir)[i].filename
             /\ dir[i].file_size = RootBlock(dir)[i].file_size
             /\ dir[i].file_first_index = RootBlock(dir)[i].file_first_index
  <2>1. dir[i] \in Entry
    BY RootEntries DEF Dir
  <2> QED
    BY <2>1 DEF RootBlock, Entry
<1>2. \A i \in 0 .. Whole - 1 : dir[i] = RootBlock(dir)[i]
  BY WholeIsOnRoot DEF RootBlock
<1> QED
  BY <1>1, <1>2 DEF SameOnRoot

LEMMA LoadedIsSame ==
  ASSUME NEW root \in RootImage, NEW heap
  PROVE  SameOnRoot(LoadRoot(root, heap), root)
<1>1. ASSUME NEW i \in OnRootBlock
      PROVE  /\ LoadRoot(root, heap)[i].filename = root[i].filename
             /\ LoadRoot(root, heap)[i].file_size = root[i].file_size
             /\ LoadRoot(root, heap)[i].file_first_index = root[i].file_first_index
  <2>1. root[i] \in Entry /\ i \in EntryIndex /\ (i < Whole \/ i = Whole)
    BY RootEntries DEF RootImage
  <2> QED
    BY <2>1 DEF LoadRoot, Entry
<1>2. \A i \in 0 .. Whole - 1 : LoadRoot(root, heap)[i] = root[i]
  BY WholeIsOnRoot DEF LoadRoot
<1> QED
  BY <1>1, <1>2 DEF SameOnRoot

----------------------------------------------------------------------------
(* Chains.                                                                 *)

LEMMA BlockCounts ==
  ASSUME NEW e \in Entry
  PROVE  /\ OccupiedBlocks(e) \in Nat /\ WholeBlocks(e) \in Nat
         /\ WholeBlocks(e) <= OccupiedBlocks(e)
         /\ OccupiedBlocks(e) <= WholeBlocks(e) + 1
         /\ e.file_size = 0 => OccupiedBlocks(e) = 0
<1>1. e.file_size \in Nat /\ BlockSize \in Nat \ {0}
  <2>1. e.file_size \in Sizes
    BY DEF Entry
  <2> QED
    BY <2>1, MetadataAssumption
<1>2. \A s \in Nat, b \in Nat \ {0} :
         /\ (s + b - 1) \div b \in Nat /\ s \div b \in Nat
         /\ s \div b <= (s + b - 1) \div b
         /\ (s + b - 1) \div b <= s \div b + 1
         /\ s = 0 => (s + b - 1) \div b = 0
  <2> TAKE s \in Nat, b \in Nat \ {0}
  <2> DEFINE q == s \div b
             p == (s + b - 1) \div b
  <2>1. /\ q \in Int /\ q * b <= s /\ s < q * b + b
    BY SMT
  <2>2. /\ p \in Int /\ p * b <= s + b - 1 /\ s + b - 1 < p * b + b
    BY SMT
  <2> HIDE DEF q, p
  <2>3. q >= 0
    BY <2>1
  <2>4. q <= p
    BY <2>1, <2>2
  <2>5. p <= q + 1
    BY <2>1, <2>2
  <2>6. s = 0 => p <= 0
    BY <2>2
  <2> QED
    BY <2>1, <2>2, <2>3, <2>4, <2>5, <2>6 DEF q, p
<1> DEFINE s == e.file_size
<1>3. OccupiedBlocks(e) = (s + BlockSize - 1) \div BlockSize /\ WholeBlocks(e) = s \div BlockSize
  BY DEF OccupiedBlocks, WholeBlocks
<1> HIDE DEF s
<1>4. /\ (s + BlockSize - 1) \div BlockSize \in Nat /\ s \div BlockSize \in Nat
      /\ s \div BlockSize <= (s + BlockSize - 1) \div BlockSize
      /\ (s + BlockSize - 1) \div BlockSize <= s \div BlockSize + 1
      /\ s = 0 => (s + BlockSize - 1) \div BlockSize = 0
  BY <1>1, <1>2, Zenon DEF s
<1> QED
  BY <1>3, <1>4, Zenon DEF s

LEMMA EmptyChain ==
  ASSUME NEW e \in Entry, NEW fat, e.file_size = 0
  PROVE  Chain(e, fat) = {} /\ OccupiedBlocks(e) = 0 /\ Cardinality(Chain(e, fat)) = 0
<1>1. OccupiedBlocks(e) = 0
  BY BlockCounts
<1>2. Chain(e, fat) = {}
  BY <1>1 DEF Chain
<1> QED
  BY <1>1, <1>2, FS_EmptySet

\* What the loop of fs_delete zeroes belongs to the file, and at most the block
\* it reaches last is left of it.
LEMMA FreedInChain ==
  ASSUME NEW e \in Entry, NEW fat
  PROVE  LET freed == Walked(fat, e.file_first_index, WholeBlocks(e))
         IN  /\ freed \subseteq Chain(e, fat)
             /\ \E last : Chain(e, fat) \ freed \subseteq {last}
<1> DEFINE n == OccupiedBlocks(e)
           m == WholeBlocks(e)
           first == e.file_first_index
           u == Walk(fat, first, n)
           v == Walk(fat, first, m)
<1>1. n \in Nat /\ m \in Nat /\ m <= n /\ n <= m + 1
  BY BlockCounts
<1>2. \A k \in 0 .. m : v[k] = u[k]
  <2> HIDE DEF n, m, first
  <2>1. m \in 0 .. n
    BY <1>1
  <2> QED
    BY <1>1, <2>1, WalkPrefix
<1>3. Chain(e, fat) = {u[k] : k \in 0 .. n - 1}
  BY DEF Chain
<1>4. Walked(fat, first, m) = {v[k] : k \in 0 .. m - 1}
  BY DEF Walked
<1> HIDE DEF n, m, first, u, v
<1>5. \A k \in 0 .. n - 1 : k \in 0 .. m - 1 \/ k = m
  BY <1>1
<1>6. \A k \in 0 .. m - 1 : k \in 0 .. n - 1 /\ k \in 0 .. m
  BY <1>1
<1>7. Walked(fat, first, m) \subseteq Chain(e, fat)
  BY <1>2, <1>3, <1>4, <1>6
<1>8. Chain(e, fat) \ Walked(fat, first, m) \subseteq {u[m]}
  BY <1>2, <1>3, <1>4, <1>5, <1>6
<1> QED
  BY <1>7, <1>8 DEF first, m

\* A chain none of whose entries changes stays where it is.
LEMMA ChainKept ==
  ASSUME NEW e \in Entry, NEW fat, NEW gat,
         \A b \in Chain(e, fat) : FatRead(fat, b) = FatRead(gat, b)
  PROVE  Chain(e, gat) = Chain(e, fat)
<1>1. /\ Chain(e, fat) = Walked(fat, e.file_first_index, OccupiedBlocks(e))
      /\ Chain(e, gat) = Walked(gat, e.file_first_index, OccupiedBlocks(e))
  BY DEF Chain, Walked
<1>2. OccupiedBlocks(e) \in Nat
  BY BlockCounts
<1> QED
  BY <1>1, <1>2, WalkedKept

\* Chains are a matter of sizes and first indexes.
LEMMA SameChains ==
  ASSUME NEW dir, NEW root, NEW fat,
         \A i \in OnRootBlock : /\ dir[i].file_size = root[i].file_size
                                /\ dir[i].file_first_index = root[i].file_first_index
  PROVE  ChainsIntact(dir, fat) <=> ChainsIntact(root, fat)
<1>1. \A i \in OnRootBlock : /\ OccupiedBlocks(dir[i]) = OccupiedBlocks(root[i])
                             /\ Chain(dir[i], fat) = Chain(root[i], fat)
  BY DEF OccupiedBlocks, Chain
<1> QED
  BY <1>1 DEF ChainsIntact

\* An edit that empties some entries and leaves the chains of all others alone.
LEMMA EmptyingKeepsChains ==
  ASSUME NEW dir, NEW new, NEW fat, NEW gat, ChainsIntact(dir, fat),
         \A i \in OnRootBlock : dir[i] \in Entry /\ new[i] \in Entry,
         \A i \in OnRootBlock :
            \/ new[i].file_size = 0
            \/ new[i] = dir[i] /\ \A b \in Chain(dir[i], fat) : gat[b] = fat[b]
  PROVE  ChainsIntact(new, gat)
<1>1. ASSUME NEW i \in OnRootBlock, new[i].file_size # 0
      PROVE  new[i] = dir[i] /\ Chain(new[i], gat) = Chain(dir[i], fat)
  <2>1. new[i] = dir[i] /\ \A b \in Chain(dir[i], fat) : gat[b] = fat[b]
    BY <1>1
  <2>2. \A b \in Chain(dir[i], fat) : FatRead(fat, b) = FatRead(gat, b)
    BY <2>1 DEF FatRead
  <2> QED
    BY <2>1, <2>2, ChainKept
<1>2. ASSUME NEW i \in OnRootBlock, new[i].file_size = 0
      PROVE  /\ Chain(new[i], gat) = {} /\ OccupiedBlocks(new[i]) = 0
             /\ Cardinality(Chain(new[i], gat)) = 0
  BY <1>2, EmptyChain
<1>3. ASSUME NEW i \in OnRootBlock
      PROVE  /\ Cardinality(Chain(new[i], gat)) = OccupiedBlocks(new[i])
             /\ \A b \in Chain(new[i], gat) : b \in FatIndex /\ gat[b] # 0
             /\ \A j \in OnRootBlock \ {i} :
                   Chain(new[i], gat) \cap Chain(new[j], gat) = {}
  <2>1. CASE new[i].file_size = 0
    BY <1>2, <2>1
  <2>2. CASE new[i].file_size # 0
    <3>1. new[i] = dir[i] /\ Chain(new[i], gat) = Chain(dir[i], fat)
      BY <1>1, <2>2
    <3>2. /\ Cardinality(Chain(new[i], gat)) = OccupiedBlocks(new[i])
          /\ \A b \in Chain(new[i], gat) : b \in FatIndex /\ gat[b] # 0
      BY <2>2, <3>1 DEF ChainsIntact
    <3>3. ASSUME NEW j \in OnRootBlock \ {i}
          PROVE  Chain(new[i], gat) \cap Chain(new[j], gat) = {}
      <4>1. Chain(dir[i], fat) \cap Chain(dir[j], fat) = {}
        BY DEF ChainsIntact
      <4> QED
        BY <1>1, <1>2, <3>1, <4>1
    <3> QED
      BY <3>2, <3>3
  <2> QED
    BY <2>1, <2>2
<1> QED
  BY <1>3 DEF ChainsIntact

LEMMA SameOnRootChains ==
  ASSUME NEW dir, NEW root, SameOnRoot(dir, root), NEW fat
  PROVE  ChainsIntact(dir, fat) <=> ChainsIntact(root, fat)
  BY SameChains DEF SameOnRoot

LEMMA FillKeepsChains ==
  ASSUME NEW dir \in Dir, NEW fat, ChainsIntact(dir, fat), NEW n \in MaybeName
  PROVE  ChainsIntact(FillFree(dir, n), fat)
<1> DEFINE new == FillFree(dir, n)
<1>1. new \in Dir
  BY FillFreeType
<1>2. \A i \in EntryIndex : new[i] = IF dir[i].isEmpty THEN NewEntry(n) ELSE dir[i]
  BY DEF FillFree
<1> HIDE DEF new
<1>3. \A i \in OnRootBlock : new[i].file_size = 0 \/ new[i] = dir[i]
  BY <1>2, RootEntries DEF NewEntry
<1>4. \A i \in OnRootBlock : dir[i] \in Entry /\ new[i] \in Entry
  BY <1>1, RootEntries DEF Dir
<1> QED
  BY <1>3, <1>4, EmptyingKeepsChains DEF new

\* What fs_delete zeroes is in the chain of one entry of that name, and all
\* entries of that name are emptied.
LEMMA ClearKeepsChains ==
  ASSUME NEW dir \in Dir, NEW fat, ChainsIntact(dir, fat), NEW n,
         NEW victim \in Entry,
         WholeBlocks(victim) > 0 =>
            \E v \in OnRootBlock : dir[v].filename = n /\ victim = dir[v]
  PROVE  ChainsIntact(ClearMatches(dir, n),
                      FreeChain(fat, victim.file_first_index, WholeBlocks(victim)))
<1> DEFINE new == ClearMatches(dir, n)
           freed == Walked(fat, victim.file_first_index, WholeBlocks(victim))
           gat == FreeChain(fat, victim.file_first_index, WholeBlocks(victim))
<1>1. new \in Dir
  BY ClearMatchesType
<1>2. \A i \in OnRootBlock : dir[i] \in Entry /\ new[i] \in Entry
  BY <1>1, RootEntries DEF Dir
<1>3. ASSUME NEW i \in OnRootBlock, dir[i].filename = n
      PROVE  new[i].file_size = 0
  <2>1. i \in EntryIndex /\ dir[i] \in Entry
    BY <1>2, RootEntries
  <2> QED
    BY <1>3, <2>1 DEF ClearMatches, Entry
<1>4. ASSUME NEW i \in OnRootBlock, dir[i].filename # n
      PROVE  new[i] = dir[i]
  BY <1>4, RootEntries DEF ClearMatches
<1>5. \A b \in FatIndex : b \notin freed => gat[b] = fat[b]
  BY DEF FreeChain
<1>6. ASSUME NEW i \in OnRootBlock, dir[i].filename # n
      PROVE  freed \cap Chain(dir[i], fat) = {}
  <2>1. CASE WholeBlocks(victim) > 0
    <3>1. PICK v \in OnRootBlock : dir[v].filename = n /\ victim = dir[v]
      BY <2>1
    <3>2. freed \subseteq Chain(dir[v], fat)
      BY <3>1, FreedInChain
    <3>3. Chain(dir[v], fat) \cap Chain(dir[i], fat) = {}
      BY <1>6, <3>1 DEF ChainsIntact
    <3> QED
      BY <3>2, <3>3
  <2>2. CASE ~(WholeBlocks(victim) > 0)
    <3>1. WholeBlocks(victim) = 0
      BY <2>2, BlockCounts
    <3> QED
      BY <3>1 DEF Walked
  <2> QED
    BY <2>1, <2>2
<1>7. ASSUME NEW i \in OnRootBlock, dir[i].filename # n
      PROVE  \A b \in Chain(dir[i], fat) : gat[b] = fat[b]
  <2>1. \A b \in Chain(dir[i], fat) : b \in FatIndex
    BY DEF ChainsIntact
  <2> HIDE DEF freed, gat
  <2> QED
    BY <1>5, <1>6, <1>7, <2>1
<1> HIDE DEF new, gat
<1> QED
  BY <1>2, <1>3, <1>4, <1>7, EmptyingKeepsChains DEF new, gat
=============================================================================
