--------------------------- MODULE BlockDiskProofs ---------------------------
(***************************************************************************)
(* Proofs about the block device, for every set of files, block size and   *)
(* fault.                                                                  *)
(***************************************************************************)
EXTENDS BlockDisk, WellFoundedInduction, TLAPS

\* The whole of the last answer, and the file behind the open disk.
AnswerIsWhole ==
    answer = [call |-> answer.call, block |-> answer.block,
              data |-> answer.data, value |-> answer.value]
OpenIsFile == IsOpen => host[disk.fd] \in DOMAIN files

DiskInv ==
    DiskTypeOK /\ AnswerIsWhole /\ OpenIsFile /\ DescriptorsAccounted /\ CountIsImage

LEMMA DiskParameters ==
  /\ BlockSize \in Nat /\ BlockSize > 0 /\ MaxBlocks \in Nat
  /\ HostFds \subseteq Nat /\ INVALID_FD \notin HostFds
  /\ NoPath \notin Paths /\ 0 \in Values
  /\ NoBuffer \in Buffer
  BY BlockDiskAssumption DEF INVALID_FD, NoBuffer, Buffer

Below == {ss \in Nat \X Nat : ss[1] < ss[2]}

LEMMA BelowIsWellFounded == IsWellFoundedOn(Below, Nat)
  BY NatLessThanWellFounded DEF OpToRel, Below

\* The descriptor the host grants is the least of those not in use.
LEMMA GrantIsFree ==
  ASSUME Granted # {}
  PROVE  Min(Granted) \in Granted /\ Min(Granted) \in HostFds /\ Min(Granted) # INVALID_FD
<1>1. Granted \subseteq Nat /\ Granted \subseteq HostFds
  BY DiskParameters DEF Granted
<1>2. PICK least \in Granted :
         \A y \in Granted : <<y, least>> \notin Below
  BY <1>1, BelowIsWellFounded, WFMin
<1>3. ASSUME NEW y \in Granted
      PROVE  least <= y
  <2>1. y \in Nat /\ least \in Nat
    BY <1>1
  <2>2. ~(y < least)
    BY <1>2, <2>1 DEF Below
  <2> QED
    BY <2>1, <2>2
<1>4. Min(Granted) \in Granted
  BY <1>3 DEF Min
<1> QED
  BY <1>1, <1>4, DiskParameters

LEMMA LargerOfTwo ==
  ASSUME NEW a \in Int, NEW b \in Int
  PROVE  Max({a, b}) = IF a < b THEN b ELSE a
<1> DEFINE larger == IF a < b THEN b ELSE a
<1>1. larger \in {a, b} /\ \A y \in {a, b} : larger >= y
  OBVIOUS
<1>2. \A x \in {a, b} : (\A y \in {a, b} : x >= y) => x = larger
  OBVIOUS
<1> HIDE DEF larger
<1>3. Max({a, b}) = larger
  BY <1>1, <1>2 DEF Max
<1> QED
  BY <1>3 DEF larger

\* The places of a block's units.
LEMMA PlaceIsInt ==
  ASSUME NEW block \in Nat
  PROVE  /\ Place(block, 0) \in Nat
         /\ \A u \in Int : Place(block, u) = Place(block, 0) + u
<1>1. block * BlockSize \in Nat
  BY DiskParameters
<1> QED
  BY <1>1 DEF Place

LEMMA BlocksAreCounted ==
  ASSUME NEW file \in Seq(Values)
  PROVE  Len(file) \in Nat /\ BlocksOf(file) \in Nat
  BY DiskParameters DEF BlocksOf

\* What a write leaves: a file at least as long, the block's places changed and
\* no other.
LEMMA StoredFile ==
  ASSUME NEW file \in Seq(Values), NEW block \in Nat, NEW data \in Buffer,
         NEW m \in 1 .. BlockSize
  PROVE  /\ Stored(file, block, data, m) \in Seq(Values)
         /\ Len(Stored(file, block, data, m)) =
                IF Len(file) < Place(block, m) THEN Place(block, m) ELSE Len(file)
         /\ \A k \in 1 .. Len(file) :
               k \notin Place(block, 1) .. Place(block, BlockSize)
                 => Stored(file, block, data, m)[k] = file[k]
<1> DEFINE size == Max({Len(file), Place(block, m)})
           unit(k) == IF k \in Place(block, 1) .. Place(block, m)
                      THEN data[k - Place(block, 0)]
                      ELSE IF k <= Len(file) THEN file[k] ELSE 0
<1>1. m \in Int /\ 1 <= m /\ m <= BlockSize /\ BlockSize \in Int
  BY DiskParameters
<1>2. Len(file) \in Nat
  OBVIOUS
<1>3. /\ Place(block, 0) \in Int /\ Place(block, 0) >= 0
      /\ Place(block, 1) = Place(block, 0) + 1
      /\ Place(block, m) = Place(block, 0) + m
      /\ Place(block, BlockSize) = Place(block, 0) + BlockSize
  <2>1. Place(block, 0) \in Nat
    BY PlaceIsInt
  <2>2. \A u \in Int : Place(block, u) = Place(block, 0) + u
    BY PlaceIsInt
  <2>3. 1 \in Int
    OBVIOUS
  <2> QED
    BY <1>1, <2>1, <2>2, <2>3
<1>4. size = IF Len(file) < Place(block, m) THEN Place(block, m) ELSE Len(file)
  BY <1>1, <1>2, <1>3, LargerOfTwo
<1>5. size \in Nat /\ size >= Len(file)
  BY <1>1, <1>2, <1>3, <1>4
<1>6. Stored(file, block, data, m) = [k \in 1 .. size |-> unit(k)]
  BY DEF Stored
<1>7. ASSUME NEW k \in 1 .. size
      PROVE  unit(k) \in Values
  <2>1. CASE k \in Place(block, 1) .. Place(block, m)
    <3>1. k - Place(block, 0) \in 1 .. BlockSize
      BY <1>1, <1>3, <2>1
    <3> QED
      BY <2>1, <3>1 DEF Buffer
  <2>2. CASE k \notin Place(block, 1) .. Place(block, m)
    BY <1>2, <1>5, <2>2, DiskParameters
  <2> QED
    BY <2>1, <2>2
<1> HIDE DEF size
<1>8. ASSUME NEW k \in 1 .. Len(file), k \notin Place(block, 1) .. Place(block, BlockSize)
      PROVE  unit(k) = file[k]
  BY <1>1, <1>2, <1>3, <1>8
<1> HIDE DEF unit
<1>9. Stored(file, block, data, m) \in Seq(Values)
      /\ Len(Stored(file, block, data, m)) = size
  BY <1>5, <1>6, <1>7
<1>10. \A k \in 1 .. Len(file) : k \in 1 .. size
  BY <1>2, <1>5
<1> QED
  BY <1>4, <1>6, <1>8, <1>9, <1>10

LEMMA FetchedIsBuffer ==
  ASSUME NEW file \in Seq(Values), NEW block \in Nat, NEW before \in Buffer
  PROVE  Fetched(file, block, before) \in Buffer
<1>1. ASSUME NEW u \in 1 .. BlockSize, Place(block, u) <= Len(file)
      PROVE  file[Place(block, u)] \in Values
  <2>1. u \in Int /\ u >= 1
    BY DiskParameters
  <2>2. Place(block, u) \in Int /\ Place(block, u) >= 1
    <3>1. Place(block, 0) \in Nat
      BY PlaceIsInt
    <3>2. Place(block, u) = Place(block, 0) + u
      BY <2>1, PlaceIsInt
    <3> QED
      BY <2>1, <3>1, <3>2
  <2>3. Place(block, u) \in 1 .. Len(file)
    BY <1>1, <2>2
  <2> QED
    BY <2>3
<1> QED
  BY <1>1 DEF Fetched, Buffer

\* A block before the last ends inside a file of whole blocks.
LEMMA BlockFits ==
  ASSUME NEW n \in Nat, NEW b \in Nat \ {0}, n % b = 0,
         NEW block \in Nat, block < n \div b
  PROVE  block * b + b <= n
<1> DEFINE q == n \div b
<1>1. q \in Nat /\ n = b * q
  BY Z3
<1> HIDE DEF q
<1>2. block + 1 <= q
  BY <1>1 DEF q
<1>3. (block + 1) * b <= q * b
  BY <1>1, <1>2
<1> QED
  BY <1>1, <1>3

----------------------------------------------------------------------------
LEMMA AnswersWhole ==
  ASSUME NEW call, NEW block, NEW data \in Buffer, NEW value \in Int,
         Answers(call, block, data, value)
  PROVE  AnswerIsWhole' /\ answer'.data \in Buffer /\ answer'.value \in Int
  BY DEF Answers, AnswerIsWhole

LEMMA DiskInvInit == DiskInit => DiskInv
<1> SUFFICES ASSUME DiskInit
             PROVE  DiskInv
  OBVIOUS
<1>1. DOMAIN Outset \subseteq Paths /\ \A p \in DOMAIN Outset : Outset[p] \in Seq(Values)
  BY BlockDiskAssumption
<1>2. AnswerIsWhole /\ answer.data \in Buffer /\ answer.value \in Int
  BY DiskParameters DEF DiskInit, AnswerIsWhole, Buffer
<1>3. ~IsOpen /\ Granted = HostFds
  BY DiskParameters DEF DiskInit, IsOpen, Granted
<1>4. DiskTypeOK
  BY <1>1, <1>2, DiskParameters DEF DiskInit, DiskTypeOK
<1> QED
  BY <1>2, <1>3, <1>4 DEF DiskInit, DiskInv, OpenIsFile, DescriptorsAccounted, CountIsImage

\* A call that only answers.
LEMMA InvAtAnswer ==
  ASSUME DiskInv, UNCHANGED <<files, disk, host, leaked, replaced>>,
         AnswerIsWhole' /\ answer'.data \in Buffer /\ answer'.value \in Int
  PROVE  DiskInv'
<1>1. UNCHANGED <<IsOpen, Granted, OpenImage>>
  BY DEF IsOpen, Granted, OpenImage
<1> QED
  BY <1>1 DEF DiskInv, DiskTypeOK, OpenIsFile, DescriptorsAccounted, CountIsImage

LEMMA InvAtSays ==
  ASSUME DiskInv, NEW call, NEW value \in Int, Says(call, value)
  PROVE  DiskInv'
  BY AnswersWhole, InvAtAnswer, DiskParameters DEF Says

LEMMA InvAtOpen ==
  ASSUME DiskInv, NEW p \in Paths \cup {NoPath}, block_disk_open(p)
  PROVE  DiskInv'
<1>1. CASE OpenRefused(p)
  BY <1>1, InvAtSays DEF block_disk_open
<1>2. CASE ~OpenRefused(p)
  <2> DEFINE fd == Min(Granted)
  <2>1. p \in DOMAIN files /\ p \in Paths /\ p # NoPath /\ Granted # {} /\ ~IsOpen
        /\ disk.fd = INVALID_FD
    BY <1>2, DiskParameters, BlockDiskAssumption DEF OpenRefused, DiskInv, DiskTypeOK, IsOpen
  <2>2. fd \in Granted /\ fd \in HostFds /\ fd # INVALID_FD
    BY <2>1, GrantIsFree
  <2> HIDE DEF fd
  <2>3. host' = [host EXCEPT ![fd] = p] /\ files' = files
    BY <1>2 DEF block_disk_open, Says, fd
  <2>4. host' \in [HostFds -> Paths \cup {NoPath}] /\ host'[fd] = p
    BY <2>1, <2>2, <2>3 DEF DiskInv, DiskTypeOK
  <2>5. HostFds \ Granted' = (HostFds \ Granted) \cup {fd} /\ fd \notin HostFds \ Granted
    BY <2>1, <2>2, <2>3 DEF Granted, DiskInv, DiskTypeOK
  <2>6. HostFds \ Granted = leaked
    BY <2>1 DEF DiskInv, DescriptorsAccounted
  <2>7. CASE /\ leaked' = leaked \cup {fd}
             /\ Answers("block_disk_open", 0, NoBuffer, -1)
             /\ UNCHANGED <<disk, replaced>>
    <3>1. AnswerIsWhole' /\ answer'.data \in Buffer /\ answer'.value \in Int
      BY <2>7, AnswersWhole, DiskParameters
    <3>2. ~IsOpen' /\ disk'.fd = INVALID_FD
      BY <2>1, <2>7 DEF IsOpen
    <3>3. DiskTypeOK'
      BY <2>2, <2>3, <2>4, <2>7, <3>1 DEF DiskInv, DiskTypeOK
    <3>4. INVALID_FD \notin leaked'
      BY <2>2, <2>7, DiskParameters DEF DiskInv, DiskTypeOK
    <3>5. DescriptorsAccounted'
      BY <2>5, <2>6, <2>7, <3>2, <3>4 DEF DescriptorsAccounted
    <3> QED
      BY <3>1, <3>2, <3>3, <3>5 DEF DiskInv, OpenIsFile, CountIsImage
  <2>8. CASE /\ Aligned(files[p])
             /\ disk' = [fd |-> fd, bcount |-> BlocksOf(files[p])]
             /\ replaced' = FALSE
             /\ Answers("block_disk_open", 0, NoBuffer, 0)
             /\ UNCHANGED leaked
    <3>1. AnswerIsWhole' /\ answer'.data \in Buffer /\ answer'.value \in Int
      BY <2>8, AnswersWhole, DiskParameters
    <3>2. disk'.fd = fd /\ disk'.bcount = BlocksOf(files[p])
      BY <2>8
    <3>3. OpenImage' = files[p] /\ host'[disk'.fd] = p
      BY <2>3, <2>4, <3>2 DEF OpenImage
    <3>4. DiskTypeOK'
      <4>1. BlocksOf(files[p]) \in Nat
        BY <2>1, BlocksAreCounted DEF DiskInv, DiskTypeOK
      <4> QED
        BY <2>2, <2>3, <2>4, <2>8, <3>1, <4>1 DEF DiskInv, DiskTypeOK
    <3>5. DescriptorsAccounted'
      BY <2>2, <2>5, <2>6, <2>8, <3>2 DEF DescriptorsAccounted
    <3>6. OpenIsFile' /\ CountIsImage'
      BY <2>1, <2>3, <2>8, <3>2, <3>3 DEF OpenIsFile, CountIsImage
    <3> QED
      BY <3>1, <3>4, <3>5, <3>6 DEF DiskInv
  <2> QED
    BY <1>2, <2>7, <2>8 DEF block_disk_open, Says, fd
<1> QED
  BY <1>1, <1>2

LEMMA InvAtClose ==
  ASSUME DiskInv, block_disk_close
  PROVE  DiskInv'
<1>1. CASE ~IsOpen
  BY <1>1, InvAtSays DEF block_disk_close
<1>2. CASE IsOpen
  <2>1. /\ host' = [host EXCEPT ![disk.fd] = NoPath]
        /\ disk' = [disk EXCEPT !.fd = INVALID_FD]
        /\ Answers("block_disk_close", 0, NoBuffer, 0)
        /\ UNCHANGED <<files, leaked, replaced>>
    BY <1>2, DiskParameters DEF block_disk_close, Says
  <2>2. AnswerIsWhole' /\ answer'.data \in Buffer /\ answer'.value \in Int
    BY <2>1, AnswersWhole, DiskParameters
  <2>3. disk.fd \in HostFds /\ disk'.fd = INVALID_FD /\ ~IsOpen'
    BY <1>2, <2>1 DEF IsOpen, DiskInv, DiskTypeOK
  <2>4. DiskTypeOK'
    BY <2>1, <2>2 DEF DiskInv, DiskTypeOK
  <2>5. HostFds \ Granted' = (HostFds \ Granted) \ {disk.fd}
    BY <2>1, <2>3 DEF Granted, DiskInv, DiskTypeOK
  <2>6. HostFds \ Granted' = leaked' /\ INVALID_FD \notin leaked'
    BY <2>1, <2>3, <2>5, DiskParameters DEF DiskInv, DiskTypeOK, DescriptorsAccounted
  <2>7. DescriptorsAccounted'
    BY <2>3, <2>6 DEF DescriptorsAccounted
  <2> QED
    BY <2>2, <2>3, <2>4, <2>7 DEF DiskInv, OpenIsFile, CountIsImage
<1> QED
  BY <1>1, <1>2

\* What a write that goes ahead does to the open image.
LEMMA WriteStores ==
  ASSUME DiskInv, NEW block \in 0 .. MaxBlocks, NEW data \in Buffer,
         block_write(block, data), files' # files
  PROVE  /\ InBounds(block) /\ IsOpen /\ block \in Nat
         /\ host[disk.fd] \in DOMAIN files /\ OpenImage \in Seq(Values)
         /\ \E m \in 1 .. BlockSize :
               files' = [files EXCEPT ![host[disk.fd]] =
                            Stored(OpenImage, block, data, m)]
         /\ Answers("block_write", block, data, 0)
         /\ UNCHANGED <<disk, host, leaked, replaced>>
<1>1. /\ InBounds(block)
      /\ \E m \in IF "short" \in Faults THEN 1 .. BlockSize ELSE {BlockSize} :
            files' = [files EXCEPT ![host[disk.fd]] = Stored(@, block, data, m)]
      /\ Answers("block_write", block, data, 0)
      /\ UNCHANGED <<disk, host, leaked, replaced>>
  BY DEF block_write
<1>2. BlockSize \in 1 .. BlockSize
  BY DiskParameters
<1>3. IsOpen /\ host[disk.fd] \in DOMAIN files /\ OpenImage \in Seq(Values)
  BY <1>1 DEF InBounds, DiskInv, OpenIsFile, DiskTypeOK, OpenImage
<1>4. block \in Nat
  BY DiskParameters
<1> QED
  BY <1>1, <1>2, <1>3, <1>4 DEF OpenImage

LEMMA InvAtWrite ==
  ASSUME DiskInv, NEW block \in 0 .. MaxBlocks, NEW data \in Buffer,
         block_write(block, data)
  PROVE  DiskInv'
<1>0. block \in Int
  OBVIOUS
<1>1. CASE files' = files
  <2>1. UNCHANGED <<files, disk, host, leaked, replaced>>
    BY <1>1 DEF block_write
  <2>2. AnswerIsWhole' /\ answer'.data \in Buffer /\ answer'.value \in Int
    BY <1>0, AnswersWhole DEF block_write
  <2> QED
    BY <2>1, <2>2, InvAtAnswer
<1>2. CASE files' # files
  <2>1. /\ InBounds(block) /\ IsOpen /\ block \in Nat
        /\ host[disk.fd] \in DOMAIN files /\ OpenImage \in Seq(Values)
        /\ Answers("block_write", block, data, 0)
        /\ UNCHANGED <<disk, host, leaked, replaced>>
    BY <1>2, WriteStores
  <2>2. PICK m \in 1 .. BlockSize :
           files' = [files EXCEPT ![host[disk.fd]] = Stored(OpenImage, block, data, m)]
    BY <1>2, WriteStores
  <2>3. AnswerIsWhole' /\ answer'.data \in Buffer /\ answer'.value \in Int
    BY <1>0, <2>1, AnswersWhole
  <2>4. /\ Stored(OpenImage, block, data, m) \in Seq(Values)
        /\ Len(Stored(OpenImage, block, data, m)) =
              IF Len(OpenImage) < Place(block, m) THEN Place(block, m) ELSE Len(OpenImage)
    BY <2>1, StoredFile
  <2>5. DiskTypeOK'
    BY <2>1, <2>2, <2>3, <2>4 DEF DiskInv, DiskTypeOK
  <2>6. OpenImage' = Stored(OpenImage, block, data, m) /\ UNCHANGED <<IsOpen, Granted>>
    BY <2>1, <2>2 DEF OpenImage, IsOpen, Granted
  <2>7. ASSUME ~replaced
        PROVE  Len(OpenImage') = Len(OpenImage)
    <3>1. Aligned(OpenImage) /\ disk.bcount = BlocksOf(OpenImage)
      BY <2>1, <2>7 DEF DiskInv, CountIsImage
    <3>2. Len(OpenImage) \in Nat /\ block < Len(OpenImage) \div BlockSize
          /\ Len(OpenImage) % BlockSize = 0 /\ BlockSize \in Nat \ {0}
      BY <2>1, <3>1, DiskParameters DEF InBounds, Aligned, BlocksOf
    <3>3. block * BlockSize + BlockSize <= Len(OpenImage)
      BY <2>1, <3>2, BlockFits
    <3>4. block * BlockSize \in Nat /\ m \in Nat /\ m <= BlockSize
      BY <2>1, DiskParameters
    <3>5. ~(Len(OpenImage) < Place(block, m))
      BY <3>2, <3>3, <3>4 DEF Place
    <3> QED
      BY <2>4, <2>6, <3>5
  <2>8. CountIsImage'
    BY <2>1, <2>6, <2>7 DEF DiskInv, CountIsImage, Aligned, BlocksOf
  <2>9. OpenIsFile' /\ DescriptorsAccounted'
    BY <2>1, <2>2, <2>6 DEF DiskInv, OpenIsFile, DescriptorsAccounted
  <2> QED
    BY <2>3, <2>5, <2>8, <2>9 DEF DiskInv
<1> QED
  BY <1>1, <1>2

LEMMA InvAtRead ==
  ASSUME DiskInv, NEW block \in 0 .. MaxBlocks, NEW before \in Buffer,
         block_read(block, before)
  PROVE  DiskInv'
<1>1. UNCHANGED <<files, disk, host, leaked, replaced>> /\ block \in Int
  BY DEF block_read
<1>2. CASE Answers("block_read", block, before, -1)
  BY <1>1, <1>2, AnswersWhole, InvAtAnswer
<1>3. CASE InBounds(block) /\ Answers("block_read", block, Fetched(OpenImage, block, before), 0)
  <2>1. OpenImage \in Seq(Values) /\ block \in Nat
    BY <1>3 DEF InBounds, DiskInv, DiskTypeOK, OpenIsFile, OpenImage
  <2>2. Fetched(OpenImage, block, before) \in Buffer
    BY <2>1, FetchedIsBuffer
  <2> QED
    BY <1>1, <1>3, <2>2, AnswersWhole, InvAtAnswer
<1> QED
  BY <1>2, <1>3 DEF block_read

LEMMA InvAtReplaced ==
  ASSUME DiskInv, NEW p \in Paths, ImageReplaced(p)
  PROVE  DiskInv'
<1>1. PICK file \in Replacements : files' = [files EXCEPT ![p] = file]
  BY DEF ImageReplaced
<1>2. /\ replaced' = (replaced \/ (IsOpen /\ p = host[disk.fd]))
      /\ answer' = [answer EXCEPT !.call = "none"]
      /\ UNCHANGED <<disk, host, leaked>> /\ p \in DOMAIN files
  BY DEF ImageReplaced
<1>3. AnswerIsWhole' /\ answer'.data \in Buffer /\ answer'.value \in Int
  BY <1>2 DEF DiskInv, DiskTypeOK, AnswerIsWhole
<1>4. file \in Seq(Values)
  BY BlockDiskAssumption
<1>5. UNCHANGED <<IsOpen, Granted>> /\ DOMAIN files' = DOMAIN files
  BY <1>1, <1>2 DEF IsOpen, Granted
<1>6. DiskTypeOK'
  BY <1>1, <1>2, <1>3, <1>4 DEF DiskInv, DiskTypeOK
<1>7. ASSUME IsOpen, ~replaced'
      PROVE  OpenImage' = OpenImage /\ ~replaced
  BY <1>1, <1>2, <1>7 DEF OpenImage, DiskInv, OpenIsFile
<1>8. CountIsImage'
  BY <1>2, <1>5, <1>7 DEF DiskInv, CountIsImage
<1>9. OpenIsFile' /\ DescriptorsAccounted'
  BY <1>2, <1>5 DEF DiskInv, OpenIsFile, DescriptorsAccounted
<1> QED
  BY <1>3, <1>6, <1>8, <1>9 DEF DiskInv

LEMMA InvAtEnd ==
  ASSUME DiskInv, DiskProcessEnds
  PROVE  DiskInv'
<1>1. AnswerIsWhole' /\ answer'.data \in Buffer /\ answer'.value \in Int
  BY AnswersWhole, DiskParameters DEF DiskProcessEnds
<1>2. ~IsOpen' /\ Granted' = HostFds
  BY DEF DiskProcessEnds, IsOpen, Granted
<1>3. DiskTypeOK'
  BY <1>1 DEF DiskProcessEnds, DiskInv, DiskTypeOK
<1> QED
  BY <1>1, <1>2, <1>3 DEF DiskProcessEnds, DiskInv, OpenIsFile, DescriptorsAccounted, CountIsImage

LEMMA DiskInvStep == DiskInv /\ [DiskNext]_diskVars => DiskInv'
<1> SUFFICES ASSUME DiskInv, [DiskNext]_diskVars
             PROVE  DiskInv'
  OBVIOUS
<1>1. CASE UNCHANGED diskVars
  <2>1. AnswerIsWhole' /\ answer'.data \in Buffer /\ answer'.value \in Int
    BY <1>1 DEF diskVars, DiskInv, DiskTypeOK, AnswerIsWhole
  <2> QED
    BY <1>1, <2>1, InvAtAnswer DEF diskVars
<1>2. CASE \E p \in Paths \cup {NoPath} : block_disk_open(p)
  BY <1>2, InvAtOpen
<1>3. CASE block_disk_close
  BY <1>3, InvAtClose
<1>4. CASE block_disk_count
  <2>1. (IF IsOpen THEN disk.bcount ELSE -1) \in Int
    BY DEF DiskInv, DiskTypeOK
  <2> QED
    BY <1>4, <2>1, InvAtSays DEF block_disk_count
<1>5. CASE \E block \in 0 .. MaxBlocks, data \in Buffer : block_write(block, data)
  BY <1>5, InvAtWrite
<1>6. CASE \E block \in 0 .. MaxBlocks, before \in Buffer : block_read(block, before)
  BY <1>6, InvAtRead
<1>7. CASE \E p \in Paths : ImageReplaced(p)
  BY <1>7, InvAtReplaced
<1>8. CASE DiskProcessEnds
  BY <1>8, InvAtEnd
<1> QED
  BY <1>1, <1>2, <1>3, <1>4, <1>5, <1>6, <1>7, <1>8 DEF DiskNext

LEMMA DiskInvHolds == DiskSpec => []DiskInv
<1> QED
  BY DiskInvInit, DiskInvStep, PTL DEF DiskSpec

\* block_disk_open(), block_disk_close(), block_write() and block_read() keep
\* the device's types, and no call creates or removes a file.
THEOREM DiskTypeOKHolds == DiskSpec => []DiskTypeOK
<1>1. DiskInv => DiskTypeOK
  BY DEF DiskInv
<1> QED
  BY <1>1, DiskInvHolds, PTL

\* However many opens fail, the host's descriptors in use are the open disk's
\* and the lost ones.
THEOREM DescriptorsAccountedHolds == DiskSpec => []DescriptorsAccounted
<1>1. DiskInv => DescriptorsAccounted
  BY DEF DiskInv
<1> QED
  BY <1>1, DiskInvHolds, PTL

\* The block count block_disk_open() took stays that of the file as long as
\* no other process replaces it: block_write() never makes it longer.
THEOREM CountIsImageHolds == DiskSpec => []CountIsImage
<1>1. DiskInv => CountIsImage
  BY DEF DiskInv
<1> QED
  BY <1>1, DiskInvHolds, PTL

\* A unit that a step of block_write() changes or loses.
LEMMA ChangedIsInBlock ==
  ASSUME DiskInv, NEW block \in 0 .. MaxBlocks, NEW data \in Buffer,
         block_write(block, data),
         NEW p \in DOMAIN files, NEW k \in 1 .. MaxBlocks * BlockSize,
         k <= Len(files[p]), k > Len(files'[p]) \/ files'[p][k] # files[p][k]
  PROVE  /\ IsOpen /\ p = host[disk.fd] /\ answer'.value = 0
         /\ k \in Place(answer'.block, 1) .. Place(answer'.block, BlockSize)
<1>0. files[p] \in Seq(Values) /\ Len(files[p]) \in Nat /\ k \in Nat /\ k >= 1
  BY DiskParameters DEF DiskInv, DiskTypeOK
<1>1. files' # files
  BY <1>0
<1>2. /\ IsOpen /\ block \in Nat
      /\ host[disk.fd] \in DOMAIN files /\ OpenImage \in Seq(Values)
      /\ Answers("block_write", block, data, 0)
  BY <1>1, WriteStores
<1>3. PICK m \in 1 .. BlockSize :
         files' = [files EXCEPT ![host[disk.fd]] = Stored(OpenImage, block, data, m)]
  BY <1>1, WriteStores
<1>4. answer'.value = 0 /\ answer'.block = block
  BY <1>2 DEF Answers
<1>5. p = host[disk.fd] /\ files[p] = OpenImage
      /\ files'[p] = Stored(OpenImage, block, data, m)
  BY <1>0, <1>2, <1>3 DEF OpenImage
<1>6. /\ Len(files'[p]) = IF Len(OpenImage) < Place(block, m) THEN Place(block, m)
                          ELSE Len(OpenImage)
      /\ \A j \in 1 .. Len(OpenImage) :
            j \notin Place(block, 1) .. Place(block, BlockSize)
              => files'[p][j] = OpenImage[j]
  BY <1>2, <1>5, StoredFile
<1>7. Place(block, m) \in Int
  <2>1. block * BlockSize \in Nat /\ m \in Nat
    BY <1>2, DiskParameters
  <2> QED
    BY <2>1 DEF Place
<1>8. k <= Len(files'[p]) /\ k \in 1 .. Len(OpenImage)
  BY <1>0, <1>5, <1>6, <1>7
<1>9. k \in Place(block, 1) .. Place(block, BlockSize)
  BY <1>0, <1>5, <1>6, <1>8
<1> QED
  BY <1>2, <1>4, <1>5, <1>9

LEMMA OnlyWritesAnswerAsWrites ==
  ASSUME DiskInv, DiskNext, answer'.call = "block_write"
  PROVE  \E block \in 0 .. MaxBlocks, data \in Buffer : block_write(block, data)
<1>1. ASSUME NEW p \in Paths \cup {NoPath}, block_disk_open(p)
      PROVE  answer'.call = "block_disk_open"
  BY <1>1 DEF block_disk_open, Says, Answers
<1>2. block_disk_close => answer'.call = "block_disk_close"
  BY DEF block_disk_close, Says, Answers
<1>3. block_disk_count => answer'.call = "block_disk_count"
  BY DEF block_disk_count, Says, Answers
<1>4. ASSUME NEW block \in 0 .. MaxBlocks, NEW before \in Buffer, block_read(block, before)
      PROVE  answer'.call = "block_read"
  BY <1>4 DEF block_read, Answers
<1>5. ASSUME NEW p \in Paths, ImageReplaced(p)
      PROVE  answer'.call = "none"
  BY <1>5 DEF ImageReplaced, DiskInv, AnswerIsWhole
<1>6. DiskProcessEnds => answer'.call = "none"
  BY DEF DiskProcessEnds, Answers
<1> QED
  BY <1>1, <1>2, <1>3, <1>4, <1>5, <1>6 DEF DiskNext

\* Whatever another process does to the image, block_write() changes and
\* removes no unit outside its block, and none of another file: the arithmetic
\* of its seek agrees with the count its test was made with.
THEOREM WritesStayInBlockHolds == DiskSpec => WritesStayInBlock
<1> DEFINE stays ==
      answer'.call = "block_write" =>
         \A p \in DOMAIN files, k \in 1 .. MaxBlocks * BlockSize :
            k <= Len(files[p]) /\ (k > Len(files'[p]) \/ files'[p][k] # files[p][k])
              => /\ IsOpen /\ p = host[disk.fd] /\ answer'.value = 0
                 /\ k \in Place(answer'.block, 1) .. Place(answer'.block, BlockSize)
<1>1. DiskInv /\ [DiskNext]_diskVars => [stays]_diskVars
  <2> SUFFICES ASSUME DiskInv, DiskNext, answer'.call = "block_write"
               PROVE  stays
    OBVIOUS
  <2>1. PICK block \in 0 .. MaxBlocks, data \in Buffer : block_write(block, data)
    BY OnlyWritesAnswerAsWrites
  <2> QED
    BY <2>1, ChangedIsInBlock
<1>2. DiskSpec => [][stays]_diskVars
  BY <1>1, DiskInvHolds, PTL DEF DiskSpec
<1> QED
  BY <1>2 DEF WritesStayInBlock
=============================================================================
