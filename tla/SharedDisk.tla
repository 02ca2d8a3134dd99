----------------------------- MODULE SharedDisk -----------------------------
(***************************************************************************)
(* Several processes on one image.  block_disk_open() takes no lock, so    *)
(* each process may mount the image while others have it mounted, edit a   *)
(* copy of its own and write that back, block by block, between the reads  *)
(* and writes of the others; any of them may be killed at any time.  A     *)
(* transfer of one block is one step.                                      *)
(***************************************************************************)
EXTENDS FsImages

CONSTANTS
    Procs,              \* the processes
    CreateNames,        \* the names callers pass to fs_create()
    DeleteNames,        \* and to fs_delete()
    Garbage,            \* what an uninitialised struct root_entry may hold
    Outset              \* the image before anyone opens it

ASSUME SharedDiskAssumption ==
    /\ CreateNames \subseteq Names /\ DeleteNames \subseteq Names
    /\ Garbage \subseteq Entry /\ Garbage # {}
    /\ Outset \in [fat : FatImage, root : RootImage]

VARIABLES
    image,              \* the FAT blocks and the root block on disk
    session,            \* what each process has of the library
    edited,             \* history: some process has changed its copy
    damaged             \* history: a write-back overlapped another's mount
                        \* or unmount or was cut off, or an undefined value
                        \* has decided something

sharedVars == <<image, session, edited, damaged>>

\* `at` says what the process is doing, `block` is the next block it transfers
\* (FatBlocks for the root block), and `alone` is history: no other process
\* has written since the unmount began.
Session == [at : {"idle", "mounting", "mounted", "saving"},
            block : 0 .. FatBlocks, fat : Fat, root : Dir, alone : BOOLEAN]

NoSession == [at |-> "idle", block |-> 0, fat |-> ZeroFat, root |-> ZeroDir,
              alone |-> FALSE]

SharedInit ==
    /\ image = Outset
    /\ session = [p \in Procs |-> NoSession]
    /\ edited = FALSE /\ damaged = FALSE

At(p, place) == session[p].at = place
OthersAt(p, place) == \E q \in Procs \ {p} : At(q, place)

\* The other sessions stay what they are.
Becomes(p, s) == session' = [session EXCEPT ![p] = s]

----------------------------------------------------------------------------
(* fs_mount.                                                               *)

\* The open; a disk that is open elsewhere is no reason to refuse.
BeginMount(p) ==
    /\ At(p, "idle")
    /\ Becomes(p, [NoSession EXCEPT !.at = "mounting"])
    /\ damaged' = (damaged \/ OthersAt(p, "saving"))
    /\ UNCHANGED <<image, edited>>

\* A FAT with block i read to where entry i is.
Overlaid(fat, i, block) ==
    [k \in FatIndex |-> IF k \in i .. i + PerBlock - 1 THEN block[k - i] ELSE fat[k]]

ReadFatBlock(p) ==
    LET i == session[p].block IN
    /\ At(p, "mounting") /\ i < FatBlocks
    /\ Becomes(p, [session[p] EXCEPT !.fat = Overlaid(@, i, image.fat[i]),
                                     !.block = i + 1])
    /\ UNCHANGED <<image, edited, damaged>>

ReadRoot(p) ==
    /\ At(p, "mounting") /\ session[p].block = FatBlocks
    /\ \E heap \in [EntryIndex -> Garbage] :
          Becomes(p, [session[p] EXCEPT !.root = LoadRoot(image.root, heap),
                                        !.at = "mounted"])
    /\ UNCHANGED <<image, edited, damaged>>

----------------------------------------------------------------------------
(* The calls that change the copy in memory.                               *)

fs_create(p, n) ==
    /\ At(p, "mounted")
    /\ Matches(session[p].root, n) = {} /\ FreeEntries(session[p].root) # {}
    /\ Becomes(p, [session[p] EXCEPT !.root = FillFree(@, n)])
    /\ edited' = TRUE
    /\ UNCHANGED <<image, damaged>>

fs_delete(p, n) ==
    /\ At(p, "mounted")
    /\ LET found == Matches(session[p].root, n) IN
       \E victim \in IF found = {} THEN Garbage ELSE {Victim(session[p].root, n)} :
          LET rounds == WholeBlocks(victim) IN
          /\ Becomes(p, [session[p] EXCEPT
                !.fat = FreeChain(@, victim.file_first_index, rounds),
                !.root = ClearMatches(@, n)])
          /\ damaged' = (damaged \/ Misled(session[p].root, n, rounds))
    /\ edited' = TRUE
    /\ UNCHANGED image

----------------------------------------------------------------------------
(* fs_umount.                                                              *)

BeginSave(p) ==
    /\ At(p, "mounted")
    /\ Becomes(p, [session[p] EXCEPT !.at = "saving", !.block = 0, !.alone = TRUE])
    /\ damaged' = (damaged \/ OthersAt(p, "saving") \/ OthersAt(p, "mounting"))
    /\ UNCHANGED <<image, edited>>

\* What the others know of a process that writes: nothing, but their unmounts
\* are no longer the only ones to write.
Disturbed(q) == [session[q] EXCEPT !.alone = FALSE]

\* An unmount that passes over the first block of the FAT.
WriteFatBlock_SkippingFirst(p) ==
    LET i == session[p].block IN
    /\ At(p, "saving") /\ i < FatBlocks
    /\ image' = IF i = 0 THEN image
                ELSE [image EXCEPT !.fat[i] = FatBlock(session[p].fat, i)]
    /\ session' = [q \in Procs |->
                      IF q = p THEN [session[p] EXCEPT !.block = i + 1] ELSE Disturbed(q)]
    /\ UNCHANGED <<edited, damaged>>

WriteFatBlock(p) ==
    LET i == session[p].block IN
    /\ At(p, "saving") /\ i < FatBlocks
    /\ image' = [image EXCEPT !.fat[i] = FatBlock(session[p].fat, i)]
    /\ session' = [q \in Procs |->
                      IF q = p THEN [session[p] EXCEPT !.block = i + 1] ELSE Disturbed(q)]
    /\ UNCHANGED <<edited, damaged>>

WriteRoot(p) ==
    /\ At(p, "saving") /\ session[p].block = FatBlocks
    /\ image' = [image EXCEPT !.root = RootBlock(session[p].root)]
    /\ session' = [q \in Procs |-> IF q = p THEN NoSession ELSE Disturbed(q)]
    /\ UNCHANGED <<edited, damaged>>

----------------------------------------------------------------------------
Kill(p) ==
    /\ ~At(p, "idle")
    /\ Becomes(p, NoSession)
    /\ damaged' = (damaged \/ (At(p, "saving") /\ session[p].block > 0))
    /\ UNCHANGED <<image, edited>>

SharedNext ==
    \E p \in Procs :
        \/ BeginMount(p)
        \/ ReadFatBlock(p)
        \/ ReadRoot(p)
        \/ \E n \in CreateNames : fs_create(p, n)
        \/ \E n \in DeleteNames : fs_delete(p, n)
        \/ BeginSave(p)
        \/ WriteFatBlock(p)
        \/ WriteRoot(p)
        \/ Kill(p)

SharedSpec == SharedInit /\ [][SharedNext]_sharedVars

----------------------------------------------------------------------------
\* The FAT a mount finds that no one disturbs.
FatNow == LoadFat(image.fat, {})
FatThen == LoadFat(Outset.fat, {})

\* Processes that do not edit may mount and unmount one image across each
\* other as they like and be killed at any point: although each unmount writes
\* all metadata, the FAT and the whole entries a mount finds stay as they were.
OverlappingLookersKeepDisk ==
    ~edited => /\ FatNow = FatThen
               /\ WholePart(image.root) = WholePart(Outset.root)

\* Where a file's data begins and how much there is of it; a deleted file and
\* a new one have none.
Extent(entry) == <<entry.file_size, entry.file_first_index>>
NoExtent == <<0, FAT_EOC>>

\* Whatever mixture of sessions the disk ends up with, and wherever they were
\* killed, a FAT entry is free or as it was at the outset, and a file has lost
\* its data or starts and ends where it did.  So blocks may be lost, a file cut
\* short or brought back, but no file gets blocks of another.
MixturesOnlyFree ==
    /\ \A k \in FatIndex : FatNow[k] \in {FatThen[k], 0}
    /\ \A i \in OnRootBlock :
          Extent(image.root[i]) \in {Extent(Outset.root[i]), NoExtent}

\* An unmount that gets to the root block and met no write of another process has
\* left its own copy on the disk, whatever mixture was there when it began.
UndisturbedSaveIsWhole ==
    [][\A p \in Procs :
         WriteRoot(p) /\ session[p].alone
         => /\ LoadFat(image'.fat, {}) = session[p].fat
            /\ WholePart(image'.root) = WholePart(session[p].root)]_sharedVars

\* As long as no write-back overlaps another process's mount or unmount, the
\* sessions themselves may overlap: edits are lost, the last unmount wins, but
\* every chain on the disk is whole whenever no one is writing.
SeparateTransfersKeepChains ==
    ~damaged /\ (\A p \in Procs : ~At(p, "saving"))
        => ChainsIntact(image.root, FatNow)
=============================================================================
