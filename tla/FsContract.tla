----------------------------- MODULE FsContract -----------------------------
(***************************************************************************)
(* What comments in fs.c promise of the metadata and the code does not     *)
(* keep.  Each property quotes the line it states; a run shows a behaviour *)
(* of Spec, without faults, that breaks it.                                *)
(***************************************************************************)
EXTENDS FsProperties

\* The call f(x) has just succeeded.
Succeeded(f, x) == ret'.call = f /\ ret'.arg = x /\ ret'.value >= 0

\* fs.c:319, fs_delete: "Follow block chain and remove data blocks from the
\* FAT": no block of the deleted file stays allocated.
DeleteFreesWholeChain ==
    [][\A n \in Names :
         /\ Mounted /\ ~damaged'
         /\ Succeeded("fs_delete", n) /\ Matches(root_dir, n) # {}
         => \A b \in Chain(Victim(root_dir, n), fat_blocks) :
                fat_blocks'[b] = 0]_vars

\* fs.c:186: "Write all root directory data out to the disk": the next mount
\* finds the entries as they were, whatever its heap holds.
RootSurvivesRemount ==
    [][writeback = FatBlocks /\ Succeeded("fs_umount", NoArg)
         => \A heap \in [EntryIndex -> Garbage] :
                LoadRoot(image'.root, heap) = root_dir]_vars

\* fs.c:165: "Go through the FAT blocks and store the data in the FAT array":
\* a successful mount has the entries of all blocks, in their order.
FatLoadedAsStored ==
    [][Succeeded("fs_mount", NoArg)
         => \A k \in FatIndex :
                fat_blocks'[k] = image'.fat[k \div PerBlock][k % PerBlock]]_vars
=============================================================================
