------------------------------ MODULE FsImages ------------------------------
(***************************************************************************)
(* What makes a FAT and a root directory whole, wherever they are kept.    *)
(***************************************************************************)
EXTENDS FsMetadata, FiniteSets

WholeEntries == 0 .. Whole - 1
WholePart(dir) == [i \in WholeEntries |-> dir[i]]
NamesOn(root) == {root[i].filename : i \in WholeEntries}

\* The blocks a file of this size occupies: rounded up.
OccupiedBlocks(entry) == (entry.file_size + BlockSize - 1) \div BlockSize

Chain(entry, fat) ==
    {Walk(fat, entry.file_first_index, OccupiedBlocks(entry))[k] :
        k \in 0 .. OccupiedBlocks(entry) - 1}

\* The chain has as many blocks as the size calls for, all inside the FAT and
\* none of them free, and no block belongs to two files.
ChainsIntact(dir, fat) ==
    \A i \in OnRootBlock :
        /\ Cardinality(Chain(dir[i], fat)) = OccupiedBlocks(dir[i])
        /\ \A b \in Chain(dir[i], fat) : b \in FatIndex /\ fat[b] # 0
        /\ \A j \in OnRootBlock \ {i} :
              Chain(dir[i], fat) \cap Chain(dir[j], fat) = {}
=============================================================================
