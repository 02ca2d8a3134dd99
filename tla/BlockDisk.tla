------------------------------ MODULE BlockDisk ------------------------------
(***************************************************************************)
(* The block device of src/libfs/disk.c: one process, one disk open at a   *)
(* time, the host's files underneath and the host's descriptors in short   *)
(* supply.  A file is a sequence of units and a block is BlockSize of      *)
(* them, so that a file may end in the middle of a block and a transfer    *)
(* may stop there.                                                         *)
(***************************************************************************)
EXTENDS Integers, Sequences, FiniteSetsExt

CONSTANTS
    Paths,              \* the names block_disk_open() is called with
    NoPath,             \* a null pointer, and a host descriptor not in use
    Values,             \* contents of a unit; 0 is what a hole reads as
    BlockSize,          \* units in a block
    MaxBlocks,          \* callers pass block indices up to this one
    HostFds,            \* the descriptors the host grants the process
    Outset,             \* the host's files before the process starts
    Replacements,       \* what another process may replace an image by
    Faults              \* a subset of FaultKinds

\* "io": the host refuses a seek, read or write; "short": a write stops early;
\* "outside": another process replaces an image.
FaultKinds == {"io", "short", "outside"}

INVALID_FD == -1

ASSUME BlockDiskAssumption ==
    /\ NoPath \notin Paths
    /\ 0 \in Values
    /\ BlockSize \in Nat \ {0} /\ MaxBlocks \in Nat
    /\ HostFds \subseteq Nat /\ IsFiniteSet(HostFds)
    /\ DOMAIN Outset \subseteq Paths
    /\ \A p \in DOMAIN Outset : Outset[p] \in Seq(Values)
    /\ Replacements \subseteq Seq(Values)
    /\ Faults \subseteq FaultKinds

VARIABLES
    files,              \* the host's files, units by path
    disk,               \* the static struct disk: fd and bcount
    host,               \* the file behind each host descriptor, or NoPath
    leaked,             \* history: descriptors a failed open left behind
    replaced,           \* history: the open image has been replaced
    answer              \* the last call, its arguments and what came back

diskVars == <<files, disk, host, leaked, replaced, answer>>

Buffer == [1 .. BlockSize -> Values]
NoBuffer == [u \in 1 .. BlockSize |-> 0]

Answers(call, block, data, value) ==
    answer' = [call |-> call, block |-> block, data |-> data, value |-> value]
Says(call, value) ==
    /\ Answers(call, 0, NoBuffer, value)
    /\ UNCHANGED <<files, disk, host, leaked, replaced>>

DiskInit ==
    /\ files = Outset
    /\ disk = [fd |-> INVALID_FD, bcount |-> 0]
    /\ host = [fd \in HostFds |-> NoPath]
    /\ leaked = {} /\ replaced = FALSE
    /\ answer = [call |-> "none", block |-> 0, data |-> NoBuffer, value |-> 0]

IsOpen == disk.fd # INVALID_FD
Granted == {fd \in HostFds : host[fd] = NoPath}
OpenImage == files[host[disk.fd]]

Aligned(file) == Len(file) % BlockSize = 0
BlocksOf(file) == Len(file) \div BlockSize

\* The place of unit u of a block in the file.
Place(block, u) == block * BlockSize + u

----------------------------------------------------------------------------
OpenRefused(p) == IsOpen \/ p \notin DOMAIN files \/ Granted = {}

\* An open that creates the file it does not find.
block_disk_open_Creating(p) ==
    /\ ~IsOpen /\ Granted # {} /\ p \in Paths
    /\ files' = [q \in DOMAIN files \cup {p} |->
                    IF q \in DOMAIN files THEN files[q] ELSE <<>>]
    /\ host' = [host EXCEPT ![Min(Granted)] = p]
    /\ disk' = [fd |-> Min(Granted), bcount |-> BlocksOf(files'[p])]
    /\ Answers("block_disk_open", 0, NoBuffer, 0)
    /\ UNCHANGED <<leaked, replaced>>

\* The host has granted a descriptor by the time the size is looked at, and
\* refusing the size does not give it back.
block_disk_open(p) ==
    \/ OpenRefused(p) /\ Says("block_disk_open", -1)
    \/ /\ ~OpenRefused(p)
       /\ host' = [host EXCEPT ![Min(Granted)] = p]
       /\ \/ /\ ~Aligned(files[p]) \/ "io" \in Faults
             /\ leaked' = leaked \cup {Min(Granted)}
             /\ Answers("block_disk_open", 0, NoBuffer, -1)
             /\ UNCHANGED <<disk, replaced>>
          \/ /\ Aligned(files[p])
             /\ disk' = [fd |-> Min(Granted), bcount |-> BlocksOf(files[p])]
             /\ replaced' = FALSE
             /\ Answers("block_disk_open", 0, NoBuffer, 0)
             /\ UNCHANGED leaked
       /\ UNCHANGED files

\* A close that forgets to close the host's descriptor.
block_disk_close_KeepingHostFd ==
    \/ ~IsOpen /\ Says("block_disk_close", -1)
    \/ /\ IsOpen
       /\ disk' = [disk EXCEPT !.fd = INVALID_FD]
       /\ Answers("block_disk_close", 0, NoBuffer, 0)
       /\ UNCHANGED <<files, host, leaked, replaced>>

block_disk_close ==
    \/ ~IsOpen /\ Says("block_disk_close", -1)
    \/ /\ IsOpen
       /\ host' = [host EXCEPT ![disk.fd] = NoPath]
       /\ disk' = [disk EXCEPT !.fd = INVALID_FD]
       /\ Answers("block_disk_close", 0, NoBuffer, 0)
       /\ UNCHANGED <<files, leaked, replaced>>

block_disk_count ==
    Says("block_disk_count", IF IsOpen THEN disk.bcount ELSE -1)

----------------------------------------------------------------------------
\* A test that lets the index one past the last block through.
InBounds_OffByOne(block) == IsOpen /\ block <= disk.bcount

\* The tests that block_read() and block_write() make first.
InBounds(block) == IsOpen /\ block < disk.bcount

\* A write without the seek before it.
Stored_AtTheStart(file, block, data, m) ==
    [k \in 1 .. Max({Len(file), m}) |-> IF k <= m THEN data[k] ELSE file[k]]

\* A file with the first m units of a buffer stored at a block.  The host
\* fills what lies between the old end and the block.
Stored(file, block, data, m) ==
    [k \in 1 .. Max({Len(file), Place(block, m)}) |->
        IF k \in Place(block, 1) .. Place(block, m) THEN data[k - Place(block, 0)]
        ELSE IF k <= Len(file) THEN file[k] ELSE 0]

\* A write(2) that stops early counts as a success.
block_write(block, data) ==
    \/ /\ ~InBounds(block) \/ "io" \in Faults
       /\ Answers("block_write", block, data, -1)
       /\ UNCHANGED <<files, disk, host, leaked, replaced>>
    \/ /\ InBounds(block)
       /\ \E m \in IF "short" \in Faults THEN 1 .. BlockSize ELSE {BlockSize} :
             files' = [files EXCEPT ![host[disk.fd]] = Stored(@, block, data, m)]
       /\ Answers("block_write", block, data, 0)
       /\ UNCHANGED <<disk, host, leaked, replaced>>

\* Behind the end of the file read(2) leaves the buffer as it was.
Fetched(file, block, before) ==
    [u \in 1 .. BlockSize |->
        IF Place(block, u) <= Len(file) THEN file[Place(block, u)] ELSE before[u]]

block_read(block, before) ==
    \/ /\ ~InBounds(block) \/ "io" \in Faults
       /\ Answers("block_read", block, before, -1)
       /\ UNCHANGED <<files, disk, host, leaked, replaced>>
    \/ /\ InBounds(block)
       /\ Answers("block_read", block, Fetched(OpenImage, block, before), 0)
       /\ UNCHANGED <<files, disk, host, leaked, replaced>>

----------------------------------------------------------------------------
\* Another process writes the image anew, longer or shorter.
ImageReplaced(p) ==
    /\ "outside" \in Faults
    /\ p \in DOMAIN files
    /\ \E file \in Replacements : files' = [files EXCEPT ![p] = file]
    /\ replaced' = (replaced \/ (IsOpen /\ p = host[disk.fd]))
    /\ answer' = [answer EXCEPT !.call = "none"]
    /\ UNCHANGED <<disk, host, leaked>>

\* The process ends and the host takes its descriptors back.
DiskProcessEnds ==
    /\ disk' = [fd |-> INVALID_FD, bcount |-> 0]
    /\ host' = [fd \in HostFds |-> NoPath]
    /\ leaked' = {} /\ replaced' = FALSE
    /\ Answers("none", 0, NoBuffer, 0)
    /\ UNCHANGED files

DiskNext ==
    \/ \E p \in Paths \cup {NoPath} : block_disk_open(p)
    \/ block_disk_close
    \/ block_disk_count
    \/ \E block \in 0 .. MaxBlocks, data \in Buffer : block_write(block, data)
    \/ \E block \in 0 .. MaxBlocks, before \in Buffer : block_read(block, before)
    \/ \E p \in Paths : ImageReplaced(p)
    \/ DiskProcessEnds

DiskSpec == DiskInit /\ [][DiskNext]_diskVars

----------------------------------------------------------------------------
\* Type invariant; its first part says that no call creates or removes a file.
DiskTypeOK ==
    /\ DOMAIN files = DOMAIN Outset
    /\ \A p \in DOMAIN files : files[p] \in Seq(Values)
    /\ disk \in [fd : HostFds \cup {INVALID_FD}, bcount : Nat]
    /\ host \in [HostFds -> Paths \cup {NoPath}]
    /\ leaked \subseteq HostFds /\ replaced \in BOOLEAN
    /\ answer.data \in Buffer /\ answer.value \in Int

\* Every descriptor the host has granted is either that of the open disk or
\* lost to an open that failed: closing a disk always gives its own back, and
\* never one of the lost ones.
DescriptorsAccounted ==
    /\ HostFds \ Granted = leaked \cup ({disk.fd} \ {INVALID_FD})
    /\ disk.fd \notin leaked

\* Unless another process has replaced the image, the block count that was
\* taken when the disk was opened stays that of the file, which never ends in
\* the middle of a block: no write makes the file longer.
CountIsImage ==
    IsOpen /\ ~replaced => Aligned(OpenImage) /\ disk.bcount = BlocksOf(OpenImage)

\* Whatever another process does to the image, a write changes no unit outside
\* its block that was there before, and no other file.
WritesStayInBlock ==
    [][answer'.call = "block_write" =>
         \A p \in DOMAIN files, k \in 1 .. MaxBlocks * BlockSize :
            k <= Len(files[p]) /\ (k > Len(files'[p]) \/ files'[p][k] # files[p][k])
              => /\ IsOpen /\ p = host[disk.fd] /\ answer'.value = 0
                 /\ k \in Place(answer'.block, 1) .. Place(answer'.block, BlockSize)
      ]_diskVars
=============================================================================
