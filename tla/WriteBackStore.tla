--------------------------- MODULE WriteBackStore ---------------------------
(***************************************************************************)
(* What mounting and unmounting promise for one metadata structure: a      *)
(* copy in memory is loaded from the durable one, edited at will, and      *)
(* written back cell by cell.  The durable copy changes at no other time,  *)
(* and only towards the copy in memory; a store that is saved has written  *)
(* all of it.  A crash loses the copy in memory and stops a write-back     *)
(* wherever it was, and the store is then closed but not saved.            *)
(***************************************************************************)
CONSTANTS Cells, Values, Blank

VARIABLES
    phase,              \* "closed", "open", "flushing" or "saved"
    memory, durable     \* functions from Cells to Values

storeVars == <<phase, memory, durable>>

StoreInit ==
    /\ phase = "closed"
    /\ memory = Blank
    /\ durable \in [Cells -> Values]

Load ==
    /\ phase \in {"closed", "saved"} /\ phase' = "open"
    /\ memory' = durable
    /\ UNCHANGED durable

\* The durable copy is opened and refused, or the process turns to another store.
RefuseLoad ==
    /\ phase \in {"closed", "saved"} /\ phase' = "closed"
    /\ UNCHANGED <<memory, durable>>

Edit ==
    /\ phase = "open" /\ phase' = "open"
    /\ memory' \in [Cells -> Values]
    /\ UNCHANGED durable

StartFlush ==
    /\ phase = "open" /\ phase' = "flushing"
    /\ UNCHANGED <<memory, durable>>

\* Some cells reach the disk.
Flush ==
    /\ phase = "flushing" /\ phase' = "flushing"
    /\ durable' \in [Cells -> Values]
    /\ \A c \in Cells : durable'[c] \in {durable[c], memory[c]}
    /\ UNCHANGED memory

\* The last cells reach the disk and the store is saved.
Commit ==
    /\ phase = "flushing" /\ phase' = "saved"
    /\ durable' = memory
    /\ memory' = Blank

Crash ==
    /\ phase' = "closed"
    /\ memory' = Blank
    /\ UNCHANGED durable

StoreNext ==
    Load \/ RefuseLoad \/ Edit \/ StartFlush \/ Flush \/ Commit \/ Crash

StoreSpec == StoreInit /\ [][StoreNext]_storeVars
=============================================================================
