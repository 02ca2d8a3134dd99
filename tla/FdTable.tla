------------------------------- MODULE FdTable -------------------------------
(***************************************************************************)
(* The table of open files of src/libfs/fs.c: fd_table and fd_open_count,  *)
(* and what fs_open, fs_close and fs_lseek do to them once their own       *)
(* guards have let them through.  Module FileSystem composes these steps   *)
(* with the rest of the library and is checked to take no other.           *)
(*                                                                         *)
(* A file name is a value of Names, or NoName for the empty C string.      *)
(* fs_close() only overwrites the first character of the stored name, and  *)
(* every reader looks at strlen() or strcmp(), so the name it leaves is    *)
(* NoName.                                                                 *)
(***************************************************************************)
EXTENDS Integers, FileNames

CONSTANTS
    MaxOpen,            \* FILE_DESCRIPTOR_TABLE_SIZE, 32 in fs.h
    Offsets             \* the offsets the callers seek to

ASSUME FdAssumption ==
    /\ MaxOpen \in Nat
    /\ Offsets \subseteq Nat

VARIABLES
    fd_table,           \* one record for each descriptor
    fd_open_count       \* the number of the next descriptor to hand out

fdVars == <<fd_table, fd_open_count>>

Fds == 0 .. MaxOpen - 1

FdEntry == [filename : MaybeName, offset : Nat, used : BOOLEAN]

\* A static C array starts out as zeroes.
UnusedEntry == [filename |-> NoName, offset |-> 0, used |-> FALSE]

FdInit ==
    /\ fd_table = [fd \in Fds |-> UnusedEntry]
    /\ fd_open_count = 0

\* The test of isValidFD() that reads the table: strlen(filename) # 0.
Named(fd) == fd_table[fd].filename # NoName

----------------------------------------------------------------------------
(* Variants of the steps below with one plausible slip each.               *)

OpenEntry_KeepingOffset(n) ==
    /\ fd_open_count < MaxOpen
    /\ fd_table' = [fd_table EXCEPT ![fd_open_count].filename = n,
                                    ![fd_open_count].used = TRUE]
    /\ fd_open_count' = fd_open_count + 1

OpenEntry_Overrun(n) ==
    /\ fd_open_count <= MaxOpen
    /\ fd_table' = [fd_table EXCEPT ![fd_open_count] =
                        [filename |-> n, offset |-> 0, used |-> TRUE]]
    /\ fd_open_count' = fd_open_count + 1

CloseEntry_KeepingName(fd) ==
    /\ Named(fd)
    /\ fd_table' = [fd_table EXCEPT ![fd].offset = 0, ![fd].used = FALSE]
    /\ UNCHANGED fd_open_count

CloseEntry_GivingBack(fd) ==
    /\ Named(fd)
    /\ fd_table' = [fd_table EXCEPT ![fd] = UnusedEntry]
    /\ fd_open_count' = fd_open_count - 1

----------------------------------------------------------------------------
\* fs_open: take the entry at fd_open_count and count it.
OpenEntry(n) ==
    /\ fd_open_count < MaxOpen
    /\ fd_table' = [fd_table EXCEPT ![fd_open_count] =
                        [filename |-> n, offset |-> 0, used |-> TRUE]]
    /\ fd_open_count' = fd_open_count + 1

\* fs_close: clear the entry; fd_open_count is not touched.
CloseEntry(fd) ==
    /\ Named(fd)
    /\ fd_table' = [fd_table EXCEPT ![fd] = UnusedEntry]
    /\ UNCHANGED fd_open_count

\* fs_lseek: only a descriptor that isValidFD() refuses gets as far as the
\* assignment, because the result of the test is negated once too often.
SeekEntry(fd, offset) ==
    /\ ~Named(fd)
    /\ fd_table' = [fd_table EXCEPT ![fd].offset = offset]
    /\ UNCHANGED fd_open_count

\* The process ends; the next one starts with fresh static storage.
ResetTable ==
    /\ fd_table' = [fd \in Fds |-> UnusedEntry]
    /\ fd_open_count' = 0

FdNext ==
    \/ \E n \in Names : OpenEntry(n)
    \/ \E fd \in Fds : CloseEntry(fd)
    \/ \E fd \in Fds, offset \in Offsets : SeekEntry(fd, offset)
    \/ ResetTable

FdSpec == FdInit /\ [][FdNext]_fdVars

----------------------------------------------------------------------------
\* Type invariant of the table.
FdTypeOK ==
    /\ fd_table \in [Fds -> FdEntry]
    /\ fd_open_count \in 0 .. MaxOpen

\* The flag `used` and the test isValidFD() makes never disagree, although
\* nothing in fs.c reads the flag: fs_open sets it and the name, fs_close takes
\* both back, and a fs_lseek that gets through touches neither.
UsedIffNamed == \A fd \in Fds : fd_table[fd].used <=> Named(fd)

\* A descriptor that fs_open has not handed out yet is refused by isValidFD().
OnlyIssuedAreNamed == \A fd \in Fds : Named(fd) => fd < fd_open_count

\* An open descriptor always stands at offset 0: the offsets fs_lseek stores
\* in the entries of closed descriptors never become the offset of an open one.
OpenAtStart == \A fd \in Fds : Named(fd) => fd_table[fd].offset = 0

\* The table is a dispenser that hands every number out at most once.
Issuer == INSTANCE HandleIssuer WITH
              issued <- fd_open_count,
              live <- {fd \in Fds : Named(fd)}

\* Every step of the table is one of the dispenser's or changes nothing in it.
RefinesIssuer == Issuer!IssuerSpec
=============================================================================
