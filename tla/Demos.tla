-------------------------------- MODULE Demos --------------------------------
(***************************************************************************)
(* The demo programs: fixed lists of library calls, ended by the first one *)
(* that an ASSERT is not content with.                                     *)
(***************************************************************************)
EXTENDS Integers, Sequences

\* src/apps/simple_writer.c and simple_reader.c: make a file and write to it,
\* read from its middle.
WriterCalls == <<"mount", "create", "open", "write", "close", "umount", "exit">>
ReaderCalls == <<"mount", "open", "seek", "read", "close", "umount", "exit">>

\* src/libfs/mount_tester.c: three disks in a row, none unmounted.
TesterCalls == <<"mount", "mount", "mount", "exit">>

DemoPrograms == {"simple_writer", "simple_reader", "mount_tester"}

DemoCalls(program) ==
    CASE program = "simple_writer" -> WriterCalls
      [] program = "simple_reader" -> ReaderCalls
      [] program = "mount_tester" -> TesterCalls

\* The bytes the writer writes, and those the reader reads.
DataSize == 26
ReadSize == 10

\* What an ASSERT refuses; the writer and the reader insist on all the bytes
\* they asked for, the reader on its ten letters too, and neither on any of the
\* results of seek, close and unmount.
AssertFails(program, call, value, letters) ==
    /\ program # "mount_tester"
    /\ \/ call \in {"mount", "create", "open"} /\ value < 0
       \/ call = "write" /\ value # DataSize
       \/ call = "read" /\ (value # ReadSize \/ ~letters)

\* exit() leaves the disk mounted.
DemoFollowing(program, call, value, letters, left) ==
    IF AssertFails(program, call, value, letters) THEN <<"exit">> ELSE Tail(left)
=============================================================================
