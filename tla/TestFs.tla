------------------------------- MODULE TestFs -------------------------------
(***************************************************************************)
(* The programs on top of the library: the driver src/apps/test_fs.c with  *)
(* its commands, and the demos.  Each run of a program is one job, a list  *)
(* of library calls in which the result of one decides what follows.  What *)
(* is printed and what happens to files of the host is left out, but for   *)
(* the failure to find them.                                               *)
(***************************************************************************)
EXTENDS FsProperties, Demos

CONSTANT Commands       \* what users run, a subset of AllCommands

DriverCommands == {"script", "stat", "cat", "rm", "add", "ls", "info"}
AllCommands == DriverCommands \cup DemoPrograms

ASSUME TestFsAssumption == Commands \subseteq AllCommands

VARIABLE job            \* the command, its disk and file, the calls left, the
                        \* descriptor in use, the script's flag `mounted`, and
                        \* whether the reader's buffer holds what it looks for

testVars == <<vars, job>>

NoJob == [cmd |-> "none", disk |-> "none", file |-> NoName, left |-> <<>>,
          fs_fd |-> -1, mounted |-> FALSE, letters |-> FALSE]

\* The calls of a command when none of them fails.
Calls(cmd) ==
    CASE cmd = "script" -> <<"line">>
      [] cmd = "stat" -> <<"mount", "open", "stat", "close", "umount", "exit">>
      [] cmd = "cat" ->
            <<"mount", "open", "stat", "read", "close", "umount", "exit">>
      [] cmd = "rm" -> <<"mount", "delete", "umount", "exit">>
      [] cmd = "add" ->
            <<"mount", "create", "open", "write", "close", "umount", "exit">>
      [] cmd \in {"ls", "info"} -> <<"mount", cmd, "umount", "exit">>
      [] cmd \in DemoPrograms -> DemoCalls(cmd)

\* fs_umount() and die(), whatever the unmount returns.
Bail == <<"umount", "exit">>

Up(call) == job.left # <<>> /\ Head(job.left) = call

\* A driver that unmounts even when the mount has failed.
Following_BailAlways(call, value) ==
    IF value < 0 THEN Bail ELSE Tail(job.left)

\* A driver that unmounts only when everything has gone well.
Following_ExitAtOnce(call, value) ==
    IF value < 0 THEN <<"exit">> ELSE Tail(job.left)

\* What a command does after a call.  A mount that fails ends it, an empty
\* file ends cat as it stands, and no one looks at what read and write return.
Following(call, value) ==
    IF job.cmd \in DemoPrograms
    THEN DemoFollowing(job.cmd, call, value, job.letters, job.left)
    ELSE CASE value < 0 /\ call = "mount" -> <<"exit">>
           [] value < 0 /\ call \in {"create", "delete", "open", "close"} -> Bail
           [] value <= 0 /\ call = "stat" /\ job.cmd = "stat" -> <<"close">> \o Bail
           [] value = 0 /\ call = "stat" /\ job.cmd = "cat" -> <<"exit">>
           [] value < 0 /\ call = "stat" /\ job.cmd = "cat" -> Bail
           [] OTHER -> Tail(job.left)

----------------------------------------------------------------------------
TestInit == Init /\ job = NoJob

\* The file a command is given: any argument, the empty one too; the name of a
\* file that add has found on the host, or the demos' own; none.
FileArgs(cmd) ==
    CASE cmd \in {"stat", "cat", "rm"} -> MaybeName
      [] cmd \in {"add", "simple_writer", "simple_reader"} -> Names
      [] OTHER -> {NoName}

\* A user starts the program.  The reader's buffer is never initialised, and
\* fs_read leaves it as it is.
Start(cmd, d, n) ==
    /\ job = NoJob
    /\ n \in FileArgs(cmd)
    /\ \E letters \in IF cmd = "simple_reader" THEN BOOLEAN ELSE {FALSE} :
          job' = [NoJob EXCEPT !.cmd = cmd, !.disk = d, !.file = n,
                               !.left = Calls(cmd), !.letters = letters]
    /\ UNCHANGED vars

\* The disk a program mounts; only the tester mounts several.
DiskArgs == {d \in Disks : d = job.disk \/ job.cmd = "mount_tester"}

LibraryCall(call, n, fd) ==
    \/ call = "mount" /\ \E d \in DiskArgs : fs_mount(d)
    \/ call = "umount" /\ fs_umount
    \/ call = "create" /\ fs_create(n)
    \/ call = "delete" /\ fs_delete(n)
    \/ call = "open" /\ fs_open(n)
    \/ call = "close" /\ fs_close(fd)
    \/ call = "stat" /\ fs_stat(fd)
    \/ call = "write" /\ fs_write(fd)
    \/ call = "read" /\ fs_read(fd)
    \/ call = "seek" /\ \E offset \in Offsets : fs_lseek(fd, offset)
    \/ call = "ls" /\ fs_ls
    \/ call = "info" /\ fs_info

\* The call was the end of the process.
Crashed == ret' = NoCall /\ writeback' = NotWriting

CommandStep(call) ==
    /\ Up(call)
    /\ LibraryCall(call, job.file, job.fs_fd)
    /\ job' = IF Crashed THEN NoJob
              ELSE [job EXCEPT !.left = Following(call, ret'.value),
                               !.fs_fd = IF call = "open" THEN ret'.value ELSE @]

\* A script whose flag outlives the unmount.
FlagAfter_Umount(call) == IF call = "mount" THEN TRUE ELSE job.mounted

\* The flag `mounted` after a call that succeeded.
FlagAfter(call) ==
    IF call = "mount" THEN TRUE ELSE IF call = "umount" THEN FALSE ELSE job.mounted

\* A line of a script that reaches the library: a MOUNT that fails ends the
\* script at once, any other failure unmounts first.
ScriptCall(call, n) ==
    /\ Up("line") /\ Idle
    /\ call = "umount" => job.mounted
    /\ LibraryCall(call, n, job.fs_fd)
    /\ job' = IF Crashed THEN NoJob
              ELSE IF ret'.value < 0
              THEN [job EXCEPT !.left = IF call = "mount" THEN <<"exit">> ELSE Bail,
                               !.fs_fd = IF call = "open" THEN ret'.value ELSE @]
              ELSE [job EXCEPT !.fs_fd = IF call = "open" THEN ret'.value ELSE @,
                               !.mounted = FlagAfter(call)]

\* A READ or WRITE whose data cannot be found on the host.
ScriptDataMissing ==
    /\ Up("line") /\ Idle
    /\ job' = [job EXCEPT !.left = Bail]
    /\ UNCHANGED vars

\* The script has no more lines, or an empty one.
ScriptEnds ==
    /\ Up("line") /\ Idle
    /\ job' = [job EXCEPT !.left = IF job.mounted THEN Bail ELSE <<"exit">>]
    /\ UNCHANGED vars

\* fs_umount() at work, within a call of the driver.
Unmounting ==
    /\ WriteFatBlock \/ WriteRootAndRelease
    /\ UNCHANGED job

\* exit(), the end of main(), or a kill at any time.
Exits == Up("exit") /\ Idle /\ ProcessEnds /\ job' = NoJob
Killed == ProcessEnds /\ job' = NoJob

ScriptCalls ==
    {"mount", "umount", "create", "delete", "open", "close", "write", "read", "seek"}
AllCalls == ScriptCalls \cup {"stat", "ls", "info"}

TestNext ==
    \/ \E cmd \in Commands, d \in Disks, n \in MaybeName : Start(cmd, d, n)
    \/ \E call \in AllCalls : CommandStep(call)
    \/ \E call \in ScriptCalls, n \in Names : ScriptCall(call, n)
    \/ ScriptDataMissing
    \/ ScriptEnds
    \/ Unmounting
    \/ Exits
    \/ Killed

TestSpec == TestInit /\ [][TestNext]_testVars

\* What the program does of its own accord, without another line of a script.
Proceeds == (\E call \in AllCalls : CommandStep(call)) \/ Unmounting \/ Exits

\* Nothing in the program waits, so it goes on unless it is killed.
TestFairSpec == TestSpec /\ WF_testVars(Proceeds)

----------------------------------------------------------------------------
\* Between two lines of a script the driver's own flag and the library agree
\* on whether a disk is mounted, which the library itself never tells.
FlagAgrees == Up("line") /\ Idle => (job.mounted <=> Mounted)

\* fs_umount() trusts its callers.  The driver's commands call it only while a
\* disk is mounted; of a script that holds for the calls its flag guards.
UmountMeetsMount ==
    Up("umount") /\ Idle /\ (job.cmd # "script" \/ job.mounted) => Mounted

\* A command of test_fs that ends by itself has unmounted the disk, whichever of
\* its calls failed, but for a cat that has just been told that its file is empty,
\* and a script whose second mount has just failed.
EndsUnmounted ==
    Up("exit") /\ Idle /\ Mounted /\ job.cmd \in DriverCommands
        => \/ job.cmd = "cat" /\ ret.call = "fs_stat" /\ ret.value = 0
           \/ job.cmd = "script" /\ ret.call = "fs_mount" /\ ret.value = -1

\* When rm has run to its end, the disk it was given says that the file is gone:
\* all its entries that lie whole on the root block are empty and free there.  The
\* same becomes of the unused entries when the name is empty.
RmIsDurable ==
    Up("exit") /\ job.cmd = "rm" /\ file_system = "freed" =>
        \A i \in WholeEntries :
            images[job.disk].root[i].filename = job.file
                => /\ images[job.disk].root[i].file_size = 0
                   /\ images[job.disk].root[i].isEmpty

\* Commands that only look, stat, cat, ls and info, mount the disk and write all its
\* metadata back.  However far they get, and killed at any point, the FAT and
\* the whole entries that the next mount of any disk finds are those they found.
LookingKeepsDisk ==
    [][job.cmd \in {"stat", "cat", "ls", "info"} => \A d \in Disks :
         /\ LoadFat(images'[d].fat, {}) = LoadFat(images[d].fat, {})
         /\ WholePart(images'[d].root) = WholePart(images[d].root)]_testVars

\* No demo leaves a trace on any disk: the writer cannot open the file it has
\* just made, the reader opens it only where there is none and then reads
\* nothing, and neither unmounts after a failure.
DemosKeepDisk == [][job.cmd \in DemoPrograms => UNCHANGED images]_testVars

\* An unmount that has begun writing ends with the disk released, in a script
\* too, which may go on for ever.
UnmountReleasesDisk == ~Idle ~> disk_fd = "closed"

\* Every command but a script ends, whichever of its calls fail.
CommandsEnd == job.cmd \in AllCommands \ {"script"} ~> job = NoJob
=============================================================================
