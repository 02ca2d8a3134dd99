---------------------------- MODULE TestFsProofs ----------------------------
(***************************************************************************)
(* Proofs about the programs on top of the library, for every geometry,    *)
(* every disk and every set of commands users run.                         *)
(***************************************************************************)
EXTENDS TestFs, SequenceTheorems, FileSystemProofs

(***************************************************************************)
(* The inductive invariant says where each command is: which calls it has  *)
(* left, and what it knows of the library there.                           *)
(***************************************************************************)
DirectCommands == DriverCommands \ {"script"}
Lookers == {"stat", "cat", "ls", "info"}

JobTypes ==
    job \in [cmd : Commands \cup {"none"}, disk : Disks \cup {"none"},
             file : MaybeName, left : {job.left}, fs_fd : FdArgs,
             mounted : BOOLEAN, letters : BOOLEAN]

\* The calls a command has left between its mount and its unmount.
Working(cmd, left) ==
    \/ cmd = "stat" /\ left \in {<<"open", "stat", "close", "umount", "exit">>,
                                <<"stat", "close", "umount", "exit">>,
                                <<"close", "umount", "exit">>, Bail}
    \/ cmd = "cat" /\ left \in {<<"open", "stat", "read", "close", "umount", "exit">>,
                               <<"stat", "read", "close", "umount", "exit">>,
                               <<"read", "close", "umount", "exit">>,
                               <<"close", "umount", "exit">>, Bail}
    \/ cmd = "rm" /\ left \in {<<"delete", "umount", "exit">>, Bail}
    \/ cmd = "add" /\ left \in {<<"create", "open", "write", "close", "umount", "exit">>,
                               <<"open", "write", "close", "umount", "exit">>,
                               <<"write", "close", "umount", "exit">>,
                               <<"close", "umount", "exit">>, Bail}
    \/ cmd \in {"ls", "info"} /\ left \in {<<cmd, "umount", "exit">>, Bail}

\* Nothing runs: the next process finds a library that was never used.
NoneRuns == job = NoJob /\ file_system = "null" /\ Idle

\* A command mounts, works on a mounted disk, and has unmounted it at its end
\* unless it is a cat that was told of an empty file.
ToldEmpty(answer) == job.cmd = "cat" /\ answer.call = "fs_stat" /\ answer.value = 0

DirectRuns ==
    \/ job.left = Calls(job.cmd) /\ file_system = "null" /\ Idle
    \/ Working(job.cmd, job.left) /\ Mounted /\ Idle
    \/ job.left = <<"exit">> /\ (Mounted /\ Idle => ToldEmpty(ret))

\* The flag of a script is that of the library between two of its lines, and
\* still when a failure ends it; a second mount fails and leaves it as it is.
ScriptRuns ==
    \/ job.left = <<"line">> /\ Idle /\ (job.mounted <=> Mounted)
    \/ job.left = <<"line">> /\ ~Idle /\ ~job.mounted
    \/ job.left = Bail /\ Idle /\ (job.mounted <=> Mounted)
    \/ job.left = <<"exit">>
       /\ (Mounted /\ Idle => ret.call = "fs_mount" /\ ret.value = -1)

\* The writer never gets past its open, for the directory has the file it has
\* just made; the reader never gets past its read, nor the tester to an unmount.
WriterRuns ==
    \/ job.left \in {WriterCalls, <<"exit">>}
    \/ job.left = Tail(WriterCalls) /\ Mounted
    \/ job.left = Tail(Tail(WriterCalls)) /\ Mounted /\ Matches(root_dir, job.file) # {}

ReaderRuns ==
    job.left \in {ReaderCalls, Tail(ReaderCalls), Tail(Tail(ReaderCalls)),
                  <<"read", "close", "umount", "exit">>, <<"exit">>}

TesterRuns ==
    job.left \in {TesterCalls, Tail(TesterCalls), Tail(Tail(TesterCalls)), <<"exit">>}

JobInv ==
    /\ JobTypes
    /\ job.cmd = "none" => NoneRuns
    /\ job.cmd \in DirectCommands => DirectRuns
    /\ job.cmd = "script" => ScriptRuns
    /\ job.cmd \in DemoPrograms => Idle
    /\ job.cmd = "simple_writer" => WriterRuns
    /\ job.cmd = "simple_reader" => ReaderRuns
    /\ job.cmd = "mount_tester" => TesterRuns

\* No whole entry has the name any more and is in use.
GoneFrom(dir) ==
    \A i \in WholeEntries :
        dir[i].filename = job.file => dir[i].file_size = 0 /\ dir[i].isEmpty

RmInv ==
    job.cmd = "rm" =>
        /\ Mounted /\ job.left # <<"delete", "umount", "exit">> => GoneFrom(root_dir)
        /\ file_system = "freed" => GoneFrom(images[job.disk].root)
        /\ Mounted => diskname = job.disk

\* A command that only looks has in memory what the disk has.
LookInv ==
    job.cmd \in Lookers /\ Mounted =>
        /\ fat_blocks = LoadFat(image.fat, {})
        /\ WholePart(root_dir) = WholePart(image.root)

----------------------------------------------------------------------------
(* The lists of calls.                                                     *)

LEMMA CallsAre ==
  /\ Calls("stat") = <<"mount", "open", "stat", "close", "umount", "exit">>
  /\ Calls("cat") = <<"mount", "open", "stat", "read", "close", "umount", "exit">>
  /\ Calls("rm") = <<"mount", "delete", "umount", "exit">>
  /\ Calls("add") = <<"mount", "create", "open", "write", "close", "umount", "exit">>
  /\ Calls("ls") = <<"mount", "ls", "umount", "exit">>
  /\ Calls("info") = <<"mount", "info", "umount", "exit">>
  /\ Calls("script") = <<"line">>
  BY DEF Calls, DemoPrograms

LEMMA CallsBegin ==
  ASSUME NEW cmd \in DirectCommands
  PROVE  Calls(cmd) # <<>> /\ Head(Calls(cmd)) = "mount"
<1>1. CASE cmd \in {"stat", "cat", "rm"}
  BY <1>1, CallsAre
<1>2. CASE cmd \in {"add", "ls", "info"}
  BY <1>2, CallsAre
<1> QED
  BY <1>1, <1>2 DEF DirectCommands, DriverCommands

LEMMA CallTails ==
  /\ \A c : Tail(<<"mount", c, "umount", "exit">>) = <<c, "umount", "exit">>
  /\ Tail(<<"mount", "open", "stat", "close", "umount", "exit">>)
        = <<"open", "stat", "close", "umount", "exit">>
  /\ Tail(<<"mount", "open", "stat", "read", "close", "umount", "exit">>)
        = <<"open", "stat", "read", "close", "umount", "exit">>
  /\ Tail(<<"mount", "create", "open", "write", "close", "umount", "exit">>)
        = <<"create", "open", "write", "close", "umount", "exit">>
  OBVIOUS

LEMMA WorkTails ==
  /\ Tail(<<"open", "stat", "close", "umount", "exit">>)
        = <<"stat", "close", "umount", "exit">>
  /\ Tail(<<"stat", "close", "umount", "exit">>) = <<"close", "umount", "exit">>
  /\ Tail(<<"open", "stat", "read", "close", "umount", "exit">>)
        = <<"stat", "read", "close", "umount", "exit">>
  /\ Tail(<<"stat", "read", "close", "umount", "exit">>)
        = <<"read", "close", "umount", "exit">>
  /\ Tail(<<"read", "close", "umount", "exit">>) = <<"close", "umount", "exit">>
  /\ Tail(<<"create", "open", "write", "close", "umount", "exit">>)
        = <<"open", "write", "close", "umount", "exit">>
  /\ Tail(<<"open", "write", "close", "umount", "exit">>)
        = <<"write", "close", "umount", "exit">>
  /\ Tail(<<"write", "close", "umount", "exit">>) = <<"close", "umount", "exit">>
  /\ Tail(<<"close", "umount", "exit">>) = Bail
  /\ \A c : Tail(<<c, "umount", "exit">>) = Bail
  BY DEF Bail

\* A command begins with its mount, works without another one, and unmounts
\* last.
LEMMA WorkBegins ==
  ASSUME NEW cmd \in DirectCommands
  PROVE  Working(cmd, Tail(Calls(cmd)))
<1>1. CASE cmd = "stat"
  <2>1. Tail(Calls(cmd)) = <<"open", "stat", "close", "umount", "exit">>
    BY <1>1, CallsAre, CallTails
  <2> QED
    BY <1>1, <2>1 DEF Working
<1>2. CASE cmd = "cat"
  <2>1. Tail(Calls(cmd)) = <<"open", "stat", "read", "close", "umount", "exit">>
    BY <1>2, CallsAre, CallTails
  <2> QED
    BY <1>2, <2>1 DEF Working
<1>3. CASE cmd = "rm"
  <2>1. Tail(Calls(cmd)) = <<"delete", "umount", "exit">>
    BY <1>3, CallsAre, CallTails
  <2> QED
    BY <1>3, <2>1 DEF Working
<1>4. CASE cmd = "add"
  <2>1. Tail(Calls(cmd)) = <<"create", "open", "write", "close", "umount", "exit">>
    BY <1>4, CallsAre, CallTails
  <2> QED
    BY <1>4, <2>1 DEF Working
<1>5. CASE cmd \in {"ls", "info"}
  <2>1. Tail(Calls(cmd)) = <<cmd, "umount", "exit">>
    BY <1>5, CallsAre, CallTails
  <2> QED
    BY <1>5, <2>1 DEF Working
<1> QED
  BY <1>1, <1>2, <1>3, <1>4, <1>5 DEF DirectCommands, DriverCommands

LEMMA WorkHeads ==
  ASSUME NEW cmd \in DirectCommands, NEW left, Working(cmd, left)
  PROVE  /\ left # <<>>
         /\ Head(left) \notin {"mount", "line", "exit"}
         /\ Head(left) = "umount" => left = Bail
  BY DEF DirectCommands, DriverCommands, Working, Bail

LEMMA CloseAndBail == <<"close">> \o Bail = <<"close", "umount", "exit">>
<1> DEFINE s == <<"close">>
           t == <<"umount", "exit">>
           u == <<"close", "umount", "exit">>
           CallSet == {"close", "umount", "exit"}
<1>1. s \in Seq(CallSet) /\ t \in Seq(CallSet) /\ u \in Seq(CallSet)
      /\ Len(s) = 1 /\ Len(t) = 2 /\ Len(u) = 3
  OBVIOUS
<1>2. s \o t \in Seq(CallSet) /\ Len(s \o t) = 3
  BY <1>1
<1>3. \A i \in 1 .. 3 : (s \o t)[i] = u[i]
  <2>1. (s \o t)[1] = s[1] /\ (s \o t)[2] = t[1] /\ (s \o t)[3] = t[2]
    BY <1>1, ConcatProperties
  <2> QED
    BY <2>1
<1> HIDE DEF s, t, u, CallSet
<1>4. s \o t = u
  BY <1>1, <1>2, <1>3, SeqEqual
<1> QED
  BY <1>4 DEF Bail, s, t, u

\* The answers to a call that a command looks at.
CatOfEmpty(call, value) == job.cmd = "cat" /\ call = "stat" /\ value = 0

LEMMA Answers ==
  ASSUME job.cmd \in DirectCommands, NEW call, call # "mount", NEW value
  PROVE  \/ Following(call, value) = Tail(job.left)
         \/ Following(call, value) = Bail
            /\ call \in {"create", "delete", "open", "close", "stat"}
         \/ Following(call, value) = <<"close", "umount", "exit">>
            /\ call = "stat" /\ job.cmd = "stat"
         \/ Following(call, value) = <<"exit">> /\ CatOfEmpty(call, value)
<1>1. job.cmd \notin DemoPrograms
  BY DEF DirectCommands, DriverCommands, DemoPrograms
<1> QED
  BY <1>1, CloseAndBail DEF Following, CatOfEmpty

\* What follows a call in a command that works is work, or the exit of cat.
LEMMA WorkGoesOn ==
  ASSUME job.cmd \in DirectCommands, Working(job.cmd, job.left),
         NEW call, Head(job.left) = call, call # "umount", NEW value
  PROVE  \/ Working(job.cmd, Following(call, value))
         \/ Following(call, value) = <<"exit">> /\ CatOfEmpty(call, value)
<1> DEFINE next == Following(call, value)
<1>1. \/ next = Tail(job.left)
      \/ next = Bail /\ call \in {"create", "delete", "open", "close", "stat"}
      \/ next = <<"close", "umount", "exit">> /\ call = "stat" /\ job.cmd = "stat"
      \/ next = <<"exit">> /\ CatOfEmpty(call, value)
  BY Answers, WorkHeads
<1>2. Working(job.cmd, Tail(job.left))
  <2>1. job.left # Bail
    BY DEF Bail
  <2>2. CASE job.cmd = "stat"
    BY <2>1, <2>2, WorkTails DEF Working
  <2>3. CASE job.cmd = "cat"
    BY <2>1, <2>3, WorkTails DEF Working
  <2>4. CASE job.cmd = "rm"
    BY <2>1, <2>4, WorkTails DEF Working
  <2>5. CASE job.cmd = "add"
    BY <2>1, <2>5, WorkTails DEF Working
  <2>6. CASE job.cmd \in {"ls", "info"}
    BY <2>1, <2>6, WorkTails DEF Working
  <2> QED
    BY <2>2, <2>3, <2>4, <2>5, <2>6 DEF DirectCommands, DriverCommands
<1>3. call \in {"create", "delete", "open", "close", "stat"} => Working(job.cmd, Bail)
  BY DEF Working
<1>4. job.cmd = "stat" => Working(job.cmd, <<"close", "umount", "exit">>)
  BY DEF Working
<1> HIDE DEF next
<1>5. \/ Working(job.cmd, next)
      \/ next = <<"exit">> /\ CatOfEmpty(call, value)
  BY <1>1, <1>2, <1>3, <1>4
<1> QED
  BY <1>5 DEF next

----------------------------------------------------------------------------
(* What the calls of the library do to the state the programs depend on.   *)

QuietCalls == AllCalls \ {"mount", "umount"}

LEMMA Returned ==
  ASSUME NEW c, NEW arg, NEW value, Returns(c, arg, value)
  PROVE  ret'.call = c /\ ret'.value = value
  BY DEF Returns

LEMMA QuietCall ==
  ASSUME NEW call \in QuietCalls, NEW n, NEW fd, LibraryCall(call, n, fd)
  PROVE  /\ Idle
         /\ \/ ProcessEnds /\ file_system = "null"
            \/ /\ UNCHANGED <<file_system, disk_fd, writeback, images>>
               /\ ret'.call # "none"
<1> DEFINE Quiet == /\ Idle
                    /\ \/ ProcessEnds /\ file_system = "null"
                       \/ /\ UNCHANGED <<file_system, disk_fd, writeback, images>>
                          /\ ret'.call # "none"
<1>1. ASSUME fs_create(n)
      PROVE  Quiet
  <2>1. Idle
    BY <1>1 DEF fs_create
  <2>2. UNCHANGED <<file_system, disk_fd, writeback, images>>
    BY <1>1 DEF fs_create, Reports
  <2>3. ret'.call = "fs_create"
    BY <1>1, Returned DEF fs_create, Reports
  <2> QED
    BY <2>1, <2>2, <2>3
<1>2. ASSUME fs_delete(n)
      PROVE  Quiet
  <2>1. CASE ProcessEnds /\ file_system = "null"
    BY <1>2, <2>1 DEF fs_delete
  <2>2. CASE ~(ProcessEnds /\ file_system = "null")
    <3>1. Idle
      BY <1>2 DEF fs_delete
    <3>2. UNCHANGED <<file_system, disk_fd, writeback, images>>
      BY <1>2, <2>2 DEF fs_delete, Reports
    <3>3. ret'.call = "fs_delete"
      BY <1>2, <2>2, Returned DEF fs_delete, Reports
    <3> QED
      BY <3>1, <3>2, <3>3
  <2> QED
    BY <2>1, <2>2
<1>3. fs_open(n) => Quiet
  BY DEF fs_open, Reports, Returns
<1>4. fs_close(fd) => Quiet
  BY DEF fs_close, Reports, Returns
<1>5. fs_stat(fd) \/ fs_write(fd) \/ fs_read(fd) => Quiet
  BY DEF fs_stat, fs_write, fs_read, Reports, Returns
<1>6. (\E offset \in Offsets : fs_lseek(fd, offset)) => Quiet
  BY DEF fs_lseek, Reports, Returns
<1>7. fs_ls \/ fs_info => Quiet
  BY DEF fs_ls, fs_info, Reports, Returns
<1>8. call # "mount" /\ call # "umount"
  BY DEF QuietCalls
<1> HIDE DEF Quiet
<1>9. Quiet
  BY <1>1, <1>2, <1>3, <1>4, <1>5, <1>6, <1>7, <1>8 DEF LibraryCall
<1> QED
  BY <1>9 DEF Quiet

LEMMA StatCall ==
  ASSUME NEW n, NEW fd, LibraryCall("stat", n, fd)
  PROVE  ret'.call = "fs_stat"
<1>1. fs_stat(fd)
  BY DEF LibraryCall
<1> QED
  BY <1>1, Returned DEF fs_stat, Reports

LEMMA MountCall ==
  ASSUME NEW d, fs_mount(d)
  PROVE  /\ Idle /\ ret'.call = "fs_mount" /\ UNCHANGED <<writeback, images>>
         /\ \/ ret'.value = -1 /\ UNCHANGED file_system
            \/ ret'.value = -1 /\ disk_fd = "closed" /\ file_system' = "unchecked"
            \/ ret'.value = 0 /\ disk_fd = "closed" /\ file_system' = "mounted"
  BY DEF fs_mount, MountRefused, MountUnchecked, MountLoaded, Returns

LEMMA UmountCall ==
  ASSUME fs_umount
  PROVE  /\ Idle
         /\ \/ ProcessEnds /\ ~Mounted
            \/ /\ Mounted /\ ret' = NoCall /\ writeback' = 0 /\ writeback' # NotWriting
               /\ UNCHANGED <<file_system, fat_blocks, root_dir, images, diskname>>
            \/ /\ file_system' = "freed" /\ ret'.call = "fs_umount" /\ ret'.value = 0
               /\ UNCHANGED writeback /\ file_system = "unchecked"
  BY DEF fs_umount, Returns, Mounted, NotWriting, whichDisk

\* The programs are callers of the library, whose numbers for descriptors are
\* those it has handed out.
LEMMA OpenedFd ==
  ASSUME FdTypeOK, NEW n, fs_open(n)
  PROVE  ret'.value \in FdArgs
  BY FdAssumption DEF fs_open, Reports, Returns, OpenEntry, FdTypeOK, FdArgs

LEMMA CallIsStep ==
  ASSUME NEW call, NEW n \in MaybeName, NEW fd \in FdArgs, LibraryCall(call, n, fd)
  PROVE  Next
  BY DEF LibraryCall, DiskArgs, Next

LEMMA CallerStep ==
  ASSUME JobTypes, [TestNext]_testVars
  PROVE  [Next]_vars
<1>1. job.file \in MaybeName /\ job.fs_fd \in FdArgs
  BY DEF JobTypes
<1>2. ASSUME NEW call \in AllCalls, CommandStep(call)
      PROVE  Next
  BY <1>1, <1>2, CallIsStep DEF CommandStep
<1>3. ASSUME NEW call \in ScriptCalls, NEW n \in Names, ScriptCall(call, n)
      PROVE  Next
  BY <1>1, <1>3, CallIsStep DEF ScriptCall, MaybeName
<1>4. CASE Unmounting \/ Exits \/ Killed
  BY <1>4 DEF Unmounting, Exits, Killed, Next
<1> QED
  BY <1>2, <1>3, <1>4 DEF TestNext, testVars, Start, ScriptDataMissing, ScriptEnds

----------------------------------------------------------------------------
(* Every step of the programs keeps the invariant.                         *)

LEMMA NoJobTypes ==
  /\ NoJob \in [cmd : Commands \cup {"none"}, disk : Disks \cup {"none"},
                file : MaybeName, left : {NoJob.left}, fs_fd : FdArgs,
                mounted : BOOLEAN, letters : BOOLEAN]
  /\ NoJob.cmd = "none" /\ NoJob.left = <<>>
  BY FdAssumption DEF NoJob, MaybeName, FdArgs

LEMMA StartTypes ==
  ASSUME NEW cmd \in Commands, NEW d \in Disks, NEW n \in MaybeName, Start(cmd, d, n)
  PROVE  /\ JobTypes' /\ job'.cmd = cmd /\ job'.left = Calls(cmd)
         /\ job'.mounted = FALSE /\ job = NoJob /\ UNCHANGED vars
<1>1. PICK letters \in BOOLEAN :
         job' = [cmd |-> cmd, disk |-> d, file |-> n, left |-> Calls(cmd), fs_fd |-> -1,
                 mounted |-> FALSE, letters |-> letters]
  BY DEF Start, NoJob
<1>2. -1 \in FdArgs
  BY FdAssumption DEF FdArgs
<1>3. JobTypes'
  BY <1>1, <1>2 DEF JobTypes
<1>4. job = NoJob /\ UNCHANGED vars
  BY DEF Start
<1> QED
  BY <1>1, <1>3, <1>4

LEMMA CommandStepTypes ==
  ASSUME JobTypes, FdTypeOK, NEW call \in AllCalls, CommandStep(call)
  PROVE  /\ JobTypes'
         /\ \/ Crashed /\ job' = NoJob
            \/ /\ ~Crashed
               /\ job'.left = Following(call, ret'.value)
               /\ job'.cmd = job.cmd /\ job'.file = job.file /\ job'.mounted = job.mounted
               /\ job'.disk = job.disk
<1>1. CASE Crashed
  BY <1>1, NoJobTypes DEF CommandStep, JobTypes
<1>2. CASE ~Crashed
  <2> DEFINE fd == IF call = "open" THEN ret'.value ELSE job.fs_fd
  <2>1. fd \in FdArgs
    BY OpenedFd DEF CommandStep, LibraryCall, JobTypes
  <2>2. job' = [job EXCEPT !.left = Following(call, ret'.value), !.fs_fd = fd]
    BY <1>2 DEF CommandStep
  <2> HIDE DEF fd
  <2> QED
    BY <1>2, <2>1, <2>2 DEF JobTypes
<1> QED
  BY <1>1, <1>2

LEMMA ScriptCallTypes ==
  ASSUME JobTypes, FdTypeOK, NEW call \in ScriptCalls, NEW n \in Names, ScriptCall(call, n)
  PROVE  /\ JobTypes'
         /\ \/ Crashed /\ job' = NoJob
            \/ /\ ~Crashed /\ job'.cmd = job.cmd /\ job'.file = job.file
               /\ \/ /\ ret'.value < 0 /\ job'.mounted = job.mounted
                     /\ job'.left = IF call = "mount" THEN <<"exit">> ELSE Bail
                  \/ /\ ~(ret'.value < 0) /\ job'.left = job.left
                     /\ job'.mounted = FlagAfter(call)
<1>1. CASE Crashed
  BY <1>1, NoJobTypes DEF ScriptCall, JobTypes
<1>2. CASE ~Crashed
  <2> DEFINE fd == IF call = "open" THEN ret'.value ELSE job.fs_fd
             end == IF call = "mount" THEN <<"exit">> ELSE Bail
  <2>1. fd \in FdArgs
    BY OpenedFd DEF ScriptCall, LibraryCall, JobTypes
  <2>2. FlagAfter(call) \in BOOLEAN
    BY DEF FlagAfter, JobTypes
  <2>3. IF ret'.value < 0
        THEN job' = [job EXCEPT !.left = end, !.fs_fd = fd]
        ELSE job' = [job EXCEPT !.fs_fd = fd, !.mounted = FlagAfter(call)]
    BY <1>2 DEF ScriptCall
  <2> HIDE DEF fd, end
  <2>4. CASE ret'.value < 0
    <3>1. JobTypes' /\ job'.left = end /\ job'.cmd = job.cmd /\ job'.file = job.file
          /\ job'.mounted = job.mounted
      BY <2>1, <2>3, <2>4 DEF JobTypes
    <3> QED
      BY <1>2, <2>4, <3>1 DEF end
  <2>5. CASE ~(ret'.value < 0)
    BY <1>2, <2>1, <2>2, <2>3, <2>5 DEF JobTypes
  <2> QED
    BY <2>4, <2>5
<1> QED
  BY <1>1, <1>2

\* The invariant after a step, from the part of it that is about the command.
LEMMA NobodyNext ==
  ASSUME JobTypes', job' = NoJob, file_system' = "null", Idle'
  PROVE  JobInv'
<1>1. job'.cmd = "none"
  BY NoJobTypes
<1> QED
  BY <1>1 DEF JobInv, NoneRuns, DirectCommands, DriverCommands, DemoPrograms

LEMMA DirectNext ==
  ASSUME JobTypes', job'.cmd \in DirectCommands, DirectRuns'
  PROVE  JobInv'
  BY DEF JobInv, DirectCommands, DriverCommands, DemoPrograms

LEMMA ScriptNext ==
  ASSUME JobTypes', job'.cmd = "script", ScriptRuns'
  PROVE  JobInv'
  BY DEF JobInv, DirectCommands, DriverCommands, DemoPrograms

LEMMA DemoNext ==
  ASSUME JobTypes', job'.cmd \in DemoPrograms, Idle',
         job'.cmd = "simple_writer" => WriterRuns',
         job'.cmd = "simple_reader" => ReaderRuns',
         job'.cmd = "mount_tester" => TesterRuns'
  PROVE  JobInv'
  BY DEF JobInv, DirectCommands, DriverCommands, DemoPrograms

LEMMA EndNext ==
  ASSUME ProcessEnds, job' = NoJob
  PROVE  JobInv'
<1>1. JobTypes'
  BY NoJobTypes DEF JobTypes
<1> QED
  BY <1>1, NobodyNext DEF ProcessEnds, Idle

----------------------------------------------------------------------------
(* The commands that are neither a script nor a demo.                      *)

\* The exit that follows a mount or an unmount.
LEMMA MountFollow ==
  ASSUME job.cmd \notin DemoPrograms, NEW value
  PROVE  /\ value < 0 => Following("mount", value) = <<"exit">>
         /\ ~(value < 0) => Following("mount", value) = Tail(job.left)
  BY DEF Following

LEMMA UmountFollow ==
  ASSUME job.cmd \notin DemoPrograms, NEW value
  PROVE  Following("umount", value) = Tail(job.left)
  BY DEF Following

LEMMA BailTails ==
  /\ Bail # <<>> /\ Head(Bail) = "umount" /\ Tail(Bail) = <<"exit">>
  /\ Head(<<"exit">>) = "exit" /\ Head(<<"line">>) = "line"
  /\ Bail # <<"exit">> /\ Bail # <<"line">> /\ <<"exit">> # <<"line">>
  BY DEF Bail

LEMMA DirectCommandStep ==
  ASSUME JobInv, FsInv, job.cmd \in DirectCommands,
         NEW call \in AllCalls, CommandStep(call)
  PROVE  JobInv'
<1>1. /\ JobTypes /\ FdTypeOK /\ DirectRuns /\ job.cmd \notin DemoPrograms
      /\ Up(call) /\ LibraryCall(call, job.file, job.fs_fd)
  BY DEF JobInv, FsInv, TypeOK, CommandStep, DirectCommands, DriverCommands, DemoPrograms
<1>2. /\ JobTypes'
      /\ \/ Crashed /\ job' = NoJob
         \/ /\ ~Crashed /\ job'.left = Following(call, ret'.value)
            /\ job'.cmd = job.cmd
  BY <1>1, CommandStepTypes
<1>3. job.left # <<"exit">>
  BY <1>1, BailTails DEF Up, AllCalls, ScriptCalls
<1>4. CASE call = "mount"
  <2>1. job.left = Calls(job.cmd) /\ file_system = "null" /\ Idle
    BY <1>1, <1>3, <1>4, WorkHeads DEF DirectRuns, Up
  <2>2. PICK d \in DiskArgs : fs_mount(d)
    BY <1>1, <1>4 DEF LibraryCall
  <2>3. Idle' /\ ~Crashed
    BY <2>2, MountCall DEF Idle, Crashed, NoCall
  <2>4. CASE ret'.value = -1
    <3>1. job'.left = <<"exit">> /\ ~Mounted'
      BY <1>1, <1>2, <1>4, <2>1, <2>2, <2>3, <2>4, MountCall, MountFollow DEF Mounted
    <3> QED
      BY <1>2, <2>3, <3>1, DirectNext DEF DirectRuns
  <2>5. CASE ret'.value = 0
    <3>1. job'.left = Tail(job.left) /\ Mounted'
      <4>1. Mounted'
        BY <2>2, <2>5, MountCall DEF Mounted
      <4>2. Following("mount", ret'.value) = Tail(job.left)
        BY <1>1, <2>5, MountFollow
      <4> QED
        BY <1>2, <1>4, <2>3, <4>1, <4>2
    <3>2. Working(job'.cmd, job'.left)
      BY <1>2, <2>1, <2>3, <3>1, WorkBegins
    <3> QED
      BY <1>2, <2>3, <3>1, <3>2, DirectNext DEF DirectRuns
  <2> QED
    BY <2>2, <2>4, <2>5, MountCall
<1>5. ASSUME call # "mount"
      PROVE  Working(job.cmd, job.left) /\ Mounted /\ Idle /\ job.left # <<>>
             /\ Head(job.left) = call
  BY <1>1, <1>3, <1>5, CallsBegin DEF DirectRuns, Up
<1>6. CASE call = "umount"
  <2>1. job.left = Bail
    BY <1>5, <1>6, WorkHeads
  <2>2. writeback' # NotWriting
    BY <1>1, <1>5, <1>6, UmountCall DEF LibraryCall, ProcessEnds, Mounted
  <2>3. job'.left = <<"exit">>
    BY <1>1, <1>2, <1>6, <2>1, <2>2, UmountFollow, BailTails DEF Crashed
  <2> QED
    BY <1>2, <2>2, <2>3, DirectNext DEF DirectRuns, Idle, Crashed
<1>7. CASE call \in QuietCalls
  <2>1. Mounted' /\ Idle' /\ ~Crashed
    BY <1>1, <1>5, <1>7, QuietCall DEF QuietCalls, Mounted, Idle, Crashed, NoCall
  <2>2. \/ Working(job.cmd, job'.left)
        \/ job'.left = <<"exit">> /\ CatOfEmpty(call, ret'.value)
    BY <1>2, <1>5, <1>7, <2>1, WorkGoesOn DEF QuietCalls
  <2>3. call = "stat" => ret'.call = "fs_stat"
    BY <1>1, StatCall
  <2> QED
    BY <1>2, <2>1, <2>2, <2>3, DirectNext DEF DirectRuns, ToldEmpty, CatOfEmpty
<1> QED
  BY <1>4, <1>6, <1>7 DEF QuietCalls

\* fs_umount() at work.
LEMMA UnmountingStep ==
  ASSUME FsInv, Unmounting
  PROVE  /\ ~Idle /\ Mounted /\ UNCHANGED job
         /\ \/ ~Idle' \/ ~Mounted'
<1>1. ~Idle
  BY GeometryTypes DEF Unmounting, WriteFatBlock, WriteRootAndRelease, Idle, NotWriting
<1>2. Mounted
  BY <1>1 DEF FsInv, DiskHeld
<1>3. CASE WriteFatBlock
  <2>1. writeback' # NotWriting
    BY <1>3, GeometryTypes DEF WriteFatBlock, NotWriting
  <2> QED
    BY <1>1, <1>2, <2>1 DEF Idle, Unmounting
<1>4. CASE WriteRootAndRelease
  BY <1>1, <1>2, <1>4 DEF WriteRootAndRelease, Mounted, Unmounting
<1> QED
  BY <1>3, <1>4 DEF Unmounting

LEMMA DirectStep ==
  ASSUME JobInv, FsInv, job.cmd \in DirectCommands, TestNext
  PROVE  JobInv'
<1>1. JobTypes /\ DirectRuns
  BY DEF JobInv
<1>2. job # NoJob /\ ~Up("line")
  <2>1. job.left # <<"line">> /\ (job.left # <<>> => Head(job.left) # "line")
    BY <1>1, BailTails, WorkHeads, CallsBegin DEF DirectRuns
  <2> QED
    BY <2>1, NoJobTypes DEF Up, DirectCommands, DriverCommands
<1>3. CASE \E call \in AllCalls : CommandStep(call)
  BY <1>3, DirectCommandStep
<1>4. CASE Unmounting
  <2>1. job.left = <<"exit">> /\ ~(Mounted' /\ Idle')
    BY <1>1, <1>4, UnmountingStep DEF DirectRuns, Mounted
  <2>2. UNCHANGED job
    BY <1>4 DEF Unmounting
  <2> QED
    BY <1>1, <2>1, <2>2, DirectNext DEF DirectRuns, JobTypes
<1>5. CASE Exits \/ Killed
  BY <1>5, EndNext DEF Exits, Killed
<1> QED
  BY <1>2, <1>3, <1>4, <1>5
  DEF TestNext, Start, ScriptCall, ScriptDataMissing, ScriptEnds

----------------------------------------------------------------------------
(* Scripts.                                                                *)

LEMMA ScriptCallStep ==
  ASSUME JobInv, FsInv, job.cmd = "script",
         NEW call \in ScriptCalls, NEW n \in Names, ScriptCall(call, n)
  PROVE  JobInv'
<1>1. /\ JobTypes /\ FdTypeOK /\ ScriptRuns /\ Idle
      /\ job.left # <<>> /\ Head(job.left) = "line"
      /\ call = "umount" => job.mounted
      /\ LibraryCall(call, n, job.fs_fd)
  BY DEF JobInv, FsInv, TypeOK, ScriptCall, Up
<1>2. job.left = <<"line">> /\ (job.mounted <=> Mounted)
  BY <1>1, BailTails DEF ScriptRuns
<1>3. /\ JobTypes'
      /\ \/ Crashed /\ job' = NoJob
         \/ /\ ~Crashed /\ job'.cmd = "script"
            /\ \/ /\ ret'.value < 0 /\ job'.mounted = job.mounted
                  /\ job'.left = IF call = "mount" THEN <<"exit">> ELSE Bail
               \/ /\ ~(ret'.value < 0) /\ job'.left = job.left
                  /\ job'.mounted = FlagAfter(call)
  BY <1>1, ScriptCallTypes
<1>4. CASE call = "mount"
  <2>1. PICK d \in DiskArgs : fs_mount(d)
    BY <1>1, <1>4 DEF LibraryCall
  <2>2. Idle' /\ ~Crashed /\ ret'.call = "fs_mount"
    BY <2>1, MountCall DEF Idle, Crashed, NoCall
  <2>3. CASE ret'.value = -1
    <3>1. ret'.value < 0
      BY <2>3
    <3>2. job'.left = <<"exit">>
      BY <1>3, <1>4, <2>2, <3>1
    <3> QED
      BY <1>3, <2>2, <2>3, <3>2, ScriptNext DEF ScriptRuns
  <2>4. CASE ret'.value = 0
    <3>1. ~(ret'.value < 0)
      BY <2>4
    <3>2. job'.left = <<"line">> /\ job'.mounted = TRUE
      BY <1>2, <1>3, <1>4, <2>2, <3>1 DEF FlagAfter
    <3>3. Mounted'
      BY <2>1, <2>4, MountCall DEF Mounted
    <3> QED
      BY <1>3, <2>2, <3>2, <3>3, ScriptNext DEF ScriptRuns
  <2> QED
    BY <2>1, <2>3, <2>4, MountCall
<1>5. CASE call = "umount"
  <2>1. Mounted
    BY <1>1, <1>2, <1>5
  <2>2. ret' = NoCall /\ ~Idle'
    BY <1>1, <1>5, <2>1, UmountCall DEF LibraryCall, ProcessEnds, Mounted, Idle
  <2>3. ~Crashed /\ ~(ret'.value < 0)
    BY <2>2 DEF Crashed, Idle, NoCall
  <2>4. job'.left = <<"line">> /\ job'.mounted = FALSE
    BY <1>2, <1>3, <1>5, <2>3 DEF FlagAfter
  <2> QED
    BY <1>3, <2>2, <2>3, <2>4, ScriptNext DEF ScriptRuns
<1>6. CASE call \in QuietCalls
  <2>1. CASE ProcessEnds
    <3>1. Crashed
      BY <2>1 DEF ProcessEnds, Crashed
    <3> QED
      BY <1>3, <2>1, <3>1, EndNext
  <2>2. CASE ~ProcessEnds
    <3>1. Idle' /\ ~Crashed /\ (Mounted' <=> Mounted)
      BY <1>1, <1>6, <2>2, QuietCall DEF Mounted, Idle, Crashed, NoCall
    <3>2. job'.mounted = job.mounted /\ job'.left \in {Bail, <<"line">>}
      BY <1>2, <1>3, <1>6, <3>1 DEF FlagAfter, QuietCalls
    <3> QED
      BY <1>2, <1>3, <3>1, <3>2, ScriptNext DEF ScriptRuns
  <2> QED
    BY <2>1, <2>2
<1> QED
  BY <1>4, <1>5, <1>6 DEF QuietCalls, AllCalls

LEMMA ScriptCommandStep ==
  ASSUME JobInv, FsInv, job.cmd = "script",
         NEW call \in AllCalls, CommandStep(call)
  PROVE  JobInv'
<1>1. /\ JobTypes /\ FdTypeOK /\ ScriptRuns /\ job.cmd \notin DemoPrograms
      /\ job.left # <<>> /\ Head(job.left) = call
      /\ LibraryCall(call, job.file, job.fs_fd)
  BY DEF JobInv, FsInv, TypeOK, CommandStep, Up, DemoPrograms
<1>2. /\ JobTypes'
      /\ \/ Crashed /\ job' = NoJob
         \/ /\ ~Crashed /\ job'.left = Following(call, ret'.value)
            /\ job'.cmd = "script"
  BY <1>1, CommandStepTypes
<1>3. call # "exit" /\ call # "line"
  BY DEF AllCalls, ScriptCalls
<1>4. job.left = Bail /\ call = "umount"
  BY <1>1, <1>3, BailTails DEF ScriptRuns
<1>5. fs_umount
  BY <1>1, <1>4 DEF LibraryCall
<1>6. CASE Crashed
  <2>1. ProcessEnds
    BY <1>5, <1>6, UmountCall DEF Crashed, NoCall
  <2> QED
    BY <1>2, <1>6, <2>1, EndNext
<1>7. CASE ~Crashed
  <2>1. job'.left = <<"exit">>
    BY <1>1, <1>2, <1>4, <1>7, UmountFollow, BailTails
  <2>2. ~(Mounted' /\ Idle')
    <3>1. ~ProcessEnds
      BY <1>7 DEF ProcessEnds, Crashed
    <3> QED
      BY <1>5, <3>1, UmountCall DEF Mounted, Idle
  <2> QED
    BY <1>2, <1>7, <2>1, <2>2, ScriptNext DEF ScriptRuns
<1> QED
  BY <1>6, <1>7

LEMMA ScriptStep ==
  ASSUME JobInv, FsInv, job.cmd = "script", TestNext
  PROVE  JobInv'
<1>1. JobTypes /\ ScriptRuns /\ job # NoJob
  BY NoJobTypes DEF JobInv
<1>2. CASE ScriptDataMissing \/ ScriptEnds
  <2>1. /\ job.left = <<"line">> /\ Idle /\ (job.mounted <=> Mounted)
        /\ UNCHANGED vars
    BY <1>1, <1>2, BailTails DEF ScriptRuns, ScriptDataMissing, ScriptEnds, Up
  <2>2. PICK left : /\ job' = [job EXCEPT !.left = left]
                    /\ left = Bail \/ (left = <<"exit">> /\ ~Mounted)
    BY <1>2, <2>1 DEF ScriptDataMissing, ScriptEnds
  <2>3. JobTypes' /\ job'.cmd = "script" /\ job'.left = left /\ job'.mounted = job.mounted
    BY <1>1, <2>2 DEF JobTypes
  <2>4. Idle' /\ Mounted' = Mounted
    BY <2>1 DEF vars, fsVars, Idle, Mounted
  <2> QED
    BY <2>1, <2>2, <2>3, <2>4, ScriptNext DEF ScriptRuns
<1>3. CASE Unmounting
  <2>1. /\ ~Idle /\ Mounted /\ UNCHANGED job /\ (~Idle' \/ ~Mounted')
    BY <1>3, UnmountingStep
  <2>2. \/ job.left = <<"line">> /\ ~job.mounted
        \/ job.left = <<"exit">>
    BY <1>1, <2>1 DEF ScriptRuns
  <2> QED
    BY <1>1, <2>1, <2>2, ScriptNext DEF ScriptRuns, JobTypes
<1>4. CASE Exits \/ Killed
  BY <1>4, EndNext DEF Exits, Killed
<1> QED
  BY <1>1, <1>2, <1>3, <1>4, ScriptCallStep, ScriptCommandStep DEF TestNext, Start

----------------------------------------------------------------------------
(* Demos.                                                                  *)

LEMMA DemoLists ==
  /\ WriterCalls # <<>> /\ Head(WriterCalls) = "mount"
  /\ Tail(WriterCalls) # <<>> /\ Head(Tail(WriterCalls)) = "create"
  /\ Tail(Tail(WriterCalls)) # <<>> /\ Head(Tail(Tail(WriterCalls))) = "open"
  /\ ReaderCalls # <<>> /\ Head(ReaderCalls) = "mount"
  /\ Head(Tail(ReaderCalls)) = "open" /\ Head(Tail(Tail(ReaderCalls))) = "seek"
  /\ Tail(Tail(Tail(ReaderCalls))) = <<"read", "close", "umount", "exit">>
  /\ Head(<<"read", "close", "umount", "exit">>) = "read"
  /\ Head(TesterCalls) = "mount" /\ Head(Tail(TesterCalls)) = "mount"
  /\ Head(Tail(Tail(TesterCalls))) = "mount"
  /\ Tail(Tail(Tail(TesterCalls))) = <<"exit">>
  /\ Head(<<"exit">>) = "exit"
  BY DEF WriterCalls, ReaderCalls, TesterCalls

LEMMA DemoBegins ==
  /\ Calls("simple_writer") = WriterCalls
  /\ Calls("simple_reader") = ReaderCalls
  /\ Calls("mount_tester") = TesterCalls
  BY DEF Calls, DemoPrograms, DemoCalls

LEMMA DemoFollow ==
  ASSUME job.cmd \in DemoPrograms, NEW call, NEW value
  PROVE  Following(call, value) =
            IF AssertFails(job.cmd, call, value, job.letters) THEN <<"exit">>
            ELSE Tail(job.left)
  BY DEF Following, DemoPrograms, DemoFollowing

\* The file a create has made is in the directory, and cannot be opened.
LEMMA CreatedIsThere ==
  ASSUME NEW n, Mounted, fs_create(n), ret'.value # -1
  PROVE  UNCHANGED file_system /\ Matches(root_dir', n) # {} /\ ret'.value = 0
<1>1. ~Dangling
  BY DEF Mounted, Dangling
<1>2. ~Reports("fs_create", n, -1)
  BY Returned DEF Reports
<1>3. /\ FreeEntries(root_dir) # {} /\ root_dir' = FillFree(root_dir, n)
      /\ Returns("fs_create", n, 0) /\ UNCHANGED file_system
  BY <1>1, <1>2 DEF fs_create
<1>4. PICK i \in EntryIndex : root_dir[i].isEmpty
  BY <1>3 DEF FreeEntries
<1>5. root_dir'[i].filename = n
  BY <1>3, <1>4 DEF FillFree, NewEntry
<1>6. i \in Matches(root_dir', n)
  BY <1>5 DEF Matches
<1> QED
  BY <1>3, <1>6, Returned

LEMMA ThereIsNotOpened ==
  ASSUME NEW n, Mounted, Matches(root_dir, n) # {}, fs_open(n)
  PROVE  ret'.value = -1
<1>1. ~OpenAccepted(n)
  BY DEF OpenAccepted
<1> QED
  BY <1>1, Returned DEF fs_open, Reports

LEMMA ReadsNothing ==
  ASSUME NEW fd, fs_read(fd)
  PROVE  ret'.value = 0
  BY Returned DEF fs_read, Reports

LEMMA WriterCommandStep ==
  ASSUME JobTypes, WriterRuns, job.cmd = "simple_writer",
         NEW call, Up(call), call # "exit", LibraryCall(call, job.file, job.fs_fd),
         job'.left = Following(call, ret'.value), job'.file = job.file
  PROVE  WriterRuns' /\ call \in {"mount", "create", "open"}
<1>1. job.left # <<>> /\ Head(job.left) = call /\ job.cmd \in DemoPrograms
  BY DEF Up, DemoPrograms
<1>2. job'.left = IF AssertFails("simple_writer", call, ret'.value, job.letters)
                  THEN <<"exit">> ELSE Tail(job.left)
  BY <1>1, DemoFollow
<1>3. ret'.value = -1 /\ call \in {"mount", "create", "open"}
         => AssertFails("simple_writer", call, ret'.value, job.letters)
  BY DEF AssertFails
<1>4. CASE job.left = WriterCalls
  <2>1. PICK d \in DiskArgs : call = "mount" /\ fs_mount(d)
    BY <1>1, <1>4, DemoLists DEF LibraryCall
  <2>2. job'.left \in {<<"exit">>, Tail(WriterCalls)}
        /\ (job'.left = <<"exit">> \/ file_system' = "mounted")
    BY <1>2, <1>3, <1>4, <2>1, MountCall
  <2> QED
    BY <2>1, <2>2 DEF WriterRuns, Mounted
<1>5. CASE job.left = Tail(WriterCalls) /\ Mounted
  <2>1. call = "create" /\ fs_create(job.file)
    BY <1>1, <1>5, DemoLists DEF LibraryCall
  <2>2. CASE ret'.value = -1
    BY <1>2, <1>3, <2>1, <2>2 DEF WriterRuns
  <2>3. CASE ret'.value # -1
    <3>1. Mounted' /\ Matches(root_dir', job.file) # {}
      BY <1>5, <2>1, <2>3, CreatedIsThere DEF Mounted
    <3>2. job'.left \in {<<"exit">>, Tail(Tail(WriterCalls))}
      BY <1>2, <1>5
    <3> QED
      BY <2>1, <3>1, <3>2 DEF WriterRuns
  <2> QED
    BY <2>2, <2>3
<1>6. CASE /\ job.left = Tail(Tail(WriterCalls))
           /\ Mounted /\ Matches(root_dir, job.file) # {}
  <2>1. call = "open" /\ fs_open(job.file)
    BY <1>1, <1>6, DemoLists DEF LibraryCall
  <2>2. ret'.value = -1
    BY <1>6, <2>1, ThereIsNotOpened
  <2> QED
    BY <1>2, <1>3, <2>1, <2>2 DEF WriterRuns
<1> QED
  BY <1>1, <1>4, <1>5, <1>6, DemoLists DEF WriterRuns

LEMMA ReaderCommandStep ==
  ASSUME ReaderRuns, job.cmd = "simple_reader",
         NEW call, Up(call), call # "exit", LibraryCall(call, job.file, job.fs_fd),
         job'.left = Following(call, ret'.value)
  PROVE  ReaderRuns' /\ call \in {"mount", "open", "seek", "read"}
<1>1. job.left # <<>> /\ Head(job.left) = call /\ job.cmd \in DemoPrograms
  BY DEF Up, DemoPrograms
<1>2. job'.left = IF AssertFails("simple_reader", call, ret'.value, job.letters)
                  THEN <<"exit">> ELSE Tail(job.left)
  BY <1>1, DemoFollow
<1>3. CASE job.left \in {ReaderCalls, Tail(ReaderCalls), Tail(Tail(ReaderCalls))}
  <2>1. call \in {"mount", "open", "seek"}
    BY <1>1, <1>3, DemoLists
  <2>2. Tail(job.left) \in {Tail(ReaderCalls), Tail(Tail(ReaderCalls)),
                            <<"read", "close", "umount", "exit">>}
    BY <1>3, DemoLists
  <2> QED
    BY <1>2, <2>1, <2>2 DEF ReaderRuns
<1>4. CASE job.left = <<"read", "close", "umount", "exit">>
  <2>1. call = "read" /\ fs_read(job.fs_fd)
    BY <1>1, <1>4, DemoLists DEF LibraryCall
  <2>2. AssertFails("simple_reader", call, ret'.value, job.letters)
    BY <2>1, ReadsNothing DEF AssertFails, ReadSize
  <2> QED
    BY <1>2, <2>1, <2>2 DEF ReaderRuns
<1> QED
  BY <1>1, <1>3, <1>4, DemoLists DEF ReaderRuns

LEMMA TesterCommandStep ==
  ASSUME TesterRuns, job.cmd = "mount_tester",
         NEW call, Up(call), call # "exit", job'.left = Following(call, ret'.value)
  PROVE  TesterRuns' /\ call = "mount"
<1>1. job.left # <<>> /\ Head(job.left) = call /\ job.cmd \in DemoPrograms
  BY DEF Up, DemoPrograms
<1>2. job'.left \in {<<"exit">>, Tail(job.left)}
  BY <1>1, DemoFollow
<1>3. job.left \in {TesterCalls, Tail(TesterCalls), Tail(Tail(TesterCalls))}
  BY <1>1, DemoLists DEF TesterRuns
<1>4. Tail(job.left) \in {Tail(TesterCalls), Tail(Tail(TesterCalls)), <<"exit">>}
  BY <1>3, DemoLists
<1> QED
  BY <1>1, <1>2, <1>3, <1>4, DemoLists DEF TesterRuns

LEMMA DemoCommandStep ==
  ASSUME JobInv, FsInv, job.cmd \in DemoPrograms,
         NEW call \in AllCalls, CommandStep(call)
  PROVE  JobInv' /\ UNCHANGED images
<1>1. /\ JobTypes /\ FdTypeOK /\ Idle /\ Up(call)
      /\ LibraryCall(call, job.file, job.fs_fd)
      /\ job.cmd = "simple_writer" => WriterRuns
      /\ job.cmd = "simple_reader" => ReaderRuns
      /\ job.cmd = "mount_tester" => TesterRuns
  BY DEF JobInv, FsInv, TypeOK, CommandStep
<1>2. /\ JobTypes'
      /\ \/ Crashed /\ job' = NoJob
         \/ /\ ~Crashed /\ job'.left = Following(call, ret'.value)
            /\ job'.cmd = job.cmd /\ job'.file = job.file
  BY <1>1, CommandStepTypes
<1>3. call # "exit"
  BY DEF AllCalls, ScriptCalls
<1>4. ~Crashed =>
         /\ job.cmd = "simple_writer" => WriterRuns' /\ call # "umount"
         /\ job.cmd = "simple_reader" => ReaderRuns' /\ call # "umount"
         /\ job.cmd = "mount_tester" => TesterRuns' /\ call # "umount"
  BY <1>1, <1>2, <1>3, WriterCommandStep, ReaderCommandStep, TesterCommandStep
<1>5. call # "umount"
  <2>1. job.left # <<>> /\ Head(job.left) = call
    BY <1>1 DEF Up
  <2> QED
    BY <1>1, <2>1, DemoLists DEF WriterRuns, ReaderRuns, TesterRuns, DemoPrograms
<1>6. CASE call = "mount"
  <2>1. Idle' /\ ~Crashed /\ UNCHANGED images
    BY <1>1, <1>6, MountCall DEF LibraryCall, Idle, Crashed, NoCall
  <2> QED
    BY <1>2, <1>4, <2>1, DemoNext
<1>7. CASE call \in QuietCalls
  <2>1. CASE ProcessEnds
    BY <1>2, <2>1, EndNext DEF ProcessEnds, Crashed
  <2>2. CASE ~ProcessEnds
    <3>1. Idle' /\ ~Crashed /\ UNCHANGED images
      BY <1>1, <1>7, <2>2, QuietCall DEF Idle, Crashed, NoCall
    <3> QED
      BY <1>2, <1>4, <3>1, DemoNext
  <2> QED
    BY <2>1, <2>2
<1> QED
  BY <1>5, <1>6, <1>7 DEF QuietCalls

LEMMA DemoStep ==
  ASSUME JobInv, FsInv, job.cmd \in DemoPrograms, TestNext
  PROVE  JobInv' /\ UNCHANGED images
<1>1. Idle /\ job # NoJob
  BY NoJobTypes DEF JobInv, DemoPrograms
<1>2. job.left = <<>> \/ Head(job.left) # "line"
  BY DemoLists DEF JobInv, WriterRuns, ReaderRuns, TesterRuns, DemoPrograms
<1>3. CASE Exits \/ Killed
  BY <1>3, EndNext DEF Exits, Killed, ProcessEnds
<1>4. ~Unmounting
  BY <1>1, UnmountingStep
<1> QED
  BY <1>1, <1>2, <1>3, <1>4, DemoCommandStep
  DEF TestNext, Start, ScriptCall, ScriptDataMissing, ScriptEnds, Up

----------------------------------------------------------------------------
(* All commands.                                                           *)

LEMMA NobodyStep ==
  ASSUME JobInv, FsInv, job.cmd = "none", TestNext
  PROVE  JobInv'
<1>1. job = NoJob /\ job.left = <<>> /\ file_system = "null" /\ Idle
  BY NoJobTypes DEF JobInv, NoneRuns
<1>2. ASSUME NEW cmd \in Commands, NEW d \in Disks, NEW n \in MaybeName, Start(cmd, d, n)
      PROVE  JobInv'
  <2>1. /\ JobTypes' /\ job'.cmd = cmd /\ job'.left = Calls(cmd)
        /\ job'.mounted = FALSE /\ UNCHANGED vars
    BY <1>2, StartTypes
  <2>2. file_system' = "null" /\ Idle' /\ ~Mounted'
    BY <1>1, <2>1 DEF vars, fsVars, Idle, Mounted
  <2>3. CASE cmd \in DirectCommands
    BY <2>1, <2>2, <2>3, DirectNext DEF DirectRuns
  <2>4. CASE cmd = "script"
    BY <2>1, <2>2, <2>4, CallsAre, ScriptNext DEF ScriptRuns
  <2>5. CASE cmd \in DemoPrograms
    <3>1. /\ job'.cmd = "simple_writer" => WriterRuns'
          /\ job'.cmd = "simple_reader" => ReaderRuns'
          /\ job'.cmd = "mount_tester" => TesterRuns'
      BY <2>1, DemoBegins DEF WriterRuns, ReaderRuns, TesterRuns
    <3> QED
      BY <2>1, <2>2, <2>5, <3>1, DemoNext
  <2> QED
    BY <2>3, <2>4, <2>5, TestFsAssumption DEF AllCommands, DirectCommands, DriverCommands
<1>3. CASE Exits \/ Killed
  BY <1>3, EndNext DEF Exits, Killed
<1>4. ~Unmounting
  BY <1>1, UnmountingStep
<1> QED
  BY <1>1, <1>2, <1>3, <1>4
  DEF TestNext, CommandStep, ScriptCall, ScriptDataMissing, ScriptEnds, Up

LEMMA JobInvInit == TestInit => JobInv
<1> SUFFICES ASSUME TestInit
             PROVE  JobInv
  OBVIOUS
<1>1. job = NoJob /\ job.cmd = "none" /\ JobTypes
  BY NoJobTypes DEF TestInit, JobTypes
<1>2. file_system = "null" /\ Idle
  BY DEF TestInit, Init, Idle
<1> QED
  BY <1>1, <1>2 DEF JobInv, NoneRuns, DirectCommands, DriverCommands, DemoPrograms

LEMMA JobInvStep == JobInv /\ FsInv /\ [TestNext]_testVars => JobInv'
<1> SUFFICES ASSUME JobInv, FsInv, [TestNext]_testVars
             PROVE  JobInv'
  OBVIOUS
<1>1. CASE TestNext
  <2>1. job.cmd \in DirectCommands \cup {"script", "none"} \cup DemoPrograms
    BY TestFsAssumption DEF JobInv, JobTypes, AllCommands, DirectCommands
  <2> QED
    BY <1>1, <2>1, DirectStep, ScriptStep, DemoStep, NobodyStep
<1>2. CASE UNCHANGED testVars
  <2>1. /\ job' = job /\ file_system' = file_system /\ writeback' = writeback
        /\ root_dir' = root_dir /\ ret' = ret
    BY <1>2 DEF testVars, vars, fsVars
  <2>2. /\ JobTypes' /\ NoneRuns' = NoneRuns /\ DirectRuns' = DirectRuns
        /\ ScriptRuns' = ScriptRuns /\ WriterRuns' = WriterRuns
        /\ ReaderRuns' = ReaderRuns /\ TesterRuns' = TesterRuns /\ Idle' = Idle
    BY <2>1 DEF JobInv, JobTypes, NoneRuns, DirectRuns, ToldEmpty, ScriptRuns,
                WriterRuns, ReaderRuns, TesterRuns, Idle, Mounted, Matches
  <2> QED
    BY <2>1, <2>2 DEF JobInv
<1> QED
  BY <1>1, <1>2

\* A program is one of the callers of the library, so what is proved of the
\* library holds whatever users run.
THEOREM ProgramsAreCallers == TestSpec => Spec
<1>1. TestInit => Init
  BY DEF TestInit
<1>2. JobInv /\ [TestNext]_testVars => [Next]_vars
  BY CallerStep DEF JobInv
<1>3. FsInv /\ [Next]_vars => FsInv'
  BY FsInvStep
<1> QED
  BY <1>1, <1>2, <1>3, FsInvInit, JobInvInit, JobInvStep, PTL DEF TestSpec, Spec

LEMMA ProgramInvariance == TestSpec => [](JobInv /\ FsInv)
<1>1. TestInit => Init
  BY DEF TestInit
<1>2. JobInv /\ [TestNext]_testVars => [Next]_vars
  BY CallerStep DEF JobInv
<1> QED
  BY <1>1, <1>2, FsInvInit, FsInvStep, JobInvInit, JobInvStep, PTL DEF TestSpec

\* test_fs.c, thread_fs_script: the flag `mounted` is that of the library
\* whenever a line of the script is about to be read, for every fault.
THEOREM FlagAgreesHolds == TestSpec => []FlagAgrees
<1>1. JobInv => FlagAgrees
  <2> SUFFICES ASSUME JobInv, Up("line"), Idle
               PROVE  job.mounted <=> Mounted
    BY DEF FlagAgrees
  <2>1. job.left # <<>> /\ Head(job.left) = "line"
    BY DEF Up
  <2>2. job.cmd = "none" => job.left = <<>>
    BY NoJobTypes DEF JobInv, NoneRuns
  <2>3. job.cmd \notin DirectCommands
    BY <2>1, WorkHeads, CallsBegin, BailTails DEF JobInv, DirectRuns
  <2>4. job.cmd \notin DemoPrograms
    BY <2>1, DemoLists DEF JobInv, WriterRuns, ReaderRuns, TesterRuns, DemoPrograms
  <2>5. job.cmd = "script"
    BY <2>1, <2>2, <2>3, <2>4, TestFsAssumption
    DEF JobInv, JobTypes, AllCommands, DirectCommands
  <2> QED
    BY <2>1, <2>5, BailTails DEF JobInv, ScriptRuns
<1> QED
  BY <1>1, ProgramInvariance, PTL

\* test_fs.c: no command unmounts a disk it has not mounted, nor a script a
\* disk its flag does not vouch for.
THEOREM UmountMeetsMountHolds == TestSpec => []UmountMeetsMount
<1>1. JobInv => UmountMeetsMount
  <2> SUFFICES ASSUME JobInv, Up("umount"), Idle, job.cmd # "script" \/ job.mounted
               PROVE  Mounted
    BY DEF UmountMeetsMount
  <2>1. job.left # <<>> /\ Head(job.left) = "umount"
    BY DEF Up
  <2>2. job.cmd = "none" => job.left = <<>>
    BY NoJobTypes DEF JobInv, NoneRuns
  <2>3. job.cmd \notin DemoPrograms
    BY <2>1, DemoLists DEF JobInv, WriterRuns, ReaderRuns, TesterRuns, DemoPrograms
  <2>4. CASE job.cmd = "script"
    BY <2>1, <2>4, BailTails DEF JobInv, ScriptRuns
  <2>5. CASE job.cmd \in DirectCommands
    BY <2>1, <2>5, CallsBegin, BailTails DEF JobInv, DirectRuns
  <2> QED
    BY <2>1, <2>2, <2>3, <2>4, <2>5, TestFsAssumption
    DEF JobInv, JobTypes, AllCommands, DirectCommands
<1> QED
  BY <1>1, ProgramInvariance, PTL

\* test_fs.c: a command that has come to its end leaves no disk mounted, but
\* for a cat that was told of an empty file and a script whose second mount failed.
THEOREM EndsUnmountedHolds == TestSpec => []EndsUnmounted
<1>1. JobInv => EndsUnmounted
  <2> SUFFICES ASSUME JobInv, Up("exit"), Idle, Mounted, job.cmd \in DriverCommands,
                      ~ToldEmpty(ret)
               PROVE  job.cmd = "script" /\ ret.call = "fs_mount" /\ ret.value = -1
    BY DEF EndsUnmounted, ToldEmpty
  <2>1. job.left # <<>> /\ Head(job.left) = "exit"
    BY DEF Up
  <2>2. job.cmd \notin DirectCommands
    BY <2>1, CallsBegin, WorkHeads, BailTails DEF JobInv, DirectRuns
  <2>3. job.cmd = "script"
    BY <2>2 DEF DirectCommands
  <2> QED
    BY <2>1, <2>3, BailTails DEF JobInv, ScriptRuns
<1> QED
  BY <1>1, ProgramInvariance, PTL

\* simple_writer.c, simple_reader.c, mount_tester.c: no demo changes any disk,
\* whatever fails and whatever disk it is run on.
THEOREM DemosKeepDiskHolds == TestSpec => DemosKeepDisk
<1>1. JobInv /\ FsInv /\ [TestNext]_testVars
         => [job.cmd \in DemoPrograms => UNCHANGED images]_testVars
  BY DemoStep
<1> QED
  BY <1>1, ProgramInvariance, PTL DEF TestSpec, DemosKeepDisk

----------------------------------------------------------------------------
(* rm.                                                                     *)

LEMMA RmCalls ==
  ASSUME JobInv, job.cmd = "rm"
  PROVE  /\ \/ job.left = <<"mount", "delete", "umount", "exit">>
               /\ file_system = "null" /\ Idle
            \/ job.left \in {<<"delete", "umount", "exit">>, Bail} /\ Mounted /\ Idle
            \/ job.left = <<"exit">> /\ (~Mounted \/ ~Idle)
         /\ job.cmd \in DirectCommands
<1>1. job.cmd \in DirectCommands /\ DirectRuns
  BY DEF JobInv, DirectCommands, DriverCommands
<1> QED
  BY <1>1, CallsAre DEF DirectRuns, Working, ToldEmpty

\* A command begins at Start and nowhere else.
LEMMA CommandKept ==
  ASSUME JobInv, FsInv, [TestNext]_testVars, job'.cmd # job.cmd, job'.cmd # "none"
  PROVE  UNCHANGED vars /\ file_system = "null"
<1>1. JobTypes /\ FdTypeOK
  BY DEF JobInv, FsInv, TypeOK
<1>2. CASE \E cmd \in Commands, d \in Disks, n \in MaybeName : Start(cmd, d, n)
  <2>1. job = NoJob /\ UNCHANGED vars
    BY <1>2, StartTypes
  <2> QED
    BY <2>1, NoJobTypes DEF JobInv, NoneRuns
<1>3. CASE \E call \in AllCalls : CommandStep(call)
  BY <1>1, <1>3, CommandStepTypes, NoJobTypes
<1>4. CASE \E call \in ScriptCalls, n \in Names : ScriptCall(call, n)
  BY <1>1, <1>4, ScriptCallTypes, NoJobTypes
<1>5. CASE ScriptDataMissing \/ ScriptEnds
  BY <1>1, <1>5 DEF ScriptDataMissing, ScriptEnds, JobTypes
<1>6. CASE Unmounting \/ Exits \/ Killed \/ UNCHANGED testVars
  BY <1>6, NoJobTypes DEF Unmounting, Exits, Killed, testVars
<1> QED
  BY <1>2, <1>3, <1>4, <1>5, <1>6 DEF TestNext

\* What steps of a command that is neither a script nor a demo are there.
LEMMA DirectSteps ==
  ASSUME JobInv, FsInv, [TestNext]_testVars, job.cmd \in DirectCommands, job' # NoJob
  PROVE  \/ UNCHANGED testVars
         \/ Unmounting
         \/ \E call \in AllCalls :
               /\ Up(call) /\ LibraryCall(call, job.file, job.fs_fd)
               /\ ~Crashed /\ job'.left = Following(call, ret'.value)
               /\ job'.cmd = job.cmd /\ job'.file = job.file /\ job'.disk = job.disk
<1>1. JobTypes /\ FdTypeOK /\ DirectRuns /\ job # NoJob
  BY NoJobTypes DEF JobInv, FsInv, TypeOK, DirectCommands, DriverCommands
<1>2. ~Up("line")
  BY <1>1, BailTails, WorkHeads, CallsBegin DEF DirectRuns, Up
<1>3. ASSUME NEW call \in AllCalls, CommandStep(call)
      PROVE  /\ Up(call) /\ LibraryCall(call, job.file, job.fs_fd)
             /\ ~Crashed /\ job'.left = Following(call, ret'.value)
             /\ job'.cmd = job.cmd /\ job'.file = job.file /\ job'.disk = job.disk
  BY <1>1, <1>3, CommandStepTypes DEF CommandStep
<1> QED
  BY <1>1, <1>2, <1>3
  DEF TestNext, Start, ScriptCall, ScriptDataMissing, ScriptEnds, Exits, Killed

LEMMA DeleteClears ==
  ASSUME NEW n, Mounted, fs_delete(n)
  PROVE  /\ UNCHANGED <<file_system, diskname>>
         /\ root_dir' = ClearMatches(root_dir, n)
  BY DEF Mounted, Dangling, fs_delete, whichDisk

LEMMA MountedDisk ==
  ASSUME NEW d, fs_mount(d), ret'.value = 0
  PROVE  diskname' = d
  BY DEF fs_mount, MountRefused, MountUnchecked, MountLoaded, Returns

LEMMA RmInvStep ==
  ASSUME Faults = {}
  PROVE  JobInv /\ FsInv /\ RmInv /\ [TestNext]_testVars => RmInv'
<1> SUFFICES ASSUME JobInv, FsInv, RmInv, [TestNext]_testVars, job'.cmd = "rm"
             PROVE  RmInv'
  BY DEF RmInv
<1>1. FsTypeOK
  BY DEF FsInv, TypeOK, FsTypeOK
<1>2. CASE job.cmd # "rm"
  <2>1. file_system' = "null"
    BY <1>2, CommandKept DEF vars, fsVars
  <2> QED
    BY <2>1 DEF RmInv, Mounted
<1>3. CASE UNCHANGED testVars
  BY <1>3 DEF testVars, vars, fsVars, whichDisk, RmInv, GoneFrom, Mounted
<1>4. CASE job.cmd = "rm" /\ Unmounting
  <2>1. job.left = <<"exit">> /\ UNCHANGED job /\ Mounted
    BY <1>4, RmCalls, UnmountingStep
  <2>2. GoneFrom(root_dir) /\ diskname = job.disk
    BY <1>4, <2>1 DEF RmInv
  <2>3. CASE WriteFatBlock
    <3>1. UNCHANGED <<root_dir, file_system, diskname>>
      BY <2>3 DEF WriteFatBlock, whichDisk
    <3> QED
      BY <2>1, <2>2, <3>1 DEF RmInv, GoneFrom, Mounted
  <2>4. CASE WriteRootAndRelease
    <3>1. WholePart(image'.root) = WholePart(root_dir)
      BY <1>1, <2>4, WholeSaved
    <3>2. \A i \in WholeEntries : image'.root[i] = root_dir[i]
      BY <3>1 DEF WholePart
    <3>3. ~Mounted' /\ UNCHANGED diskname
      BY <2>4 DEF WriteRootAndRelease, Mounted, whichDisk
    <3>4. image' = images'[job'.disk]
      BY <2>1, <2>2, <3>3 DEF image
    <3> QED
      BY <2>1, <2>2, <3>2, <3>3, <3>4 DEF RmInv, GoneFrom
  <2> QED
    BY <1>4, <2>3, <2>4 DEF Unmounting
<1>5. ASSUME job.cmd = "rm", NEW call \in AllCalls,
             Up(call), LibraryCall(call, job.file, job.fs_fd), ~Crashed,
             job'.left = Following(call, ret'.value), job'.file = job.file,
             job'.disk = job.disk
      PROVE  RmInv'
  <2>1. job.left # <<>> /\ Head(job.left) = call /\ job.cmd \notin DemoPrograms
    BY <1>5 DEF Up, DemoPrograms
  <2>2. call # "exit"
    BY DEF AllCalls, ScriptCalls
  <2>3. CASE job.left = <<"mount", "delete", "umount", "exit">> /\ file_system = "null"
    <3>1. PICK d \in DiskArgs : call = "mount" /\ fs_mount(d)
      BY <1>5, <2>1, <2>3 DEF LibraryCall
    <3>2. CASE ret'.value = 0
      <4>1. Following("mount", ret'.value) = Tail(job.left)
        BY <2>1, <3>2, MountFollow
      <4>2. job'.left = <<"delete", "umount", "exit">>
        BY <1>5, <2>3, <3>1, <4>1, CallTails
      <4>3. file_system' = "mounted"
        BY <3>1, <3>2, MountCall
      <4>4. diskname' = job'.disk
        BY <1>5, <3>1, <3>2, MountedDisk DEF DiskArgs
      <4> QED
        BY <4>2, <4>3, <4>4 DEF RmInv
    <3>3. CASE ret'.value = -1
      <4>1. file_system' \in {"null", "unchecked"}
        BY <2>3, <3>1, <3>3, MountCall
      <4> QED
        BY <4>1 DEF RmInv, Mounted
    <3> QED
      BY <3>1, <3>2, <3>3, MountCall
  <2>4. CASE job.left = <<"delete", "umount", "exit">> /\ Mounted
    <3>1. call = "delete" /\ fs_delete(job.file)
      BY <1>5, <2>1, <2>4 DEF LibraryCall
    <3>2. /\ Mounted' /\ root_dir' = ClearMatches(root_dir, job.file)
          /\ diskname' = job'.disk
      BY <1>5, <2>4, <3>1, DeleteClears DEF Mounted, RmInv
    <3>3. WholeEntries \subseteq EntryIndex
      BY GeometryTypes DEF WholeEntries, EntryIndex
    <3>4. GoneFrom(root_dir)'
      BY <1>1, <1>5, <3>2, <3>3 DEF GoneFrom, ClearMatches, FsTypeOK, Dir, Entry
    <3> QED
      BY <3>2, <3>4 DEF RmInv, Mounted
  <2>5. CASE job.left = Bail /\ Mounted
    <3>1. call = "umount" /\ fs_umount
      BY <1>5, <2>1, <2>5, BailTails DEF LibraryCall
    <3>2. UNCHANGED <<file_system, root_dir, diskname>>
      BY <2>5, <3>1, UmountCall DEF Mounted
    <3>3. GoneFrom(root_dir)
      <4>1. Bail # <<"delete", "umount", "exit">>
        BY DEF Bail
      <4> QED
        BY <1>5, <2>5, <4>1 DEF RmInv
    <3> QED
      BY <1>5, <2>5, <3>2, <3>3 DEF RmInv, GoneFrom, Mounted
  <2> QED
    BY <1>5, <2>1, <2>2, <2>3, <2>4, <2>5, RmCalls, BailTails
<1>6. CASE job.cmd = "rm"
  <2>1. job' # NoJob
    BY NoJobTypes
  <2> QED
    BY <1>3, <1>4, <1>5, <1>6, <2>1, RmCalls, DirectSteps
<1> QED
  BY <1>2, <1>6

\* thread_fs_rm, fs_delete, fs_umount: once rm has unmounted, all entries of
\* the file that lie whole on the root block are empty and free on the disk.
THEOREM RmIsDurableHolds ==
  ASSUME Faults = {}
  PROVE  TestSpec => []RmIsDurable
<1>1. TestInit => RmInv
  BY NoJobTypes DEF TestInit, RmInv
<1>2. JobInv /\ FsInv /\ RmInv /\ [TestNext]_testVars => RmInv'
  BY RmInvStep
<1>3. RmInv => RmIsDurable
  BY DEF RmInv, RmIsDurable, GoneFrom
<1> QED
  BY <1>1, <1>2, <1>3, ProgramInvariance, PTL DEF TestSpec

----------------------------------------------------------------------------
(* Commands that only look.                                                *)

\* What the disk holds for the next mount.
SameDisks == \A d \in Disks :
    /\ LoadFat(images'[d].fat, {}) = LoadFat(images[d].fat, {})
    /\ WholePart(images'[d].root) = WholePart(images[d].root)

InMemoryAsOnDisk == /\ fat_blocks = LoadFat(image.fat, {})
                    /\ WholePart(root_dir) = WholePart(image.root)

\* Without faults the disk changes in the steps of an unmount only.
LEMMA ImagesKept ==
  ASSUME Faults = {}, [Next]_vars
  PROVE  UNCHANGED images \/ WriteFatBlock \/ WriteRootAndRelease
<1>1. fs_umount => UNCHANGED images
  BY DEF fs_umount, ProcessEnds
<1>2. ASSUME NEW d \in Disks, fs_mount(d)
      PROVE  UNCHANGED images
  BY <1>2 DEF fs_mount, MountRefused, MountUnchecked, MountLoaded
<1>3. ASSUME NEW n \in MaybeName, fs_create(n) \/ fs_delete(n) \/ fs_open(n)
      PROVE  UNCHANGED images
  BY <1>3 DEF fs_create, fs_delete, fs_open, Reports, ProcessEnds
<1>4. ASSUME NEW fd \in FdArgs,
             \/ fs_close(fd) \/ fs_stat(fd) \/ fs_write(fd) \/ fs_read(fd)
             \/ \E offset \in Offsets : fs_lseek(fd, offset)
      PROVE  UNCHANGED images
  BY <1>4 DEF fs_close, fs_stat, fs_write, fs_read, fs_lseek, Reports
<1>5. fs_info \/ fs_ls \/ ProcessEnds \/ UNCHANGED vars => UNCHANGED images
  BY DEF fs_info, fs_ls, Reports, ProcessEnds, vars, fsVars
<1> QED
  BY <1>1, <1>2, <1>3, <1>4, <1>5 DEF Next

\* Writing back what was loaded changes nothing.
LEMMA RewritingKeepsFat ==
  ASSUME Faults = {}, FsInv, StoreInv, InMemoryAsOnDisk, WriteFatBlock
  PROVE  SameDisks /\ UNCHANGED <<fat_blocks, root_dir, file_system, diskname>>
<1>1. FsTypeOK
  BY DEF FsInv, TypeOK, FsTypeOK
<1>2. /\ image'.root = image.root /\ UNCHANGED diskname
      /\ \A d \in Disks : d # diskname => images'[d] = images[d]
  BY <1>1, RootUntouched
<1> DEFINE new == LoadFat(image'.fat, {})
           old == LoadFat(image.fat, {})
<1>3. diskname \in Disks /\ image = images[diskname] /\ image' = images'[diskname]
  BY <1>1, <1>2 DEF FsTypeOK, image
<1>4. PICK d \in Disks : d = diskname
  BY <1>3
<1>5. \A k \in FatIndex : new[k] \in {old[k], fat_blocks[k]}
  <2>1. FatStore(d)!Flush
    BY <1>4, FatFlush
  <2> QED
    BY <1>2, <1>3, <1>4, <2>1 DEF FatStore!Flush
<1>6. \A k \in FatIndex : new[k] = old[k]
  BY <1>5 DEF InMemoryAsOnDisk
<1>7. new = old
  <2>1. new = [k \in FatIndex |-> new[k]] /\ old = [k \in FatIndex |-> old[k]]
    BY DEF LoadFat
  <2> HIDE DEF new, old
  <2> QED
    BY <1>6, <2>1
<1> QED
  BY <1>2, <1>3, <1>7 DEF SameDisks, WriteFatBlock

LEMMA RewritingKeepsRoot ==
  ASSUME Faults = {}, FsInv, InMemoryAsOnDisk, WriteRootAndRelease
  PROVE  SameDisks
<1>1. FsTypeOK
  BY DEF FsInv, TypeOK, FsTypeOK
<1>2. diskname' = diskname
  BY DEF WriteRootAndRelease, whichDisk
<1>3. diskname \in Disks /\ image = images[diskname] /\ image' = images'[diskname]
  BY <1>1, <1>2 DEF FsTypeOK, image
<1>4. PICK root : images' = [images EXCEPT ![diskname].root = root]
  BY DEF WriteRootAndRelease
<1>5. /\ image'.fat = image.fat
      /\ \A d \in Disks : d # diskname => images'[d] = images[d]
  BY <1>1, <1>3, <1>4 DEF FsTypeOK
<1>6. WholePart(image'.root) = WholePart(root_dir)
  BY <1>1, WholeSaved
<1> QED
  BY <1>3, <1>5, <1>6 DEF SameDisks, InMemoryAsOnDisk

LEMMA WritesWhileMounted ==
  ASSUME FsInv, WriteFatBlock \/ WriteRootAndRelease
  PROVE  Mounted
<1>1. ~Idle
  BY GeometryTypes DEF WriteFatBlock, WriteRootAndRelease, Idle, NotWriting
<1> QED
  BY <1>1 DEF FsInv, DiskHeld

LEMMA LookerCalls ==
  ASSUME JobInv, job.cmd \in Lookers, NEW call \in AllCalls, Up(call)
  PROVE  call \in {"mount", "umount", "open", "stat", "read", "close", "ls", "info"}
<1>1. DirectRuns /\ job.cmd \in DirectCommands /\ Head(job.left) = call
  BY DEF JobInv, Lookers, DirectCommands, DriverCommands, Up
<1>2. call # "exit"
  BY DEF AllCalls, ScriptCalls
<1>3. CASE job.left = Calls(job.cmd)
  BY <1>1, <1>3, CallsBegin
<1>4. CASE Working(job.cmd, job.left)
  BY <1>1, <1>4 DEF Working, Lookers, Bail
<1> QED
  BY <1>1, <1>2, <1>3, <1>4, BailTails DEF DirectRuns

LEMMA LookInvStep ==
  ASSUME Faults = {}
  PROVE  JobInv /\ FsInv /\ StoreInv /\ LookInv /\ [TestNext]_testVars => LookInv'
<1> SUFFICES ASSUME JobInv, FsInv, StoreInv, LookInv, [TestNext]_testVars,
                    job'.cmd \in Lookers, Mounted'
             PROVE  InMemoryAsOnDisk'
  BY DEF LookInv, InMemoryAsOnDisk
<1>1. job.cmd = job'.cmd
  BY CommandKept DEF vars, fsVars, Mounted, Lookers
<1>2. job.cmd \in DirectCommands /\ job' # NoJob
  BY <1>1, NoJobTypes DEF Lookers, DirectCommands, DriverCommands
<1>3. Mounted => InMemoryAsOnDisk
  BY <1>1 DEF LookInv, InMemoryAsOnDisk
<1>4. CASE UNCHANGED <<file_system, fat_blocks, root_dir, images, diskname>>
  BY <1>3, <1>4 DEF InMemoryAsOnDisk, Mounted, image
<1>5. CASE UNCHANGED testVars
  BY <1>4, <1>5 DEF testVars, vars, fsVars, whichDisk
<1>6. CASE Unmounting
  <2>1. WriteFatBlock
    BY <1>6 DEF Unmounting, WriteRootAndRelease, Mounted
  <2>2. SameDisks /\ UNCHANGED <<fat_blocks, root_dir, diskname>>
    BY <1>3, <2>1, WritesWhileMounted, RewritingKeepsFat
  <2>3. diskname \in Disks
    BY DEF FsInv, TypeOK
  <2> QED
    BY <1>3, <2>1, <2>2, <2>3, WritesWhileMounted DEF SameDisks, InMemoryAsOnDisk, image
<1>7. ASSUME NEW call \in AllCalls, Up(call), LibraryCall(call, job.file, job.fs_fd)
      PROVE  InMemoryAsOnDisk'
  <2>1. ASSUME NEW d \in Disks, fs_mount(d)
        PROVE  InMemoryAsOnDisk'
    <3>1. CASE MountLoaded(d)
      <4>1. fat_blocks' = LoadFat(images[d].fat, {}) /\ image' = images[d]
        BY <3>1 DEF MountLoaded, UnreadBlocks, image
      <4> QED
        BY <3>1, <4>1, WholeLoaded DEF InMemoryAsOnDisk
    <3> QED
      BY <1>4, <2>1, <3>1 DEF fs_mount, MountRefused, MountUnchecked, Mounted, whichDisk
  <2>2. CASE fs_umount
    BY <1>4, <2>2, UmountCall DEF Mounted, ProcessEnds
  <2>3. ASSUME NEW fd, NEW n, fs_open(n) \/ fs_stat(fd) \/ fs_read(fd) \/ fs_close(fd)
        PROVE  InMemoryAsOnDisk'
    BY <1>4, <2>3 DEF fs_open, fs_stat, fs_read, fs_close, Reports, whichDisk
  <2>4. CASE fs_ls \/ fs_info
    BY <1>4, <2>4 DEF fs_ls, fs_info, Reports, ProcessEnds, Mounted, whichDisk
  <2> QED
    BY <1>1, <1>7, <2>1, <2>2, <2>3, <2>4, LookerCalls DEF LibraryCall, DiskArgs
<1> QED
  BY <1>2, <1>5, <1>6, <1>7, DirectSteps

\* thread_fs_stat, thread_fs_cat, thread_fs_ls, thread_fs_info: although their
\* unmount writes all metadata back, and wherever they are killed, every
\* disk keeps the FAT and the whole entries it had.
THEOREM LookingKeepsDiskHolds ==
  ASSUME Faults = {}
  PROVE  TestSpec => LookingKeepsDisk
<1>1. TestInit => Init /\ LookInv
  BY NoJobTypes DEF TestInit, LookInv, Lookers
<1>2. JobInv /\ [TestNext]_testVars => [Next]_vars
  BY CallerStep DEF JobInv
<1>3. JobInv /\ FsInv /\ StoreInv /\ LookInv /\ [TestNext]_testVars => LookInv'
  BY LookInvStep
<1>4. JobInv /\ FsInv /\ StoreInv /\ LookInv /\ [TestNext]_testVars
         => [job.cmd \in {"stat", "cat", "ls", "info"} => \A d \in Disks :
               /\ LoadFat(images'[d].fat, {}) = LoadFat(images[d].fat, {})
               /\ WholePart(images'[d].root) = WholePart(images[d].root)]_testVars
  <2> SUFFICES ASSUME JobInv, FsInv, StoreInv, LookInv, [TestNext]_testVars,
                      job.cmd \in Lookers
               PROVE  SameDisks
    BY DEF SameDisks, Lookers
  <2>1. Mounted => InMemoryAsOnDisk
    BY DEF LookInv, InMemoryAsOnDisk
  <2>2. UNCHANGED images => SameDisks
    BY DEF SameDisks
  <2> QED
    BY <1>2, <2>1, <2>2, ImagesKept, WritesWhileMounted, RewritingKeepsFat,
       RewritingKeepsRoot
<1> QED
  BY <1>1, <1>2, <1>3, <1>4, StoreInvInit, StoreInvStep, ProgramInvariance, PTL
  DEF TestSpec, LookingKeepsDisk
=============================================================================
