---------------------------- MODULE LinuxGetters ----------------------------
(***************************************************************************)
(* The getters of sysdeps/linux: files of /proc and /sys read into a       *)
(* buffer on the stack, or streams and directories walked.  Facts: "smp",  *)
(* there is more than one processor; "v2_6", the kernel is at least that   *)
(* old as the code asks for.                                               *)
(***************************************************************************)
EXTENDS Skeleton

\* try_file_to_buffer: opened, read to the end, closed on each way out.  After an
\* error of either kind the caller does what failed says.
Buffered(cause, ok, failed) ==
  Try(cause, <<Take("file"), Try(cause, <<Drop("file")>> \o ok, <<Drop("file")>> \o failed)>>,
      failed)
\* file_to_buffer: both errors end the program.
File == Buffered("refused", <<>>, <<Die>>)
\* proc_file_to_buffer and its variants: the file is one of the process.
ProcFile(failed) == Buffered("gone", <<>>, failed)

\* get_boot_time keeps what read_boot_time found, and reads again while it is 0.
BootTime ==
  Maybe(<<IfRefused(<<Die>>), Take("stat"), Loop(<<Maybe(<<Break>>)>>), Drop("stat")>>)

\* The line of each processor is read until one is missing.
LinuxCpu ==
  Getter({"cpu", "smp", "v2_6", "smp_2_6"},
    <<Zero, File, Put("cpu"), When("v2_6", <<Put("v2_6")>>, <<>>), Set("cpu"),
      Try("bad", <<Put("smp"), Put("smp_2_6")>>, <<>>),
      When("smp", <<Add("smp")>>, <<>>),
      When("v2_6", <<Add("v2_6"), When("smp", <<Add("smp_2_6")>>, <<>>)>>, <<>>)>>)

\* get_from_pipe takes what lsblk prints.  No flag is set.
LinuxDisk == Getter({"all"}, <<Zero, File, Take("pipe"), Drop("pipe"), Put("all")>>)

\* Mutant: the init function does not announce the tasks.
LinuxLoadavgTasksNotAnnounced ==
  Getter({"all"},
    <<Zero, File, Put("all"), Set("all"), IfBad(<<Return>>), Both("tasks")>>)

LinuxLoadavg ==
  Getter({"all", "tasks"},
    <<Zero, File, Put("all"), Set("all"), IfBad(<<Return>>), Both("tasks")>>)

LinuxMem == Getter({"all"}, <<Zero, File, Put("all"), Set("all")>>)

\* ignore_fs makes the list of what to leave out when it is first asked.
IgnoreFs ==
  WhenHeld("ignore", <<>>,
    <<Take("ignore"),
      Try("refused", <<Take("filesystems"), Loop(<<>>), Drop("filesystems")>>, <<>>),
      Try("refused", <<Take("utab"), Loop(<<>>), Drop("utab")>>, <<>>)>>)

LinuxMountlist ==
  Getter({},
    <<Zero, Take("entries"),
      Try("refused",
          <<Take("mtab"), Loop(<<Maybe(<<IgnoreFs, Maybe(<<Skip>>)>>)>>), Drop("mtab")>>, <<>>),
      WhenHeld("ignore", <<Drop("ignore")>>, <<>>),
      Count, Put("list"), Set("list"), ReturnPtr("entries")>>)

\* The results of msgctl, semctl and shmctl are used as they are.
LinuxMsgLimits == Getter({"all"}, <<Zero, Unchecked("all"), Set("all")>>)
LinuxSemLimits == Getter({"all"}, <<Zero, Set("all"), Unchecked("all")>>)
LinuxShmLimits == Getter({"all"}, <<Zero, Unchecked("all"), Set("all")>>)

LinuxNetlist ==
  Getter({"list"},
    <<Zero, IfRefused(<<Return>>), Take("dev"), Take("entries"), Loop(<<Maybe(<<Skip>>), Count>>),
      Drop("dev"), Put("list"), Set("list"), ReturnPtr("entries")>>)

\* read_value for a counter of each direction; the total is flagged in any case.
Counter(total, in, out) ==
  Do(<<Buffered("refused", <<Put(in), Add(in)>>, <<>>),
       Buffered("refused", <<Put(out), Add(out)>>, <<>>),
       Derive(total, in, out), Add(total)>>)

\* linux_2_6_stats
NetStats26 ==
  Do(<<Counter("packets_total", "packets_in", "packets_out"),
       Counter("bytes_total", "bytes_in", "bytes_out"),
       Counter("errors_total", "errors_in", "errors_out"),
       Buffered("refused", <<Put("collisions"), Add("collisions")>>, <<>>)>>)

\* linux_2_0_stats: a line counts packets in, packets out or both.
NetStats20 ==
  Call(<<IfRefused(<<Return>>), Take("ip_acct"),
         Loop(<<Maybe(<<Skip>>), Both("sums"),
                Maybe(<<Either(<<Both("sums_in")>>, <<Both("sums_out")>>)>>)>>),
         Drop("ip_acct")>>)

\* linux_2_4_stats: the header of the file says whether bytes are counted.
NetStats24 ==
  Call(<<IfRefused(<<Return>>), Take("dev"),
         IfBad(<<Drop("dev"), Return>>), IfBad(<<Drop("dev"), Return>>),
         Loop(<<Maybe(<<Skip>>), Both("counters"), Maybe(<<Both("bytes")>>), Break>>),
         Drop("dev")>>)

\* get_ipv6
Ipv6 ==
  Call(<<IfRefused(<<Return>>), Take("addresses"), Maybe(<<Both("address6")>>), Drop("addresses")>>)

\* The socket is tested for not being 0: one that is 0 is left open, and -1, which is
\* what there is after an error, is asked and closed.
LinuxNetload ==
  Getter({"errors_in", "errors_out", "collisions", "address", "subnet", "mtu", "bytes_in", "bytes_out", "bytes_total", "packets_in", "packets_out", "packets_total", "sums", "sums_in", "sums_out", "counters", "bytes"},
    <<Zero,
      Try("refused",
          <<Take("socket"),
            Maybe(<<Try("refused", <<Both("if_flags")>>, <<>>),
                    Try("refused", <<Both("address")>>, <<>>),
                    Try("refused", <<Both("subnet")>>, <<>>),
                    Try("refused", <<Both("mtu")>>, <<>>),
                    Try("refused", <<Both("hwaddress")>>, <<>>),
                    Drop("socket")>>)>>,
          <<Use("socket"), Drop("socket")>>),
      Either(<<NetStats20>>, <<Either(<<NetStats26>>, <<NetStats24>>)>>),
      Ipv6>>)

\* is_ISDN_on and get_ISDN_stats read the same device in two ways.
LinuxPpp ==
  Getter({"state", "bytes"},
    <<Zero,
      Call(<<IfRefused(<<Return>>), Take("isdninfo"), IfBad(<<Drop("isdninfo"), Return>>),
             Drop("isdninfo"), Both("state")>>),
      Call(<<IfRefused(<<Return>>), Take("isdn"), IfRefused(<<Drop("isdn"), Return>>),
             Drop("isdn"), Both("bytes")>>)>>)

\* A process that has ended is an error of sched_getaffinity, which ends the program.
LinuxProcAffinity ==
  Getter({"list"},
    <<Zero, IfGone(<<Die>>), Take("cpus"), Loop(<<>>), Count, Both("list"), ReturnPtr("cpus")>>)

LinuxProcArgs ==
  Getter({"size"},
    <<Zero, IfGone(<<Return>>), Take("args"), Count, Put("size"), Set("size"), ReturnPtr("args")>>)

\* Mutant: an old kernel is asked for before the buffer is cleared.
LinuxProcIoNotCleared ==
  Getter({"all"},
    <<When("v2_6", <<>>, <<Return>>), Zero, ProcFile(<<Return>>), Put("all"), Set("all")>>)

LinuxProcIo ==
  Getter({"all"},
    <<Zero, When("v2_6", <<>>, <<Return>>), ProcFile(<<Return>>), Put("all"), Set("all")>>)

\* Whether wchan could be read is not looked at.
LinuxProcKernel ==
  Getter({"all", "wchan"},
    <<Zero, ProcFile(<<Return>>), IfBad(<<Return>>), Put("all"),
      Buffered("gone", <<Put("wchan")>>, <<>>), Set("all"), Add("wchan")>>)

\* fstat fails after the directory was opened.  The filters call other getters.
LinuxProclist ==
  Getter({"list"},
    <<Zero, IfRefused(<<Return>>), Take("proc"), IfRefused(<<Return>>), Take("pids"),
      Loop(<<Maybe(<<Skip>>), Maybe(<<Buffered("other", <<>>, <<>>), Maybe(<<Skip>>)>>)>>),
      Drop("proc"), Put("list"), Set("list"), Count, ReturnPtr("pids")>>)

\* Mutant: the array stays when the file cannot be opened.
LinuxProcMapKept ==
  Getter({"list"},
    <<Take("entries"), Zero, IfGone(<<Return>>), Take("maps"),
      Loop(<<WhenHeld("line", <<>>, <<Take("line")>>), IfBad(<<Skip>>)>>),
      WhenHeld("line", <<Drop("line")>>, <<>>), Drop("maps"), Put("list"), Set("list"), Count,
      ReturnPtr("entries")>>)
\* Mutant: number and size are set at first.
LinuxProcMapCounted ==
  Getter({"list"},
    <<Take("entries"), Zero, Count, IfGone(<<Drop("entries"), Return>>), Take("maps"),
      Loop(<<WhenHeld("line", <<>>, <<Take("line")>>), IfBad(<<Skip>>)>>),
      WhenHeld("line", <<Drop("line")>>, <<>>), Drop("maps"), Put("list"), Set("list"),
      ReturnPtr("entries")>>)
\* Mutant: a line that is not understood is looked at again.
LinuxProcMapSameLine ==
  Getter({"list"},
    <<Take("entries"), Zero, IfGone(<<Drop("entries"), Return>>), Take("maps"),
      Loop(<<WhenHeld("line", <<>>, <<Take("line")>>), IfBad(<<Again>>)>>),
      WhenHeld("line", <<Drop("line")>>, <<>>), Drop("maps"), Put("list"), Set("list"), Count,
      ReturnPtr("entries")>>)

\* The line that ends the values of one map is the first line of the next.
LinuxProcMap ==
  Getter({"list"},
    <<Take("entries"), Zero, IfGone(<<Drop("entries"), Return>>), Take("maps"),
      Loop(<<WhenHeld("line", <<>>, <<Take("line")>>), IfBad(<<Skip>>)>>),
      WhenHeld("line", <<Drop("line")>>, <<>>), Drop("maps"), Put("list"), Set("list"), Count,
      ReturnPtr("entries")>>)

LinuxProcMem == Getter({"all", "pss"}, <<Zero, ProcFile(<<Return>>), Put("all"), Add("all")>>)

\* The tables of sockets are read when the first socket is met, each into its own.
SocketTables ==
  WhenHeld("inet6", <<>>,
    <<Take("inet6"), Try("refused", <<Take("tcp6"), Drop("tcp6")>>, <<>>),
      Take("inet"), Try("refused", <<Take("tcp"), Drop("tcp")>>, <<>>),
      Take("local"), Try("refused", <<Take("unix"), Drop("unix")>>, <<>>)>>)

\* Mutant: the tables are destroyed whether they were read or not.
LinuxProcOpenFilesDestroys ==
  Getter({"list"},
    <<Zero, IfGone(<<Return>>), Take("fds"), Take("entries"),
      Loop(<<Maybe(<<Skip>>), IfGone(<<Skip>>), Maybe(<<SocketTables>>)>>),
      Drop("fds"), Drop("inet"), Drop("inet6"), Drop("local"),
      Put("list"), Set("list"), Count, ReturnPtr("entries")>>)

LinuxProcOpenFiles ==
  Getter({"list"},
    <<Zero, IfGone(<<Return>>), Take("fds"), Take("entries"),
      Loop(<<Maybe(<<Skip>>), IfGone(<<Skip>>), Maybe(<<SocketTables>>)>>),
      Drop("fds"),
      WhenHeld("inet", <<Drop("inet")>>, <<>>), WhenHeld("inet6", <<Drop("inet6")>>, <<>>),
      WhenHeld("local", <<Drop("local")>>, <<>>),
      Put("list"), Set("list"), Count, ReturnPtr("entries")>>)

\* Mutant: both groups are flagged when the first file was read.
LinuxProcSegmentFlagsAll ==
  Getter({"all", "statm"},
    <<Zero, ProcFile(<<Return>>), IfBad(<<Return>>), Put("all"), Set("all"), Add("statm"),
      ProcFile(<<Return>>), Put("statm")>>)

LinuxProcSegment ==
  Getter({"all", "statm"},
    <<Zero, ProcFile(<<Return>>), IfBad(<<Return>>), Put("all"), Set("all"),
      ProcFile(<<Return>>), Both("statm")>>)

\* Mutant: a process that is not there is an error.
LinuxProcSignalDies ==
  Getter({"all"},
    <<Zero, ProcFile(<<Die>>), IfBad(<<Return>>), Put("all"), Set("all")>>)

LinuxProcSignal ==
  Getter({"all"},
    <<Zero, ProcFile(<<Return>>), IfBad(<<Return>>), Put("all"), Set("all")>>)

\* Owner and state come from two accesses; the name from the text of the second.
\* When proc_stat_after_cmd finds no name, its NULL is read.  A letter that is not
\* known gives no state, and the flag.
LinuxProcState ==
  Getter({"all", "state", "uid"},
    <<Zero, IfGone(<<Return>>), Put("uid"), Set("uid"),
      ProcFile(<<Return>>), IfBad(<<Use("stat"), Die>>), Maybe(<<Put("state")>>), IfBad(<<Die>>),
      Both("all"), Add("state")>>)

\* Linux 2.4 had the times of each processor in a file of their own.  The timeout
\* is among the flags, and read by nothing.
LinuxProcTime ==
  Getter({"all", "timeout", "smp"},
    <<Zero, ProcFile(<<Return>>), IfBad(<<Return>>), BootTime, Put("all"), Set("all"), Add("timeout"),
      When("smp", <<>>, <<Return>>), ProcFile(<<Return>>),
      Try("bad", <<Put("smp")>>, <<>>), Add("smp")>>)

LinuxProcUid ==
  Getter({"all", "stat"},
    <<Zero, ProcFile(<<Return>>), IfBad(<<Return>>), Put("all"), Set("all"),
      ProcFile(<<Return>>), IfBad(<<Return>>), Both("stat")>>)

\* Three links of the process, and the directories of its tasks.
LinuxProcWd ==
  Getter({"exe", "root", "list"},
    <<Zero, Try("gone", <<Both("root")>>, <<>>), Try("gone", <<Both("exe")>>, <<>>),
      Take("dirs"), IfGone(<<>>),
      Try("gone", <<Take("task"), Loop(<<Maybe(<<Skip>>), IfGone(<<>>)>>), Drop("task")>>, <<>>),
      Count, Both("list"), ReturnPtr("dirs")>>)

LinuxSwap ==
  Getter({"all", "paging"},
    <<Zero, File, Put("all"), Set("all"), When("v2_6", <<File>>, <<File>>), Maybe(<<Both("paging")>>)>>)

LinuxUptime == Getter({"all"}, <<Zero, File, BootTime, Put("all"), Set("all")>>)

\* get_device: the last entry looked at is the first that is mounted there.
Device(found) ==
  Try("refused", <<Take("mtab"), Loop(<<Maybe(<<Break>>)>>), Drop("mtab"), Maybe(found)>>, <<>>)

LinuxFsusage ==
  Getter({},
    <<Zero, IfRefused(<<Return>>), Put("all"), Set("all"),
      When("v2_6",
           <<Device(<<Take("name"), Buffered("refused", <<Try("bad", <<Both("io")>>, <<>>)>>, <<>>),
                      Drop("name")>>)>>,
           <<>>)>>)

\* init_sysinfo runs once; a processor takes memory for its table each.
LinuxSysinfo ==
  Getter({},
    <<Maybe(<<IfRefused(<<Die>>), Take("buffer"), Take("processors"), Drop("buffer"),
              Loop(<<Maybe(<<Break>>), Maybe(<<Skip>>), Take("parts"), Drop("parts")>>),
              Drop("processors")>>)>>)

Linux ==
  [cpu |-> LinuxCpu, disk |-> LinuxDisk, loadavg |-> LinuxLoadavg, mem |-> LinuxMem,
   mountlist |-> LinuxMountlist, msg_limits |-> LinuxMsgLimits, sem_limits |-> LinuxSemLimits,
   shm_limits |-> LinuxShmLimits, netlist |-> LinuxNetlist, netload |-> LinuxNetload,
   ppp |-> LinuxPpp, proc_affinity |-> LinuxProcAffinity, proc_args |-> LinuxProcArgs,
   proc_io |-> LinuxProcIo, proc_kernel |-> LinuxProcKernel, proclist |-> LinuxProclist,
   proc_map |-> LinuxProcMap, proc_mem |-> LinuxProcMem, proc_open_files |-> LinuxProcOpenFiles,
   proc_segment |-> LinuxProcSegment, proc_signal |-> LinuxProcSignal,
   proc_state |-> LinuxProcState, proc_time |-> LinuxProcTime, proc_uid |-> LinuxProcUid,
   proc_wd |-> LinuxProcWd, swap |-> LinuxSwap, uptime |-> LinuxUptime,
   fsusage |-> LinuxFsusage, sysinfo |-> LinuxSysinfo]
=============================================================================
