--------------------------- MODULE CygwinGetters ---------------------------
(***************************************************************************)
(* The getters of sysdeps/cygwin: those of Linux with what the emulated    *)
(* /proc has.  There is no server to gain privileges from.                 *)
(***************************************************************************)
EXTENDS LinuxGetters, CommonGetters

\* file_to_buffer of this directory, and proc_file_to_buffer.
CygwinFile == File
CygwinProcFile(failed) == ProcFile(failed)
CygwinBootTime == BootTime

\* The line of each processor is read until one is missing.
CygwinCpu ==
  Getter({"cpu", "smp"},
    <<Zero, CygwinFile, Put("cpu"), Set("cpu"), Try("bad", <<Put("smp")>>, <<>>),
      When("smp", <<Add("smp")>>, <<>>)>>)

CygwinDisk == Absent

\* The tasks are not announced.
CygwinLoadavg ==
  Getter({"all"}, <<Zero, CygwinFile, Put("all"), Set("all"), IfBad(<<Return>>), Both("tasks")>>)

\* shared is 0, and flagged.
CygwinMem ==
  Getter({"all", "shared"}, <<Zero, CygwinFile, Put("all"), Set("all"), Add("shared")>>)

\* ignore_fs, from the one file there is.
CygwinIgnoreFs ==
  WhenHeld("ignore", <<>>,
    <<Take("ignore"),
      Try("refused", <<Take("filesystems"), Loop(<<>>), Drop("filesystems")>>, <<>>)>>)

CygwinMountlist ==
  Getter({},
    <<Zero, Take("entries"),
      Try("refused",
          <<Take("mtab"), Loop(<<Maybe(<<CygwinIgnoreFs, Maybe(<<Skip>>)>>)>>), Drop("mtab")>>, <<>>),
      Free("ignore"), Count, Put("list"), Set("list"), ReturnPtr("entries")>>)

\* The results of msgctl, semctl and shmctl are used as they are.
CygwinMsgLimits == Getter({"all"}, <<Zero, Unchecked("all"), Set("all")>>)
CygwinSemLimits == Getter({"all"}, <<Zero, Set("all"), Unchecked("all")>>)
CygwinShmLimits == Getter({"all"}, <<Zero, Unchecked("all"), Set("all")>>)

CygwinNetlist == Absent
CygwinNetload == Absent
CygwinPpp == Absent
CygwinProcAffinity == Absent

CygwinProcArgs ==
  Getter({"size"},
    <<Zero, IfGone(<<Return>>), Take("args"), Count, Put("size"), Set("size"), ReturnPtr("args")>>)

CygwinProcKernel == Absent

\* fstat fails after the directory was opened.  The filters call other getters.
CygwinProclist ==
  Getter({"list"},
    <<Zero, IfRefused(<<Return>>), Take("proc"), IfRefused(<<Return>>), Take("pids"),
      Loop(<<Maybe(<<Skip>>), Maybe(<<Buffered("other", <<>>, <<>>), Maybe(<<Skip>>)>>)>>),
      Drop("proc"), Put("list"), Set("list"), Count, ReturnPtr("pids")>>)

CygwinProcMap ==
  Getter({"list"},
    <<Take("entries"), Zero, IfGone(<<Drop("entries"), Return>>), Take("maps"),
      Loop(<<WhenHeld("line", <<>>, <<Take("line")>>), IfBad(<<Skip>>)>>),
      Free("line"), Drop("maps"), Put("list"), Set("list"), Count, ReturnPtr("entries")>>)

CygwinProcMem == Getter({"all"}, <<Zero, CygwinProcFile(<<Return>>), Put("all"), Add("all")>>)

CygwinProcOpenFiles ==
  Getter({"list"},
    <<Zero, IfGone(<<Return>>), Take("fds"), Take("entries"),
      Loop(<<Maybe(<<Skip>>), IfGone(<<Skip>>), Maybe(<<SocketTables>>)>>),
      Drop("fds"), Free("inet"), Free("inet6"), Free("local"),
      Put("list"), Set("list"), Count, ReturnPtr("entries")>>)

CygwinProcSegment ==
  Getter({"all", "statm"},
    <<Zero, CygwinProcFile(<<Return>>), IfBad(<<Return>>), Put("all"), Set("all"),
      CygwinProcFile(<<Return>>), Both("statm")>>)

CygwinProcSignal ==
  Getter({"all"}, <<Zero, CygwinProcFile(<<Return>>), IfBad(<<Return>>), Put("all"), Set("all")>>)

\* proc_stat_after_cmd finds no name, and what it returns is read all the same.  A
\* letter that is not known is flagged like a state.
CygwinProcState ==
  Getter({"all", "state", "uid"},
    <<Zero, IfGone(<<Return>>), Put("uid"), Set("uid"), CygwinProcFile(<<Return>>),
      IfBad(<<Use("stat"), Die>>), Maybe(<<Put("state")>>), IfBad(<<Die>>), Both("all"), Add("state")>>)

\* The pointer into the text is not set back before the second file is taken apart.
CygwinProcTime ==
  Getter({"all", "timeout", "smp"},
    <<Zero, CygwinProcFile(<<Return>>), IfBad(<<Return>>), CygwinBootTime, Put("all"), Set("all"),
      Add("timeout"), When("smp", <<>>, <<Return>>), CygwinProcFile(<<Return>>), Add("smp")>>)

CygwinProcUid ==
  Getter({"all", "stat"},
    <<Zero, CygwinProcFile(<<Return>>), IfBad(<<Return>>), Put("all"), Set("all"),
      CygwinProcFile(<<Return>>), IfBad(<<Return>>), Both("stat")>>)

CygwinProcWd ==
  Getter({"exe", "root", "list"},
    <<Zero, Try("gone", <<Both("root")>>, <<>>), Try("gone", <<Both("exe")>>, <<>>),
      Take("dirs"), IfGone(<<>>),
      Try("gone", <<Take("task"), Loop(<<Maybe(<<Skip>>), IfGone(<<>>)>>), Drop("task")>>, <<>>),
      Count, Both("list"), ReturnPtr("dirs")>>)

CygwinSwap ==
  Getter({"all", "paging"},
    <<Zero, CygwinFile, Put("all"), Set("all"), CygwinFile, Maybe(<<Both("paging")>>)>>)

\* init_sysinfo runs once.
CygwinSysinfo ==
  Getter({},
    <<Maybe(<<CygwinFile, Take("processors"),
              Loop(<<Maybe(<<Break>>), Take("parts"), Drop("parts")>>), Drop("processors")>>)>>)

CygwinUptime == Getter({"all"}, <<Zero, CygwinFile, CygwinBootTime, Put("all"), Set("all")>>)

Cygwin ==
  [cpu |-> CygwinCpu, disk |-> CygwinDisk, fsusage |-> CommonFsusage, loadavg |-> CygwinLoadavg,
   mem |-> CygwinMem, mountlist |-> CygwinMountlist, msg_limits |-> CygwinMsgLimits,
   netlist |-> CygwinNetlist, netload |-> CygwinNetload, ppp |-> CygwinPpp,
   proc_affinity |-> CygwinProcAffinity, proc_args |-> CygwinProcArgs,
   proc_kernel |-> CygwinProcKernel, proclist |-> CygwinProclist, proc_map |-> CygwinProcMap,
   proc_mem |-> CygwinProcMem, proc_open_files |-> CygwinProcOpenFiles,
   proc_segment |-> CygwinProcSegment, proc_signal |-> CygwinProcSignal,
   proc_state |-> CygwinProcState, proc_time |-> CygwinProcTime, proc_uid |-> CygwinProcUid,
   proc_wd |-> CygwinProcWd, sem_limits |-> CygwinSemLimits, shm_limits |-> CygwinShmLimits,
   swap |-> CygwinSwap, sysinfo |-> CygwinSysinfo, uptime |-> CygwinUptime]
=============================================================================
