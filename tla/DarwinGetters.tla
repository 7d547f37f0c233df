--------------------------- MODULE DarwinGetters ---------------------------
(***************************************************************************)
(* The getters of sysdeps/darwin.  The kernel's ports are resources: the   *)
(* port of a task stays with the server until it is deallocated.  No       *)
(* getter asks whether its feature is there.                               *)
(***************************************************************************)
EXTENDS OpenBsdGetters

\* Asked of the kernel, and flagged when there is an answer.
Asked(announced) ==
  Getter(announced, <<Zero, IfRefused(<<Return>>), Put("all"), Set("all")>>)

\* Asked of the kernel about a process.
AskedOf(announced) ==
  Getter(announced, <<Zero, IfGone(<<Return>>), Put("all"), Set("all")>>)

DarwinCpu == Asked({"all"})
DarwinDisk == Absent
DarwinLoadavg == Asked({"all"})
DarwinMem == Asked({"all"})
DarwinMsgLimits == Absent
DarwinSemLimits == Absent
DarwinShmLimits == Absent
DarwinNetlist == BsdNetlist

\* The memory the interfaces were read into stays; the buffer of the caller is what
\* g_free gets at the end.
DarwinNetload ==
  Getter({"all"},
    <<Zero, IfRefused(<<Return>>), Take("rtbuf"), IfRefused(<<Drop("rtbuf"), Return>>),
      Loop(<<Maybe(<<Break>>), Maybe(<<Skip>>), Put("all"), Set("all"), Drop("buf"), Return>>),
      Drop("rtbuf")>>)

DarwinPpp == Absent
DarwinProcAffinity == Getter({"list", "all"}, <<Zero>>)

\* Mutant: the privileges are kept when the process is not there.
DarwinProcArgsInside ==
  Getter({"size"},
    <<Zero, Enter, IfGone(<<Return>>), Leave, IfBad(<<Return>>), Take("args"), Put("size"),
      Count, Set("size"), ReturnPtr("args")>>)

\* The arguments are searched for from the end of what the kernel gave.
DarwinProcArgs ==
  Getter({"size"},
    <<Zero, Enter, IfGone(<<Leave, Return>>), Leave, IfBad(<<Return>>), Take("args"), Put("size"),
      Count, Set("size"), ReturnPtr("args")>>)

DarwinProcIo == Absent
DarwinProcKernel == Absent

DarwinProclist ==
  Getter({"list"},
    <<Zero, IfRefused(<<Return>>), Take("kinfo"), IfRefused(<<Drop("kinfo"), Return>>), Take("pids"),
      Loop(<<Maybe(<<Skip>>)>>), Drop("kinfo"), Count, Put("list"), Set("list"), ReturnPtr("pids")>>)

\* A task without regions has no memory to return, and is counted as none.  The
\* port of the task is kept.
DarwinProcMap ==
  Getter({"list"},
    <<Zero, Enter, IfGone(<<Leave, Return>>), Take("task"),
      Loop(<<IfGone(<<Break>>), Maybe(<<Skip>>), WhenHeld("maps", <<>>, <<Take("maps")>>)>>),
      Leave, Put("list"), Set("list"), WhenHeld("maps", <<Count, ReturnPtr("maps")>>, <<>>)>>)

\* The table of shared objects is chained from an array of its own.
DarwinProcMem ==
  Getter({"all"},
    <<Zero, Enter, Try("gone", <<Take("task"), Leave>>, <<Leave, Return>>), IfGone(<<Return>>),
      Enter,
      Loop(<<IfGone(<<Break>>), IfGone(<<Break>>), Maybe(<<Skip>>),
             Maybe(<<WhenHeld("table", <<>>, <<Take("table")>>)>>)>>),
      Leave, Free("table"), Put("all"), Set("all")>>)

DarwinProcOpenFiles == Absent
DarwinProcSegment == Absent
DarwinProcSignal == AskedOf({"all"})

\* The flags are set last, not for a state that is not known.
DarwinProcState == Getter({"all"}, <<Zero, IfGone(<<Return>>), Put("all"), Refuses, Set("all")>>)

\* Left before it is entered, when the process is not there.  The port of the task is
\* deallocated when it cannot be asked, and kept when it can.
DarwinProcTime ==
  Getter({"all"},
    <<Zero, IfGone(<<Leave, Return>>), Enter, IfGone(<<Leave, Return>>), Take("task"), Leave,
      IfGone(<<Drop("task"), Return>>), IfGone(<<Drop("task"), Return>>), Put("all"), Set("all")>>)

\* pid and tty are among the flags, and not among the values.
DarwinProcUid ==
  Getter({"all", "pid", "tty"},
    <<Zero, IfGone(<<Return>>), Put("all"), Set("all"), Add("pid"), Add("tty")>>)

DarwinProcWd == Absent

DarwinSwap ==
  Getter({"all"},
    <<Zero, IfRefused(<<Return>>), Take("dir"), Loop(<<Maybe(<<Skip>>), IfRefused(<<Skip>>)>>),
      Drop("dir"), IfRefused(<<Return>>), IfRefused(<<Return>>), Put("all"), Set("all")>>)

\* What a sysctl could not tell keeps the value it was given at first.
DarwinSysinfo == Getter({}, <<Put("all"), Set("all")>>)
DarwinUptime == Asked({"all"})

Darwin ==
  [cpu |-> DarwinCpu, disk |-> DarwinDisk, fsusage |-> CommonFsusage, loadavg |-> DarwinLoadavg,
   mem |-> DarwinMem, mountlist |-> CommonMountlist(GetMntInfo), msg_limits |-> DarwinMsgLimits,
   netlist |-> DarwinNetlist, netload |-> DarwinNetload, ppp |-> DarwinPpp,
   proc_affinity |-> DarwinProcAffinity, proc_args |-> DarwinProcArgs, proc_io |-> DarwinProcIo,
   proc_kernel |-> DarwinProcKernel, proclist |-> DarwinProclist, proc_map |-> DarwinProcMap,
   proc_mem |-> DarwinProcMem, proc_open_files |-> DarwinProcOpenFiles,
   proc_segment |-> DarwinProcSegment, proc_signal |-> DarwinProcSignal,
   proc_state |-> DarwinProcState, proc_time |-> DarwinProcTime, proc_uid |-> DarwinProcUid,
   proc_wd |-> DarwinProcWd, sem_limits |-> DarwinSemLimits, shm_limits |-> DarwinShmLimits,
   swap |-> DarwinSwap, sysinfo |-> DarwinSysinfo, uptime |-> DarwinUptime]
=============================================================================
