----------------------------- MODULE AixGetters -----------------------------
(***************************************************************************)
(* The getters of sysdeps/aix: the kernel's memory, entered for each read, *)
(* and the process table, asked through getprocs and getthrds.             *)
(* glibtop_error_io_r ends the program.                                    *)
(***************************************************************************)
EXTENDS CommonGetters

\* _glibtop_get_kmem_info
KmemInfo(failed) == Do(<<Enter, Try("refused", <<Leave>>, <<Leave>> \o failed)>>)
Kmem == Do(<<Zero, KmemInfo(<<Die>>), Put("all"), Set("all")>>)

\* _glibtop_get_procinfo keeps the last process it found, and answers from that when
\* the same one is asked about again, whatever became of it.
ProcInfo == Either(<<>>, <<IfGone(<<Return>>), Put("all")>>)
\* getthrds, of the first thread.
Thread(failed) == IfGone(failed)

\* _glibtop_vmgetinfo looks the function up in the kernel's image, once.
VmGetInfo(failed) ==
  Do(<<Maybe(<<Try("refused", <<Take("unix"), Drop("unix")>>, failed), IfRefused(failed)>>),
       IfRefused(failed)>>)

AixCpu == Getter({"all"}, <<Zero, KmemInfo(<<Die>>), KmemInfo(<<Die>>), Put("all"), Set("all")>>)
AixDisk == Absent
AixLoadavg == Getter({"all"}, <<Kmem>>)
AixMem == Getter({"all"}, <<Zero, VmGetInfo(<<Die>>), Put("all"), Set("all")>>)
AixMsgLimits == Getter({"all"}, <<Kmem>>)
AixSemLimits == Getter({"all"}, <<Kmem>>)
AixShmLimits == Getter({"all"}, <<Kmem>>)
AixNetlist == Absent

\* get_ifaddr looks for the first address of the interface, and at no result.
IfAddr ==
  Call(<<Loop(<<KmemInfo(<<>>), KmemInfo(<<>>),
                Maybe(<<KmemInfo(<<>>), Put("addresses"), Return>>)>>)>>)

\* The whole chain is read; the flags are set whether the interface was on it or not.
AixNetload ==
  Getter({"all", "addresses"},
    <<Zero,
      Loop(<<KmemInfo(<<Die>>), KmemInfo(<<Die>>), Maybe(<<Skip>>), IfAddr, Put("all")>>),
      Set("all"), Add("addresses")>>)

AixPpp == Absent

AixProcArgs ==
  Getter({"all"},
    <<Zero, ProcInfo, Take("buffer"), IfGone(<<Die>>), Maybe(<<Drop("buffer"), Return>>),
      Take("args"), Drop("buffer"), Count, Set("all"), ReturnPtr("args")>>)

AixProcIo == Absent

\* The test for a process of the kernel is one that no process fails.
AixProcKernel ==
  Getter({"all", "thread"},
    <<Zero, ProcInfo, Thread(<<Die>>), Put("thread"), Set("all"), Add("thread")>>)

AixProclist ==
  Getter({"list"},
    <<Zero, Loop(<<Maybe(<<Skip>>)>>), IfRefused(<<Die>>), Refuses, Take("pids"), Count,
      Put("list"), Set("list"), ReturnPtr("pids")>>)

AixProcMap == Absent
AixProcMem == Getter({"all"}, <<Zero, ProcInfo, Set("all")>>)
AixProcSegment == Getter({"all"}, <<Zero, ProcInfo, Set("all")>>)
AixProcSignal == Getter({"all"}, <<Zero, ProcInfo, Set("all")>>)

\* A process that is not a zombie has a thread, or had.
AixProcState ==
  Getter({"all", "thread"},
    <<Zero, ProcInfo, Maybe(<<Thread(<<Die>>)>>), Put("thread"), Set("all"), Add("thread")>>)

AixProcTime == Getter({"all"}, <<Zero, ProcInfo, Set("all")>>)

\* The flag of the priority is taken back, before the program is ended.
AixProcUid ==
  Getter({"all", "thread"},
    <<Zero, ProcInfo, Set("all"), Add("thread"), Thread(<<Set("all"), Die>>), Put("thread")>>)

AixSwap ==
  Getter({"all"},
    <<Zero, IfRefused(<<Die>>), Take("swapspaces"), Loop(<<Maybe(<<IfRefused(<<Die>>)>>)>>),
      Drop("swapspaces"), VmGetInfo(<<Die>>), Put("all"), Set("all")>>)

\* Everything is in _system_configuration.
AixSysinfo == Getter({}, <<Put("all"), Set("all")>>)
AixUptime == Getter({"all"}, <<Zero, Put("all"), Set("all")>>)

Aix ==
  [cpu |-> AixCpu, disk |-> AixDisk, fsusage |-> CommonFsusage, loadavg |-> AixLoadavg, mem |-> AixMem,
   mountlist |-> CommonMountlist(VMount), msg_limits |-> AixMsgLimits, netlist |-> AixNetlist,
   netload |-> AixNetload, ppp |-> AixPpp, proc_args |-> AixProcArgs, proc_io |-> AixProcIo,
   proc_kernel |-> AixProcKernel, proclist |-> AixProclist, proc_map |-> AixProcMap,
   proc_mem |-> AixProcMem, proc_segment |-> AixProcSegment, proc_signal |-> AixProcSignal,
   proc_state |-> AixProcState, proc_time |-> AixProcTime, proc_uid |-> AixProcUid,
   sem_limits |-> AixSemLimits, shm_limits |-> AixShmLimits, swap |-> AixSwap,
   sysinfo |-> AixSysinfo, uptime |-> AixUptime]
=============================================================================
