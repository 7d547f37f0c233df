--------------------------- MODULE OpenBsdGetters ---------------------------
(***************************************************************************)
(* The getters of sysdeps/openbsd: those of sysdeps/bsd rewritten for its  *)
(* kvm library.  Fact "smp": there is more than one processor.             *)
(***************************************************************************)
EXTENDS BsdGetters

\* kvm_getprocs of OpenBSD: NULL when the kernel refuses, and memory without a process
\* in it, and 0 in count, for one that has ended.
Procs(failed) == IfRefused(failed)
\* The caller looks for NULL alone.  What it takes for the process's is what the memory
\* held before.
ProcValues(values) == Do(<<Procs(<<Return>>), Try("gone", values, <<>>)>>)
\* The kernel's memory, at an address that was of a process: it can be there still.
StaleRead(failed) == Try("gone", <<>>, <<Maybe(failed)>>)

\* The times of a processor that cannot be read are given back, and read; what the
\* round before took is forgotten.
OpenBsdCpu ==
  Getter({"cpu", "smp"},
    <<Zero, Refuses, Sysctl, Sysctl, Put("cpu"), Take("cp_times"), IfRefused(<<Drop("cp_times")>>),
      Use("cp_times"),
      Loop(<<Take("cp_times"), IfRefused(<<Drop("cp_times")>>), Use("cp_times")>>),
      Drop("cp_times"), Put("smp"), Set("cpu"), When("smp", <<Add("smp")>>, <<>>)>>)

OpenBsdFsusage ==
  Getter({}, <<Zero, IfRefused(<<Return>>), Put("all"), Set("all"), IfRefused(<<Return>>), Both("io")>>)

OpenBsdLoadavg == Getter({"all"}, <<Zero, Set("all"), Unchecked("all")>>)
\* What is shared and what is in buffers is 0, and flagged.
OpenBsdMem ==
  Getter({"all", "shared"}, <<Zero, Refuses, Sysctl, Sysctl, Put("all"), Set("all"), Add("shared")>>)
OpenBsdMountlist == FreeBsdMountlist

\* The init function of each reads the limits, and keeps the memory when it cannot.
OpenBsdMsgLimits ==
  Getter({"all", "msgssz"}, <<Zero, Refuses, Put("all"), Set("all"), Add("msgssz")>>)
OpenBsdSemLimits == Getter({"all", "undo"}, <<Zero, Refuses, Put("all"), Set("all"), Add("undo")>>)
OpenBsdShmLimits == Getter({"all"}, <<Zero, Refuses, Put("all"), Set("all")>>)

OpenBsdNetlist == BsdNetlist

\* The addresses of the sixth version have a prefix, which a socket is asked for.
OpenBsdNetload ==
  Getter({"counters"},
    <<Zero, IfRefused(<<>>),
      Loop(<<Kernel, Maybe(<<Skip>>), Both("counters"),
             Loop(<<Kernel,
                    Either(<<Both("hwaddress")>>,
                      <<Either(<<Both("address")>>,
                          <<Both("address6"), Both("scope6"),
                            Try("refused", <<Take("socket"),
                                             Try("refused", <<Both("prefix6")>>, <<>>),
                                             Drop("socket")>>, <<>>)>>)>>)>>),
             Return>>)>>)

OpenBsdPpp == BsdPpp
OpenBsdProcAffinity == Getter({"list"}, <<Zero>>)

\* The arguments of a process that was not found are those of the one the memory names,
\* if there is one.
OpenBsdProcArgs ==
  Getter({"size"},
    <<Zero, Refuses, Enter, Procs(<<Leave, Return>>), Maybe(<<Leave, Return>>),
      Try("gone", <<KvmRead, Put("size")>>, <<Maybe(<<Leave, Return>>)>>), Leave, Take("args"), Count,
      Set("size"), ReturnPtr("args")>>)

OpenBsdProcIo == Getter({}, <<Zero>>)

\* The feature asked for is the one of another getter.
OpenBsdProcKernel ==
  Getter({"pstats", "nwchan", "wchan"},
    <<Zero, Refuses, Refuses, Enter, Procs(<<Leave, Return>>),
      Try("gone", <<Put("nwchan"), Put("wchan"), Put("pstats")>>, <<>>), Leave,
      Add("nwchan"), Maybe(<<Add("wchan")>>), Add("pstats")>>)

OpenBsdProclist == BsdProclist

\* load_vmmap_entries makes a node for each entry and assigns it to its parameter:
\* the tree of the caller stays empty, and unload_vmmap_entries finds nothing in
\* it.  The loop over the tree makes no round.
OpenBsdProcMap ==
  Getter({"list"},
    <<Take("maps"), Zero, Maybe(<<Drop("maps"), Return>>), Enter,
      Procs(<<Leave, Drop("maps"), Return>>), StaleRead(<<Leave, Return>>), Take("entries"),
      StaleRead(<<Die>>),
      Count, Set("list"), Leave, Put("list"), Set("list"), Count, ReturnPtr("maps")>>)

OpenBsdProcMem ==
  Getter({"all", "share"}, <<Zero, Refuses, Refuses, KvmProc, Put("all"), Put("share"), Set("all"),
                             Add("share")>>)

\* The kvm descriptor is opened at each call, and used when it was not opened.  When
\* kvm_getfiles finds no process, the loop starts at NULL and ends at a number nobody
\* set: it makes no round, or reads through NULL.
OpenBsdProcOpenFiles ==
  Getter({"list"},
    <<Zero, Try("refused", <<Take("kd")>>, <<Use("kd"), Die>>), Take("entries"),
      Try("gone", <<Loop(<<Maybe(<<Skip>>), Maybe(<<Take("address"), Drop("address")>>)>>)>>,
          <<Maybe(<<Use("kf"), Die>>)>>),
      Put("list"), Set("list"), Count, ReturnPtr("entries")>>)

OpenBsdProcSegment == Getter({"all"}, <<Zero, Refuses, ProcValues(<<Put("all")>>), Set("all")>>)
OpenBsdProcSignal == Getter({"all"}, <<Zero, Refuses, ProcValues(<<Put("all")>>), Set("all")>>)

\* A state without a name is not flagged.
OpenBsdProcState ==
  Getter({"all"},
    <<Zero, Refuses, ProcValues(<<Put("all"), Put("state")>>), Set("all"), Refuses, Add("state")>>)

\* The time of the children in the kernel is 0, and flagged.
OpenBsdProcTime ==
  Getter({"all", "user", "cstime"},
    <<Zero, Refuses, ProcValues(<<Put("all"), Put("user")>>), Set("all"), Add("user"), Add("cstime")>>)

OpenBsdProcUid == Getter({"all"}, <<Zero, Refuses, ProcValues(<<Put("all")>>), Set("all")>>)

\* Nothing is said, and nothing is set to 0.
OpenBsdProcWd == Getter({"exe", "root", "list"}, <<>>)

OpenBsdSwap ==
  Getter({"all"},
    <<Zero, Refuses, Sysctl, IfRefused(<<Return>>), Take("swaplist"),
      IfRefused(<<Drop("swaplist"), Return>>), Drop("swaplist"), Set("all"), Put("all")>>)

OpenBsdSysinfo == FreeBsdSysinfo

\* Flagged whether the time of the boot and the processors could be read or not.
OpenBsdUptime ==
  Getter({"uptime", "idletime"},
    <<Unchecked("uptime"), Unchecked("idletime"), Set("uptime"), Add("idletime")>>)

OpenBsdDisk == Absent

OpenBsd ==
  [cpu |-> OpenBsdCpu, disk |-> OpenBsdDisk, fsusage |-> OpenBsdFsusage, loadavg |-> OpenBsdLoadavg, mem |-> OpenBsdMem,
   mountlist |-> OpenBsdMountlist, msg_limits |-> OpenBsdMsgLimits, netlist |-> OpenBsdNetlist,
   netload |-> OpenBsdNetload, ppp |-> OpenBsdPpp, proc_affinity |-> OpenBsdProcAffinity,
   proc_args |-> OpenBsdProcArgs, proc_io |-> OpenBsdProcIo, proc_kernel |-> OpenBsdProcKernel,
   proclist |-> OpenBsdProclist, proc_map |-> OpenBsdProcMap, proc_mem |-> OpenBsdProcMem,
   proc_open_files |-> OpenBsdProcOpenFiles, proc_segment |-> OpenBsdProcSegment,
   proc_signal |-> OpenBsdProcSignal, proc_state |-> OpenBsdProcState,
   proc_time |-> OpenBsdProcTime, proc_uid |-> OpenBsdProcUid, proc_wd |-> OpenBsdProcWd,
   sem_limits |-> OpenBsdSemLimits, shm_limits |-> OpenBsdShmLimits, swap |-> OpenBsdSwap,
   sysinfo |-> OpenBsdSysinfo, uptime |-> OpenBsdUptime]
=============================================================================
