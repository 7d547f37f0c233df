--------------------------- MODULE FreeBsdGetters ---------------------------
(***************************************************************************)
(* The getters of sysdeps/freebsd: sysctl, the kvm library, and the ones   *)
(* that read kernel memory between glibtop_suid_enter and _leave.  Facts:  *)
(* "smp"; "kinfo" and "filedesc", the ways the build asks for the files of *)
(* a process; "i4b" and "acct", the drivers it knows; "rusage_ch", its     *)
(* processes tell the times of their children.                             *)
(***************************************************************************)
EXTENDS Skeleton

\* sysctl, and with a warning when it fails.
Sysctl == IfRefused(<<Return>>)
\* kvm_getprocs finds one process.
KvmProc == IfGone(<<Return>>)
\* The same with the privileges that were entered before.
KvmRead == IfGone(<<Leave, Return>>)

\* The memory of the second array is given back where its sysctl fails.
FreeBsdCpu ==
  Getter({"cpu", "smp"},
    <<Zero, Sysctl, Sysctl,
      Try("refused", <<Take("cp_times"), IfRefused(<<Drop("cp_times")>>)>>, <<>>),
      Put("cpu"), Put("smp"), Free("cp_times"), Set("cpu"), When("smp", <<Add("smp")>>, <<>>)>>)

FreeBsdFsusage ==
  Getter({},
    <<Zero, IfRefused(<<Return>>), Put("all"), Set("all"), Sysctl, Maybe(<<Both("io")>>)>>)

FreeBsdLoadavg ==
  Getter({"all", "last_pid"},
    <<Zero, IfRefused(<<Return>>), Put("all"), Set("all"), Sysctl, Both("last_pid")>>)

\* A counter that cannot be read is 0, and flagged like the others.
FreeBsdMem == Getter({"all"}, <<Zero, Unchecked("all"), Set("all")>>)

\* read_filesystem_list keeps the head of its list when getmntinfo fails, and the
\* caller its array when there is no list.
FreeBsdMountlist ==
  Getter({},
    <<Take("entries"), Zero, Take("head"), IfRefused(<<Return>>), Drop("head"), Maybe(<<Return>>),
      Take("mounts"), Loop(<<>>), Drop("mounts"), Count, Put("list"), Set("list"), ReturnPtr("entries")>>)

FreeBsdMsgLimits ==
  Getter({"all"},
    <<Zero, Refuses, Sysctl, Sysctl, Sysctl, Sysctl, Sysctl, Sysctl, Put("all"), Set("all")>>)

FreeBsdNetlist ==
  Getter({"list"},
    <<Zero, Try("refused", <<Take("names")>>, <<>>), Take("devices"),
      WhenHeld("names", <<Loop(<<Count>>)>>, <<>>), Free("names"),
      Put("list"), Set("list"), ReturnPtr("devices")>>)

\* The addresses of the interface: of the link, which asks a socket, and of either
\* family.  A break leaves the switch, not the loop.
FreeBsdNetload ==
  Getter({"link"},
    <<Zero, Refuses, IfRefused(<<Return>>), Take("ifaddrs"),
      Loop(<<Maybe(<<Skip>>),
             Either(<<IfRefused(<<Skip>>), Take("socket"), IfRefused(<<>>),
                      IfRefused(<<Drop("socket"), Skip>>), Drop("socket"), Both("link")>>,
                    <<Either(<<Both("address")>>, <<Maybe(<<Both("address6")>>)>>)>>)>>),
      Drop("ifaddrs")>>)

FreeBsdPpp ==
  Getter({"state", "bytes"},
    <<When("i4b", <<Zero, Refuses, Sysctl, Put("state"), Set("state"),
                    When("acct", <<Both("bytes")>>, <<>>)>>, <<>>)>>)

\* A process that has ended is an error, which ends the program.
FreeBsdProcAffinity ==
  Getter({"list"},
    <<Zero, When("cpuset", <<>>, <<Return>>), IfGone(<<Die>>), Take("cpus"), Loop(<<>>), Count,
      Both("list"), ReturnPtr("cpus")>>)

FreeBsdProcArgs ==
  Getter({"size"},
    <<Zero, Refuses, Enter, KvmRead, KvmRead, Leave, Take("args"), Count, Put("size"), Set("size"),
      ReturnPtr("args")>>)

FreeBsdProcIo == Getter({"all"}, <<Zero, Enter, KvmRead, Leave, Put("all"), Set("all")>>)

\* The feature asked for is the one of another getter.
FreeBsdProcKernel ==
  Getter({"pstats", "nwchan", "wchan"},
    <<Zero, Refuses, Refuses, Enter, KvmRead, Leave, Both("nwchan"), Maybe(<<Both("wchan")>>),
      Both("pstats")>>)

FreeBsdProclist ==
  Getter({"list"},
    <<Zero, Sysctl, Take("pinfo"), IfRefused(<<Drop("pinfo"), Return>>), Take("pids"),
      Loop(<<Maybe(<<Skip>>), Try("other", <<>>, <<>>), Maybe(<<Skip>>)>>), Drop("pinfo"), Put("list"),
      Set("list"), Count, ReturnPtr("pids")>>)

\* _glibtop_sysdeps_freebsd_dev_inode reads on until a read fails; what it has not
\* read is 0.
DevInode == Call(<<IfGone(<<Return>>), IfBad(<<Return>>), IfGone(<<Return>>), IfGone(<<Return>>)>>)

\* One entry of the map: of those behind an object, a vnode and a type.
FreeBsdMapEntry ==
  <<Maybe(<<Skip>>), IfGone(<<Skip>>), Maybe(<<Skip>>), IfGone(<<Skip>>), IfBad(<<Skip>>), DevInode>>

\* do ... while: a continue goes to the condition, which is about the entry read
\* last.  When it was the reading that failed, that is the one before.
FreeBsdProcMap ==
  Getter({"list"},
    <<Zero, Refuses, Enter, KvmRead, KvmRead, KvmRead, Take("maps")>> \o FreeBsdMapEntry
    \o <<Loop(<<IfGone(<<Again>>)>> \o FreeBsdMapEntry), Leave, Put("list"), Set("list"), Count,
         ReturnPtr("maps")>>)

FreeBsdProcMem == Getter({"all"}, <<Zero, Refuses, KvmProc, Put("all"), Add("all")>>)

\* execute_lsof: what the program printed is forgotten when it fails.
Lsof(ok, failed) ==
  Try("refused", <<Take("output"), Try("gone", <<Drop("output")>> \o ok, failed)>>, failed)

\* A process that has ended has no files for kinfo_getfile.
FreeBsdProcOpenFiles ==
  Getter({"list"},
    <<Zero,
      When("kinfo", <<Take("kinfo")>>,
        <<When("filedesc", <<IfGone(<<Return>>), Take("kinfo"), IfGone(<<Drop("kinfo"), Return>>)>>,
               <<Lsof(<<>>, <<Return>>)>>)>>),
      Take("entries"), Loop(<<Maybe(<<Skip>>), Maybe(<<Take("address"), Drop("address")>>)>>),
      Free("kinfo"), Put("list"), Set("list"), Count, ReturnPtr("entries")>>)

FreeBsdProcSegment == Getter({"all"}, <<Zero, Refuses, KvmProc, Put("all"), Set("all")>>)
FreeBsdProcSignal == Getter({"all"}, <<Zero, Refuses, KvmProc, Put("all"), Set("all")>>)
FreeBsdProcState == Getter({"all"}, <<Zero, KvmProc, Put("all"), Set("all")>>)

\* Left twice when the clock cannot be read.  Before version 6 the system does not tell
\* the time of the children in the kernel, which is 0 then.
FreeBsdProcTime ==
  Getter({"all", "user", "cstime"},
    <<Zero, Refuses, Enter, KvmRead, Leave, IfRefused(<<Leave, Return>>), Put("all"), Set("all"),
      Put("user"), When("rusage_ch", <<Put("cstime")>>, <<>>), Add("user"), Add("cstime")>>)

\* The pid is among the flags, and not among the values.
FreeBsdProcUid ==
  Getter({"all", "pid"},
    <<Zero, Refuses, KvmProc, Put("all"), Set("all"), Add("pid")>>)

\* The root is among the files, and flagged when it is met.
FreeBsdProcWd ==
  Getter({"exe", "root", "list"},
    <<Zero, Try("gone", <<Try("gone", <<Both("exe")>>, <<>>)>>, <<>>),
      When("kinfo", <<Take("kinfo")>>,
        <<When("filedesc", <<IfGone(<<Return>>), Take("kinfo"), IfGone(<<Drop("kinfo"), Return>>)>>,
               <<Lsof(<<>>, <<Return>>)>>)>>),
      Take("dirs"), Loop(<<Maybe(<<Both("root")>>)>>), Free("kinfo"), Count, Both("list"),
      ReturnPtr("dirs")>>)

FreeBsdSemLimits ==
  Getter({"all"},
    <<Zero, Refuses, Sysctl, Sysctl, Sysctl, Sysctl, Sysctl, Sysctl, Sysctl, Sysctl, Sysctl, Sysctl,
      Put("all"), Set("all")>>)

FreeBsdShmLimits ==
  Getter({"all"},
    <<Zero, Refuses, Sysctl, Sysctl, Sysctl, Sysctl, Sysctl, Put("all"), Set("all")>>)

FreeBsdSwap ==
  Getter({"all", "paging"},
    <<Zero, IfRefused(<<Return>>), Set("all"), Put("all"), Sysctl, Sysctl, Both("paging")>>)

\* init_sysinfo runs once, and looks at no result.
FreeBsdSysinfo == Getter({}, <<Maybe(<<Take("model"), Loop(<<>>), Drop("model")>>)>>)

\* The idle time is the one glibtop_get_cpu_s finds.
FreeBsdUptime ==
  Getter({"uptime"},
    <<Zero, Try("refused", <<Put("uptime"), Set("uptime")>>, <<>>), IfRefused(<<Return>>),
      Both("idletime")>>)

FreeBsdDisk == Absent

FreeBsd ==
  [cpu |-> FreeBsdCpu, disk |-> FreeBsdDisk, fsusage |-> FreeBsdFsusage, loadavg |-> FreeBsdLoadavg, mem |-> FreeBsdMem,
   mountlist |-> FreeBsdMountlist, msg_limits |-> FreeBsdMsgLimits, netlist |-> FreeBsdNetlist,
   netload |-> FreeBsdNetload, ppp |-> FreeBsdPpp, proc_affinity |-> FreeBsdProcAffinity,
   proc_args |-> FreeBsdProcArgs, proc_io |-> FreeBsdProcIo, proc_kernel |-> FreeBsdProcKernel,
   proclist |-> FreeBsdProclist, proc_map |-> FreeBsdProcMap, proc_mem |-> FreeBsdProcMem,
   proc_open_files |-> FreeBsdProcOpenFiles, proc_segment |-> FreeBsdProcSegment,
   proc_signal |-> FreeBsdProcSignal, proc_state |-> FreeBsdProcState,
   proc_time |-> FreeBsdProcTime, proc_uid |-> FreeBsdProcUid, proc_wd |-> FreeBsdProcWd,
   sem_limits |-> FreeBsdSemLimits, shm_limits |-> FreeBsdShmLimits, swap |-> FreeBsdSwap,
   sysinfo |-> FreeBsdSysinfo, uptime |-> FreeBsdUptime]
=============================================================================
