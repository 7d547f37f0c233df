----------------------------- MODULE BsdGetters -----------------------------
(***************************************************************************)
(* The getters of sysdeps/bsd, which NetBSD and BSD/OS use.  Facts: "uvm", *)
(* the build is for NetBSD 1.4 or later; "sactive", for one whose process  *)
(* structure hides the wait channel; "i386"; "pcb", the machine's saved    *)
(* registers are known; "swapins", the pages swapped are counted;          *)
(* "cpuset", "i4b" and "acct" as on FreeBSD.                               *)
(*                                                                         *)
(* server->sysdeps.x is 0 when the init function could not find the        *)
(* symbols it looks for.                                                   *)
(***************************************************************************)
EXTENDS FreeBsdGetters, CommonGetters

\* kvm_read, with an error that ends the program and with a warning.
Kernel == IfRefused(<<Die>>)
KernelWarn == IfRefused(<<Return>>)

BsdCpu == Getter({"cpu"}, <<Zero, Refuses, KernelWarn, Sysctl, Put("cpu"), Set("cpu")>>)

\* getloadavg may fail, and the buffer is flagged.
BsdLoadavg == Getter({"all"}, <<Zero, Set("all"), Unchecked("all")>>)

BsdMem ==
  Getter({"all"}, <<Zero, Refuses, Sysctl, KernelWarn, KernelWarn, Put("all"), Set("all")>>)

\* msgssz is given the value of msgtql.
BsdMsgLimits == Getter({"all", "msgssz"}, <<Zero, Refuses, Put("all"), Set("all"), Add("msgssz")>>)
\* semume and semusz are among the flags, and not among the values.
BsdSemLimits ==
  Getter({"all", "undo"}, <<Zero, Refuses, Put("all"), Set("all"), Add("undo")>>)
BsdShmLimits == Getter({"all"}, <<Zero, Refuses, Put("all"), Set("all")>>)

BsdNetlist ==
  Getter({"list"},
    <<Zero, Try("refused", <<Take("names")>>, <<>>), Take("devices"),
      WhenHeld("names", <<Loop(<<Count>>)>>, <<>>), Free("names"), Put("list"), Set("list"),
      ReturnPtr("devices")>>)

\* The interfaces in the kernel's list, and the addresses of the one asked for.  The
\* flags of the two addresses are added as numbers, not as masks: 17 is the flags
\* of groups that are set before, 14 those of mtu, subnet and address.
BsdNetload ==
  Getter({"counters"},
    <<Zero, Kernel,
      Loop(<<Kernel, Maybe(<<Skip>>), Both("counters"),
             Loop(<<Kernel, Either(<<Put("hwaddress"), Add("counters")>>,
                              <<Either(<<Both("address")>>, <<Put("address6"), Add("address")>>)>>)>>),
             Return>>)>>)

BsdPpp ==
  Getter({"state", "bytes"},
    <<When("i4b", <<Zero, Kernel, Put("state"), Set("state"), When("acct", <<Both("bytes")>>, <<>>)>>,
           <<>>)>>)

\* Either error ends the program, that of a process that has ended too.
BsdProcAffinity ==
  Getter({"list"},
    <<Zero,
      When("cpuset", <<IfRefused(<<Die>>), Take("cpuset"), IfGone(<<Drop("cpuset"), Die>>), Take("cpus"),
                    Loop(<<>>), Count, Put("list"), Set("list"), Drop("cpuset"), ReturnPtr("cpus")>>,
           <<>>)>>)

BsdProcArgs ==
  Getter({"size"},
    <<Zero, Refuses, IfGone(<<Return>>), Enter, KvmRead, KvmRead, Leave, Take("args"), Put("size"),
      Count, Set("size"), ReturnPtr("args")>>)

BsdProcIo == Getter({}, <<Zero>>)

\* Where the registers are not in the structure that is read, they are 0 and flagged.
BsdProcKernel ==
  Getter({"pstats", "pcb", "nwchan", "wchan"},
    <<Zero, Refuses, Refuses, KvmProc,
      When("sactive", <<>>, <<Both("nwchan"), Maybe(<<Both("wchan")>>)>>),
      IfGone(<<Return>>), Enter,
      When("sactive", <<>>,
        <<Try("gone", <<Both("pstats")>>, <<>>),
          Try("gone", <<When("pcb", <<Put("pcb")>>, <<>>), When("i386", <<>>, <<Add("pcb")>>)>>, <<>>)>>),
      Leave>>)

\* The last of the processes found is left out.  Without it there may be none: the list
\* is then NULL, which g_realloc gives for no bytes, and flagged.
BsdProclist ==
  Getter({"list"},
    <<Zero, IfRefused(<<Return>>),
      Either(<<Take("pids"), Loop(<<Maybe(<<Skip>>)>>), Count, Put("list"), Set("list"), ReturnPtr("pids")>>,
             <<Put("list"), Set("list")>>)>>)

\* One entry of the map: a vnode that cannot be read ends the call, an inode that
\* cannot be read the program; without uvm the object ends it as well.
BsdMapEntry ==
  <<Maybe(<<Skip>>), Maybe(<<Skip>>),
    When("uvm", <<IfGone(<<Drop("maps"), Return>>), Maybe(<<Skip>>), IfGone(<<Die>>)>>,
                <<IfGone(<<Die>>)>>)>>

\* The privileges that are entered are never left.
BsdProcMap ==
  Getter({"list"},
    <<Take("maps"), Zero, Maybe(<<Drop("maps"), Return>>), Enter, IfGone(<<Drop("maps"), Return>>),
      IfGone(<<Die>>), IfGone(<<Die>>), Count, Set("list"),
      Loop(<<IfGone(<<Die>>)>> \o BsdMapEntry),
      Put("list"), Set("list"), Count, ReturnPtr("maps")>>)

BsdProcMem ==
  Getter({"all", "share"},
    <<Zero, Refuses, Refuses, KvmProc, KvmProc, KvmProc, KvmProc,
      Loop(<<KvmProc, Maybe(<<Skip>>), KvmProc, Maybe(<<Skip>>)>>),
      Put("all"), When("uvm", <<Put("share")>>, <<>>), Set("all"), When("uvm", <<Add("share")>>, <<>>)>>)

\* Neither the buffer nor a list.
BsdProcOpenFiles == Getter({"list"}, <<>>)
BsdProcSegment == Getter({}, <<Zero>>)
BsdProcSignal == Getter({"all"}, <<Zero, Refuses, KvmProc, Put("all"), Set("all")>>)

\* A state without a name is not flagged.
BsdProcState ==
  Getter({"all"}, <<Zero, Refuses, KvmProc, Put("all"), Set("all"), Refuses, Both("state")>>)

\* With uvm the statistics that cannot be read end the call, without leaving what
\* was entered; without it, what was not entered is left.
BsdProcTime ==
  Getter({"all", "user"},
    <<Zero, Refuses, When("uvm", <<Refuses>>, <<>>), KvmProc, Put("all"), Set("all"),
      When("uvm", <<Enter, IfGone(<<Return>>), Leave, Both("user")>>,
        <<Try("gone", <<Leave, Put("user"), Set("user")>>, <<>>), Leave>>)>>)

\* The pid is among the flags, and not among the values, nor the priority where it is
\* hidden; the groups have no flag.
BsdProcUid ==
  Getter({"all", "pid", "priority"},
    <<Zero, Refuses, KvmProc, Put("all"), When("sactive", <<>>, <<Put("priority")>>), Set("all"),
      Add("pid"), Add("priority"),
      When("uvm", <<Try("gone", <<Put("groups")>>, <<>>)>>, <<>>)>>)

\* The counters that start at the second call are static.  NetBSD asks swapctl, and
\* from 5.99 on does not count the pages that are swapped.
BsdSwap ==
  Getter({"all", "paging"},
    <<Zero, Refuses, KernelWarn, When("swapins", <<Put("paging")>>, <<>>),
      When("uvm", <<IfRefused(<<Return>>), Take("swaplist"), IfRefused(<<Drop("swaplist"), Return>>),
                    Drop("swaplist")>>, <<KernelWarn>>),
      Set("all"), Add("paging"), Put("all")>>)

\* The same getter where it reads the kernel's own lists, on FreeBSD before 4: what
\* it holds is kept on its last two errors.
OldFreeBsdSwap ==
  Getter({"all"},
    <<Zero, Refuses, KernelWarn, KernelWarn, KernelWarn, KernelWarn, KernelWarn, KernelWarn, Take("sw"),
      KernelWarn, Take("perdev"), Loop(<<KernelWarn>>), Drop("sw"), Drop("perdev"), Set("all"),
      Put("all")>>)

BsdSysinfo == FreeBsdSysinfo

\* Without memset, and flagged only when the time of the boot is known.  The idle time
\* is not.
BsdUptime ==
  Getter({"uptime", "idletime"},
    <<When("uvm", <<Try("refused", <<Put("uptime"), Set("uptime"), Add("idletime")>>, <<>>)>>,
        <<Zero, IfRefused(<<Return>>), Put("uptime"), Put("idletime"), Set("uptime"), Add("idletime")>>)>>)

BsdDisk == Absent

Bsd ==
  [cpu |-> BsdCpu, disk |-> BsdDisk, fsusage |-> CommonFsusage, loadavg |-> BsdLoadavg, mem |-> BsdMem,
   mountlist |-> CommonMountlist(GetMntInfo), msg_limits |-> BsdMsgLimits, netlist |-> BsdNetlist,
   netload |-> BsdNetload, ppp |-> BsdPpp, proc_affinity |-> BsdProcAffinity,
   proc_args |-> BsdProcArgs, proc_io |-> BsdProcIo, proc_kernel |-> BsdProcKernel,
   proclist |-> BsdProclist, proc_map |-> BsdProcMap, proc_mem |-> BsdProcMem,
   proc_open_files |-> BsdProcOpenFiles, proc_segment |-> BsdProcSegment,
   proc_signal |-> BsdProcSignal, proc_state |-> BsdProcState, proc_time |-> BsdProcTime,
   proc_uid |-> BsdProcUid, sem_limits |-> BsdSemLimits, shm_limits |-> BsdShmLimits,
   swap |-> BsdSwap, old_swap |-> OldFreeBsdSwap, sysinfo |-> BsdSysinfo, uptime |-> BsdUptime]
=============================================================================
