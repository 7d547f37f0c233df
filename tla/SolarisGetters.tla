--------------------------- MODULE SolarisGetters ---------------------------
(***************************************************************************)
(* The getters of sysdeps/solaris: the kstat chain, which is updated       *)
(* before it is used, and the files of /proc.  Fact "s10": the release is  *)
(* at least 5.10, where the limits of IPC are resource controls; "s9": it  *)
(* is at least 5.9.                                                        *)
(***************************************************************************)
EXTENDS CommonGetters

\* The chain is there or not since the library was opened; it is updated under an
\* assertion.
KstatChain == Do(<<Refuses, IfRefused(<<Die>>)>>)

\* glibtop_get_proc_data_psinfo_s and its like: a file of /proc, read at one go and
\* closed in any case.
ProcData(file, cause, failed) ==
  Do(<<Try(cause, <<Take(file)>>, failed), Try(cause, <<Drop(file)>>, <<Drop(file)>> \o failed)>>)
\* That of the process asked about.
Info(file) == ProcData(file, "gone", <<Return>>)

\* Processors that are off line, or cannot be read, are left out of the sums.
SolarisCpu ==
  Getter({"freq", "all"},
    <<Zero, Put("freq"), Set("freq"), KstatChain, Put("all"),
      Loop(<<Maybe(<<Skip>>), Maybe(<<Skip>>), IfRefused(<<Skip>>)>>), Refuses, Set("all")>>)

SolarisDisk == Absent

\* By getloadavg where the library has it.
SolarisLoadavg ==
  Getter({"all"},
    <<Zero,
      When("getloadavg", <<IfRefused(<<Return>>), Put("all")>>,
           <<KstatChain, Refuses, IfRefused(<<Return>>), Try("bad", <<Put("all")>>, <<>>)>>),
      Set("all")>>)

\* user is what total and free leave, when it is not counted: also when free is not
\* known.  locked is shifted by the logarithm of the page in units of 1024.
SolarisMem ==
  Getter({"total", "free", "locked", "shared", "buffer", "user"},
    <<Zero, Put("total"), Set("total"), KstatChain,
      Try("refused", <<Maybe(<<Both("free")>>), Maybe(<<Add("locked")>>)>>, <<>>),
      Try("refused",
          <<Maybe(<<Both("shared")>>), Maybe(<<Both("buffer")>>),
            Either(<<Both("user")>>, <<Derive("user", "total", "free"), Add("user")>>)>>,
          <<Derive("user", "total", "free"), Add("user")>>)>>)

\* getrctl for each limit: what it fills stays, as the buffer was; no flag is left,
\* and nothing is cleared before.
ResourceControls ==
  Do(<<Take("rblk"), Loop(<<IfRefused(<<Return>>)>>), Return>>)

\* Before 5.10, the tunables of the kernel, read through kvm.
SolarisMsgLimits ==
  Getter({"all"},
    <<When("s10", <<ResourceControls>>,
           <<Zero, Refuses, IfRefused(<<Return>>), Put("all"), Set("all")>>)>>)
SolarisSemLimits ==
  Getter({"all"},
    <<When("s10", <<ResourceControls>>,
           <<Zero, Refuses, IfRefused(<<Return>>), Put("all"), Set("all")>>)>>)

\* Before 5.9 shmmax and shmmin are flagged; from 5.9 on shmmni and shmseg too, and
\* neither shmmin nor shmseg is read any more.
SolarisShmLimits ==
  Getter({"max", "min", "mni", "seg"},
    <<When("s10", <<ResourceControls>>,
           <<Zero, Refuses, IfRefused(<<Return>>), Put("max"), Put("mni"),
             When("s9", <<>>, <<Put("min"), Put("seg")>>), Set("max"), Add("min"),
             When("s9", <<Add("mni"), Add("seg")>>, <<>>)>>)>>)

\* The array is taken before the kstats are opened, and stays if they cannot be.
SolarisNetlist ==
  Getter({"list"},
    <<Zero, Take("devices"), IfRefused(<<Return>>), Take("kc"), Loop(<<Maybe(<<Skip>>), Count>>),
      Drop("kc"), Put("list"), Set("list"), ReturnPtr("devices")>>)

\* solaris_stats: the chain is updated until it is up to date, also when that fails.
\* A counter the kstat lacks stays 0, and is flagged.
KstatStats ==
  Call(<<Take("module"), Maybe(<<Drop("module"), Return>>),
         IfRefused(<<Loop(<<Again>>)>>),
         IfRefused(<<Drop("module"), Return>>), IfRefused(<<Drop("module"), Return>>),
         Drop("module"),
         Try("bad", <<Put("packets")>>, <<>>), Try("bad", <<Put("bytes")>>, <<>>),
         Try("bad", <<Put("counters")>>, <<>>),
         Add("counters"), Add("bytes"), Add("packets")>>)

\* The socket is tested for not being 0, and -1 is asked and closed.
SolarisNetload ==
  Getter({"counters", "bytes", "packets"},
    <<Zero,
      Try("refused",
          <<Take("socket"),
            Maybe(<<Try("refused", <<Both("if_flags")>>, <<>>),
                    Try("refused", <<Both("address")>>, <<>>),
                    Try("refused", <<Both("subnet")>>, <<>>), Drop("socket")>>)>>,
          <<Use("socket"), Drop("socket")>>),
      KstatStats>>)

SolarisPpp == Absent

SolarisProcArgs ==
  Getter({"size"},
    <<Zero, Info("psinfo"), Take("args"), Put("size"), Count, Set("size"), ReturnPtr("args")>>)

SolarisProcIo == Absent
SolarisProcKernel == Absent

\* Asked for one process, the list has it, and neither number nor flags say so.
SolarisProclist ==
  Getter({"list"},
    <<Zero,
      Maybe(<<Either(<<Info("psinfo"), Refuses>>, <<IfGone(<<Return>>)>>), Take("pids"),
              ReturnPtr("pids")>>),
      IfRefused(<<Return>>), Take("proc"),
      Loop(<<Maybe(<<Skip>>), Maybe(<<Try("other", <<>>, <<Skip>>), Maybe(<<Skip>>)>>),
             Maybe(<<ProcData("psinfo", "other", <<Skip>>), Maybe(<<Skip>>)>>)>>),
      Drop("proc"), Refuses, Take("pids"), Put("list"), Set("list"), Count, ReturnPtr("pids")>>)

\* The process is held by libproc, where that is there, for the names of its files.
SolarisProcMap ==
  Getter({"list"},
    <<Zero, IfGone(<<Return>>), Take("fd"), IfGone(<<Drop("fd"), Return>>),
      IfGone(<<Drop("fd"), Return>>), Count, Take("entries"), Maybe(<<Take("Pr")>>), Loop(<<>>),
      WhenHeld("Pr", <<Drop("Pr")>>, <<>>), Put("list"), Set("list"), Drop("fd"),
      ReturnPtr("entries")>>)

SolarisProcMem == Getter({"all"}, <<Zero, Info("psinfo"), Put("all"), Set("all")>>)

SolarisProcOpenFiles ==
  Getter({"list"},
    <<Zero, IfGone(<<Return>>), Take("dir"), Take("entries"), Loop(<<Maybe(<<Skip>>), IfGone(<<>>)>>),
      Drop("dir"), Put("list"), Set("list"), Count, ReturnPtr("entries")>>)

SolarisProcSegment == Absent
SolarisProcSignal == Getter({"all"}, <<Zero, Info("status"), Put("all"), Set("all")>>)
SolarisProcState == Getter({"all"}, <<Zero, Info("psinfo"), Put("all"), Set("all")>>)

\* Process 0 has no usage, and is said to have used nothing.
SolarisProcTime ==
  Getter({"all"}, <<Zero, Either(<<Info("usage"), Put("all")>>, <<>>), Set("all")>>)

\* The second file is of the same process, or of none.
SolarisProcUid ==
  Getter({"psinfo", "cred"},
    <<Zero, Info("psinfo"), Put("psinfo"), Set("psinfo"), Info("cred"), Both("cred")>>)

\* The table is sized by one call and filled by the next.
SolarisSwap ==
  Getter({"all"},
    <<Zero, IfRefused(<<Return>>),
      Either(<<Put("all"), Set("all")>>,
             <<Take("table"), Try("refused", <<Put("all"), Set("all")>>, <<>>)>>),
      Free("table")>>)

SolarisUptime == Getter({"all"}, <<Zero, Refuses, Put("all"), Set("all")>>)

Solaris ==
  [cpu |-> SolarisCpu, disk |-> SolarisDisk, fsusage |-> CommonFsusage, loadavg |-> SolarisLoadavg,
   mem |-> SolarisMem, mountlist |-> CommonMountlist(GetMntEnt2), msg_limits |-> SolarisMsgLimits,
   netlist |-> SolarisNetlist, netload |-> SolarisNetload, ppp |-> SolarisPpp,
   proc_args |-> SolarisProcArgs, proc_io |-> SolarisProcIo, proc_kernel |-> SolarisProcKernel,
   proclist |-> SolarisProclist, proc_map |-> SolarisProcMap, proc_mem |-> SolarisProcMem,
   proc_open_files |-> SolarisProcOpenFiles, proc_segment |-> SolarisProcSegment,
   proc_signal |-> SolarisProcSignal, proc_state |-> SolarisProcState,
   proc_time |-> SolarisProcTime, proc_uid |-> SolarisProcUid, sem_limits |-> SolarisSemLimits,
   shm_limits |-> SolarisShmLimits, swap |-> SolarisSwap, uptime |-> SolarisUptime]
=============================================================================
