--------------------------- MODULE GetterContract ---------------------------
(***************************************************************************)
(* What a caller may rely on when a getter has returned, and what the      *)
(* process may rely on afterwards.  Where the code of a system departs     *)
(* from it, the getter is in the set that the property names: each entry   *)
(* is a place in the source, and every getter that is in no set keeps the  *)
(* rule on every path.                                                     *)
(***************************************************************************)
EXTENDS GetterCall

returned == phase = "done"
At(set) == <<sys, getter>> \in set

-----------------------------------------------------------------------------
(* The ids. *)

Privileged == uid.eff = "file" \/ gid.eff = "file"

\* From the first call on, the process has the rights of its file only between
\* glibtop_suid_enter and glibtop_suid_leave, whatever the system refuses.
PrivilegedInsideOnly == (phase \in {"idle", "run", "done"} /\ Privileged) => inside

\* What was given up can be had again: outside, the id of the file is still the real
\* or the saved one, and so the next glibtop_suid_enter is allowed.
CanEnterAgain ==
  (phase \in {"idle", "run", "done"} /\ ~inside /\ FileId(Changes(sys)) = "file") =>
    LET id == IF Changes(sys) = "uid" THEN uid ELSE gid
    IN Allowed(id, Wanted(id, "user", "file"))

\* darwin/glibtop_suid.h exchanges the user's ids, in a file that has a group's.
ChangesTheOther == {"darwin"}

\* Inside, the process has the rights of its file, unless the system refused them.
EnteredIsPrivileged ==
  (inside /\ ~refusedId /\ phase \in {"idle", "run", "done"}) => (Privileged \/ sys \in ChangesTheOther)

\* The rights that were given up are there whenever a getter needs them: each
\* glibtop_suid_enter may have them, and has them when it was not refused.
RightsWithinReach == CanEnterAgain /\ EnteredIsPrivileged

\* Returns between enter and leave: bsd/procmap.c:133 and 143, bsd/proctime.c:161.
NeverLeaves == {<<"bsd", "proc_map">>, <<"bsd", "proc_time">>}

\* A call that began outside returns outside.
LeavesBeforeReturning == (returned /\ inside) => (began \/ At(NeverLeaves))

-----------------------------------------------------------------------------
(* The buffer. *)

\* Flagged, and not read: by a call whose failure is not looked at, by a flag that
\* stands for no field that is filled or for one that is set to 0 for want of a value,
\* from a process that is remembered or was not found, or computed from what was not
\* read.
Unread ==
  { <<"linux", "cpu", "smp">>, <<"linux", "cpu", "smp_2_6">>, <<"linux", "msg_limits", "all">>,
    <<"linux", "sem_limits", "all">>, <<"linux", "shm_limits", "all">>,
    <<"linux", "netload", "packets_total">>, <<"linux", "netload", "bytes_total">>,
    <<"linux", "netload", "errors_total">>, <<"linux", "proc_kernel", "wchan">>,
    <<"linux", "proc_state", "state">>, <<"linux", "proc_time", "timeout">>,
    <<"linux", "proc_time", "smp">>,
    <<"cygwin", "cpu", "smp">>, <<"cygwin", "mem", "shared">>, <<"cygwin", "msg_limits", "all">>,
    <<"cygwin", "sem_limits", "all">>, <<"cygwin", "shm_limits", "all">>,
    <<"cygwin", "proc_state", "state">>, <<"cygwin", "proc_time", "timeout">>,
    <<"cygwin", "proc_time", "smp">>,
    <<"freebsd", "mem", "all">>, <<"freebsd", "proc_time", "cstime">>, <<"freebsd", "proc_uid", "pid">>,
    <<"bsd", "loadavg", "all">>, <<"bsd", "msg_limits", "msgssz">>, <<"bsd", "sem_limits", "undo">>,
    <<"bsd", "netload", "address">>, <<"bsd", "netload", "counters">>, <<"bsd", "proc_map", "list">>,
    <<"bsd", "proc_kernel", "pcb">>, <<"bsd", "proc_uid", "pid">>, <<"bsd", "proc_uid", "priority">>,
    <<"bsd", "swap", "paging">>, <<"bsd", "uptime", "idletime">>,
    <<"openbsd", "loadavg", "all">>, <<"openbsd", "mem", "shared">>, <<"openbsd", "msg_limits", "msgssz">>,
    <<"openbsd", "proc_args", "size">>, <<"openbsd", "proc_kernel", "nwchan">>,
    <<"openbsd", "proc_kernel", "wchan">>, <<"openbsd", "proc_kernel", "pstats">>,
    <<"openbsd", "proc_segment", "all">>, <<"openbsd", "proc_signal", "all">>,
    <<"openbsd", "proc_state", "all">>, <<"openbsd", "proc_state", "state">>,
    <<"openbsd", "proc_time", "all">>, <<"openbsd", "proc_time", "user">>,
    <<"openbsd", "proc_time", "cstime">>, <<"openbsd", "proc_uid", "all">>,
    <<"openbsd", "sem_limits", "undo">>, <<"openbsd", "uptime", "uptime">>,
    <<"openbsd", "uptime", "idletime">>,
    <<"darwin", "proc_uid", "pid">>, <<"darwin", "proc_uid", "tty">>,
    <<"solaris", "loadavg", "all">>, <<"solaris", "mem", "locked">>, <<"solaris", "mem", "user">>,
    <<"solaris", "netload", "counters">>, <<"solaris", "netload", "bytes">>,
    <<"solaris", "netload", "packets">>, <<"solaris", "proc_time", "all">>,
    <<"solaris", "shm_limits", "min">>, <<"solaris", "shm_limits", "seg">>,
    <<"aix", "netload", "all">>, <<"aix", "netload", "addresses">>, <<"aix", "proc_args", "all">>,
    <<"aix", "proc_kernel", "all">>, <<"aix", "proc_mem", "all">>, <<"aix", "proc_segment", "all">>,
    <<"aix", "proc_signal", "all">>, <<"aix", "proc_state", "all">>, <<"aix", "proc_time", "all">>,
    <<"aix", "proc_uid", "all">> }

\* A flag is set only for fields whose values were read, on whatever path the call
\* took: also when the process ended between two reads of one call.
FlagsCorrect == returned => \A g \in flagged \ put : <<sys, getter, g>> \in Unread

\* Flags the init function of the getter does not announce, by which glibtop_get_x_l
\* knows that the fields are missing.
NotAnnounced ==
  { <<"linux", "netload">>, <<"cygwin", "loadavg">>, <<"freebsd", "netload">>, <<"freebsd", "uptime">>,
    <<"bsd", "netload">>, <<"bsd", "proc_state">>, <<"openbsd", "netload">>,
    <<"openbsd", "proc_state">>, <<"solaris", "netload">> }
NoInitFunction == {"fsusage", "mountlist", "sysinfo"}

\* What a call flags is what server->sysdeps has said it can.
FlagsAnnounced ==
  returned => \/ flagged \subseteq Code(sys)[getter].announced
              \/ getter \in NoInitFunction \/ At(NotAnnounced)

\* Returned from before memset, or without one: bsd/uptime.c, bsd/ppp.c without ISDN,
\* bsd/procopenfiles.c, openbsd/procwd.c, solaris/*_limits.c from 5.10 on.  sysinfo
\* returns a structure of the library.
NotCleared ==
  { <<"bsd", "ppp">>, <<"bsd", "proc_open_files">>, <<"bsd", "uptime">>, <<"freebsd", "ppp">>,
    <<"openbsd", "ppp">>, <<"openbsd", "proc_wd">>, <<"openbsd", "uptime">>,
    <<"solaris", "msg_limits">>, <<"solaris", "sem_limits">>, <<"solaris", "shm_limits">> }

\* On every path the caller gets a buffer without what it held before the call: the
\* flags too.
BufferCleared == returned => (zeroed \/ getter = "sysinfo" \/ At(NotCleared))

\* bsd/procmap.c sets number and flags and returns NULL; solaris/proclist.c:103 returns
\* the list of one process, and neither.
NotDescribed == {<<"bsd", "proc_map">>, <<"solaris", "proclist">>}

\* number, size and total describe memory that is returned, and memory that is
\* returned is described by flags.
ListDescribed ==
  returned => \/ (counted => pointer # "none") /\ (pointer # "none" => flagged # {})
              \/ At(NotDescribed)

-----------------------------------------------------------------------------
(* What was taken, and how a call ends. *)

\* Not given back on some path.
Kept ==
  { <<"linux", "netload">>, <<"linux", "proclist">>, <<"cygwin", "proclist">>,
    <<"freebsd", "mountlist">>, <<"freebsd", "proc_open_files">>, <<"freebsd", "proc_wd">>,
    <<"bsd", "mountlist">>, <<"bsd", "old_swap">>, <<"openbsd", "cpu">>, <<"openbsd", "mountlist">>,
    <<"openbsd", "proc_map">>, <<"openbsd", "proc_open_files">>, <<"darwin", "mountlist">>,
    <<"darwin", "netload">>, <<"darwin", "proc_map">>, <<"darwin", "proc_mem">>,
    <<"darwin", "proc_time">>, <<"solaris", "mountlist">>, <<"solaris", "msg_limits">>,
    <<"solaris", "sem_limits">>, <<"solaris", "shm_limits">>, <<"solaris", "netlist">>,
    <<"solaris", "netload">>, <<"aix", "mountlist">> }

\* A call gives back what it took, but for the memory it returns, on every path: it is
\* made again and again by a process that runs for days.
NothingKept == returned => (held \cup lost = {} \/ At(Kept))

\* openbsd/cpu.c:119-140 uses and frees memory twice, darwin/netload.c:164 frees the
\* caller's buffer; procstate.c:80 of linux and cygwin and openbsd/procopenfiles.c:107-113
\* read through NULL; linux/netload.c:462 and solaris/netload.c:197 take the -1 of an
\* error for a descriptor, and close it.
Wild ==
  { <<"openbsd", "cpu">>, <<"darwin", "netload">>, <<"linux", "proc_state">>, <<"cygwin", "proc_state">>,
    <<"openbsd", "proc_open_files">>, <<"linux", "netload">>, <<"solaris", "netload">> }

\* Nothing is read or given back that is not held.
NoWildUse == wild => At(Wild)

\* A call that fails is an error of the program here: sched_getaffinity, getthrds, the
\* kernel's structures of a process.
EndsWithTheProcess ==
  { <<"linux", "proc_affinity">>, <<"freebsd", "proc_affinity">>, <<"bsd", "proc_affinity">>,
    <<"bsd", "proc_map">>, <<"openbsd", "proc_map">>, <<"openbsd", "proc_open_files">>,
    <<"aix", "proc_args">>, <<"aix", "proc_kernel">>, <<"aix", "proc_state">>, <<"aix", "proc_uid">> }

\* A process that ends while it is asked about, or while all are listed, does not
\* take the program that asks with it.
ProcessEndIsHarmless ==
  (phase = "dead" /\ getter # "none" /\ failed \in {"gone", "other"}) => At(EndsWithTheProcess)

\* freebsd/procmap.c:309 skips an entry without going on to the next;
\* solaris/netload.c:123 waits for an update that failed to succeed.
Spins == {<<"freebsd", "proc_map">>, <<"solaris", "netload">>}

\* Every call comes to an end.
Returns == (phase = "run" /\ ~At(Spins)) ~> phase \in {"done", "dead"}
=============================================================================
