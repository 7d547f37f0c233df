------------------------------ MODULE ProcList ------------------------------
(***************************************************************************)
(* glibtop_get_proclist_s of Linux (sysdeps/linux/proclist.c): a walk      *)
(* through /proc that picks processes by their attributes, each read from  *)
(* files of their own, while processes start, change and end.              *)
(*                                                                         *)
(* A process has the attributes the kernel shows of it.  The files of one  *)
(* process are read one after the other, so that what is compared may      *)
(* belong to different moments, and, once a process number is used again,  *)
(* to different processes.                                                 *)
(***************************************************************************)
EXTENDS Integers

CONSTANTS
  MaxPid,       \* process numbers are 1..MaxPid
  Kinds,        \* processes there can be, by their attributes
  Queries,      \* what is asked for: which, arg and the set of exclusions
  MaxEvents     \* processes that start, change or end during a call

Pids == 1..MaxPid
None == [kind |-> "none"]
Selections == {"ALL", "PID", "UID", "PGRP", "SESSION", "TTY", "RUID"}
Exclusions == {"NOTTY", "IDLE", "SYSTEM"}

\* The kernel shows 0 for a process that has no terminal.
Attributes ==
  [kind : {"process"}, uid : Nat, euid : Nat, pgrp : Nat, session : Nat, tty : Nat, state : {"R", "S"}]

ASSUME ProcListAssumption ==
  /\ MaxPid \in Nat /\ MaxEvents \in Nat
  /\ Kinds \subseteq Attributes
  /\ Queries \subseteq [which : Selections, arg : Int, except : SUBSET Exclusions]

VARIABLES
  proc,       \* the processes, by number
  events,     \* what has happened to them during the call
  stays,      \* numbers of processes that have been there since opendir
  past,       \* what each number has shown since opendir
  query,      \* which, arg and the exclusions
  pc,         \* "out" of the call, at "readdir", at a "test", at the "first" or
              \* "second" file of a process, at the "verdict", "done", "failed"
  test,       \* the test the entry is at
  pid,        \* the entry
  flags,      \* what of the buffer of proc_uid or proc_state is flagged
  buf,        \* and what was read into it
  pids        \* the array

kernel == <<proc, events, stays, past>>
vars == <<kernel, query, pc, test, pid, flags, buf, pids>>

\* The tests of an entry, in the order of the source.
Tests == <<"which", "NOTTY", "IDLE", "SYSTEM">>
NoBuf == [uid |-> 0, euid |-> 0, pgrp |-> 0, session |-> 0, tty |-> 0, state |-> ""]
Bufs == [uid : Nat, euid : Nat, pgrp : Nat, session : Nat, tty : Nat \cup {-1}, state : {"", "R", "S"}]

TypeOK ==
  /\ proc \in [Pids -> Kinds \cup {None}] /\ events \in 0..MaxEvents
  /\ stays \subseteq Pids /\ past \in [Pids -> SUBSET Kinds]
  /\ query \in Queries /\ pc \in {"out", "readdir", "test", "first", "second", "verdict", "done", "failed"}
  /\ test \in 1..4 /\ pid \in 0..MaxPid
  /\ flags \subseteq {"ids", "stat"} /\ buf \in Bufs /\ pids \subseteq Pids

Init ==
  /\ proc \in [Pids -> Kinds \cup {None}] /\ events = 0
  /\ stays = {} /\ past = [p \in Pids |-> {}]
  /\ query \in Queries /\ pc = "out" /\ test = 1 /\ pid = 0
  /\ flags = {} /\ buf = NoBuf /\ pids = {}

-----------------------------------------------------------------------------
(* The processes. *)

Becomes(p, k) ==
  /\ pc \notin {"out", "done", "failed"} /\ events < MaxEvents /\ events' = events + 1
  /\ proc' = [proc EXCEPT ![p] = k]
  /\ past' = [past EXCEPT ![p] = @ \cup ({k} \ {None})]
  /\ UNCHANGED <<query, pc, test, pid, flags, buf, pids>>

Start(p, k) == proc[p] = None /\ Becomes(p, k) /\ UNCHANGED stays
Change(p, k) == proc[p] \notin {None, k} /\ Becomes(p, k) /\ UNCHANGED stays
End(p) == proc[p] # None /\ Becomes(p, None) /\ stays' = stays \ {p}

-----------------------------------------------------------------------------
(* The call. *)

\* opendir or fstat fails: NULL is returned.
OpenFails == pc = "out" /\ pc' = "failed" /\ UNCHANGED <<kernel, query, test, pid, flags, buf, pids>>

OpenDir ==
  /\ pc = "out" /\ pc' = "readdir"
  /\ stays' = {p \in Pids : proc[p] # None}
  /\ past' = [p \in Pids |-> {proc[p]} \ {None}]
  /\ UNCHANGED <<proc, events, query, test, pid, flags, buf, pids>>

\* The kernel goes through the numbers upwards.  It may show one whose process has
\* ended since, and leave out one that started or ended since, but none that stays.
Passed(p) == \A q \in stays : q <= pid \/ q >= p
ReadDir ==
  /\ pc = "readdir" /\ pc' = "test" /\ test' = 1
  /\ \E p \in Pids : p > pid /\ past[p] # {} /\ Passed(p) /\ pid' = p
  /\ UNCHANGED <<kernel, query, flags, buf, pids>>

\* closedir; flags, number and total are set.
EndDir ==
  /\ pc = "readdir" /\ Passed(MaxPid + 1) /\ pc' = "done"
  /\ UNCHANGED <<kernel, query, test, pid, flags, buf, pids>>

\* The next entry, and below the next test of this one or its place in the array.
Continue == pc' = "readdir" /\ UNCHANGED <<test, pids>>
\* Mutant: one test more.
PassesLate ==
  IF test = 5 THEN pc' = "readdir" /\ pids' = pids \cup {pid} /\ UNCHANGED test
              ELSE pc' = "test" /\ test' = test + 1 /\ UNCHANGED pids
Passes ==
  IF test = 4 THEN pc' = "readdir" /\ pids' = pids \cup {pid} /\ UNCHANGED test
              ELSE pc' = "test" /\ test' = test + 1 /\ UNCHANGED pids

\* Tests that read nothing, and the one that stats the directory of the process.
Applies == IF test = 1 THEN query.which # "ALL" ELSE Tests[test] \in query.except
Skipped == pc = "test" /\ ~Applies /\ Passes /\ UNCHANGED <<kernel, query, pid, flags, buf>>
ComparePid ==
  /\ pc = "test" /\ test = 1 /\ query.which = "PID"
  /\ IF query.arg = pid THEN Passes ELSE Continue
  /\ UNCHANGED <<kernel, query, pid, flags, buf>>
StatUid ==
  /\ pc = "test" /\ test = 1 /\ query.which = "UID"
  /\ IF proc[pid] # None /\ proc[pid].euid = query.arg THEN Passes ELSE Continue
  /\ UNCHANGED <<kernel, query, pid, flags, buf>>

\* glibtop_get_proc_uid_s, and glibtop_get_proc_state_s for IDLE: memset, and
\* returned from when the first file is not there.
Ask ==
  /\ pc = "test" /\ Applies /\ (test = 1 => query.which \notin {"PID", "UID"})
  /\ pc' = "first" /\ flags' = {} /\ buf' = NoBuf
  /\ UNCHANGED <<kernel, query, test, pid, pids>>

\* /proc/pid/status, or stat of /proc/pid.
ReadFirst ==
  /\ pc = "first"
  /\ IF proc[pid] = None THEN pc' = "verdict" /\ UNCHANGED <<flags, buf>>
     ELSE /\ pc' = "second" /\ flags' = {"ids"}
          /\ buf' = [buf EXCEPT !.uid = proc[pid].uid, !.euid = proc[pid].euid]
  /\ UNCHANGED <<kernel, query, test, pid, pids>>

\* Mutant: the kernel's 0 is kept.
TtyKept(tty) == tty
\* A process without a terminal has the old value for it.
Tty(tty) == IF tty = 0 THEN -1 ELSE tty

\* /proc/pid/stat.
ReadSecond ==
  /\ pc = "second" /\ pc' = "verdict"
  /\ IF proc[pid] = None THEN UNCHANGED <<flags, buf>>
     ELSE /\ flags' = flags \cup {"stat"}
          /\ buf' = [buf EXCEPT !.pgrp = proc[pid].pgrp, !.session = proc[pid].session,
                                !.tty = Tty(proc[pid].tty), !.state = proc[pid].state]
  /\ UNCHANGED <<kernel, query, test, pid, pids>>

\* Mutant: GLIBTOP_EXCLUDE_SYSTEM looks at the effective user.
ExcludedEffective(b) ==
  CASE Tests[test] = "NOTTY" -> b.tty = -1
    [] Tests[test] = "IDLE" -> b.state # "R"
    [] Tests[test] = "SYSTEM" -> b.euid = 0

Excluded(b) ==
  CASE Tests[test] = "NOTTY" -> b.tty = -1
    [] Tests[test] = "IDLE" -> b.state # "R"
    [] Tests[test] = "SYSTEM" -> b.uid = 0

\* The field that is compared; that for RUID is the effective user.
Selected(b) ==
  CASE query.which = "PGRP" -> b.pgrp [] query.which = "SESSION" -> b.session
    [] query.which = "TTY" -> b.tty [] query.which = "RUID" -> b.euid

\* The flag a test looks at before the value.
Needed == IF (test = 1 /\ query.which = "RUID") \/ Tests[test] = "SYSTEM" THEN "ids" ELSE "stat"

\* An entry whose field is not flagged passes.
Verdict ==
  /\ pc = "verdict"
  /\ IF Needed \in flags /\ (IF test = 1 THEN Selected(buf) # query.arg ELSE Excluded(buf))
     THEN Continue ELSE Passes
  /\ UNCHANGED <<kernel, query, pid, flags, buf>>

Walk ==
  \/ OpenFails \/ OpenDir \/ ReadDir \/ EndDir \/ Skipped \/ ComparePid \/ StatUid \/ Ask
  \/ ReadFirst \/ ReadSecond \/ Verdict

Returned == pc \in {"done", "failed"} /\ UNCHANGED vars

Next ==
  \/ \E p \in Pids : End(p) \/ \E k \in Kinds : Start(p, k) \/ Change(p, k)
  \/ Walk \/ Returned

Spec == Init /\ [][Next]_vars

-----------------------------------------------------------------------------
(* What a caller may rely on. *)

\* What a process with attributes k has to show to be selected, and to be excluded, in
\* the words of include/glibtop/proclist.h:40-112.
Meets(p, k, t) ==
  CASE t = "which" ->
         (CASE query.which = "ALL" -> TRUE
            [] query.which = "PID" -> p = query.arg
            [] query.which = "PGRP" -> k.pgrp = query.arg
            [] query.which = "SESSION" -> k.session = query.arg
            [] query.which = "TTY" -> Tty(k.tty) = query.arg
            [] query.which = "UID" -> k.euid = query.arg
            [] query.which = "RUID" -> k.uid = query.arg)
    [] t = "NOTTY" -> ~("NOTTY" \in query.except /\ k.tty = 0)
    [] t = "IDLE" -> ~("IDLE" \in query.except /\ k.state # "R")
    [] t = "SYSTEM" -> ~("SYSTEM" \in query.except /\ k.uid = 0)

\* A query for the real user tells by the effective one (proclist.c:134), which is the
\* same as long as a process acts for nobody else.
OwnRights(p) == query.which = "RUID" => \A k \in past[p] : k.uid = k.euid

\* A process that is there during the whole call, and that what is asked for fits at
\* each moment of it, is in the list, whatever else starts and ends.
ListsWhatFits ==
  pc = "done" => \A p \in stays :
    OwnRights(p) /\ (\A k \in past[p], i \in 1..4 : Meets(p, k, Tests[i])) => p \in pids

\* A process in the list that is there during the whole call passed each test with
\* something it showed during the call: never with what was left from another
\* process, or from none.
ListsNothingElse ==
  pc = "done" => \A p \in stays \cap pids, i \in 1..4 :
    (i = 1 => OwnRights(p)) => \E k \in past[p] : Meets(p, k, Tests[i])

-----------------------------------------------------------------------------
(* What the documentation says, and the code does not do. *)

\* "Return all processes with the real uid passed in @arg", and no others: the process
\* of a user that runs with the rights of another is listed for its own user.
ListsByRealUser ==
  pc = "done" /\ query.which = "RUID" /\ query.except = {} => \A p \in stays :
    /\ (\A k \in past[p] : Meets(p, k, "which")) => p \in pids
    /\ p \in pids => \E k \in past[p] : Meets(p, k, "which")
=============================================================================
