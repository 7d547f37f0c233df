----------------------------- MODULE MCProcList -----------------------------
(***************************************************************************)
(* Processes that differ in what the tests look at: one of root without a  *)
(* terminal, one that runs for its user, one of the same user that waits,  *)
(* and one that has the rights of another.                                 *)
(***************************************************************************)
EXTENDS ProcList

Process(uid, euid, pgrp, session, tty, state) ==
  [kind |-> "process", uid |-> uid, euid |-> euid, pgrp |-> pgrp, session |-> session, tty |-> tty,
   state |-> state]
MCKinds == {Process(0, 0, 1, 1, 0, "R"), Process(1, 1, 2, 2, 4, "R"), Process(1, 0, 1, 2, 4, "S")}

Query(which, arg, except) == [which |-> which, arg |-> arg, except |-> except]
MCQueries ==
  {Query(which, 1, {}) : which \in Selections} \cup {Query("TTY", 4, {}), Query("TTY", -1, {}), Query("RUID", 0, {})}
  \cup {Query("ALL", 0, except) : except \in SUBSET Exclusions} \cup {Query("UID", 0, {"NOTTY", "SYSTEM"})}
=============================================================================
