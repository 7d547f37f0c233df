------------------------------ MODULE RemoteCall ------------------------------
(***************************************************************************)
(* What glibtop_call_l promises, without messages: one call at a time, the *)
(* server executes each at most once and in the order they were placed, a  *)
(* call returns only after its own execution, and when either process ends *)
(* no call returns any more (the server may still execute the last one).   *)
(***************************************************************************)
EXTENDS Naturals

VARIABLES
  st,      \* "free", "asked", "answered" (executed, not yet returned), "over"
  n,       \* calls placed
  ex       \* calls executed

absVars == <<st, n, ex>>

AbsInit == st = "free" /\ n = 0 /\ ex = 0

Ask == st = "free" /\ ex = n /\ st' = "asked" /\ n' = n + 1 /\ ex' = ex

Execute == st = "asked" /\ ex < n /\ ex' = n /\ st' = "answered" /\ n' = n

Deliver == st = "answered" /\ st' = "free" /\ UNCHANGED <<n, ex>>

GiveUp == st # "over" /\ st' = "over" /\ UNCHANGED <<n, ex>>

ExecuteLate == st = "over" /\ ex < n /\ ex' = n /\ UNCHANGED <<st, n>>

AbsNext == Ask \/ Execute \/ Deliver \/ GiveUp \/ ExecuteLate

AbsSpec == AbsInit /\ [][AbsNext]_absVars
=============================================================================
