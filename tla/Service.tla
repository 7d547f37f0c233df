------------------------------- MODULE Service -------------------------------
(***************************************************************************)
(* What a glibtop structure promises its application, without the bits and *)
(* the calls from one function of the library into another.  It opens once *)
(* and for good: with no server, or with one, which says what it has.      *)
(* From then on who answers a getter follows from the feature alone; after *)
(* the connection was closed the server's features end the process, and no *)
(* connection is made again.                                               *)
(***************************************************************************)
CONSTANTS Features, ServerFeatures

VARIABLES
  stage,    \* "unopened", "local", "connecting", "served", "closed", "over"
  peer,     \* "nobody", "setuid" or "daemon"
  has,      \* the features the server answers
  ready,    \* the sysdeps directory is open
  answer    \* the last getter, and by whom it was answered

svcVars == <<stage, peer, has, ready, answer>>

SvcInit ==
  /\ stage = "unopened" /\ peer = "nobody" /\ has = {} /\ ready = FALSE
  /\ answer = <<"init", "never">>

OpenLocal ==
  /\ stage = "unopened" /\ stage' = "local"
  /\ UNCHANGED <<peer, has, ready, answer>>

Connect ==
  /\ stage = "unopened" /\ stage' = "connecting" /\ peer' \in {"setuid", "daemon"}
  /\ UNCHANGED <<has, ready, answer>>

Agree ==
  /\ stage = "connecting" /\ stage' = "served"
  /\ has' = IF peer = "setuid" THEN ServerFeatures ELSE Features
  /\ UNCHANGED <<peer, ready, answer>>

OpenDirectory ==
  /\ stage \in {"local", "served"} /\ ~ready /\ ready' = TRUE
  /\ UNCHANGED <<stage, peer, has, answer>>

Route(f) ==
  IF f \in has THEN (IF stage = "served" THEN "server" ELSE "badfd")
  ELSE IF f \in ServerFeatures THEN "enosys" ELSE "sysdeps"

\* A getter without an answer ends the process; one whose answer lacks something may.
Reply(f) ==
  /\ stage \in {"local", "served", "closed"} /\ ready
  /\ answer' = <<f, Route(f)>>
  /\ \/ Route(f) \in {"server", "sysdeps"} /\ UNCHANGED <<stage, has>>
     \/ stage' = "over" /\ has' = {}
  /\ UNCHANGED <<peer, ready>>

HangUp ==
  /\ stage = "served" /\ stage' = "closed"
  /\ UNCHANGED <<peer, has, ready, answer>>

Die ==
  /\ stage # "over" /\ stage' = "over" /\ has' = {}
  /\ UNCHANGED <<peer, ready, answer>>

SvcNext ==
  \/ OpenLocal \/ Connect \/ Agree \/ OpenDirectory \/ HangUp \/ Die
  \/ \E f \in Features : Reply(f)

SvcSpec == SvcInit /\ [][SvcNext]_svcVars
=============================================================================
