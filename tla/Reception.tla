------------------------------ MODULE Reception ------------------------------
(***************************************************************************)
(* What the daemon promises the clients that connect, without descriptors, *)
(* processes or lines: they are looked at one at a time and in the order   *)
(* they came, each is decided once, only those that are welcome are        *)
(* served, and a closed daemon decides nothing more.  A connection may     *)
(* still arrive after that, as long as somebody who was served holds the   *)
(* listening socket.                                                       *)
(***************************************************************************)
EXTENDS Sequences

CONSTANTS Clients, Welcome

VARIABLES
  line,    \* those who wait, in the order they came
  at,      \* the one who is looked at, if any
  fate,    \* how far each of them got
  open     \* the daemon runs

recVars == <<line, at, fate, open>>

RecInit == line = <<>> /\ at = {} /\ fate = [c \in Clients |-> "idle"] /\ open = TRUE

Arrive(c) ==
  /\ fate[c] = "idle" /\ (open \/ \E d \in Clients : fate[d] = "served")
  /\ line' = Append(line, c) /\ fate' = [fate EXCEPT ![c] = "queued"]
  /\ UNCHANGED <<at, open>>

Take ==
  /\ open /\ at = {} /\ line # <<>> /\ fate[Head(line)] = "queued"
  /\ at' = {Head(line)} /\ line' = Tail(line)
  /\ fate' = [fate EXCEPT ![Head(line)] = "auth"]
  /\ UNCHANGED open

\* Somebody else accepted the connection and started the daemon for it alone.
HandedOver(c) ==
  /\ open /\ at = {} /\ line = <<>> /\ fate = [d \in Clients |-> "idle"]
  /\ at' = {c} /\ fate' = [fate EXCEPT ![c] = "auth"]
  /\ UNCHANGED <<line, open>>

Serve(c) ==
  /\ open /\ at = {c} /\ fate[c] = "auth" /\ c \in Welcome
  /\ at' = {} /\ fate' = [fate EXCEPT ![c] = "served"]
  /\ UNCHANGED <<line, open>>

\* The one who was handed over is the last.
TurnAway(c) ==
  /\ open /\ at = {c} /\ fate[c] = "auth"
  /\ at' = {} /\ fate' = [fate EXCEPT ![c] = "refused"]
  /\ open' \in BOOLEAN /\ UNCHANGED line

Finished(c) ==
  /\ fate[c] = "served"
  /\ fate' = [fate EXCEPT ![c] = "ended"]
  /\ UNCHANGED <<line, at, open>>

Close == open /\ open' = FALSE /\ at' = {} /\ UNCHANGED <<line, fate>>

RecNext ==
  \/ Take \/ Close
  \/ \E c \in Clients : Arrive(c) \/ HandedOver(c) \/ Serve(c) \/ TurnAway(c) \/ Finished(c)

RecSpec == RecInit /\ [][RecNext]_recVars
=============================================================================
