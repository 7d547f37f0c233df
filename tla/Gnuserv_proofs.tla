--------------------------- MODULE Gnuserv_proofs ---------------------------
(* What the daemon guarantees, for every set of clients and hosts, every    *)
(* way to start it and every number of descriptors.                         *)
EXTENDS Gnuserv, FiniteSetTheorems, TLAPS

USE GnuservAssumption

Inv == TypeOK /\ Ledger /\ IsFiniteSet(served)

\* The descriptors are a finite set: a new one makes it larger by one, a closed
\* one smaller by one (NewFd, Closes).
LEMMA Descriptors ==
  ASSUME NEW used \in SUBSET (0..FdLimit - 1)
  PROVE  /\ IsFiniteSet(used)
         /\ \A d : NewFd(d, used) => /\ used \cup {d} \in SUBSET (0..FdLimit - 1)
                                     /\ Cardinality(used \cup {d}) = Cardinality(used) + 1
         /\ \A d \in used : Cardinality(used \ {d}) = Cardinality(used) - 1
<1>1. IsFiniteSet(0..FdLimit - 1)
  BY FS_Interval
<1>2. IsFiniteSet(used)
  BY <1>1, FS_Subset
<1>3. ASSUME NEW d, NewFd(d, used)
      PROVE  /\ used \cup {d} \in SUBSET (0..FdLimit - 1)
             /\ Cardinality(used \cup {d}) = Cardinality(used) + 1
  BY <1>2, <1>3, FS_AddElement DEF NewFd
<1>4. ASSUME NEW d \in used
      PROVE  Cardinality(used \ {d}) = Cardinality(used) - 1
  BY <1>2, FS_RemoveElement
<1> QED BY <1>2, <1>3, <1>4

\* How many descriptors the daemon has when it sets up its network: the standard
\* ones, without the first in the background, and that of a log (gnuserv.c:511).
LEMMA StartDescriptors ==
  ASSUME Inv, pc = "setup"
  PROVE  Cardinality(fds) = AtStart - ServerFds - 1
<1>1. Cardinality({1, 2}) = 2 /\ Cardinality(0..2) = 3 /\ Cardinality(0..3) = 4
  <2>1. Cardinality(0..2) = 3
    BY FS_Interval, 0 \in Int, 2 \in Int, ~(0 > 2), 2 - 0 + 1 = 3
  <2>2. Cardinality(0..3) = 4
    BY FS_Interval, 0 \in Int, 3 \in Int, ~(0 > 3), 3 - 0 + 1 = 4
  <2>3. Cardinality(1..2) = 2
    BY FS_Interval, 1 \in Int, 2 \in Int, ~(1 > 2), 2 - 1 + 1 = 2
  <2>4. 1..2 = {1, 2}
    OBVIOUS
  <2> QED BY <2>1, <2>2, <2>3, <2>4
<1>2. fds = (IF mode = "background" THEN {1, 2} ELSE 0..2)
            \cup (IF ~LogOpen THEN {} ELSE IF mode = "background" THEN {0} ELSE {3})
  BY DEF Inv, Ledger, Looking
<1>3. CASE LogOpen
  <2>1. fds = IF mode = "background" THEN 0..2 ELSE 0..3
    BY <1>2, <1>3
  <2> QED BY <1>1, <1>3, <2>1 DEF AtStart
<1>4. CASE ~LogOpen
  <2>1. fds = IF mode = "background" THEN {1, 2} ELSE 0..2
    BY <1>2, <1>4
  <2> QED BY <1>1, <1>4, <2>1 DEF AtStart
<1> QED BY <1>3, <1>4

LEMMA InitInv == Init => Inv
<1> SUFFICES ASSUME Init PROVE Inv
  OBVIOUS
<1>1. TypeOK
  <2>1. 0..2 \subseteq 0..FdLimit - 1 /\ backlog \in Seq(Clients)
    BY DEF Init
  <2>2. /\ conn \in [Clients -> {"idle", "queued", "auth", "served", "refused", "ended"}]
        /\ sent \in [Clients -> 0..3]
        /\ handler \in [Clients -> {"none", "runs", "zombie", "reaped"}]
    BY DEF Init
  <2>3. mode \in Modes /\ resolver \in Resolvers /\ pc \in Positions /\ current \in Clients
    BY DEF Init, Positions
  <2>4. /\ ils \in 0..FdLimit /\ sock \in 0..FdLimit /\ got \in 0..3
        /\ table \subseteq Hosts /\ hungUp \subseteq Clients
        /\ served \subseteq Clients /\ cut \subseteq Clients \X {"time", "signal", "length"}
    BY DEF Init
  <2>5. up \in BOOLEAN /\ failed \in BOOLEAN /\ fds = 0..2
    BY DEF Init
  <2> QED BY <2>1, <2>2, <2>3, <2>4, <2>5 DEF TypeOK
<1>2. Ledger
  BY DEF Init, Ledger, Queue, Looking, Handed, Accounted, EndsOnlyWhenFull
<1>3. IsFiniteSet(served)
  BY FS_EmptySet DEF Init
<1> QED BY <1>1, <1>2, <1>3 DEF Inv

-----------------------------------------------------------------------------
(* Startup. *)

LEMMA BootInv == Inv /\ Boot => Inv'
<1> SUFFICES ASSUME Inv, Boot PROVE Inv'
  OBVIOUS
<1>1. fds = 0..2 /\ mode # "inetd"
  BY DEF Boot, Inv, Ledger, Looking
<1>2. fds' = (IF mode = "background" THEN {1, 2} ELSE 0..2)
             \cup (IF ~LogOpen THEN {} ELSE IF mode = "background" THEN {0} ELSE {3})
  <2>1. CASE ~LogOpen
    BY <1>1, <2>1 DEF Boot
  <2>2. CASE LogOpen /\ mode = "background"
    <3>1. PICK d \in 0..FdLimit - 1 : NewFd(d, {1, 2}) /\ fds' = {1, 2} \cup {d}
      BY <1>1, <2>2 DEF Boot, NewFd
    <3>2. d = 0
      BY <3>1 DEF NewFd
    <3> QED BY <2>2, <3>1, <3>2
  <2>3. CASE LogOpen /\ mode # "background"
    <3>1. PICK d \in 0..FdLimit - 1 : NewFd(d, 0..2) /\ fds' = 0..2 \cup {d}
      BY <1>1, <2>3 DEF Boot
    <3>2. d = 3
      BY <3>1 DEF NewFd
    <3> QED BY <2>3, <3>1, <3>2
  <2> QED BY <2>1, <2>2, <2>3
<1>3. TypeOK'
  BY <1>2 DEF Inv, TypeOK, Boot, Positions, started, network
<1>4. Ledger'
  BY <1>1, <1>2 DEF Inv, TypeOK, Boot, started, network,
     Ledger, Queue, Looking, Handed, Accounted, EndsOnlyWhenFull
<1> QED BY <1>3, <1>4 DEF Inv, Boot

LEMMA BootInetdInv == Inv /\ BootInetd => Inv'
<1> SUFFICES ASSUME Inv, BootInetd PROVE Inv'
  OBVIOUS
<1>1. TypeOK'
  BY DEF Inv, TypeOK, BootInetd, Positions, started
<1>2. Queue'
  BY DEF Inv, Ledger, Queue, Looking, TypeOK, BootInetd, started
<1>3. Ledger'
  BY <1>2 DEF Inv, TypeOK, BootInetd, started,
     Ledger, Looking, Handed, Accounted, EndsOnlyWhenFull
<1> QED BY <1>1, <1>3 DEF Inv, BootInetd

LEMMA SetupUnresolvedInv == Inv /\ SetupUnresolved => Inv'
<1> SUFFICES ASSUME Inv, SetupUnresolved PROVE Inv'
  OBVIOUS
<1>1. TypeOK'
  BY DEF Inv, TypeOK, SetupUnresolved, Exit, Positions, started, network
<1>2. Ledger'
  BY DEF Inv, TypeOK, SetupUnresolved, Exit, started, network,
     Ledger, Queue, Looking, Handed, Accounted, EndsOnlyWhenFull
<1> QED BY <1>1, <1>2 DEF Inv, SetupUnresolved

\* The listening socket and the pipe to the server make the descriptors AtStart
\* (gnuserv.c:595).
LEMMA SetupInv == Inv /\ Setup => Inv'
<1> SUFFICES ASSUME Inv, Setup PROVE Inv'
  OBVIOUS
<1>1. PICK s \in 0..FdLimit - 1 :
        /\ NewFd(s, fds) /\ ils' = s
        /\ IF s = 0 \/ ServerFds = 0
           THEN fds' = fds \cup {s}
           ELSE \E p, q \in 0..FdLimit - 1 :
                  /\ NewFd(p, fds \cup {s}) /\ NewFd(q, fds \cup {s, p})
                  /\ fds' = fds \cup {s, p, q}
        /\ pc' = IF s = 0 THEN "exited" ELSE "reap"
        /\ up' = (s # 0)
  BY DEF Setup
<1>2. fds \in SUBSET (0..FdLimit - 1)
  BY DEF Inv, TypeOK
<1>3. /\ fds \cup {s} \in SUBSET (0..FdLimit - 1)
      /\ Cardinality(fds \cup {s}) = AtStart - ServerFds
  <2>1. Cardinality(fds) = AtStart - ServerFds - 1 /\ AtStart \in Int
    BY StartDescriptors DEF Setup, AtStart
  <2> QED BY <1>1, <1>2, <2>1, Descriptors
<1>4. ASSUME s = 0 \/ ServerFds = 0
      PROVE  fds' \subseteq 0..FdLimit - 1 /\ (s # 0 => Cardinality(fds') = AtStart)
  <2>1. fds' = fds \cup {s}
    BY <1>1, <1>4
  <2>2. s # 0 => ServerFds = 0
    BY <1>4
  <2>3. AtStart \in Int
    BY DEF AtStart
  <2> QED BY <1>3, <2>1, <2>2, <2>3
<1>5. ASSUME ~(s = 0 \/ ServerFds = 0)
      PROVE  fds' \subseteq 0..FdLimit - 1 /\ Cardinality(fds') = AtStart
  <2>1. PICK p, q \in 0..FdLimit - 1 :
          /\ NewFd(p, fds \cup {s}) /\ NewFd(q, fds \cup {s, p})
          /\ fds' = fds \cup {s, p, q}
    BY <1>1, <1>5
  <2> DEFINE first == fds \cup {s}
             second == first \cup {p}
  <2>2. second = fds \cup {s, p} /\ fds' = second \cup {q}
    BY <2>1
  <2>3. NewFd(p, first) /\ NewFd(q, second)
    BY <2>1, <2>2
  <2>4. first \in SUBSET (0..FdLimit - 1) /\ Cardinality(first) = AtStart - ServerFds
    BY <1>3
  <2> HIDE DEF first
  <2>5. second \in SUBSET (0..FdLimit - 1) /\ Cardinality(second) = Cardinality(first) + 1
    BY <2>3, <2>4, Descriptors
  <2> HIDE DEF second
  <2>6. fds' \in SUBSET (0..FdLimit - 1) /\ Cardinality(fds') = Cardinality(second) + 1
    BY <2>2, <2>3, <2>5, Descriptors
  <2>7. ServerFds = 2 /\ AtStart \in Int
    BY <1>5 DEF AtStart
  <2> HIDE DEF AtStart
  <2> QED BY <2>4, <2>5, <2>6, <2>7
<1>6. fds' \subseteq 0..FdLimit - 1 /\ (s # 0 => Cardinality(fds') = AtStart)
  BY <1>4, <1>5
<1>7. TypeOK'
  BY <1>1, <1>6 DEF Inv, TypeOK, Setup, Positions, started, network
<1>8. Accounted'
  <2>1. Cardinality(served) = 0 /\ served' = served
    BY FS_EmptySet DEF Setup, Inv, Ledger, Looking
  <2> QED BY <1>1, <1>6, <2>1 DEF Accounted, AtStart, started, Setup
<1>9. Ledger'
  BY <1>1, <1>8 DEF Inv, TypeOK, Setup, started, network,
     Ledger, Queue, Looking, Handed, EndsOnlyWhenFull
<1> QED BY <1>7, <1>9 DEF Inv, Setup

LEMMA SetupFailsInv == Inv /\ SetupFails => Inv'
<1> SUFFICES ASSUME Inv, SetupFails PROVE Inv'
  OBVIOUS
<1>1. TypeOK'
  BY DEF Inv, TypeOK, SetupFails, Exit, Positions, started, network
<1>2. Ledger'
  BY DEF Inv, TypeOK, SetupFails, Exit, started, network,
     Ledger, Queue, Looking, Handed, Accounted, EndsOnlyWhenFull
<1> QED BY <1>1, <1>2 DEF Inv, SetupFails

-----------------------------------------------------------------------------
(* The loop. *)

\* What every step that leaves the sets alone preserves is shown in one go.
LEMMA LoopInv ==
  ASSUME Inv, \/ \E c \in Clients : Reap(c)
              \/ ReapDone \/ EnterSelect \/ Selected
  PROVE  Inv'
<1>1. CASE \E c \in Clients : Reap(c)
  <2>1. PICK c \in Clients : Reap(c)
    BY <1>1
  <2>2. TypeOK'
    BY <2>1 DEF Inv, TypeOK, Reap, started, process, network
  <2>3. Ledger'
    BY <2>1 DEF Inv, TypeOK, Reap, started, process, network, AtStart, Granted, Full,
       Ledger, Queue, Looking, Handed, Accounted, EndsOnlyWhenFull
  <2> QED BY <2>1, <2>2, <2>3 DEF Inv, Reap
<1>2. CASE ReapDone \/ EnterSelect \/ Selected
  <2>1. TypeOK'
    BY <1>2 DEF Inv, TypeOK, Positions, ReapDone, EnterSelect, Selected, started, network
  <2>2. Ledger'
    BY <1>2 DEF Inv, TypeOK, ReapDone, EnterSelect, Selected, started, network, AtStart,
       Granted, Full, Ledger, Queue, Looking, Handed, Accounted, EndsOnlyWhenFull
  <2> QED BY <1>2, <2>1, <2>2 DEF Inv, ReapDone, EnterSelect, Selected
<1> QED BY <1>1, <1>2

\* The accepted connection has waited, so it was not served before, and it is
\* one more descriptor (gnuserv.c:400).
LEMMA AcceptInv == Inv /\ Accept => Inv'
<1> SUFFICES ASSUME Inv, Accept PROVE Inv'
  OBVIOUS
<1> DEFINE c == Head(backlog)
<1>1. /\ backlog \in Seq(Clients) /\ backlog # <<>> /\ fds \in SUBSET (0..FdLimit - 1)
      /\ conn \in [Clients -> {"idle", "queued", "auth", "served", "refused", "ended"}]
  BY DEF Accept, Inv, TypeOK, Ledger, Looking
<1>2. c \in Clients /\ c = backlog[1] /\ 1 \in DOMAIN backlog
  BY <1>1
<1>3. conn[c] = "queued" /\ conn' = [conn EXCEPT ![c] = "auth"] /\ current' = c
  BY <1>2 DEF Inv, Ledger, Queue, Accept
<1>4. PICK s \in 0..FdLimit - 1 : NewFd(s, fds) /\ sock' = s /\ fds' = fds \cup {s}
  BY DEF Accept
<1>5. fds' \subseteq 0..FdLimit - 1 /\ Cardinality(fds') = Cardinality(fds) + 1 /\ sock' \in fds'
  BY <1>1, <1>4, Descriptors
<1>6. /\ backlog' \in Seq(Clients)
      /\ \A i \in DOMAIN backlog' : i + 1 \in DOMAIN backlog /\ backlog'[i] = backlog[i + 1]
  BY <1>1 DEF Accept
<1>7. TypeOK'
  BY <1>1, <1>2, <1>4, <1>5, <1>6 DEF Inv, TypeOK, Accept, Positions, started
<1>8. Queue'
  <2>1. ASSUME NEW i \in DOMAIN backlog' PROVE conn'[backlog'[i]] = "queued"
    <3>1. i \in 1..Len(backlog')
      BY <1>6
    <3>2. backlog[i + 1] # backlog[1] /\ conn[backlog[i + 1]] = "queued"
      BY <1>2, <1>6, <3>1 DEF Inv, Ledger, Queue
    <3>3. backlog[i + 1] \in Clients
      BY <1>1, <1>6
    <3> QED BY <1>1, <1>2, <1>3, <1>6, <3>2, <3>3
  <2>2. ASSUME NEW i \in DOMAIN backlog', NEW j \in DOMAIN backlog', backlog'[i] = backlog'[j]
        PROVE  i = j
    <3>1. i \in 1..Len(backlog') /\ j \in 1..Len(backlog')
      BY <1>6
    <3>2. i + 1 = j + 1
      BY <1>6, <2>2 DEF Inv, Ledger, Queue
    <3> QED BY <3>1, <3>2
  <2> QED BY <2>1, <2>2 DEF Queue
<1>9. Accounted'
  <2>1. up /\ pc = "accept" /\ pc' = "auth" /\ served' = served /\ up' = up
    BY DEF Accept, Inv, Ledger, Looking
  <2>2. Cardinality(fds) = AtStart + Cardinality(served)
    <3>1. Cardinality(served) \in Nat /\ AtStart \in Int
      BY FS_CardinalityType DEF Inv, AtStart
    <3> QED BY <2>1, <3>1 DEF Inv, Ledger, Accounted
  <2> QED BY <1>5, <2>1, <2>2 DEF Accounted, AtStart, Accept, started
<1>10. Looking'
  BY <1>1, <1>2, <1>3, <1>5 DEF Inv, Ledger, Looking, Accept, started
<1>11. Handed' /\ EndsOnlyWhenFull'
  BY <1>1, <1>2, <1>3 DEF Inv, Ledger, Handed, EndsOnlyWhenFull, Accept
<1> QED BY <1>7, <1>8, <1>9, <1>10, <1>11 DEF Inv, Ledger, Accept

LEMMA AcceptFailsInv == Inv /\ AcceptFails => Inv'
<1> SUFFICES ASSUME Inv, AcceptFails PROVE Inv'
  OBVIOUS
<1>1. TypeOK'
  BY DEF Inv, TypeOK, AcceptFails, Exit, Positions, started, network
<1>2. Ledger'
  BY DEF Inv, TypeOK, AcceptFails, Exit, started, network, Full,
     Ledger, Queue, Looking, Handed, Accounted, EndsOnlyWhenFull
<1> QED BY <1>1, <1>2 DEF Inv, AcceptFails

-----------------------------------------------------------------------------
(* The authentication, the refusal and the handler. *)

LEMMA PermittedInv ==
  ASSUME Inv, ReadLine \/ Permitted \/ LengthRefused \/ TimedOut \/ EndOfFile
  PROVE  Inv'
<1>1. TypeOK'
  <2>1. got < Lines(current) => got + 1 \in 0..3
    BY DEF Lines, Inv, TypeOK
  <2>2. sent[current] > 0 => sent[current] - 1 \in 0..3
    BY DEF Inv, TypeOK
  <2>3. CASE ReadLine
    BY <2>1, <2>2, <2>3 DEF Inv, TypeOK, ReadLine, started, process
  <2>4. CASE Permitted \/ LengthRefused \/ TimedOut \/ EndOfFile
    <3>1. cut' \subseteq Clients \X {"time", "signal", "length"}
      BY <2>4 DEF Inv, TypeOK, Permitted, LengthRefused, TimedOut, EndOfFile
    <3> QED BY <2>4, <3>1 DEF Inv, TypeOK, Permitted, LengthRefused, TimedOut, EndOfFile,
                    Positions, started, network
  <2> QED BY <2>3, <2>4
<1>2. Ledger'
  BY DEF Inv, TypeOK, ReadLine, Permitted, LengthRefused, TimedOut, EndOfFile, started, process, network,
     AtStart, Granted, Full, Ledger, Queue, Looking, Handed, Accounted, EndsOnlyWhenFull
<1> QED BY <1>1, <1>2 DEF Inv, ReadLine, Permitted, LengthRefused, TimedOut, EndOfFile

\* What the refused connection took is given back (gnuserv.c:415).
LEMMA RefuseInv == Inv /\ Refuse => Inv'
<1> SUFFICES ASSUME Inv, Refuse PROVE Inv'
  OBVIOUS
<1>1. /\ fds \in SUBSET (0..FdLimit - 1) /\ sock \in fds /\ conn[current] = "auth"
      /\ fds' = fds \ {sock}
  BY DEF Refuse, Closes, Inv, TypeOK, Ledger, Looking
<1>2. TypeOK'
  BY <1>1 DEF Inv, TypeOK, Refuse, Positions, started
<1>3. Accounted'
  <2>1. Cardinality(fds') = Cardinality(fds) - 1
    BY <1>1, Descriptors
  <2>2. ASSUME up, pc' # "exited"
        PROVE  Cardinality(fds) = AtStart + Cardinality(served) + 1
    BY <2>2 DEF Inv, Ledger, Accounted, Refuse
  <2>3. Cardinality(served) \in Nat /\ AtStart \in Int
    BY FS_CardinalityType DEF Inv, AtStart
  <2>4. served' = served /\ up' = up /\ AtStart' = AtStart
    BY DEF Refuse, started, AtStart
  <2>5. pc' \notin {"auth", "refuse", "fork"}
    BY DEF Refuse
  <2> QED BY <2>1, <2>2, <2>3, <2>4, <2>5 DEF Accounted
<1>4. Queue'
  BY <1>1 DEF Inv, TypeOK, Ledger, Queue, Refuse
<1>5. Looking' /\ Handed' /\ EndsOnlyWhenFull'
  BY <1>1 DEF Inv, TypeOK, Ledger, Looking, Handed, EndsOnlyWhenFull, Refuse, started
<1> QED BY <1>2, <1>3, <1>4, <1>5 DEF Inv, Ledger, Refuse

\* The handler's connection is one that was not served before, and its
\* descriptor stays in the parent (gnuserv.c:431).
LEMMA ForkInv == Inv /\ Fork => Inv'
<1> SUFFICES ASSUME Inv, Fork PROVE Inv'
  OBVIOUS
<1>1. /\ conn[current] = "auth" /\ current \in Clients
      /\ current \in table /\ Protocol[current] \in {"secure", "cookie"} /\ current \in Hosts
      /\ mode # "inetd" /\ up
  BY DEF Fork, Inv, TypeOK, Ledger, Looking, Granted
<1>2. current \notin served
  BY <1>1 DEF Inv, Ledger, Handed
<1>3. TypeOK'
  BY <1>1 DEF Inv, TypeOK, Fork, Positions, started
<1>4. /\ IsFiniteSet(served') /\ Cardinality(served') = Cardinality(served) + 1
  BY <1>2, FS_AddElement DEF Inv, Fork
<1>5. Accounted'
  <2>1. Cardinality(fds) = AtStart + Cardinality(served) + 1
    BY <1>1 DEF Inv, Ledger, Accounted, Fork
  <2>2. fds' = fds /\ AtStart' = AtStart /\ pc' = "reap"
    BY DEF Fork, started, AtStart
  <2>3. Cardinality(served) \in Nat /\ AtStart \in Int
    BY FS_CardinalityType DEF Inv, AtStart
  <2> QED BY <1>4, <2>1, <2>2, <2>3 DEF Accounted
<1>6. Queue'
  BY <1>1 DEF Inv, TypeOK, Ledger, Queue, Fork
<1>7. Looking' /\ Handed' /\ EndsOnlyWhenFull'
  BY <1>1 DEF Inv, TypeOK, Ledger, Looking, Handed, EndsOnlyWhenFull, Fork, started
<1> QED BY <1>3, <1>4, <1>5, <1>6, <1>7 DEF Inv, Ledger

LEMMA ForkFailsInv == Inv /\ ForkFails => Inv'
<1> SUFFICES ASSUME Inv, ForkFails PROVE Inv'
  OBVIOUS
<1>1. TypeOK'
  BY DEF Inv, TypeOK, ForkFails, Exit, Positions, started, network
<1>2. Ledger'
  BY DEF Inv, TypeOK, ForkFails, Exit, started, network,
     Ledger, Queue, Looking, Handed, Accounted, EndsOnlyWhenFull
<1> QED BY <1>1, <1>2 DEF Inv, ForkFails

-----------------------------------------------------------------------------
(* Handlers and clients. *)

\* The handler that ends is one of a served connection; the select that is
\* interrupted opens and closes nothing (gnuserv.c:146, 643).
LEMMA HandlerEndsInv ==
  ASSUME Inv, NEW c \in Clients, HandlerEnds(c)
  PROVE  Inv'
<1>1. c \in served /\ conn[c] \in {"served", "ended"}
  BY DEF HandlerEnds, Inv, Ledger, Handed
<1>2. \/ pc' = pc
      \/ pc = "select" /\ pc' = "reap"
      \/ pc = "auth" /\ pc' = "refuse"
  BY DEF HandlerEnds
<1>3. TypeOK'
  BY <1>2 DEF Inv, TypeOK, HandlerEnds, Positions, started
<1>4. Queue'
  BY <1>1 DEF Inv, TypeOK, Ledger, Queue, HandlerEnds
<1>5. Looking'
  BY <1>1, <1>2 DEF Inv, TypeOK, Ledger, Looking, Granted, HandlerEnds, started
<1>6. Handed'
  BY <1>1 DEF Inv, TypeOK, Ledger, Handed, HandlerEnds
<1>7. Accounted' /\ EndsOnlyWhenFull'
  BY <1>2 DEF Inv, Ledger, Accounted, EndsOnlyWhenFull, AtStart, Full, HandlerEnds, started
<1> QED BY <1>3, <1>4, <1>5, <1>6, <1>7 DEF Inv, Ledger, HandlerEnds

LEMMA ConnectInv ==
  ASSUME Inv, NEW c \in Clients, Connect(c)
  PROVE  Inv'
<1>1. /\ conn[c] = "idle" /\ up /\ backlog' = Append(backlog, c) /\ backlog \in Seq(Clients)
      /\ conn' = [conn EXCEPT ![c] = "queued"]
      /\ conn \in [Clients -> {"idle", "queued", "auth", "served", "refused", "ended"}]
  BY DEF Connect, Inv, TypeOK
<1>2. TypeOK'
  BY <1>1 DEF Inv, TypeOK, Connect, started, process
<1>3. Queue'
  <2>1. \A i \in DOMAIN backlog' :
          \/ i \in DOMAIN backlog /\ backlog'[i] = backlog[i]
          \/ i = Len(backlog) + 1 /\ backlog'[i] = c
    BY <1>1
  <2>2. \A i \in DOMAIN backlog : backlog[i] # c /\ backlog[i] \in Clients /\ conn[backlog[i]] = "queued"
    BY <1>1 DEF Inv, Ledger, Queue
  <2> QED BY <1>1, <2>1, <2>2 DEF Inv, Ledger, Queue
<1>4. Looking'
  BY <1>1 DEF Inv, TypeOK, Ledger, Looking, Granted, Connect, started, process
<1>5. Handed' /\ Accounted' /\ EndsOnlyWhenFull'
  BY <1>1 DEF Inv, TypeOK, Ledger, Handed, Accounted, EndsOnlyWhenFull, AtStart, Full,
     Connect, started, process
<1> QED BY <1>2, <1>3, <1>4, <1>5 DEF Inv, Ledger, Connect

LEMMA ClientInv ==
  ASSUME Inv, NEW c \in Clients,
         HangUp(c) \/ \E n \in 1..3 : n <= Lines(c) /\ SendLines(c, n)
  PROVE  Inv'
<1>1. TypeOK'
  <2>1. CASE HangUp(c)
    BY <2>1 DEF Inv, TypeOK, HangUp, started, process
  <2>2. CASE \E n \in 1..3 : n <= Lines(c) /\ SendLines(c, n)
    <3>1. PICK n \in 1..3 : SendLines(c, n)
      BY <2>2
    <3>2. sent' \in [Clients -> 0..3]
      BY <3>1 DEF SendLines, Inv, TypeOK
    <3> QED BY <3>1, <3>2 DEF Inv, TypeOK, SendLines, started, process
  <2> QED BY <2>1, <2>2
<1>2. Ledger'
  BY DEF Inv, TypeOK, HangUp, SendLines, started, process, AtStart, Granted, Full,
     Ledger, Queue, Looking, Handed, Accounted, EndsOnlyWhenFull
<1> QED BY <1>1, <1>2 DEF Inv, HangUp, SendLines

-----------------------------------------------------------------------------
LEMMA NextInv == Inv /\ [Next]_vars => Inv'
<1> SUFFICES ASSUME Inv, [Next]_vars PROVE Inv'
  OBVIOUS
<1>1. CASE Boot \/ BootInetd \/ SetupUnresolved \/ Setup \/ SetupFails
  BY <1>1, BootInv, BootInetdInv, SetupUnresolvedInv, SetupInv, SetupFailsInv
<1>2. CASE (\E c \in Clients : Reap(c)) \/ ReapDone \/ EnterSelect \/ Selected
  BY <1>2, LoopInv
<1>3. CASE Accept \/ AcceptFails
  BY <1>3, AcceptInv, AcceptFailsInv
<1>4. CASE ReadLine \/ Permitted \/ LengthRefused \/ TimedOut \/ EndOfFile
  BY <1>4, PermittedInv
<1>5. CASE Refuse \/ Fork \/ ForkFails
  BY <1>5, RefuseInv, ForkInv, ForkFailsInv
<1>6. CASE \E c \in Clients : HandlerEnds(c)
  BY <1>6, HandlerEndsInv
<1>7. CASE \E c \in Clients : Connect(c)
  BY <1>7, ConnectInv
<1>8. CASE \/ \E c \in Clients, n \in 1..3 : n <= Lines(c) /\ SendLines(c, n)
           \/ \E c \in Clients : HangUp(c)
  BY <1>8, ClientInv
<1>9. CASE UNCHANGED vars
  <2>1. TypeOK'
    BY <1>9 DEF vars, Inv, TypeOK, started, process, network
  <2>2. Ledger'
    BY <1>9 DEF vars, Inv, started, process, network, AtStart, Granted, Full,
       Ledger, Queue, Looking, Handed, Accounted, EndsOnlyWhenFull
  <2> QED BY <1>9, <2>1, <2>2 DEF Inv, vars
<1> QED BY <1>1, <1>2, <1>3, <1>4, <1>5, <1>6, <1>7, <1>8, <1>9 DEF Next, Daemon

LEMMA Invariance == Spec => []Inv
<1> QED BY InitInv, NextInv, PTL DEF Spec

\* The state of the daemon stays of its type, whatever the clients do, and
\* whenever the system refuses something (gnuserv.c:472).
THEOREM TypeCorrect == Spec => []TypeOK
<1>1. Inv => TypeOK
  BY DEF Inv
<1> QED BY <1>1, Invariance, PTL

\* The bookkeeping behind the other theorems: waiting connections, the one being
\* looked at, those handed to handlers, and the descriptors (gnuserv.c:595).
THEOREM LedgerCorrect == Spec => []Ledger
<1>1. Inv => Ledger
  BY DEF Inv
<1> QED BY <1>1, Invariance, PTL

\* Only a client of a permitted host that named a known protocol ever gets a
\* handler, by whatever way the daemon was started (gnuserv.c:183, 247).
THEOREM OnlyPermittedCorrect == Spec => []OnlyPermitted
<1>1. Inv => OnlyPermitted
  BY DEF Inv, Ledger, Handed, OnlyPermitted
<1> QED BY <1>1, Invariance, PTL

\* The daemon's descriptors are those of its start and one for each connection
\* it handed over or looks at (gnuserv.c:431).
THEOREM AccountedCorrect == Spec => []Accounted
<1>1. Inv => Accounted
  BY DEF Inv, Ledger
<1> QED BY <1>1, Invariance, PTL

\* Unless the system refuses something, a daemon that has started ends only when
\* all descriptors it may have are in use (gnuserv.c:400).
THEOREM EndsOnlyWhenFullCorrect == Spec => []EndsOnlyWhenFull
<1>1. Inv => EndsOnlyWhenFull
  BY DEF Inv, Ledger
<1> QED BY <1>1, Invariance, PTL
-----------------------------------------------------------------------------
(* Why a client is refused. *)

LEMMA DecidedInit == Init => Decided
BY DEF Init, Decided

\* The decision falls in permitted, where the table is that of the hosts, or in
\* timed_read; from there to the close nothing is forgotten (gnuserv.c:133, 247).
LEMMA DecidedNext ==
  ASSUME Inv, Decided, [Next]_vars
  PROVE  Decided'
<1> USE DEF started, process, network
<1>1. up' => table' = Hosts
  <2>1. CASE Setup
    BY <2>1 DEF Setup
  <2>2. ASSUME ~Setup PROVE UNCHANGED <<up, table>>
    BY <2>2 DEF Next, Daemon, Boot, BootInetd, SetupUnresolved, SetupFails, Exit, Reap, ReapDone,
       EnterSelect, Selected, Accept, AcceptFails, ReadLine, Permitted, LengthRefused, TimedOut,
       EndOfFile, Refuse, Fork, ForkFails, HandlerEnds, Connect, SendLines, HangUp, vars
  <2> QED BY <2>1, <2>2 DEF Decided
<1>2. ASSUME pc' = "refuse" PROVE Cause(current)'
  <2>1. UNCHANGED <<current, mode>> /\ hungUp \subseteq hungUp' /\ cut \subseteq cut'
    BY <1>2 DEF Next, Daemon, Boot, BootInetd, Setup, SetupUnresolved, SetupFails, Exit, Reap,
       ReapDone, EnterSelect, Selected, Accept, AcceptFails, ReadLine, Permitted, LengthRefused,
       TimedOut, EndOfFile, Refuse, Fork, ForkFails, HandlerEnds, Connect, SendLines, HangUp, vars
  <2>2. CASE pc = "refuse"
    BY <2>1, <2>2 DEF Decided, Cause
  <2>3. CASE Permitted
    <3>1. ~Granted /\ (mode # "inetd" => up)
      BY <1>2, <2>3 DEF Permitted, Inv, Ledger, Looking
    <3> QED BY <2>1, <3>1 DEF Granted, Decided, Cause
  <2>4. CASE LengthRefused \/ TimedOut \/ EndOfFile
    BY <2>1, <2>4 DEF LengthRefused, TimedOut, EndOfFile, Cause
  <2>5. CASE \E c \in Clients : HandlerEnds(c)
    <3>1. pc = "refuse" \/ pc = "auth"
      BY <1>2, <2>5 DEF HandlerEnds
    <3>2. CASE pc = "auth"
      BY <1>2, <2>1, <2>5, <3>2 DEF HandlerEnds, Cause
    <3> QED BY <2>2, <3>1, <3>2
  <2>6. ASSUME ~Permitted, ~LengthRefused, ~TimedOut, ~EndOfFile, ~ \E c \in Clients : HandlerEnds(c)
        PROVE  pc = "refuse"
    BY <1>2, <2>6 DEF Next, Daemon, Boot, BootInetd, Setup, SetupUnresolved, SetupFails, Exit,
       Reap, ReapDone, EnterSelect, Selected, Accept, AcceptFails, ReadLine,
       Refuse, Fork, ForkFails, Connect, SendLines, HangUp, vars
  <2> QED BY <2>2, <2>3, <2>4, <2>5, <2>6
<1> QED BY <1>1, <1>2 DEF Decided

\* A client is refused for its host, its protocol, its cookie's length, its silence
\* or its end, for the signal of a handler, or because inetd started the daemon: never
\* for what other clients send, nor for a connection before it (gnuserv.c:133-151, 247).
THEOREM RefusedForCauseCorrect == Spec => RefusedForCause
<1>1. ASSUME Inv, Decided, [Next]_vars,
             NEW c \in Clients, conn[c] # "refused", conn'[c] = "refused"
      PROVE  Cause(c)
  <2>1. Refuse
    <3>1. CASE BootInetd
      BY <1>1, <3>1 DEF BootInetd, Inv, TypeOK
    <3>2. CASE Accept
      BY <1>1, <3>2 DEF Accept, Inv, TypeOK
    <3>3. CASE Fork \/ (\E h \in Clients : HandlerEnds(h)) \/ (\E h \in Clients : Connect(h))
      BY <1>1, <3>3 DEF Fork, HandlerEnds, Connect, Inv, TypeOK
    <3>4. ASSUME ~Refuse, ~BootInetd, ~Accept, ~Fork, ~ \E h \in Clients : HandlerEnds(h),
                 ~ \E h \in Clients : Connect(h)
          PROVE  conn' = conn
      BY <1>1, <3>4 DEF Next, Daemon, Boot, Setup, SetupUnresolved, SetupFails, Reap,
         ReapDone, EnterSelect, Selected, AcceptFails, ReadLine, Permitted, LengthRefused, TimedOut,
         EndOfFile, ForkFails, SendLines, HangUp, vars, network
    <3> QED BY <1>1, <3>1, <3>2, <3>3, <3>4
  <2>2. c = current
    BY <1>1, <2>1 DEF Refuse, Inv, TypeOK
  <2> QED BY <1>1, <2>1, <2>2 DEF Refuse, Decided
<1>2. Inv /\ Decided /\ [Next]_vars =>
        [\A c \in Clients : conn[c] # "refused" /\ conn'[c] = "refused" => Cause(c)]_vars
  BY <1>1
<1> QED
  BY <1>2, DecidedInit, DecidedNext, Invariance, PTL DEF Spec, RefusedForCause

-----------------------------------------------------------------------------
(* The daemon implements Reception. *)

LEMMA AttendedInit == Init => Attended
BY DEF Init, Attended

\* A connection is served from the fork on and until its handler ends; all other
\* steps leave both alone (gnuserv.c:440).
LEMMA AttendedNext ==
  ASSUME Inv, Attended, [Next]_vars
  PROVE  Attended'
<1> USE DEF started, process, network
<1>1. CASE BootInetd
  <2>1. conn[current] = "idle" /\ current \in Clients /\ handler[current] # "runs"
    BY <1>1 DEF BootInetd, Attended, Inv, TypeOK
  <2> QED BY <1>1, <2>1 DEF BootInetd, Attended, Inv, TypeOK
<1>2. CASE \E c \in Clients : Reap(c)
  BY <1>2 DEF Reap, Attended, Inv, TypeOK
<1>3. CASE Accept
  <2>1. Head(backlog) \in Clients /\ conn[Head(backlog)] = "queued"
    BY <1>3 DEF Accept, Inv, TypeOK, Ledger, Looking, Queue
  <2> QED BY <1>3, <2>1 DEF Accept, Attended, Inv, TypeOK
<1>4. CASE Refuse \/ Fork
  <2>1. conn[current] = "auth" /\ current \in Clients /\ pc' \in {"exited", "reap"}
    BY <1>4 DEF Refuse, Fork, Inv, TypeOK, Ledger, Looking
  <2> QED BY <1>4, <2>1 DEF Refuse, Fork, Attended, Inv, TypeOK
<1>5. CASE \E c \in Clients : HandlerEnds(c)
  <2>1. PICK c \in Clients : HandlerEnds(c)
    BY <1>5
  <2>2. pc \notin {"boot", "setup"}
    <3>1. c \in served
      BY <2>1 DEF HandlerEnds, Inv, Ledger, Handed
    <3> QED BY <3>1 DEF Inv, Ledger, Looking
  <2>3. pc' \notin {"boot", "setup"}
    BY <2>1, <2>2 DEF HandlerEnds
  <2> QED BY <2>1, <2>3 DEF HandlerEnds, Attended, Inv, TypeOK
<1>6. CASE \E c \in Clients : Connect(c)
  <2>1. pc \notin {"boot", "setup"}
    BY <1>6 DEF Connect, Inv, Ledger, Looking
  <2> QED BY <1>6, <2>1 DEF Connect, Attended, Inv, TypeOK
<1>7. ASSUME \/ Boot \/ Setup \/ SetupUnresolved \/ SetupFails
             \/ ReapDone \/ EnterSelect \/ Selected \/ AcceptFails
             \/ ReadLine \/ Permitted \/ LengthRefused \/ TimedOut \/ EndOfFile \/ ForkFails
             \/ \E c \in Clients, n \in 1..3 : n <= Lines(c) /\ SendLines(c, n)
             \/ \E c \in Clients : HangUp(c)
             \/ UNCHANGED vars
      PROVE  Attended'
  <2>1. UNCHANGED <<conn, handler>>
    BY <1>7 DEF Boot, Setup, SetupUnresolved, SetupFails, ReapDone, EnterSelect, Selected,
       AcceptFails, ReadLine, Permitted, LengthRefused, TimedOut, EndOfFile, ForkFails,
       SendLines, HangUp, vars
  <2>2. pc' \in {"boot", "setup"} => pc \in {"boot", "setup"}
    BY <1>7 DEF Boot, Setup, SetupUnresolved, SetupFails, ReapDone, EnterSelect, Selected, Exit,
       AcceptFails, ReadLine, Permitted, LengthRefused, TimedOut, EndOfFile, ForkFails,
       SendLines, HangUp, vars
  <2> QED BY <2>1, <2>2 DEF Attended
<1> QED BY <1>1, <1>2, <1>3, <1>4, <1>5, <1>6, <1>7 DEF Next, Daemon

\* Who is served has a handler that runs, and nobody was there before the daemon
\* was (gnuserv.c:440, 595).
THEOREM AttendedCorrect == Spec => []Attended
<1> QED BY AttendedInit, AttendedNext, Invariance, PTL DEF Spec

\* Each step of the daemon, of a handler and of a client is a step of Reception,
\* or changes nothing of what it is about.
LEMMA ReceptionStep ==
  ASSUME Inv, Attended, [Next]_vars
  PROVE  [RE!RecNext]_(RE!recVars)
<1> USE DEF started, process, network, RE!recVars, lookedAt
<1>1. CASE BootInetd
  <2>1. current \in Clients /\ backlog = <<>> /\ conn = [c \in Clients |-> "idle"]
    BY <1>1 DEF BootInetd, Inv, TypeOK, Ledger, Looking, Attended
  <2>2. RE!HandedOver(current)
    BY <1>1, <2>1 DEF BootInetd, RE!HandedOver
  <2> QED BY <2>1, <2>2 DEF RE!RecNext
<1>2. CASE Accept
  <2>1. backlog # <<>> /\ conn[Head(backlog)] = "queued"
    BY <1>2 DEF Accept, Inv, TypeOK, Ledger, Looking, Queue
  <2>2. RE!Take
    BY <1>2, <2>1 DEF Accept, RE!Take
  <2> QED BY <2>2 DEF RE!RecNext
<1>3. CASE Refuse
  <2>1. conn[current] = "auth" /\ current \in Clients
    BY <1>3 DEF Refuse, Inv, TypeOK, Ledger, Looking
  <2>2. RE!TurnAway(current)
    BY <1>3, <2>1 DEF Refuse, RE!TurnAway
  <2> QED BY <2>1, <2>2 DEF RE!RecNext
<1>4. CASE Fork
  <2>1. /\ conn[current] = "auth" /\ current \in Clients
        /\ current \in Hosts /\ Protocol[current] \in {"secure", "cookie"}
    BY <1>4 DEF Fork, Inv, TypeOK, Ledger, Looking, Granted
  <2>2. RE!Serve(current)
    BY <1>4, <2>1 DEF Fork, RE!Serve
  <2> QED BY <2>1, <2>2 DEF RE!RecNext
<1>5. CASE \E c \in Clients : HandlerEnds(c)
  <2>1. PICK c \in Clients : HandlerEnds(c)
    BY <1>5
  <2>2. conn[c] = "served" /\ (pc' \in {"auth", "refuse", "fork"} <=> pc \in {"auth", "refuse", "fork"})
        /\ (pc' # "exited" <=> pc # "exited")
    BY <2>1 DEF HandlerEnds, Attended
  <2>3. RE!Finished(c)
    BY <2>1, <2>2 DEF HandlerEnds, RE!Finished
  <2> QED BY <2>3 DEF RE!RecNext
<1>6. CASE \E c \in Clients : Connect(c)
  <2>1. PICK c \in Clients : Connect(c)
    BY <1>6
  <2>2. RE!Arrive(c)
    BY <2>1 DEF Connect, RE!Arrive, Attended
  <2> QED BY <2>2 DEF RE!RecNext
<1>7. CASE SetupUnresolved \/ SetupFails \/ AcceptFails \/ ForkFails
  <2>1. RE!Close
    BY <1>7 DEF SetupUnresolved, SetupFails, AcceptFails, ForkFails, Exit, RE!Close
  <2> QED BY <2>1 DEF RE!RecNext
<1>8. CASE Setup
  <2>1. pc = "setup" /\ pc' \in {"exited", "reap"} /\ UNCHANGED <<backlog, conn>>
    BY <1>8 DEF Setup
  <2>2. RE!Close \/ UNCHANGED RE!recVars
    BY <2>1 DEF RE!Close
  <2> QED BY <2>2 DEF RE!RecNext
<1>9. CASE Boot \/ (\E c \in Clients : Reap(c)) \/ ReapDone \/ EnterSelect \/ Selected
  BY <1>9 DEF Boot, Reap, ReapDone, EnterSelect, Selected
<1>10. CASE ReadLine \/ Permitted \/ LengthRefused \/ TimedOut \/ EndOfFile
  BY <1>10 DEF ReadLine, Permitted, LengthRefused, TimedOut, EndOfFile
<1>11. CASE \/ \E c \in Clients, n \in 1..3 : n <= Lines(c) /\ SendLines(c, n)
            \/ \E c \in Clients : HangUp(c)
            \/ UNCHANGED vars
  BY <1>11 DEF SendLines, HangUp, vars
<1> QED BY <1>1, <1>2, <1>3, <1>4, <1>5, <1>6, <1>7, <1>8, <1>9, <1>10, <1>11 DEF Next, Daemon

\* The daemon decides connections in the order they came, one at a time and once
\* each, and serves none that is not welcome: it implements Reception, for any
\* number of clients and descriptors and all ways to start it (gnuserv.c:389-446).
THEOREM ReceptionCorrect == Spec => ImplementsReception
<1>1. Init => RE!RecInit
  BY DEF Init, RE!RecInit, lookedAt
<1>2. Inv /\ Attended /\ [Next]_vars => [RE!RecNext]_(RE!recVars)
  BY ReceptionStep
<1> QED
  BY <1>1, <1>2, Invariance, AttendedCorrect, PTL DEF Spec, ImplementsReception, RE!RecSpec
=============================================================================
