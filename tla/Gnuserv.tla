------------------------------ MODULE Gnuserv ------------------------------
(***************************************************************************)
(* The daemon: how it starts, its loop over wait3 and select, the          *)
(* authentication of one connection after the other in the parent, the     *)
(* handler forked for each, and the descriptors it holds.                  *)
(*                                                                         *)
(* What a handler says to its client is ServerCall's; here it runs and     *)
(* ends.  SIGCHLD interrupts the select the daemon is blocked in, the      *)
(* loop's or that of timed_read; elsewhere it has no effect                *)
(* (handle_signal).  The build is one without AUTH_MAGIC_COOKIE.           *)
(***************************************************************************)
EXTENDS Naturals, FiniteSets, Sequences

CONSTANTS
  Clients,
  Hosts,        \* clients that connect from a host of permitted_host_names
  Protocol,     \* what each client sends: "secure", "cookie" or another line
  Modes,        \* how it is started: "foreground" (-f), "background", "inetd" (-i)
  LogOpen,      \* something, as a first syslog, takes a descriptor early
  ServerFds,    \* descriptors of the pipe to the setuid server, if it is used
  FdLimit,      \* descriptors a process may have
  Resolvers     \* getaddrinfo: "strict" on its arguments, or "lenient"

ASSUME GnuservAssumption ==
  /\ Hosts \subseteq Clients
  /\ Modes \subseteq {"foreground", "background", "inetd"}
  /\ LogOpen \in BOOLEAN /\ ServerFds \in {0, 2}
  /\ Resolvers \subseteq {"strict", "lenient"}
  /\ FdLimit \in Nat /\ FdLimit > 4 + ServerFds

VARIABLES
  mode,       \* how the daemon was started
  resolver,   \* the getaddrinfo it was linked with
  pc,         \* where the parent is
  fds,        \* its open descriptors
  ils,        \* the listening socket
  table,      \* permitted_hosts
  backlog,    \* connections not accepted yet
  conn,       \* per client: how far its connection got
  sent,       \* lines a client has sent that are not read yet
  hungUp,     \* clients that closed their end
  current,    \* the client that is being authenticated
  sock,       \* the descriptor of its connection
  got,        \* lines timed_read has got from it
  handler,    \* per client: the forked process
  \* History.
  served,     \* connections a handler was forked for
  cut,        \* whose authentication the time limit, a signal or a wrong length cut short
  up,         \* the daemon has reached its loop
  failed      \* the system refused something

process == <<pc, fds, ils, table>>
network == <<backlog, conn, sent, hungUp>>
started == <<mode, resolver>>
vars == <<started, process, network, current, sock, got, handler, served, cut, up, failed>>

Positions == {"boot", "setup", "reap", "toSelect", "select", "accept", "auth",
              "refuse", "fork", "exited"}

TypeOK ==
  /\ mode \in Modes /\ resolver \in Resolvers /\ pc \in Positions
  /\ fds \subseteq 0..FdLimit - 1 /\ ils \in 0..FdLimit /\ table \subseteq Hosts
  /\ backlog \in Seq(Clients)
  /\ conn \in [Clients -> {"idle", "queued", "auth", "served", "refused", "ended"}]
  /\ sent \in [Clients -> 0..3] /\ hungUp \subseteq Clients
  /\ current \in Clients /\ sock \in 0..FdLimit /\ got \in 0..3
  /\ handler \in [Clients -> {"none", "runs", "zombie", "reaped"}]
  /\ served \subseteq Clients /\ cut \subseteq Clients \X {"time", "signal", "length"}
  /\ up \in BOOLEAN /\ failed \in BOOLEAN

\* A new descriptor is the lowest one that is free.
NewFd(d, used) == d \in 0..FdLimit - 1 /\ d \notin used /\ \A e \in 0..FdLimit - 1 : e < d => e \in used
Full == fds = 0..FdLimit - 1

\* Lines of the client's protocol: a name, or a name, a length and the cookie.
Lines(c) == IF Protocol[c] = "cookie" THEN 3 ELSE 1

Init ==
  /\ mode \in Modes /\ resolver \in Resolvers /\ pc = "boot" /\ fds = 0..2 /\ ils = FdLimit /\ table = {}
  /\ backlog = <<>> /\ conn = [c \in Clients |-> "idle"]
  /\ sent = [c \in Clients |-> 0] /\ hungUp = {}
  /\ current \in Clients /\ sock = FdLimit /\ got = 0
  /\ handler = [c \in Clients |-> "none"]
  /\ served = {} /\ cut = {} /\ up = FALSE /\ failed = FALSE

Exit == pc' = "exited" /\ UNCHANGED <<fds, ils, table>>

-----------------------------------------------------------------------------
(* Startup. *)

\* In the background descriptor 0 is closed; a log takes what is free.
Boot ==
  /\ pc = "boot" /\ mode # "inetd"
  /\ LET kept == IF mode = "background" THEN fds \ {0} ELSE fds
     IN IF LogOpen THEN \E d \in 0..FdLimit - 1 : NewFd(d, kept) /\ fds' = kept \cup {d}
                   ELSE fds' = kept
  /\ pc' = "setup"
  /\ UNCHANGED <<started, ils, table, network, current, sock, got, handler, served, cut,
                 up, failed>>

\* inetd passes the connection on descriptor 0; setup_table is not called.
BootInetd ==
  /\ pc = "boot" /\ mode = "inetd"
  /\ pc' = "auth" /\ got' = 0 /\ sock' = 0
  /\ conn' = [conn EXCEPT ![current] = "auth"]
  /\ UNCHANGED <<started, fds, ils, table, backlog, sent, hungUp, current, handler,
                 served, cut, up, failed>>

\* glibtop_internet_addr passes the host as the service and the address family as
\* the flags: there is no node, and AF_INET is the value of AI_CANONNAME, which
\* needs one.  A strict getaddrinfo returns EAI_BADFLAGS.
InternetAddr == resolver = "lenient"

\* setup_table resolves the name of the local host first, and gives up.
SetupUnresolved ==
  /\ pc = "setup" /\ ~InternetAddr
  /\ Exit
  /\ UNCHANGED <<started, network, current, sock, got, handler, served, cut, up, failed>>

\* internet_init, the check of what it returns, and glibtop_init_r, which opens
\* the setuid server if there is one.
Setup ==
  /\ pc = "setup" /\ InternetAddr
  /\ table' = Hosts
  /\ \E s \in 0..FdLimit - 1 :
       /\ NewFd(s, fds) /\ ils' = s
       /\ IF s = 0 \/ ServerFds = 0
          THEN fds' = fds \cup {s}
          ELSE \E p, q \in 0..FdLimit - 1 :
                 /\ NewFd(p, fds \cup {s}) /\ NewFd(q, fds \cup {s, p})
                 /\ fds' = fds \cup {s, p, q}
       /\ pc' = IF s = 0 THEN "exited" ELSE "reap"
       /\ up' = (s # 0)
  /\ UNCHANGED <<started, network, current, sock, got, handler, served, cut, failed>>

\* socket, bind or listen fails.
SetupFails ==
  /\ pc = "setup" /\ InternetAddr
  /\ Exit /\ failed' = TRUE
  /\ UNCHANGED <<started, network, current, sock, got, handler, served, cut, up>>

-----------------------------------------------------------------------------
(* The loop. *)

\* wait3 takes the children that have ended.
Reap(c) ==
  /\ pc = "reap" /\ handler[c] = "zombie"
  /\ handler' = [handler EXCEPT ![c] = "reaped"]
  /\ UNCHANGED <<started, process, network, current, sock, got, served, cut, up, failed>>

\* Mutant: wait3 is called at most once for a wake-up.
ReapDoneEarly ==
  /\ pc = "reap"
  /\ pc' = "toSelect"
  /\ UNCHANGED <<started, fds, ils, table, network, current, sock, got, handler, served,
                 cut, up, failed>>

\* No more of them: on to select.
ReapDone ==
  /\ pc = "reap" /\ \A c \in Clients : handler[c] # "zombie"
  /\ pc' = "toSelect"
  /\ UNCHANGED <<started, fds, ils, table, network, current, sock, got, handler, served,
                 cut, up, failed>>

EnterSelect ==
  /\ pc = "toSelect"
  /\ pc' = "select"
  /\ UNCHANGED <<started, fds, ils, table, network, current, sock, got, handler, served,
                 cut, up, failed>>

Selected ==
  /\ pc = "select" /\ backlog # <<>>
  /\ pc' = "accept"
  /\ UNCHANGED <<started, fds, ils, table, network, current, sock, got, handler, served,
                 cut, up, failed>>

\* The next connection gets the lowest free descriptor; without one, or on any
\* other failure of accept, the daemon ends.
Accept ==
  /\ pc = "accept"
  /\ pc' = "auth" /\ current' = Head(backlog) /\ got' = 0
  /\ \E s \in 0..FdLimit - 1 : NewFd(s, fds) /\ sock' = s /\ fds' = fds \cup {s}
  /\ backlog' = Tail(backlog)
  /\ conn' = [conn EXCEPT ![Head(backlog)] = "auth"]
  /\ UNCHANGED <<started, ils, table, sent, hungUp, handler, served, cut, up, failed>>

AcceptFails ==
  /\ pc = "accept"
  /\ failed' = (failed \/ ~Full)
  /\ Exit
  /\ UNCHANGED <<started, network, current, sock, got, handler, served, cut, up>>

-----------------------------------------------------------------------------
(* permitted: timed_read in the parent, then the table of hosts. *)

\* A line arrives.  The first names the protocol; a cookie takes two more lines,
\* and then goes the way of the others, unless its length is refused.
ReadLine ==
  /\ pc = "auth" /\ got < Lines(current) /\ sent[current] > 0
  /\ got' = got + 1
  /\ sent' = [sent EXCEPT ![current] = @ - 1]
  /\ UNCHANGED <<started, process, backlog, conn, hungUp, current, sock, handler, served, cut,
                 up, failed>>

\* Mutant: only the protocol is looked at.
GrantedAnywhere == Protocol[current] \in {"secure", "cookie"}

\* Mutant: a cookie is no way in.
GrantedByNameOnly == Protocol[current] = "secure" /\ current \in table

\* A protocol that is known, from a host of the table.
Granted == Protocol[current] \in {"secure", "cookie"} /\ current \in table

\* All lines are read: the decision.
Permitted ==
  /\ pc = "auth" /\ got = Lines(current)
  /\ pc' = IF Granted THEN "fork" ELSE "refuse"
  /\ UNCHANGED <<started, fds, ils, table, network, current, sock, got, handler, served, cut,
                 up, failed>>

\* The length of the cookie is less than 1, or more than the buffer has: it is not
\* read, and the host is not looked up.
LengthRefused ==
  /\ pc = "auth" /\ Protocol[current] = "cookie" /\ got = 2
  /\ pc' = "refuse" /\ cut' = cut \cup {<<current, "length">>}
  /\ UNCHANGED <<started, fds, ils, table, network, current, sock, got, handler, served, up, failed>>

\* Mutant: select waits without a time limit.
TimedOutNever == FALSE

\* Mutant: back to the loop, with the connection neither served nor refused.
TimedOutForgotten ==
  /\ pc = "auth" /\ got < Lines(current) /\ sent[current] = 0
  /\ current \notin hungUp
  /\ pc' = "reap" /\ cut' = cut \cup {<<current, "time">>}
  /\ UNCHANGED <<started, fds, ils, table, network, current, sock, got, handler, served, up, failed>>

\* AUTH_TIMEOUT runs out with the client silent.
TimedOut ==
  /\ pc = "auth" /\ got < Lines(current) /\ sent[current] = 0
  /\ current \notin hungUp
  /\ pc' = "refuse" /\ cut' = cut \cup {<<current, "time">>}
  /\ UNCHANGED <<started, fds, ils, table, network, current, sock, got, handler, served, up, failed>>

\* The connection ended: read returns 0.
EndOfFile ==
  /\ pc = "auth" /\ got < Lines(current) /\ sent[current] = 0 /\ current \in hungUp
  /\ pc' = "refuse"
  /\ UNCHANGED <<started, fds, ils, table, network, current, sock, got, handler, served, cut,
                 up, failed>>

\* What the parent closes of the connection it refuses.
\* Mutant: nothing.
ClosesNothing == {}
Closes == {sock}

\* Refused: the socket is closed, and the daemon of inetd ends.
Refuse ==
  /\ pc = "refuse"
  /\ conn' = [conn EXCEPT ![current] = "refused"]
  /\ fds' = fds \ Closes
  /\ pc' = IF mode = "inetd" THEN "exited" ELSE "reap"
  /\ UNCHANGED <<started, ils, table, backlog, sent, hungUp, current, sock, got, handler, served,
                 cut, up, failed>>

\* Permitted: a handler is forked; the parent keeps its copy of the socket.
Fork ==
  /\ pc = "fork"
  /\ pc' = "reap"
  /\ handler' = [handler EXCEPT ![current] = "runs"]
  /\ conn' = [conn EXCEPT ![current] = "served"]
  /\ served' = served \cup {current}
  /\ UNCHANGED <<started, fds, ils, table, backlog, sent, hungUp, current, sock, got, cut, up, failed>>

ForkFails ==
  /\ pc = "fork"
  /\ Exit /\ failed' = TRUE
  /\ UNCHANGED <<started, network, current, sock, got, handler, served, cut, up>>

-----------------------------------------------------------------------------
(* The others. *)

\* Mutant: EINTR is an error like any other.
HandlerEndsFatal(c) ==
  /\ handler[c] = "runs"
  /\ handler' = [handler EXCEPT ![c] = "zombie"]
  /\ conn' = [conn EXCEPT ![c] = "ended"]
  /\ pc' \in IF pc = "select" THEN {"exited"}
             ELSE IF pc = "auth" /\ got < Lines(current) THEN {"auth", "refuse"}
             ELSE {pc}
  /\ cut' = cut \cup (IF pc' = "refuse" /\ pc = "auth" THEN {<<current, "signal">>} ELSE {})
  /\ UNCHANGED <<started, fds, ils, table, backlog, sent, hungUp, current, sock, got, served,
                 up, failed>>

\* A handler ends.  Its SIGCHLD interrupts the daemon in the select of its loop;
\* in that of timed_read, if it is the one the daemon is in.
HandlerEnds(c) ==
  /\ handler[c] = "runs"
  /\ handler' = [handler EXCEPT ![c] = "zombie"]
  /\ conn' = [conn EXCEPT ![c] = "ended"]
  /\ pc' \in IF pc = "select" THEN {"reap"}
             ELSE IF pc = "auth" /\ got < Lines(current) THEN {"auth", "refuse"}
             ELSE {pc}
  /\ cut' = cut \cup (IF pc' = "refuse" /\ pc = "auth" THEN {<<current, "signal">>} ELSE {})
  /\ UNCHANGED <<started, fds, ils, table, backlog, sent, hungUp, current, sock, got, served,
                 up, failed>>

\* The listening socket is open as long as the daemon or a handler has it.
Connect(c) ==
  /\ conn[c] = "idle"
  /\ up /\ (pc # "exited" \/ \E h \in Clients : handler[h] = "runs")
  /\ conn' = [conn EXCEPT ![c] = "queued"]
  /\ backlog' = Append(backlog, c)
  /\ UNCHANGED <<started, process, sent, hungUp, current, sock, got, handler, served, cut, up, failed>>

\* A client authenticates itself with all its lines, or stops in between.
SendLines(c, n) ==
  /\ conn[c] \in {"queued", "auth"} /\ c \notin hungUp
  /\ sent[c] = 0 /\ (conn[c] = "auth" => got = 0)
  /\ sent' = [sent EXCEPT ![c] = n]
  /\ UNCHANGED <<started, process, backlog, conn, hungUp, current, sock, got, handler, served,
                 cut, up, failed>>

HangUp(c) ==
  /\ conn[c] \in {"queued", "auth"} /\ c \notin hungUp
  /\ hungUp' = hungUp \cup {c}
  /\ UNCHANGED <<started, process, backlog, conn, sent, current, sock, got, handler, served,
                 cut, up, failed>>

-----------------------------------------------------------------------------
Daemon ==
  \/ Boot \/ BootInetd \/ Setup \/ SetupUnresolved \/ SetupFails
  \/ (\E c \in Clients : Reap(c)) \/ ReapDone \/ EnterSelect \/ Selected
  \/ Accept \/ AcceptFails \/ ReadLine \/ Permitted \/ LengthRefused
  \/ TimedOut \/ EndOfFile \/ Refuse \/ Fork \/ ForkFails

Next ==
  \/ Daemon
  \/ (\E c \in Clients : HandlerEnds(c))
  \/ (\E c \in Clients : Connect(c))
  \/ (\E c \in Clients, n \in 1..3 : n <= Lines(c) /\ SendLines(c, n))
  \/ (\E c \in Clients : HangUp(c))

\* The daemon runs on, and time passes.  Clients and handlers owe nothing.
Spec == Init /\ [][Next]_vars
FairSpec == Spec /\ WF_vars(Daemon)
-----------------------------------------------------------------------------
\* A handler only runs for a client from a host of the table that named a known
\* protocol (gnuserv.c:183, 247).
OnlyPermitted ==
  \A c \in Clients : handler[c] # "none" => c \in Hosts /\ Protocol[c] \in {"secure", "cookie"}

\* What the daemon's descriptors are: those of its start, and one for each
\* connection it ever handed to a handler (gnuserv.c:431), or is looking at;
\* those of refused connections are closed.
AtStart == 4 + ServerFds + (IF LogOpen THEN 1 ELSE 0) - (IF mode = "background" THEN 1 ELSE 0)
Accounted ==
  up /\ pc # "exited" =>
    Cardinality(fds) = AtStart + Cardinality(served)
                       + (IF pc \in {"auth", "refuse", "fork"} THEN 1 ELSE 0)

\* Unless the system refuses something, only the descriptors it never closes end
\* a daemon that has started (gnuserv.c:400).
EndsOnlyWhenFull ==
  pc = "exited" /\ up /\ ~failed => Full

\* Why: the connections that wait are different ones, the one that is looked at
\* is none of those that were served, and inetd's daemon never reaches the loop.
Queue ==
  /\ \A i \in DOMAIN backlog : conn[backlog[i]] = "queued"
  /\ \A i, j \in DOMAIN backlog : backlog[i] = backlog[j] => i = j
Looking ==
  /\ pc \in {"auth", "refuse", "fork"} => conn[current] = "auth" /\ sock \in fds
  /\ pc = "fork" => Granted
  /\ pc = "accept" => backlog # <<>>
  /\ ~up => backlog = <<>>
  /\ pc \notin {"boot", "setup", "auth", "refuse", "fork", "exited"} => up
  /\ pc \in {"auth", "refuse", "fork"} /\ mode # "inetd" => up
  /\ mode = "inetd" => ~up /\ table = {} /\ pc # "setup"
  /\ pc \in {"boot", "setup"} => ~up /\ served = {}
  /\ pc = "boot" => fds = 0..2
  /\ pc = "setup" => fds = (IF mode = "background" THEN {1, 2} ELSE 0..2)
                           \cup (IF ~LogOpen THEN {} ELSE IF mode = "background" THEN {0} ELSE {3})
Handed ==
  \A c \in Clients :
    /\ c \in served => /\ conn[c] \in {"served", "ended"}
                        /\ c \in Hosts /\ Protocol[c] \in {"secure", "cookie"}
    /\ handler[c] = "none" <=> c \notin served

\* All of it, as the daemon keeps it between accept and fork (gnuserv.c:389-446):
\* the invariant every step preserves.
Ledger == Queue /\ Looking /\ Handed /\ Accounted /\ EndsOnlyWhenFull

\* The daemon implements Reception (gnuserv.c:389-446): a connection is the one
\* that is looked at from accept to the end of handle_internet_request.
lookedAt == IF pc \in {"auth", "refuse", "fork"} THEN {current} ELSE {}
RE == INSTANCE Reception WITH
        Welcome <- {c \in Hosts : Protocol[c] \in {"secure", "cookie"}},
        line <- backlog, at <- lookedAt, fate <- conn, open <- pc # "exited"
\* First come, first decided, one at a time and once, and only permitted clients
\* are served: every step of the daemon, of a handler, of a client or of the
\* system is one of Reception's, or none.
ImplementsReception == RE!RecSpec

\* What that needs beyond Ledger: who is served has a running handler, and nobody
\* was there before the daemon was (gnuserv.c:440, 595).
Attended ==
  /\ \A c \in Clients : handler[c] = "runs" <=> conn[c] = "served"
  /\ pc \in {"boot", "setup"} => conn = [c \in Clients |-> "idle"]

\* Nobody is refused without a cause: the host, the protocol, a cookie's length, an
\* end of file, the time limit, the signal of a handler that ended just then, or a daemon of inetd,
\* whose table is empty (gnuserv.c:133-151, 247, 584).
Cause(c) ==
  \/ c \notin Hosts \/ Protocol[c] \notin {"secure", "cookie"} \/ c \in hungUp
  \/ (\E why \in {"time", "signal", "length"} : <<c, why>> \in cut) \/ mode = "inetd"
RefusedForCause ==
  [][\A c \in Clients : conn[c] # "refused" /\ conn'[c] = "refused" => Cause(c)]_vars

\* Why: the table is that of all hosts, and the cause is there when the decision
\* falls, one step before the connection is closed (gnuserv.c:412).
Decided ==
  /\ up => table = Hosts
  /\ pc = "refuse" => Cause(current)

\* A connection gets its turn: a client that is silent delays the others by its
\* time out, no more (gnuserv.c:143).
Turn == \A c \in Clients :
  conn[c] = "queued" ~> conn[c] \in {"served", "refused", "ended"} \/ pc = "exited"

\* A handler that has ended is reaped by the time the daemon serves another
\* connection, if not before (gnuserv.c:614).
Reaped == \A c \in Clients :
  handler[c] = "zombie" /\ backlog # <<>> ~> handler[c] = "reaped" \/ pc = "exited"

-----------------------------------------------------------------------------
(* What comments and messages say, and the code does not do. *)

\* "permitted -- return whether a given host is allowed to connect to the
\* server": a client of such a host that authenticates itself is not refused.
HostsPermitted ==
  [][\A c \in Clients :
       conn[c] = "auth" /\ conn'[c] = "refused" =>
         \/ c \notin Hosts \/ Protocol[c] \notin {"secure", "cookie"}
         \/ <<c, "time">> \in cut \/ <<c, "length">> \in cut \/ c \in hungUp]_vars

=============================================================================
