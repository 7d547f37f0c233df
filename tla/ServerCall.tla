----------------------------- MODULE ServerCall -----------------------------
(***************************************************************************)
(* One client process and the server on the other end of its descriptors:  *)
(* the version handshake of glibtop_open_l, glibtop_call_l with its reads  *)
(* and writes (lib/command.c, read.c, write.c), glibtop_close_r, and the   *)
(* command loop that answers them, which is the same in the setuid server  *)
(* (handle_slave_connection) and in the connection handler of the daemon   *)
(* (handle_parent_connection): do_read, a switch, do_output.               *)
(*                                                                         *)
(* A glibtop_command is one unit of the client-to-server stream: its 40    *)
(* bytes are below PIPE_BUF and arrive together.  A glibtop_response is    *)
(* larger than a pipe (GLIBTOP_NCPU arrays of 64 bits), so an answer is    *)
(* RespLen units of header and then its data units, written one at a time  *)
(* into a stream of PipeCap units.  A read of several units is a sequence  *)
(* of reads of one: each stream has one reader.                            *)
(***************************************************************************)
EXTENDS Naturals, Sequences

CONSTANTS
  Features,   \* the commands other than QUIT and SYSDEPS
  SendSize,   \* SendSize[f]: the bytes of f's argument (send_size)
  DataLens,   \* DataLens[f]: the numbers of data units an answer to f may carry
  Offered,    \* the features of the server's SYSDEPS answer
  Silent,     \* Silent[l]: commands the switch of a server at the end of a link l
              \* reads and leaves unanswered
  Fatal,      \* Fatal[l]: commands that end it (glibtop_error in the switch)
  ParamSize,  \* _GLIBTOP_PARAM_SIZE
  BufSize,    \* BUFSIZ: the server's parameter buffer
  RespLen,    \* units of a glibtop_response
  PipeCap,    \* units the server-to-client stream holds
  Links,      \* the ways the two may be connected (see link)
  Peers,      \* the server versions the client may find (see peer)
  MaxCalls    \* bound: commands one client sends

ASSUME FeaturesAssumption ==
  /\ "quit" \notin Features /\ "sysdeps" \notin Features
  /\ SendSize \in [Features -> Nat]
  /\ DataLens \in [Features -> SUBSET Nat]
  /\ Offered \subseteq Features
  /\ Silent \in [Links -> SUBSET Features] /\ Fatal \in [Links -> SUBSET Features]
ASSUME SizesAssumption ==
  /\ ParamSize \in Nat /\ BufSize \in Nat /\ MaxCalls \in Nat
  /\ RespLen \in Nat \ {0} /\ PipeCap \in Nat \ {0}
  /\ Links \subseteq {"pipe", "socket", "held"}
  /\ Peers \subseteq {"same", "otherLength", "otherText"}

VARIABLES
  cpc,       \* where the client is
  req,       \* the command it is waiting for
  got,       \* units of the current message it has read
  dlen,      \* response.data_size, once the header is complete
  features,  \* server->features as the getters test it
  c2s,       \* the commands in the server's input
  s2c,       \* the units in the client's input
  spc,       \* where the server is
  cmnd,      \* the command the server has read
  reply,     \* the answer it is writing
  sent,      \* units of it already written
  peer,      \* the server's version string, seen from the client
  link,      \* "pipe" to a setuid server; "socket" to a server that has it alone, as
             \* one started by inetd; "held", a socket to a handler the daemon has
             \* forked, which never closes the accepted socket itself
             \* (handle_internet_request)
  placed,    \* how many commands the client has sent
  executed   \* how many commands the server has answered

client == <<cpc, req, got, dlen, features>>
server == <<spc, cmnd, reply, sent>>
vars == <<client, c2s, s2c, server, peer, link, placed, executed>>

Commands == Features \cup {"quit", "sysdeps"}

ClientGone == cpc \in {"aborted", "killed", "closed"}
ServerGone == spc = "gone"

\* The client can notice it: the last descriptor of the other end is closed.
HungUp == ServerGone /\ link # "held"

\* send_size of a command: QUIT and SYSDEPS have no argument.
SizeOf(r) == IF r \in Features THEN SendSize[r] ELSE 0

\* Mutant: an argument that fills the field exactly counts as longer.
DataSizeStrict(r) == IF SizeOf(r) < ParamSize THEN 0 ELSE SizeOf(r)

\* Only an argument that fits the command's own parameter field travels with
\* it; of a longer one the command says the size, as data_size.
DataSize(r) == IF SizeOf(r) <= ParamSize THEN 0 ELSE SizeOf(r)

CommandRecords == [id : Nat, req : Commands]

Units == [id : Nat, pos : Nat, total : Nat]

Unit(i, p, t) == [id |-> i, pos |-> p, total |-> t]

TypeOK ==
  /\ cpc \in {"verSize", "verText", "ask", "free", "reply", "data",
              "aborted", "killed", "closed"}
  /\ req \in Commands
  /\ got \in Nat /\ dlen \in Nat
  /\ features \subseteq Features
  /\ c2s \in Seq(CommandRecords)
  /\ s2c \in Seq(Units)
  /\ spc \in {"version", "read", "param", "handle", "write", "gone"}
  /\ cmnd \in CommandRecords
  /\ reply \in [id : Nat, total : Nat]
  /\ sent \in Nat
  /\ peer \in {"same", "otherLength", "otherText"} /\ link \in Links
  /\ placed \in Nat /\ executed \in Nat

-----------------------------------------------------------------------------
\* glibtop_open_l has connected: the client is about to read the version and
\* the server is about to write it.
Init ==
  /\ cpc = "verSize" /\ req = "sysdeps" /\ got = 0 /\ dlen = 0
  /\ features = Features                     \* server->features = -1
  /\ c2s = <<>> /\ s2c = <<>>
  /\ spc = "version" /\ cmnd = [id |-> 0, req |-> "sysdeps"]
  /\ reply = [id |-> 0, total |-> 0] /\ sent = 0
  /\ peer \in Peers /\ link \in Links
  /\ placed = 0 /\ executed = 0

-----------------------------------------------------------------------------
(* The client. *)

\* The size of the version string is read first and must be the client's own.
ReadVersionSize ==
  /\ cpc = "verSize" /\ s2c # <<>>
  /\ s2c' = Tail(s2c)
  /\ \/ /\ peer # "otherLength" /\ cpc' = "verText" /\ got' = 1
     \/ /\ peer = "otherLength" /\ cpc' = "aborted" /\ got' = got
  /\ UNCHANGED <<req, dlen, features, c2s, server, peer, link, placed, executed>>

\* Mutant: the strings are not compared.
ReadVersionTextUnchecked ==
  /\ cpc = "verText" /\ s2c # <<>>
  /\ s2c' = Tail(s2c) /\ got' = 0 /\ cpc' = "ask"
  /\ UNCHANGED <<req, dlen, features, c2s, server, peer, link, placed, executed>>

\* Then the string itself, compared with memcmp.
ReadVersionText ==
  /\ cpc = "verText" /\ s2c # <<>>
  /\ s2c' = Tail(s2c) /\ got' = 0
  /\ \/ peer = "same" /\ cpc' = "ask"
     \/ peer # "same" /\ cpc' = "aborted"
  /\ UNCHANGED <<req, dlen, features, c2s, server, peer, link, placed, executed>>

\* Mutant: a write that was interrupted after it took effect is done again.
SendAgain(r) ==
  /\ placed < MaxCalls
  /\ ~HungUp \/ link = "socket"
  /\ c2s' = c2s \o <<[id |-> placed + 1, req |-> r], [id |-> placed + 1, req |-> r]>>
  /\ placed' = placed + 1
  /\ cpc' = "reply" /\ req' = r /\ got' = 0 /\ dlen' = 0
  /\ UNCHANGED <<features, s2c, server, peer, link, executed>>

\* glibtop_call_l up to the end of glibtop_write_l.  A socket may still take
\* bytes for a server that has gone.  An argument longer than ParamSize is
\* announced by the command and never written.
Send(r) ==
  /\ placed < MaxCalls
  /\ ~HungUp \/ link = "socket"
  /\ c2s' = Append(c2s, [id |-> placed + 1, req |-> r])
  /\ placed' = placed + 1
  /\ cpc' = "reply" /\ req' = r /\ got' = 0 /\ dlen' = 0
  /\ UNCHANGED <<features, s2c, server, peer, link, executed>>

\* The reading end is closed: write raises SIGPIPE, which nobody handles.
SendBroken ==
  /\ cpc \in {"ask", "free"} /\ HungUp
  /\ cpc' = "killed"
  /\ UNCHANGED <<req, got, dlen, features, c2s, s2c, server, peer, link, placed, executed>>

\* The last step of glibtop_open_l.
AskFeatures == cpc = "ask" /\ Send("sysdeps")

\* A getter for a feature the server offers (glibtop_get_<f>_l).
Call(f) == cpc = "free" /\ f \in features /\ Send(f)

\* What glibtop_call_l's caller does once the answer is complete: keep the
\* features, close the socket after QUIT, or return the value.
Return ==
  /\ cpc' = IF req = "quit" THEN "closed" ELSE "free"
  /\ features' = IF req = "sysdeps" THEN Offered ELSE features
  /\ got' = 0 /\ dlen' = 0

\* Mutant: the data is left in the pipe when the caller has no use for it.
ReadHeaderOnly ==
  /\ cpc = "reply" /\ s2c # <<>>
  /\ s2c' = Tail(s2c)
  /\ \/ got + 1 < RespLen /\ got' = got + 1 /\ UNCHANGED <<cpc, dlen, features>>
     \/ got + 1 = RespLen /\ Return
  /\ UNCHANGED <<req, c2s, server, peer, link, placed, executed>>

\* Mutant: data_size is taken to count the header as well.
ReadHeaderInclusive ==
  /\ cpc = "reply" /\ s2c # <<>>
  /\ s2c' = Tail(s2c)
  /\ \/ /\ got + 1 < RespLen
        /\ got' = got + 1 /\ UNCHANGED <<cpc, dlen, features>>
     \/ /\ got + 1 = RespLen /\ Head(s2c).total > 0
        /\ got' = got + 1 /\ dlen' = Head(s2c).total - RespLen /\ cpc' = "data"
        /\ UNCHANGED features
     \/ got + 1 = RespLen /\ Head(s2c).total = 0 /\ Return
  /\ UNCHANGED <<req, c2s, server, peer, link, placed, executed>>

\* glibtop_read_l of the header.  Its last unit completes it; response.data_size
\* then says whether data follows.
ReadHeader ==
  /\ cpc = "reply" /\ s2c # <<>>
  /\ s2c' = Tail(s2c)
  /\ \/ /\ got + 1 < RespLen
        /\ got' = got + 1 /\ UNCHANGED <<cpc, dlen, features>>
     \/ /\ got + 1 = RespLen /\ Head(s2c).total > 0
        /\ got' = got + 1 /\ dlen' = Head(s2c).total /\ cpc' = "data"
        /\ UNCHANGED features
     \/ got + 1 = RespLen /\ Head(s2c).total = 0 /\ Return
  /\ UNCHANGED <<req, c2s, server, peer, link, placed, executed>>

\* glibtop_read_l of the data.
ReadData ==
  /\ cpc = "data" /\ s2c # <<>>
  /\ s2c' = Tail(s2c)
  /\ \/ /\ got + 1 < RespLen + dlen
        /\ got' = got + 1 /\ UNCHANGED <<cpc, dlen, features>>
     \/ got + 1 = RespLen + dlen /\ Return
  /\ UNCHANGED <<req, c2s, server, peer, link, placed, executed>>

\* Mutant: only a negative result of read is an error.
ReadEofIgnored ==
  /\ cpc \in {"verSize", "verText", "reply", "data"}
  /\ s2c = <<>> /\ HungUp
  /\ UNCHANGED vars

\* read returns 0: glibtop_error_io_r ends the process.
ReadEof ==
  /\ cpc \in {"verSize", "verText", "reply", "data"}
  /\ s2c = <<>> /\ HungUp
  /\ cpc' = "aborted"
  /\ UNCHANGED <<req, got, dlen, features, c2s, s2c, server, peer, link, placed, executed>>

\* glibtop_close_r on a socket: QUIT, its answer, close.
CloseSocket == link # "pipe" /\ cpc = "free" /\ Send("quit")

\* glibtop_close_r on a pipe: SIGKILL and close, with no exchange at all.
ClosePipe ==
  /\ link = "pipe" /\ cpc = "free"
  /\ cpc' = "closed" /\ spc' = "gone"
  /\ UNCHANGED <<req, got, dlen, features, c2s, s2c, cmnd, reply, sent,
                 peer, link, placed, executed>>

\* The application ends without closing, at any moment.
CrashClient ==
  /\ ~ClientGone
  /\ cpc' = "killed"
  /\ UNCHANGED <<req, got, dlen, features, c2s, s2c, server, peer, link, placed, executed>>

-----------------------------------------------------------------------------
(* The server. *)

\* glibtop_send_version: the size, then the text.
SendVersion ==
  /\ spc = "version" /\ ~ClientGone /\ Len(s2c) < PipeCap
  /\ s2c' = Append(s2c, Unit(0, sent + 1, 0))
  /\ \/ sent = 0 /\ sent' = 1 /\ UNCHANGED spc
     \/ sent # 0 /\ sent' = 0 /\ spc' = "read"
  /\ UNCHANGED <<client, c2s, cmnd, reply, peer, link, placed, executed>>

\* do_read of a glibtop_command and the tests on its data_size.
ReadCommand ==
  /\ spc = "read" /\ c2s # <<>>
  /\ cmnd' = Head(c2s) /\ c2s' = Tail(c2s)
  /\ LET n == DataSize(Head(c2s).req)
     IN \/ n >= BufSize /\ n > 0 /\ spc' = "gone"
        \/ n < BufSize /\ n > 0 /\ spc' = "param"
        \/ n = 0 /\ spc' = "handle"
  /\ UNCHANGED <<client, s2c, reply, sent, peer, link, placed, executed>>

\* Mutant: do_read waits for more after an end of file.
ReadCommandEofIgnored ==
  /\ spc = "read" /\ c2s = <<>> /\ ClientGone
  /\ UNCHANGED vars

\* do_read returns 0: the loop ends.
ReadCommandEof ==
  /\ spc = "read" /\ c2s = <<>> /\ ClientGone
  /\ spc' = "gone"
  /\ UNCHANGED <<client, c2s, s2c, cmnd, reply, sent, peer, link, placed, executed>>

\* do_read of the argument.  No byte of it ever comes (see Send): the read
\* ends when the client has gone, and its result is ignored.
ReadParamEof ==
  /\ spc = "param" /\ c2s = <<>> /\ ClientGone
  /\ spc' = "handle"
  /\ UNCHANGED <<client, c2s, s2c, cmnd, reply, sent, peer, link, placed, executed>>

\* The switch, with the sysdeps function it calls.
Answer(n) ==
  /\ reply' = [id |-> cmnd.id, total |-> n] /\ sent' = 0
  /\ spc' = "write" /\ executed' = executed + 1

Handle ==
  /\ spc = "handle"
  /\ \/ cmnd.req \in {"quit", "sysdeps"} /\ Answer(0)
     \/ /\ cmnd.req \in Features \ (Silent[link] \cup Fatal[link])
        /\ \E n \in DataLens[cmnd.req] : Answer(n)
     \/ /\ cmnd.req \in Silent[link] \ Fatal[link]
        /\ spc' = "read" /\ UNCHANGED <<reply, sent, executed>>
     \/ /\ cmnd.req \in Fatal[link]
        /\ spc' = "gone" /\ UNCHANGED <<reply, sent, executed>>
  /\ UNCHANGED <<client, c2s, s2c, cmnd, peer, link, placed>>

\* do_output: the response and its data.  After QUIT the loop returns.
WriteReply ==
  /\ spc = "write" /\ ~ClientGone /\ Len(s2c) < PipeCap
  /\ s2c' = Append(s2c, Unit(reply.id, sent + 1, reply.total))
  /\ sent' = sent + 1
  /\ \/ sent + 1 < RespLen + reply.total /\ UNCHANGED spc
     \/ /\ sent + 1 = RespLen + reply.total
        /\ spc' = IF cmnd.req = "quit" THEN "gone" ELSE "read"
  /\ UNCHANGED <<client, c2s, cmnd, reply, peer, link, placed, executed>>

\* Writing to a client that has gone: SIGPIPE.
WriteBroken ==
  /\ spc \in {"version", "write"} /\ ClientGone
  /\ spc' = "gone"
  /\ UNCHANGED <<client, c2s, s2c, cmnd, reply, sent, peer, link, placed, executed>>

CrashServer ==
  /\ ~ServerGone
  /\ spc' = "gone"
  /\ UNCHANGED <<client, c2s, s2c, cmnd, reply, sent, peer, link, placed, executed>>

-----------------------------------------------------------------------------
\* What the client does without being asked by the application.
ClientRuns ==
  \/ ReadVersionSize \/ ReadVersionText \/ AskFeatures
  \/ (cpc = "ask" /\ SendBroken)
  \/ ReadHeader \/ ReadData \/ ReadEof

ServerRuns ==
  \/ SendVersion \/ ReadCommand \/ ReadCommandEof \/ ReadParamEof
  \/ Handle \/ WriteReply \/ WriteBroken

Next ==
  \/ ReadVersionSize \/ ReadVersionText \/ AskFeatures \/ SendBroken
  \/ (\E f \in Features : Call(f))
  \/ ReadHeader \/ ReadData \/ ReadEof
  \/ CloseSocket \/ ClosePipe \/ CrashClient
  \/ SendVersion \/ ReadCommand \/ ReadCommandEof \/ ReadParamEof
  \/ Handle \/ WriteReply \/ WriteBroken \/ CrashServer

\* Both processes are scheduled.  Nothing obliges the application to place or
\* end a call, nor either process to crash.
Fairness == WF_vars(ClientRuns) /\ WF_vars(ServerRuns)

Spec == Init /\ [][Next]_vars
FairSpec == Spec /\ Fairness

-----------------------------------------------------------------------------
(* Properties. *)

\* What the client finds in its input while it waits in glibtop_read_l is the
\* answer to the command it is waiting for, from the unit it needs next on;
\* and between two calls it finds nothing at all.  A byte too many or too few
\* consumed anywhere (the header, response.data_size, the version) would make
\* every later answer wrong.
Framed ==
  /\ cpc \in {"ask", "free"} => s2c = <<>>
  /\ cpc \in {"reply", "data"} =>
       \A i \in 1..Len(s2c) : s2c[i] = Unit(placed, got + i, reply.total)

\* A server of another version is never sent a command, so structures of
\* another layout are never exchanged (the two checks of glibtop_open_l).
VersionGuard == peer # "same" => placed = 0 /\ c2s = <<>> /\ executed = 0

\* While the server waits for an argument nothing is on its way: whatever
\* ends this wait, it is never the argument (write_l writes the command only).
Starved == spc = "param" => c2s = <<>> /\ executed < placed

\* How the two processes hang together, in four parts.

\* At most one command is under way, and the server's counter is behind the
\* client's exactly while it has not answered it.
Counting ==
  /\ executed <= placed /\ placed <= executed + 1
  /\ Len(c2s) <= 1
  /\ c2s # <<>> => c2s[1] = [id |-> placed, req |-> req] /\ executed < placed
  /\ spc \in {"param", "handle"} =>
       cmnd = [id |-> placed, req |-> req] /\ executed < placed /\ c2s = <<>>

\* During the handshake the version is all the stream carries.
Handshake ==
  cpc \in {"verSize", "verText"} =>
    /\ placed = 0 /\ executed = 0 /\ c2s = <<>>
    /\ got = IF cpc = "verSize" THEN 0 ELSE 1
    /\ spc \in {"version", "read", "gone"}
    /\ Len(s2c) + got <= 2
    /\ spc = "version" => sent <= 1 /\ Len(s2c) + got = sent

\* Between two calls nothing is under way in either direction.
Quiet ==
  cpc \in {"ask", "free"} =>
    s2c = <<>> /\ c2s = <<>> /\ executed = placed /\ spc \in {"read", "gone"}

\* During a call the stream carries the part of the answer between the unit
\* the client reads next and the unit the server writes next.
Waiting ==
  cpc \in {"reply", "data"} =>
    /\ spc # "version"
    /\ \A i \in 1..Len(s2c) : s2c[i] = Unit(placed, got + i, reply.total)
    /\ executed < placed => s2c = <<>> /\ got = 0 /\ cpc = "reply" /\ spc # "write"
    /\ executed = placed => Len(s2c) + got <= RespLen + reply.total
    /\ spc = "write" =>
         /\ reply.id = placed /\ Len(s2c) + got = sent
         /\ sent < RespLen + reply.total
    /\ cpc = "reply" => got < RespLen
    /\ cpc = "data" => /\ dlen = reply.total
                       /\ RespLen <= got /\ got < RespLen + dlen

\* The client of another version never gets past the handshake.
Guarded ==
  peer # "same" => /\ cpc \in {"verSize", "verText", "aborted", "killed"}
                   /\ placed = 0 /\ executed = 0 /\ c2s = <<>>

\* The inductive invariant behind Framed, VersionGuard, Starved and the
\* refinement: no byte, command or answer of one call outlives it.
Coupling == Counting /\ Handshake /\ Quiet /\ Waiting /\ Guarded

\* The commands the client sends a server that offered them get an answer:
\* what the caller of glibtop_call_l counts on when it blocks.
Answerable(r) == SizeOf(r) <= ParamSize /\ r \notin Silent[link]

\* A call with an argument of at most ParamSize bytes, of a command the server
\* knows, ends: with its answer, or because one of the two processes ended.
\* Neither waits for the other forever, with answers larger than the pipe.  Only the
\* end of a handler whose socket the daemon holds is not seen by its client.
CallReturns ==
  cpc \in {"reply", "data"} /\ Answerable(req) ~>
    cpc \notin {"reply", "data"} \/ (ServerGone /\ link = "held")

\* Every call returns, whatever the size of its argument: what command.c:80-82
\* says of send_size ("so we only need one system call instead of two") takes
\* for granted that the longer argument is written with a second call.
EveryCallReturns == cpc \in {"reply", "data"} ~> cpc \notin {"reply", "data"}

\* The server never outlives its client, wherever it was when the client
\* closed, crashed or was killed.
NoOrphan == ClientGone ~> ServerGone

\* A server that ends while the client waits ends the client too, once it has
\* read what was already in the pipe: read returns 0.  Not so if the daemon
\* holds the socket of the handler that ended.
NoHang == HungUp /\ cpc \in {"reply", "data"} ~> cpc \notin {"reply", "data"}

\* The answer to a call arrives complete, is executed once and never twice.
abstractState ==
  IF ClientGone THEN "over"
  ELSE IF cpc \notin {"reply", "data"} THEN "free"
  ELSE IF executed = placed THEN "answered" ELSE "asked"

RC == INSTANCE RemoteCall WITH st <- abstractState, n <- placed, ex <- executed

\* The exchange of bytes implements the abstract call.
ImplementsRemoteCall == RC!AbsSpec
=============================================================================
