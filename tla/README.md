# A TLA+ model of libgtop

libgtop gives an application the system's counters (processors, memory, processes, file
systems, network interfaces) through one C interface. Where reading a value needs privileges it
asks a small setuid program at the other end of a pipe (`libgtop_server2`), and it can ask a daemon
(`libgtop_daemon2`) on another host. This directory models the life of a `glibtop` structure, the
exchange with a server, the daemon, the getters of eight systems with the privileges they run
under, and the two algorithms of the Linux port that have some: the list of processes and the disks.

Contents: [1. Inventory](#1-inventory), [2. Modules](#2-modules),
[3. What the runs check](#3-what-the-runs-check), [4. Bounds](#4-bounds),
[5. Fairness](#5-fairness), [6. Proofs](#6-proofs),
[7. Where the code and its documents disagree](#7-where-the-code-and-its-documents-disagree),
[8. Not modelled](#8-not-modelled), [9. Plan](#9-plan).

## 1. Inventory

Paths are relative to the repository. "Hard" names what tests would hardly reach.

### The library: `lib/`

| Component | State | Operations |
|---|---|---|
| Initialisation (`init.c`) | the state bits `INIT`, `OPEN`, `SERVER`, `SYSDEPS` in `server->flags`, `method`, `features` | `glibtop_init_r`, `_init_server`, `glibtop_init_s` |
| Opening (`open.c`) | `input`, `output`, `socket`, `pid`, `features`, `error_method` | `glibtop_open_l`: connect or fork and exec, read the version, ask for the features |
| Closing (`close.c`) | the same | `glibtop_close_r`: kill the server of a pipe, or QUIT over a socket |
| Parameters (`parameter.c`) | `method`, `error_method`, `required` | `glibtop_set_parameter_l`, `glibtop_get_parameter_l` |
| Getters (generated by `lib.pl`) | `required`, the caller's structure | `glibtop_get_<f>_l`: initialise, ask the server or the sysdeps code, check the required fields |
| Exchange (`command.c`, `read.c`, `write.c`) | the two descriptors, what is on its way | `glibtop_call_l`, `glibtop_read_l`, `glibtop_write_l` |

*Interactions.* Every getter begins with `glibtop_init_r`, which calls `glibtop_open_l`, which
calls `glibtop_call_l`, whose reads and writes begin with `glibtop_init_r` again. All of them test
and set the same four bits.

*Hard.* Re-entry during opening; that the first initialising call decides for the life of the
structure whether there is a server; calls after `glibtop_close_r`, which resets nothing; a
variable-length answer that is longer than the pipe; a server that ends within an answer.

*Correct means.* One structure has one server, and opens the sysdeps directory once, before a value
is read from it. What a getter reads is the answer to its own command. A feature the structure was
initialised for is not refused. A missing required field is reported as the error method says.
Calls return.

### The server side: `src/daemon/`

| Component | State | Operations |
|---|---|---|
| Setuid server (`server.c`, `slave.c`) | real and effective ids; privileged descriptors (`glibtop_init_p`) | privileged start, then `handle_slave_connection`: read a command, run the `_p` function, answer |
| Connection handler (`main.c`, `io.c`, `version.c`) | one socket | `handle_parent_connection`: the same loop over the library's own getters |
| Daemon (`gnuserv.c`) | descriptors, listening socket, `permitted_hosts`, children | start in three ways, `timed_read`, `permitted`, accept, fork, `wait3` after SIGCHLD |
| Shared server | one pipe for all handlers | the daemon opens its own structure before it forks (`gnuserv.c:608`) |

*Interactions.* The client's `glibtop_call_l` on one end, `do_read` and `do_output` on the other.
The daemon authenticates in the parent, one connection after the other, and forks a handler for each
that is permitted. SIGCHLD interrupts whichever `select` the parent is in.

*Hard.* A handler that ends while the next client is being authenticated, or between `wait3` and
`select`; a client that stays silent; descriptors the parent never closes; a handler whose end
nobody sees because the parent still holds its socket; which process holds which descriptor after
fork; a partial failure of the identity changes.

*Correct means.* Only permitted clients get a handler; each waiting client gets its turn; handlers
are reaped; descriptors are accounted for; a server does not outlive its client.

### The system dependent code: `sysdeps/`

`common` holds what all systems share (errors, sockets, mount list, file system usage); `linux` and
`cygwin` parse `/proc` and `/sys`; `freebsd`, `openbsd`, `bsd`, `darwin`, `solaris`, `aix`, `osf1`, `sun4`
use a kernel interface each; `stub` and `stub_suid` are templates.

| Component | State | Operations |
|---|---|---|
| A getter (`glibtop_get_<f>_s`, `_p`) | the caller's buffer and its `flags`; descriptors, streams and memory it has taken | clear, open, read, fill, flag, give back, return, on some twenty paths |
| Privileges (`open.c` of each system, `server.c`, `glibtop_suid.h`) | real, effective and saved ids of user and group | `glibtop_open_p`, `main`, `glibtop_suid_enter`, `glibtop_suid_leave` |
| Process list (`linux/proclist.c`) | the entry of `/proc` it is at, the array | read a name, read the files of that process, compare |
| Disks (`linux/disk.c`) | the array of devices with others on them, `server->ndisk` | `find_primary_part`, `is_virtual_drive`, the loop over `/proc/diskstats` |

*Hard.* The process asked about ends between two reads of one call; one of several system calls
fails, and the function returns from the middle of what it holds and of what it may do; a program
that polls repeats each leak for days; the ids of a setuid process after a refused change; a tree of
devices in a form nobody tried; uninitialised stack that decides a comparison.

*Correct means.* A flag says that the value was read; what was taken is given back; the rights of the
file are there between enter and leave and nowhere else; a process that stays and matches is listed;
an index stays within what was written.

## 2. Modules

| Module | Models | Extends |
|---|---|---|
| `RemoteCall` | what `glibtop_call_l` promises its caller, without bytes | |
| `ServerCall` | one client, its two streams and the command loop at the other end | instantiates `RemoteCall` |
| `Service` | what a structure promises its application, without bits and nested calls | |
| `Session` | one `glibtop` structure from zeros to close | instantiates `Service` |
| `Reception` | what the daemon promises those who connect, without descriptors and lines | |
| `Gnuserv` | the daemon, its clients and its handlers | instantiates `Reception` |
| `Skeleton` | the steps getters are made of | |
| `CommonGetters`, `LinuxGetters`, `CygwinGetters`, `FreeBsdGetters`, `BsdGetters`, `OpenBsdGetters`, `DarwinGetters`, `SolarisGetters`, `AixGetters` | what each getter of each system does, as sequences of steps | `Skeleton` |
| `GetterCall` | the process that runs them: its start, its ids, one call after the other | all of these |
| `GetterContract` | what callers may rely on | `GetterCall` |
| `GetterPaths` | the stages of a call, for loops of any number of rounds | `GetterContract` |
| `ProcList` | the process list of Linux while processes start, change and end | |
| `Partitions` | the disks of Linux | |
| `MCServerCall`, `MCSession`, `MCGnuserv`, `MCProcList` | constants of the instances | the modules they are named after |
| `ServerCall_proofs`, `Session_proofs`, `Gnuserv_proofs`, `GetterCall_proofs`, `GetterPaths_proofs`, `ProcList_proofs`, `Partitions_proofs` | theorems | the modules they are named after, and `GetterPaths_proofs` also `GetterCall_proofs` |

They meet at three seams. `Session` takes an exchange to succeed, or to end the process (`Ask`,
`ExchangeFails`): that this is all that can happen, for the commands it is about, is what
`ServerCall` shows. `Gnuserv` lets a handler run until it ends: what it does until then is
`ServerCall` with the link `"held"`, named for the descriptor that `Gnuserv` shows to stay open in
the parent. The execution of a command in `ServerCall` is one call of `GetterCall`,
whose `Returns` and `ProcessEndIsHarmless` say when it comes back.

### ServerCall

`cpc` is the client's position in `glibtop_open_l`, `glibtop_call_l` or `glibtop_read_l`; `spc` the
server's in its loop. `c2s` carries `glibtop_command`s, which are shorter than `PIPE_BUF` and arrive
whole. `s2c` carries *units*: an answer is `RespLen` of them for the `glibtop_response` and then as
many as `response.data_size` says, and they go through a stream that holds `PipeCap`. So the server
does block within an answer, and the client does read a part of one.

| Actions | Code |
|---|---|
| `ReadVersionSize`, `ReadVersionText`, `AskFeatures` | the end of `glibtop_open_l` |
| `Call`, `ReadHeader`, `ReadData`, `ReadEof`, `SendBroken` | `glibtop_call_l`, `glibtop_read_l`, `glibtop_write_l` |
| `CloseSocket`, `ClosePipe` | `glibtop_close_r` |
| `SendVersion`, `ReadCommand`, `ReadCommandEof`, `ReadParamEof`, `Handle`, `WriteReply`, `WriteBroken` | `glibtop_send_version`, `do_read`, the switch, `do_output` |
| `CrashClient`, `CrashServer` | either process ends at any moment |

`DataSize` is `glibtop_call_l`'s: an argument of more than `_GLIBTOP_PARAM_SIZE` bytes is announced
in `data_size`. That nothing ever writes it is not a simplification (`lib/command.c:88`).
`link` says what connects the two, and is chosen at the start: a `"pipe"` to the setuid server; a
`"socket"` to a server that has it alone, as one of inetd; a socket `"held"` by the daemon as well,
whose handler can end without the client's noticing. `Silent` and `Fatal` are, for each link, the
commands for which the switch has no answer (`main.c`: PROC_WD, NETLIST, default) and those that end
the server (`slave.c:268`).

### Session

`flags` are the four bits; `pc` says which library function is to continue after a nested call, and
`task` why the library was entered. `InitStruct`, `MethodFor`, `Settled` and `Requested` are the
parts of `glibtop_init_r` and `_init_server`; `Open`, `OpenFails`, `Ask` and `OpenSysdeps` are
`glibtop_open_l` and `glibtop_init_s`; `CallGet`, `Fetch`, `FetchFails` and `Check` are a generated
getter with `_glibtop_missing_feature`; `ExchangeFails` is the end of the process when the server
ends within a call. The history variables remember what the properties are
about: what initialisation was made for (`wanted`), who chose the method (`direct`, `forced`), how
often something was started (`started`, `opened`), what was reported (`warned`).

`ServerFeatures` is `glibtop_server_features`: empty on Linux, several on the BSDs and Darwin. On
Linux the module is the instance in which no feature needs a server. Reports are kept, their wording
is not. A method is set before opening, as `gnuserv.c` does: `glibtop_set_parameter_l` would take one
later, too, and calls would then go to descriptors that were never opened; what happens there is up
to what else has the numbers 0 and 1, and is left out.

### Gnuserv

`pc` is the parent's position, `fds` its open descriptors (numbers: the lowest free one is given
out, and `main` tests for 0), `backlog` the connections the kernel holds, `conn`, `sent`, `hungUp`
the clients. `HandlerEnds` is also the delivery of SIGCHLD: in the loop's `select` it leads back to
`wait3`, in that of `timed_read` it may make the authentication fail, elsewhere it has no effect.
`Modes` are the ways to start: in the foreground, in the background (descriptor 0 is closed), or by
inetd (the connection is descriptor 0 and `setup_table` is not called). `cut` remembers whose
authentication ended before its last line, and whether the time limit, a signal or the length it gave
for its cookie did it. The table of permitted hosts is what its search reaches: `setup_table` leaves a
0 where a name is NULL (`gnuserv.c:309`) and `permitted` ends its search at a 0 (`gnuserv.c:250`), so a
name behind a NULL is never found. The names are compiled in (`server_config.h:8` has one entry, NULL);
the model takes a list with no NULL before its end.

`Reception` is what a client sees: those who wait stand in a line, one at a time is looked at,
who is welcome may be served and anybody may be turned away, and a daemon that has ended decides
nothing. `backlog`, `conn` and the position in `handle_internet_request` are its state.

`Resolvers` stands for the `getaddrinfo` the daemon is linked with. `glibtop_internet_addr`
passes it the host as the service, no node, and AF_INET as `ai_flags`. A resolver that checks its
arguments ("strict") refuses, and the daemon ends in `setup_table`. Everything the model says of a
running daemon is said for a resolver that lets these arguments pass ("lenient").

### Getters

A function of `sysdeps/` is several dozen lines of parsing around a few steps that matter: clear
the buffer, take something, try an access that can fail, fill a group of fields, set their flags,
enter and leave, give back, return. `Skeleton` has a word for each, and a getter is the sequence of
its steps in the order of the source, with its conditions, loops, early returns and called functions.
Values are abstracted to *groups*: the fields the source flags together. `Put(g)` stands where
they are filled and `Set(g)` or `Add(g)` where `flags` is written, so that a flag without its value is a
state. `Try(cause, ...)` may fail for its cause: the process asked about is gone, another one is, the
system refuses, the content is not as expected. `announced` is what the init function puts into
`server->sysdeps`.

`GetterCall` runs these sequences: `todo` is what is left of the call, `held` and `lost` what it has
taken, `put` and `flagged` the two views of the buffer, `uid` and `gid` the ids. A process found gone
stays gone for the call. `OpenP` and `Main` are the start of the server with both changes of the
ids; `EnterStep` and `LeaveStep` are `glibtop_suid.h`, which on Linux, Darwin and Solaris changes the
user's ids and elsewhere the group's. Each change may be refused: enter does not look, leave exits.

`GetterContract` states the rules, and names in sets the getters that break each: `Unread`,
`NotAnnounced`, `NotCleared`, `NotDescribed`, `Kept`, `Wild`, `EndsWithTheProcess`, `Spins`,
`NeverLeaves`, `ChangesTheOther`. An entry is a place in the source where the code departs from the
rule; a getter in no set keeps it on every path. The sets are as small as they can be: without any
one of their entries the run fails. `Unread` has the most: flags of fields that are set to 0 for want
of a value (`openbsd/proctime.c:96`), that a failed call leaves as they were, or that come from another
process. OpenBSD's `kvm_getprocs` returns memory and a count of 0 when the process has ended; six of
its getters look at the pointer alone (`procuid.c:68`, `prockernel.c:77`, `proctime.c:79`,
`procsignal.c:63`, `procstate.c:65`, `procsegment.c:68`), and `Procs` and `ProcValues` of
`OpenBsdGetters` say so. In `Wild` are a pointer that may be NULL (`linux/procstate.c:79`,
`openbsd/procopenfiles.c:108`), memory that was freed (`openbsd/cpu.c:119`), and the descriptor -1
(`linux/netload.c:462`).

`GetterPaths` describes a call by its *stage*: the steps that are left, what the call has learned,
taken and put, with one group of fields watched at a time. A stage has no ids, for no step of a getter
looks at them, and no count of rounds: behind a loop there is always another round, and always its end.
`After` are the stages that may follow, `Stages` all that can be reached. There are finitely many for
each getter, and `PathsAssumption` says of them that none is missing (`Stages` is closed under
`After`), that each obeys the rules of `GetterContract`, and that a flag is set for watched groups
alone. TLC evaluates it for the code as it is translated in the modules of the eight systems.

### ProcList

`proc` are the processes with what the kernel shows of them; `Start`, `Change` and `End` may happen
between any two reads. `OpenDir`, `ReadDir` and `EndDir` are the loop over `/proc`: it shows each process
that stays, and may show or miss one that comes or goes. `Ask`, `ReadFirst` and `ReadSecond` are
`glibtop_get_proc_uid_s` with its two files, `Verdict` the comparison with whatever is in the buffer
then. `stays` and `past` remember which processes were there throughout and what each number has shown.
RUID compares the effective id (`proclist.c:134-135`), and so does `Selected`; `Meets`, what the
properties ask for, goes by the header, which says the real one. `ListsWhatFits` and `ListsNothingElse`
are stated of lists by the real user for processes that have no other rights than their own
(`OwnRights`), and the run `real_user` shows what happens to the others.

### Partitions

`ScanLine` is one round of `find_primary_part`: `Move` says where the line goes and what level it
leads to. `ReadLine` is one round of the loop over the kernel's lines. A device is the number of its
line. `clean` are the slots of the uninitialised array in which "raid", copied without its end, happens
to be followed by zero.

## 3. What the runs check

Passing runs:

| Run | Instance | Distinct states |
|---|---|---|
| `server_call` | the setuid server at the end of a pipe, a server at the end of a socket, and one whose socket the daemon holds too; five commands, three versions | 3,528 |
| `session` | three features, two of them the server's, four library calls | 27,818 |
| `daemon` | three clients, all modes, both resolvers, at most seven descriptors | 177,416 |
| `getters` | all getters of eight systems, in any order, with up to three rounds of loops in a call | 143,815 |
| `privileges` | the ids, in the same process with one round; first all stages of all getters are worked out | 123,949 |
| `proclist` | two process numbers, three events, every selection with sets of exclusions | 942,376 |
| `partitions` | every listing of up to five lines, every content of the stack | 1,471,096 |

What they show, beyond the type invariants:

* `Framed`: what waits in the client's input is the answer to the command it waits for, from the
  unit it needs next on; between calls there is nothing. A header or `data_size` consumed wrongly
  anywhere would shift every later answer.
* `VersionGuard`: a server of another version is sent no command, so no structure of another layout
  crosses the pipe.
* `ImplementsRemoteCall`: the exchange implements `RemoteCall`: one call at a time, executed at most
  once, in order, and never returning before it was executed.
* `CallReturns`, `NoHang`, `NoOrphan`: an answerable call ends; the end of one process reaches the
  other. Only for the daemon it does not reach the client: the parent keeps the accepted socket, so
  that the end of a handler is invisible to who waits for it. `CallReturns` and `NoHang` leave that
  one case out.
* `OneServer`, `SysdepsReady`, `CallEnds`: for all the calls from opening into initialisation and
  back, a structure starts one server, opens the sysdeps directory once and before it is used, and
  every library call ends.
* `ServerOnlyIfNeeded`, `WantedIsServed`: the setuid server is started only if a feature needs it, and a
  feature the structure was initialised for is not refused.
* `ImplementsService`: a structure is opened once and for good; who answers a getter is a function of its
  feature and what was opened; after `glibtop_close_r` the server's features end the process, the others
  are answered as before, and no connection is made again.
* `WarnOnce`: WARN_ONCE reports a missing field once.
* `ImplementsReception`: connections are decided in the order they came, one at a time and once each,
  whatever handlers, signals and other clients do meanwhile; only permitted ones are served.
* `RefusedForCause`: a client is refused for its host, its protocol, the length it gave for its cookie,
  its silence or its end, for a signal during its authentication, or by inetd's daemon.
  `daemon_interrupted` shows that the signal does refuse clients; this says that nothing else does.
* `OnlyPermitted`: a handler runs only for a client of a permitted host that named a known protocol,
  in every mode.
* `Accounted`, `EndsOnlyWhenFull`: the daemon's descriptors are those of its start, one for each
  connection it ever handed over, and the one it looks at; unless the system refuses something, it
  ends only when there is none left.
* `Turn`, `Reaped`: every connection gets its turn; a handler that ended is reaped by the time of the
  next connection.
* `PrivilegedInsideOnly`, `RightsWithinReach`, `LeavesBeforeReturning`: whatever the system refuses, the
  server has the rights of its file only between enter and leave, can have them again at every enter,
  and no getter returns inside but two of the BSD port.
* `FlagsCorrect`, `FlagsAnnounced`, `BufferCleared`, `ListDescribed`: what the buffer says of itself is
  so when the call returns, on each path and also if the process ends between two reads.
* `NothingKept`, `NoWildUse`, `ProcessEndIsHarmless`, `Returns`: a call gives back what it took, uses
  only what it holds, survives the end of the process it asks about, and comes to an end.
* `ListsWhatFits`, `ListsNothingElse`: whatever else happens in the table, a process that is there
  throughout and fits is in the list; one that is there throughout and in the list passed
  each test with something it had. For one that comes or goes nothing can be promised, and is not; nor,
  in a list by the real user, for one that has the rights of another.
* `KeepsUnderneath`, `DisksAreLines`: `find_primary_part` keeps exactly the devices with others on
  them though it throws the indentation away; `ndisk`, counted down within the loop it bounds, never
  leaves a disk that was read from behind the last line. The type invariant of `Partitions` has the
  bounds: the index never steps before the array, no entry is compared that was not written.

Every property has a mutant: a plausible error in the code (a dropped guard, a missing reset, a
swapped order), written beside the definition it replaces, for which TLC finds the property violated.

## 4. Bounds

* `MaxCalls = 4` counts SYSDEPS, so three getters follow each other, or two and a QUIT; `Coupling`
  says that nothing of one call is left when the next begins, so that more of them add nothing.
* `RespLen = 3`, `PipeCap = 2`: a header alone is longer than the stream, so the server blocks within
  it, at its end, and within the data (0 to 2 units).
* `ParamSize = 2`, `BufSize = 5` in units of eight bytes: arguments of 0, 1, 2 (the field exactly:
  PROCLIST), 3 (just longer) and 5 (not below BUFSIZ) cover each outcome of both tests.
* `MaxOps = 4`: setting a parameter, an initialising call, another getter, close, in any order.
  Three features: one without, two with the server, so that a structure initialised for one is asked
  for the other. Two fields: one present, one missing.
* Three clients: one served, one being looked at, one waiting; two of them permitted, one by each
  protocol. `FdLimit = 7`: four descriptors at the start, one for a log, two left, so the daemon does
  run out of them. The proofs show the safety properties for any number.
* Each client of the daemon connects once; a second attempt is another client.
* `Rounds = 3`: the loops of one call together make up to three rounds, so that one runs not at all,
  once, or again, or one behind or inside another; each entry of the sets of `GetterContract` shows
  within them. In `privileges` one round suffices: enter and leave know nothing of loops. The theorems
  are for any number.
* `Depth = 50` (pairs of steps) and `Nesting = 12` of `GetterPaths` are no restriction: a stage or a group
  that was missed for them would make `PathsAssumption` false.
* `MaxPid = 2`, `MaxEvents = 3`: one process that stays and one that ends and whose number is used
  again, within one entry; the proofs are for any numbers.
* `MaxLines = 5`: a disk, a partition, an array, a volume and one line more, so that each level is left
  in each direction; the proofs are for any number.

Deadlock is not checked for `ServerCall`, `Session` and `Gnuserv`: an application may stop calling,
clients may not connect, and processes end. It is checked for the others, whose only end is the
end of a call or of the process.

## 5. Fairness

* `ServerCall`: weak fairness of what the client does within a call (`ClientRuns`) and of the
  server's loop (`ServerRuns`): both are single-threaded processes the kernel schedules, so each is
  obliged to take some step it can, not each step. Nothing obliges the application to begin or end a
  call, and nobody has to crash.
* `Session`: weak fairness of the library's steps within a call; calls of the application have none.
* `Gnuserv`: weak fairness of the parent's steps, which include the passing of `AUTH_TIMEOUT` (the
  timer is `select`'s own). Clients need not connect, send or hang up, and handlers need not end.
* `GetterCall`: weak fairness of the process's own steps. `Returns` rests on the bound of the loops, which
  stands for the finite lists they walk; a loop that does not go on (`Again`) has no bound, and
  appears in `Spins`.
* `ProcList` and `Partitions` state safety alone.

## 6. Proofs

The theorems hold for every value of the constants that the named assumptions allow
(`FeaturesAssumption`, `SizesAssumption`, `SessionAssumption`, `GnuservAssumption`,
`GetterCallAssumption`, `PathsAssumption`, `ProcListAssumption`, `PartitionsAssumption`): that the
special commands are not features, that sizes are natural numbers, that permitted hosts are clients,
that descriptors suffice for the start. `RespLen` and `PipeCap` are positive, `FdLimit` is above
`4 + ServerFds`. Each proof has one lemma for each action or group of like actions.

* **ServerCall.** The inductive invariant is `TypeOK /\ Coupling`. `Framed` alone is not inductive:
  it does not say that the units that are still to be written continue those in the stream. `Coupling`
  does: during a call the length of the stream plus what the client has read equals what the
  server has sent (`Waiting`), the counters differ by at most one (`Counting`), between calls nothing
  is under way (`Quiet`), and a client of another version never gets further (`Handshake`,
  `Guarded`). From it follow `FramedCorrect`, `VersionGuardCorrect`, `StarvedCorrect`, and
  `RefinementCorrect`: initial states map to initial states of `RemoteCall`, each step to a
  step or a stutter.
* **Session.** The invariant is `TypeOK /\ Lifecycle`. `OneServer` is a consequence of what the
  state bits say about the position (`Progress`): in `open` the bit OPEN is clear, everywhere after
  it is set. That a wanted feature is served rests on who chose the method (`Decided`) and
  that the features have been replaced by the server's answer (`Serving`). `WarnOnceCorrect` is an
  action property; it needs that a reported field is no longer required (`Shown`). `ServiceCorrect` is the
  refinement: the OPEN and SERVER bits, the position and the descriptors give the stage, and each getter
  that is answered or refused is a `Reply` by `Route`; that a server that is asked is connected is the part of
  `Progress` it adds. The theorems are for any number of features, fields and calls (`MaxOps` is arbitrary).
* **Gnuserv.** The invariant is `TypeOK /\ Ledger` with the finiteness of `served`. Counting
  descriptors (`Accounted`) needs that a served connection is a new one each time, which needs
  that the one being looked at was not served (`Looking`), which needs that connections in the
  queue are distinct and waiting (`Queue`). `OnlyPermittedCorrect` follows from `Handed`; for inetd
  it rests on the empty table. `EndsOnlyWhenFullCorrect` needs that a daemon
  that has reached its loop ends by `AcceptFails` or `ForkFails` alone. `ReceptionCorrect` is the
  refinement: `accept` is `Take`, the fork `Serve`, the close `TurnAway`, the end of a handler `Finished`,
  every way out `Close`, and all else a stutter. It needs `Ledger` and `Attended`: the process and the
  connection end together, and at the start there is nobody, or inetd's connection would be a second one.
  `RefusedForCauseCorrect` is an action property; the cause must be there one step before the close, when
  the decision falls (`Decided`), and the table must be that of the hosts by then.

* **GetterCall.** Nothing is assumed of the sequences of steps: the theorems hold for whatever the
  getters are made of. The invariant says of the ids what each phase leaves (`IdsInv`): outside, the
  effective ones are the user's and the file's is the real or the saved one, for `setreuid` has
  exchanged them; inside, they are exchanged or the change was refused. From it follows
  `PrivilegedInsideOnlyCorrect`.
* **GetterPaths.** What a getter does is data (a sequence of steps), so its rules cannot be proved by
  reasoning about actions alone; and TLC alone shows them for `Rounds` rounds. The two share the work.
  TLC evaluates `PathsAssumption` for the code of each getter: a finite set of stages that is closed under
  `After` and obeys the rules. The proof shows that the process never leaves it. Each
  action of `GetterCall` takes the stage of the call, for every watched group, to a stage in `After`: a
  lemma for each kind of step, of which those for flags and for derived values are the ones where
  the projection to one group has to be shown right. The invariant `PathInv` is the one of `GetterCall` with
  `Traced` (the stage of a call is one of its getter's; between calls nothing is left) and `NeverInside`
  (systems without an enter never are inside). So the rules hold for every number of rounds, every
  order of calls and every refusal of an id: `LeavesBeforeReturningCorrect`, `FlagsAreCorrect`,
  `FlagsAnnouncedCorrect`, `BufferClearedCorrect`, `ListDescribedCorrect`, `NothingKeptCorrect`,
  `NoWildUseCorrect`, `ProcessEndIsHarmlessCorrect`, and `RightsWithinReachCorrect`, which also needs
  what `GetterCall` shows of the ids. The assumption is about the eight systems together and says nothing
  of `Rounds`, so that its one evaluation in `privileges` covers the theorems' constants.
* **ProcList.** The invariant follows an entry through its tests: for a process that stays, what is
  in the buffer is something it showed, and each test behind it was passed with such a thing; every
  number before the entry that stays has been decided. It is about what the code compares (`Compared`);
  that this is what was asked for, if a process has its own rights only, is `OwnCompared`, and
  `ListsWhatFitsCorrect` and `ListsNothingElseCorrect` are the ends of both.
* **Partitions.** `Walked` relates the line to be read to the disks kept and the lines skipped:
  `p = 1 + i + Len(lines) - ndisk`, until the last line. `Kept` says, for trees of the form the code is
  written for, that the last line is in the last entry, that this entry is behind those that are kept
  unless it is a disk, and that these are the devices underneath others among the lines read. A
  step does one of three things (`SupportedMove`), and `KeepsUnderneathCorrect` follows.

Only model-checked: all liveness (`CallReturns`, `NoHang`, `NoOrphan`, `CallEnds`, `Turn`, `Reaped`,
`Returns`), which the prover's logic of actions does not reach. Every invariant and every action
property a run checks, and the three refinements, are theorems. `Coupling`, `Lifecycle` with `AskedWhatItHas`, `Ledger`, `Attended`,
`Decided`, `PathInv`, `Starved` and the type invariants of `Gnuserv` and `GetterCall` are proved, and
stated by no run.

## 7. Where the code and its documents disagree

Each is a run that TLC ends with a counterexample, and an entry of `findings`.

| Run | What happens |
|---|---|
| `long_argument` | An argument of more than 16 bytes (the mount point of FSUSAGE, an interface name) is announced and not sent; both sides wait. |
| `first_getter` | The first getter initialises for its own feature alone; if that needs no server, later ones that do end the process with ENOSYS. |
| `raw_device` | Of two raw devices one behind the other only the first is skipped: the second is reported as a disk of its own. |
| `real_user` | A list of the processes of a real user has those of the effective one: `include/glibtop/proclist.h:85` and `doc/reference.texi:445` say real, `linux/proclist.c:134` compares `euid`. |
| `daemon_interrupted` | SIGCHLD during `timed_read` refuses the client that is just being authenticated. |

The sets of `GetterContract` are the others: each entry is a getter that breaks the rule it is listed
under, with a line where the place is not plain. Further departures that the models contain, and no run
refutes: the daemon says it has all features (`main.c:99`), and
leaves PROC_WD, NETLIST and the default unanswered, so that a getter of these does not return (`Silent`,
which `CallReturns` leaves out); with a `getaddrinfo` that checks its arguments the daemon ends before it listens; opening
overwrites an error method that was set before; if all required fields are missing none is
reported; a volume or an encrypted device directly on a disk is outside what `find_primary_part` is written
for (`Supported`), and is counted twice or not at all; closing a structure whose
method is the pipe before it was opened kills the caller's process group (`kill (0, SIGKILL)`); in
the background the listening socket may get descriptor 0, which `main` takes for a failure; the
inetd mode has an empty table and refuses everyone; the daemon gives up when its descriptors are
used up by connections that ended long ago.

## 8. Not modelled

* The values themselves: what a counter means, how it is parsed, endianness, structure layouts
  (the version check stands for them).
* The unix method: no program of the repository listens on a local socket.
* Authentication by cookie as such (`AUTH_MAGIC_COOKIE` is off; a cookie takes its three lines, or
  is refused for its length, and goes the way of the others).
* `glibtop_read_data_l`, which nothing calls; reading parameters back; boxed types; configuration;
  examples; translations; the build.
* The lengths of arrays and strings in `linux/disk.c` (`GLIBTOP_NDISK`, names of 256 bytes): nothing
  in the code compares with them, and the models' arrays are as long as their listings.
* OSF/1 and SunOS 4: the first does not compile (`osf1/proclist.c:151`), and `libgtop-sysdeps.m4`
  says of the second that it does not work at all. The stubs do nothing.
* The variants of `read_filesystem_list` that no system with other files here uses.

The components not modelled yet, and those only in part, are in `PROJECT.json` with their reasons.

## 9. Plan

In order of weight. Modules that are to be proved about declare no recursive operator.

1. `SharedServer`: the handlers of the daemon and the setuid server's single pipe. Two handlers write
   commands and read answers on the same descriptors. Instances with a server (BSD) and without
   (Linux); composition with `ServerCall`'s loop. Question: whose answer is read. Also the descriptors
   a second server inherits across fork and exec in `glibtop_open_l`, and whom an end of file
   reaches.
2. `Buffers`: `try_file_to_buffer` with short reads, and the answer of `lsblk` through
   `get_from_pipe`, which is read once and not terminated.
3. `MountPoint`: the choice of a partition for a mount entry in `linux/fsusage.c`.
