------------------------------- MODULE Session -------------------------------
(***************************************************************************)
(* One `glibtop' structure over its life: glibtop_set_parameter_l,         *)
(* glibtop_init_r with its flags, glibtop_open_l, glibtop_init_s,          *)
(* glibtop_close_r, and the generated getters glibtop_get_<f>_l, which     *)
(* initialise on demand, choose between server and sysdeps code, and check *)
(* the fields the client requires.                                         *)
(*                                                                         *)
(* The four state bits of server->flags, server->method and                *)
(* server->features say how far initialisation has come; they are read and *)
(* written by functions that call each other.  The exchange with the       *)
(* server is ServerCall's; here a call over open descriptors succeeds or   *)
(* ends the process.                                                       *)
(***************************************************************************)
EXTENDS Naturals, FiniteSets

CONSTANTS
  Features,        \* GLIBTOP_SYSDEPS_ALL
  ServerFeatures,  \* glibtop_server_features: those with GLIBTOP_SUID_<f> set
  ServerCommand,   \* LIBGTOP_SERVER: "path" or ":direct", ":inet", ":pipe"
  Fields,          \* the bits of a structure's flags
  InitFeatures,    \* sets of features the application passes to glibtop_init_r
  Requirements,    \* the values of GLIBTOP_PARAM_REQUIRED the application sets
  MaxOps           \* bound: library calls of the application

ASSUME SessionAssumption ==
  /\ ServerFeatures \subseteq Features
  /\ {"init", "quit"} \cap Features = {}
  /\ InitFeatures \subseteq SUBSET Features
  /\ ServerCommand \in {"path", ":direct", ":inet", ":pipe"}
  /\ Requirements \subseteq [Features -> SUBSET Fields]
  /\ MaxOps \in Nat

VARIABLES
  pc,           \* "app": no call is under way; else the function to continue
  task,         \* a getter's feature, "init" or "quit": why the library was entered
  flags,        \* _GLIBTOP_INIT_STATE_*
  method,       \* server->method ("none" is 0)
  features,     \* server->features
  errorMethod,  \* server->error_method
  required,     \* server->required.<f>: fields, per feature
  link,         \* the descriptors: "none", "open" or "closed"
  ops,          \* library calls so far
  \* History.
  wanted,       \* the features initialisation was made for
  direct,       \* the application or the environment chose the direct method
  forced,       \* the method was set after initialisation
  started,      \* connections made, up to 2
  opened,       \* calls of glibtop_open_s, up to 2
  closed,       \* glibtop_close_r has been called
  warned,       \* fields reported once since they were last required
  last          \* how the last getter went

struct == <<flags, method, features, errorMethod, required, link>>
history == <<wanted, direct, forced, started, opened, closed, warned, last>>
vars == <<pc, task, struct, ops, history>>

\* No server listens on a local socket: GLIBTOP_METHOD_UNIX is left out.
Methods == {"none", "direct", "pipe", "inet"}
ErrorMethods == {"ignore", "warnOnce", "warn", "abort"}
StateBits == {"INIT", "OPEN", "SERVER", "SYSDEPS"}
InitFlags == {"NO_OPEN", "NO_INIT", "NO_SERVER", "EXCEPT"}

\* How a getter went: through the server, through the sysdeps code, or not at
\* all; which fields the structure had; whether missing ones were reported.
Routes == {"never", "server", "sysdeps", "enosys", "badfd"}
Outcomes == [f : Features \cup {"init"}, route : Routes, present : SUBSET Fields,
             missing : SUBSET Fields, report : {"none", "warn", "abort"}]

TypeOK ==
  /\ pc \in {"app", "open", "ask", "sysdeps", "get", "quit", "dead"}
  /\ task \in Features \cup {"init", "quit"}
  /\ flags \subseteq StateBits /\ method \in Methods /\ features \subseteq Features
  /\ errorMethod \in ErrorMethods /\ required \in [Features -> SUBSET Fields]
  /\ link \in {"none", "open", "closed"}
  /\ ops \in 0..MaxOps
  /\ wanted \subseteq Features /\ direct \in BOOLEAN /\ forced \in BOOLEAN
  /\ started \in 0..2 /\ opened \in 0..2 /\ closed \in BOOLEAN
  /\ warned \in [Features -> SUBSET Fields]
  /\ last \in Outcomes

NoOutcome == [f |-> "init", route |-> "never", present |-> {}, missing |-> {},
              report |-> "none"]

\* A structure of zeros: no method, GLIBTOP_ERROR_METHOD_IGNORE, no requirement.
Init ==
  /\ pc = "app" /\ task = "init"
  /\ flags = {} /\ method = "none" /\ features = {} /\ errorMethod = "ignore"
  /\ required = [f \in Features |-> {}] /\ link = "none" /\ ops = 0
  /\ wanted = {} /\ direct = FALSE /\ forced = FALSE
  /\ started = 0 /\ opened = 0 /\ closed = FALSE
  /\ warned = [f \in Features |-> {}]
  /\ last = NoOutcome

OneMore(n) == IF n < 2 THEN n + 1 ELSE n

Enter == pc = "app" /\ ops < MaxOps /\ ops' = ops + 1

-----------------------------------------------------------------------------
(* Parameters. *)

\* An application that sets the method does so before the structure is opened,
\* as gnuserv.c does: glibtop_open_l is the last to choose by it.
SetMethod(m) ==
  /\ Enter
  /\ "OPEN" \notin flags
  /\ method' = m
  /\ direct' = (direct \/ m = "direct")
  /\ forced' = (forced \/ "INIT" \in flags)
  /\ UNCHANGED <<pc, task, flags, features, errorMethod, required, link,
                 wanted, started, opened, closed, warned, last>>

SetErrorMethod(e) ==
  /\ Enter
  /\ errorMethod' = e
  /\ UNCHANGED <<pc, task, flags, method, features, required, link,
                 wanted, direct, forced, started, opened, closed, warned, last>>

\* The requirements of all features are replaced at once.
SetRequired(req) ==
  /\ Enter
  /\ required' = req
  /\ warned' = [f \in Features |-> {}]
  /\ UNCHANGED <<pc, task, flags, method, features, errorMethod, link,
                 wanted, direct, forced, started, opened, closed, last>>

-----------------------------------------------------------------------------
(* Initialisation. *)

\* Mutant: the inverted features are not masked with GLIBTOP_SYSDEPS_ALL.
RequestedUnmasked(fs, fl) ==
  LET listed == IF "EXCEPT" \in fl THEN (Features \cup {"beyond"}) \ fs ELSE fs
      some == IF listed = {} THEN Features ELSE listed
  IN IF "NO_SERVER" \in fl THEN {} ELSE some

\* The features an initialising call is made for: EXCEPT inverts them, none
\* means all, and NO_SERVER drops them.
Requested(fs, fl) ==
  LET listed == IF "EXCEPT" \in fl THEN Features \ fs ELSE fs
      some == IF listed = {} THEN Features ELSE listed
  IN IF "NO_SERVER" \in fl THEN {} ELSE some

\* _init_server: a method that is already set stays; a server_command without a
\* colon means the pipe if a feature needs the server; else it names the method.
MethodFor(fs, fl) ==
  LET chosen == IF "NO_SERVER" \in fl THEN "direct" ELSE method
  IN IF chosen # "none" THEN chosen
     ELSE CASE ServerCommand = "path" ->
                 IF Requested(fs, fl) \cap ServerFeatures # {} THEN "pipe" ELSE "direct"
            [] ServerCommand = ":direct" -> "direct"
            [] ServerCommand = ":inet" -> "inet"
            [] ServerCommand = ":pipe" -> "pipe"

\* Mutant: whatever the features, the method stays.
SettledAnyway(m, fs) == m

\* Mutant: a pipe is given up unless all server features are requested.
SettledUnlessAll(m, fs) ==
  IF m = "pipe" /\ ~(ServerFeatures \subseteq fs) THEN "direct" ELSE m

\* A pipe is given up when no feature needs the server.
Settled(m, fs) ==
  IF m = "pipe" /\ fs \cap ServerFeatures = {} THEN "direct" ELSE m


\* The part of glibtop_init_r that runs once, guarded by the INIT bit.
InitStruct(fs, fl) ==
  IF "INIT" \in flags
  THEN UNCHANGED <<flags, method, features, wanted, direct>>
  ELSE /\ flags' = flags \cup {"INIT"}
       /\ features' = Requested(fs, fl)
       /\ method' = Settled(MethodFor(fs, fl), Requested(fs, fl))
       /\ wanted' = Requested(fs, fl)
       /\ direct' = \/ direct \/ "NO_SERVER" \in fl
                    \/ MethodFor(fs, fl) = "direct" /\ ServerCommand # "path"

\* Where glibtop_init_r goes on: to glibtop_open_l unless it has already run.
Continue(fl, next) ==
  pc' = IF "NO_OPEN" \notin fl /\ "OPEN" \notin flags THEN "open" ELSE next

\* glibtop_init_r called by the application.
CallInit(fs, fl) ==
  /\ Enter
  /\ task' = "init"
  /\ IF "NO_INIT" \in fl
     THEN UNCHANGED <<pc, flags, method, features, wanted, direct>>
     ELSE InitStruct(fs, fl) /\ Continue(fl, "app")
  /\ UNCHANGED <<errorMethod, required, link, forced, started, opened, closed, warned,
                 last>>

\* A getter starts with glibtop_init_r (&server, 1 << GLIBTOP_SYSDEPS_<f>, 0).
CallGet(f) ==
  /\ Enter
  /\ task' = f
  /\ InitStruct({f}, {}) /\ Continue({}, "get")
  /\ UNCHANGED <<errorMethod, required, link, forced, started, opened, closed, warned,
                 last>>

-----------------------------------------------------------------------------
(* glibtop_open_l. *)

\* Mutant: the OPEN bit is only set once the server has answered.
OpenLate ==
  /\ pc = "open"
  /\ flags' = IF method = "direct" THEN flags \cup {"OPEN"} ELSE flags \cup {"SERVER"}
  /\ errorMethod' = "warnOnce"
  /\ \/ /\ method = "direct"
        /\ features' = {} /\ pc' = "sysdeps"
        /\ UNCHANGED <<link, started>>
     \/ /\ method # "direct"
        /\ features' = Features /\ link' = "open" /\ started' = OneMore(started)
        /\ pc' = "ask"
  /\ UNCHANGED <<task, method, required, ops, wanted, direct, forced, opened,
                 closed, warned, last>>

\* Up to the connection.  The OPEN bit is set first: the calls that follow
\* come back to glibtop_init_r.  The error method is set to its default.
Open ==
  /\ pc = "open"
  /\ flags' = flags \cup {"OPEN"} \cup (IF method = "direct" THEN {} ELSE {"SERVER"})
  /\ errorMethod' = "warnOnce"
  /\ \/ /\ method = "direct"
        /\ features' = {} /\ pc' = "sysdeps"
        /\ UNCHANGED <<link, started>>
     \/ /\ method # "direct"
        /\ features' = Features /\ link' = "open" /\ started' = OneMore(started)
        /\ pc' = "ask"
  /\ UNCHANGED <<task, method, required, ops, wanted, direct, forced, opened,
                 closed, warned, last>>

\* No connection, or no process.
OpenFails ==
  /\ pc = "open" /\ method # "direct"
  /\ flags' = flags \cup {"OPEN"} /\ errorMethod' = "warnOnce"
  /\ pc' = "dead"
  /\ UNCHANGED <<task, method, features, required, link, ops, history>>

\* The features of the server that answers: the setuid server has the ones it
\* was built for, the daemon says all (GLIBTOP_SYSDEPS_ALL).
RemoteFeatures == IF method = "pipe" THEN ServerFeatures ELSE Features

\* Mutant: the answer is not stored, the -1 stays.
AskUnstored ==
  /\ pc = "ask"
  /\ \/ IF "OPEN" \in flags THEN pc' = "sysdeps" ELSE pc' = "open"
     \/ pc' = "dead"
  /\ UNCHANGED <<task, flags, method, features, errorMethod, required, link, ops,
                 history>>

\* Version and SYSDEPS.  Each of its calls runs glibtop_init_r again, which
\* would open again without the OPEN bit.
Ask ==
  /\ pc = "ask"
  /\ \/ /\ IF "OPEN" \in flags
           THEN features' = RemoteFeatures /\ pc' = "sysdeps"
           ELSE UNCHANGED features /\ pc' = "open"
     \/ pc' = "dead" /\ UNCHANGED features     \* wrong version, or no answer
  /\ UNCHANGED <<task, flags, method, errorMethod, required, link, ops, history>>

\* Where a call goes on once the structure is ready for it.
AfterInit == CASE task = "init" -> "app" [] task = "quit" -> "quit" [] OTHER -> "get"

\* Mutant: with a server, the sysdeps directory is not opened.
OpenSysdepsUnlessServer ==
  /\ pc = "sysdeps"
  /\ IF "SYSDEPS" \in flags \/ "SERVER" \in flags
     THEN UNCHANGED <<flags, opened>>
     ELSE flags' = flags \cup {"SYSDEPS"} /\ opened' = OneMore(opened)
  /\ pc' = AfterInit
  /\ UNCHANGED <<task, method, features, errorMethod, required, link, ops,
                 wanted, direct, forced, started, closed, warned, last>>

\* glibtop_init_s: glibtop_open_s and the hooks, once, whatever the method.
OpenSysdeps ==
  /\ pc = "sysdeps"
  /\ IF "SYSDEPS" \in flags
     THEN UNCHANGED <<flags, opened>>
     ELSE flags' = flags \cup {"SYSDEPS"} /\ opened' = OneMore(opened)
  /\ pc' = AfterInit
  /\ UNCHANGED <<task, method, features, errorMethod, required, link, ops,
                 wanted, direct, forced, started, closed, warned, last>>

-----------------------------------------------------------------------------
(* The body of a getter, after glibtop_init_r. *)

ThroughServer == "SERVER" \in flags /\ task \in features

\* The check of the required fields is made only if one of them is present
\* (lib.pl:227).
Checked(present) ==
  required[task] \cap present # {} /\ required[task] \ present # {}

\* Mutant: the missing fields stay required.
ForgottenNever(present) == {}

\* The fields that WARN_ONCE forgets once it has reported that they are missing.
Forgotten(present) ==
  IF Checked(present) /\ errorMethod = "warnOnce" THEN required[task] \ present ELSE {}

\* _glibtop_missing_feature.
Check(present) ==
  LET report == CASE ~Checked(present) \/ errorMethod = "ignore" -> "none"
                  [] errorMethod = "abort" -> "abort"
                  [] OTHER -> "warn"
  IN /\ required' = [required EXCEPT ![task] = @ \ Forgotten(present)]
     /\ warned' = IF report = "warn" /\ errorMethod = "warnOnce"
                  THEN [warned EXCEPT ![task] = @ \cup (required[task] \ present)]
                  ELSE warned
     /\ pc' = IF report = "abort" THEN "dead" ELSE "app"
     /\ last' = [f |-> task, route |-> IF ThroughServer THEN "server" ELSE "sysdeps",
                 present |-> present, missing |-> required[task] \ present,
                 report |-> report]

\* The value is fetched: over the descriptors, or by glibtop_get_<f>_s if that
\* exists without privileges.
Fetch ==
  /\ pc = "get"
  /\ \/ ThroughServer /\ link = "open"
     \/ ~ThroughServer /\ task \notin ServerFeatures
  /\ \E present \in SUBSET Fields : Check(present)
  /\ UNCHANGED <<task, flags, method, features, errorMethod, link, ops,
                 wanted, direct, forced, started, opened, closed>>

\* It is not: ENOSYS, or descriptors that glibtop_close_r has closed.
FetchFails ==
  /\ pc = "get"
  /\ \/ /\ ThroughServer /\ link # "open"
        /\ last' = [NoOutcome EXCEPT !.f = task, !.route = "badfd"]
     \/ /\ ~ThroughServer /\ task \in ServerFeatures
        /\ last' = [NoOutcome EXCEPT !.f = task, !.route = "enosys"]
  /\ pc' = "dead"
  /\ UNCHANGED <<task, struct, ops, wanted, direct, forced, started, opened,
                 closed, warned>>

-----------------------------------------------------------------------------
\* glibtop_close_r goes by the method alone, and resets nothing.  A pipe's process
\* is killed; without one server->pid is 0, which kill() takes for the process
\* group of the caller.
ClosePipe ==
  /\ Enter /\ method = "pipe"
  /\ closed' = TRUE
  /\ IF link = "none" THEN pc' = "dead" /\ UNCHANGED link
                      ELSE link' = "closed" /\ UNCHANGED pc
  /\ UNCHANGED <<task, flags, method, features, errorMethod, required,
                 wanted, direct, forced, started, opened, warned, last>>

\* Over a socket QUIT is a call like any other: it initialises and opens.
CloseSocket ==
  /\ Enter /\ method = "inet"
  /\ task' = "quit" /\ closed' = TRUE
  /\ InitStruct({}, {}) /\ Continue({}, "quit")
  /\ UNCHANGED <<errorMethod, required, link, forced, started, opened, warned,
                 last>>

Quit ==
  /\ pc = "quit"
  /\ IF link = "open" THEN link' = "closed" /\ pc' = "app"
                      ELSE pc' = "dead" /\ UNCHANGED link
  /\ UNCHANGED <<task, flags, method, features, errorMethod, required, ops, history>>

\* The server ends during an exchange, a getter's or QUIT's: glibtop_read_l ends the
\* process, or the write does (ReadEof and SendBroken of ServerCall).
ExchangeFails ==
  /\ link = "open"
  /\ (pc = "get" /\ ThroughServer) \/ pc = "quit"
  /\ pc' = "dead"
  /\ UNCHANGED <<task, struct, ops, history>>

CloseNothing ==
  /\ Enter /\ method \in {"none", "direct"}
  /\ closed' = TRUE
  /\ UNCHANGED <<pc, task, struct, wanted, direct, forced, started, opened,
                 warned, last>>

-----------------------------------------------------------------------------
LibraryRuns ==
  Open \/ OpenFails \/ Ask \/ OpenSysdeps \/ Fetch \/ FetchFails \/ Quit \/ ExchangeFails

Next ==
  \/ (\E m \in Methods \ {"none"} : SetMethod(m))
  \/ (\E e \in ErrorMethods : SetErrorMethod(e))
  \/ (\E req \in Requirements : SetRequired(req))
  \/ (\E fs \in InitFeatures, fl \in SUBSET InitFlags : CallInit(fs, fl))
  \/ (\E f \in Features : CallGet(f))
  \/ ClosePipe \/ CloseSocket \/ CloseNothing
  \/ Open \/ OpenFails \/ Ask \/ OpenSysdeps \/ Fetch \/ FetchFails \/ Quit \/ ExchangeFails

\* A call of the library runs on; the application need not make one.
Spec == Init /\ [][Next]_vars
FairSpec == Spec /\ WF_vars(LibraryRuns)
-----------------------------------------------------------------------------
\* Opening calls back into initialisation (the SYSDEPS call, and every read and
\* write, begin with glibtop_init_r): for all that, one structure connects to
\* one server, once, and opens the sysdeps directory once (open.c:43).
OneServer == started <= 1 /\ opened <= 1

\* A value comes from the sysdeps code only after its glibtop_open_s and hooks
\* ran, also when other features go through a server (open.c:160).
SysdepsReady == last.route = "sysdeps" => "SYSDEPS" \in flags /\ opened = 1

\* A process of the setuid server is only started for a feature that needs it
\* (reference.texi:1684), unless the method is set once that is decided.
ServerOnlyIfNeeded ==
  started > 0 /\ method = "pipe" /\ ~forced => wanted \cap ServerFeatures # {}

\* The setuid server is only asked for what it was built for: the features of
\* its answer replace the -1 that the SYSDEPS call itself needs (open.c:147).
AskedWhatItHas ==
  last.route = "server" /\ method = "pipe" => last.f \in ServerFeatures

\* A feature the structure was initialised for is never refused with ENOSYS
\* (lib.pl:176), unless the application or LIBGTOP_SERVER asked for no server.
WantedIsServed ==
  last.route = "enosys" => last.f \notin wanted \/ direct \/ forced

\* With GLIBTOP_ERROR_METHOD_WARN_ONCE a missing field is reported once, until
\* the application requires it again (reference.texi:1891, lib.pl:36).
WarnOnce ==
  [][pc = "get" /\ pc' = "app" /\ errorMethod = "warnOnce" /\ last'.report = "warn"
       => last'.missing \cap warned[task] = {}]_vars

\* Why the safety properties hold, in four parts.
\* How far initialisation has come.
Progress ==
  /\ "OPEN" \in flags => "INIT" \in flags
  /\ "OPEN" \notin flags =>
       /\ pc \in {"app", "open", "dead"} /\ link = "none" /\ started = 0
       /\ "SERVER" \notin flags /\ "SYSDEPS" \notin flags
  /\ opened = IF "SYSDEPS" \in flags THEN 1 ELSE 0
  /\ started <= 1
  /\ pc = "open" => "INIT" \in flags /\ "OPEN" \notin flags
  /\ pc = "ask" => "SERVER" \in flags
  /\ pc \in {"ask", "sysdeps"} => "OPEN" \in flags /\ "SYSDEPS" \notin flags
  /\ pc \in {"ask", "sysdeps"} /\ "SERVER" \in flags => link = "open"
  /\ pc = "get" => task \in Features
  /\ pc \in {"get", "quit"} => "SYSDEPS" \in flags
  /\ pc = "app" /\ "OPEN" \in flags => "SYSDEPS" \in flags

\* Which features the server answers, once it has been asked.
Serving ==
  /\ "INIT" \in flags => method # "none"
  /\ "SERVER" \in flags => method # "direct"
  /\ "OPEN" \in flags /\ pc # "dead" /\ "SERVER" \notin flags => method = "direct"
  /\ "SERVER" \in flags /\ pc \in {"app", "sysdeps", "get", "quit"} =>
       features = RemoteFeatures

\* Who decided whether there is a server.
Decided ==
  /\ method = "direct" /\ "INIT" \notin flags => direct
  /\ method = "direct" /\ "INIT" \in flags =>
       direct \/ forced \/ wanted \cap ServerFeatures = {}
  /\ method = "pipe" /\ "INIT" \in flags => forced \/ wanted \cap ServerFeatures # {}

\* What the last getter shows.
Shown ==
  /\ last.route = "enosys" => pc = "dead"
  /\ last.route \in {"server", "sysdeps"} => "SYSDEPS" \in flags
  /\ \A f \in Features : required[f] \cap warned[f] = {}

\* The inductive invariant: WantedIsServed and AskedWhatItHas hold because of
\* how the getter got there.
Lifecycle == Progress /\ Serving /\ Decided /\ Shown /\ AskedWhatItHas /\ WantedIsServed

\* How the structure appears to its application.
serviceStage ==
  CASE pc = "dead" -> "over"
    [] pc # "dead" /\ "OPEN" \notin flags -> "unopened"
    [] pc # "dead" /\ "OPEN" \in flags /\ "SERVER" \notin flags -> "local"
    [] OTHER -> IF pc = "ask" THEN "connecting" ELSE IF link = "open" THEN "served" ELSE "closed"
servicePeer ==
  IF "SERVER" \notin flags THEN "nobody" ELSE IF method = "pipe" THEN "setuid" ELSE "daemon"
SV == INSTANCE Service WITH
        stage <- serviceStage, peer <- servicePeer,
        has <- IF serviceStage \in {"served", "closed"} THEN features ELSE {},
        ready <- "SYSDEPS" \in flags, answer <- <<last.f, last.route>>

\* The structure implements Service: it is opened once and for good, and what it
\* was opened to decides who answers each getter, in spite of features and method
\* being written by functions that call each other (init.c:192, open.c:43-160).
ImplementsService == SV!SvcSpec

\* A call of the library comes to an end, in spite of the calls from open into
\* initialisation and back.
CallEnds == pc \notin {"app", "dead"} ~> pc \in {"app", "dead"}

-----------------------------------------------------------------------------
(* What documentation and comments say, and the code does not do. *)

\* "It is automatically called when you use any of the LibGTop functions":
\* a getter does not fail for want of a server nobody declined.
AnyGetterIsServed == last.route = "enosys" => direct \/ forced

=============================================================================
