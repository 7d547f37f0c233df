--------------------------- MODULE Session_proofs ---------------------------
(* What the life of one structure guarantees, for every set of features,   *)
(* server command and number of calls.                                     *)
EXTENDS Session, TLAPS

USE SessionAssumption

Inv == TypeOK /\ Lifecycle

\* The features of an initialising call are features of the library, and
\* choosing the method never leaves it open.
LEMMA RequestedFeatures ==
  ASSUME NEW fs \in SUBSET Features, NEW fl
  PROVE  Requested(fs, fl) \in SUBSET Features
BY DEF Requested

\* A method that is settled is a method; there is none without a server only
\* for lack of features that need one, or by somebody's choice.
LEMMA SettledMethod ==
  ASSUME NEW fs \in SUBSET Features, NEW fl, method \in Methods
  PROVE  LET m == Settled(MethodFor(fs, fl), Requested(fs, fl))
             none == Requested(fs, fl) \cap ServerFeatures = {}
         IN /\ m \in Methods \ {"none"}
            /\ m = "pipe" => ~none
            /\ m = "direct" => \/ none \/ "NO_SERVER" \in fl
                               \/ method = "direct" \/ ServerCommand = ":direct"
<1>1. MethodFor(fs, fl) \in Methods \ {"none"}
  BY DEF MethodFor, Methods
<1>2. MethodFor(fs, fl) = "direct" =>
        \/ Requested(fs, fl) \cap ServerFeatures = {} \/ "NO_SERVER" \in fl
        \/ method = "direct" \/ ServerCommand = ":direct"
  BY DEF MethodFor
<1> QED BY <1>1, <1>2 DEF Settled, Methods

\* The part of glibtop_init_r that runs once keeps the decision consistent.
LEMMA InitStructStep ==
  ASSUME Inv, NEW fs \in SUBSET Features, NEW fl, InitStruct(fs, fl), forced' = forced
  PROVE  /\ flags' = flags \cup {"INIT"}
         /\ method' \in Methods \ {"none"}
         /\ "INIT" \in flags => UNCHANGED <<flags, method, features, wanted, direct>>
         /\ features' \in SUBSET Features /\ wanted' \in SUBSET Features
         /\ direct' \in BOOLEAN
         /\ Decided'
<1>1. CASE "INIT" \in flags
  BY <1>1 DEF InitStruct, Inv, TypeOK, Lifecycle, Serving, Decided
<1>2. CASE "INIT" \notin flags
  <2> DEFINE mm == MethodFor(fs, fl)
  <2>1. method \in Methods /\ direct \in BOOLEAN BY DEF Inv, TypeOK
  <2>2. /\ flags' = flags \cup {"INIT"} /\ features' = Requested(fs, fl)
        /\ wanted' = Requested(fs, fl) /\ method' = Settled(mm, Requested(fs, fl))
        /\ direct' = (\/ direct \/ "NO_SERVER" \in fl
                      \/ mm = "direct" /\ ServerCommand # "path")
    BY <1>2 DEF InitStruct
  <2>3. method = "direct" => direct
    BY <1>2 DEF Inv, Lifecycle, Decided
  <2>4. ServerCommand = ":direct" /\ method' = "direct" =>
          \/ mm = "direct" \/ wanted' \cap ServerFeatures = {}
    BY <2>2 DEF Settled
  <2>5. /\ method' \in Methods \ {"none"}
        /\ method' = "pipe" => wanted' \cap ServerFeatures # {}
        /\ method' = "direct" => \/ wanted' \cap ServerFeatures = {} \/ "NO_SERVER" \in fl
                                 \/ method = "direct" \/ ServerCommand = ":direct"
    BY <2>1, <2>2, SettledMethod
  <2>6. Decided'
    BY <2>2, <2>3, <2>4, <2>5 DEF Decided
  <2> QED BY <1>2, <2>1, <2>2, <2>5, <2>6, RequestedFeatures
<1> QED BY <1>1, <1>2

\* The initial structure of zeros.
LEMMA InitInv == Init => Inv
<1> SUFFICES ASSUME Init PROVE Inv OBVIOUS
<1>1. NoOutcome \in Outcomes
  BY DEF NoOutcome, Outcomes, Routes
<1>2. TypeOK
  <2>1. /\ required \in [Features -> SUBSET Fields] /\ warned \in [Features -> SUBSET Fields]
        /\ ops \in 0..MaxOps
    BY DEF Init
  <2>2. wanted \subseteq Features /\ direct \in BOOLEAN /\ forced \in BOOLEAN /\ closed \in BOOLEAN
    BY DEF Init
  <2>3. started \in 0..2 /\ opened \in 0..2
    BY DEF Init
  <2> QED BY <1>1, <2>1, <2>2, <2>3 DEF Init, TypeOK, Methods, ErrorMethods
<1>3. Progress /\ Serving /\ Decided
  BY DEF Init, Progress, Serving, Decided
<1>4. Shown /\ AskedWhatItHas /\ WantedIsServed
  BY DEF Init, NoOutcome, Shown, AskedWhatItHas, WantedIsServed
<1> QED BY <1>2, <1>3, <1>4 DEF Inv, Lifecycle

\* A call that enters by glibtop_init_r, for whatever task it then goes on with.
LEMMA EnterStep ==
  ASSUME Inv, NEW fs \in SUBSET Features, NEW fl, NEW next,
         Enter, InitStruct(fs, fl), Continue(fl, next),
         \/ task' \in Features /\ next = "get" /\ "NO_OPEN" \notin fl
         \/ task' = "init" /\ next = "app"
         \/ task' = "quit" /\ next = "quit" /\ "NO_OPEN" \notin fl,
         closed' \in BOOLEAN,
         UNCHANGED <<errorMethod, required, link, forced, started, opened, warned,
                     last>>
  PROVE  Inv'
<1> USE InitStructStep
<1>1. TypeOK'
  <2>1. /\ pc' \in {"app", "open", "get", "quit"} /\ task' \in Features \cup {"init", "quit"}
        /\ ops' \in 0..MaxOps
    BY DEF Inv, TypeOK, Enter, Continue
  <2>2. flags' \subseteq StateBits /\ method' \in Methods /\ features' \subseteq Features
    BY DEF Inv, TypeOK, StateBits
  <2> QED BY <2>1, <2>2 DEF Inv, TypeOK
<1>2. Progress'
  BY DEF Inv, TypeOK, Lifecycle, Progress, Enter, Continue
<1>3. Serving'
  BY DEF Inv, TypeOK, Lifecycle, Progress, Serving, Enter, Continue, RemoteFeatures
<1>4. Shown'
  BY DEF Inv, TypeOK, Lifecycle, Shown, Enter
<1>5. AskedWhatItHas' /\ WantedIsServed'
  BY DEF Inv, TypeOK, Lifecycle, Progress, Shown, Enter, AskedWhatItHas, WantedIsServed
<1> QED BY <1>1, <1>2, <1>3, <1>4, <1>5 DEF Inv, Lifecycle

-----------------------------------------------------------------------------
(* One lemma per action that does not enter by glibtop_init_r. *)

\* Setting a parameter leaves the lifecycle alone; the method may only be set
\* while it still decides something.
LEMMA SetMethodStep == ASSUME Inv, NEW m \in Methods \ {"none"}, SetMethod(m) PROVE Inv'
<1>1. TypeOK'
  BY DEF Inv, TypeOK, SetMethod, Enter
<1>2. Progress' /\ Shown'
  BY DEF Inv, Lifecycle, Progress, Shown, SetMethod, Enter
<1>3. Serving' /\ Decided'
  BY DEF Inv, Lifecycle, Progress, Serving, Decided, SetMethod, Enter
<1>4. AskedWhatItHas' /\ WantedIsServed'
  BY DEF Inv, Lifecycle, Progress, Shown, SetMethod, Enter, AskedWhatItHas, WantedIsServed
<1> QED BY <1>1, <1>2, <1>3, <1>4 DEF Inv, Lifecycle

LEMMA SetErrorMethodStep == ASSUME Inv, NEW e \in ErrorMethods, SetErrorMethod(e) PROVE Inv'
<1>1. TypeOK'
  BY DEF Inv, TypeOK, SetErrorMethod, Enter
<1>2. Progress' /\ Shown'
  BY DEF Inv, Lifecycle, Progress, Shown, SetErrorMethod, Enter
<1>3. Serving' /\ Decided'
  BY DEF Inv, Lifecycle, Serving, Decided, SetErrorMethod, Enter, RemoteFeatures
<1>4. AskedWhatItHas' /\ WantedIsServed'
  BY DEF Inv, Lifecycle, SetErrorMethod, AskedWhatItHas, WantedIsServed
<1> QED BY <1>1, <1>2, <1>3, <1>4 DEF Inv, Lifecycle

LEMMA SetRequiredStep == ASSUME Inv, NEW req \in Requirements, SetRequired(req) PROVE Inv'
<1>1. TypeOK'
  BY DEF Inv, TypeOK, SetRequired, Enter
<1>2. Progress' /\ Shown'
  BY DEF Inv, Lifecycle, Progress, Shown, SetRequired, Enter
<1>3. Serving' /\ Decided'
  BY DEF Inv, Lifecycle, Serving, Decided, SetRequired, Enter, RemoteFeatures
<1>4. AskedWhatItHas' /\ WantedIsServed'
  BY DEF Inv, Lifecycle, SetRequired, AskedWhatItHas, WantedIsServed
<1> QED BY <1>1, <1>2, <1>3, <1>4 DEF Inv, Lifecycle

\* Opening: the OPEN bit was not set, so nothing has been started yet.
LEMMA OpenStep == ASSUME Inv, Open PROVE Inv'
<1>1. TypeOK'
  <2>1. started' \in 0..2 /\ opened' \in 0..2 /\ features' \subseteq Features
    BY DEF Inv, TypeOK, Open, OneMore
  <2> QED BY <2>1 DEF Inv, TypeOK, Open, StateBits, ErrorMethods
<1>2. Progress'
  BY DEF Inv, TypeOK, Lifecycle, Progress, Open, OneMore
<1>3. Serving' /\ Decided'
  BY DEF Inv, Lifecycle, Progress, Serving, Decided, Open
<1>4. Shown' /\ AskedWhatItHas' /\ WantedIsServed'
  BY DEF Inv, Lifecycle, Open, Shown, AskedWhatItHas, WantedIsServed
<1> QED BY <1>1, <1>2, <1>3, <1>4 DEF Inv, Lifecycle

LEMMA OpenFailsStep == ASSUME Inv, OpenFails PROVE Inv'
<1>1. TypeOK'
  BY DEF Inv, TypeOK, OpenFails, StateBits, ErrorMethods, history
<1>2. Progress' /\ Serving' /\ Decided'
  BY DEF Inv, Lifecycle, Progress, Serving, Decided, OpenFails, history
<1>3. Shown' /\ AskedWhatItHas' /\ WantedIsServed'
  BY DEF Inv, Lifecycle, OpenFails, history, Shown, AskedWhatItHas, WantedIsServed
<1> QED BY <1>1, <1>2, <1>3 DEF Inv, Lifecycle

\* The server's answer: the OPEN bit is set, so there is no way back to Open.
LEMMA AskStep == ASSUME Inv, Ask PROVE Inv'
<1>1. /\ pc' \in {"sysdeps", "dead"}
      /\ pc' = "sysdeps" => features' = RemoteFeatures
      /\ features' \subseteq Features
  BY DEF Inv, TypeOK, Lifecycle, Progress, Ask, RemoteFeatures
<1>2. TypeOK'
  BY <1>1 DEF Inv, TypeOK, Ask, history
<1>3. Progress' /\ Serving' /\ Decided'
  BY <1>1 DEF Inv, Lifecycle, Progress, Serving, Decided, Ask, history, RemoteFeatures
<1>4. Shown' /\ AskedWhatItHas' /\ WantedIsServed'
  BY <1>1 DEF Inv, Lifecycle, Ask, history, Shown, AskedWhatItHas, WantedIsServed
<1> QED BY <1>2, <1>3, <1>4 DEF Inv, Lifecycle

LEMMA OpenSysdepsStep == ASSUME Inv, OpenSysdeps PROVE Inv'
<1>1. /\ flags' = flags \cup {"SYSDEPS"} /\ opened = 0 /\ opened' = 1
      /\ pc' \in {"app", "quit", "get"} /\ (pc' = "get" => task \in Features)
  BY DEF Inv, TypeOK, Lifecycle, Progress, OpenSysdeps, OneMore, AfterInit
<1>2. TypeOK'
  BY <1>1 DEF Inv, TypeOK, OpenSysdeps, StateBits
<1>3. Progress' /\ Serving' /\ Decided'
  BY <1>1 DEF Inv, Lifecycle, Progress, Serving, Decided, OpenSysdeps, RemoteFeatures
<1>4. Shown' /\ AskedWhatItHas' /\ WantedIsServed'
  BY <1>1 DEF Inv, Lifecycle, OpenSysdeps, Shown, AskedWhatItHas, WantedIsServed
<1> QED BY <1>2, <1>3, <1>4 DEF Inv, Lifecycle

\* A value was fetched.  Over the server it was one the server has; what is
\* reported once is no longer required.
LEMMA FetchStep == ASSUME Inv, Fetch PROVE Inv'
<1>1. PICK present \in SUBSET Fields : Check(present)
  BY DEF Fetch
<1>2. task \in Features /\ "SYSDEPS" \in flags /\ required[task] \in SUBSET Fields
  BY DEF Inv, TypeOK, Lifecycle, Progress, Fetch
<1>3. /\ last' \in Outcomes /\ last'.f = task
      /\ last'.route = IF ThroughServer THEN "server" ELSE "sysdeps"
  BY <1>1, <1>2 DEF Check, Outcomes, Routes
<1>4. pc' \in {"app", "dead"}
  BY <1>1 DEF Check
<1>5. /\ required' \in [Features -> SUBSET Fields] /\ warned' \in [Features -> SUBSET Fields]
      /\ \A f \in Features : required'[f] \cap warned'[f] = {}
  <2>1. required' = [required EXCEPT ![task] = @ \ Forgotten(present)]
    BY <1>1 DEF Check
  <2>2. \/ warned' = warned
        \/ /\ warned' = [warned EXCEPT ![task] = @ \cup (required[task] \ present)]
           /\ Forgotten(present) = required[task] \ present
    BY <1>1 DEF Check, Forgotten
  <2>3. /\ required \in [Features -> SUBSET Fields] /\ warned \in [Features -> SUBSET Fields]
        /\ \A f \in Features : required[f] \cap warned[f] = {}
    BY DEF Inv, TypeOK, Lifecycle, Shown
  <2> QED BY <1>2, <2>1, <2>2, <2>3
<1>6. TypeOK'
  BY <1>3, <1>4, <1>5 DEF Inv, TypeOK, Fetch
<1>7. Progress' /\ Serving' /\ Decided'
  BY <1>2, <1>4 DEF Inv, Lifecycle, Progress, Serving, Decided, Fetch, RemoteFeatures
<1>8. Shown' /\ WantedIsServed'
  BY <1>2, <1>3, <1>5 DEF Inv, Lifecycle, Shown, Fetch, WantedIsServed
<1>9. AskedWhatItHas'
  <2>1. ThroughServer /\ method = "pipe" => task \in ServerFeatures
    BY DEF Inv, Lifecycle, Serving, Fetch, ThroughServer, RemoteFeatures
  <2> QED BY <1>3, <2>1 DEF AskedWhatItHas, Fetch
<1> QED BY <1>6, <1>7, <1>8, <1>9 DEF Inv, Lifecycle

\* A refused getter: with a server its feature is one the server has, and
\* without one nobody wanted it or somebody declined the server.
LEMMA FetchFailsStep == ASSUME Inv, FetchFails PROVE Inv'
<1>1. task \in Features /\ pc' = "dead"
  BY DEF Inv, TypeOK, Lifecycle, Progress, FetchFails
<1>2. /\ last' \in Outcomes /\ last'.f = task /\ last'.route \in {"badfd", "enosys"}
      /\ last'.route = "enosys" => ~ThroughServer /\ task \in ServerFeatures
  BY <1>1 DEF FetchFails, NoOutcome, Outcomes, Routes
<1>3. TypeOK'
  BY <1>1, <1>2 DEF Inv, TypeOK, FetchFails, struct
<1>4. Progress' /\ Serving' /\ Decided'
  BY <1>1 DEF Inv, Lifecycle, Progress, Serving, Decided, FetchFails, struct
<1>5. Shown' /\ AskedWhatItHas'
  BY <1>1, <1>2 DEF Inv, Lifecycle, Shown, FetchFails, struct, AskedWhatItHas
<1>6. WantedIsServed'
  <2>1. ~ThroughServer /\ task \in ServerFeatures => method = "direct"
    BY DEF Inv, TypeOK, Methods, Lifecycle, Progress, Serving, FetchFails, ThroughServer,
       RemoteFeatures
  <2>2. method = "direct" => direct \/ forced \/ wanted \cap ServerFeatures = {}
    BY DEF Inv, Lifecycle, Decided
  <2> QED BY <1>2, <2>1, <2>2 DEF WantedIsServed, FetchFails
<1> QED BY <1>3, <1>4, <1>5, <1>6 DEF Inv, Lifecycle

\* Closing changes only the descriptors.
LEMMA ClosePipeStep == ASSUME Inv, ClosePipe PROVE Inv'
<1>1. TypeOK'
  BY DEF Inv, TypeOK, ClosePipe, Enter
<1>2. Progress' /\ Serving' /\ Decided'
  BY DEF Inv, Lifecycle, Progress, Serving, Decided, ClosePipe, Enter, RemoteFeatures
<1>3. Shown' /\ AskedWhatItHas' /\ WantedIsServed'
  BY DEF Inv, Lifecycle, Shown, ClosePipe, Enter, AskedWhatItHas, WantedIsServed
<1> QED BY <1>1, <1>2, <1>3 DEF Inv, Lifecycle

LEMMA CloseNothingStep == ASSUME Inv, CloseNothing PROVE Inv'
<1>1. TypeOK'
  BY DEF Inv, TypeOK, CloseNothing, Enter, struct
<1>2. Progress' /\ Serving' /\ Decided'
  BY DEF Inv, Lifecycle, Progress, Serving, Decided, CloseNothing, Enter, struct, RemoteFeatures
<1>3. Shown' /\ AskedWhatItHas' /\ WantedIsServed'
  BY DEF Inv, Lifecycle, Shown, CloseNothing, Enter, struct, AskedWhatItHas, WantedIsServed
<1> QED BY <1>1, <1>2, <1>3 DEF Inv, Lifecycle

LEMMA QuitStep == ASSUME Inv, Quit PROVE Inv'
<1>1. TypeOK'
  BY DEF Inv, TypeOK, Quit, history
<1>2. Progress' /\ Serving' /\ Decided'
  BY DEF Inv, Lifecycle, Progress, Serving, Decided, Quit, history, RemoteFeatures
<1>3. Shown' /\ AskedWhatItHas' /\ WantedIsServed'
  BY DEF Inv, Lifecycle, Shown, Quit, history, AskedWhatItHas, WantedIsServed
<1> QED BY <1>1, <1>2, <1>3 DEF Inv, Lifecycle

LEMMA ExchangeFailsStep == ASSUME Inv, ExchangeFails PROVE Inv'
<1>1. TypeOK'
  BY DEF Inv, TypeOK, ExchangeFails, struct, history
<1>2. Progress' /\ Serving' /\ Decided'
  BY DEF Inv, Lifecycle, Progress, Serving, Decided, ExchangeFails, struct, history
<1>3. Shown' /\ AskedWhatItHas' /\ WantedIsServed'
  BY DEF Inv, Lifecycle, Shown, ExchangeFails, struct, history, AskedWhatItHas, WantedIsServed
<1> QED BY <1>1, <1>2, <1>3 DEF Inv, Lifecycle

\* GLIBTOP_INIT_NO_INIT makes glibtop_init_r return at once.
LEMMA CallInitStep ==
  ASSUME Inv, NEW fs \in InitFeatures, NEW fl \in SUBSET InitFlags, CallInit(fs, fl)
  PROVE  Inv'
<1>1. CASE "NO_INIT" \notin fl
  <2>1. closed' \in BOOLEAN
    BY DEF Inv, TypeOK, CallInit
  <2> QED BY <1>1, <2>1, EnterStep DEF CallInit
<1>2. CASE "NO_INIT" \in fl
  <2>1. TypeOK'
    BY <1>2 DEF Inv, TypeOK, CallInit, Enter
  <2>2. Progress' /\ Serving' /\ Decided'
    BY <1>2 DEF Inv, Lifecycle, Progress, Serving, Decided, CallInit, Enter, RemoteFeatures
  <2>3. Shown' /\ AskedWhatItHas' /\ WantedIsServed'
    BY <1>2 DEF Inv, Lifecycle, Shown, CallInit, Enter, AskedWhatItHas, WantedIsServed
  <2> QED BY <2>1, <2>2, <2>3 DEF Inv, Lifecycle
<1> QED BY <1>1, <1>2

LEMMA CallGetStep == ASSUME Inv, NEW f \in Features, CallGet(f) PROVE Inv'
<1>1. closed' \in BOOLEAN
  BY DEF Inv, TypeOK, CallGet
<1> QED BY <1>1, EnterStep DEF CallGet

LEMMA CloseSocketStep == ASSUME Inv, CloseSocket PROVE Inv'
BY EnterStep DEF CloseSocket

-----------------------------------------------------------------------------
\* The invariant is kept by every library call and every step of one.
LEMMA InvStep == Inv /\ [Next]_vars => Inv'
<1> SUFFICES ASSUME Inv, [Next]_vars PROVE Inv' OBVIOUS
<1>1. CASE UNCHANGED vars
  <2>1. TypeOK'
    BY <1>1 DEF Inv, TypeOK, vars, struct, history
  <2>2. Progress' /\ Serving' /\ Decided'
    BY <1>1 DEF Inv, Lifecycle, Progress, Serving, Decided, vars, struct, history, RemoteFeatures
  <2>3. Shown' /\ AskedWhatItHas' /\ WantedIsServed'
    BY <1>1 DEF Inv, Lifecycle, Shown, vars, struct, history, AskedWhatItHas, WantedIsServed
  <2> QED BY <2>1, <2>2, <2>3 DEF Inv, Lifecycle
<1>2. CASE Next
  BY <1>2, SetMethodStep, SetErrorMethodStep, SetRequiredStep, CallInitStep, CallGetStep,
     ClosePipeStep, CloseSocketStep, CloseNothingStep, OpenStep, OpenFailsStep, AskStep,
     OpenSysdepsStep, FetchStep, FetchFailsStep, QuitStep, ExchangeFailsStep DEF Next
<1> QED BY <1>1, <1>2

LEMMA InvAlways == Spec => []Inv
BY InitInv, InvStep, PTL DEF Spec

\* Every variable of the structure keeps its type; no bit outside
\* GLIBTOP_SYSDEPS_ALL gets into its features.
THEOREM TypeCorrect == Spec => []TypeOK
<1>1. Inv => TypeOK BY DEF Inv
<1> QED BY <1>1, InvAlways, PTL

\* One structure starts one server and opens the sysdeps directory once, in
\* spite of the recursion between glibtop_open_l and glibtop_init_r.
THEOREM OneServerCorrect == Spec => []OneServer
<1>1. Inv => OneServer
  BY DEF Inv, TypeOK, Lifecycle, Progress, OneServer
<1> QED BY <1>1, InvAlways, PTL

\* No value comes from a sysdeps directory that has not been opened.
THEOREM SysdepsReadyCorrect == Spec => []SysdepsReady
<1>1. Inv => SysdepsReady
  BY DEF Inv, Lifecycle, Progress, Shown, SysdepsReady
<1> QED BY <1>1, InvAlways, PTL

\* The setuid server is started only for a feature that needs it.
THEOREM ServerOnlyIfNeededCorrect == Spec => []ServerOnlyIfNeeded
<1>1. Inv => ServerOnlyIfNeeded
  BY DEF Inv, TypeOK, Lifecycle, Progress, Decided, ServerOnlyIfNeeded
<1> QED BY <1>1, InvAlways, PTL

\* The setuid server is asked only for the features it answered it has.
THEOREM AskedWhatItHasCorrect == Spec => []AskedWhatItHas
<1>1. Inv => AskedWhatItHas
  BY DEF Inv, Lifecycle
<1> QED BY <1>1, InvAlways, PTL

\* A feature the structure was initialised for is never refused with ENOSYS.
THEOREM WantedIsServedCorrect == Spec => []WantedIsServed
<1>1. Inv => WantedIsServed
  BY DEF Inv, Lifecycle
<1> QED BY <1>1, InvAlways, PTL

\* GLIBTOP_ERROR_METHOD_WARN_ONCE reports a missing field once.
THEOREM WarnOnceCorrect == Spec => WarnOnce
<1> DEFINE Once == pc = "get" /\ pc' = "app" /\ errorMethod = "warnOnce" /\ last'.report = "warn"
                     => last'.missing \cap warned[task] = {}
<1>1. Inv /\ [Next]_vars => [Once]_vars
  <2> SUFFICES ASSUME Inv, Next, pc = "get", pc' = "app" PROVE last'.missing \cap warned[task] = {}
    OBVIOUS
  <2>1. Fetch
    BY DEF Next, SetMethod, SetErrorMethod, SetRequired, CallInit, CallGet, ClosePipe,
       CloseSocket, CloseNothing, Open, OpenFails, Ask, OpenSysdeps, FetchFails, Quit,
       ExchangeFails, Enter
  <2>2. PICK present \in SUBSET Fields : Check(present)
    BY <2>1 DEF Fetch
  <2>3. last'.missing = required[task] \ present
    BY <2>2 DEF Check
  <2>4. required[task] \cap warned[task] = {}
    BY DEF Inv, Lifecycle, Progress, Shown
  <2> QED BY <2>3, <2>4
<1>2. Spec => [][Once]_vars
  BY <1>1, InvAlways, PTL DEF Spec
<1> QED BY <1>2 DEF WarnOnce
-----------------------------------------------------------------------------
(* The structure implements Service. *)

\* What the application sees, by how far initialisation has come.
LEMMA StageIs ==
  /\ pc = "dead" => serviceStage = "over"
  /\ pc # "dead" /\ "OPEN" \notin flags => serviceStage = "unopened"
  /\ pc # "dead" /\ "OPEN" \in flags /\ "SERVER" \notin flags => serviceStage = "local"
  /\ pc # "dead" /\ "OPEN" \in flags /\ "SERVER" \in flags =>
       serviceStage = IF pc = "ask" THEN "connecting" ELSE IF link = "open" THEN "served" ELSE "closed"
BY DEF serviceStage

LEMMA NextStageIs ==
  /\ pc' = "dead" => serviceStage' = "over"
  /\ pc' # "dead" /\ "OPEN" \notin flags' => serviceStage' = "unopened"
  /\ pc' # "dead" /\ "OPEN" \in flags' /\ "SERVER" \notin flags' => serviceStage' = "local"
  /\ pc' # "dead" /\ "OPEN" \in flags' /\ "SERVER" \in flags' =>
       serviceStage' = IF pc' = "ask" THEN "connecting" ELSE IF link' = "open" THEN "served" ELSE "closed"
BY DEF serviceStage

\* Setting a parameter, closing nothing and initialising leave what was opened
\* alone: the INIT bit guards the features, the OPEN bit the method.
LEMMA ServiceStutter ==
  ASSUME Inv, pc = "app", pc' \in {"app", "open", "get", "quit"},
         flags' \in {flags, flags \cup {"INIT"}},
         "OPEN" \in flags => UNCHANGED <<method, features>>,
         UNCHANGED <<link, last>>
  PROVE  UNCHANGED SV!svcVars
<1>1. UNCHANGED serviceStage
  BY StageIs, NextStageIs
<1>2. UNCHANGED servicePeer
  BY DEF servicePeer, Inv, Lifecycle, Progress
<1>3. serviceStage \in {"served", "closed"} => features' = features
  BY StageIs
<1>4. ("SYSDEPS" \in flags') <=> ("SYSDEPS" \in flags)
  OBVIOUS
<1> QED BY <1>1, <1>2, <1>3, <1>4 DEF SV!svcVars

\* glibtop_init_r before the structure is opened, or after.
LEMMA ServiceEnter ==
  ASSUME Inv, NEW fs, NEW fl, InitStruct(fs, fl)
  PROVE  /\ flags' \in {flags, flags \cup {"INIT"}}
         /\ "OPEN" \in flags => UNCHANGED <<method, features>>
BY DEF Inv, Lifecycle, Progress, InitStruct

\* The process ends, and the structure with it.
LEMMA ServiceDies ==
  ASSUME pc # "dead", pc' = "dead",
         ("SYSDEPS" \in flags') <=> ("SYSDEPS" \in flags),
         UNCHANGED <<servicePeer, last>>
  PROVE  SV!Die
<1>1. serviceStage # "over" /\ serviceStage' = "over"
  BY StageIs, NextStageIs
<1> QED BY <1>1 DEF SV!Die

\* A getter is answered by the one whom the stage and the feature name.
LEMMA ServiceReply ==
  ASSUME Inv, pc = "get", UNCHANGED <<flags, method, features, link>>,
         last'.f = task,
         \/ pc' \in {"app", "dead"} /\ (ThroughServer => link = "open")
              /\ (~ThroughServer => task \notin ServerFeatures)
              /\ last'.route = IF ThroughServer THEN "server" ELSE "sysdeps"
         \/ pc' = "dead" /\ ThroughServer /\ link # "open" /\ last'.route = "badfd"
         \/ pc' = "dead" /\ ~ThroughServer /\ task \in ServerFeatures /\ last'.route = "enosys"
  PROVE  SV!Reply(task)
<1> DEFINE has == IF serviceStage \in {"served", "closed"} THEN features ELSE {}
<1>1. /\ "SYSDEPS" \in flags /\ "OPEN" \in flags
      /\ serviceStage = IF "SERVER" \notin flags THEN "local"
                        ELSE IF link = "open" THEN "served" ELSE "closed"
  BY StageIs DEF Inv, Lifecycle, Progress
<1>2. task \in has <=> ThroughServer
  BY <1>1 DEF ThroughServer
<1>3. last'.route = SV!Route(task)
  BY <1>1, <1>2 DEF SV!Route, ThroughServer
<1>4. pc' = "app" => UNCHANGED serviceStage /\ has' = has
  BY <1>1, NextStageIs
<1>5. pc' = "dead" => serviceStage' = "over" /\ has' = {}
  BY NextStageIs
<1>6. UNCHANGED servicePeer
  BY DEF servicePeer
<1>7. pc' = "app" => SV!Route(task) \in {"server", "sysdeps"}
  BY <1>3
<1>8. <<last.f, last.route>>' = <<task, SV!Route(task)>>
  BY <1>3
<1>9. pc' \in {"app", "dead"}
  OBVIOUS
<1> QED BY <1>1, <1>4, <1>5, <1>6, <1>7, <1>8, <1>9 DEF SV!Reply

\* Each library call, and each step of one, is a step of Service or none.
LEMMA ServiceStep ==
  ASSUME Inv, [Next]_vars
  PROVE  [SV!SvcNext]_(SV!svcVars)
<1>1. CASE UNCHANGED vars
  BY <1>1 DEF vars, struct, history, SV!svcVars, serviceStage, servicePeer
<1>2. CASE \/ \E m \in Methods \ {"none"} : SetMethod(m)
           \/ \E e \in ErrorMethods : SetErrorMethod(e)
           \/ \E req \in Requirements : SetRequired(req)
           \/ CloseNothing
  <2>1. /\ pc = "app" /\ pc' = "app" /\ flags' = flags
        /\ "OPEN" \in flags => UNCHANGED <<method, features>>
        /\ UNCHANGED <<link, last>>
    BY <1>2 DEF SetMethod, SetErrorMethod, SetRequired, CloseNothing, Enter, struct
  <2> QED BY <2>1, ServiceStutter
<1>3. CASE \E fs \in InitFeatures, fl \in SUBSET InitFlags : CallInit(fs, fl)
  <2>1. PICK fs \in InitFeatures, fl \in SUBSET InitFlags : CallInit(fs, fl)
    BY <1>3
  <2>2. pc = "app" /\ pc' \in {"app", "open"} /\ UNCHANGED <<link, last>>
    BY <2>1 DEF CallInit, Enter, Continue
  <2>3. "NO_INIT" \notin fl => InitStruct(fs, fl)
    BY <2>1 DEF CallInit
  <2>4. "NO_INIT" \in fl => UNCHANGED <<flags, method, features>>
    BY <2>1 DEF CallInit
  <2>5. /\ flags' \in {flags, flags \cup {"INIT"}}
        /\ "OPEN" \in flags => UNCHANGED <<method, features>>
    BY <2>3, <2>4, ServiceEnter
  <2> QED BY <2>2, <2>5, ServiceStutter
<1>4. CASE (\E f \in Features : CallGet(f)) \/ CloseSocket
  <2>1. PICK fs : InitStruct(fs, {})
    BY <1>4 DEF CallGet, CloseSocket
  <2>2. pc = "app" /\ pc' \in {"open", "get", "quit"} /\ UNCHANGED <<link, last>>
    BY <1>4 DEF CallGet, CloseSocket, Enter, Continue
  <2> QED BY <2>1, <2>2, ServiceEnter, ServiceStutter
<1>5. CASE ClosePipe
  <2>1. /\ pc = "app" /\ UNCHANGED <<flags, method, features, last>>
        /\ pc' = "dead" \/ (pc' = "app" /\ link' = "closed")
    BY <1>5 DEF ClosePipe, Enter
  <2>2. UNCHANGED servicePeer
    BY <2>1 DEF servicePeer
  <2>3. CASE pc' = "dead"
    <3>1. SV!Die
      BY <2>1, <2>2, <2>3, ServiceDies
    <3> QED BY <3>1 DEF SV!SvcNext
  <2>4. CASE pc' = "app" /\ link' = "closed"
    <3>1. \/ serviceStage' = serviceStage
          \/ serviceStage = "served" /\ serviceStage' = "closed"
      BY <2>1, <2>4, StageIs, NextStageIs
    <3>2. SV!HangUp \/ UNCHANGED SV!svcVars
      BY <2>1, <2>2, <3>1 DEF SV!HangUp, SV!svcVars
    <3> QED BY <3>2 DEF SV!SvcNext
  <2> QED BY <2>1, <2>3, <2>4
<1>6. CASE Quit
  <2>1. /\ pc = "quit" /\ UNCHANGED <<flags, method, features, last>>
        /\ pc' = "dead" \/ (pc' = "app" /\ link' = "closed")
    BY <1>6 DEF Quit, history
  <2>2. UNCHANGED servicePeer
    BY <2>1 DEF servicePeer
  <2>3. CASE pc' = "dead"
    <3>1. SV!Die
      BY <2>1, <2>2, <2>3, ServiceDies
    <3> QED BY <3>1 DEF SV!SvcNext
  <2>4. CASE pc' = "app" /\ link' = "closed"
    <3>1. \/ serviceStage' = serviceStage
          \/ serviceStage = "served" /\ serviceStage' = "closed"
      BY <2>1, <2>4, StageIs, NextStageIs
    <3>2. SV!HangUp \/ UNCHANGED SV!svcVars
      BY <2>1, <2>2, <3>1 DEF SV!HangUp, SV!svcVars
    <3> QED BY <3>2 DEF SV!SvcNext
  <2> QED BY <2>1, <2>3, <2>4
<1>7. CASE Open
  <2>1. /\ pc = "open" /\ "OPEN" \notin flags /\ "SERVER" \notin flags
        /\ UNCHANGED <<method, last>>
        /\ ("SYSDEPS" \in flags') <=> ("SYSDEPS" \in flags)
    BY <1>7 DEF Open, Inv, Lifecycle, Progress
  <2>2. serviceStage = "unopened" /\ servicePeer = "nobody"
    BY <2>1, StageIs DEF servicePeer
  <2>3. CASE method = "direct"
    <3>1. pc' = "sysdeps" /\ "OPEN" \in flags' /\ "SERVER" \notin flags'
      BY <1>7, <2>1, <2>3 DEF Open
    <3>2. serviceStage' = "local" /\ servicePeer' = "nobody"
      BY <3>1, NextStageIs DEF servicePeer
    <3> QED BY <2>1, <2>2, <3>2 DEF SV!OpenLocal, SV!SvcNext
  <2>4. CASE method # "direct"
    <3>1. pc' = "ask" /\ "OPEN" \in flags' /\ "SERVER" \in flags'
      BY <1>7, <2>1, <2>4 DEF Open
    <3>2. serviceStage' = "connecting" /\ servicePeer' \in {"setuid", "daemon"}
      BY <3>1, NextStageIs DEF servicePeer
    <3> QED BY <2>1, <2>2, <3>2 DEF SV!Connect, SV!SvcNext
  <2> QED BY <2>3, <2>4
<1>8. CASE OpenFails
  <2>1. /\ pc = "open" /\ pc' = "dead" /\ UNCHANGED <<method, last>>
        /\ "SERVER" \notin flags /\ "SERVER" \notin flags'
        /\ ("SYSDEPS" \in flags') <=> ("SYSDEPS" \in flags)
    BY <1>8 DEF OpenFails, history, Inv, Lifecycle, Progress
  <2>2. UNCHANGED servicePeer
    BY <2>1 DEF servicePeer
  <2>3. SV!Die
    BY <2>1, <2>2, ServiceDies
  <2> QED BY <2>3 DEF SV!SvcNext
<1>9. CASE Ask
  <2>1. /\ pc = "ask" /\ "OPEN" \in flags /\ "SERVER" \in flags
        /\ UNCHANGED <<flags, method, link, last>>
        /\ pc' = "dead" \/ (pc' = "sysdeps" /\ features' = RemoteFeatures)
    BY <1>9 DEF Ask, history, Inv, Lifecycle, Progress
  <2>2. UNCHANGED servicePeer
    BY <2>1 DEF servicePeer
  <2>3. CASE pc' = "dead"
    <3>1. SV!Die
      BY <2>1, <2>2, <2>3, ServiceDies
    <3> QED BY <3>1 DEF SV!SvcNext
  <2>4. CASE pc' = "sysdeps" /\ features' = RemoteFeatures
    <3>1. serviceStage = "connecting" /\ serviceStage' = IF link = "open" THEN "served" ELSE "closed"
      BY <2>1, <2>4, StageIs, NextStageIs
    <3>2. link = "open"
      BY <2>1 DEF Inv, Lifecycle, Progress
    <3>3. RemoteFeatures = IF servicePeer = "setuid" THEN ServerFeatures ELSE Features
      BY <2>1 DEF RemoteFeatures, servicePeer
    <3> QED BY <2>1, <2>2, <2>4, <3>1, <3>2, <3>3 DEF SV!Agree, SV!SvcNext
  <2> QED BY <2>1, <2>3, <2>4
<1>10. CASE OpenSysdeps
  <2>1. /\ pc = "sysdeps" /\ pc' \in {"app", "get", "quit"}
        /\ "OPEN" \in flags /\ "SYSDEPS" \notin flags /\ flags' = flags \cup {"SYSDEPS"}
        /\ UNCHANGED <<method, features, link, last>>
    BY <1>10 DEF OpenSysdeps, AfterInit, Inv, Lifecycle, Progress
  <2>2. UNCHANGED <<serviceStage, servicePeer>>
    BY <2>1, StageIs, NextStageIs DEF servicePeer
  <2>3. serviceStage \in {"local", "served"}
    BY <2>1, StageIs DEF Inv, Lifecycle, Progress
  <2> QED BY <2>1, <2>2, <2>3 DEF SV!OpenDirectory, SV!SvcNext
<1>11. CASE Fetch \/ FetchFails
  <2>1. pc = "get" /\ task \in Features /\ UNCHANGED <<flags, method, features, link>>
    BY <1>11 DEF Fetch, FetchFails, struct, Inv, Lifecycle, Progress
  <2>2. CASE Fetch
    <3>1. /\ last'.f = task /\ last'.route = IF ThroughServer THEN "server" ELSE "sysdeps"
          /\ pc' \in {"app", "dead"}
      BY <2>2 DEF Fetch, Check
    <3>2. (ThroughServer => link = "open") /\ (~ThroughServer => task \notin ServerFeatures)
      BY <2>2 DEF Fetch
    <3> QED BY <2>1, <3>1, <3>2, ServiceReply DEF SV!SvcNext
  <2>3. CASE FetchFails
    <3>1. /\ last'.f = task /\ pc' = "dead"
          /\ \/ ThroughServer /\ link # "open" /\ last'.route = "badfd"
             \/ ~ThroughServer /\ task \in ServerFeatures /\ last'.route = "enosys"
      BY <2>3 DEF FetchFails, NoOutcome
    <3> QED BY <2>1, <3>1, ServiceReply DEF SV!SvcNext
  <2> QED BY <1>11, <2>2, <2>3
<1>12. CASE ExchangeFails
  <2>1. pc # "dead" /\ pc' = "dead" /\ UNCHANGED <<flags, method, last>>
    BY <1>12 DEF ExchangeFails, struct, history
  <2>2. UNCHANGED servicePeer
    BY <2>1 DEF servicePeer
  <2>3. SV!Die
    BY <2>1, <2>2, ServiceDies
  <2> QED BY <2>3 DEF SV!SvcNext
<1> QED BY <1>1, <1>2, <1>3, <1>4, <1>5, <1>6, <1>7, <1>8, <1>9, <1>10, <1>11, <1>12 DEF Next

\* One structure is opened once and for good, and who answers a getter follows from
\* the feature and what the structure was opened to: for any features, server
\* command and number of calls, a structure implements Service (open.c:43-160).
THEOREM ServiceCorrect == Spec => ImplementsService
<1>1. Init => SV!SvcInit
  BY DEF Init, NoOutcome, SV!SvcInit, serviceStage, servicePeer
<1>2. Inv /\ [Next]_vars => [SV!SvcNext]_(SV!svcVars)
  BY ServiceStep
<1> QED
  BY <1>1, <1>2, InvAlways, PTL DEF Spec, ImplementsService, SV!SvcSpec
=============================================================================
