------------------------- MODULE GetterCall_proofs -------------------------
(***************************************************************************)
(* The privileges of the server, for every set of systems, every number of *)
(* rounds a loop makes, and every order of calls.  The getters matter here *)
(* only by the steps they are made of: what is proved holds for any code   *)
(* that changes its ids through glibtop_suid_enter and glibtop_suid_leave  *)
(* alone.                                                                  *)
(***************************************************************************)
EXTENDS GetterContract, TLAPS

Serving == phase \in {"idle", "run", "done"}

\* The ids outside, as main leaves them, and those inside of the kind that changes.
Outside(kind) == SetBoth(FileId(kind), "user")
Inside == Wanted(Outside(Changes(sys)), "user", FileId(Changes(sys)))
Changing == IF Changes(sys) = "uid" THEN uid ELSE gid
Fixed == IF Changes(sys) = "uid" THEN gid ELSE uid
FixedKind == IF Changes(sys) = "uid" THEN "gid" ELSE "uid"

\* Before the first call nothing was entered.  From then on, the id that glibtop_suid.h
\* does not change is as main left it; the other is so, or the one inside, and which of
\* the two is known unless the system refused the last enter.
IdsInv ==
  /\ phase \in {"open", "main"} => ~inside
  /\ Serving =>
       /\ Fixed = Outside(FixedKind)
       /\ Changing \in {Outside(Changes(sys)), Inside}
       /\ ~inside => Changing = Outside(Changes(sys))
       /\ inside /\ ~refusedId => Changing = Inside

Inv == TypeOK /\ IdsInv

LEMMA SystemType == sys \in Systems =>
  /\ sys \in AllSystems
  /\ Changes(sys) \in {"uid", "gid"} /\ FixedKind \in {"uid", "gid"}
  /\ \A kind : FileId(kind) \in {"user", "file"}
BY GetterCallAssumption DEF Changes, FixedKind, FileId

LEMMA InitInv == Init => Inv
<1> SUFFICES ASSUME Init PROVE Inv
  OBVIOUS
<1>1. TypeOK
  <2>1. rounds \in 0..Rounds
    BY GetterCallAssumption DEF Init
  <2>2. failed \in Causes \cup {"none", "id"} /\ phase \in Phases
    BY DEF Init, Phases
  <2>3. uid \in Ids /\ gid \in Ids
    BY DEF Init, Started, Ids
  <2> QED BY <2>1, <2>2, <2>3 DEF Init, TypeOK
<1>2. IdsInv
  BY GetterCallAssumption
  DEF Init, IdsInv, Serving, Started, Fixed, FixedKind, Changing, Outside, Inside, Changes, FileId,
      Installed, SetBoth, AllSystems
<1> QED BY <1>1, <1>2 DEF Inv

\* A step that leaves the ids alone keeps what is known of them.
LEMMA QuietInv ==
  ASSUME Inv, UNCHANGED <<sys, ids, inside, refusedId>>, TypeOK',
         phase' \in {"open", "main"} => phase = phase',
         Serving' => Serving
  PROVE  Inv'
<1>1. /\ UNCHANGED <<Changes(sys), FixedKind, Fixed, Changing, Inside>>
      /\ \A kind : Outside(kind)' = Outside(kind)
  BY DEF ids, Changes, FixedKind, Fixed, Changing, Inside, Outside, FileId, Wanted
<1>2. IdsInv'
  BY <1>1 DEF Inv, IdsInv, Serving
<1> QED BY <1>2 DEF Inv

-----------------------------------------------------------------------------
(* Before the first call. *)

LEMMA IdsType ==
  ASSUME NEW r \in {"user", "file"}, NEW e \in {"user", "file"}
  PROVE  SetBoth(r, e) \in Ids /\ \A id \in Ids : SetEff(id, e) \in Ids
BY DEF SetBoth, SetEff, Ids

LEMMA GivesUpInv ==
  ASSUME TypeOK, NEW newUid \in Ids, NEW newGid \in Ids, NEW next,
         GivesUp(newUid, newGid, next)
  PROVE  /\ uid' \in Ids /\ gid' \in Ids /\ phase' \in {next, "dead"}
         /\ failed' \in Causes \cup {"none", "id"}
         /\ phase' = "dead" \/ (phase' = next /\ uid' = newUid /\ gid' = newGid)
BY DEF TypeOK, GivesUp, ids

LEMMA OpenPInv == Inv /\ OpenP => Inv'
<1> SUFFICES ASSUME Inv, OpenP PROVE Inv'
  OBVIOUS
<1>1. /\ uid' \in Ids /\ gid' \in Ids /\ phase' \in {"main", "dead"}
      /\ failed' \in Causes \cup {"none", "id"}
  <2>1. CASE sys # "aix" /\ DropPrivileges("main")
    BY <2>1, SystemType, IdsType, GivesUpInv DEF Inv, TypeOK, DropPrivileges
  <2>2. CASE sys = "aix" /\ GivesUp(SetEff(uid, "user"), SetEff(gid, "user"), "main")
    <3>1. SetEff(uid, "user") \in Ids /\ SetEff(gid, "user") \in Ids
      BY IdsType DEF Inv, TypeOK
    <3> QED BY <2>2, <3>1, GivesUpInv DEF Inv
  <2>3. CASE phase' = "dead" /\ failed' = "refused" /\ UNCHANGED ids
    BY <2>3 DEF Inv, TypeOK, ids, Causes
  <2> QED BY <2>1, <2>2, <2>3 DEF OpenP
<1>2. UNCHANGED <<sys, began, gone, wild, zeroed, counted, inside, refusedId, rounds>> /\ phase = "open"
  BY DEF OpenP, call, resources, buffer
<1>3. TypeOK'
  BY <1>1, <1>2 DEF Inv, TypeOK, Phases
<1>4. IdsInv'
  BY <1>1, <1>2 DEF Inv, IdsInv, Serving
<1> QED BY <1>3, <1>4 DEF Inv

LEMMA MainInv == Inv /\ Main => Inv'
<1> SUFFICES ASSUME Inv, Main PROVE Inv'
  OBVIOUS
<1>1. UNCHANGED <<sys, began, gone, wild, zeroed, counted, inside, refusedId, rounds>> /\ phase = "main"
  BY DEF Main, call, resources, buffer
<1>2. /\ Outside("uid") \in Ids /\ Outside("gid") \in Ids
      /\ GivesUp(Outside("uid"), Outside("gid"), "idle")
  BY SystemType, IdsType DEF Inv, TypeOK, Main, DropPrivileges, Outside
<1>3. /\ uid' \in Ids /\ gid' \in Ids /\ phase' \in {"idle", "dead"}
      /\ failed' \in Causes \cup {"none", "id"}
      /\ phase' = "dead" \/ (uid' = Outside("uid") /\ gid' = Outside("gid"))
  BY <1>2, GivesUpInv DEF Inv
<1>4. TypeOK'
  BY <1>1, <1>3 DEF Inv, TypeOK, Phases
<1>5. \A kind : Outside(kind)' = Outside(kind)
  BY <1>1 DEF Outside, FileId
<1>6. IdsInv'
  BY <1>1, <1>3, <1>5, SystemType DEF Inv, TypeOK, IdsInv, Serving, Fixed, Changing, FixedKind, Changes
<1> QED BY <1>4, <1>6 DEF Inv
-----------------------------------------------------------------------------
(* The calls and their steps. *)

LEMMA BeginInv == ASSUME Inv, NEW g, Begin(g) PROVE Inv'
<1>1. UNCHANGED <<sys, ids, inside, refusedId>> /\ phase = "idle" /\ phase' = "run"
  BY DEF Begin
<1>2. TypeOK'
  BY <1>1 DEF Inv, TypeOK, Begin, Phases, ids, resources, buffer
<1> QED BY <1>1, <1>2, QuietInv DEF Serving

LEMMA ForgetInv == Inv /\ Forget => Inv'
<1> SUFFICES ASSUME Inv, Forget PROVE Inv'
  OBVIOUS
<1>1. UNCHANGED <<sys, ids, inside, refusedId>> /\ phase = "done" /\ phase' = "idle"
  BY DEF Forget
<1>2. TypeOK'
  BY <1>1 DEF Inv, TypeOK, Forget, Phases, Causes, ids
<1> QED BY <1>1, <1>2, QuietInv DEF Serving

LEMMA FinishInv == ASSUME Inv, NEW r, phase = "run", Finish(r) PROVE Inv'
<1>1. UNCHANGED <<sys, ids, inside, refusedId>> /\ phase' = "done"
  BY DEF Finish, call
<1>2. TypeOK'
  BY <1>1, GetterCallAssumption DEF Inv, TypeOK, Finish, Phases, ids, buffer, call
<1> QED BY <1>1, <1>2, QuietInv DEF Serving

LEMMA ReturnInv == Inv /\ (FallsOff \/ ReturnStep) => Inv'
<1> SUFFICES ASSUME Inv, FallsOff \/ ReturnStep PROVE Inv'
  OBVIOUS
<1>1. CASE \E r : Finish(r)
  BY <1>1, FinishInv DEF FallsOff, ReturnStep, Runs
<1>2. CASE ReturnStep /\ ~(\E r : Finish(r))
  <2>1. UNCHANGED <<sys, ids, phase, inside, refusedId>>
    BY <1>2 DEF ReturnStep, call
  <2>2. TypeOK'
    BY <1>2, <2>1 DEF Inv, TypeOK, ReturnStep, call, ids, resources, buffer
  <2> QED BY <2>1, <2>2, QuietInv DEF Serving
<1> QED BY <1>1, <1>2 DEF FallsOff

LEMMA DieInv == Inv /\ DieStep => Inv'
<1> SUFFICES ASSUME Inv, DieStep PROVE Inv'
  OBVIOUS
<1>1. UNCHANGED <<sys, ids, inside, refusedId>> /\ phase' = "dead"
  BY DEF DieStep, call
<1>2. TypeOK'
  BY <1>1 DEF Inv, TypeOK, DieStep, Phases, ids, call, resources, buffer
<1> QED BY <1>1, <1>2, QuietInv DEF Serving

LEMMA GoesOnInv == Inv /\ (LoopStep \/ Jump \/ AskFact \/ Access) => Inv'
<1> SUFFICES ASSUME Inv, LoopStep \/ Jump \/ AskFact \/ Access PROVE Inv'
  OBVIOUS
<1>1. UNCHANGED <<sys, ids, phase, inside, refusedId, began, wild, zeroed, counted>>
  BY DEF LoopStep, Jump, AskFact, Access, call, resources, buffer
<1>2. gone' \in BOOLEAN /\ failed' \in Causes \cup {"none", "id"}
  BY DEF Inv, TypeOK, LoopStep, Jump, AskFact, Access
<1>3. rounds' \in 0..Rounds
  <2>1. CASE LoopStep
    BY <2>1, GetterCallAssumption DEF Inv, TypeOK, LoopStep
  <2>2. CASE UNCHANGED rounds
    BY <2>2 DEF Inv, TypeOK
  <2> QED BY <2>1, <2>2 DEF Jump, AskFact, Access
<1>4. TypeOK'
  BY <1>1, <1>2, <1>3 DEF Inv, TypeOK, ids
<1> QED BY <1>1, <1>4, QuietInv DEF Serving

LEMMA EffectInv == Inv /\ (Assign \/ TakeStep \/ DropStep \/ UseStep) => Inv'
<1> SUFFICES ASSUME Inv, Assign \/ TakeStep \/ DropStep \/ UseStep PROVE Inv'
  OBVIOUS
<1>1. UNCHANGED <<sys, ids, phase, inside, refusedId, began, gone, failed, rounds>>
  BY DEF Assign, TakeStep, DropStep, UseStep, call
<1>2. wild' \in BOOLEAN /\ zeroed' \in BOOLEAN /\ counted' \in BOOLEAN
  BY DEF Inv, TypeOK, Assign, TakeStep, DropStep, UseStep, resources, buffer
<1>3. TypeOK'
  BY <1>1, <1>2 DEF Inv, TypeOK, ids
<1> QED BY <1>1, <1>3, QuietInv DEF Serving

LEMMA WantedType ==
  ASSUME NEW id \in Ids, NEW r \in {"user", "file"}, NEW e \in {"user", "file"}
  PROVE  Wanted(id, r, e) \in Ids
BY IdsType DEF Wanted

\* What enter and leave ask for, from either of the two states a process can be in.
LEMMA WantedIds ==
  ASSUME TypeOK, NEW id \in {Outside(Changes(sys)), Inside}
  PROVE  /\ Wanted(id, "user", FileId(Changes(sys))) = Inside
         /\ Wanted(id, FileId(Changes(sys)), "user") = Outside(Changes(sys))
<1> DEFINE kind == Changes(sys)
<1>1. FileId(kind) \in {"user", "file"}
  BY SystemType DEF TypeOK
<1>2. CASE sys # "aix"
  BY <1>2 DEF Wanted, Inside, Outside
<1>3. CASE sys = "aix"
  <2> DEFINE In == [real |-> FileId(kind), eff |-> FileId(kind), saved |-> "user"]
             Out == [real |-> FileId(kind), eff |-> "user", saved |-> "user"]
  <2>1. Outside(kind) = Out /\ Inside = In
    BY <1>1, <1>3 DEF Outside, Inside, Wanted, SetBoth, SetEff
  <2>2. \A e \in {"user", FileId(kind)} :
          /\ SetEff(Out, e) = [real |-> FileId(kind), eff |-> e, saved |-> "user"]
          /\ SetEff(In, e) = [real |-> FileId(kind), eff |-> e, saved |-> "user"]
    BY <1>1 DEF SetEff
  <2> HIDE DEF In, Out
  <2>3. SetEff(id, FileId(kind)) = In /\ SetEff(id, "user") = Out
    BY <2>1, <2>2 DEF In, Out
  <2> QED BY <1>3, <2>1, <2>3 DEF Wanted
<1> QED BY <1>2, <1>3

LEMMA EnterInv == Inv /\ EnterStep => Inv'
<1> SUFFICES ASSUME Inv, EnterStep PROVE Inv'
  OBVIOUS
<1> USE DEF Inv
<1>1. /\ UNCHANGED <<sys, phase, began, gone, failed, wild, zeroed, counted, rounds>>
      /\ Serving /\ inside'
  BY DEF EnterStep, Runs, Serving, call, resources, buffer
<1>2. \/ UNCHANGED ids /\ refusedId' = TRUE
      \/ UNCHANGED Fixed /\ Changing' = Inside /\ refusedId' = FALSE /\ uid' \in Ids /\ gid' \in Ids
  <2>1. CASE Changed("user", FileId(Changes(sys))) /\ refusedId' = FALSE
    <3>1. Changing' = Inside /\ UNCHANGED Fixed
      BY <1>1, <2>1, WantedIds DEF Changed, Changing, Fixed, IdsInv, Changes
    <3>2. uid' \in Ids /\ gid' \in Ids
      BY <2>1, WantedType, SystemType DEF Changed, TypeOK
    <3> QED BY <2>1, <3>1, <3>2
  <2> QED BY <2>1 DEF EnterStep
<1>3. TypeOK'
  BY <1>1, <1>2 DEF TypeOK, ids
<1>4. UNCHANGED <<Inside, FixedKind, Changes(sys)>> /\ \A kind : Outside(kind)' = Outside(kind)
  BY <1>1 DEF Inside, FixedKind, Changes, Outside, FileId, Wanted
<1>5. IdsInv'
  <2>1. CASE UNCHANGED ids /\ refusedId' = TRUE
    BY <1>1, <1>4, <2>1 DEF IdsInv, Serving, ids, Fixed, Changing, Changes
  <2>2. CASE UNCHANGED Fixed /\ Changing' = Inside /\ refusedId' = FALSE
    BY <1>1, <1>4, <2>2 DEF IdsInv, Serving
  <2> QED BY <1>2, <2>1, <2>2
<1> QED BY <1>3, <1>5

LEMMA LeaveInv == Inv /\ LeaveStep => Inv'
<1> SUFFICES ASSUME Inv, LeaveStep PROVE Inv'
  OBVIOUS
<1> USE DEF Inv
<1>1. UNCHANGED <<sys, began, gone, wild, zeroed, counted, refusedId, rounds>> /\ Serving /\ phase = "run"
  BY DEF LeaveStep, Runs, Serving, call, resources, buffer
<1>2. CASE phase' = "dead" /\ failed' = "id" /\ UNCHANGED <<ids, inside>>
  <2>1. TypeOK'
    BY <1>1, <1>2 DEF TypeOK, Phases, ids
  <2>2. IdsInv'
    BY <1>2 DEF IdsInv, Serving
  <2> QED BY <2>1, <2>2
<1>3. CASE Changed(FileId(Changes(sys)), "user") /\ inside' = FALSE /\ UNCHANGED <<phase, failed>>
  <2>1. Changing' = Outside(Changes(sys)) /\ UNCHANGED Fixed
    BY <1>1, <1>3, WantedIds DEF Changed, Changing, Fixed, IdsInv, Changes
  <2>2. uid' \in Ids /\ gid' \in Ids
    BY <1>3, WantedType, SystemType DEF Changed, TypeOK
  <2>3. TypeOK'
    BY <1>1, <1>3, <2>2 DEF TypeOK
  <2>4. UNCHANGED <<Inside, FixedKind, Changes(sys)>> /\ \A kind : Outside(kind)' = Outside(kind)
    BY <1>1 DEF Inside, FixedKind, Changes, Outside, FileId, Wanted
  <2>5. IdsInv'
    BY <1>1, <1>3, <2>1, <2>4 DEF IdsInv, Serving
  <2> QED BY <2>3, <2>5
<1> QED BY <1>2, <1>3 DEF LeaveStep

LEMMA StutterInv == Inv /\ UNCHANGED vars => Inv'
<1> SUFFICES ASSUME Inv, UNCHANGED vars PROVE Inv'
  OBVIOUS
<1>1. UNCHANGED <<sys, ids, inside, refusedId, phase>>
  BY DEF vars, call
<1>2. TypeOK'
  BY <1>1 DEF Inv, TypeOK, vars, call, ids, resources, buffer
<1> QED BY <1>1, <1>2, QuietInv DEF Serving

LEMMA NextInv == Inv /\ [Next]_vars => Inv'
<1> SUFFICES ASSUME Inv, [Next]_vars PROVE Inv'
  OBVIOUS
<1>1. CASE \E g \in DOMAIN Code(sys) : Begin(g)
  BY <1>1, BeginInv
<1>2. CASE OpenP \/ Main \/ Forget \/ Ended \/ UNCHANGED vars
  BY <1>2, OpenPInv, MainInv, ForgetInv, StutterInv DEF Ended
<1>3. CASE Step
  BY <1>3, ReturnInv, DieInv, GoesOnInv, EffectInv, EnterInv, LeaveInv DEF Step
<1> QED BY <1>1, <1>2, <1>3 DEF Next

LEMMA Invariance == Spec => []Inv
BY InitInv, NextInv, PTL DEF Spec

-----------------------------------------------------------------------------

\* Every variable keeps its type, whatever the getters are made of.
THEOREM TypeCorrect == Spec => []TypeOK
<1>1. Inv => TypeOK
  BY DEF Inv
<1> QED BY <1>1, Invariance, PTL

\* From the first call on, the server has the rights of its file only between
\* glibtop_suid_enter and glibtop_suid_leave: on every system, and whichever of the
\* calls that change an id the system refuses.
THEOREM PrivilegedInsideOnlyCorrect == Spec => []PrivilegedInsideOnly
<1>1. Inv => PrivilegedInsideOnly
  BY DEF Inv, IdsInv, Serving, PrivilegedInsideOnly, Privileged, Fixed, Changing, Outside, SetBoth
<1> QED BY <1>1, Invariance, PTL

\* Outside, the rights of the file are still the real or the saved id.
LEMMA InvCanEnterAgain == Inv => CanEnterAgain
<1> SUFFICES ASSUME Inv, Serving, ~inside, FileId(Changes(sys)) = "file"
             PROVE  Owned(Changing, Wanted(Changing, "user", "file"))
  BY DEF CanEnterAgain, Serving, Changing, Allowed
<1>1. Changing = [real |-> "file", eff |-> "user", saved |-> "user"]
  BY DEF Inv, IdsInv, Outside, SetBoth
<1>2. Wanted(Changing, "user", "file").real \in {"user", "file"}
  BY <1>1 DEF Wanted, SetBoth, SetEff
<1>3. Wanted(Changing, "user", "file").eff = "file"
  BY <1>1 DEF Wanted, SetBoth, SetEff
<1> QED BY <1>1, <1>2, <1>3 DEF Owned

\* Inside, the process has them; Cygwin and Solaris have none to have.
LEMMA InvEnteredIsPrivileged ==
  ASSUME Inv, sys \notin {"cygwin", "solaris"} PROVE EnteredIsPrivileged
<1> SUFFICES ASSUME inside, ~refusedId, Serving, sys # "darwin" PROVE Privileged
  BY DEF EnteredIsPrivileged, Serving, ChangesTheOther
<1>1. Changing = Inside
  BY DEF Inv, IdsInv
<1>2. FileId(Changes(sys)) = "file"
  BY SystemType DEF Inv, TypeOK, AllSystems, FileId, Changes, Installed
<1>3. Inside.eff = "file"
  BY <1>2 DEF Inside, Wanted, SetEff, SetBoth, Outside
<1> QED BY <1>1, <1>3 DEF Changing, Privileged
=============================================================================
