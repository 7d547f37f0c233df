----------------------------- MODULE GetterCall -----------------------------
(***************************************************************************)
(* One process that calls the getters of one system, one after the other:  *)
(* the setuid or setgid server with the getters whose names end in _p, or  *)
(* a program with those that end in _s.  It starts as glibtop_open_p and   *)
(* main of the server do; each step of a call is a step of the skeleton    *)
(* the getter was translated to.                                           *)
(*                                                                         *)
(* The process asked about can end at any time.  Once an access has found  *)
(* it gone, every later one of this call does.                             *)
(***************************************************************************)
EXTENDS CygwinGetters, DarwinGetters, SolarisGetters, AixGetters, FiniteSets, SequencesExt

CONSTANTS
  Systems,      \* systems whose getters are called
  Rounds        \* rounds the loops of a call make at most, all of them together

AllSystems == {"linux", "cygwin", "freebsd", "bsd", "openbsd", "darwin", "solaris", "aix"}

ASSUME GetterCallAssumption == Systems \subseteq AllSystems /\ Rounds \in Nat \ {0}

Code(s) ==
  CASE s = "linux" -> Linux [] s = "cygwin" -> Cygwin [] s = "freebsd" -> FreeBsd [] s = "bsd" -> Bsd
    [] s = "openbsd" -> OpenBsd [] s = "darwin" -> Darwin [] s = "solaris" -> Solaris [] s = "aix" -> Aix

\* What libgtop_server is installed with: "uid" of root, or "gid" of a group that may
\* read the kernel's memory.  Cygwin has no server.
Installed(s) == CASE s = "linux" -> "uid" [] s = "cygwin" -> "none" [] OTHER -> "gid"

\* Which id glibtop_suid_enter and glibtop_suid_leave change.
Changes(s) == IF s \in {"linux", "darwin", "solaris"} THEN "uid" ELSE "gid"

VARIABLES
  sys,        \* the system
  uid, gid,   \* real, effective and saved: the "user" 's, or those of the "file"
  phase,      \* "open" and "main" of the server, "idle", "run", "done", "dead"
  getter,     \* the one called last
  todo,       \* what is left of it
  facts,      \* facts of the machine the call has asked about, with their values
  gone,       \* the process asked about was found gone
  failed,     \* why the last access that failed did
  held,       \* what was taken and not given back
  lost,       \* taken again before it was given back
  wild,       \* given back without being held
  put,        \* fields of the buffer that have the right values
  flagged,    \* those it says are valid
  zeroed,     \* memset was reached
  counted,    \* number or size were set
  pointer,    \* the memory returned, or "none"
  inside,     \* between enter and leave
  began,      \* inside, when the call began
  rounds,     \* rounds its loops have made
  refusedId   \* the system refused to change an id

ids == <<uid, gid>>
buffer == <<put, flagged, zeroed, counted>>
resources == <<held, lost, wild>>
call == <<sys, getter, began>>
vars == <<call, ids, phase, todo, facts, gone, failed, resources, buffer, pointer, inside, refusedId, rounds>>

Ids == [real : {"user", "file"}, eff : {"user", "file"}, saved : {"user", "file"}]
Started(installed) == [real |-> "user", eff |-> IF installed THEN "file" ELSE "user",
                       saved |-> IF installed THEN "file" ELSE "user"]

Causes == {"gone", "other", "refused", "bad"}
Phases == {"open", "main", "idle", "run", "done", "dead"}

TypeOK ==
  /\ sys \in Systems /\ uid \in Ids /\ gid \in Ids /\ phase \in Phases
  /\ gone \in BOOLEAN /\ wild \in BOOLEAN /\ zeroed \in BOOLEAN /\ counted \in BOOLEAN
  /\ inside \in BOOLEAN /\ began \in BOOLEAN /\ refusedId \in BOOLEAN
  /\ failed \in Causes \cup {"none", "id"} /\ rounds \in 0..Rounds

Init ==
  /\ sys \in Systems
  /\ uid = Started(Installed(sys) = "uid") /\ gid = Started(Installed(sys) = "gid")
  /\ phase = IF Installed(sys) = "none" THEN "idle" ELSE "open"
  /\ getter = "none" /\ todo = <<>> /\ facts = {}
  /\ gone = FALSE /\ failed = "none" /\ held = {} /\ lost = {} /\ wild = FALSE
  /\ put = {} /\ flagged = {} /\ zeroed = FALSE /\ counted = FALSE /\ pointer = "none"
  /\ inside = FALSE /\ began = FALSE /\ refusedId = FALSE /\ rounds = 0

-----------------------------------------------------------------------------
(* The ids.                                                                *)

\* What getuid and geteuid, or those for the group, gave before anything was changed.
FileId(kind) == IF Installed(sys) = kind THEN "file" ELSE "user"

\* setreuid and setregid save the new effective id; setegid changes it alone.
SetBoth(r, e) == [real |-> r, eff |-> e, saved |-> e]
SetEff(id, e) == [id EXCEPT !.eff = e]

\* One who is not root sets what he has.
Owned(id, new) == {new.real, new.eff} \subseteq {id.real, id.eff, id.saved}
Allowed(id, new) == (Installed(sys) = "uid" /\ uid.eff = "file") \/ Owned(id, new)

\* The user's id, and then the group's, or the process exits.
GivesUp(newUid, newGid, next) ==
  \/ /\ Allowed(uid, newUid) /\ uid' = newUid
     /\ \/ Allowed(gid, newGid) /\ gid' = newGid /\ phase' = next /\ UNCHANGED failed
        \/ UNCHANGED gid /\ phase' = "dead" /\ failed' = "id"
  \/ UNCHANGED ids /\ phase' = "dead" /\ failed' = "id"

\* Mutant: the arguments of setreuid and setregid are exchanged.
DropPrivilegesSwapped(next) ==
  GivesUp(SetBoth("user", FileId("uid")), SetBoth("user", FileId("gid")), next)
\* Mutant: setreuid (uid, uid) and setregid (gid, gid).
DropPrivilegesForGood(next) == GivesUp(SetBoth("user", "user"), SetBoth("user", "user"), next)

\* setreuid (euid, uid) and setregid (egid, gid).
DropPrivileges(next) ==
  GivesUp(SetBoth(FileId("uid"), "user"), SetBoth(FileId("gid"), "user"), next)

\* glibtop_open_p opens the kernel's memory, where it has to, and gives up what it
\* was installed with.
OpenP ==
  /\ phase = "open"
  /\ \/ sys # "aix" /\ DropPrivileges("main")
     \/ sys = "aix" /\ GivesUp(SetEff(uid, "user"), SetEff(gid, "user"), "main")
     \/ sys \notin {"linux", "darwin", "solaris"} /\ phase' = "dead" /\ failed' = "refused" /\ UNCHANGED ids
  /\ UNCHANGED <<call, todo, facts, gone, resources, buffer, pointer, inside, refusedId, rounds>>

\* main gives it up again, with the ids it had asked for before glibtop_open_p.
Main ==
  /\ phase = "main" /\ DropPrivileges("idle")
  /\ UNCHANGED <<call, todo, facts, gone, resources, buffer, pointer, inside, refusedId, rounds>>

-----------------------------------------------------------------------------
(* A call. *)

Begin(g) ==
  /\ phase = "idle" /\ phase' = "run"
  /\ getter' = g /\ todo' = Code(sys)[g].body /\ began' = inside
  /\ UNCHANGED <<sys, ids, facts, gone, failed, resources, buffer, pointer, inside, refusedId, rounds>>

\* The memory returned is the caller's.
Finish(r) ==
  /\ phase' = "done" /\ todo' = <<>> /\ pointer' = r /\ held' = held \ {r} /\ rounds' = 0
  /\ UNCHANGED <<call, ids, facts, gone, failed, lost, wild, buffer, inside, refusedId>>

\* The caller has what it wanted.  What is known of the call is forgotten; the ids
\* stay as the call left them.
Forget ==
  /\ phase = "done" /\ phase' = "idle" /\ getter' = "none" /\ began' = FALSE
  /\ facts' = {} /\ gone' = FALSE /\ failed' = "none" /\ held' = {} /\ lost' = {} /\ wild' = FALSE
  /\ put' = {} /\ flagged' = {} /\ zeroed' = FALSE /\ counted' = FALSE /\ pointer' = "none"
  /\ UNCHANGED <<sys, ids, todo, inside, refusedId, rounds>>

node == Head(todo)
Runs(op) == phase = "run" /\ todo # <<>> /\ node.op = op

\* The steps from the first op on, and those behind it.
From(s, op) == SubSeq(s, SelectInSeq(s, LAMBDA n : n.op = op), Len(s))
Behind(s, op) == Tail(From(s, op))

FallsOff == phase = "run" /\ todo = <<>> /\ Finish("none")

ReturnStep ==
  /\ Runs("return")
  /\ IF \E i \in DOMAIN todo : todo[i].op = "end"
     THEN /\ todo' = Behind(todo, "end")
          /\ UNCHANGED <<call, ids, phase, facts, gone, failed, resources, buffer, pointer,
                         inside, refusedId, rounds>>
     ELSE Finish(node.arg)

DieStep ==
  /\ Runs("die") /\ phase' = "dead" /\ todo' = <<>>
  /\ UNCHANGED <<call, ids, facts, gone, failed, resources, buffer, pointer, inside, refusedId, rounds>>

\* A loop makes one more round.
LoopStep ==
  /\ Runs("loop") /\ rounds < Rounds
  /\ todo' = node.a \o todo /\ rounds' = rounds + 1
  /\ UNCHANGED <<call, ids, phase, facts, gone, failed, resources, buffer, pointer, inside, refusedId>>

\* Where the call goes on, whatever it holds.
Jump ==
  /\ phase = "run" /\ todo # <<>>
  /\ \/ node.op = "do" /\ todo' = node.a \o Tail(todo)
     \/ node.op \in {"end", "loop"} /\ todo' = Tail(todo)
     \/ node.op = "either" /\ \E body \in {node.a, node.b} : todo' = body \o Tail(todo)
     \/ node.op = "held" /\ todo' = (IF node.arg \in held THEN node.a ELSE node.b) \o Tail(todo)
     \/ node.op = "skip" /\ todo' = From(todo, "loop")
     \/ node.op = "break" /\ todo' = Behind(todo, "loop")
     \/ node.op = "again" /\ todo' = Head(From(todo, "loop")).a \o From(todo, "loop")
  /\ UNCHANGED <<call, ids, phase, facts, gone, failed, resources, buffer, pointer, inside,
                 refusedId, rounds>>

\* A fact is the same each time it is asked for.
AskFact ==
  /\ Runs("when")
  /\ \E value \in BOOLEAN :
       /\ <<node.arg, ~value>> \notin facts
       /\ facts' = facts \cup {<<node.arg, value>>}
       /\ todo' = (IF value THEN node.a ELSE node.b) \o Tail(todo)
  /\ UNCHANGED <<call, ids, phase, gone, failed, resources, buffer, pointer, inside, refusedId, rounds>>

Access ==
  /\ Runs("try") /\ node.arg \in Causes
  /\ \/ ~(node.arg = "gone" /\ gone) /\ todo' = node.a \o Tail(todo) /\ UNCHANGED <<gone, failed>>
     \/ /\ todo' = node.b \o Tail(todo) /\ failed' = node.arg
        /\ gone' = (gone \/ node.arg = "gone")
  /\ UNCHANGED <<call, ids, phase, facts, resources, buffer, pointer, inside, refusedId, rounds>>

-----------------------------------------------------------------------------
(* What a step does to the buffer, to what the call holds, and to the ids. *)

Of(n) == {n.a[1].arg, n.b[1].arg}

Assign ==
  /\ phase = "run" /\ todo # <<>> /\ node.op \in {"zero", "put", "derive", "set", "add", "count"}
  /\ put' = CASE node.op = "zero" -> {}
              [] node.op = "put" \/ (node.op = "derive" /\ Of(node) \subseteq put) -> put \cup {node.arg}
              [] OTHER -> put
  /\ flagged' = CASE node.op = "zero" -> {}
                  [] node.op = "set" -> {node.arg}
                  [] node.op = "add" -> flagged \cup {node.arg}
                  [] OTHER -> flagged
  /\ zeroed' = (zeroed \/ node.op = "zero")
  /\ counted' = (node.op = "count" \/ (counted /\ node.op # "zero"))
  /\ todo' = Tail(todo)
  /\ UNCHANGED <<call, ids, phase, facts, gone, failed, resources, pointer, inside, refusedId, rounds>>

TakeStep ==
  /\ Runs("take")
  /\ held' = held \cup {node.arg} /\ lost' = lost \cup (held \cap {node.arg})
  /\ todo' = Tail(todo)
  /\ UNCHANGED <<call, ids, phase, facts, gone, failed, wild, buffer, pointer, inside, refusedId, rounds>>

DropStep ==
  /\ Runs("drop")
  /\ held' = held \ {node.arg} /\ wild' = (wild \/ node.arg \notin held)
  /\ todo' = Tail(todo)
  /\ UNCHANGED <<call, ids, phase, facts, gone, failed, lost, buffer, pointer, inside, refusedId, rounds>>

UseStep ==
  /\ Runs("use")
  /\ wild' = (wild \/ node.arg \notin held) /\ todo' = Tail(todo)
  /\ UNCHANGED <<call, ids, phase, facts, gone, failed, held, lost, buffer, pointer, inside, refusedId, rounds>>

\* The id glibtop_suid.h asks for: setegid on AIX, elsewhere real and effective are
\* exchanged.
Wanted(id, real, eff) == IF sys = "aix" THEN SetEff(id, eff) ELSE SetBoth(real, eff)
Changed(real, eff) ==
  IF Changes(sys) = "uid"
  THEN LET new == Wanted(uid, real, eff) IN Allowed(uid, new) /\ uid' = new /\ UNCHANGED gid
  ELSE LET new == Wanted(gid, real, eff) IN Allowed(gid, new) /\ gid' = new /\ UNCHANGED uid

\* glibtop_suid_enter does not look at the result.
EnterStep ==
  /\ Runs("enter")
  /\ \/ Changed("user", FileId(Changes(sys))) /\ refusedId' = FALSE
     \/ UNCHANGED ids /\ refusedId' = TRUE
  /\ inside' = TRUE /\ todo' = Tail(todo)
  /\ UNCHANGED <<call, phase, facts, gone, failed, resources, buffer, pointer, rounds>>

\* glibtop_suid_leave exits when it cannot.
LeaveStep ==
  /\ Runs("leave")
  /\ \/ Changed(FileId(Changes(sys)), "user") /\ inside' = FALSE /\ todo' = Tail(todo) /\ UNCHANGED <<phase, failed>>
     \/ UNCHANGED <<ids, inside, todo>> /\ phase' = "dead" /\ failed' = "id"
  /\ UNCHANGED <<call, facts, gone, resources, buffer, pointer, refusedId, rounds>>

Step ==
  \/ FallsOff \/ ReturnStep \/ DieStep \/ LoopStep \/ Jump \/ AskFact \/ Access
  \/ Assign \/ TakeStep \/ DropStep \/ UseStep \/ EnterStep \/ LeaveStep

Ended == phase = "dead" /\ UNCHANGED vars

Next ==
  \/ OpenP \/ Main \/ (\E g \in DOMAIN Code(sys) : Begin(g)) \/ Step \/ Forget \/ Ended

\* The process runs; nothing is waited for that does not come.  What loops walk through
\* is finite.
Spec == Init /\ [][Next]_vars /\ WF_vars(OpenP) /\ WF_vars(Main) /\ WF_vars(Step)
=============================================================================
