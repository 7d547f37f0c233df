------------------------ MODULE GetterPaths_proofs ------------------------
(***************************************************************************)
(* The rules of GetterContract, for every number of rounds the loops of a  *)
(* getter make and every sequence of calls.  What is known of the code is  *)
(* PathsAssumption; the proof shows that each step of GetterCall takes the *)
(* stage of the call to a stage behind it, for every group of fields, and  *)
(* that between two calls nothing is left of the one before.               *)
(***************************************************************************)
EXTENDS GetterPaths, GetterCall_proofs

-----------------------------------------------------------------------------
(* Each step of a call leads to a stage behind the one it is at. *)

LEMMA StageFields ==
  ASSUME NEW w
  PROVE  /\ Stage(w).phase = phase /\ Stage(w).todo = todo
         /\ Stage(w).known = Known(facts, gone, failed) /\ Stage(w).taken = Taken(held, lost, wild)
         /\ Stage(w).buf = Buffer(w \in put, w \in flagged, flagged # {}, zeroed, counted)
         /\ Stage(w).pointer = pointer /\ Stage(w).inside = inside /\ Stage(w).began = began
BY DEF Stage, StageOf

LEMMA FinishStage == ASSUME NEW w, NEW r, Finish(r) PROVE Stage(w)' = Finished(Stage(w), r)
<1>1. /\ phase' = "done" /\ todo' = <<>> /\ pointer' = r /\ held' = held \ {r}
      /\ UNCHANGED <<facts, gone, failed, lost, wild, put, flagged, zeroed, counted, inside, began>>
  BY DEF Finish, call, buffer
<1> DEFINE kn == Known(facts, gone, failed)
           bf == Buffer(w \in put, w \in flagged, flagged # {}, zeroed, counted)
           tk == Taken(held, lost, wild)
<1>2. kn' = kn /\ bf' = bf
  BY <1>1
<1>3. tk' = Taken(tk.held \ {r}, tk.lost, tk.wild)
  <2>1. tk.held = held /\ tk.lost = lost /\ tk.wild = wild
    BY DEF Taken
  <2>2. tk' = Taken(held \ {r}, lost, wild)
    BY <1>1
  <2> HIDE DEF tk
  <2> QED BY <2>1, <2>2, Zenon
<1>4. \A c : c = Stage(w) => c.known = kn /\ c.taken = tk /\ c.buf = bf /\ c.inside = inside /\ c.began = began
  BY StageFields
<1>5. Stage(w)' = StageOf(phase', todo', kn', tk', bf', pointer', inside', began')
  BY DEF Stage
<1> HIDE DEF kn, bf, tk
<1> QED BY <1>1, <1>2, <1>3, <1>4, <1>5 DEF Finished

LEMMA EndStage == ASSUME NEW w, FallsOff PROVE Stage(w)' \in AfterEnd(Stage(w))
<1>1. Stage(w)' = Finished(Stage(w), "none")
  BY FinishStage DEF FallsOff
<1>2. Stage(w).phase = "run" /\ Stage(w).todo = <<>>
  BY DEF FallsOff, Stage, StageOf
<1> QED BY <1>1, <1>2 DEF AfterEnd

LEMMA ReturnStage == ASSUME NEW w, ReturnStep PROVE Stage(w)' \in AfterReturn(Stage(w))
<1>1. Is(Stage(w), "return") /\ Stage(w).todo = todo /\ Arg(Stage(w)) = node.arg
  BY DEF ReturnStep, Runs, node, Stage, StageOf, Is, Arg
<1>2. CASE \E i \in DOMAIN todo : todo[i].op = "end"
  BY <1>2 DEF ReturnStep, Runs, node, Stage, StageOf, AfterReturn, Is, GoesOn, Goes, call, resources, buffer
<1>3. CASE ~ \E i \in DOMAIN todo : todo[i].op = "end"
  <2>1. Stage(w)' = Finished(Stage(w), node.arg)
    BY <1>3, FinishStage DEF ReturnStep
  <2> QED BY <1>1, <1>3, <2>1 DEF AfterReturn
<1> QED BY <1>2, <1>3

LEMMA DieStage == ASSUME NEW w, DieStep PROVE Stage(w)' \in AfterDie(Stage(w))
BY DEF DieStep, Runs, node, Stage, StageOf, AfterDie, Is, Goes, call, resources, buffer

LEMMA LoopStage == ASSUME NEW w, LoopStep PROVE Stage(w)' \in AfterLoop(Stage(w))
BY DEF LoopStep, Runs, node, Stage, StageOf, AfterLoop, Is, GoesOn, Goes, call, resources, buffer

LEMMA JumpStage == ASSUME NEW w, Jump PROVE Stage(w)' \in AfterJump(Stage(w)) \cup AfterLoop(Stage(w))
<1> DEFINE c == Stage(w)
<1>1. c.phase = "run" /\ c.phase = phase /\ c.todo = todo /\ c.todo # <<>> /\ c.taken.held = held
  BY DEF Jump, Stage, StageOf, Taken
<1>2. Stage(w)' = GoesOn(c, todo')
  BY DEF Jump, Stage, StageOf, GoesOn, Goes, call, resources, buffer
<1> HIDE DEF c
<1>3. CASE node.op = "do" /\ todo' = node.a \o Tail(todo)
  BY <1>1, <1>2, <1>3 DEF node, AfterJump, OneOf, c
<1>4. CASE node.op = "end" /\ todo' = Tail(todo)
  BY <1>1, <1>2, <1>4 DEF node, AfterJump, c
<1>5. CASE node.op = "loop" /\ todo' = Tail(todo)
  BY <1>1, <1>2, <1>5 DEF node, AfterLoop, Is, c
<1>6. CASE node.op = "either" /\ \E body \in {node.a, node.b} : todo' = body \o Tail(todo)
  BY <1>1, <1>2, <1>6 DEF node, AfterJump, OneOf, c
<1>7. CASE node.op = "held" /\ todo' = (IF node.arg \in held THEN node.a ELSE node.b) \o Tail(todo)
  BY <1>1, <1>2, <1>7 DEF node, AfterJump, OneOf, c
<1>8. CASE node.op = "skip" /\ todo' = From(todo, "loop")
  BY <1>1, <1>2, <1>8 DEF node, AfterJump, c
<1>9. CASE node.op = "break" /\ todo' = Behind(todo, "loop")
  BY <1>1, <1>2, <1>9 DEF node, AfterJump, c
<1>10. CASE node.op = "again" /\ todo' = Head(From(todo, "loop")).a \o From(todo, "loop")
  BY <1>1, <1>2, <1>10 DEF node, AfterJump, c
<1> QED BY <1>3, <1>4, <1>5, <1>6, <1>7, <1>8, <1>9, <1>10 DEF Jump

LEMMA FactStage == ASSUME NEW w, AskFact PROVE Stage(w)' \in AfterFact(Stage(w))
<1>1. PICK value \in BOOLEAN :
        /\ <<node.arg, ~value>> \notin facts
        /\ facts' = facts \cup {<<node.arg, value>>}
        /\ todo' = (IF value THEN node.a ELSE node.b) \o Tail(todo)
  BY DEF AskFact
<1> DEFINE c == Stage(w)
<1>2. Stage(w)' = Learns(c, Known(facts', c.known.gone, c.known.failed), todo')
  <2>1. UNCHANGED <<phase, gone, failed, held, lost, wild, put, flagged, zeroed, counted, pointer,
                    inside, began>>
    BY DEF AskFact, call, resources, buffer
  <2> QED BY <2>1 DEF Stage, StageOf, Known, Learns
<1>3. Is(c, "when") /\ Head(c.todo) = node /\ c.known.facts = facts /\ c.todo = todo
  BY DEF AskFact, Runs, node, Stage, StageOf, Known, Is
<1> HIDE DEF c
<1>4. Stage(w)' = Learns(c, Known(c.known.facts \cup {<<Head(c.todo).arg, value>>}, c.known.gone, c.known.failed),
                         (IF value THEN Head(c.todo).a ELSE Head(c.todo).b) \o Tail(c.todo))
  BY <1>1, <1>2, <1>3, Zenon
<1>5. value \in {v \in BOOLEAN : <<Head(c.todo).arg, ~v>> \notin c.known.facts}
  BY <1>1, <1>3, Zenon
<1> QED BY <1>3, <1>4, <1>5, Zenon DEF AfterFact, c

LEMMA AccessStage == ASSUME NEW w, Access PROVE Stage(w)' \in AfterAccess(Stage(w))
BY DEF Access, Runs, node, Stage, StageOf, Known, AfterAccess, Is, Arg, Learns, OneOf, GoesOn, Goes, call, resources, buffer

\* The buffer, for one group.
LEMMA AssignBuffer ==
  ASSUME NEW w, Assign
  PROVE  /\ (w \in put') \in Right(w, node.op, node.arg, w \in put)
         /\ (w \in flagged') = ((node.arg = w /\ node.op \in {"set", "add"})
                                 \/ (w \in flagged /\ node.op \notin {"zero", "set"}))
         /\ (flagged' # {}) = (node.op \in {"set", "add"} \/ (flagged # {} /\ node.op # "zero"))
<1>1. (w \in put') \in Right(w, node.op, node.arg, w \in put)
  <2>1. CASE node.op = "zero"
    <3>1. (w \in put') = FALSE
      BY <2>1 DEF Assign
    <3> QED BY <2>1, <3>1 DEF Right
  <2>2. CASE node.op = "put"
    <3>1. (w \in put') = (w \in put \/ node.arg = w)
      BY <2>2 DEF Assign
    <3> QED BY <2>2, <3>1 DEF Right
  <2>3. CASE node.op = "derive"
    <3>1. put' = put \/ put' = put \cup {node.arg}
      BY <2>3 DEF Assign
    <3>2. (w \in put') = (w \in put) \/ (w \in put') = (w \in put \/ node.arg = w)
      BY <3>1
    <3> QED BY <2>3, <3>2 DEF Right
  <2>4. CASE node.op \in {"set", "add", "count"}
    <3>1. put' = put
      BY <2>4 DEF Assign
    <3> QED BY <2>4, <3>1 DEF Right
  <2> QED BY <2>1, <2>2, <2>3, <2>4 DEF Assign
<1>2. (w \in flagged') = ((node.arg = w /\ node.op \in {"set", "add"})
                          \/ (w \in flagged /\ node.op \notin {"zero", "set"}))
  BY DEF Assign
<1>3. (flagged' # {}) = (node.op \in {"set", "add"} \/ (flagged # {} /\ node.op # "zero"))
  BY DEF Assign
<1> QED BY <1>1, <1>2, <1>3

LEMMA AssignStage == ASSUME NEW w, Assign PROVE Stage(w)' \in AfterAssign(w, Stage(w))
<1> DEFINE c == Stage(w)
           op == node.op
           kn == Known(facts, gone, failed)
           tk == Taken(held, lost, wild)
           right == w \in put'
           flag == (Arg(c) = w /\ op \in {"set", "add"}) \/ (c.buf.flagged /\ op \notin {"zero", "set"})
           mark == op \in {"set", "add"} \/ (c.buf.marked /\ op # "zero")
           zero == c.buf.zeroed \/ op = "zero"
           count == op = "count" \/ (c.buf.counted /\ op # "zero")
<1>1. /\ c.phase = phase /\ c.phase = "run" /\ c.todo = todo /\ c.todo # <<>>
      /\ Head(c.todo).op = op /\ Arg(c) = node.arg
      /\ op \in {"zero", "put", "derive", "set", "add", "count"}
      /\ c.pointer = pointer /\ c.inside = inside /\ c.began = began
  BY DEF Assign, Stage, StageOf, node, Arg
<1>2. /\ c.buf.put = (w \in put) /\ c.buf.flagged = (w \in flagged) /\ c.buf.marked = (flagged # {})
      /\ c.buf.zeroed = zeroed /\ c.buf.counted = counted
  BY DEF Stage, StageOf, Buffer
<1>3. c.known = kn /\ c.taken = tk /\ kn' = kn /\ tk' = tk
  BY DEF Assign, Stage, StageOf, resources
<1>4. (w \in flagged') = flag
  <2>1. c.buf.flagged <=> w \in flagged
    BY <1>2
  <2>2. w \in flagged' <=> ((node.arg = w /\ op \in {"set", "add"}) \/ (w \in flagged /\ op \notin {"zero", "set"}))
    BY AssignBuffer
  <2>3. w \in flagged' <=> flag
    BY <1>1, <2>1, <2>2, Zenon
  <2> QED BY <2>3
<1>5. (flagged' # {}) = mark
  BY <1>1, <1>2, AssignBuffer
<1>6. zeroed' = zero /\ counted' = count
  BY <1>2 DEF Assign
<1>7. phase' = phase /\ todo' = Tail(todo) /\ UNCHANGED <<pointer, inside, began>>
  BY DEF Assign, call
<1>8. Stage(w)' = StageOf(phase', todo', kn', tk', Buffer(right, w \in flagged', flagged' # {}, zeroed', counted'),
                          pointer', inside', began')
  BY Zenon DEF Stage
<1>9. right \in Right(w, op, Arg(c), c.buf.put)
  BY <1>1, <1>2, AssignBuffer
<1> HIDE DEF c, op, kn, tk, right, flag, mark, zero, count
<1>10. Stage(w)' = StageOf(c.phase, Tail(c.todo), c.known, c.taken, Buffer(right, flag, mark, zero, count),
                           c.pointer, c.inside, c.began)
  BY <1>1, <1>3, <1>4, <1>5, <1>6, <1>7, <1>8, Zenon
<1> QED BY <1>1, <1>9, <1>10, Zenon DEF AfterAssign, c, op, flag, mark, zero, count

LEMMA TakeStage == ASSUME NEW w, TakeStep PROVE Stage(w)' \in AfterTake(Stage(w))
BY DEF TakeStep, Runs, node, Stage, StageOf, Taken, AfterTake, Takes, Is, Arg, call, resources, buffer

LEMMA DropStage == ASSUME NEW w, DropStep PROVE Stage(w)' \in AfterDrop(Stage(w))
BY DEF DropStep, Runs, node, Stage, StageOf, Taken, AfterDrop, Takes, Is, Arg, call, resources, buffer

LEMMA UseStage == ASSUME NEW w, UseStep PROVE Stage(w)' \in AfterUse(Stage(w))
BY DEF UseStep, Runs, node, Stage, StageOf, Taken, AfterUse, Takes, Is, Arg, call, resources, buffer

LEMMA EnterStage == ASSUME NEW w, EnterStep PROVE Stage(w)' \in AfterEnter(Stage(w))
BY DEF EnterStep, Runs, node, Stage, StageOf, AfterEnter, Is, call, resources, buffer

LEMMA LeaveStage == ASSUME NEW w, LeaveStep PROVE Stage(w)' \in AfterLeave(Stage(w))
BY DEF LeaveStep, Runs, node, Stage, StageOf, Known, AfterLeave, Is, call, resources, buffer

-----------------------------------------------------------------------------
(* The invariant. *)

\* Nothing is left of a call.
Forgotten ==
  /\ getter = "none" /\ facts = {} /\ gone = FALSE /\ failed = "none"
  /\ held = {} /\ lost = {} /\ wild = FALSE
  /\ put = {} /\ flagged = {} /\ zeroed = FALSE /\ counted = FALSE /\ pointer = "none"

\* The call is at one of its stages, whatever group is watched.
OnPath ==
  /\ getter \in DOMAIN Code(sys) /\ flagged \subseteq Watched(sys, getter)
  /\ \A w \in Watched(sys, getter) : Stage(w) \in Stages(sys, getter, w)

\* Between calls nothing is left of the last one; a call is at one of its stages; a
\* process that could not start has called nothing.
Traced ==
  \/ phase \in {"open", "main", "idle"} /\ Forgotten
  \/ phase = "dead" /\ getter = "none" /\ wild = FALSE
  \/ phase \in {"run", "done", "dead"} /\ OnPath

\* Where no getter enters, nothing is ever entered.
NeverInside == sys \in WithoutEnter => (inside = FALSE /\ began = FALSE)

PathInv == Inv /\ Traced /\ NeverInside

LEMMA InitPath == Init => PathInv
<1> SUFFICES ASSUME Init PROVE PathInv
  OBVIOUS
<1>1. Inv
  BY InitInv
<1>2. Forgotten /\ NeverInside
  BY DEF Init, Forgotten, NeverInside
<1>3. phase \in {"open", "main", "idle"}
  BY DEF Init
<1> QED BY <1>1, <1>2, <1>3 DEF PathInv, Traced

\* What TLC finds about the code, for the getter that is called.
LEMMA Certified ==
  ASSUME NEW s \in Systems, NEW g \in DOMAIN Code(s), NEW w \in Watched(s, g)
  PROVE  /\ \A within \in BOOLEAN : FirstStage(s, g, within) \in Stages(s, g, w)
         /\ \A c \in Stages(s, g, w) :
              /\ After(w, c) \subseteq Stages(s, g, w)
              /\ Obeys(s, g, w, c)
              /\ (Is(c, "set") \/ Is(c, "add")) => Arg(c) \in Watched(s, g)
BY PathsAssumption, Zenon

LEMMA StepStage == ASSUME NEW w, Step PROVE Stage(w)' \in After(w, Stage(w))
<1>1. \/ Stage(w)' \in AfterEnd(Stage(w)) \/ Stage(w)' \in AfterReturn(Stage(w))
      \/ Stage(w)' \in AfterDie(Stage(w)) \/ Stage(w)' \in AfterLoop(Stage(w))
      \/ Stage(w)' \in AfterJump(Stage(w)) \/ Stage(w)' \in AfterFact(Stage(w))
      \/ Stage(w)' \in AfterAccess(Stage(w)) \/ Stage(w)' \in AfterAssign(w, Stage(w))
      \/ Stage(w)' \in AfterTake(Stage(w)) \/ Stage(w)' \in AfterDrop(Stage(w))
      \/ Stage(w)' \in AfterUse(Stage(w)) \/ Stage(w)' \in AfterEnter(Stage(w))
      \/ Stage(w)' \in AfterLeave(Stage(w))
  BY EndStage, ReturnStage, DieStage, LoopStage, JumpStage, FactStage, AccessStage, AssignStage,
     TakeStage, DropStage, UseStage, EnterStage, LeaveStage DEF Step
<1> QED BY <1>1, Zenon DEF After

\* The system and the getter stay, and only a step that flags a group adds to the flags.
LEMMA StepFrame ==
  ASSUME Step
  PROVE  /\ UNCHANGED <<sys, getter, began>> /\ phase = "run" /\ phase' \in {"run", "done", "dead"}
         /\ \/ flagged' \subseteq flagged
            \/ /\ node.op \in {"set", "add"} /\ todo # <<>>
               /\ flagged' \subseteq flagged \cup {node.arg}
<1>1. CASE Assign
  BY <1>1 DEF Assign, call
<1>2. CASE FallsOff \/ ReturnStep \/ DieStep \/ LoopStep \/ Jump
  BY <1>2 DEF FallsOff, Finish, ReturnStep, DieStep, LoopStep, Jump, Runs, call, buffer
<1>3. CASE AskFact \/ Access \/ TakeStep \/ DropStep \/ UseStep
  BY <1>3 DEF AskFact, Access, TakeStep, DropStep, UseStep, Runs, call, buffer
<1>4. CASE EnterStep \/ LeaveStep
  BY <1>4 DEF EnterStep, LeaveStep, Runs, call, buffer
<1> QED BY <1>1, <1>2, <1>3, <1>4 DEF Step

LEMMA StepPath == ASSUME PathInv, Step, Inv' PROVE Traced' /\ NeverInside'
<1>1. /\ UNCHANGED <<sys, getter, began>> /\ phase = "run" /\ phase' \in {"run", "done", "dead"}
      /\ sys \in Systems
  BY StepFrame DEF PathInv, Inv, TypeOK
<1>2. OnPath
  BY <1>1 DEF PathInv, Traced
<1>3. \A w \in Watched(sys, getter) : Stage(w)' \in Stages(sys, getter, w)
  BY <1>1, <1>2, StepStage, Certified DEF OnPath
<1>4. "none" \in Watched(sys, getter)
  BY DEF Watched
<1>5. flagged' \subseteq Watched(sys, getter)
  <2>1. CASE flagged' \subseteq flagged
    BY <1>2, <2>1 DEF OnPath
  <2>2. CASE /\ node.op \in {"set", "add"} /\ todo # <<>>
             /\ flagged' \subseteq flagged \cup {node.arg}
    <3>1. Is(Stage("none"), "set") \/ Is(Stage("none"), "add")
      BY <1>1, <2>2, StageFields DEF Is, node
    <3>2. Arg(Stage("none")) = node.arg
      BY StageFields DEF Arg, node
    <3>3. node.arg \in Watched(sys, getter)
      BY <1>1, <1>2, <1>4, <3>1, <3>2, Certified DEF OnPath
    <3> QED BY <1>2, <2>2, <3>3 DEF OnPath
  <2> QED BY <2>1, <2>2, StepFrame
<1>6. OnPath'
  BY <1>1, <1>2, <1>3, <1>5 DEF OnPath
<1>7. NeverInside'
  <2>1. Obeys(sys, getter, "none", Stage("none")')
    BY <1>1, <1>2, <1>3, <1>4, Certified DEF OnPath
  <2>2. Stage("none")'.inside = inside' /\ Stage("none")'.began = began'
    BY DEF Stage, StageOf
  <2>3. inside' => (began' \/ sys \notin WithoutEnter)
    BY <2>1, <2>2 DEF Obeys
  <2>4. inside' \in BOOLEAN
    BY DEF Inv, TypeOK
  <2> QED BY <1>1, <2>3, <2>4 DEF PathInv, NeverInside
<1> QED BY <1>1, <1>6, <1>7 DEF Traced

LEMMA BeginPath == ASSUME PathInv, NEW g \in DOMAIN Code(sys), Begin(g) PROVE Traced' /\ NeverInside'
<1>1. phase = "idle" /\ Forgotten /\ sys \in Systems /\ inside \in BOOLEAN
  BY DEF PathInv, Inv, TypeOK, Begin, Traced
<1>2. /\ phase' = "run" /\ getter' = g /\ todo' = Code(sys)[g].body /\ began' = inside /\ inside' = inside
      /\ sys' = sys
      /\ UNCHANGED <<facts, gone, failed, held, lost, wild, put, flagged, zeroed, counted, pointer>>
  BY DEF Begin, resources, buffer
<1>3. ASSUME NEW w PROVE Stage(w)' = FirstStage(sys, g, inside)
  <2>1. /\ facts' = {} /\ gone' = FALSE /\ failed' = "none" /\ held' = {} /\ lost' = {} /\ wild' = FALSE
        /\ zeroed' = FALSE /\ counted' = FALSE /\ pointer' = "none" /\ flagged' = {} /\ put' = {}
    BY <1>1, <1>2 DEF Forgotten
  <2>2. (w \in put') = FALSE /\ (w \in flagged') = FALSE /\ (flagged' # {}) = FALSE
    BY <2>1
  <2> QED BY <1>2, <2>1, <2>2, Zenon DEF Stage, FirstStage
<1>4. \A w \in Watched(sys, g) : Stage(w)' \in Stages(sys, g, w)
  BY <1>1, <1>3, Certified
<1>5. flagged' \subseteq Watched(sys, g)
  BY <1>1, <1>2 DEF Forgotten
<1>6. OnPath'
  BY <1>2, <1>4, <1>5 DEF OnPath
<1> QED BY <1>2, <1>6 DEF PathInv, Traced, NeverInside

LEMMA OtherPath ==
  ASSUME PathInv, OpenP \/ Main \/ Forget \/ Ended \/ UNCHANGED vars
  PROVE  Traced' /\ NeverInside'
<1>1. CASE OpenP \/ Main
  <2>1. phase \in {"open", "main"} /\ Forgotten
    BY <1>1 DEF PathInv, Traced, OpenP, Main
  <2>2. UNCHANGED <<sys, getter, began, facts, gone, held, lost, wild, put, flagged, zeroed, counted, pointer, inside>>
    BY <1>1 DEF OpenP, Main, call, resources, buffer
  <2>3. phase' = "dead" \/ (phase' \in {"main", "idle"} /\ failed' = failed)
    BY <1>1 DEF OpenP, Main, DropPrivileges, GivesUp
  <2> QED BY <2>1, <2>2, <2>3 DEF PathInv, Traced, Forgotten, NeverInside
<1>2. CASE Forget
  BY <1>2 DEF PathInv, Forget, Traced, Forgotten, NeverInside
<1>3. CASE Ended \/ UNCHANGED vars
  <2>1. UNCHANGED <<sys, getter, began, phase, todo, facts, gone, failed, held, lost, wild, put, flagged,
                    zeroed, counted, pointer, inside>>
    BY <1>3 DEF Ended, vars, call, resources, buffer
  <2>2. ASSUME NEW w PROVE Stage(w)' = Stage(w)
    BY <2>1, Zenon DEF Stage
  <2>3. OnPath' <=> OnPath
    BY <2>1, <2>2 DEF OnPath
  <2>4. Forgotten' <=> Forgotten
    BY <2>1 DEF Forgotten
  <2> QED BY <2>1, <2>3, <2>4 DEF PathInv, Traced, NeverInside
<1> QED BY <1>1, <1>2, <1>3

LEMMA NextPath == PathInv /\ [Next]_vars => PathInv'
<1> SUFFICES ASSUME PathInv, [Next]_vars PROVE PathInv'
  OBVIOUS
<1>1. Inv'
  BY NextInv DEF PathInv
<1>2. CASE \E g \in DOMAIN Code(sys) : Begin(g)
  BY <1>1, <1>2, BeginPath DEF PathInv
<1>3. CASE OpenP \/ Main \/ Forget \/ Ended \/ UNCHANGED vars
  BY <1>1, <1>3, OtherPath DEF PathInv
<1>4. CASE Step
  BY <1>1, <1>4, StepPath DEF PathInv
<1> QED BY <1>2, <1>3, <1>4 DEF Next

\* Whatever the sequence of calls and the number of rounds, a call is at one of the
\* stages of its getter, and nothing of it is left when it is over.
THEOREM TracedCorrect == Spec => []PathInv
BY InitPath, NextPath, PTL DEF Spec

-----------------------------------------------------------------------------
(* The rules. *)

\* A call that has returned, or has died, obeys the rules for every group.
LEMMA CallObeys ==
  ASSUME PathInv, OnPath, NEW w \in Watched(sys, getter)
  PROVE  Obeys(sys, getter, w, Stage(w))
BY Certified DEF PathInv, Inv, TypeOK, OnPath

LEMMA ReturnedOnPath == PathInv /\ returned => OnPath
BY DEF PathInv, Traced, returned

LEMMA SomeGroup == "none" \in Watched(sys, getter)
BY DEF Watched

\* A call that began outside of enter and leave returns outside, but for the two of
\* bsd that return between them: for any number of rounds.
THEOREM LeavesBeforeReturningCorrect == Spec => []LeavesBeforeReturning
<1>1. PathInv => LeavesBeforeReturning
  <2> SUFFICES ASSUME PathInv, returned, inside PROVE began \/ At(NeverLeaves)
    BY DEF LeavesBeforeReturning
  <2>1. Obeys(sys, getter, "none", Stage("none"))
    BY CallObeys, ReturnedOnPath, SomeGroup
  <2> QED BY <2>1, StageFields DEF Obeys, returned, At
<1> QED BY <1>1, TracedCorrect, PTL

\* A flag a call returns with stands for values it has read, whatever the process asked
\* about does meanwhile, but for the flags of Unread.
THEOREM FlagsAreCorrect == Spec => []FlagsCorrect
<1>1. PathInv => FlagsCorrect
  <2> SUFFICES ASSUME PathInv, returned, NEW g \in flagged \ put PROVE <<sys, getter, g>> \in Unread
    BY DEF FlagsCorrect
  <2>1. OnPath /\ g \in Watched(sys, getter)
    BY ReturnedOnPath DEF OnPath
  <2>2. Obeys(sys, getter, g, Stage(g))
    BY <2>1, CallObeys
  <2>3. Stage(g).phase = "done" /\ Stage(g).buf.flagged /\ ~Stage(g).buf.put
    BY DEF returned, Stage, StageOf, Buffer
  <2> QED BY <2>2, <2>3 DEF Obeys
<1> QED BY <1>1, TracedCorrect, PTL

\* What a call flags is what its init function has announced, but where NotAnnounced
\* says otherwise.
THEOREM FlagsAnnouncedCorrect == Spec => []FlagsAnnounced
<1>1. PathInv => FlagsAnnounced
  <2> SUFFICES ASSUME PathInv, returned, NEW g \in flagged
               PROVE  g \in Code(sys)[getter].announced \/ getter \in NoInitFunction \/ At(NotAnnounced)
    BY DEF FlagsAnnounced
  <2>1. OnPath /\ g \in Watched(sys, getter)
    BY ReturnedOnPath DEF OnPath
  <2>2. Obeys(sys, getter, g, Stage(g))
    BY <2>1, CallObeys
  <2>3. Stage(g).phase = "done" /\ Stage(g).buf.flagged
    BY DEF returned, Stage, StageOf, Buffer
  <2> QED BY <2>2, <2>3 DEF Obeys, At
<1> QED BY <1>1, TracedCorrect, PTL

\* On every path the caller gets a buffer that was cleared, but for the getters of
\* NotCleared.
THEOREM BufferClearedCorrect == Spec => []BufferCleared
<1>1. PathInv => BufferCleared
  <2> SUFFICES ASSUME PathInv, returned PROVE zeroed \/ getter = "sysinfo" \/ At(NotCleared)
    BY DEF BufferCleared
  <2>1. Obeys(sys, getter, "none", Stage("none"))
    BY CallObeys, ReturnedOnPath, SomeGroup
  <2>2. Stage("none").phase = "done" /\ Stage("none").buf.zeroed = zeroed
    BY DEF returned, Stage, StageOf, Buffer
  <2> QED BY <2>1, <2>2 DEF Obeys, At
<1> QED BY <1>1, TracedCorrect, PTL

\* number and size are set only with memory that is returned, and memory is returned
\* only with flags.
THEOREM ListDescribedCorrect == Spec => []ListDescribed
<1>1. PathInv => ListDescribed
  <2> SUFFICES ASSUME PathInv, returned, ~At(NotDescribed)
               PROVE  (counted => pointer # "none") /\ (pointer # "none" => flagged # {})
    BY DEF ListDescribed
  <2>1. Obeys(sys, getter, "none", Stage("none"))
    BY CallObeys, ReturnedOnPath, SomeGroup
  <2>2. /\ Stage("none").phase = "done" /\ Stage("none").buf.counted = counted
        /\ Stage("none").pointer = pointer /\ (Stage("none").buf.marked <=> flagged # {})
    BY DEF returned, Stage, StageOf, Buffer
  <2> QED BY <2>1, <2>2 DEF Obeys, At
<1> QED BY <1>1, TracedCorrect, PTL

\* A call gives back what it took, on every path and after any number of rounds, but
\* for the getters of Kept.
THEOREM NothingKeptCorrect == Spec => []NothingKept
<1>1. PathInv => NothingKept
  <2> SUFFICES ASSUME PathInv, returned PROVE held \cup lost = {} \/ At(Kept)
    BY DEF NothingKept
  <2>1. Obeys(sys, getter, "none", Stage("none"))
    BY CallObeys, ReturnedOnPath, SomeGroup
  <2>2. Stage("none").phase = "done" /\ Stage("none").taken.held = held /\ Stage("none").taken.lost = lost
    BY DEF returned, Stage, StageOf, Taken
  <2> QED BY <2>1, <2>2 DEF Obeys, At
<1> QED BY <1>1, TracedCorrect, PTL

\* Nothing is used or given back that is not held, in a call or between two.
THEOREM NoWildUseCorrect == Spec => []NoWildUse
<1>1. PathInv => NoWildUse
  <2> SUFFICES ASSUME PathInv, wild PROVE At(Wild)
    BY DEF NoWildUse
  <2>1. OnPath
    BY DEF PathInv, Traced, Forgotten
  <2>2. Obeys(sys, getter, "none", Stage("none"))
    BY <2>1, CallObeys, SomeGroup
  <2>3. Stage("none").taken.wild = wild
    BY DEF Stage, StageOf, Taken
  <2> QED BY <2>2, <2>3 DEF Obeys, At
<1> QED BY <1>1, TracedCorrect, PTL

\* A process that ends does not take the program that asks about it with it, but in
\* the getters of EndsWithTheProcess.
THEOREM ProcessEndIsHarmlessCorrect == Spec => []ProcessEndIsHarmless
<1>1. PathInv => ProcessEndIsHarmless
  <2> SUFFICES ASSUME PathInv, phase = "dead", getter # "none", failed \in {"gone", "other"}
               PROVE  At(EndsWithTheProcess)
    BY DEF ProcessEndIsHarmless
  <2>1. OnPath
    BY DEF PathInv, Traced
  <2>2. Obeys(sys, getter, "none", Stage("none"))
    BY <2>1, CallObeys, SomeGroup
  <2>3. Stage("none").phase = phase /\ Stage("none").known.failed = failed
    BY DEF Stage, StageOf, Known
  <2> QED BY <2>2, <2>3 DEF Obeys, At
<1> QED BY <1>1, TracedCorrect, PTL

\* Each glibtop_suid_enter may have the rights of the file, and has them unless it was
\* refused, on every system: where there are none to have, nothing enters.
THEOREM RightsWithinReachCorrect == Spec => []RightsWithinReach
<1>1. PathInv => CanEnterAgain
  BY InvCanEnterAgain DEF PathInv
<1>2. PathInv => EnteredIsPrivileged
  <2> SUFFICES ASSUME PathInv, inside PROVE EnteredIsPrivileged
    BY DEF EnteredIsPrivileged
  <2> QED BY InvEnteredIsPrivileged DEF PathInv, NeverInside, WithoutEnter
<1> QED BY <1>1, <1>2, TracedCorrect, PTL DEF RightsWithinReach
=============================================================================
