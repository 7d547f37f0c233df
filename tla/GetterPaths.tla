---------------------------- MODULE GetterPaths ----------------------------
(***************************************************************************)
(* The paths through a getter, when its loops make any number of rounds.   *)
(* What a call has done so far is a record, the stage it has reached, in   *)
(* which one group of fields is watched: the ids of the process, which     *)
(* decide nothing about where a call goes, the other groups, and the count *)
(* of the rounds are no part of it.  The stages of a call are finitely     *)
(* many, and the rules of GetterContract are rules for each.               *)
(*                                                                         *)
(* PathsAssumption is what TLC finds about the code of each getter;        *)
(* GetterPaths_proofs carries it over to GetterCall, where getters are     *)
(* called again and again, and with every number of rounds.                *)
(***************************************************************************)
EXTENDS GetterContract

\* Facts and failures, what was taken, and the buffer as far as group w is concerned.
Known(fs, gn, fl) == [facts |-> fs, gone |-> gn, failed |-> fl]
Taken(h, l, wd) == [held |-> h, lost |-> l, wild |-> wd]
Buffer(pt, fl, mk, zr, ct) == [put |-> pt, flagged |-> fl, marked |-> mk, zeroed |-> zr, counted |-> ct]
StageOf(ph, td, kn, tk, bf, pt, in, bg) ==
  [phase |-> ph, todo |-> td, known |-> kn, taken |-> tk, buf |-> bf, pointer |-> pt,
   inside |-> in, began |-> bg]

\* The stage of the call, for group w.
Stage(w) ==
  StageOf(phase, todo, Known(facts, gone, failed), Taken(held, lost, wild),
          Buffer(w \in put, w \in flagged, flagged # {}, zeroed, counted), pointer, inside, began)

\* A call begins, inside of enter and leave or outside.
FirstStage(s, g, within) ==
  StageOf("run", Code(s)[g].body, Known({}, FALSE, "none"), Taken({}, {}, FALSE),
          Buffer(FALSE, FALSE, FALSE, FALSE, FALSE), "none", within, within)

-----------------------------------------------------------------------------
(* The stages behind stage c, one operator for each kind of step.          *)

Is(c, op) == c.phase = "run" /\ c.todo # <<>> /\ Head(c.todo).op = op
Arg(c) == Head(c.todo).arg
Goes(c, ph, steps) == StageOf(ph, steps, c.known, c.taken, c.buf, c.pointer, c.inside, c.began)
GoesOn(c, steps) == Goes(c, c.phase, steps)
OneOf(c, bodies) == {GoesOn(c, body \o Tail(c.todo)) : body \in bodies}
Finished(c, r) ==
  StageOf("done", <<>>, c.known, Taken(c.taken.held \ {r}, c.taken.lost, c.taken.wild), c.buf, r,
          c.inside, c.began)
Learns(c, kn, steps) == StageOf(c.phase, steps, kn, c.taken, c.buf, c.pointer, c.inside, c.began)
Takes(c, tk) == StageOf(c.phase, Tail(c.todo), c.known, tk, c.buf, c.pointer, c.inside, c.began)

AfterEnd(c) == IF c.phase = "run" /\ c.todo = <<>> THEN {Finished(c, "none")} ELSE {}

AfterReturn(c) ==
  IF ~Is(c, "return") THEN {}
  ELSE IF \E i \in DOMAIN c.todo : c.todo[i].op = "end"
       THEN {GoesOn(c, Behind(c.todo, "end"))}
       ELSE {Finished(c, Arg(c))}

AfterDie(c) == IF Is(c, "die") THEN {Goes(c, "dead", <<>>)} ELSE {}

AfterLoop(c) ==
  IF Is(c, "loop") THEN {GoesOn(c, Head(c.todo).a \o c.todo), GoesOn(c, Tail(c.todo))} ELSE {}

AfterJump(c) ==
  IF c.phase # "run" \/ c.todo = <<>> THEN {}
  ELSE LET n == Head(c.todo)
       IN CASE n.op = "do" -> OneOf(c, {n.a})
            [] n.op = "end" -> {GoesOn(c, Tail(c.todo))}
            [] n.op = "either" -> OneOf(c, {n.a, n.b})
            [] n.op = "held" -> OneOf(c, {IF n.arg \in c.taken.held THEN n.a ELSE n.b})
            [] n.op = "skip" -> {GoesOn(c, From(c.todo, "loop"))}
            [] n.op = "break" -> {GoesOn(c, Behind(c.todo, "loop"))}
            [] n.op = "again" -> {GoesOn(c, Head(From(c.todo, "loop")).a \o From(c.todo, "loop"))}
            [] OTHER -> {}

AfterFact(c) ==
  IF ~Is(c, "when") THEN {}
  ELSE LET n == Head(c.todo)
       IN {Learns(c, Known(c.known.facts \cup {<<n.arg, value>>}, c.known.gone, c.known.failed),
                  (IF value THEN n.a ELSE n.b) \o Tail(c.todo)) :
             value \in {v \in BOOLEAN : <<n.arg, ~v>> \notin c.known.facts}}

AfterAccess(c) ==
  IF ~(Is(c, "try") /\ Arg(c) \in Causes) THEN {}
  ELSE LET n == Head(c.todo)
           fails == Learns(c, Known(c.known.facts, c.known.gone \/ n.arg = "gone", n.arg),
                           n.b \o Tail(c.todo))
       IN {fails} \cup (IF n.arg = "gone" /\ c.known.gone THEN {} ELSE OneOf(c, {n.a}))

\* What is computed from other groups may be right or not.
Right(w, op, arg, was) ==
  CASE op = "zero" -> {FALSE}
    [] op = "put" -> {was \/ arg = w}
    [] op = "derive" -> {was, was \/ arg = w}
    [] OTHER -> {was}

AfterAssign(w, c) ==
  IF ~(c.phase = "run" /\ c.todo # <<>>
       /\ Head(c.todo).op \in {"zero", "put", "derive", "set", "add", "count"}) THEN {}
  ELSE LET op == Head(c.todo).op
       IN {StageOf(c.phase, Tail(c.todo), c.known, c.taken,
                   Buffer(right,
                          (Arg(c) = w /\ op \in {"set", "add"}) \/ (c.buf.flagged /\ op \notin {"zero", "set"}),
                          op \in {"set", "add"} \/ (c.buf.marked /\ op # "zero"),
                          c.buf.zeroed \/ op = "zero",
                          op = "count" \/ (c.buf.counted /\ op # "zero")),
                   c.pointer, c.inside, c.began) : right \in Right(w, op, Arg(c), c.buf.put)}

AfterTake(c) ==
  IF ~Is(c, "take") THEN {}
  ELSE LET t == c.taken
       IN {Takes(c, Taken(t.held \cup {Arg(c)}, t.lost \cup (t.held \cap {Arg(c)}), t.wild))}

AfterDrop(c) ==
  IF ~Is(c, "drop") THEN {}
  ELSE LET t == c.taken
       IN {Takes(c, Taken(t.held \ {Arg(c)}, t.lost, t.wild \/ Arg(c) \notin t.held))}

AfterUse(c) ==
  IF ~Is(c, "use") THEN {}
  ELSE LET t == c.taken IN {Takes(c, Taken(t.held, t.lost, t.wild \/ Arg(c) \notin t.held))}

AfterEnter(c) ==
  IF ~Is(c, "enter") THEN {}
  ELSE {StageOf(c.phase, Tail(c.todo), c.known, c.taken, c.buf, c.pointer, TRUE, c.began)}

AfterLeave(c) ==
  IF ~Is(c, "leave") THEN {}
  ELSE {StageOf(c.phase, Tail(c.todo), c.known, c.taken, c.buf, c.pointer, FALSE, c.began),
        StageOf("dead", c.todo, Known(c.known.facts, c.known.gone, "id"), c.taken, c.buf, c.pointer,
                c.inside, c.began)}

After(w, c) ==
  UNION {AfterEnd(c), AfterReturn(c), AfterDie(c), AfterLoop(c), AfterJump(c), AfterFact(c),
         AfterAccess(c), AfterAssign(w, c), AfterTake(c), AfterDrop(c), AfterUse(c), AfterEnter(c),
         AfterLeave(c)}

-----------------------------------------------------------------------------
(* All stages of a call of getter g of system s, for each group it flags.  *)

\* Steps inside of steps at most, and pairs of steps of the longest path on which no
\* stage comes twice.
Nesting == 12
Depth == 50

Groups(s, g) ==
  LET nodes[k \in 0..Nesting] ==
        IF k = 0 THEN Range(Code(s)[g].body)
        ELSE UNION {Range(n.a) \cup Range(n.b) : n \in nodes[k - 1]}
      all == UNION {nodes[k] : k \in 0..Nesting}
  IN {n.arg : n \in {n \in all : n.op \in {"set", "add"}}}

\* A getter that flags nothing has its rules too.
Watched(s, g) == Groups(s, g) \cup {"none"}

Ahead(w, stages) == UNION {After(w, c) : c \in stages}

Stages(s, g, w) ==
  LET first == {FirstStage(s, g, within) : within \in BOOLEAN}
      layer[k \in 0..Depth] ==
        IF k = 0 THEN [all |-> first, new |-> first]
        ELSE LET before == layer[k - 1]
                 step == Ahead(w, before.new)
                 next == (step \cup Ahead(w, step)) \ before.all
             IN [all |-> before.all \cup next, new |-> next]
  IN layer[Depth].all

\* Systems none of whose getters enters.
WithoutEnter == {"cygwin", "solaris"}

\* The rules of GetterContract, for one stage.
Obeys(s, g, w, c) ==
  /\ c.phase = "done" =>
       /\ c.inside => (c.began \/ <<s, g>> \in NeverLeaves)
       /\ (c.buf.flagged /\ ~c.buf.put) => <<s, g, w>> \in Unread
       /\ c.buf.flagged =>
            (w \in Code(s)[g].announced \/ g \in NoInitFunction \/ <<s, g>> \in NotAnnounced)
       /\ c.buf.zeroed \/ g = "sysinfo" \/ <<s, g>> \in NotCleared
       /\ \/ (c.buf.counted => c.pointer # "none") /\ (c.pointer # "none" => c.buf.marked)
          \/ <<s, g>> \in NotDescribed
       /\ c.taken.held \cup c.taken.lost = {} \/ <<s, g>> \in Kept
  /\ c.taken.wild => <<s, g>> \in Wild
  /\ (c.phase = "dead" /\ c.known.failed \in {"gone", "other"}) => <<s, g>> \in EndsWithTheProcess
  /\ c.inside => (c.began \/ s \notin WithoutEnter)

\* No stage is missing, each obeys the rules, and no group is missing.
ASSUME PathsAssumption ==
  \A s \in Systems : \A g \in DOMAIN Code(s) : \A w \in Watched(s, g) :
    LET all == Stages(s, g, w)
    IN /\ \A within \in BOOLEAN : FirstStage(s, g, within) \in all
       /\ \A c \in all :
            /\ After(w, c) \subseteq all
            /\ Obeys(s, g, w, c)
            /\ Is(c, "set") \/ Is(c, "add") => Arg(c) \in Watched(s, g)
=============================================================================
