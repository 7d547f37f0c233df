-------------------------- MODULE ProcList_proofs --------------------------
(***************************************************************************)
(* What the list of processes holds, for any processes, any query, and any *)
(* number of them that start, change and end during the call.              *)
(***************************************************************************)
EXTENDS ProcList, TLAPS

AtEntry == pc \in {"test", "first", "second", "verdict"}
Reading == pc \in {"first", "second", "verdict"}

\* What there is shows what it is; what stays is there.
Shown ==
  /\ pc \in {"out", "failed"} => stays = {} /\ pid = 0 /\ pids = {}
  /\ pc \notin {"out", "failed"} =>
       /\ \A p \in Pids : proc[p] # None => proc[p] \in past[p]
       /\ \A p \in stays : proc[p] # None

\* What the code compares: as Meets, but for RUID the effective user.
Compared(p, k, t) ==
  IF t = "which" /\ query.which = "RUID" THEN k.euid = query.arg ELSE Meets(p, k, t)

\* The walk is behind an entry when it has been dealt with.
Behind(p) == p < pid \/ (p = pid /\ ~AtEntry)
Fits(p) == \A k \in past[p], i \in 1..4 : Compared(p, k, Tests[i])
FittingListed == \A p \in stays : Behind(p) /\ Fits(p) => p \in pids
ListedFitting == \A p \in stays \cap pids, i \in 1..4 : \E k \in past[p] : Compared(p, k, Tests[i])

\* The tests an entry has passed, it passed with something it showed.
EntryPassed ==
  AtEntry => /\ pid \in Pids
             /\ pid \in stays => \A i \in 1..test - 1 : \E k \in past[pid] : Compared(pid, k, Tests[i])

\* Only these tests read files.
Asks == Applies /\ (test = 1 => query.which \in {"PGRP", "SESSION", "TTY", "RUID"})

\* What was read of a process that stays, it showed: at one moment what was in the
\* first file, at one what was in the second.
IdsFrom(k) == buf.uid = k.uid /\ buf.euid = k.euid
StatFrom(k) ==
  buf.pgrp = k.pgrp /\ buf.session = k.session /\ buf.tty = Tty(k.tty) /\ buf.state = k.state
ReadFrom ==
  /\ Reading => Asks
  /\ pid \in stays =>
       /\ pc = "second" => flags = {"ids"} /\ \E k \in past[pid] : IdsFrom(k)
       /\ pc = "verdict" => /\ flags = {"ids", "stat"}
                            /\ \E k \in past[pid] : IdsFrom(k)
                            /\ \E k \in past[pid] : StatFrom(k)

\* No process that stays was left out at the end.
Through == pc = "done" => \A p \in stays : Behind(p)

Walked == Shown /\ FittingListed /\ ListedFitting /\ EntryPassed /\ ReadFrom /\ Through
Inv == TypeOK /\ Walked

LEMMA KindFacts ==
  /\ None \notin Kinds
  /\ \A k \in Kinds : /\ k.uid \in Nat /\ k.euid \in Nat /\ k.pgrp \in Nat /\ k.session \in Nat
                      /\ k.tty \in Nat /\ k.state \in {"R", "S"} /\ Tty(k.tty) \in Nat \cup {-1}
BY ProcListAssumption DEF Attributes, None, Tty

LEMMA QueryFacts ==
  ASSUME TypeOK PROVE query.which \in Selections /\ query.arg \in Int /\ query.except \in SUBSET Exclusions
BY ProcListAssumption DEF TypeOK

LEMMA NoBufType == NoBuf \in Bufs
BY DEF NoBuf, Bufs

LEMMA InitInv == Init => Inv
<1> SUFFICES ASSUME Init PROVE Inv
  OBVIOUS
<1>1. TypeOK
  <2>1. buf \in Bufs
    BY NoBufType DEF Init
  <2>2. pid \in 0..MaxPid /\ events \in 0..MaxEvents
    BY ProcListAssumption DEF Init
  <2> QED BY <2>1, <2>2 DEF Init, TypeOK
<1>2. Walked
  BY DEF Init, Walked, Shown, FittingListed, ListedFitting, EntryPassed, ReadFrom, Through, AtEntry, Reading
<1> QED BY <1>1, <1>2 DEF Inv

-----------------------------------------------------------------------------
(* The processes. *)

\* What is known of the walk stays true when more is shown and fewer stay.
LEMMA KernelInv ==
  ASSUME Inv, TypeOK', Shown', UNCHANGED <<query, pc, test, pid, flags, buf, pids>>,
         stays' \subseteq stays, \A p \in Pids : past[p] \subseteq past'[p]
  PROVE  Inv'
<1>0. /\ UNCHANGED <<AtEntry, Reading, Asks, Applies>>
      /\ \A p, k, t : Compared(p, k, t)' = Compared(p, k, t)
      /\ \A p : Behind(p)' = Behind(p)
      /\ \A k : IdsFrom(k)' = IdsFrom(k) /\ StatFrom(k)' = StatFrom(k)
      /\ stays \subseteq Pids
  BY DEF AtEntry, Reading, Asks, Applies, Compared, Meets, Behind, IdsFrom, StatFrom, Inv, TypeOK
<1>1. \A p \in stays' : Fits(p)' => Fits(p)
  BY <1>0 DEF Fits
<1>2. FittingListed'
  BY <1>0, <1>1 DEF Inv, Walked, FittingListed
<1>3. ListedFitting'
  BY <1>0 DEF Inv, Walked, ListedFitting
<1>4. EntryPassed'
  BY <1>0 DEF Inv, Walked, EntryPassed
<1>5. ReadFrom'
  BY <1>0 DEF Inv, Walked, ReadFrom
<1>6. Through'
  BY <1>0 DEF Inv, Walked, Through
<1> QED BY <1>2, <1>3, <1>4, <1>5, <1>6 DEF Inv, Walked

LEMMA BecomesInv ==
  ASSUME Inv, NEW p \in Pids, NEW k \in Kinds \cup {None}, Becomes(p, k),
         stays' \subseteq stays, k = None => p \notin stays'
  PROVE  Inv'
<1>1. /\ UNCHANGED <<query, pc, test, pid, flags, buf, pids>>
      /\ pc \notin {"out", "done", "failed"}
  BY DEF Becomes
<1>2. /\ proc' \in [Pids -> Kinds \cup {None}] /\ past' \in [Pids -> SUBSET Kinds]
      /\ proc'[p] = k /\ past'[p] = past[p] \cup ({k} \ {None})
      /\ \A q \in Pids \ {p} : proc'[q] = proc[q] /\ past'[q] = past[q]
  BY KindFacts DEF Inv, TypeOK, Becomes
<1>3. TypeOK'
  <2>1. events' \in 0..MaxEvents
    BY ProcListAssumption DEF Inv, TypeOK, Becomes
  <2> QED BY <1>1, <1>2, <2>1 DEF Inv, TypeOK
<1>4. Shown'
  BY <1>1, <1>2 DEF Inv, TypeOK, Walked, Shown
<1>5. \A q \in Pids : past[q] \subseteq past'[q]
  BY <1>2
<1> QED BY <1>1, <1>3, <1>4, <1>5, KernelInv

LEMMA EventInv ==
  ASSUME Inv, NEW p \in Pids, End(p) \/ \E k \in Kinds : Start(p, k) \/ Change(p, k) PROVE Inv'
<1>1. CASE End(p)
  BY <1>1, BecomesInv DEF End
<1>2. CASE \E k \in Kinds : Start(p, k) \/ Change(p, k)
  BY <1>2, BecomesInv, KindFacts DEF Start, Change
<1> QED BY <1>1, <1>2

-----------------------------------------------------------------------------
(* The walk. *)

LEMMA OpenInv == Inv /\ (OpenFails \/ OpenDir) => Inv'
<1> SUFFICES ASSUME Inv, OpenFails \/ OpenDir PROVE Inv'
  OBVIOUS
<1> USE DEF Inv
<1>1. /\ pc = "out" /\ UNCHANGED <<proc, events, query, test, pid, flags, buf, pids>> /\ pid = 0
      /\ pc' \in {"failed", "readdir"}
  BY DEF OpenFails, OpenDir, kernel, Walked, Shown
<1>2. TypeOK'
  <2>1. past' \in [Pids -> SUBSET Kinds] /\ stays' \subseteq Pids
    BY DEF TypeOK, OpenFails, OpenDir, kernel
  <2> QED BY <1>1, <2>1 DEF TypeOK
<1>3. Shown'
  BY <1>1 DEF TypeOK, Walked, Shown, OpenFails, OpenDir, kernel
<1>4. \A p \in stays' : ~Behind(p)'
  BY <1>1, <1>2 DEF TypeOK, Behind, Pids
<1>5. pids' \cap stays' = {}
  BY <1>1, <1>2 DEF Walked, Shown
<1>6. Walked'
  BY <1>1, <1>3, <1>4, <1>5
  DEF Walked, FittingListed, ListedFitting, EntryPassed, ReadFrom, Through, AtEntry, Reading, TypeOK, Pids
<1> QED BY <1>2, <1>6

LEMMA DirInv == Inv /\ (ReadDir \/ EndDir) => Inv'
<1> SUFFICES ASSUME Inv, ReadDir \/ EndDir PROVE Inv'
  OBVIOUS
<1> USE DEF Inv
<1>1. /\ pc = "readdir" /\ pc' \in {"test", "done"}
      /\ UNCHANGED <<proc, events, stays, past, query, flags, buf, pids>>
  BY DEF ReadDir, EndDir, kernel
<1>2. /\ test' \in 1..4 /\ pid' \in 0..MaxPid
      /\ pc' = "test" => test' = 1 /\ pid' \in Pids
  BY DEF TypeOK, ReadDir, EndDir, Pids
<1>3. TypeOK'
  BY <1>1, <1>2 DEF TypeOK
<1>4. \A p \in stays : Behind(p)' => Behind(p)
  BY <1>1, <1>2 DEF TypeOK, Behind, AtEntry, ReadDir, EndDir, Passed, Pids
<1>5. /\ \A p, k, t : Compared(p, k, t)' = Compared(p, k, t)
      /\ \A p : Fits(p)' = Fits(p)
  BY <1>1 DEF Compared, Meets, Fits
<1>6. Shown' /\ FittingListed' /\ ListedFitting'
  BY <1>1, <1>4, <1>5 DEF Walked, Shown, FittingListed, ListedFitting
<1>7. EntryPassed' /\ ReadFrom'
  <2>1. pc' \notin {"first", "second", "verdict"}
    BY <1>1
  <2>2. AtEntry' => test' = 1 /\ pid' \in Pids
    BY <1>1, <1>2 DEF AtEntry
  <2>3. 1..1 - 1 = {}
    OBVIOUS
  <2>4. EntryPassed'
    BY <1>1, <2>2, <2>3 DEF EntryPassed, Pids
  <2>5. ReadFrom'
    BY <2>1 DEF ReadFrom, Reading
  <2>q. QED
    BY <2>4, <2>5
<1>8. Through'
  <2> SUFFICES ASSUME pc' = "done", NEW p \in stays PROVE Behind(p)'
    BY <1>1 DEF Through
  <2>1. Passed(MaxPid + 1) /\ UNCHANGED pid
    BY DEF ReadDir, EndDir
  <2>2. p \in Nat /\ p <= MaxPid /\ pid \in Nat /\ MaxPid \in Nat
    BY ProcListAssumption DEF TypeOK, Pids
  <2>3. p <= pid
    BY <2>1, <2>2 DEF Passed
  <2> QED BY <2>1, <2>2, <2>3 DEF Behind, AtEntry
<1> QED BY <1>3, <1>6, <1>7, <1>8 DEF Walked

\* An entry is dropped for something it showed that does not fit, and goes on with
\* something that does, if it stays.
LEMMA EntryInv ==
  ASSUME Inv, pc \in {"test", "verdict"}, UNCHANGED <<kernel, query, pid, flags, buf>>,
         \/ Continue /\ (pid \in stays => \E k \in past[pid] : ~Compared(pid, k, Tests[test]))
         \/ Passes /\ (pid \in stays => \E k \in past[pid] : Compared(pid, k, Tests[test]))
  PROVE  Inv'
<1> USE DEF Inv
<1>1. /\ UNCHANGED <<proc, events, stays, past, query, pid>> /\ pid \in Pids /\ AtEntry
      /\ pc' \in {"readdir", "test"} /\ pids' \subseteq pids \cup {pid} /\ pids \subseteq pids'
  BY DEF kernel, Walked, EntryPassed, AtEntry, Continue, Passes
<1>2. test' \in 1..4 /\ (pc' = "test" => test' = test + 1)
  BY DEF TypeOK, Continue, Passes
<1>3. TypeOK'
  BY <1>1, <1>2 DEF TypeOK
<1>4. /\ \A p, k, t : Compared(p, k, t)' = Compared(p, k, t)
      /\ \A p : Fits(p)' = Fits(p)
  BY <1>1 DEF Compared, Meets, Fits
<1>5. Shown' /\ ReadFrom' /\ Through'
  BY <1>1 DEF Walked, Shown, ReadFrom, Reading, Through
<1>6. FittingListed'
  <2> SUFFICES ASSUME NEW p \in stays, Behind(p)', Fits(p) PROVE p \in pids'
    BY <1>1, <1>4 DEF FittingListed
  <2>1. CASE p # pid
    BY <1>1, <2>1 DEF Walked, FittingListed, Behind
  <2>2. CASE p = pid
    <3>1. pc' = "readdir"
      BY <1>1, <2>2 DEF Behind, AtEntry, TypeOK, Pids
    <3>2. \A k \in past[pid] : Compared(pid, k, Tests[test])
      BY <2>2 DEF Fits, TypeOK
    <3>3. Passes
      BY <2>2, <3>2
    <3> QED BY <2>2, <3>1, <3>3 DEF Passes
  <2> QED BY <2>1, <2>2
<1>7. ListedFitting'
  <2> SUFFICES ASSUME NEW p \in stays, p \in pids', NEW i \in 1..4
               PROVE  \E k \in past[p] : Compared(p, k, Tests[i])
    BY <1>1, <1>4 DEF ListedFitting
  <2>1. CASE p \in pids
    BY <2>1 DEF Walked, ListedFitting
  <2>2. CASE p \notin pids
    <3>1. p = pid /\ test = 4 /\ ~Continue
      BY <1>1, <2>2 DEF Continue, Passes
    <3>2. \A j \in 1..3 : \E k \in past[pid] : Compared(pid, k, Tests[j])
      BY <1>1, <3>1 DEF Walked, EntryPassed
    <3> QED BY <3>1, <3>2
  <2> QED BY <2>1, <2>2
<1>8. EntryPassed'
  <2> SUFFICES ASSUME pc' = "test", pid \in stays, NEW i \in 1..test
               PROVE  \E k \in past[pid] : Compared(pid, k, Tests[i])
    <3>1. AtEntry' => pc' = "test"
      BY <1>1 DEF AtEntry
    <3>2. test \in Nat
      BY DEF TypeOK
    <3>3. pc' = "test" => 1..test' - 1 = 1..test
      BY <1>2, <3>2
    <3> QED BY <1>1, <1>4, <3>1, <3>3 DEF EntryPassed
  <2>1. CASE i = test
    BY <2>1 DEF Continue
  <2>2. CASE i # test
    <3>1. i \in 1..test - 1
      BY <2>2 DEF TypeOK
    <3> QED BY <1>1, <3>1 DEF Walked, EntryPassed
  <2> QED BY <2>1, <2>2
<1> QED BY <1>3, <1>5, <1>6, <1>7, <1>8 DEF Walked

\* What stays is there, and shows something.
LEMMA StaysShown ==
  ASSUME Inv, AtEntry, pid \in stays PROVE pid \in Pids /\ proc[pid] \in past[pid] /\ proc[pid] \in Kinds
BY DEF Inv, TypeOK, Walked, Shown, EntryPassed, AtEntry

LEMMA SkippedInv == Inv /\ Skipped => Inv'
<1> SUFFICES ASSUME Inv, Skipped PROVE Inv'
  OBVIOUS
<1>1. \A k : Compared(pid, k, Tests[test])
  <2>1. CASE test = 1
    BY <2>1 DEF Skipped, Applies, Compared, Meets, Tests
  <2>2. CASE test = 2
    BY <2>2 DEF Skipped, Applies, Compared, Meets, Tests
  <2>3. CASE test = 3
    BY <2>3 DEF Skipped, Applies, Compared, Meets, Tests
  <2>4. CASE test = 4
    BY <2>4 DEF Skipped, Applies, Compared, Meets, Tests
  <2> QED BY <2>1, <2>2, <2>3, <2>4 DEF Inv, TypeOK
<1> QED BY <1>1, EntryInv, StaysShown DEF Skipped, AtEntry

LEMMA ComparePidInv == Inv /\ ComparePid => Inv'
<1> SUFFICES ASSUME Inv, ComparePid PROVE Inv'
  OBVIOUS
<1>1. \A k : Compared(pid, k, Tests[test]) = (pid = query.arg)
  BY DEF ComparePid, Compared, Meets, Tests
<1> QED BY <1>1, EntryInv, StaysShown DEF ComparePid, AtEntry

LEMMA StatUidInv == Inv /\ StatUid => Inv'
<1> SUFFICES ASSUME Inv, StatUid PROVE Inv'
  OBVIOUS
<1>1. \A k : Compared(pid, k, Tests[test]) = (k.euid = query.arg)
  BY DEF StatUid, Compared, Meets, Tests
<1> QED BY <1>1, EntryInv, StaysShown, KindFacts DEF StatUid, AtEntry

LEMMA AskInv == Inv /\ Ask => Inv'
<1> SUFFICES ASSUME Inv, Ask PROVE Inv'
  OBVIOUS
<1> USE DEF Inv
<1>1. /\ UNCHANGED <<proc, events, stays, past, query, test, pid, pids>> /\ pc = "test" /\ pc' = "first"
      /\ flags' = {} /\ buf' = NoBuf /\ Asks
  BY QueryFacts DEF Ask, kernel, Asks, Applies, Selections
<1>2. TypeOK'
  BY <1>1, NoBufType DEF TypeOK
<1>3. /\ \A p, k, t : Compared(p, k, t)' = Compared(p, k, t)
      /\ \A p : Fits(p)' = Fits(p) /\ Behind(p)' = Behind(p)
      /\ Asks'
  BY <1>1 DEF Compared, Meets, Fits, Behind, AtEntry, Asks, Applies
<1>4. Walked'
  BY <1>1, <1>3
  DEF Walked, Shown, FittingListed, ListedFitting, EntryPassed, ReadFrom, Through, AtEntry, Reading
<1> QED BY <1>2, <1>4

\* A read of one file leaves the tests alone.
LEMMA ReadInv ==
  ASSUME Inv, Reading, Reading', UNCHANGED <<kernel, query, test, pid, pids>>, TypeOK', ReadFrom'
  PROVE  Inv'
<1> USE DEF Inv
<1>1. /\ UNCHANGED <<proc, stays, past>> /\ AtEntry /\ AtEntry'
      /\ \A p, k, t : Compared(p, k, t)' = Compared(p, k, t)
      /\ \A p : Fits(p)' = Fits(p) /\ Behind(p)' = Behind(p)
  BY DEF kernel, Compared, Meets, Fits, Behind, AtEntry, Reading
<1>2. Walked'
  BY <1>1 DEF Walked, Shown, FittingListed, ListedFitting, EntryPassed, Through, AtEntry
<1> QED BY <1>2

LEMMA ReadFirstInv == Inv /\ ReadFirst => Inv'
<1> SUFFICES ASSUME Inv, ReadFirst PROVE Inv'
  OBVIOUS
<1>1. /\ UNCHANGED <<proc, events, stays, past, query, test, pid, pids>> /\ pc = "first"
      /\ pc' \in {"second", "verdict"} /\ pid \in Pids /\ AtEntry
  BY DEF Inv, Walked, EntryPassed, AtEntry, ReadFirst, kernel
<1>2. CASE proc[pid] = None
  <2>1. pid \notin stays /\ UNCHANGED <<flags, buf>>
    BY <1>1, <1>2 DEF Inv, Walked, Shown, ReadFirst
  <2>2. TypeOK'
    BY <1>1, <2>1 DEF Inv, TypeOK
  <2>3. ReadFrom'
    BY <1>1, <2>1 DEF Inv, Walked, ReadFrom, Reading, Asks, Applies
  <2> QED BY <1>1, <2>2, <2>3, ReadInv DEF ReadFirst, Reading
<1>3. CASE proc[pid] # None
  <2>1. /\ proc[pid] \in Kinds /\ pc' = "second" /\ flags' = {"ids"}
        /\ buf' = [buf EXCEPT !.uid = proc[pid].uid, !.euid = proc[pid].euid]
    BY <1>1, <1>3 DEF Inv, TypeOK, ReadFirst
  <2>2. buf' \in Bufs /\ buf'.uid = proc[pid].uid /\ buf'.euid = proc[pid].euid
    BY <2>1, KindFacts DEF Inv, TypeOK, Bufs
  <2>3. TypeOK'
    BY <1>1, <2>1, <2>2 DEF Inv, TypeOK
  <2>4. pid \in stays => \E k \in past[pid] : IdsFrom(k)'
    BY <1>1, <2>2, StaysShown DEF IdsFrom
  <2>5. ReadFrom'
    BY <1>1, <2>1, <2>4 DEF Inv, Walked, ReadFrom, Reading, Asks, Applies
  <2> QED BY <1>1, <2>1, <2>3, <2>5, ReadInv DEF ReadFirst, Reading
<1> QED BY <1>2, <1>3

LEMMA ReadSecondInv == Inv /\ ReadSecond => Inv'
<1> SUFFICES ASSUME Inv, ReadSecond PROVE Inv'
  OBVIOUS
<1>1. /\ UNCHANGED <<proc, events, stays, past, query, test, pid, pids>> /\ pc = "second"
      /\ pc' = "verdict" /\ pid \in Pids /\ AtEntry
  BY DEF Inv, Walked, EntryPassed, AtEntry, ReadSecond, kernel
<1>2. CASE proc[pid] = None
  <2>1. pid \notin stays /\ UNCHANGED <<flags, buf>>
    BY <1>1, <1>2 DEF Inv, Walked, Shown, ReadSecond
  <2>2. TypeOK'
    BY <1>1, <2>1 DEF Inv, TypeOK
  <2>3. ReadFrom'
    BY <1>1, <2>1 DEF Inv, Walked, ReadFrom, Reading, Asks, Applies
  <2> QED BY <1>1, <2>2, <2>3, ReadInv DEF ReadSecond, Reading
<1>3. CASE proc[pid] # None
  <2>1. /\ proc[pid] \in Kinds /\ flags' = flags \cup {"stat"}
        /\ buf' = [buf EXCEPT !.pgrp = proc[pid].pgrp, !.session = proc[pid].session,
                              !.tty = Tty(proc[pid].tty), !.state = proc[pid].state]
    BY <1>1, <1>3 DEF Inv, TypeOK, ReadSecond
  <2>2. /\ buf' \in Bufs /\ buf'.uid = buf.uid /\ buf'.euid = buf.euid
        /\ buf'.pgrp = proc[pid].pgrp /\ buf'.session = proc[pid].session
        /\ buf'.tty = Tty(proc[pid].tty) /\ buf'.state = proc[pid].state
    BY <2>1, KindFacts DEF Inv, TypeOK, Bufs
  <2>3. TypeOK'
    BY <1>1, <2>1, <2>2 DEF Inv, TypeOK
  <2>4. pid \in stays => \E k \in past[pid] : IdsFrom(k)'
    BY <1>1, <2>2 DEF Inv, Walked, ReadFrom, IdsFrom
  <2>5. pid \in stays => \E k \in past[pid] : StatFrom(k)'
    BY <1>1, <2>2, StaysShown DEF StatFrom
  <2>6. pid \in stays => flags' = {"ids", "stat"}
    BY <1>1, <2>1 DEF Inv, Walked, ReadFrom
  <2>7. ReadFrom'
    BY <1>1, <2>4, <2>5, <2>6 DEF Inv, Walked, ReadFrom, Reading, Asks, Applies
  <2> QED BY <1>1, <2>3, <2>7, ReadInv DEF ReadSecond, Reading
<1> QED BY <1>2, <1>3

\* The verdict is what the process showed.
LEMMA VerdictInv == Inv /\ Verdict => Inv'
<1> SUFFICES ASSUME Inv, Verdict PROVE Inv'
  OBVIOUS
<1> DEFINE out == IF test = 1 THEN Selected(buf) # query.arg ELSE Excluded(buf)
<1>1. AtEntry /\ pc = "verdict" /\ Asks /\ test \in 1..4
  BY DEF Inv, TypeOK, Walked, ReadFrom, Reading, AtEntry, Verdict
<1>2. ASSUME pid \in stays
      PROVE  /\ Needed \in flags
             /\ \E k \in past[pid] : Compared(pid, k, Tests[test]) <=> ~out
  <2>1. /\ flags = {"ids", "stat"} /\ past[pid] \subseteq Kinds
        /\ (\E k \in past[pid] : IdsFrom(k)) /\ (\E k \in past[pid] : StatFrom(k))
    BY <1>1, <1>2, StaysShown DEF Inv, Walked, ReadFrom, TypeOK
  <2>2. PICK k1 \in past[pid] : IdsFrom(k1)
    BY <2>1
  <2>3. PICK k2 \in past[pid] : StatFrom(k2)
    BY <2>1
  <2>4. ASSUME test = 1, query.which = "RUID" PROVE Compared(pid, k1, Tests[test]) <=> ~out
    BY <2>2, <2>4 DEF IdsFrom, Compared, Meets, Selected, Tests
  <2>5. ASSUME test = 1, query.which \in {"PGRP", "SESSION", "TTY"}
        PROVE  Compared(pid, k2, Tests[test]) <=> ~out
    BY <2>3, <2>5 DEF StatFrom, Compared, Meets, Selected, Tests
  <2>6. ASSUME test = 2 PROVE Compared(pid, k2, Tests[test]) <=> ~out
    <3>1. (buf.tty = -1) <=> (k2.tty = 0)
      BY <2>1, <2>3, KindFacts DEF StatFrom, Tty
    <3>2. Tests[test] = "NOTTY" /\ "NOTTY" \in query.except
      BY <1>1, <2>6 DEF Asks, Applies, Tests
    <3>3. out <=> buf.tty = -1
      BY <2>6, <3>2 DEF Excluded
    <3> QED BY <3>1, <3>2, <3>3 DEF Compared, Meets
  <2>7. ASSUME test = 3 PROVE Compared(pid, k2, Tests[test]) <=> ~out
    <3>1. Tests[test] = "IDLE" /\ "IDLE" \in query.except
      BY <1>1, <2>7 DEF Asks, Applies, Tests
    <3>2. out <=> buf.state # "R"
      BY <2>7, <3>1 DEF Excluded
    <3> QED BY <2>3, <3>1, <3>2 DEF Compared, Meets, StatFrom
  <2>8. ASSUME test = 4 PROVE Compared(pid, k1, Tests[test]) <=> ~out
    <3>1. Tests[test] = "SYSTEM" /\ "SYSTEM" \in query.except
      BY <1>1, <2>8 DEF Asks, Applies, Tests
    <3>2. out <=> buf.uid = 0
      BY <2>8, <3>1 DEF Excluded
    <3> QED BY <2>2, <3>1, <3>2 DEF Compared, Meets, IdsFrom
  <2> HIDE DEF out
  <2>9. \E k \in past[pid] : Compared(pid, k, Tests[test]) <=> ~out
    BY <1>1, <2>4, <2>5, <2>6, <2>7, <2>8 DEF Asks
  <2> QED BY <2>1, <2>9 DEF Needed
<1> HIDE DEF out
<1>3. IF Needed \in flags /\ out THEN Continue ELSE Passes
  BY DEF Verdict, out
<1> QED BY <1>1, <1>2, <1>3, EntryInv DEF Verdict

-----------------------------------------------------------------------------

LEMMA NextInv == Inv /\ [Next]_vars => Inv'
<1> SUFFICES ASSUME Inv, [Next]_vars PROVE Inv'
  OBVIOUS
<1>1. CASE \E p \in Pids : End(p) \/ \E k \in Kinds : Start(p, k) \/ Change(p, k)
  BY <1>1, EventInv
<1>2. CASE Walk
  BY <1>2, OpenInv, DirInv, SkippedInv, ComparePidInv, StatUidInv, AskInv, ReadFirstInv, ReadSecondInv,
     VerdictInv DEF Walk
<1>3. CASE UNCHANGED vars
  <2>1. UNCHANGED <<proc, events, stays, past, query, pc, test, pid, flags, buf, pids>>
    BY <1>3 DEF vars, kernel
  <2>2. TypeOK' /\ Shown'
    BY <2>1 DEF Inv, TypeOK, Walked, Shown
  <2> QED BY <2>1, <2>2, KernelInv
<1> QED BY <1>1, <1>2, <1>3 DEF Next, Returned

LEMMA Invariance == Spec => []Inv
BY InitInv, NextInv, PTL DEF Spec

\* Entries, buffer and array keep their types.
THEOREM TypeCorrect == Spec => []TypeOK
<1>1. Inv => TypeOK
  BY DEF Inv
<1> QED BY <1>1, Invariance, PTL

\* To a process that has its own rights only, what is compared is what was asked for.
LEMMA OwnCompared ==
  ASSUME NEW p, NEW k \in past[p], NEW i \in 1..4, i = 1 => OwnRights(p)
  PROVE  Compared(p, k, Tests[i]) <=> Meets(p, k, Tests[i])
<1>1. CASE i = 1 /\ query.which = "RUID"
  <2>1. k.uid = k.euid /\ Tests[i] = "which"
    BY <1>1 DEF OwnRights, Tests
  <2> QED BY <1>1, <2>1 DEF Compared, Meets
<1>2. CASE query.which # "RUID"
  BY <1>2 DEF Compared
<1>3. CASE i # 1
  BY <1>3 DEF Compared, Tests
<1> QED BY <1>1, <1>2, <1>3

\* A process that is there during the whole call of glibtop_get_proclist_s, and fits at
\* each moment of it, is in the list; for the real user, if it is the effective one too.
THEOREM ListsWhatFitsCorrect == Spec => []ListsWhatFits
<1>1. Inv => ListsWhatFits
  <2> SUFFICES ASSUME Inv, pc = "done", NEW p \in stays, OwnRights(p),
                      \A k \in past[p], i \in 1..4 : Meets(p, k, Tests[i])
               PROVE  p \in pids
    BY DEF ListsWhatFits
  <2>1. ASSUME NEW k \in past[p], NEW i \in 1..4 PROVE Compared(p, k, Tests[i])
    BY <2>1, OwnCompared
  <2> QED BY <2>1 DEF Inv, Walked, FittingListed, Through, Fits
<1> QED BY <1>1, Invariance, PTL

\* A process in the list that is there during the whole call passed each test with
\* something it showed.
THEOREM ListsNothingElseCorrect == Spec => []ListsNothingElse
<1>1. Inv => ListsNothingElse
  <2> SUFFICES ASSUME Inv, NEW p \in stays \cap pids, NEW i \in 1..4, i = 1 => OwnRights(p)
               PROVE  \E k \in past[p] : Meets(p, k, Tests[i])
    BY DEF ListsNothingElse
  <2>1. PICK k \in past[p] : Compared(p, k, Tests[i])
    BY DEF Inv, Walked, ListedFitting
  <2> QED BY <2>1, OwnCompared
<1> QED BY <1>1, Invariance, PTL
=============================================================================
