--------------------------- MODULE Partitions_proofs ---------------------------
(***************************************************************************)
(* The properties of Partitions, for listings of every length.             *)
(***************************************************************************)
EXTENDS Partitions, TLAPS

\* A line is read from or behind the array's last entry, and leads to a level.
LEMMA MoveWithin ==
  ASSUME TypeOK, NEW type \in Types
  PROVE  /\ Move(type) \in [back : {0, 1}, level : 0..3, more : {0, 1}]
         /\ Move(type).back = 1 => tlvl > 0
         /\ Move(type).level > 0 /\ Move(type).more = 1 => tlvl > 0 /\ Move(type).back = 0
         /\ Move(type).level > 0 /\ tlvl = 0 => Move(type).back = 0
         /\ Move(type).level = 0 /\ tlvl > 0 => Move(type).more = 1 /\ Move(type).back = 1
         /\ Move(type).more = 1 /\ Move(type).back = 1 => Move(type).level = 0
<1>0. tlvl \in 0..3
  BY DEF TypeOK
<1>1. CASE type = "disk"
  <2>1. CASE tlvl = 0
    <3>1. Move(type) = [back |-> 0, level |-> 0, more |-> 1]
      BY <1>1, <2>1 DEF Move, Goes
    <3>q. QED
      BY <2>1, <3>1
  <2>2. CASE tlvl > 0
    <3>1. Move(type) = [back |-> 1, level |-> 0, more |-> 1]
      BY <1>1, <2>2 DEF Move, Goes
    <3>q. QED
      BY <2>2, <3>1
  <2>q. QED
    BY <1>0, <2>1, <2>2
<1>2. CASE type # "disk" /\ tlvl = 0
  BY <1>2 DEF Move, OnDisk, Stays, Goes, TypeOK, Types
<1>3. CASE type # "disk" /\ tlvl = 1
  BY <1>3 DEF Move, OnPart, Stays, Goes, TypeOK, Types
<1>4. CASE type # "disk" /\ tlvl = 2
  BY <1>4 DEF Move, OnVolume, Stays, Goes, TypeOK, Types
<1>5. CASE type # "disk" /\ tlvl = 3
  BY <1>5 DEF Move, OnRaidVolume, Stays, Goes, TypeOK, Types
<1>q. QED
  BY <1>1, <1>2, <1>3, <1>4, <1>5 DEF TypeOK

\* While the kernel's lines are walked the line read next is behind the disks that are
\* kept and the lines that were skipped, and each disk kept has a line of its own before it.
Walked ==
  /\ \/ i <= ndisk /\ p = 1 + i + Len(lines) - ndisk
     \/ i = ndisk + 1 /\ p = Len(lines) + 1
  /\ pc = "scan" => i = 0
  /\ pc = "done" => i >= ndisk
  /\ \A d \in 0..ndisk - 1 :
       d < i => disk[d] > 0 /\ disk[d] < p /\ (d > 0 => disk[d - 1] < disk[d])

LEMMA LinesBounded ==
  ASSUME lines \in Listings
  PROVE  /\ Len(lines) \in 0..MaxLines /\ lines \in [1..Len(lines) -> Types]
         /\ Len(lines) \in Nat /\ MaxLines \in Nat
BY PartitionsAssumption DEF Listings

LEMMA Begins == Init => TypeOK /\ Walked
<1> SUFFICES ASSUME Init PROVE TypeOK /\ Walked
  OBVIOUS
<1>1. Len(lines) \in 0..MaxLines /\ Len(lines) \in Nat /\ MaxLines \in Nat
  BY LinesBounded DEF Init
<1>2. stats \in [1..Len(lines) -> 1..Len(lines)]
  BY DEF Init, Orders
<1>3. part \in [Slots -> Entries] /\ disk \in [Slots -> 0..Len(lines)]
  BY <1>1 DEF Init, Entries
<1>q. QED
  BY <1>1, <1>2, <1>3 DEF Init, TypeOK, Walked

LEMMA ScanLineTyped == TypeOK /\ Walked /\ ScanLine => TypeOK' /\ Walked'
<1> SUFFICES ASSUME TypeOK, Walked, ScanLine PROVE TypeOK' /\ Walked'
  OBVIOUS
<1> DEFINE type == lines[m + 1]
<1> DEFINE go == Move(type)
<1>1. /\ Len(lines) \in 0..MaxLines /\ Len(lines) \in Nat /\ MaxLines \in Nat
      /\ lines \in [1..Len(lines) -> Types]
  BY LinesBounded DEF TypeOK
<1>2. type \in Types
  BY <1>1 DEF TypeOK, ScanLine
<1>3. /\ go \in [back : {0, 1}, level : 0..3, more : {0, 1}]
      /\ go.back = 1 => tlvl > 0
      /\ go.level > 0 /\ go.more = 1 => tlvl > 0 /\ go.back = 0
      /\ go.level > 0 /\ tlvl = 0 => go.back = 0
      /\ go.level = 0 /\ tlvl > 0 => go.more = 1 /\ go.back = 1
      /\ go.more = 1 /\ go.back = 1 => go.level = 0
  BY <1>2, MoveWithin
<1>4. /\ m' = m + 1 /\ tlvl' = go.level /\ max' = max + go.more /\ n' = n - go.back + 1
      /\ part' = [part EXCEPT ![n - go.back] = [name |-> m + 1, type |-> type]]
      /\ m < Len(lines) /\ pc = "scan" /\ UNCHANGED <<tree, pc, walk>>
  BY DEF ScanLine
<1> HIDE DEF type, go
<1>5. n - go.back \in 0..m
  BY <1>3 DEF TypeOK
<1>6. n - go.back \in Slots
  BY <1>1, <1>4, <1>5 DEF Slots, TypeOK
<1>7. [name |-> m + 1, type |-> type] \in Entries
  BY <1>1, <1>2, <1>4 DEF Entries, TypeOK
<1>8. part' \in [Slots -> Entries]
  BY <1>4, <1>6, <1>7 DEF TypeOK
<1>9. \A e \in 0..n' - 1 : part'[e].name \in 1..m'
  <2> SUFFICES ASSUME NEW e \in 0..n' - 1 PROVE part'[e].name \in 1..m'
    OBVIOUS
  <2>1. e \in Slots /\ (e = n - go.back \/ e \in 0..n - 1)
    <3>1. n \in Nat /\ go.back \in {0, 1} /\ n' = n - go.back + 1
      BY <1>1, <1>3, <1>4 DEF TypeOK
    <3>q. QED
      BY <3>1, <1>1, <1>6 DEF Slots
  <2>2. CASE e = n - go.back
    BY <2>1, <2>2, <1>1, <1>4, <1>6 DEF TypeOK
  <2>3. CASE e # n - go.back
    BY <2>1, <2>3, <1>1, <1>4, <1>6 DEF TypeOK
  <2>q. QED
    BY <2>2, <2>3
<1>10. m' \in 0..Len(lines) /\ n' \in 0..m' /\ tlvl' \in 0..3 /\ max' \in 0..n' /\ (tlvl' > 0 => max' < n')
  <2>1. m' \in 0..Len(lines) /\ n' \in 0..m' /\ tlvl' \in 0..3
    BY <1>1, <1>3, <1>4, <1>5 DEF TypeOK
  <2>2. CASE tlvl = 0
    BY <2>1, <2>2, <1>3, <1>4 DEF TypeOK
  <2>3. CASE tlvl > 0
    BY <2>1, <2>3, <1>3, <1>4 DEF TypeOK
  <2>q. QED
    BY <2>2, <2>3 DEF TypeOK
<1>q. QED
  BY <1>4, <1>8, <1>9, <1>10 DEF TypeOK, Walked, tree, walk

LEMMA ReadLineTyped == TypeOK /\ Walked /\ ReadLine => TypeOK' /\ Walked'
<1> SUFFICES ASSUME TypeOK, Walked, ReadLine PROVE TypeOK' /\ Walked'
  OBVIOUS
<1> DEFINE line == IF Raw(p) THEN p + 1 ELSE p
<1>1. /\ Len(lines) \in 0..MaxLines /\ Len(lines) \in Nat /\ MaxLines \in Nat
  BY LinesBounded DEF TypeOK
<1>2. /\ i < ndisk /\ i' = i + 1 /\ ndisk' = (IF Raw(p) THEN ndisk - 1 ELSE ndisk)
      /\ disk' = [disk EXCEPT ![i] = IF line \in 1..Len(lines) THEN line ELSE 0]
      /\ p' = (IF line > Len(lines) THEN Len(lines) + 1 ELSE line + 1)
      /\ pc = "walk" /\ UNCHANGED <<tree, pc, scan>>
  BY DEF ReadLine
<1>3. p = 1 + i + Len(lines) - ndisk /\ p \in 1..Len(lines) /\ i \in Slots /\ i \in Nat
      /\ ndisk \in Nat
  BY <1>1, <1>2 DEF TypeOK, Walked, Slots
<1>4. disk \in [Slots -> 0..Len(lines)] /\ ndisk \in 0..Len(lines)
  BY DEF TypeOK
<1>5. line = (IF Raw(p) THEN p + 1 ELSE p)
  OBVIOUS
<1> HIDE DEF line
<1>6. /\ p' \in 1..Len(lines) + 1 /\ i' \in 0..Len(lines) /\ ndisk' \in 0..Len(lines)
      /\ \/ i' <= ndisk' /\ p' = 1 + i' + Len(lines) - ndisk'
         \/ i' = ndisk' + 1 /\ p' = Len(lines) + 1 /\ i = ndisk'
  <2>1. CASE Raw(p)
    BY <1>1, <1>2, <1>3, <1>5, <2>1 DEF TypeOK
  <2>2. CASE ~Raw(p)
    BY <1>1, <1>2, <1>3, <1>5, <2>2 DEF TypeOK
  <2>q. QED
    BY <2>1, <2>2
<1>7. disk' \in [Slots -> 0..Len(lines)]
  BY <1>1, <1>2, <1>3, <1>4
<1>8. i < ndisk' => disk'[i] > 0 /\ disk'[i] >= p /\ disk'[i] < p'
  <2>1. CASE Raw(p)
    BY <1>1, <1>2, <1>3, <1>4, <1>5, <2>1
  <2>2. CASE ~Raw(p)
    BY <1>1, <1>2, <1>3, <1>4, <1>5, <2>2
  <2>q. QED
    BY <2>1, <2>2
<1>9. ndisk' <= ndisk /\ p <= p'
  <2>1. CASE Raw(p)
    BY <1>1, <1>2, <1>3, <1>5, <2>1
  <2>2. CASE ~Raw(p)
    BY <1>1, <1>2, <1>3, <1>5, <2>2
  <2>q. QED
    BY <2>1, <2>2
<1>10. ASSUME NEW d \in Int, 0 <= d, d < ndisk', d < i'
       PROVE  disk'[d] > 0 /\ disk'[d] < p' /\ (d > 0 => disk'[d - 1] < disk'[d])
  <2>1. d \in 0..ndisk - 1 /\ (d = i \/ d < i) /\ d \in Slots /\ (d > 0 => d - 1 \in Slots)
    BY <1>1, <1>2, <1>3, <1>6, <1>9, <1>10, <1>4 DEF Slots
  <2>2. CASE d = i
    <3>1. d > 0 => disk[d - 1] < p /\ disk'[d - 1] = disk[d - 1] /\ disk[d - 1] \in 0..Len(lines)
      BY <2>1, <2>2, <1>1, <1>2, <1>3, <1>4 DEF Walked
    <3>2. disk'[d] > 0 /\ disk'[d] >= p /\ disk'[d] < p'
      <4>1. i < ndisk'
        BY <1>10, <2>2
      <4>q. QED
        BY <4>1, <2>2, <1>8
    <3>3. disk'[d] \in Int /\ p \in Int
      BY <2>1, <1>1, <1>3, <1>7
    <3>q. QED
      BY <3>1, <3>2, <3>3, <1>1
  <2>3. CASE d < i
    <3>1. disk'[d] = disk[d] /\ (d > 0 => disk'[d - 1] = disk[d - 1])
      BY <2>1, <2>3, <1>2, <1>3, <1>4
    <3>2. disk[d] > 0 /\ disk[d] < p /\ (d > 0 => disk[d - 1] < disk[d])
      BY <2>1, <2>3 DEF Walked
    <3>q. QED
      BY <2>1, <3>1, <3>2, <1>1, <1>3, <1>4, <1>6, <1>9
  <2>q. QED
    BY <2>1, <2>2, <2>3
<1>11. TypeOK'
  BY <1>2, <1>6, <1>7 DEF TypeOK, tree, scan
<1>12. Walked'
  <2>1. \A d \in 0..ndisk' - 1 :
          d < i' => disk'[d] > 0 /\ disk'[d] < p' /\ (d > 0 => disk'[d - 1] < disk'[d])
    <3>0. ndisk' \in Int
      <4>1. \A N \in Nat : \A x \in 0..N : x \in Int
        OBVIOUS
      <4>q. QED
        BY <4>1, <1>1, <1>6
    <3>1. \A d \in 0..ndisk' - 1 : d \in Int /\ 0 <= d /\ d < ndisk'
      <4>1. \A x \in Int : \A d \in 0..x - 1 : d \in Int /\ 0 <= d /\ d < x
        OBVIOUS
      <4>q. QED
        BY <3>0, <4>1, Zenon
    <3>q. QED
      BY <3>1, <1>10
  <2>q. QED
    BY <1>2, <1>6, <2>1 DEF Walked, tree
<1>q. QED
  BY <1>11, <1>12

LEMMA StepTyped == TypeOK /\ Walked /\ [Next]_vars => TypeOK' /\ Walked'
<1> SUFFICES ASSUME TypeOK, Walked, [Next]_vars PROVE TypeOK' /\ Walked'
  OBVIOUS
<1>1. CASE ScanLine
  BY <1>1, ScanLineTyped
<1>2. CASE ReadLine
  BY <1>2, ReadLineTyped
<1>3. CASE ScanEnd
  BY <1>3, LinesBounded DEF ScanEnd, TypeOK, Walked, tree, scan, walk
<1>4. CASE WalkEnd
  BY <1>4, LinesBounded DEF WalkEnd, TypeOK, Walked, tree, scan, walk
<1>5. CASE UNCHANGED vars
  BY <1>5 DEF TypeOK, Walked, vars, tree, scan, walk
<1>q. QED
  BY <1>1, <1>2, <1>3, <1>4, <1>5 DEF Next, Returned

\* Whatever lsblk prints, and whatever the stack held, find_primary_part never goes
\* before its array and never compares an entry it has not written.
THEOREM TypeCorrect == Spec => []TypeOK
<1>1. Spec => [](TypeOK /\ Walked)
  BY Begins, StepTyped, PTL DEF Spec
<1>q. QED
  BY <1>1, PTL

\* The loop of glibtop_get_disk_s reports lines the kernel has, each once, although it
\* counts ndisk down while it runs.
THEOREM DisksAreLinesCorrect == Spec => []DisksAreLines
<1>1. Spec => [](TypeOK /\ Walked)
  BY Begins, StepTyped, PTL DEF Spec
<1>2. TypeOK /\ Walked => DisksAreLines
  BY LinesBounded DEF TypeOK, Walked, DisksAreLines
<1>q. QED
  BY <1>1, <1>2, PTL

(* What is kept of a tree of the form find_primary_part is written for. *)

\* The level fits the line that was read last, ...
Fits(level, type) ==
  CASE type = "disk" -> level = 0 [] type = "part" -> level = 1 [] type = "raid" -> level = 2
    [] OTHER -> level \in {2, 3}

\* ... that line is in the last entry, which is behind the ones that are kept unless it
\* is a disk, and these are the devices of the lines before that have others on them.
Kept ==
  /\ pc # "scan" => m = Len(lines)
  /\ m = 0 => n = 0 /\ max = 0 /\ tlvl = 0
  /\ m > 0 => /\ Fits(tlvl, lines[m]) /\ n > 0 /\ lines[m] # "other"
              /\ part[n - 1].name = m /\ part[n - 1].type = lines[m]
  /\ n = max + (IF tlvl > 0 THEN 1 ELSE 0)
  /\ \A k \in 1..Len(lines) :
       (\E e \in 0..max - 1 : part[e].name = k)
         <=> k \in Underneath /\ (k < m \/ (k = m /\ lines[k] = "disk"))

KeptIfSupported == clean = Slots /\ Supported => Kept

\* The three things a line does: a disk is kept itself; the line is put in the entry
\* behind those kept; or the entry before it is kept, and the line put behind that.
LEMMA SupportedMove ==
  ASSUME TypeOK, Kept, Supported, clean = Slots, m < Len(lines)
  PROVE  LET type == lines[m + 1]
             go == Move(type)
         IN /\ Fits(go.level, type)
            /\ \/ type = "disk" /\ n - go.back = max /\ go.more = 1 /\ (m > 0 /\ lines[m] # "disk" => m \notin Underneath)
               \/ type # "disk" /\ n - go.back = max /\ go.more = 0 /\ (m > 0 /\ lines[m] # "disk" => m \notin Underneath)
               \/ /\ type # "disk" /\ go.back = 0 /\ go.more = 1 /\ n = max + 1
                  /\ m > 0 /\ lines[m] # "disk" /\ m \in Underneath
<1> DEFINE type == lines[m + 1]
<1> DEFINE go == Move(type)
<1>1. /\ Len(lines) \in Nat /\ lines \in [1..Len(lines) -> Types] /\ m \in Nat /\ tlvl \in 0..3
      /\ n \in Nat /\ max \in Nat /\ m + 1 \in 1..Len(lines) /\ type \in Types
      /\ n \in 0..m /\ Len(lines) <= MaxLines /\ MaxLines \in Nat
  BY LinesBounded DEF TypeOK
<1>2. /\ type # "other" /\ (m = 0 => type = "disk")
      /\ (m > 0 /\ type = "raid" => lines[m] = "part")
      /\ (m > 0 /\ type = "lvm" => lines[m] \in {"part", "raid", "lvm"})
  <2>1. m + 1 > 1 <=> m > 0
    BY <1>1
  <2>2. (m + 1) - 1 = m /\ (m + 1 = 1 <=> m = 0)
    BY <1>1
  <2>3. /\ lines[m + 1] # "other" /\ (m + 1 = 1 => lines[m + 1] = "disk")
        /\ (m + 1 > 1 /\ lines[m + 1] = "raid" => lines[(m + 1) - 1] = "part")
        /\ (m + 1 > 1 /\ lines[m + 1] = "lvm" => lines[(m + 1) - 1] \in {"part", "raid", "lvm"})
    BY <1>1 DEF Supported
  <2>q. QED
    BY <2>1, <2>2, <2>3
<1>3. m > 0 => (m \in Underneath <=> \/ lines[m] = "disk"
                                     \/ lines[m] = "part" /\ type \in {"lvm", "raid"}
                                     \/ lines[m] = "raid" /\ type = "lvm")
  <2> SUFFICES ASSUME m > 0
               PROVE  m \in Underneath <=> \/ lines[m] = "disk"
                                           \/ lines[m] = "part" /\ lines[m + 1] \in {"lvm", "raid"}
                                           \/ lines[m] = "raid" /\ lines[m + 1] = "lvm"
    OBVIOUS
  <2>1. m \in 1..Len(lines)
    BY <1>1
  <2>q. QED
    BY <2>1, <1>1 DEF Underneath
<1>4. n = max + (IF tlvl > 0 THEN 1 ELSE 0)
  BY DEF Kept
<1>5. CASE m = 0
  <2>1. go = [back |-> 0, level |-> 0, more |-> 1]
    BY <1>2, <1>5 DEF Kept, Move, Goes
  <2>q. QED
    BY <1>1, <1>2, <1>4, <1>5, <2>1 DEF Kept, Fits
<1>6. CASE m > 0
  <2>1. /\ Fits(tlvl, lines[m]) /\ lines[m] \in {"disk", "part", "raid", "lvm"} /\ n > 0
        /\ n - 1 \in clean
    <3>0. lines[m] # "other" /\ n > 0
      BY <1>6 DEF Kept
    <3>1. m \in 1..Len(lines) /\ lines[m] \in Types /\ lines[m] # "other" /\ n > 0
      BY <1>1, <1>6, <3>0
    <3>2. n - 1 \in Slots
      BY <1>1, <3>1 DEF Slots
    <3>q. QED
      BY <1>6, <3>1, <3>2 DEF Kept, Types
  <2>2. \A t \in Types : Before(t) <=> lines[m] = t
    BY <1>6, <2>1 DEF Kept, Before
  <2>3. type \in {"disk", "part", "raid", "lvm"}
    BY <1>1, <1>2 DEF Types
  <2>4. CASE type = "disk"
    <3>1. go = [back |-> IF tlvl > 0 THEN 1 ELSE 0, level |-> 0, more |-> 1]
      BY <2>4 DEF Move, Goes
    <3>q. QED
      BY <3>1, <2>4, <1>1, <1>3, <1>4, <1>6 DEF Fits
  <2>5. CASE lines[m] = "disk" /\ type # "disk"
    <3>1. type = "part" /\ tlvl = 0
      BY <2>1, <2>3, <2>5, <1>2, <1>6 DEF Fits
    <3>2. go = [back |-> 0, level |-> 1, more |-> 0]
      BY <3>1 DEF Move, OnDisk, Goes
    <3>q. QED
      BY <3>1, <3>2, <2>5, <1>1, <1>4 DEF Fits
  <2>6. CASE lines[m] = "part" /\ type # "disk"
    <3>1. tlvl = 1 /\ type \in {"part", "raid", "lvm"}
      BY <2>1, <2>3, <2>6 DEF Fits
    <3>2. go = IF type = "part" THEN [back |-> 1, level |-> 1, more |-> 0]
                                ELSE [back |-> 0, level |-> 2, more |-> 1]
      BY <3>1 DEF Move, OnPart, Goes
    <3>3. CASE type = "part"
      BY <3>1, <3>2, <3>3, <2>6, <1>1, <1>3, <1>4, <1>6 DEF Fits
    <3>4. CASE type # "part"
      BY <3>1, <3>2, <3>4, <2>6, <1>1, <1>3, <1>4, <1>6 DEF Fits
    <3>q. QED
      BY <3>3, <3>4
  <2>7. CASE lines[m] = "raid" /\ type # "disk"
    <3>1. tlvl = 2 /\ type \in {"part", "lvm"} /\ Before("raid") /\ ~Before("lvm")
      BY <2>1, <2>2, <2>3, <2>7, <1>2, <1>6 DEF Fits, Types
    <3>2. go = IF type = "part" THEN [back |-> 1, level |-> 1, more |-> 0]
                                ELSE [back |-> 0, level |-> 3, more |-> 1]
      <4>1. go = OnVolume(type)
        BY <3>1 DEF Move
      <4>q. QED
        BY <3>1, <4>1 DEF OnVolume, Goes
    <3>q. QED
      BY <3>1, <3>2, <2>7, <1>1, <1>3, <1>4, <1>6 DEF Fits
  <2>8. CASE lines[m] = "lvm" /\ type # "disk"
    <3>1. tlvl \in {2, 3} /\ type \in {"part", "lvm"} /\ Before("lvm") /\ ~Before("raid")
      BY <2>1, <2>2, <2>3, <2>8, <1>2, <1>6 DEF Fits, Types
    <3>2. go = IF type = "part" THEN [back |-> 1, level |-> 1, more |-> 0]
                                ELSE [back |-> 1, level |-> tlvl, more |-> 0]
      <4>1. CASE tlvl = 2
        <5>1. go = OnVolume(type)
          BY <3>1, <4>1 DEF Move
        <5>q. QED
          BY <3>1, <4>1, <5>1 DEF OnVolume, Goes
      <4>2. CASE tlvl = 3
        <5>1. go = OnRaidVolume(type)
          BY <3>1, <4>2 DEF Move
        <5>q. QED
          BY <3>1, <4>2, <5>1 DEF OnRaidVolume, Goes
      <4>q. QED
        BY <3>1, <4>1, <4>2
    <3>q. QED
      BY <3>1, <3>2, <2>8, <1>1, <1>3, <1>4, <1>6 DEF Fits
  <2>q. QED
    BY <2>1, <2>4, <2>5, <2>6, <2>7, <2>8
<1>q. QED
  BY <1>1, <1>5, <1>6

LEMMA ScanLineKeeps ==
  ASSUME TypeOK, Kept, Supported, clean = Slots, ScanLine
  PROVE  Kept'
<1> DEFINE type == lines[m + 1]
<1> DEFINE go == Move(type)
<1>1. /\ Len(lines) \in 0..MaxLines /\ Len(lines) \in Nat /\ MaxLines \in Nat
      /\ lines \in [1..Len(lines) -> Types] /\ m \in Nat /\ n \in Nat /\ max \in Nat
      /\ max <= n /\ n <= m /\ part \in [Slots -> Entries]
  BY LinesBounded DEF TypeOK
<1>2. /\ m' = m + 1 /\ tlvl' = go.level /\ max' = max + go.more /\ n' = n - go.back + 1
      /\ part' = [part EXCEPT ![n - go.back] = [name |-> m + 1, type |-> type]]
      /\ m < Len(lines) /\ pc = "scan" /\ pc' = pc /\ lines' = lines
  BY DEF ScanLine, tree
<1>3. /\ Fits(go.level, type)
      /\ \/ type = "disk" /\ n - go.back = max /\ go.more = 1 /\ (m > 0 /\ lines[m] # "disk" => m \notin Underneath)
         \/ type # "disk" /\ n - go.back = max /\ go.more = 0 /\ (m > 0 /\ lines[m] # "disk" => m \notin Underneath)
         \/ /\ type # "disk" /\ go.back = 0 /\ go.more = 1 /\ n = max + 1
            /\ m > 0 /\ lines[m] # "disk" /\ m \in Underneath
  BY <1>2, SupportedMove
<1>4. type \in Types /\ type # "other" /\ m + 1 \in 1..Len(lines)
  <2>1. m < Len(lines)
    BY <1>2
  <2>2. m + 1 \in 1..Len(lines)
    BY <2>1, <1>1
  <2>q. QED
    BY <2>2, <1>1 DEF Supported
<1>5. (type = "disk" <=> go.level = 0) /\ go.level \in 0..3
  BY <1>3, <1>4 DEF Fits, Types
<1>6. Underneath' = Underneath
  BY <1>2 DEF Underneath
<1>7. type = "disk" => m + 1 \in Underneath
  BY <1>4 DEF Underneath
<1>8. go.back \in {0, 1}
  BY <1>4, MoveWithin
<1> HIDE DEF type, go
<1>9. n - go.back \in Slots
  <2>1. n - go.back \in 0..m
    BY <1>1, <1>3, <1>8
  <2>q. QED
    BY <1>1, <1>2, <2>1 DEF Slots
<1>10. n' - 1 = n - go.back /\ n' = max' + (IF tlvl' > 0 THEN 1 ELSE 0)
  <2>1. CASE go.level = 0
    BY <1>1, <1>2, <1>3, <1>5, <1>8, <2>1
  <2>2. CASE go.level > 0
    BY <1>1, <1>2, <1>3, <1>5, <1>8, <2>2
  <2>q. QED
    BY <1>5, <2>1, <2>2
<1>11. part'[n' - 1].name = m' /\ part'[n' - 1].type = lines'[m']
  BY <1>1, <1>2, <1>9, <1>10 DEF type
<1>12. \A e \in Slots : e # n - go.back => part'[e] = part[e]
  BY <1>1, <1>2, <1>9
<1>13. \A e \in 0..max - 1 : e \in Slots /\ e # n - go.back
  BY <1>1, <1>2, <1>3, <1>8 DEF Slots
<1>14. ASSUME NEW k \in 1..Len(lines)
       PROVE  (\E e \in 0..max' - 1 : part'[e].name = k)
                <=> k \in Underneath /\ (k < m + 1 \/ (k = m + 1 /\ type = "disk"))
  <2>1. (\E e \in 0..max - 1 : part'[e].name = k)
          <=> k \in Underneath /\ (k < m \/ (k = m /\ lines[k] = "disk"))
    <3>1. (\E e \in 0..max - 1 : part'[e].name = k) <=> (\E e \in 0..max - 1 : part[e].name = k)
      BY <1>12, <1>13
    <3>q. QED
      BY <3>1, <1>14 DEF Kept
  <2>2. part'[n - go.back].name = m + 1
    BY <1>2, <1>10, <1>11
  <2>3. CASE type = "disk"
    <3>1. n - go.back = max /\ max' = max + 1
      BY <1>2, <1>3, <2>3
    <3>2. (\E e \in 0..max' - 1 : part'[e].name = k)
            <=> (\E e \in 0..max - 1 : part'[e].name = k) \/ m + 1 = k
      <4>1. \A e : e \in 0..max' - 1 <=> e \in 0..max - 1 \/ e = max
        BY <1>1, <3>1
      <4>q. QED
        BY <4>1, <3>1, <2>2
    <3>q. QED
      BY <1>1, <1>3, <1>7, <2>1, <2>3, <3>2
  <2>4. CASE type # "disk" /\ go.more = 0
    <3>1. max' = max /\ (m > 0 /\ lines[m] # "disk" => m \notin Underneath)
      BY <1>1, <1>2, <1>3, <2>4
    <3>q. QED
      BY <1>1, <2>1, <2>4, <3>1
  <2>5. CASE type # "disk" /\ go.more = 1
    <3>1. n - go.back = max + 1 /\ max' = max + 1 /\ n - 1 = max
          /\ m > 0 /\ lines[m] # "disk" /\ m \in Underneath
      BY <1>1, <1>2, <1>3, <2>5
    <3>2. part'[max].name = m
      <4>1. max \in Slots /\ max # n - go.back
        BY <1>1, <1>9, <3>1 DEF Slots
      <4>2. part[max].name = m
        BY <3>1 DEF Kept
      <4>q. QED
        BY <4>1, <4>2, <1>12
    <3>3. (\E e \in 0..max' - 1 : part'[e].name = k)
            <=> (\E e \in 0..max - 1 : part'[e].name = k) \/ m = k
      <4>1. \A e : e \in 0..max' - 1 <=> e \in 0..max - 1 \/ e = max
        BY <1>1, <3>1
      <4>q. QED
        BY <4>1, <3>2
    <3>q. QED
      BY <1>1, <2>1, <2>5, <3>1, <3>3
  <2>q. QED
    BY <1>3, <2>3, <2>4, <2>5
<1>15. \A k \in 1..Len(lines') :
         (\E e \in 0..max' - 1 : part'[e].name = k)
           <=> k \in Underneath' /\ (k < m' \/ (k = m' /\ lines'[k] = "disk"))
  BY <1>2, <1>6, <1>14 DEF type
<1>16. n' > 0 /\ lines'[m'] # "other" /\ Fits(tlvl', lines'[m']) /\ m' > 0
  BY <1>1, <1>2, <1>3, <1>4, <1>8, <1>9 DEF type, Slots
<1>q. QED
  BY <1>2, <1>10, <1>11, <1>15, <1>16 DEF Kept, Fits

LEMMA StepKeeps == TypeOK /\ KeptIfSupported /\ [Next]_vars => KeptIfSupported'
<1> SUFFICES ASSUME TypeOK, KeptIfSupported, [Next]_vars, clean' = Slots, Supported'
             PROVE  Kept'
  BY DEF KeptIfSupported, Slots
<1>1. lines' = lines /\ clean' = clean
  BY DEF Next, ScanLine, ScanEnd, ReadLine, WalkEnd, Returned, vars, tree
<1>2. Supported /\ clean = Slots /\ Kept
  BY <1>1 DEF KeptIfSupported, Supported
<1>3. CASE ScanLine
  BY <1>2, <1>3, ScanLineKeeps
<1>4. CASE ~ScanLine
  <2>1. UNCHANGED <<lines, m, n, tlvl, max, part>> /\ (pc' # "scan" => pc # "scan" \/ m = Len(lines))
    BY <1>1, <1>4 DEF Next, ScanEnd, ReadLine, WalkEnd, Returned, vars, scan, tree
  <2>2. Underneath' = Underneath
    BY <2>1 DEF Underneath
  <2>q. QED
    BY <1>2, <2>1, <2>2 DEF Kept, Fits
<1>q. QED
  BY <1>3, <1>4

\* For a tree of disks, partitions, arrays and volumes of any size find_primary_part keeps
\* exactly the devices that have others on them.
THEOREM KeepsUnderneathCorrect == Spec => []KeepsUnderneath
<1>1. Init => KeptIfSupported
  <2> SUFFICES ASSUME Init PROVE Kept
    BY DEF KeptIfSupported
  <2>1. lines \in [1..Len(lines) -> Types] /\ Len(lines) \in Nat
    BY LinesBounded DEF Init
  <2>q. QED
    BY <2>1 DEF Init, Kept
<1>2. TypeOK /\ KeptIfSupported => KeepsUnderneath
  <2> SUFFICES ASSUME TypeOK, Kept, pc # "scan"
               PROVE  {part[e].name : e \in 0..max - 1} = Underneath
    BY DEF KeptIfSupported, KeepsUnderneath
  <2>1. /\ Len(lines) \in Nat /\ m = Len(lines) /\ max \in Nat /\ n \in Nat /\ max <= n
        /\ Underneath \subseteq 1..Len(lines) /\ Len(lines) <= MaxLines /\ n <= m /\ MaxLines \in Nat
    BY LinesBounded DEF TypeOK, Kept, Underneath
  <2>2. \A e \in 0..max - 1 : part[e].name \in 1..Len(lines)
    BY <2>1 DEF TypeOK, Slots, Entries
  <2>3. \A k \in 1..Len(lines) : (\E e \in 0..max - 1 : part[e].name = k) <=> k \in Underneath
    <3>1. \A k \in 1..Len(lines) : k \in Underneath /\ k = m => lines[k] = "disk"
      BY <2>1 DEF Underneath
    <3>q. QED
      BY <2>1, <3>1 DEF Kept
  <2>q. QED
    BY <2>1, <2>2, <2>3
<1>q. QED
  BY <1>1, <1>2, StepKeeps, TypeCorrect, PTL DEF Spec
=============================================================================
