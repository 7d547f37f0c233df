----------------------------- MODULE Partitions -----------------------------
(***************************************************************************)
(* glibtop_get_disk_s of Linux (sysdeps/linux/disk.c): which lines of      *)
(* /proc/diskstats are counted.  find_primary_part goes through the tree   *)
(* lsblk prints, line by line and without its indentation, and keeps in an *)
(* array what has other devices on it; the devices in the array are left   *)
(* out when the lines of the kernel are read.                              *)
(*                                                                         *)
(* A device is named by its line; an array lsblk prints under each of its  *)
(* disks is several devices.  The array of entries is on the stack:        *)
(* strncpy writes the four letters of "raid" and no end, and what is       *)
(* behind them is what was there before.                                   *)
(***************************************************************************)
EXTENDS Integers, Sequences, TLC

CONSTANT MaxLines     \* lines lsblk prints at most

ASSUME PartitionsAssumption == MaxLines \in Nat

\* disk stands for rom and loop too; other for crypt, mpath and the rest.
Types == {"disk", "part", "lvm", "raid", "other"}
Listings == UNION {[1..k -> Types] : k \in 0..MaxLines}
Slots == 0..MaxLines - 1
Entries == [name : 0..MaxLines, type : Types \cup {"none"}]

VARIABLES
  lines,      \* the types lsblk prints
  stats,      \* the lines of /proc/diskstats: the line of lsblk for each
  clean,      \* the slots where the stack happens to hold zeros
  pc,         \* "scan" of the tree, "walk" through the kernel's lines, "done"
  m,          \* lines of the tree that were read
  n,          \* index into the array
  tlvl,       \* level of the tree
  max,        \* primary_part->max
  part,       \* the array
  i,          \* disks that were read
  p,          \* the kernel's line
  ndisk,      \* server->ndisk
  disk        \* the line each disk was read from, or 0

tree == <<lines, stats, clean>>
scan == <<m, n, tlvl, max, part>>
walk == <<i, p, ndisk, disk>>
vars == <<tree, pc, scan, walk>>

\* The kernel has the disks with their partitions first, volumes behind them.
IsVolume(type) == type \in {"lvm", "raid", "other"}
Comes(k, l) == IF IsVolume(lines[k]) = IsVolume(lines[l]) THEN k < l ELSE IsVolume(lines[l])
Orders ==
  {o \in Permutations(1..Len(lines)) \cap [1..Len(lines) -> 1..Len(lines)] :
     \A a, b \in 1..Len(lines) : a < b => Comes(o[a], o[b])}

\* Each entry of the array that is looked at was written before.
TypeOK ==
  /\ lines \in Listings /\ stats \in [1..Len(lines) -> 1..Len(lines)] /\ clean \in SUBSET Slots
  /\ pc \in {"scan", "walk", "done"}
  /\ m \in 0..Len(lines) /\ n \in 0..m /\ tlvl \in 0..3 /\ max \in 0..n /\ (tlvl > 0 => max < n)
  /\ part \in [Slots -> Entries] /\ \A e \in 0..n - 1 : part[e].name \in 1..m
  /\ i \in 0..Len(lines) /\ p \in 1..Len(lines) + 1 /\ ndisk \in 0..Len(lines)
  /\ disk \in [Slots -> 0..Len(lines)]

Init ==
  /\ lines \in Listings /\ stats \in Orders /\ clean \in SUBSET Slots /\ pc = "scan"
  /\ m = 0 /\ n = 0 /\ tlvl = 0 /\ max = 0 /\ part = [k \in Slots |-> [name |-> 0, type |-> "none"]]
  /\ i = 0 /\ p = 1 /\ ndisk = Len(lines) /\ disk = [k \in Slots |-> 0]

-----------------------------------------------------------------------------
(* find_primary_part *)

Goes(back, level, more) == [back |-> back, level |-> level, more |-> more]
Stays == Goes(0, tlvl, 0)

\* strcmp with the type in the entry before.
Before(type) == part[n - 1].type = type /\ (type = "raid" => n - 1 \in clean)

\* Mutant: a partition behind a volume is put behind it.
OnVolumeKept(type) ==
  CASE type \in {"lvm", "raid"} /\ Before(type) -> Goes(1, 2, 0)
    [] type = "part" /\ (Before("lvm") \/ Before("raid")) -> Goes(0, 1, 0)
    [] type = "lvm" /\ Before("raid") -> Goes(0, 3, 1)
    [] OTHER -> Stays

\* What a line does on each level: whether it takes the place of the entry before, the
\* level it leads to, and whether that entry is one more to keep.
OnDisk(type) == IF type = "part" THEN Goes(0, 1, 0) ELSE Stays
OnPart(type) ==
  CASE type = "part" -> Goes(1, 1, 0) [] type \in {"lvm", "raid"} -> Goes(0, 2, 1) [] OTHER -> Stays
OnVolume(type) ==
  CASE type \in {"lvm", "raid"} /\ Before(type) -> Goes(1, 2, 0)
    [] type = "part" /\ (Before("lvm") \/ Before("raid")) -> Goes(1, 1, 0)
    [] type = "lvm" /\ Before("raid") -> Goes(0, 3, 1)
    [] OTHER -> Stays
OnRaidVolume(type) ==
  CASE type = "lvm" -> Goes(1, 3, 0) [] type = "raid" -> Goes(1, 2, 0) [] type = "part" -> Goes(1, 1, 0)
    [] OTHER -> Stays

\* Mutant: the index goes back before the first disk too.
MoveBack(type) ==
  IF type = "disk" THEN Goes(1, 0, 1)
  ELSE CASE tlvl = 0 -> OnDisk(type) [] tlvl = 1 -> OnPart(type)
         [] tlvl = 2 -> OnVolume(type) [] OTHER -> OnRaidVolume(type)

Move(type) ==
  IF type = "disk" THEN Goes(IF tlvl > 0 THEN 1 ELSE 0, 0, 1)
  ELSE CASE tlvl = 0 -> OnDisk(type) [] tlvl = 1 -> OnPart(type)
         [] tlvl = 2 -> OnVolume(type) [] OTHER -> OnRaidVolume(type)

ScanLine ==
  /\ pc = "scan" /\ m < Len(lines) /\ m' = m + 1
  /\ LET type == lines[m + 1]
         go == Move(type)
     IN /\ tlvl' = go.level /\ max' = max + go.more /\ n' = n - go.back + 1
        /\ part' = [part EXCEPT ![n - go.back] = [name |-> m + 1, type |-> type]]
  /\ UNCHANGED <<tree, pc, walk>>

ScanEnd == pc = "scan" /\ m = Len(lines) /\ pc' = "walk" /\ UNCHANGED <<tree, scan, walk>>

-----------------------------------------------------------------------------
(* The lines of the kernel. *)

\* is_virtual_drive: behind the last line there is none.  What the device mapper makes
\* has another name in the kernel than in lsblk.
Raw(k) ==
  \/ k > Len(lines)
  \/ lines[stats[k]] \notin {"lvm", "other"} /\ \E e \in 0..max - 1 : part[e].name = stats[k]

\* Mutant: ndisk stays when a line is skipped.
ReadLineCounts ==
  /\ pc = "walk" /\ i < ndisk /\ i' = i + 1
  /\ LET line == IF Raw(p) THEN p + 1 ELSE p
     IN /\ disk' = [disk EXCEPT ![i] = IF line \in 1..Len(lines) THEN line ELSE 0]
        /\ p' = IF line > Len(lines) THEN Len(lines) + 1 ELSE line + 1
  /\ UNCHANGED <<tree, pc, scan, ndisk>>

\* A raw device is skipped, and the line behind it is read whatever it is.
ReadLine ==
  /\ pc = "walk" /\ i < ndisk /\ i' = i + 1
  /\ ndisk' = IF Raw(p) THEN ndisk - 1 ELSE ndisk
  /\ LET line == IF Raw(p) THEN p + 1 ELSE p
     IN /\ disk' = [disk EXCEPT ![i] = IF line \in 1..Len(lines) THEN line ELSE 0]
        /\ p' = IF line > Len(lines) THEN Len(lines) + 1 ELSE line + 1
  /\ UNCHANGED <<tree, pc, scan>>

WalkEnd == pc = "walk" /\ i >= ndisk /\ pc' = "done" /\ UNCHANGED <<tree, scan, walk>>

Returned == pc = "done" /\ UNCHANGED vars

Next == ScanLine \/ ScanEnd \/ ReadLine \/ WalkEnd \/ Returned

Spec == Init /\ [][Next]_vars

-----------------------------------------------------------------------------

\* The trees disk.c:59-62 speaks of: a disk, partitions on it, on a partition volumes or
\* one array, on an array volumes.
Supported ==
  \A k \in 1..Len(lines) :
    /\ lines[k] # "other" /\ (k = 1 => lines[k] = "disk")
    /\ k > 1 /\ lines[k] = "raid" => lines[k - 1] = "part"
    /\ k > 1 /\ lines[k] = "lvm" => lines[k - 1] \in {"part", "raid", "lvm"}

\* Disks, and what has something on it.
Underneath ==
  {k \in 1..Len(lines) : \/ lines[k] = "disk"
                         \/ k < Len(lines) /\ lines[k] = "part" /\ lines[k + 1] \in {"lvm", "raid"}
                         \/ k < Len(lines) /\ lines[k] = "raid" /\ lines[k + 1] = "lvm"}

\* For each tree of that form the array has exactly the devices that have others on
\* them, though lsblk's indentation is thrown away before it is read.
KeepsUnderneath ==
  (pc # "scan" /\ clean = Slots /\ Supported) => {part[e].name : e \in 0..max - 1} = Underneath

\* Whatever lsblk printed, each of the first ndisk disks was read from a line of its own
\* that is there: skipping, and counting down while the loop runs, never leaves one that
\* was read behind the last line.
DisksAreLines ==
  pc = "done" => \A d \in 0..ndisk - 1 : disk[d] > 0 /\ (d > 0 => disk[d - 1] < disk[d])

\* "skip if disk is the raw device", disk.c:259: none of the disks is one of those.
RawSkipped == pc = "done" => \A d \in 0..ndisk - 1 : ~Raw(disk[d])
=============================================================================
