--------------------------- MODULE CommonGetters ---------------------------
(***************************************************************************)
(* sysdeps/common: the file system getters of every system that has none   *)
(* of its own.  The list of mounted file systems is read in one of several *)
(* ways, which the build chooses.                                          *)
(***************************************************************************)
EXTENDS Skeleton

CommonFsusage == Getter({}, <<Zero, IfRefused(<<Return>>), Put("all"), Set("all")>>)

\* The nodes of the list, when there are any.
Nodes == Maybe(<<Take("nodes")>>)

\* MOUNTED_GETMNTENT2: getmntent may report an error in the middle, and the stream
\* another when it is closed.
GetMntEnt2 ==
  <<IfRefused(<<Return>>), Take("mnttab"), Nodes, Drop("mnttab"), IfRefused(<<Return>>),
    IfRefused(<<Return>>)>>
\* MOUNTED_GETMNTINFO: the array is the library's.
GetMntInfo == <<IfRefused(<<Return>>), Nodes>>
\* MOUNTED_VMOUNT: mntctl is asked for the size and for the entries; neither result
\* is looked at.
VMount == <<Take("entries of mntctl"), Nodes, Drop("entries of mntctl")>>

\* read_filesystem_list starts its list with a node that it gives back at its end;
\* the caller takes an array before it has the list, and returns without it when
\* the list is empty.
CommonMountlist(read) ==
  Getter({},
    <<Take("mounts"), Zero, Take("head")>> \o read \o
    <<Drop("head"), WhenHeld("nodes", <<Drop("nodes")>>, <<Return>>), Count, Put("list"), Set("list"),
      ReturnPtr("mounts")>>)
=============================================================================
