------------------------------ MODULE Skeleton ------------------------------
(***************************************************************************)
(* The language the getters of the sysdeps directories are written down    *)
(* in: what is left of a function when the data is abstracted and the      *)
(* control is kept, a sequence of steps in the order of the source.        *)
(* GetterCall runs it.                                                     *)
(*                                                                         *)
(* Fields are grouped as the source groups them in its _glibtop_sysdeps_x  *)
(* constants; the flags of a group are named by the group.  A buffer that  *)
(* is flagged as a whole is the group "all"; "list" is the group of the    *)
(* fields number, size and total.                                          *)
(***************************************************************************)
EXTENDS Naturals, Sequences

Node(op, arg, a, b) == [op |-> op, arg |-> arg, a |-> a, b |-> b]
Plain(op, arg) == Node(op, arg, <<>>, <<>>)

\* memset (buf, 0, sizeof ...).
Zero == Plain("zero", "none")
\* The fields of group g get the values that were read.
Put(g) == Plain("put", g)
\* Fields computed from those of two other groups, right only if those are.
Derive(g, p, q) == Node("derive", g, <<Plain("of", p)>>, <<Plain("of", q)>>)
\* buf->flags = g and buf->flags |= g.
Set(g) == Plain("set", g)
Add(g) == Plain("add", g)

\* A descriptor, a stream, a directory or memory is taken and given back.
Take(r) == Plain("take", r)
Drop(r) == Plain("drop", r)
\* g_free and free, which take NULL.
Free(r) == Node("held", r, <<Drop(r)>>, <<>>)
\* What r points to is read or written.
Use(r) == Plain("use", r)
\* A condition on whether r is held: a pointer that is NULL until it is.
WhenHeld(r, a, b) == Node("held", r, a, b)

\* glibtop_suid_enter and glibtop_suid_leave.
Enter == Plain("enter", "none")
Leave == Plain("leave", "none")

\* number, size and total describe the memory that is going to be returned.  A list
\* of no elements may be NULL.
Count == Plain("count", "none")
Return == Plain("return", "none")
ReturnPtr(r) == Plain("return", r)
\* glibtop_error_r and its variants, _exit, abort.
Die == Plain("die", "none")

\* An access is tried: it fails when the process asked about has ended ("gone"),
\* when one of the others that are looked through has ("other"), when the system
\* refuses it ("refused"), or when what is found is not of the form expected ("bad").
Try(cause, ok, failed) == Node("try", cause, ok, failed)
IfGone(failed) == Try("gone", <<>>, failed)
IfRefused(failed) == Try("refused", <<>>, failed)
IfBad(failed) == Try("bad", <<>>, failed)
\* The values come from a call whose failure is not looked at.
Unchecked(g) == Try("refused", <<Put(g)>>, <<>>)

\* A condition on data that is abstracted, and one on a fact of the machine
\* that holds or not for the whole call.
Either(a, b) == Node("either", "none", a, b)
Maybe(body) == Either(body, <<>>)
When(fact, a, b) == Node("when", fact, a, b)

\* Returned at once: the feature is missing on this machine, or the process is
\* one that is not asked about.
Refuses == Maybe(<<Return>>)

\* A loop; a round ends with its body, with Skip (continue), with Break, or with
\* Again: a continue that leaves the condition of the loop as it was.
Loop(body) == Node("loop", "none", body, <<>>)
Skip == Plain("skip", "none")
Break == Plain("break", "none")
Again == Plain("again", "none")
\* Steps that have a name, and a function whose Return ends it alone.
Do(body) == Node("do", "none", body, <<>>)
Call(body) == Do(Append(body, Plain("end", "none")))

\* A getter: the groups its init function announces in server->sysdeps, and what
\* it does.  There is no init function for fsusage, mountlist and sysinfo.
Getter(announced, body) == [announced |-> announced, body |-> body]

\* Known to the interface, and not to this system: the buffer is cleared.
Absent == Getter({}, <<Zero>>)

\* Values and their flags.
Both(g) == Do(<<Put(g), Add(g)>>)
=============================================================================
