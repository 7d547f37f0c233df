---- MODULE MCServerCall ----
(* Instances of ServerCall.  Sizes are in units of 8 bytes for arguments:  *)
(* ParamSize 2 is the 16 bytes of _GLIBTOP_PARAM_SIZE, BufSize 5 stands    *)
(* for BUFSIZ.                                                             *)
EXTENDS ServerCall

\* uptime has no argument; proclist fills the parameter field exactly and its
\* answer carries 0 to 2 units of data; the argument of fsusage is one unit
\* longer than the field; that of netload no longer fits BUFSIZ; proc_wd is
\* answered by nobody: the setuid server aborts on it, the daemon reads on.
MCFeatures == {"uptime", "proclist", "fsusage", "netload", "proc_wd"}
MCSendSize == [f \in MCFeatures |->
  CASE f = "uptime" -> 0 [] f = "proclist" -> 2 [] f = "fsusage" -> 3
    [] f = "netload" -> 5 [] f = "proc_wd" -> 1]
MCDataLens == [f \in MCFeatures |-> IF f = "proclist" THEN 0..2 ELSE {0}]
MCLinks == {"pipe", "socket", "held"}
MCSilent == [l \in MCLinks |-> IF l = "pipe" THEN {} ELSE {"proc_wd"}]
MCFatal == [l \in MCLinks |-> IF l = "pipe" THEN {"proc_wd"} ELSE {}]
\* A server at the end of a socket that knows every command.
MCAnswered == [l \in {"socket"} |-> {}]
MCPeers == {"same", "otherLength", "otherText"}
====
