----------------------------- MODULE MCSession -----------------------------
(* Instances of Session: uptime never needs the server, proc_mem and       *)
(* proc_time do (GLIBTOP_SUID_PROC_MEM, GLIBTOP_SUID_PROC_TIME), as on the *)
(* BSDs.  Two fields suffice for one to be present and the other missing.  *)
EXTENDS Session

MCFeatures == {"uptime", "proc_mem", "proc_time"}
MCServerFeatures == {"proc_mem", "proc_time"}
MCInitFeatures == {{}, {"uptime"}, {"proc_mem"}}
\* Everything of every feature, or one field of one feature.
MCRequirements == {[f \in MCFeatures |-> {1, 2}],
                   [f \in MCFeatures |-> IF f = "proc_mem" THEN {2} ELSE {}]}
=============================================================================
