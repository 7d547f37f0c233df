----------------------------- MODULE MCGnuserv -----------------------------
(* Instances of Gnuserv: two clients of permitted hosts, one with the       *)
(* protocol of glibtop's own clients and one with a cookie, and a client of *)
(* another host.                                                            *)
EXTENDS Gnuserv

MCClients == {"secure", "cookie", "elsewhere"}
MCHosts == {"secure", "cookie"}
MCProtocol == [c \in MCClients |-> IF c = "cookie" THEN "cookie" ELSE "secure"]
=============================================================================
