------------------------------ MODULE MCServers ------------------------------
(* Model values for the run of Servers.                                      *)
EXTENDS Servers
CONSTANTS small, large, s1, s2, a, b
=============================================================================
