----------------------------- MODULE MCTestJobs -----------------------------
(* Small deployments for TLC: which Job names which ports. *)
EXTENDS TestJobs

CONSTANT p1

\* every Job names the same port
OnePort == [j \in Jobs |-> {p1}]
=============================================================================
