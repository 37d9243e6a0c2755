----------------------------- MODULE Deployment -----------------------------
(* What is given to one Agent: the Jobs clients may submit and the ports.   *)
EXTENDS Integers

CONSTANTS Jobs,      \* numbers in the order of (accepted_at, job_id)
          Ports,     \* the logical ports of the configuration
          Needs,     \* Needs[j]: the ports the document of j names
          None       \* no owner

ASSUME JobsAssumption == Jobs \subseteq Nat
ASSUME NeedsAssumption == Needs \in [Jobs -> SUBSET Ports]
ASSUME NoneAssumption == None \notin Jobs
=============================================================================
