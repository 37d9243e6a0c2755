------------------------------ MODULE JobStore ------------------------------
(***************************************************************************)
(* The tables of the store the life of a Job runs through, and what each    *)
(* transaction on them does.  SqliteStore runs every one under one lock and *)
(* in one transaction, so each is a single step.  JobSnapshots looks inside *)
(* _transition; here it is one step, because only one coroutine at a time   *)
(* moves a Job (the scheduler skips the Jobs that have a task).             *)
(*                                                                          *)
(* The fencing generation of a port is left out: it is written by every     *)
(* acquisition and by every marker and compared by nothing.                 *)
(***************************************************************************)
EXTENDS Deployment, JobStates

VARIABLES state,        \* jobs.state, "ABSENT" before the Job is submitted
          cancelled,    \* cancel_requested of the snapshot
          owner,        \* port_leases.job_id
          quarantined,  \* port_leases.status = QUARANTINED
          marker        \* an execution_markers row for the Job exists

store == <<state, cancelled, owner, quarantined, marker>>

StoreTypeOK == /\ state \in [Jobs -> JobState \cup {"ABSENT"}]
               /\ cancelled \in [Jobs -> BOOLEAN]
               /\ owner \in [Ports -> Jobs \cup {None}]
               /\ quarantined \in [Ports -> BOOLEAN]
               /\ marker \in [Jobs -> BOOLEAN]

StoreInit == /\ state = [j \in Jobs |-> "ABSENT"]
             /\ cancelled = [j \in Jobs |-> FALSE]
             /\ owner = [p \in Ports |-> None]
             /\ quarantined = [p \in Ports |-> FALSE]
             /\ marker = [j \in Jobs |-> FALSE]

Live(j) == state[j] \notin Terminal \cup {"ABSENT"}

\* mutant: a terminal Job is moved like any other
MoveTerminalToo(j, from, s) ==
  state' = [state EXCEPT ![j] =
              IF @ \notin from \/ (s = "SUCCEEDED" /\ cancelled[j]) THEN @ ELSE s]

\* _transition to s, expecting a state of from: a terminal Job stays what it is,
\* and a Job with a cancel intent does not succeed.  Constrains state' only.
Move(j, from, s) ==
  state' = [state EXCEPT ![j] =
              IF @ \in Terminal \/ @ \notin from \/ (s = "SUCCEEDED" /\ cancelled[j])
              THEN @ ELSE s]

\* acquire_ports raises: a port is quarantined
AcquireRefused(j) == \E p \in Needs[j] : quarantined[p]

\* mutant: the owners of the ports are not looked at
NeverBusy(j) == FALSE

\* acquire_ports returns None: another Job has a port
AcquireBusy(j) == /\ ~AcquireRefused(j)
                  /\ \E p \in Needs[j] : owner[p] \notin {None, j}

\* acquire_ports returns the fence: all ports at once, or those still missing
Acquire(j) == /\ ~AcquireRefused(j)
              /\ ~AcquireBusy(j)
              /\ owner' = [p \in Ports |-> IF p \in Needs[j] THEN j ELSE owner[p]]
              /\ UNCHANGED quarantined

\* mutant: UPDATE without "WHERE job_id = ?"
ReleaseNamed(j, quarantine) ==
  /\ owner' = [p \in Ports |-> IF p \in Needs[j] THEN None ELSE owner[p]]
  /\ quarantined' = [p \in Ports |-> IF p \in Needs[j] THEN quarantine ELSE quarantined[p]]

\* release_ports: whatever j owns, and nothing else
Release(j, quarantine) ==
  /\ owner' = [p \in Ports |-> IF owner[p] = j THEN None ELSE owner[p]]
  /\ quarantined' = [p \in Ports |-> IF owner[p] = j THEN quarantine ELSE quarantined[p]]

\* confirm_ports_available: the ports of a marker, whoever has them
ConfirmAvailable(ports) ==
  /\ owner' = [p \in Ports |-> IF p \in ports THEN None ELSE owner[p]]
  /\ quarantined' = [p \in Ports |-> IF p \in ports THEN FALSE ELSE quarantined[p]]

SaveMarker(j) == marker' = [marker EXCEPT ![j] = TRUE]
DeleteMarker(j) == marker' = [marker EXCEPT ![j] = FALSE]
=============================================================================
