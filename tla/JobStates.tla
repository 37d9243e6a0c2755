----------------------------- MODULE JobStates -----------------------------
(* The states a Job goes through (models.py, JobState) and the groups of    *)
(* them the scheduler, the recovery and the store distinguish.              *)

JobState == {"ACCEPTED", "VALIDATING", "WAITING_FOR_PORTS", "PREPARING",
             "WARMING_UP", "RUNNING", "DRAINING", "COLLECTING",
             "SUCCEEDED", "FAILED", "CANCELLED"}

\* JobState.terminal
Terminal == {"SUCCEEDED", "FAILED", "CANCELLED"}

\* _recover: a Job in one of these is queued again after a restart
Recoverable == {"ACCEPTED", "VALIDATING", "WAITING_FOR_PORTS"}

\* a Job in one of these had its execution begun
Executing == JobState \ (Terminal \cup Recoverable)
============================================================================
