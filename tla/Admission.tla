----------------------------- MODULE Admission -----------------------------
(***************************************************************************)
(* From a plan to traffic: a Job of a stored plan is validated against the *)
(* SafetyPolicy and by the engine, waits for its ports, is prepared and    *)
(* run (jobs.py, trex_adapter.py, astf_adapter.py).  Captures are          *)
(* published and plans made meanwhile; a restart of the Agent may bring    *)
(* another version of the policy.  Scheduling and ports are in TestJobs.   *)
(***************************************************************************)
EXTENDS TestPlans

CONSTANT MaxRestarts       \* bound: ends of the process

VARIABLES job,             \* the Job of a plan
          restarts         \* how often the process has ended

vars == <<catalog, planning, job, restarts>>

NoJob == [at |-> "none"]
-----------------------------------------------------------------------------
(* What the validation asks of a document d under a version of the policy.  *)

TrafficAdmitted(v, d) ==
  d.kind = "traffic" /\ Within(v, {"runDuration", "jobTimeout", "burst", "rate", "addresses"})

\* the addresses of the packet and of the one sent back; neither the packet to a new
\* destination nor the length of the trials is looked at
BenchmarkAdmitted(v, d) == d.kind = "benchmark" /\ Within(v, {"addresses"})

\* a plan that keeps the addresses is bound to the version it was made under
ReplayAdmitted(v, d) ==
  /\ d.kind \in {"rewrite", "preserve"} /\ Within(v, {"rate", "runDuration", "addresses"})
  /\ d.kind = "preserve" => d.policy = v /\ "multicast" \notin Features[d.capture]

StatefulAdmitted(v, d) == d.kind \in {"stateful", "workload"} /\ Within(v, StatefulLimits)

UdpAdmitted(v, d) == d.kind = "udp" /\ Within(v, {"runDuration", "rate", "addresses"})

StormAdmitted(v, d) ==
  /\ d.kind \in Storms /\ Within(v, StormLimits \cup {"jobTimeout"})
  /\ d.kind \in {"dhcp", "arp"} => Within(v, {"broadcast"})

Admitted(v, d) ==
  /\ Within(v, {"timeouts", "ports"})
  /\ \/ TrafficAdmitted(v, d) \/ BenchmarkAdmitted(v, d) \/ ReplayAdmitted(v, d)
     \/ StatefulAdmitted(v, d) \/ UdpAdmitted(v, d) \/ StormAdmitted(v, d)

\* the STL adapter looks at the size of the object, the ASTF adapter extracts the
\* sessions and compares their digests
EngineAdmits(d) ==
  /\ d.kind \in {"rewrite", "preserve", "udp"} => objects[d.capture] \in {"whole", "altered"}
  /\ d.kind \in {"stateful", "workload"} => objects[d.capture] = "whole"
-----------------------------------------------------------------------------
(* The Job *)

JobAt(stage) == job.at = stage

Becomes(stage) == job' = [job EXCEPT !.at = stage]

\* start_test reads the plan file, which must be whole, and submits its document
StartTest(id) ==
  /\ JobAt("none") /\ plans[id].whole
  /\ job' = [at |-> "accepted", plan |-> id, document |-> plans[id].document,
             checkedBy |-> 0, sent |-> "nothing"]

ValidationStarts == JobAt("accepted") /\ Becomes("validating")

ValidationSucceeds ==
  /\ JobAt("validating")
  /\ Admitted(policy, job.document) /\ EngineAdmits(job.document)
  /\ job' = [job EXCEPT !.at = "waiting", !.checkedBy = policy]

\* for what is above or for what is not looked at here: the mode of the engine, the
\* pairing of its ports, a calibration
ValidationFails == JobAt("validating") /\ Becomes("failed")

\* mutant: the flows are taken as they are found
ExtractsUnchecked(d) == d.kind \in {"udp", "stateful", "workload"}

\* the flows or sessions of the plan are extracted again, and their digests compared
Extracts(d) == d.kind \in {"udp", "stateful", "workload"} /\ objects[d.capture] = "whole"

\* the packets are rewritten and counted: others of the same number pass
Compiles(d) == d.kind \in {"rewrite", "preserve"} /\ objects[d.capture] # "absent"

\* the object is read again when the ports are there, whatever it was before
Prepare ==
  /\ JobAt("waiting")
  /\ \/ /\ Extracts(job.document) \/ Compiles(job.document)
        /\ job' = [job EXCEPT !.at = "running", !.sent = objects[job.document.capture]]
     \/ job.document.kind \notin OfCapture /\ Becomes("running")

\* the object has changed, the ports are not there in time or the server refuses
PrepareFails == JobAt("waiting") /\ Becomes("failed")

Ends == JobAt("running") /\ \E stage \in {"done", "failed"} : Becomes(stage)

JobStep ==
  /\ \/ \E id \in DOMAIN plans : StartTest(id)
     \/ ValidationStarts \/ ValidationSucceeds \/ ValidationFails
     \/ Prepare \/ PrepareFails \/ Ends
  /\ UNCHANGED <<catalog, planning, restarts>>
-----------------------------------------------------------------------------
(* The end of the process, and the next start *)

\* mutant: a Job found under validation is put with those that wait
RecoverAsWaiting ==
  job' = CASE JobAt("running") -> [job EXCEPT !.at = "failed"]
           [] JobAt("validating") -> [job EXCEPT !.at = "waiting"]
           [] OTHER -> job

\* a Job under way is failed, the others go on where they were
Recover == job' = IF JobAt("running") THEN [job EXCEPT !.at = "failed"] ELSE job

\* the next process reads its configuration anew
Restart ==
  /\ restarts < MaxRestarts
  /\ restarts' = restarts + 1
  /\ \E v \in Versions : policy' = v
  /\ PublishersDie /\ Recover
  /\ UNCHANGED <<objects, resources, intent, demand>>

Crash ==
  \/ Restart /\ UNCHANGED plans
  \/ Restart /\ \E ref \in References : WriteCutShort(ref[1], ref[2])

Init == CatalogInit /\ PlansInit /\ job = NoJob /\ restarts = 0

Next ==
  \/ \E w \in Publishers : Publish(w) /\ UNCHANGED <<planning, job, restarts>>
  \/ \E c \in Contents : Damage(c) /\ UNCHANGED <<planning, job, restarts>>
  \/ \E ref \in References : PlanTest(ref[1], ref[2]) /\ UNCHANGED <<job, restarts>>
  \/ JobStep
  \/ Crash

Spec == Init /\ [][Next]_vars
-----------------------------------------------------------------------------
(* Properties *)

Sends == job.at \in {"running", "done"}

\* What a Job sends is what its plan says, and the plan can still be read: a flow
\* or a session is extracted from the very capture that was planned, although the
\* object is read when it is planned, when it is validated and when it is prepared,
\* with waits between.  A replay is exempt: its packets are only counted (trex_adapter.py
\* _udp_templates, astf_adapter.py _validate_sync, pcap_replay.py compile_replay).
SendsThePlan ==
  Sends =>
    /\ plans[job.plan] = [whole |-> TRUE, path |-> plans[job.plan].path, document |-> job.document]
    /\ job.document.kind \in {"udp", "stateful", "workload"} => job.sent = "whole"

\* What the validation compares with nothing: the length of a benchmark's trials and
\* the packet it sends to a new destination, although addresses outside the whitelist
\* are to be refused (design.md, 12); and the jobTimeout but of traffic and storms.
NotCompared(kind) ==
  IF kind = "benchmark" THEN {"runDuration", "newDestination", "jobTimeout"}
  ELSE IF kind \in OfCapture THEN {"jobTimeout"} ELSE {}

\* What a Job that runs asks was within one version of the policy, in all that an intent
\* of its kind can ask too much of but what is NotCompared; addresses that are kept are
\* those that version was asked about: whatever was checked when it was planned and
\* wherever the process ended (jobs.py _validate_job, _validate_policy, _recover).
CheckedBeforeItRuns ==
  Sends =>
    /\ job.checkedBy \in Versions
    /\ Within(job.checkedBy, Asks(job.document.kind) \ NotCompared(job.document.kind))
    /\ job.document.kind = "preserve" => job.document.policy = job.checkedBy
=============================================================================
