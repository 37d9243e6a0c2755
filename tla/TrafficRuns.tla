---------------------------- MODULE TrafficRuns ----------------------------
(***************************************************************************)
(* What a run sends over the commands of TrexServer, by the kind of the     *)
(* document, and what its measurement says of the counters it has read:     *)
(* _run_sync of RemoteTrexStlEngine and what it calls, _start_sync and      *)
(* _finish_sync of RemoteAstfEngine.                                        *)
(***************************************************************************)
EXTENDS TrexServer

CONSTANT Workloads     \* Workloads[j]: the kinds of traffic j may be made for

\* "pushed" is a replay whose capture the server reads itself (pcap_remote_root)
StlKinds == {"traffic", "benchmark", "dns", "dhcp", "arp", "udp", "replay", "pushed"}
AstfKinds == {"sessions"}

ASSUME WorkloadsAssumption == \A j \in Jobs : Workloads[j] \subseteq StlKinds \cup AstfKinds

VARIABLES workload,    \* workload[j]: the kind of the document of j
          base,        \* base[j]: what the counters of the run of j hold besides its own:
                       \* "zero", "frames" sent before, those of "traffic" under way when
                       \* they were read, or "mixed": of traffic that was started later
          measured     \* measured[j]: what the run of j has last made of them

measurement == <<base, measured>>

NotMeasured == [valid |-> FALSE, verdict |-> "none"]

RunsInit == /\ workload = [j \in Jobs |-> "none"]
            /\ base = [j \in Jobs |-> "zero"]
            /\ measured = [j \in Jobs |-> NotMeasured]

-----------------------------------------------------------------------------
(* The commands *)

\* these install their streams once more, after the switch has learned the path back
SelfLoading(j) == workload[j] \in {"traffic", "benchmark", "dns"}

\* prepare installs the streams of the document, unless each trial has its own or
\* the server reads them itself
AfterReset(j) == IF workload[j] \in {"benchmark", "pushed"} THEN "ok" ELSE "load"

FirstOfRun(j) == CASE SelfLoading(j)            -> "clear"
                   [] workload[j] = "pushed"    -> "push"
                   [] OTHER                     -> "start"

\* the order in which a run clears its ports, sends the learning frames, takes
\* them away, installs its streams and starts them
NextOfRun == [clear |-> "teach", teach |-> "learn", learn |-> "learning", forget |-> "load",
              load |-> "start", push |-> "wait", start |-> "wait"]

\* a trial of a benchmark is followed by another one or by the end
AfterWait(j) == {"ok"} \cup (IF workload[j] = "benchmark" THEN {"clear"} ELSE {})

\* the traffic of j comes into the counters of whoever counts on a port of its
Disturbed(j, counting) ==
  [k \in Jobs |-> IF k \in counting \ {j} /\ Needs[k] \cap Needs[j] # {} THEN "mixed" ELSE base[k]]

\* mutant: the counters go on from where they are
CountsOn(j, counting) ==
  /\ base' = [Disturbed(j, counting) EXCEPT ![j] =
                IF ~Idle(j) THEN "traffic" ELSE IF \E p \in Needs[j] : counters[p] THEN "frames" ELSE "zero"]
  /\ measured' = [measured EXCEPT ![j] = NotMeasured]

\* clear_stats, and then the start of what is measured
Counts(j, counting) ==
  /\ base' = [Disturbed(j, counting) EXCEPT ![j] = IF Idle(j) THEN "zero" ELSE "traffic"]
  /\ measured' = [measured EXCEPT ![j] = NotMeasured]

\* the frames the switch learns from are not measured by j
Teaches(j, counting) == base' = Disturbed(j, counting) /\ UNCHANGED measured

\* nobody wants the measurement any more
Dropped(j) == /\ base' = [base EXCEPT ![j] = "zero"]
              /\ measured' = [measured EXCEPT ![j] = NotMeasured]

-----------------------------------------------------------------------------
(* What a measurement says *)

\* _baseline_clean: the counters are read once more right after they were cleared, when
\* those of a port that transmits may still be zero
SeemsClean(j) == CASE base[j] \in {"zero", "mixed"} -> {TRUE}
                   [] base[j] = "frames"            -> {FALSE}
                   [] base[j] = "traffic"           -> BOOLEAN

\* the verdict of what was found valid or not
Says(valid, verdict) == [valid |-> valid, verdict |-> verdict]

\* links, errors, warnings, rates and the classification of the frames, of which a
\* model of single Jobs says nothing, beside the baseline and the ownership
TrialValid(j) == {clean /\ Owns(j, j) /\ sound : clean \in SeemsClean(j), sound \in BOOLEAN}

OfTraffic(j) ==
  {Says(valid, verdict) : valid \in TrialValid(j) \cap {TRUE}, verdict \in {"NO_ASSERTION", "PASS", "FAIL"}}
  \cup {Says(valid, "INVALID") : valid \in TrialValid(j) \cap {FALSE}}

\* a trial; the verdict of a suite is made of all of them
OfTrial(j) == {Says(valid, "trial") : valid \in TrialValid(j)}

OfStorm(j) == {Says(valid, IF valid THEN "NO_ASSERTION" ELSE "INVALID") : valid \in TrialValid(j)}

\* nothing is compared with the baseline: frames were sent, and none failed
OfArpStorm(j) == {Says(valid, IF valid THEN "NO_ASSERTION" ELSE "INVALID") : valid \in BOOLEAN}

\* flow statistics are there, no warnings; whatever is found, nothing is asserted
OfDatagrams(j) == {Says(valid, "NO_ASSERTION") : valid \in TrialValid(j)}

\* more frames received than sent are the sign of others
OfReplay(j) == {Says(clean /\ ~surplus, "NO_ASSERTION") :
                  clean \in SeemsClean(j), surplus \in BOOLEAN}

\* the summary of sessions doubts nothing
OfSessions(j) == {Says(TRUE, "NO_ASSERTION")}

Observed(j) == CASE workload[j] = "traffic"          -> OfTraffic(j)
                 [] workload[j] = "benchmark"        -> OfTrial(j)
                 [] workload[j] \in {"dns", "dhcp"}  -> OfStorm(j)
                 [] workload[j] = "arp"              -> OfArpStorm(j)
                 [] workload[j] = "udp"              -> OfDatagrams(j)
                 [] workload[j] \in {"replay", "pushed"} -> OfReplay(j)
                 [] OTHER                            -> OfSessions(j)

\* the run of j has read its counters
Reads(j) == /\ \E m \in Observed(j) : measured' = [measured EXCEPT ![j] = m]
            /\ UNCHANGED base
=============================================================================
