----------------------------- MODULE TestPlans -----------------------------
(***************************************************************************)
(* Planning (test_plan.py): an intent over revisions of a LabPath and of a *)
(* capture becomes a document; a plan file is named by the identity of the *)
(* plan and written once.  One intent is looked at at a time; its demands  *)
(* are what it asks beyond the limits of some version of the SafetyPolicy. *)
(* plan_test does not await: it is one step of the event loop.             *)
(***************************************************************************)
EXTENDS CaptureCatalog

CONSTANTS Intents,         \* the kinds of intent looked at
          Paths,           \* the published revisions of a LabPath, in order
          Features,        \* Features[c]: what the analysis finds in capture c
          Versions,        \* the versions of the SafetyPolicy
          MaxPlans         \* bound on the plan files

VARIABLES intent,          \* the kind of the intent
          demand,          \* <<version, limit>>: a limit of a version the intent exceeds
          policy,          \* the version the Agent was started with
          plans            \* plan files: identity -> payload

planning == <<intent, demand, policy, plans>>

OfCapture == {"rewrite", "preserve", "udp", "stateful", "workload"}
Storms == {"dns", "dhcp", "arp"}
Kinds == {"traffic", "benchmark"} \cup OfCapture \cup Storms

\* the limits of a version, with the kinds of intent that can go beyond each: maxJobTimeout
\* and maxPortWaitTimeout, the known ports, the addresses, maxRunDuration, the rates,
\* maxBurstPackets, the pools and connections, allowBroadcastStorms; the addresses of the
\* packet to a new destination are apart, and so is the jobTimeout of the document itself.
\* The adapter caps the rates (in percent) and bursts of a benchmark when it runs.
AskedBy ==
  [timeouts |-> Kinds, ports |-> Kinds, addresses |-> Kinds, runDuration |-> Kinds,
   rate |-> Kinds \ {"benchmark"}, burst |-> {"traffic"},
   pool |-> {"stateful", "workload"} \cup Storms, broadcast |-> {"dhcp", "arp"},
   newDestination |-> {"benchmark"}, jobTimeout |-> Kinds]

\* what an intent of a kind can ask too much of
Asks(kind) == {limit \in DOMAIN AskedBy : kind \in AskedBy[limit]}

\* nothing the intent asks is beyond these limits of a version
Within(version, limits) == \A l \in limits : <<version, l>> \notin demand

\* a duration beyond the jobTimeout of the document itself, whatever the version
Overlong == Versions \X {"jobTimeout"}

\* an intent exceeds one limit of one version at most
PlansInit ==
  /\ intent \in Intents
  /\ demand \in {{}, Overlong} \cup {{<<v, l>>} : v \in Versions, l \in Asks(intent) \ {"jobTimeout"}}
  /\ policy \in Versions
  /\ plans = <<>>
-----------------------------------------------------------------------------
(* What an intent refers to: r is a revision of the capture, 0 where the    *)
(* intent takes none, and q a revision of the LabPath.                      *)

References == (IF intent \in OfCapture THEN DOMAIN resources ELSE {0}) \X DOMAIN Paths

Found(r) == Features[resources[r]]

\* the roles a profile's flows name must be there, on ports of their own
PlansTraffic(q) == intent = "traffic" /\ Paths[q].paired

PlansBenchmark(q) == intent = "benchmark" /\ Paths[q].paired

\* addresses that are kept must be those of stations the policy allows
PreservesCapture(r) == {"unsupported", "multicast"} \cap Found(r) = {} /\ Within(policy, {"addresses"})

PlansReplay(r, q) ==
  /\ Paths[q].paired
  /\ \/ intent = "rewrite" /\ "unsupported" \notin Found(r) /\ Paths[q].addressed
     \/ intent = "preserve" /\ PreservesCapture(r)

\* roles on ports of their own, with the addresses that the document binds
BindsRoles(q) == Paths[q].paired /\ Paths[q].addressed

PlansUdp(r, q) ==
  /\ intent = "udp" /\ {"udp", "complete"} \subseteq Found(r) /\ BindsRoles(q)
  /\ Within(policy, {"addresses", "rate", "runDuration"})

StatefulLimits == {"rate", "pool", "addresses", "runDuration"}

\* one session that can be rebuilt
PlansStateful(r, q) ==
  /\ intent = "stateful" /\ "tcp" \in Found(r) /\ BindsRoles(q)
  /\ Within(policy, StatefulLimits)

\* all of them, which asks for a complete analysis
PlansWorkload(r, q) ==
  /\ intent = "workload" /\ {"tcp", "complete"} \subseteq Found(r) /\ BindsRoles(q)
  /\ Within(policy, StatefulLimits)

StormLimits == {"pool", "addresses", "rate", "runDuration"}

PlansDnsStorm(q) == intent = "dns" /\ BindsRoles(q) /\ Within(policy, StormLimits)

PlansDhcpStorm(q) ==
  /\ intent = "dhcp" /\ BindsRoles(q) /\ Paths[q].broadcast
  /\ Within(policy, StormLimits \cup {"broadcast"})

PlansArpStorm(q) ==
  /\ intent = "arp" /\ BindsRoles(q) /\ Paths[q].broadcast
  /\ Within(policy, StormLimits \cup {"broadcast"})

Plannable(r, q) ==
  \/ PlansTraffic(q) \/ PlansBenchmark(q)
  \/ PlansReplay(r, q) \/ PlansUdp(r, q) \/ PlansStateful(r, q) \/ PlansWorkload(r, q)
  \/ PlansDnsStorm(q) \/ PlansDhcpStorm(q) \/ PlansArpStorm(q)
-----------------------------------------------------------------------------
(* The plan file *)

\* what a document holds of a capture and of the roles; the rest of a LabPath, as
\* its description or whether it is a broadcast domain, does not reach it
TrafficDocument(q) == [kind |-> "traffic", roles |-> Paths[q].roles]

BenchmarkDocument(q) == [kind |-> "benchmark", roles |-> Paths[q].roles]

\* addresses that are kept are bound to the policy that allowed them
ReplayDocument(r, q) ==
  [kind |-> intent, roles |-> Paths[q].roles, revision |-> r, capture |-> resources[r],
   policy |-> IF intent = "preserve" THEN policy ELSE 0]

UdpDocument(r, q) ==
  [kind |-> "udp", roles |-> Paths[q].roles, revision |-> r, capture |-> resources[r]]

StatefulDocument(r, q) ==
  [kind |-> "stateful", roles |-> Paths[q].roles, revision |-> r, capture |-> resources[r]]

WorkloadDocument(r, q) ==
  [kind |-> "workload", roles |-> Paths[q].roles, revision |-> r, capture |-> resources[r]]

StormDocument(q) == [kind |-> intent, roles |-> Paths[q].roles]

Document(r, q) ==
  CASE intent = "traffic"   -> TrafficDocument(q)
    [] intent = "benchmark" -> BenchmarkDocument(q)
    [] intent \in {"rewrite", "preserve"} -> ReplayDocument(r, q)
    [] intent = "udp"       -> UdpDocument(r, q)
    [] intent = "stateful"  -> StatefulDocument(r, q)
    [] intent = "workload"  -> WorkloadDocument(r, q)
    [] OTHER                -> StormDocument(q)

\* the plans whose identity is their document alone
DocumentOnly == {"udp", "stateful", "workload"} \cup Storms

\* mutant: no identity takes in the digest of the LabPath
IdentityByDocument(r, q) == <<Document(r, q), 0>>

\* the identity takes in the digest of the LabPath, but for DocumentOnly
Identity(r, q) == <<Document(r, q), IF intent \in DocumentOnly THEN 0 ELSE q>>

Payload(r, q) == [whole |-> TRUE, path |-> q, document |-> Document(r, q)]

\* what a write that breaks off leaves: no JSON
Torn(r, q) == [whole |-> FALSE, path |-> q, document |-> Document(r, q)]

Stored(id) == id \in DOMAIN plans

\* a stored plan is returned or refused (it collides, or is torn): never written over
Persist(id, payload) ==
  plans' = IF Stored(id) THEN plans ELSE Put(plans, id, payload)

Room(id) == Stored(id) \/ Cardinality(DOMAIN plans) < MaxPlans

PlanTest(r, q) ==
  /\ Plannable(r, q) /\ Room(Identity(r, q))
  /\ Persist(Identity(r, q), Payload(r, q))
  /\ UNCHANGED <<intent, demand, policy, catalog>>

\* the process ends while it writes a plan that was not stored
WriteCutShort(r, q) ==
  /\ Plannable(r, q) /\ ~Stored(Identity(r, q)) /\ Room(Identity(r, q))
  /\ plans' = Put(plans, Identity(r, q), Torn(r, q))
-----------------------------------------------------------------------------
\* An intent that can be planned now never meets a stored plan that says something
\* else: what it finds under its identity is its own payload, or what a crash left
\* of it (test_plan.py _persist: "plan id collision").
NoCollision ==
  \A ref \in References :
    LET r == ref[1]  q == ref[2] IN
    Plannable(r, q) /\ Stored(Identity(r, q))
      => plans[Identity(r, q)] \in {Payload(r, q), Torn(r, q)}

\* The same of the plans whose identity takes in what they were planned from
\* (test_plan.py plan_traffic, plan_pcap_replay, plan_rfc2544_suite).
NoCollisionByPath == intent \notin DocumentOnly => NoCollision

\* What a plan or a revision says is never changed nor lost, by whatever is
\* published or planned at the same time (pcap_catalog.py publish; test_plan.py
\* _persist): a Job and its result may refer to it for ever.
Frozen ==
  [][/\ \A r \in DOMAIN resources : r \in DOMAIN resources' /\ resources'[r] = resources[r]
     /\ \A id \in DOMAIN plans : id \in DOMAIN plans' /\ plans'[id] = plans[id]]_<<resources, plans>>
=============================================================================
