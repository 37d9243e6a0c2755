--------------------------- MODULE AdmissionProofs ---------------------------
(***************************************************************************)
(* For any captures, publications at once, LabPaths, versions of the policy *)
(* and numbers of plans: revisions count on and what is published stays,    *)
(* what is planned stays and is what is sent, and a Job that runs was       *)
(* checked.                                                                 *)
(***************************************************************************)
EXTENDS Admission, FiniteSetTheorems, TLAPS

(* The catalog *)

Step == {Idle} \cup [at : {"staged"}, content : Contents]
               \cup [at : {"decided", "placed"}, content : Contents, revision : Nat]

CatalogTypes == /\ objects \in [Contents -> Object]
                /\ Latest \in Nat /\ resources \in [1 .. Latest -> Contents]
                /\ publishing \in [Publishers -> Step]

\* The lock: one publication at a time.
OneAtATime == \A v, w \in Publishers : publishing[v] # Idle /\ publishing[w] # Idle => v = w

\* What a publication has read of the latest revision is still so.
DecisionStands ==
  \A w \in Publishers :
    publishing[w].at \in {"decided", "placed"} =>
      /\ publishing[w].revision = Latest + 1
      /\ Latest > 0 => resources[Latest] # publishing[w].content

\* The object is there before the descriptor.
ObjectFirst ==
  /\ \A w \in Publishers : publishing[w].at = "placed" => objects[publishing[w].content] # "absent"
  /\ \A r \in 1 .. Latest : objects[resources[r]] # "absent"

Successive == \A r \in 2 .. Latest : resources[r] # resources[r - 1]

CatalogInv == CatalogTypes /\ OneAtATime /\ DecisionStands /\ ObjectFirst /\ Successive

CatalogNext == \/ \E w \in Publishers : Publish(w)
               \/ \E c \in Contents : Damage(c)
               \/ PublishersDie /\ UNCHANGED <<objects, resources>>
               \/ UNCHANGED catalog

-----------------------------------------------------------------------------
\* The largest of 1 .. n is n.
LEMMA MaxTo == \A n \in Nat \ {0} : Max(1 .. n) = n
<1>1. TAKE n \in Nat \ {0}
<1>2. n \in 1 .. n /\ \A y \in 1 .. n : n >= y
  OBVIOUS
<1>3. \A x \in 1 .. n : (\A y \in 1 .. n : x >= y) => x = n
  OBVIOUS
<1>4. QED  BY <1>2, <1>3 DEF Max

\* Of n revisions the latest is n.
LEMMA LatestOf == \A n \in Nat : (IF 1 .. n = {} THEN 0 ELSE Max(1 .. n)) = n
<1>1. TAKE n \in Nat
<1>2. CASE n = 0  BY <1>2
<1>3. CASE n # 0
  <2>1. n \in 1 .. n  BY <1>3
  <2>2. QED  BY <1>3, <2>1, MaxTo
<1>4. QED  BY <1>2, <1>3

\* An empty catalog is sound.
LEMMA CatalogStarts == CatalogInit => CatalogInv
<1>1. HAVE CatalogInit
<1>2. DOMAIN resources = 1 .. 0  BY <1>1 DEF CatalogInit
<1>3. Latest = 0  BY <1>2, LatestOf DEF Latest
<1>4. resources \in [1 .. Latest -> Contents]  BY <1>1, <1>3 DEF CatalogInit
<1>5. publishing \in [Publishers -> Step]  BY <1>1 DEF CatalogInit, Step
<1>6. \A w \in Publishers : publishing[w] = Idle /\ publishing[w].at = "idle"
  BY <1>1 DEF CatalogInit, Idle
<1>7. QED
  BY <1>1, <1>3, <1>4, <1>5, <1>6
  DEF CatalogInit, CatalogInv, CatalogTypes, OneAtATime, DecisionStands, ObjectFirst, Successive, Object

\* Every step keeps the types, and that revisions count from 1 without a gap.
LEMMA TypesStep == CatalogInv /\ CatalogNext => CatalogTypes'
<1>1. HAVE CatalogInv /\ CatalogNext
<1> USE DEF CatalogInv, CatalogTypes, Step, Idle
<1>Stage. ASSUME NEW w \in Publishers, NEW c \in Contents, Stage(w, c) PROVE CatalogTypes'
  BY <1>1, <1>Stage DEF Stage, To, Latest
<1>Existing. ASSUME NEW w \in Publishers, Existing(w) PROVE CatalogTypes'
  BY <1>1, <1>Existing DEF Existing, To, Latest
<1>Decide. ASSUME NEW w \in Publishers, Decide(w) PROVE CatalogTypes'
  <2>1. publishing[w].content \in Contents  BY <1>1, <1>Decide DEF Decide
  <2>2. [at |-> "decided", content |-> publishing[w].content, revision |-> Latest + 1] \in Step
    BY <1>1, <2>1
  <2>3. QED  BY <1>1, <1>Decide, <2>2 DEF Decide, To, Latest
<1>Unreadable. ASSUME NEW w \in Publishers, Unreadable(w) PROVE CatalogTypes'
  BY <1>1, <1>Unreadable DEF Unreadable, To, Latest
<1>Place. ASSUME NEW w \in Publishers, Place(w) PROVE CatalogTypes'
  <2>1. /\ publishing[w].content \in Contents /\ publishing[w].revision \in Nat
        /\ publishing[w] = [at |-> "decided", content |-> publishing[w].content,
                            revision |-> publishing[w].revision]
    BY <1>1, <1>Place DEF Place
  <2>2. [publishing[w] EXCEPT !.at = "placed"] \in Step  BY <2>1
  <2>3. objects' \in [Contents -> Object]  BY <1>1, <1>Place, <2>1 DEF Place, Object
  <2>4. QED  BY <1>1, <1>Place, <2>2, <2>3 DEF Place, To, Latest
<1>Record. ASSUME NEW w \in Publishers, Record(w) PROVE CatalogTypes'
  <2>1. publishing[w].revision = Latest + 1 /\ publishing[w].content \in Contents
    BY <1>1, <1>Record DEF Record, DecisionStands
  <2>2. 1 .. Latest \cup {Latest + 1} = 1 .. Latest + 1  BY <1>1
  <2>3. resources' \in [1 .. Latest + 1 -> Contents]
    BY <1>1, <1>Record, <2>1, <2>2 DEF Record, Put
  <2>4. \A n \in Nat : DOMAIN resources' = 1 .. n => Latest' = n
    BY LatestOf DEF Latest
  <2>5. Latest' = Latest + 1  BY <1>1, <2>3, <2>4
  <2>6. QED  BY <1>1, <1>Record, <2>3, <2>5 DEF Record, To
<1>Damage. ASSUME NEW c \in Contents, Damage(c) PROVE CatalogTypes'
  BY <1>1, <1>Damage DEF Damage, Latest, Object
<1>Die. ASSUME PublishersDie, UNCHANGED <<objects, resources>> PROVE CatalogTypes'
  BY <1>1, <1>Die DEF PublishersDie, Latest
<1>Stutter. ASSUME UNCHANGED catalog PROVE CatalogTypes'
  BY <1>1, <1>Stutter DEF catalog, Latest
<1>2. QED
  BY <1>1, <1>Stage, <1>Existing, <1>Decide, <1>Unreadable, <1>Place, <1>Record, <1>Damage,
     <1>Die, <1>Stutter DEF CatalogNext, Publish

\* The lock is taken by one at a time.
LEMMA OneAtATimeStep == CatalogInv /\ CatalogNext => OneAtATime'
<1>1. HAVE CatalogInv /\ CatalogNext
<1> USE DEF CatalogInv, CatalogTypes, OneAtATime
<1>Stage. ASSUME NEW w \in Publishers, NEW c \in Contents, Stage(w, c) PROVE OneAtATime'
  BY <1>1, <1>Stage DEF Stage, To, Locked
<1>Goes. ASSUME NEW w \in Publishers, publishing[w] # Idle,
                \A v \in Publishers \ {w} : publishing'[v] = publishing[v]
         PROVE  OneAtATime'
  BY <1>1, <1>Goes
<1>Existing. ASSUME NEW w \in Publishers, Existing(w) PROVE OneAtATime'
  BY <1>1, <1>Goes, <1>Existing DEF Existing, To, Idle
<1>Decide. ASSUME NEW w \in Publishers, Decide(w) PROVE OneAtATime'
  BY <1>1, <1>Goes, <1>Decide DEF Decide, To, Idle
<1>Unreadable. ASSUME NEW w \in Publishers, Unreadable(w) PROVE OneAtATime'
  BY <1>1, <1>Goes, <1>Unreadable DEF Unreadable, To, Idle
<1>Place. ASSUME NEW w \in Publishers, Place(w) PROVE OneAtATime'
  BY <1>1, <1>Goes, <1>Place DEF Place, To, Idle
<1>Record. ASSUME NEW w \in Publishers, Record(w) PROVE OneAtATime'
  BY <1>1, <1>Goes, <1>Record DEF Record, To, Idle
<1>Others. ASSUME \/ \E c \in Contents : Damage(c)
                  \/ PublishersDie
                  \/ UNCHANGED catalog
           PROVE  OneAtATime'
  BY <1>1, <1>Others DEF Damage, PublishersDie, catalog
<1>2. QED
  BY <1>1, <1>Stage, <1>Existing, <1>Decide, <1>Unreadable, <1>Place, <1>Record, <1>Others
  DEF CatalogNext, Publish

\* While a publication is under way nothing makes its decision stale; it records a
\* revision after the latest, of another content, whose object is there.
LEMMA DecisionStep == CatalogInv /\ CatalogNext => DecisionStands' /\ ObjectFirst' /\ Successive'
<1> DEFINE Goal == DecisionStands' /\ ObjectFirst' /\ Successive'
<1>1. SUFFICES ASSUME CatalogInv, CatalogNext PROVE Goal
  OBVIOUS
<1>2. CatalogTypes'  BY <1>1, TypesStep
<1> USE DEF CatalogInv, CatalogTypes, DecisionStands, ObjectFirst, Successive, Object
\* a step that leaves the revisions and the objects, and decides nothing
<1>Quiet. ASSUME UNCHANGED <<objects, resources>>,
                 \A w \in Publishers : publishing'[w].at \in {"decided", "placed"}
                                         => publishing'[w] = publishing[w]
          PROVE  Goal
  BY <1>1, <1>Quiet DEF Latest
<1>Stage. ASSUME NEW w \in Publishers, NEW c \in Contents, Stage(w, c) PROVE Goal
  BY <1>1, <1>Quiet, <1>Stage DEF Stage, To
<1>Idles. ASSUME NEW w \in Publishers, Existing(w) \/ Unreadable(w) PROVE Goal
  BY <1>1, <1>Quiet, <1>Idles DEF Existing, Unreadable, To, Idle
<1>Decide. ASSUME NEW w \in Publishers, Decide(w) PROVE Goal
  <2>1. Latest' = Latest  BY <1>Decide DEF Decide, Latest
  <2>2. publishing'[w] = [at |-> "decided", content |-> publishing[w].content,
                          revision |-> Latest + 1]
    BY <1>1, <1>Decide DEF Decide, To
  <2>3. \A v \in Publishers \ {w} : publishing'[v] = publishing[v]
    BY <1>1, <1>Decide DEF Decide, To
  <2>4. QED  BY <1>1, <1>Decide, <2>1, <2>2, <2>3 DEF Decide
<1>Place. ASSUME NEW w \in Publishers, Place(w) PROVE Goal
  <2>1. Latest' = Latest  BY <1>Place DEF Place, Latest
  <2>2. /\ publishing[w].content \in Contents /\ publishing[w].revision \in Nat
        /\ publishing[w] = [at |-> "decided", content |-> publishing[w].content,
                            revision |-> publishing[w].revision]
    BY <1>1, <1>Place DEF Place, Step, Idle
  <2>3. publishing'[w] = [at |-> "placed", content |-> publishing[w].content,
                          revision |-> publishing[w].revision]
    BY <1>1, <1>Place, <2>2 DEF Place, To
  <2>4. \A v \in Publishers \ {w} : publishing'[v] = publishing[v]
    BY <1>1, <1>Place DEF Place, To
  <2>5. /\ objects'[publishing[w].content] # "absent"
        /\ \A c \in Contents : objects[c] # "absent" => objects'[c] # "absent"
    BY <1>1, <1>Place, <2>2 DEF Place
  <2>6. QED  BY <1>1, <1>2, <1>Place, <2>1, <2>2, <2>3, <2>4, <2>5 DEF Place
<1>Record. ASSUME NEW w \in Publishers, Record(w) PROVE Goal
  <2>1. /\ publishing[w].revision = Latest + 1 /\ publishing[w].content \in Contents
        /\ Latest > 0 => resources[Latest] # publishing[w].content
        /\ objects[publishing[w].content] # "absent"
    BY <1>1, <1>Record DEF Record, Step, Idle
  <2>2. DOMAIN resources' = 1 .. Latest + 1
    BY <1>1, <1>Record, <2>1 DEF Record, Put
  <2>3. Latest' = Latest + 1
    <3>1. \A n \in Nat : DOMAIN resources' = 1 .. n => Latest' = n
      BY LatestOf DEF Latest
    <3>2. QED  BY <1>1, <2>2, <3>1
  <2>4. /\ resources'[Latest + 1] = publishing[w].content
        /\ \A r \in 1 .. Latest : resources'[r] = resources[r]
    BY <1>1, <1>Record, <2>1 DEF Record, Put
  <2>5. publishing'[w] = Idle /\ \A v \in Publishers \ {w} : publishing'[v] = publishing[v]
    BY <1>1, <1>Record DEF Record, To
  <2>6. \A v \in Publishers : publishing'[v].at \notin {"decided", "placed"}
    BY <1>1, <1>Record, <2>5 DEF Record, OneAtATime, Idle
  <2>7. ObjectFirst'  BY <1>1, <1>Record, <2>1, <2>3, <2>4, <2>6 DEF Record
  <2>8. Successive'
    <3>1. SUFFICES ASSUME NEW r \in 2 .. Latest + 1
                   PROVE  resources'[r] # resources'[r - 1]
      BY <2>3
    <3>2. CASE r = Latest + 1  BY <1>1, <2>1, <2>4, <3>2
    <3>3. CASE r # Latest + 1  BY <1>1, <2>4, <3>3
    <3>4. QED  BY <3>2, <3>3
  <2>9. QED  BY <2>6, <2>7, <2>8
<1>Damage. ASSUME NEW c \in Contents, Damage(c) PROVE Goal
  <2>1. Latest' = Latest  BY <1>Damage DEF Damage, Latest
  <2>2. \A d \in Contents : objects[d] # "absent" => objects'[d] # "absent"
    BY <1>1, <1>Damage DEF Damage
  <2>3. \A w \in Publishers : publishing[w].at = "placed" => publishing[w].content \in Contents
    BY <1>1 DEF Step, Idle
  <2>4. QED  BY <1>1, <1>Damage, <2>1, <2>2, <2>3 DEF Damage
<1>Die. ASSUME PublishersDie, UNCHANGED <<objects, resources>> PROVE Goal
  BY <1>1, <1>Quiet, <1>Die DEF PublishersDie, Idle
<1>Stutter. ASSUME UNCHANGED catalog PROVE Goal
  BY <1>1, <1>Quiet, <1>Stutter DEF catalog
<1>3. QED
  BY <1>1, <1>Stage, <1>Idles, <1>Decide, <1>Place, <1>Record, <1>Damage, <1>Die, <1>Stutter
  DEF CatalogNext, Publish

\* A revision that is published stays what it is.
LEMMA RevisionsStay ==
  CatalogInv /\ CatalogNext =>
    \A r \in DOMAIN resources : r \in DOMAIN resources' /\ resources'[r] = resources[r]
<1>1. SUFFICES ASSUME CatalogInv, CatalogNext, NEW r \in DOMAIN resources
               PROVE  r \in DOMAIN resources' /\ resources'[r] = resources[r]
  OBVIOUS
<1>2. CASE \E w \in Publishers : Record(w)
  <2>1. PICK w \in Publishers : Record(w)  BY <1>2
  <2>2. publishing[w].revision = Latest + 1
    BY <1>1, <2>1 DEF Record, CatalogInv, DecisionStands
  <2>3. r # Latest + 1  BY <1>1 DEF CatalogInv, CatalogTypes
  <2>4. QED  BY <1>1, <2>1, <2>2, <2>3 DEF Record, Put
<1>3. CASE UNCHANGED resources
  BY <1>3
<1>4. QED
  BY <1>1, <1>2, <1>3 DEF CatalogNext, Publish, Stage, Existing, Decide, Unreadable, Place,
     Damage, catalog

\* Every step keeps what is said of the catalog.
LEMMA CatalogStep == CatalogInv /\ CatalogNext => CatalogInv'
BY TypesStep, OneAtATimeStep, DecisionStep DEF CatalogInv

\* The invariant is as strong as what is wanted.
LEMMA CatalogInvSound == CatalogInv => CatalogSound
<1>1. HAVE CatalogInv
<1>2. DOMAIN resources = 1 .. Latest /\ Latest \in Nat  BY <1>1 DEF CatalogInv, CatalogTypes
<1>3. Cardinality(DOMAIN resources) = Latest  BY <1>2, FS_Interval
<1>4. QED
  BY <1>1, <1>2, <1>3 DEF CatalogSound, CatalogInv, ObjectFirst, Successive

-----------------------------------------------------------------------------
(* The plans and the Job *)

\* A plan file says what its name was made of, where the name takes that in.
NamedByContent ==
  \A id \in DOMAIN plans :
    /\ plans[id] = [whole |-> plans[id].whole, path |-> plans[id].path,
                    document |-> plans[id].document]
    /\ intent \notin DocumentOnly =>
         plans[id].whole \in BOOLEAN /\ id = <<plans[id].document, plans[id].path>>

\* A Job has the document of its plan.
PlanOfJob == job # NoJob =>
  /\ job = [at |-> job.at, plan |-> job.plan, document |-> job.document,
            checkedBy |-> job.checkedBy, sent |-> job.sent]
  /\ job.at \in {"accepted", "validating", "waiting", "running", "done", "failed"}
  /\ job.plan \in DOMAIN plans
  /\ plans[job.plan].whole = TRUE /\ plans[job.plan].document = job.document

\* A Job that waits was checked.
Checked == job # NoJob /\ job.at \in {"waiting", "running", "done"}
             => job.checkedBy \in Versions /\ Admitted(job.checkedBy, job.document)

\* A flow or a session that is sent was extracted from the capture.
Extracted == job # NoJob /\ Sends /\ job.document.kind \in {"udp", "stateful", "workload"}
               => job.sent = "whole"

PlanInv == policy \in Versions /\ NamedByContent

JobInv == PlanOfJob /\ Checked /\ Extracted

IInv == CatalogInv /\ PlanInv /\ JobInv

-----------------------------------------------------------------------------
\* A step leaves the plans or adds one that was not there.
Grows == plans' = plans \/ \E id, payload : ~Stored(id) /\ plans' = Put(plans, id, payload)

\* No step changes a plan file that is there.
LEMMA PlansGrow == Next => Grows
<1>1. HAVE Next
<1>2. CASE UNCHANGED plans  BY <1>2 DEF Grows
<1>3. ASSUME NEW r, NEW q, PlanTest(r, q) PROVE Grows
  BY <1>3 DEF PlanTest, Persist, Grows
<1>4. ASSUME NEW r, NEW q, WriteCutShort(r, q) PROVE Grows
  BY <1>4 DEF WriteCutShort, Grows
<1>5. QED
  BY <1>1, <1>2, <1>3, <1>4 DEF Next, planning, JobStep, Crash

\* Then what is there stays.
LEMMA PlansStay ==
  Grows => \A id \in DOMAIN plans : id \in DOMAIN plans' /\ plans'[id] = plans[id]
BY DEF Grows, Put, Stored

\* What a step is to the catalog.
LEMMA StepOfCatalog == [Next]_vars => CatalogNext
BY DEF Next, vars, CatalogNext, catalog, JobStep, Crash, Restart, PlanTest

\* Whatever is planned, at whatever revisions, is filed under its own name.
LEMMA PlanStep == PlanInv /\ [Next]_vars => PlanInv'
<1>1. SUFFICES ASSUME PlanInv, [Next]_vars PROVE PlanInv'
  OBVIOUS
<1> USE DEF PlanInv, NamedByContent
<1>2. intent' = intent /\ policy' \in Versions
  BY <1>1 DEF Next, vars, planning, JobStep, Crash, Restart, PlanTest
<1>3. CASE UNCHANGED plans  BY <1>1, <1>2, <1>3
<1>4. ASSUME NEW r, NEW q, NEW whole \in BOOLEAN, ~Stored(Identity(r, q)),
             plans' = Put(plans, Identity(r, q),
                          [whole |-> whole, path |-> q, document |-> Document(r, q)])
      PROVE  PlanInv'
  <2>1. intent \notin DocumentOnly => Identity(r, q) = <<Document(r, q), q>>
    BY DEF Identity
  <2>2. QED  BY <1>1, <1>2, <1>4, <2>1 DEF Put
<1>5. ASSUME NEW r, NEW q, PlanTest(r, q) PROVE PlanInv'
  BY <1>3, <1>4, <1>5 DEF PlanTest, Persist, Payload
<1>6. ASSUME NEW r, NEW q, WriteCutShort(r, q) PROVE PlanInv'
  BY <1>4, <1>6 DEF WriteCutShort, Torn
<1>7. QED
  BY <1>1, <1>3, <1>5, <1>6 DEF Next, vars, planning, JobStep, Crash

\* What admission asks depends on nothing that changes.
LEMMA AdmittedStays ==
  ASSUME UNCHANGED demand, NEW v, NEW d
  PROVE  Admitted(v, d)' = Admitted(v, d)
BY DEF Admitted, Within, TrafficAdmitted, BenchmarkAdmitted, ReplayAdmitted, StatefulAdmitted,
   UdpAdmitted, StormAdmitted

\* A Job goes from one stage to another with its plan, its document and what it was
\* checked against.
LEMMA JobInvStep == PlanInv /\ JobInv /\ [Next]_vars => JobInv'
<1>1. SUFFICES ASSUME PlanInv, JobInv, [Next]_vars PROVE JobInv'
  OBVIOUS
<1>2. /\ UNCHANGED demand
      /\ \A id \in DOMAIN plans : id \in DOMAIN plans' /\ plans'[id] = plans[id]
  <2>1. UNCHANGED demand
    BY <1>1 DEF Next, vars, planning, JobStep, Crash, Restart, PlanTest
  <2>2. CASE UNCHANGED plans  BY <2>1, <2>2
  <2>3. QED  BY <1>1, <2>1, <2>2, PlansGrow, PlansStay DEF vars, planning
<1>3. \A v, d : Admitted(v, d)' = Admitted(v, d)  BY <1>2, AdmittedStays
<1>Stays. CASE UNCHANGED job
  BY <1>1, <1>2, <1>3, <1>Stays DEF JobInv, PlanOfJob, Checked, Extracted, Sends
<1>Moves. ASSUME NEW stage \in {"validating", "failed"}, job # NoJob, Becomes(stage)
          PROVE  JobInv'
  <2>1. job' = [at |-> stage, plan |-> job.plan, document |-> job.document,
                checkedBy |-> job.checkedBy, sent |-> job.sent]
    BY <1>1, <1>Moves DEF Becomes, JobInv, PlanOfJob
  <2>2. QED
    BY <1>1, <1>2, <1>Moves, <2>1 DEF JobInv, PlanOfJob, Checked, Extracted, Sends, NoJob
<1>Validating. ASSUME ValidationStarts \/ ValidationFails \/ PrepareFails PROVE JobInv'
  <2>1. job # NoJob
    BY <1>Validating DEF ValidationStarts, ValidationFails, PrepareFails, JobAt, NoJob
  <2>2. Becomes("validating") \/ Becomes("failed")
    BY <1>Validating DEF ValidationStarts, ValidationFails, PrepareFails
  <2>3. QED  BY <1>Moves, <2>1, <2>2
<1>Crash. ASSUME Crash PROVE JobInv'
  <2>1. Recover  BY <1>Crash DEF Crash, Restart
  <2>2. CASE JobAt("running")
    <3>1. job # NoJob  BY <2>2 DEF JobAt, NoJob
    <3>2. Becomes("failed")  BY <2>1, <2>2 DEF Recover, Becomes
    <3>3. QED  BY <1>Moves, <3>1, <3>2
  <2>3. CASE ~JobAt("running")  BY <1>Stays, <2>1, <2>3 DEF Recover
  <2>4. QED  BY <2>2, <2>3
<1> USE DEF JobInv, PlanOfJob, Checked, Extracted, Sends, NoJob, JobAt
<1>Start. ASSUME NEW id \in DOMAIN plans, StartTest(id) PROVE JobInv'
  BY <1>1, <1>2, <1>Start DEF StartTest, PlanInv, NamedByContent
<1>Validated. ASSUME ValidationSucceeds PROVE JobInv'
  <2>1. job' = [job EXCEPT !.at = "waiting", !.checkedBy = policy] /\ job # NoJob
    BY <1>Validated DEF ValidationSucceeds
  <2>2. policy \in Versions /\ Admitted(policy, job.document)
    BY <1>1, <1>Validated DEF ValidationSucceeds, PlanInv
  <2>3. job' = [at |-> "waiting", plan |-> job.plan, document |-> job.document,
                checkedBy |-> policy, sent |-> job.sent]
    BY <1>1, <2>1
  <2>4. QED  BY <1>1, <1>2, <1>3, <2>1, <2>2, <2>3
<1>Prepare. ASSUME Prepare PROVE JobInv'
  <2>1. job # NoJob /\ job.at = "waiting"  BY <1>Prepare DEF Prepare
  <2>2. CASE job.document.kind \notin OfCapture /\ Becomes("running")
    <3>1. job' = [at |-> "running", plan |-> job.plan, document |-> job.document,
                  checkedBy |-> job.checkedBy, sent |-> job.sent]
      BY <1>1, <2>1, <2>2 DEF Becomes
    <3>2. job.document.kind \notin {"udp", "stateful", "workload"}  BY <2>2 DEF OfCapture
    <3>3. QED  BY <1>1, <1>2, <1>3, <2>1, <3>1, <3>2
  <2>3. CASE /\ Extracts(job.document) \/ Compiles(job.document)
             /\ job' = [job EXCEPT !.at = "running", !.sent = objects[job.document.capture]]
    <3>1. job' = [at |-> "running", plan |-> job.plan, document |-> job.document,
                  checkedBy |-> job.checkedBy, sent |-> objects[job.document.capture]]
      BY <1>1, <2>1, <2>3
    <3>2. job.document.kind \in {"udp", "stateful", "workload"}
            => objects[job.document.capture] = "whole"
      BY <2>3 DEF Extracts, Compiles
    <3>3. QED  BY <1>1, <1>2, <1>3, <2>1, <3>1, <3>2
  <2>4. QED  BY <1>Prepare, <2>2, <2>3 DEF Prepare
<1>Ends. ASSUME Ends PROVE JobInv'
  <2>1. PICK stage \in {"done", "failed"} : Becomes(stage)  BY <1>Ends DEF Ends
  <2>2. job # NoJob /\ job.at = "running"  BY <1>Ends DEF Ends
  <2>3. job' = [at |-> stage, plan |-> job.plan, document |-> job.document,
                checkedBy |-> job.checkedBy, sent |-> job.sent]
    BY <1>1, <2>1, <2>2 DEF Becomes
  <2>4. QED  BY <1>1, <1>2, <1>3, <2>1, <2>2, <2>3
<1>4. QED
  BY <1>1, <1>Stays, <1>Start, <1>Validating, <1>Validated, <1>Prepare, <1>Ends, <1>Crash
  DEF Next, vars, JobStep

\* The invariant is inductive.
LEMMA Inductive == Spec => []IInv
<1>1. Init => IInv
  BY CatalogStarts DEF Init, PlansInit, IInv, PlanInv, NamedByContent, JobInv, PlanOfJob, Checked,
     Extracted, Sends, NoJob
<1>2. IInv /\ [Next]_vars => IInv'
  BY StepOfCatalog, CatalogStep, PlanStep, JobInvStep DEF IInv
<1>3. QED  BY <1>1, <1>2, PTL DEF Spec

-----------------------------------------------------------------------------
(* Theorems *)

\* Revisions count on without a gap, each differs from the one before and has its
\* object, whatever publications ran at once (pcap_catalog.py publish).
THEOREM CatalogSafe == Spec => []CatalogSound
<1>1. IInv => CatalogSound  BY CatalogInvSound DEF IInv
<1>2. QED  BY <1>1, Inductive, PTL

\* What a revision or a plan says is never changed nor lost (pcap_catalog.py publish,
\* test_plan.py _persist).
THEOREM NeverRewritten == Spec => Frozen
<1>1. IInv /\ [Next]_vars =>
        [/\ \A r \in DOMAIN resources : r \in DOMAIN resources' /\ resources'[r] = resources[r]
         /\ \A id \in DOMAIN plans : id \in DOMAIN plans' /\ plans'[id] = plans[id]
        ]_<<resources, plans>>
  BY StepOfCatalog, RevisionsStay, PlansGrow, PlansStay DEF IInv, vars, catalog, planning
<1>2. QED  BY <1>1, Inductive, PTL DEF Spec, Frozen

\* A plan whose name takes in its sources never meets another (test_plan.py _persist).
THEOREM NamesApart == Spec => []NoCollisionByPath
<1>1. IInv => NoCollisionByPath
  <2>1. SUFFICES ASSUME IInv, intent \notin DocumentOnly, NEW ref \in References,
                        Stored(Identity(ref[1], ref[2]))
                 PROVE  plans[Identity(ref[1], ref[2])] \in
                          {Payload(ref[1], ref[2]), Torn(ref[1], ref[2])}
    BY DEF NoCollisionByPath, NoCollision
  <2>2. Identity(ref[1], ref[2]) = <<Document(ref[1], ref[2]), ref[2]>>
    BY <2>1 DEF Identity
  <2>3. QED
    BY <2>1, <2>2 DEF IInv, PlanInv, NamedByContent, Stored, Payload, Torn
<1>2. QED  BY <1>1, Inductive, PTL

\* A Job sends what its plan says (trex_adapter.py _udp_templates, astf_adapter.py
\* _validate_sync).
THEOREM SentAsPlanned == Spec => []SendsThePlan
<1>1. IInv => SendsThePlan
  <2>1. SUFFICES ASSUME IInv, Sends PROVE SendsThePlan
    BY DEF SendsThePlan
  <2>2. job # NoJob  BY <2>1 DEF Sends, NoJob
  <2>3. /\ job.plan \in DOMAIN plans
        /\ plans[job.plan].whole = TRUE /\ plans[job.plan].document = job.document
    BY <2>1, <2>2 DEF IInv, JobInv, PlanOfJob
  <2>4. plans[job.plan] = [whole |-> TRUE, path |-> plans[job.plan].path,
                           document |-> job.document]
    BY <2>1, <2>3 DEF IInv, PlanInv, NamedByContent
  <2>5. QED  BY <2>1, <2>2, <2>4 DEF IInv, JobInv, Extracted, SendsThePlan
<1>2. QED  BY <1>1, Inductive, PTL

\* What a version admits is within all its limits that the validation compares.
LEMMA AdmittedWithin ==
  ASSUME NEW v, NEW d, Admitted(v, d)
  PROVE  Within(v, Asks(d.kind) \ NotCompared(d.kind)) /\ (d.kind = "preserve" => d.policy = v)
<1> USE DEF Admitted, Within, Asks, AskedBy, NotCompared, Kinds, OfCapture, Storms
<1>1. CASE TrafficAdmitted(v, d)  BY <1>1 DEF TrafficAdmitted
<1>2. CASE BenchmarkAdmitted(v, d)  BY <1>2 DEF BenchmarkAdmitted
<1>3. CASE ReplayAdmitted(v, d)  BY <1>3 DEF ReplayAdmitted
<1>4. CASE StatefulAdmitted(v, d)  BY <1>4 DEF StatefulAdmitted, StatefulLimits
<1>5. CASE UdpAdmitted(v, d)  BY <1>5 DEF UdpAdmitted
<1>6. CASE StormAdmitted(v, d)  BY <1>6 DEF StormAdmitted, StormLimits
<1>7. QED  BY <1>1, <1>2, <1>3, <1>4, <1>5, <1>6 DEF Admitted

\* What a Job that runs asks was compared with one version of the policy, in all that
\* its kind can ask too much of but for the named exceptions (jobs.py _validate_job,
\* _validate_policy, _recover).
THEOREM RunsChecked == Spec => []CheckedBeforeItRuns
<1>1. IInv => CheckedBeforeItRuns
  <2>1. SUFFICES ASSUME IInv, Sends PROVE CheckedBeforeItRuns
    BY DEF CheckedBeforeItRuns
  <2>2. job.checkedBy \in Versions /\ Admitted(job.checkedBy, job.document)
    BY <2>1 DEF IInv, JobInv, Checked, Sends, NoJob
  <2>3. QED  BY <2>2, AdmittedWithin DEF CheckedBeforeItRuns
<1>2. QED  BY <1>1, Inductive, PTL

=============================================================================
