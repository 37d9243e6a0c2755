--------------------------- MODULE CaptureCatalog ---------------------------
(***************************************************************************)
(* The catalog of captures (pcap_catalog.py): contents under objects/, one *)
(* file per digest, and under resources/ one descriptor per revision of    *)
(* the name that is looked at.  A publication runs in a worker thread and  *)
(* goes on when its caller has left; publications exclude one another, the *)
(* readers (describe, search) take no lock.                                *)
(***************************************************************************)
EXTENDS Naturals, FiniteSets, FiniteSetsExt

CONSTANTS Contents,        \* the captures offered, by digest
          Publishers,      \* the worker threads that may publish
          MaxRevisions     \* bound: no publication starts beyond it

VARIABLES objects,         \* objects/: digest -> "absent", "whole" or what became of the file
          resources,       \* resources/: revision -> digest of the descriptor
          publishing       \* how far each publication is

catalog == <<objects, resources, publishing>>

\* what a file under objects/ may be; only "whole" has the bytes its digest names
Object == {"absent", "whole", "altered", "resized"}

Idle == [at |-> "idle"]

Latest == IF DOMAIN resources = {} THEN 0 ELSE Max(DOMAIN resources)

\* a file x with the content v is put among the files f
Put(f, x, v) == [y \in DOMAIN f \cup {x} |-> IF y = x THEN v ELSE f[y]]

CatalogInit ==
  /\ objects = [c \in Contents |-> "absent"]
  /\ resources = <<>>
  /\ publishing = [w \in Publishers |-> Idle]
-----------------------------------------------------------------------------
Locked == \E w \in Publishers : publishing[w] # Idle

To(w, step) == publishing' = [publishing EXCEPT ![w] = step]

\* mutant: publish does not take the lock
StageUnlocked(w, c) ==
  /\ publishing[w] = Idle
  /\ Latest < MaxRevisions
  /\ To(w, [at |-> "staged", content |-> c])
  /\ UNCHANGED <<objects, resources>>

\* the content is copied into a temporary file and its digest taken; an upload
\* that is too long or breaks off leaves nothing
Stage(w, c) ==
  /\ publishing[w] = Idle /\ ~Locked
  /\ Latest < MaxRevisions
  /\ To(w, [at |-> "staged", content |-> c])
  /\ UNCHANGED <<objects, resources>>

\* the latest revision has this digest already: it is returned
Existing(w) ==
  /\ publishing[w].at = "staged"
  /\ Latest > 0 /\ resources[Latest] = publishing[w].content
  /\ To(w, Idle)
  /\ UNCHANGED <<objects, resources>>

\* mutant: only the first revision is compared
DecideAgainstFirst(w) ==
  /\ publishing[w].at = "staged"
  /\ 1 \in DOMAIN resources => resources[1] # publishing[w].content
  /\ To(w, [at |-> "decided", content |-> publishing[w].content, revision |-> Latest + 1])
  /\ UNCHANGED <<objects, resources>>

\* analyzed; the next revision is reckoned from what was just read
Decide(w) ==
  /\ publishing[w].at = "staged"
  /\ Latest > 0 => resources[Latest] # publishing[w].content
  /\ To(w, [at |-> "decided", content |-> publishing[w].content, revision |-> Latest + 1])
  /\ UNCHANGED <<objects, resources>>

\* the capture cannot be analyzed
Unreadable(w) ==
  /\ publishing[w].at = "staged"
  /\ Latest > 0 => resources[Latest] # publishing[w].content
  /\ To(w, Idle)
  /\ UNCHANGED <<objects, resources>>

\* an object that is there is kept as it is
Place(w) ==
  /\ publishing[w].at = "decided"
  /\ objects' = [objects EXCEPT ![publishing[w].content] = IF @ = "absent" THEN "whole" ELSE @]
  /\ To(w, [publishing[w] EXCEPT !.at = "placed"])
  /\ UNCHANGED resources

\* the descriptor replaces whatever is under its name
Record(w) ==
  /\ publishing[w].at = "placed"
  /\ resources' = Put(resources, publishing[w].revision, publishing[w].content)
  /\ To(w, Idle)
  /\ UNCHANGED objects

Publish(w) ==
  \/ \E c \in Contents : Stage(w, c)
  \/ Existing(w) \/ Decide(w) \/ Unreadable(w) \/ Place(w) \/ Record(w)

\* the end of the process ends the publications where they are
PublishersDie == publishing' = [w \in Publishers |-> Idle]

\* external: a file under objects/ is overwritten or cut short
Damage(c) ==
  /\ objects[c] = "whole"
  /\ \E harm \in {"altered", "resized"} : objects' = [objects EXCEPT ![c] = harm]
  /\ UNCHANGED <<resources, publishing>>
-----------------------------------------------------------------------------
\* The revisions of a name count from 1 without a gap, each differs from the one
\* before, and the object a descriptor names exists: whatever publications ran at
\* the same time or were cut short (pcap_catalog.py publish: the lock, _latest,
\* the object before the descriptor).
CatalogSound ==
  /\ DOMAIN resources = 1 .. Cardinality(DOMAIN resources)
  /\ \A r \in DOMAIN resources : objects[resources[r]] # "absent"
  /\ \A r \in DOMAIN resources \ {1} : resources[r] # resources[r - 1]
=============================================================================
