---------------------------- MODULE MCJobClients ----------------------------
(* Two clients of one user and one of another, with what each is told to do. *)
EXTENDS JobClients

CONSTANTS a, b, o, d1, d2, k, p, q, k2

Under(key, d, j) == [verb |-> "submit", document |-> d, key |-> key, retryOf |-> j]
Post(d, j) == Under(k, d, j)
Run(d) == [verb |-> "run", document |-> d]
Begin(d) == [verb |-> "start", document |-> d]
On(verb) == [verb |-> verb, job |-> 1]
Follow(r) == [verb |-> "follow", job |-> 1, cursor |-> r]

Script(x, y, z) == a :> x @@ b :> y @@ o :> z

\* a and b submit under one key, again and again, or a's Job is retried; or o uses
\* the same key with a token of its own
Submitters ==
  {Script(<<Post(d1, None), Post(d1, None)>>, <<Post(d, j)>>, << >>) :
     d \in {d1, d2}, j \in {None, 1}}
  \cup {Script(<<Post(d1, None)>>, <<Under(k2, d, 1)>>, << >>) : d \in {d1, d2}}
  \cup {Script(<<Post(d1, None)>>, << >>, <<Post(d, None)>>) : d \in {d1, d2}}

\* a waits for the Job it has submitted, or b looks at it
Watchers == {Script(<<Run(d1)>>, << >>, << >>), Script(<<Begin(d1), Begin(d1)>>, << >>, << >>)}
             \cup {Script(<<Post(d1, None)>>, <<m>>, << >>) :
                     m \in {On("watch"), On("result"), On("cancel")}
                             \cup {Follow(r) : r \in {None, 0, 2, 4}}}

TheScripts == Submitters \cup Watchers

TwoPrincipals == a :> p @@ b :> p @@ o :> q
=============================================================================
