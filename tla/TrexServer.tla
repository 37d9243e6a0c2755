----------------------------- MODULE TrexServer -----------------------------
(***************************************************************************)
(* A TRex server as the commands of the adapters see it.  The server itself *)
(* is not part of the repository: this is what trex_adapter.py and          *)
(* astf_adapter.py take for granted.  A port has one owner; a command of a  *)
(* client that does not own the ports is refused; streams (a profile) can   *)
(* be changed only while the ports are idle.                                *)
(***************************************************************************)
EXTENDS Deployment

CONSTANT Reconciler    \* the client of a reconcile

ASSUME ReconcilerAssumption == Reconciler \notin Jobs \cup {None}

VARIABLES holder,      \* holder[p]: whose client has acquired p
          loaded,      \* loaded[p]: streams or a profile are installed
          sends,       \* sends[p]: the Job whose streams p transmits
          counters     \* counters[p]: p has ever transmitted

server == <<holder, loaded, sends, counters>>

ServerInit == /\ holder = [p \in Ports |-> None]
              /\ loaded = [p \in Ports |-> FALSE]
              /\ sends = [p \in Ports |-> None]
              /\ counters = [p \in Ports |-> FALSE]

\* f with v for every port of j
Put(f, j, v) == [p \in Ports |-> IF p \in Needs[j] THEN v ELSE f[p]]

\* the client who owns the ports of j
Owns(who, j) == \A p \in Needs[j] : holder[p] = who
Idle(j) == \A p \in Needs[j] : sends[p] = None

\* acquire(force=False)
Acquire(j) == /\ \A p \in Needs[j] : holder[p] = None
              /\ holder' = Put(holder, j, j)
              /\ UNCHANGED <<loaded, sends, counters>>

\* acquire of a client with the owner name of j, by force if the ports have it
Reclaim(j) == /\ \A p \in Needs[j] : holder[p] \in {None, j, Reconciler}
              /\ holder' = Put(holder, j, Reconciler)
              /\ UNCHANGED <<loaded, sends, counters>>

Reset(who, j) == /\ Owns(who, j)
                 /\ sends' = Put(sends, j, None) /\ loaded' = Put(loaded, j, FALSE)
                 /\ UNCHANGED <<holder, counters>>

\* add_streams, load_profile
Load(j) == /\ Owns(j, j) /\ Idle(j)
           /\ loaded' = Put(loaded, j, TRUE)
           /\ UNCHANGED <<holder, sends, counters>>

StartTraffic(j) == /\ Owns(j, j) /\ \A p \in Needs[j] : loaded[p]
                   /\ sends' = Put(sends, j, j) /\ counters' = Put(counters, j, TRUE)
                   /\ UNCHANGED <<holder, loaded>>

\* push_remote: the server reads the capture itself
PushRemote(j) == /\ Owns(j, j) /\ Idle(j)
                 /\ sends' = Put(sends, j, j) /\ counters' = Put(counters, j, TRUE)
                 /\ UNCHANGED <<holder, loaded>>

StopTraffic(who, j) == /\ Owns(who, j)
                       /\ sends' = Put(sends, j, None)
                       /\ UNCHANGED <<holder, loaded, counters>>

\* remove_all_streams, clear_profile
Unload(j) == /\ Owns(j, j) /\ Idle(j)
             /\ loaded' = Put(loaded, j, FALSE)
             /\ UNCHANGED <<holder, sends, counters>>

\* the ports are free; what they transmit goes on
Release(who, j) == /\ Owns(who, j)
                   /\ holder' = Put(holder, j, None)
                   /\ UNCHANGED <<loaded, sends, counters>>

\* the duration of a run is over
TrafficEnds(p) == /\ sends[p] # None
                  /\ sends' = [sends EXCEPT ![p] = None]
                  /\ UNCHANGED <<holder, loaded, counters>>
=============================================================================
