--------------------------- MODULE MCRemoteSessions ---------------------------
(* Two STL Jobs after one port, the second of any kind, or one ASTF Job. *)
EXTENDS RemoteSessions

CONSTANTS p1, p2

MCNeeds == [j \in Jobs |-> IF j < 3 THEN {p1} ELSE {p2}]
MCAdapterOf == [j \in Jobs |-> IF j < 3 THEN "stl" ELSE "astf"]

\* only a suite may go on with another trial after it was given up
MCWorkloads == <<{"benchmark"}, StlKinds \ {"benchmark"}, AstfKinds>>
===============================================================================
