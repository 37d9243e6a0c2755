--------------------------- MODULE MCRfc2544Suite ---------------------------
(* Rates and bursts of a few and a half steps; every capacity. *)
EXTENDS Rfc2544Suite

EveryCapacity == 0..Ceiling
TheSuites == {Required, <<"frame-loss", "throughput", "back-to-back">>}
=============================================================================
