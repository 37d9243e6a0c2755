-------------------------- MODULE ThroughputSearch --------------------------
(***************************************************************************)
(* search_frame (rfc2544.py): the highest rate without loss, by bisection,    *)
(* then confirmed by longer trials, step by step downwards while they lose.   *)
(* Every rate is observed by several samples, and every sample that is not    *)
(* valid is tried once more.                                                  *)
(***************************************************************************)
EXTENDS Rfc2544Settings

VARIABLES dut,         \* the device under test
          phase,       \* "ceiling", "search", "confirm": what the trials are for;
                       \* "bisect": between two observations; "done"
          low, high, candidate,
          sample,      \* the sample of observe that is next
          retrying,    \* it is a second trial
          observed,    \* what observe would return: "none", "zero", "loss"
          left,        \* confirmations to go
          result,      \* Pending, Invalid or the rate that is reported
          probes,      \* the rates the bisection has looked at
          zeros,       \* rates that a search trial crossed without loss
          losses,      \* rates at which a valid trial lost frames
          quiet,       \* confirmations without loss since a rate last lost frames
          seen         \* what a confirmation, or a retry, has shown at all

bounds == <<low, high>>
observing == <<sample, retrying, observed>>
evidence == <<zeros, losses, quiet, seen>>
vars == <<dut, phase, bounds, candidate, observing, left, result, probes, evidence>>

Rates == 0..Ceiling

\* probes counts no further
ProbeCap == Ceiling

TypeOK == /\ dut \in Devices
          /\ phase \in {"ceiling", "bisect", "search", "confirm", "done"}
          /\ low \in Rates /\ high \in Rates /\ candidate \in Rates
          /\ sample \in 1..Samples + 1
          /\ retrying \in BOOLEAN
          /\ observed \in {"none", "zero", "loss"}
          /\ left \in 1..Confirmations
          /\ result \in Rates \cup {Pending, Invalid}
          /\ probes \in 0..ProbeCap
          /\ zeros \subseteq Rates /\ losses \subseteq Rates
          /\ quiet \in 0..Confirmations
          /\ seen \subseteq {"confirmed", "twice-invalid"}

Init == /\ dut \in Devices
        /\ phase = "ceiling"
        /\ low = 0 /\ high = Ceiling /\ candidate = Ceiling
        /\ sample = 1 /\ retrying = FALSE /\ observed = "none"
        /\ left = Confirmations
        /\ result = Pending
        /\ probes = 0
        /\ zeros = {} /\ losses = {} /\ quiet = 0 /\ seen = {}

\* the caller goes on with the next frame size
CalledAgain == /\ dut' \in Devices
               /\ phase' = "ceiling"
               /\ low' = 0 /\ high' = Ceiling /\ candidate' = Ceiling
               /\ sample' = 1 /\ retrying' = FALSE /\ observed' = "none"
               /\ left' = Confirmations
               /\ result' = Pending
               /\ probes' = 0
               /\ zeros' = {} /\ losses' = {} /\ quiet' = 0 /\ seen' = {}

-----------------------------------------------------------------------------
(* observe *)

\* One sample without loss is enough for a search; a confirmation has one only.
Taken(before, outcome) == IF before = "zero" THEN "zero" ELSE outcome

SamplesOf(ph) == IF ph = "confirm" THEN 1 ELSE Samples

Trial(outcome) ==
  /\ phase \in {"ceiling", "search", "confirm"} /\ sample <= SamplesOf(phase)
  /\ outcome \in Observations(dut, candidate)
  /\ IF outcome = "invalid" /\ ~retrying
     THEN retrying' = TRUE /\ UNCHANGED <<sample, observed>>
     ELSE /\ retrying' = FALSE /\ sample' = sample + 1
          /\ observed' = IF outcome = "invalid" THEN observed ELSE Taken(observed, outcome)
  /\ zeros' = IF outcome = "zero" /\ phase # "confirm" THEN zeros \cup {candidate} ELSE zeros
  /\ losses' = IF outcome = "loss" THEN losses \cup {candidate} ELSE losses
  /\ quiet' = IF outcome = "loss" THEN 0
              ELSE IF outcome = "zero" /\ phase = "confirm" THEN quiet + 1 ELSE quiet
  /\ seen' = seen \cup (IF phase = "confirm" /\ outcome = "zero" THEN {"confirmed"} ELSE {})
                  \cup (IF retrying /\ outcome = "invalid" THEN {"twice-invalid"} ELSE {})
  /\ UNCHANGED <<dut, phase, bounds, candidate, left, result, probes>>

Observes(ph, what) == phase = ph /\ sample > SamplesOf(ph) /\ observed = what
ObserveNext == sample' = 1 /\ retrying' = FALSE /\ observed' = "none"

\* no sample was valid, nor its retry
NoValidTrial ==
  /\ \E ph \in {"ceiling", "search", "confirm"} : Observes(ph, "none")
  /\ phase' = "done" /\ result' = Invalid
  /\ ObserveNext
  /\ UNCHANGED <<dut, bounds, candidate, left, probes, evidence>>

-----------------------------------------------------------------------------
(* The bisection *)

CeilingHolds ==
  /\ Observes("ceiling", "zero")
  /\ phase' = "confirm"
  /\ ObserveNext
  /\ UNCHANGED <<dut, bounds, candidate, left, result, probes, evidence>>

CeilingLoses ==
  /\ Observes("ceiling", "loss")
  /\ phase' = "bisect"
  /\ ObserveNext
  /\ UNCHANGED <<dut, bounds, candidate, left, result, probes, evidence>>

Middle == RoundHalf(low + high, Resolution)

Repeats(rate) == rate <= low \/ rate >= high

\* high - low > resolution; of floats, an equal difference may be greater too
Probe ==
  /\ phase = "bisect"
  /\ high - low >= Resolution /\ ~Repeats(Middle)
  /\ candidate' = Middle
  /\ phase' = "search"
  /\ probes' = IF probes < ProbeCap THEN probes + 1 ELSE probes
  /\ UNCHANGED <<dut, bounds, observing, left, result, evidence>>

Best == low

SearchEnds ==
  /\ phase = "bisect"
  /\ high - low <= Resolution \/ Repeats(Middle)
  /\ candidate' = Best
  /\ IF Best = 0 THEN phase' = "done" /\ result' = 0
                 ELSE phase' = "confirm" /\ UNCHANGED result
  /\ UNCHANGED <<dut, bounds, observing, left, probes, evidence>>

SearchHolds ==
  /\ Observes("search", "zero")
  /\ low' = candidate
  /\ phase' = "bisect"
  /\ ObserveNext
  /\ UNCHANGED <<dut, high, candidate, left, result, probes, evidence>>

SearchLoses ==
  /\ Observes("search", "loss")
  /\ high' = candidate
  /\ phase' = "bisect"
  /\ ObserveNext
  /\ UNCHANGED <<dut, low, candidate, left, result, probes, evidence>>

-----------------------------------------------------------------------------
(* The confirmation *)

\* mutant: the last confirmation is asked for once more
ConfirmHoldsOn ==
  /\ Observes("confirm", "zero")
  /\ IF left = 0 THEN phase' = "done" /\ result' = candidate /\ UNCHANGED left
                 ELSE left' = left - 1 /\ UNCHANGED <<phase, result>>
  /\ ObserveNext
  /\ UNCHANGED <<dut, bounds, candidate, probes, evidence>>

ConfirmHolds ==
  /\ Observes("confirm", "zero")
  /\ IF left = 1 THEN phase' = "done" /\ result' = candidate /\ UNCHANGED left
                 ELSE left' = left - 1 /\ UNCHANGED <<phase, result>>
  /\ ObserveNext
  /\ UNCHANGED <<dut, bounds, candidate, probes, evidence>>

\* mutant: the confirmations of the higher rate count
StillLeft == left

AgainLeft == Confirmations

Lower == RoundRate(candidate - Resolution, Resolution)

ConfirmLoses ==
  /\ Observes("confirm", "loss")
  /\ IF Lower <= 0 THEN phase' = "done" /\ result' = 0 /\ UNCHANGED <<candidate, left>>
                   ELSE candidate' = Lower /\ left' = AgainLeft /\ UNCHANGED <<phase, result>>
  /\ ObserveNext
  /\ UNCHANGED <<dut, bounds, probes, evidence>>

Next == \/ \E outcome \in Outcomes : Trial(outcome)
        \/ NoValidTrial \/ CeilingHolds \/ CeilingLoses \/ Probe \/ SearchEnds
        \/ SearchHolds \/ SearchLoses \/ ConfirmHolds \/ ConfirmLoses

-----------------------------------------------------------------------------
(* Properties *)

\* The bisection ends at a rate that was crossed without loss, one step or less
\* below a rate of which every sample lost frames (search_frame, low and high).
BestFound ==
  [][phase = "bisect" /\ phase' # "search"
       => /\ candidate' \in zeros \cup {0}
          /\ \E h \in losses \ zeros : candidate' < h /\ h <= candidate' + Resolution]_vars

\* A rate is reported only after that many confirmations in a row, none of them
\* at a higher rate or before a loss (design.md: the final value is confirmed).
Confirmed == result \in Rates \ {0} => quiet = Confirmations

\* What is reported is not given away: just above it frames were lost.  The step
\* from a ceiling between two multiples may be rounded up to one and a half.
Tight == result \in Rates \ {Ceiling}
           => \E h \in losses : result < h /\ 2 * (h - result) <= 3 * Resolution

\* Of a device that loses frames exactly above its capacity the search finds the
\* capacity, to the resolution.
Accurate ==
  phase = "done" /\ dut # Erratic
    => result \in Rates /\ result <= dut /\ (result = Ceiling \/ dut < result + Resolution)

\* _assess_throughput: the evidence that a publication asks of a frame size
Publishable == phase = "done" /\ result \in Rates /\ "confirmed" \in seen

\* The number of trials is that of a bisection, not of a scan.
Halvings == CHOOSE k \in 0..Ceiling :
              /\ Resolution * 2^k >= Ceiling
              /\ \A i \in 0..k - 1 : Resolution * 2^i < Ceiling
Logarithmic == probes <= Halvings + 1
=============================================================================
