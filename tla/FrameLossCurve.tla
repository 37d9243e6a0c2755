--------------------------- MODULE FrameLossCurve ---------------------------
(***************************************************************************)
(* measure_frame_loss (rfc2544.py): from the ceiling downwards until two rates *)
(* in a row lose nothing.  What it returns is assessed for publication by      *)
(* _assess_frame_loss (publication.py).                                        *)
(***************************************************************************)
EXTENDS Rfc2544Settings, Sequences

VARIABLES dut,           \* the device under test
          rate,          \* may be negative at the end
          lossRetrying,  \* it is the second trial at that rate
          zeroRun,       \* consecutive_zero
          points,        \* history: the rate and the outcome of each trial
          drawn,         \* the points of the curve: of the valid trials
          curve          \* what it returns: "stopped" means after rates without loss

vars == <<dut, rate, lossRetrying, zeroRun, points, drawn, curve>>

Point == [rate : 1..Ceiling, outcome : Outcomes]

TypeOK == /\ dut \in Devices
          /\ rate \in -LossStep..Ceiling
          /\ lossRetrying \in BOOLEAN
          /\ zeroRun \in 0..ZeroLossRuns
          /\ points \in Seq(Point) /\ drawn \in Seq(Point)
          /\ curve \in {"none", "invalid", "stopped", "through"}

Init == /\ dut \in Devices
        /\ rate = Ceiling /\ lossRetrying = FALSE /\ zeroRun = 0 /\ points = <<>>
        /\ drawn = <<>> /\ curve = "none"

\* the caller goes on with the next frame size
CalledAgain == /\ dut' \in Devices
               /\ rate' = Ceiling /\ lossRetrying' = FALSE /\ zeroRun' = 0 /\ points' = <<>>
               /\ drawn' = <<>> /\ curve' = "none"

Measure(outcome) ==
  /\ curve = "none" /\ rate > 0
  /\ outcome \in Observations(dut, rate)
  /\ points' = Append(points, [rate |-> rate, outcome |-> outcome])

Unusable(outcome) == outcome = "invalid"

Retry(outcome) == /\ Measure(outcome) /\ Unusable(outcome) /\ ~lossRetrying
                  /\ lossRetrying' = TRUE
                  /\ UNCHANGED <<dut, rate, zeroRun, drawn, curve>>

GiveUp(outcome) == /\ Measure(outcome) /\ Unusable(outcome) /\ lossRetrying
                   /\ curve' = "invalid"
                   /\ UNCHANGED <<dut, rate, lossRetrying, zeroRun, drawn>>

RunAfter(outcome) == IF outcome = "loss" THEN 0 ELSE zeroRun + 1

\* mutant: two steps at once
TwoBelow == RoundRate(rate - 2 * LossStep, LossStep)

Below == RoundRate(rate - LossStep, LossStep)

Use(outcome) ==
  /\ Measure(outcome) /\ ~Unusable(outcome)
  /\ drawn' = Append(drawn, [rate |-> rate, outcome |-> outcome])
  /\ zeroRun' = RunAfter(outcome)
  /\ IF zeroRun' >= ZeroLossRuns
     THEN curve' = "stopped" /\ UNCHANGED <<rate, lossRetrying>>
     ELSE /\ rate' = Below /\ lossRetrying' = FALSE /\ UNCHANGED curve
  /\ UNCHANGED dut

RanThrough == /\ curve = "none" /\ rate <= 0
              /\ curve' = "through"
              /\ UNCHANGED <<dut, rate, lossRetrying, zeroRun, points, drawn>>

Next == \/ \E outcome \in Outcomes : Retry(outcome) \/ GiveUp(outcome) \/ Use(outcome)
        \/ RanThrough

-----------------------------------------------------------------------------
(* Properties *)

Valid == curve \in {"stopped", "through"}

\* A valid curve has a point at the ceiling and one at every further rate, at most
\* one and a half steps below it; only one that stopped leaves out lower rates.
CurveComplete ==
  Valid =>
    /\ drawn # <<>> /\ drawn[1].rate = Ceiling
    /\ \A i \in 1..Len(drawn) - 1 :
         LET fall == drawn[i].rate - drawn[i + 1].rate
         IN fall > 0 /\ 2 * fall <= 3 * LossStep
    /\ curve = "through" => 2 * drawn[Len(drawn)].rate <= 3 * LossStep

\* The measurement stops at the first two rates in a row that lose nothing.
StopsInTime ==
  Valid => LET quiet(i) == \A k \in 0..ZeroLossRuns - 1 : drawn[i - k].outcome = "zero"
           IN \A i \in ZeroLossRuns..Len(drawn) : quiet(i) <=> i = Len(drawn) /\ curve = "stopped"

\* Every rate has its own retry: a rate is measured twice exactly when its first
\* trial was invalid, and the measurement is given up only for two such trials.
RetriesMatch ==
  /\ \A i \in 2..Len(points) : points[i].rate = points[i - 1].rate
                                 <=> points[i - 1].outcome = "invalid"
  /\ \A i \in 3..Len(points) : points[i].rate # points[i - 2].rate
  /\ curve = "invalid" => /\ Len(points) > 1
                           /\ points[Len(points)].rate = points[Len(points) - 1].rate

\* _assess_frame_loss, for a ceiling and a step that publication accepts
Publishable ==
  /\ curve = "stopped"
  /\ \A i \in 1..Len(points) : points[i].outcome # "invalid"
  /\ points[1].rate = Ceiling
  /\ \A i \in 2..Len(points) : points[i].rate < points[i - 1].rate
  /\ Len(points) >= 2 /\ \A i \in Len(points) - 1..Len(points) : points[i].outcome = "zero"
=============================================================================
