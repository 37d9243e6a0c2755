-------------------------- MODULE Rfc2544Settings --------------------------
(***************************************************************************)
(* The settings of the RFC 2544 procedures (rfc2544.py) and the devices under *)
(* test they meet.  Rates are integers, Resolution of them to one step of the *)
(* search, so that a ceiling need not be a multiple of the resolution.        *)
(***************************************************************************)
EXTENDS Integers

CONSTANTS Ceiling,        \* max_percent_l1
          Resolution,     \* resolution of the throughput search
          Samples,        \* search_samples
          Confirmations,  \* trials that must all be without loss
          LossStep,       \* step_percent of the loss curve
          ZeroLossRuns,   \* consecutive_zero_loss
          MaxBurst,       \* maximum_burst_frames
          BurstStep,      \* minimum_step_frames
          Repetitions,    \* of the burst search
          Capacities,     \* what devices under test can take: a rate, or a burst
          Erratic,        \* a device whose trials may end in any way
          Pending,        \* there is no throughput yet
          Invalid         \* no valid trial: no throughput is reported

ASSUME RatesAssumption == /\ Ceiling \in Nat \ {0} /\ Capacities \subseteq Nat
                          /\ Erratic \notin Int
                          /\ {Pending, Invalid} \cap Int = {} /\ Pending # Invalid
ASSUME ThroughputAssumption == {Resolution, Samples, Confirmations} \subseteq Nat \ {0}
ASSUME LossAssumption == {LossStep, ZeroLossRuns} \subseteq Nat \ {0}
ASSUME BurstAssumption == {MaxBurst, BurstStep, Repetitions} \subseteq Nat \ {0}

Devices == Capacities \cup {Erratic}

Outcomes == {"invalid", "zero", "loss"}

\* What a trial on device d at a rate may observe: no, or some, frames lost.
Observations(d, rate) ==
  IF d = Erratic THEN Outcomes ELSE {IF rate <= d THEN "zero" ELSE "loss"}

\* _round_rate(twice / 2, step): the nearest multiple, of two the even one
RoundHalf(twice, step) ==
  LET q == twice \div (2 * step)
      r == twice % (2 * step)
  IN step * (IF r > step \/ (r = step /\ q % 2 = 1) THEN q + 1 ELSE q)

RoundRate(value, step) == RoundHalf(2 * value, step)
=============================================================================
