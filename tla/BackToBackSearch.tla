-------------------------- MODULE BackToBackSearch --------------------------
(***************************************************************************)
(* measure_back_to_back (rfc2544.py): the longest burst without loss, found   *)
(* anew in every repetition: a burst that must lose frames, a bisection, and   *)
(* a verification of what it ends with.  The caller measures only below the     *)
(* theoretical rate, so that prerequisites_valid holds.                        *)
(***************************************************************************)
EXTENDS Rfc2544Settings, Sequences

VARIABLES dut,           \* the device under test
          repetition,
          burstPhase,    \* "upper", "search", "verify", "verified", "rejected", "done"
          burstLow, burstHigh,
          longest,       \* of each verified repetition
          burstsValid,   \* all_repetitions_valid
          crossed,       \* how often its trials crossed a burst without loss, up to 2
          lost           \* bursts of this repetition that lost frames

bounds == <<burstLow, burstHigh>>
evidence == <<crossed, lost>>
vars == <<dut, repetition, burstPhase, bounds, longest, burstsValid, evidence>>

Bursts == 0..MaxBurst
Nothing == [b \in Bursts |-> 0]

TypeOK == /\ dut \in Devices
          /\ repetition \in 1..Repetitions + 1
          /\ burstPhase \in {"upper", "search", "verify", "verified", "rejected", "done"}
          /\ burstLow \in Bursts /\ burstHigh \in Bursts
          /\ longest \in Seq(Bursts)
          /\ burstsValid \in BOOLEAN
          /\ crossed \in [Bursts -> 0..2]
          /\ lost \subseteq Bursts

Init == /\ dut \in Devices
        /\ repetition = 1 /\ burstPhase = "upper"
        /\ burstLow = 0 /\ burstHigh = MaxBurst
        /\ longest = <<>> /\ burstsValid = TRUE
        /\ crossed = Nothing /\ lost = {}

\* the caller goes on with the next frame size
CalledAgain == /\ dut' \in Devices
               /\ repetition' = 1 /\ burstPhase' = "upper"
               /\ burstLow' = 0 /\ burstHigh' = MaxBurst
               /\ longest' = <<>> /\ burstsValid' = TRUE
               /\ crossed' = Nothing /\ lost' = {}

-----------------------------------------------------------------------------

\* A valid trial receives no more frames than it has sent (_observe_trial).
BurstObservations(burst) ==
  IF dut = Erratic THEN {"invalid", "all", "fewer"}
  ELSE {IF burst <= dut THEN "all" ELSE "fewer"}

\* What the trial of a burst shows is added to the evidence of the repetition.
Observe(burst, outcome) ==
  /\ outcome \in BurstObservations(burst)
  /\ crossed' = [crossed EXCEPT ![burst] = IF outcome = "all" /\ @ < 2 THEN @ + 1 ELSE @]
  /\ lost' = IF outcome = "fewer" THEN lost \cup {burst} ELSE lost

\* mutant: the bounds of the last repetition
KeepsBounds ==
  /\ repetition' = repetition + 1
  /\ burstPhase' = IF repetition = Repetitions THEN "done" ELSE "upper"
  /\ UNCHANGED bounds
  /\ crossed' = Nothing /\ lost' = {}

NextRepetition ==
  /\ repetition' = repetition + 1
  /\ burstPhase' = IF repetition = Repetitions THEN "done" ELSE "upper"
  /\ burstLow' = 0 /\ burstHigh' = MaxBurst
  /\ crossed' = Nothing /\ lost' = {}

Fails == /\ burstsValid' = FALSE /\ UNCHANGED longest
         /\ NextRepetition

\* The longest burst must lose frames.
UpperLoses == /\ burstPhase = "upper"
              /\ Observe(MaxBurst, "fewer")
              /\ burstPhase' = "search"
              /\ UNCHANGED <<dut, repetition, bounds, longest, burstsValid>>

UpperFails == /\ burstPhase = "upper"
              /\ {"invalid", "all"} \cap BurstObservations(MaxBurst) # {}
              /\ Fails
              /\ UNCHANGED dut

\* mutant: the middle, also when it is the lower bound
Floored == ((burstLow + burstHigh) \div (2 * BurstStep)) * BurstStep

Candidate == LET middle == ((burstLow + burstHigh) \div (2 * BurstStep)) * BurstStep
             IN IF middle <= burstLow THEN burstLow + BurstStep ELSE middle

Apart == burstHigh - burstLow > BurstStep

SearchHolds == /\ burstPhase = "search" /\ Apart
               /\ Observe(Candidate, "all")
               /\ burstLow' = Candidate
               /\ UNCHANGED <<dut, repetition, burstPhase, burstHigh, longest, burstsValid>>

SearchLoses == /\ burstPhase = "search" /\ Apart
               /\ Observe(Candidate, "fewer")
               /\ burstHigh' = Candidate
               /\ UNCHANGED <<dut, repetition, burstPhase, burstLow, longest, burstsValid>>

SearchFails == /\ burstPhase = "search"
               /\ \/ Apart /\ "invalid" \in BurstObservations(Candidate)
                  \/ ~Apart /\ burstLow <= 0
               /\ Fails
               /\ UNCHANGED dut

SearchEnds == /\ burstPhase = "search" /\ ~Apart
              /\ burstLow > 0
              /\ burstPhase' = "verify"
              /\ UNCHANGED <<dut, repetition, bounds, longest, burstsValid, evidence>>

\* loss-verification
Verify(outcome) ==
  /\ burstPhase = "verify"
  /\ Observe(burstLow, outcome)
  /\ burstPhase' = IF outcome = "all" THEN "verified" ELSE "rejected"
  /\ UNCHANGED <<dut, repetition, bounds, longest, burstsValid>>

\* mutant: a verification that loses frames is taken
TakesAny == /\ burstPhase \in {"verified", "rejected"}
            /\ longest' = Append(longest, burstLow)
            /\ NextRepetition
            /\ UNCHANGED <<dut, burstsValid>>

Takes == /\ burstPhase = "verified"
         /\ longest' = Append(longest, burstLow)
         /\ NextRepetition
         /\ UNCHANGED <<dut, burstsValid>>

Rejects == /\ burstPhase = "rejected"
           /\ Fails
           /\ UNCHANGED dut

Next == \/ UpperLoses \/ UpperFails \/ SearchHolds \/ SearchLoses \/ SearchFails \/ SearchEnds
        \/ \E outcome \in {"invalid", "all", "fewer"} : Verify(outcome)
        \/ Takes \/ Rejects

-----------------------------------------------------------------------------
(* Properties *)

\* The bisection keeps a burst that was crossed without loss below one that lost
\* frames in the same repetition (measure_back_to_back, burstLow and burstHigh).
Bracketed == burstPhase \in {"search", "verify", "verified", "rejected"}
               => /\ burstLow < burstHigh
                  /\ burstLow > 0 => crossed[burstLow] > 0
                  /\ burstHigh \in lost

\* Only a burst that was crossed twice, by the search and by its verification, and
\* is at most one step below a burst that lost frames, is taken for a repetition.
TakenIsVerified ==
  [][Len(longest') > Len(longest)
       => /\ longest' = Append(longest, burstLow)
          /\ crossed[burstLow] = 2
          /\ burstHigh \in lost /\ burstHigh - burstLow <= BurstStep]_vars

\* complete: the average that is reported
Complete == burstPhase = "done" /\ burstsValid /\ Len(longest) = Repetitions

\* On a device that holds bursts up to its buffer every repetition finds the buffer,
\* to a step; they are all found when the buffer is within the range of the search.
Accurate ==
  dut # Erratic =>
    /\ \A i \in 1..Len(longest) : longest[i] <= dut /\ dut < longest[i] + BurstStep
    /\ burstPhase = "done" => (Complete <=> BurstStep <= dut /\ dut < MaxBurst)

\* A repetition that fails leaves no average, whatever the others find.
AllOrNothing == burstPhase = "done" => (burstsValid <=> Len(longest) = Repetitions)
=============================================================================
