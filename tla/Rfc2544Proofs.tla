---------------------------- MODULE Rfc2544Proofs ----------------------------
(***************************************************************************)
(* The verdict of a strict suite, and what may be published of it, rest on   *)
(* all the evidence; each of its searches finds what it promises, for every  *)
(* setting, on every device.                                                *)
(***************************************************************************)
EXTENDS Rfc2544Suite, TLAPS

-----------------------------------------------------------------------------
(* The loop over tests and frame sizes *)

Frames == 1..FrameSizes
RateNames == {"unknown", "none", "zero", "some", "line"}

LoopTyped == /\ tests \in Suites
             /\ at \in 1..Len(tests) /\ frame \in Frames
             /\ frames \subseteq Frames
             /\ allValid \in BOOLEAN /\ unmet \in BOOLEAN
             /\ rates \in [Frames -> RateNames]
             /\ verdicts \in [TestNames -> Verdicts \cup {"none"}]
             /\ gaps \subseteq TestNames /\ short \subseteq TestNames
             /\ ended \in {"no", "returned", "raised"}

UnderWay(t) == ended = "no" /\ tests[at] = t

\* a test has no verdict before its end
VerdictsInTurn ==
  ended = "no" => \A i \in at..Len(tests) : verdicts[tests[i]] = "none"

\* a frame size without a throughput makes the throughput test invalid
NoneIsInvalid ==
  \A f \in Frames : rates[f] = "none" => \/ verdicts["throughput"] = "INVALID"
                                         \/ UnderWay("throughput") /\ ~allValid

\* what a test is short of makes it invalid; what back-to-back passes over has made
\* the throughput invalid
ShortIsInvalid ==
  \A t \in short : \/ verdicts[t] = "INVALID"
                   \/ ended # "returned" /\ tests[at] = t /\ ~allValid
                   \/ t = "back-to-back" /\ verdicts["throughput"] = "INVALID"

\* and there is a gap in its evidence
InvalidIsGap ==
  /\ short \subseteq gaps
  /\ \A t \in TestNames : verdicts[t] = "INVALID" => t \in gaps
  /\ ~allValid => tests[at] \in gaps

LoopInv == LoopTyped /\ VerdictsInTurn /\ NoneIsInvalid /\ ShortIsInvalid /\ InvalidIsGap

\* Every test of a suite has a name, and "throughput" is one.
LEMMA Named ==
  ASSUME LoopTyped
  PROVE  /\ tests \in Seq(TestNames) /\ tests[at] \in TestNames /\ Len(tests) \in Nat /\ at \in Nat
         /\ "throughput" \in TestNames /\ "back-to-back" \in TestNames /\ "latency" \in TestNames
         /\ \A i, j \in 1..Len(tests) : tests[i] = tests[j] => i = j
<1>1. /\ Required[1] = "throughput" /\ Required[2] = "latency" /\ Required[4] = "back-to-back"
      /\ Len(Required) = 4
  BY DEF Required
<1>2. "throughput" \in TestNames /\ "back-to-back" \in TestNames /\ "latency" \in TestNames
  BY <1>1 DEF TestNames
<1> HIDE DEF TestNames
<1>3. QED  BY <1>2, SuitesAssumption DEF LoopTyped

\* The verdict of a test settles what it is short of.
LEMMA ReturnsStep ==
  ASSUME LoopInv, ended = "no", NEW verdict \in Verdicts, Returns(verdict), tests' = tests, rates' \in [Frames -> RateNames],
         short' \subseteq short \cup {tests[at]}, gaps' \subseteq gaps \cup {tests[at]}, gaps \subseteq gaps',
         short' \subseteq gaps', verdict = "INVALID" => tests[at] \in gaps',
         ~allValid => verdict = "INVALID",
         tests[at] \in short' \ short =>
            verdict = "INVALID" \/ (tests[at] = "back-to-back" /\ verdicts["throughput"] = "INVALID"),
         \A f \in Frames : rates'[f] = "none" =>
            rates[f] = "none" \/ (tests[at] = "throughput" /\ verdict = "INVALID")
  PROVE  LoopInv'
<1> USE DEF LoopInv
<1> DEFINE t == tests[at]
<1>1. /\ verdicts' = [verdicts EXCEPT ![t] = verdict]
      /\ frame' = 1 /\ frames' = {} /\ allValid' = TRUE /\ unmet' = FALSE
      /\ \/ at = Len(tests) /\ ended' = "returned" /\ at' = at
         \/ at # Len(tests) /\ at' = at + 1 /\ ended' = "no"
  BY DEF Returns
<1>2. t \in TestNames /\ "throughput" \in TestNames /\ "back-to-back" \in TestNames /\ Len(tests) \in Nat /\ at \in Nat
      /\ at \in 1..Len(tests)
      /\ tests \in Seq(TestNames) /\ \A i, j \in 1..Len(tests) : tests[i] = tests[j] => i = j
  BY Named DEF LoopTyped
<1>3. LoopTyped'
  <2>1. verdicts' \in [TestNames -> Verdicts \cup {"none"}] /\ 1 \in Frames
    BY <1>1, <1>2, RangeAssumption DEF LoopTyped, Frames
  <2>2. at' \in 1..Len(tests) /\ ended' \in {"no", "returned", "raised"}
    BY <1>1, <1>2
  <2>3. gaps' \subseteq TestNames /\ short' \subseteq TestNames
    BY <1>2 DEF LoopTyped
  <2>4. QED  BY <1>1, <2>1, <2>2, <2>3 DEF LoopTyped
<1>4. verdicts[t] = "none"
  BY <1>2 DEF VerdictsInTurn, LoopTyped
<1>5. \A u \in TestNames : verdicts'[u] = IF u = t THEN verdict ELSE verdicts[u]
  BY <1>1, <1>2 DEF LoopTyped
<1>6. VerdictsInTurn'
  <2>1. SUFFICES ASSUME ended' = "no", NEW i \in at'..Len(tests) PROVE verdicts'[tests[i]] = "none"
    BY DEF VerdictsInTurn
  <2>2. i \in 1..Len(tests) /\ i # at /\ i \in at..Len(tests)
    BY <1>1, <1>2, <2>1
  <2>3. tests[i] # t /\ tests[i] \in TestNames
    BY <1>2, <2>2
  <2>4. QED  BY <1>5, <2>2, <2>3 DEF VerdictsInTurn
<1>7. NoneIsInvalid'
  BY <1>2, <1>4, <1>5 DEF NoneIsInvalid, UnderWay
<1>8. ShortIsInvalid'
  <2>1. SUFFICES ASSUME NEW u \in short'
                 PROVE  verdicts'[u] = "INVALID" \/ (u = "back-to-back" /\ verdicts'["throughput"] = "INVALID")
    BY DEF ShortIsInvalid
  <2>2. u \in TestNames /\ verdicts["throughput"] = "INVALID" => verdicts'["throughput"] = "INVALID"
    BY <1>2, <1>4, <1>5 DEF LoopTyped
  <2>3. u \in TestNames
    BY <1>2 DEF LoopTyped
  <2>4. CASE u \in short
    BY <1>4, <1>5, <2>2, <2>3, <2>4 DEF ShortIsInvalid
  <2>5. CASE u \notin short
    BY <1>5, <2>2, <2>3, <2>5
  <2>6. QED  BY <2>4, <2>5
<1>9. InvalidIsGap'
  BY <1>1, <1>5 DEF InvalidIsGap
<1>10. QED  BY <1>3, <1>6, <1>7, <1>8, <1>9

\* A frame size, or the test with it, is done.
LEMMA FrameStep ==
  ASSUME LoopInv, ended = "no", NEW present \in BOOLEAN, NEW valid \in BOOLEAN, NEW missed \in BOOLEAN,
         NEW evidence \in BOOLEAN, NEW verdict \in Verdicts,
         FrameDone(present, valid, missed, evidence, verdict), rates' \in [Frames -> RateNames],
         ~allValid \/ ~valid => verdict = "INVALID",
         verdict = "INVALID" => ~allValid \/ ~valid \/ ~present,
         evidence => valid,
         ~present /\ valid => tests[at] = "back-to-back" /\ verdicts["throughput"] = "INVALID",
         \A f \in Frames : rates'[f] = "none" =>
            rates[f] = "none" \/ (tests[at] = "throughput" /\ ~valid)
  PROVE  LoopInv'
<1> USE DEF LoopInv
<1> DEFINE t == tests[at]
<1>1. /\ short' = IF present /\ valid THEN short ELSE short \cup {t}
      /\ gaps' = IF present /\ evidence THEN gaps ELSE gaps \cup {t}
      /\ tests' = tests
  BY DEF FrameDone
<1>2. CASE frame = FrameSizes /\ Returns(verdict)
  BY <1>1, <1>2, ReturnsStep DEF InvalidIsGap
<1>3. CASE /\ frame # FrameSizes /\ frame' = frame + 1
           /\ frames' = IF present THEN frames \cup {frame} ELSE frames
           /\ allValid' = (allValid /\ valid)
           /\ unmet' = (unmet \/ missed)
           /\ UNCHANGED <<at, verdicts, ended>>
  <2>1. t \in TestNames /\ "throughput" \in TestNames
    BY Named
  <2>2. (allValid /\ valid) \in BOOLEAN /\ (unmet \/ missed) \in BOOLEAN
    OBVIOUS
  <2>3. LoopTyped'
    BY <1>1, <1>3, <2>1, <2>2, RangeAssumption DEF LoopTyped, Frames
  <2>4. VerdictsInTurn'
    BY <1>1, <1>3 DEF VerdictsInTurn
  <2>5. NoneIsInvalid'
    BY <1>1, <1>3 DEF NoneIsInvalid, UnderWay
  <2>6. ShortIsInvalid'
    BY <1>1, <1>3 DEF ShortIsInvalid
  <2>7. InvalidIsGap'
    BY <1>1, <1>3 DEF InvalidIsGap
  <2>8. QED  BY <2>3, <2>4, <2>5, <2>6, <2>7
<1>4. QED  BY <1>2, <1>3 DEF FrameDone

\* What is left alone stays right.
LEMMA LoopStays == LoopInv /\ UNCHANGED suite => LoopInv'
BY DEF LoopInv, LoopTyped, VerdictsInTurn, NoneIsInvalid, UnderWay, ShortIsInvalid, InvalidIsGap,
       suite, loop, outcome

\* Only the rate that is not there is "none".
LEMMA RateNamed ==
  ASSUME NEW r
  PROVE  RateOf(r) \in RateNames /\ (RateOf(r) = "none" <=> r = Invalid)
BY DEF RateOf, RateNames

\* A throughput, or none, is a result of its frame size (_run_rfc2544_sync).
LEMMA ThroughputStep ==
  ASSUME LoopInv, ThroughputFound
  PROVE  LoopInv'
<1> DEFINE valid == result # Invalid
           missed == Minimum # NoAssertion /\ (~valid \/ result < Minimum)
           evidence == T!Publishable /\ Ceiling = LineRate
           verdict == ThroughputVerdict(allValid /\ valid, unmet \/ missed)
<1>1. /\ ended = "no" /\ tests[at] = "throughput"
      /\ FrameDone(TRUE, valid, missed, evidence, verdict)
      /\ rates' = [rates EXCEPT ![frame] = RateOf(result)]
  BY DEF ThroughputFound, Runs
<1>2. evidence => valid
  BY RatesAssumption DEF T!Publishable, T!Rates
<1>3. verdict \in Verdicts /\ (verdict = "INVALID" <=> ~(allValid /\ valid))
  BY DEF ThroughputVerdict, Verdicts
<1>4. /\ rates' \in [Frames -> RateNames]
      /\ \A f \in Frames : rates'[f] = "none" => rates[f] = "none" \/ ~valid
  BY <1>1, RateNamed DEF LoopInv, LoopTyped
<1>5. valid \in BOOLEAN /\ missed \in BOOLEAN /\ evidence \in BOOLEAN
  BY DEF T!Publishable
<1> HIDE DEF valid, missed, evidence, verdict
<1>6. QED  BY <1>1, <1>2, <1>3, <1>4, <1>5, FrameStep

\* What the latency test may do with a frame size (_run_latency_sync).
LEMMA LatencyStep ==
  ASSUME LoopInv, LatencyUnavailable \/ LatencySkips \/ LatencyRaises \/ \E v \in BOOLEAN : LatencyMeasured(v)
  PROVE  LoopInv'
<1>1. LoopTyped /\ rates \in [Frames -> RateNames] /\ "INVALID" \in Verdicts /\ "NO_ASSERTION" \in Verdicts
  BY DEF LoopInv, LoopTyped, Verdicts
<1>2. CASE LatencyUnavailable
  BY <1>1, <1>2, ReturnsStep DEF LatencyUnavailable, Runs, LoopInv, InvalidIsGap
<1>3. CASE LatencySkips
  <2>1. FrameDone(FALSE, FALSE, FALSE, FALSE, "INVALID") /\ ended = "no" /\ rates' = rates
    BY <1>3 DEF LatencySkips, Runs
  <2>2. QED  BY <1>1, <2>1, FrameStep
<1>4. CASE LatencyRaises
  BY <1>1, <1>4 DEF LatencyRaises, Runs, loop, LoopInv, LoopTyped, VerdictsInTurn, NoneIsInvalid,
                    UnderWay, ShortIsInvalid, InvalidIsGap
<1>5. ASSUME NEW v \in BOOLEAN, LatencyMeasured(v) PROVE LoopInv'
  <2>1. FrameDone(TRUE, v, FALSE, v, Plain(allValid /\ v)) /\ ended = "no" /\ rates' = rates
    BY <1>5 DEF LatencyMeasured, Runs
  <2>2. Plain(allValid /\ v) \in Verdicts /\ (Plain(allValid /\ v) = "INVALID" <=> ~(allValid /\ v))
    BY DEF Plain, Verdicts
  <2>3. QED  BY <1>1, <2>1, <2>2, FrameStep
<1>6. QED  BY <1>2, <1>3, <1>4, <1>5

\* A loss curve is a result of its frame size (_run_frame_loss_sync).
LEMMA CurveStep ==
  ASSUME LoopInv, CurveDrawn
  PROVE  LoopInv'
<1> DEFINE evidence == F!Publishable /\ Ceiling = LineRate
           verdict == Plain(allValid /\ F!Valid)
<1>1. FrameDone(TRUE, F!Valid, FALSE, evidence, verdict) /\ ended = "no" /\ rates' = rates
  BY DEF CurveDrawn, Runs
<1>2. evidence => F!Valid
  BY DEF F!Publishable, F!Valid
<1>3. verdict \in Verdicts /\ (verdict = "INVALID" <=> ~(allValid /\ F!Valid))
  BY DEF Plain, Verdicts
<1>4. F!Valid \in BOOLEAN /\ evidence \in BOOLEAN /\ rates \in [Frames -> RateNames]
  BY DEF F!Valid, F!Publishable, LoopInv, LoopTyped
<1> HIDE DEF evidence, verdict
<1>5. QED  BY <1>1, <1>2, <1>3, <1>4, FrameStep

\* Back-to-back has a result of a frame size, or passes it over where the throughput
\* has none (_run_back_to_back_sync, continue).
LEMMA BurstsStep ==
  ASSUME LoopInv, BurstsSkipped \/ BurstsNotApplicable \/ \E covers \in BOOLEAN : BurstsFound(covers)
  PROVE  LoopInv'
<1>1. ASSUME NEW present \in BOOLEAN, NEW valid \in BOOLEAN
      PROVE  /\ BurstVerdict(present, valid) \in Verdicts
             /\ ~allValid \/ ~valid => BurstVerdict(present, valid) = "INVALID"
             /\ BurstVerdict(present, valid) = "INVALID" => ~allValid \/ ~valid \/ ~present
  BY DEF BurstVerdict, Plain, Verdicts
<1>2. rates \in [Frames -> RateNames] /\ frame \in Frames
  BY DEF LoopInv, LoopTyped
<1>3. CASE BurstsSkipped
  <2>1. /\ FrameDone(FALSE, TRUE, FALSE, FALSE, BurstVerdict(FALSE, TRUE)) /\ ended = "no" /\ rates' = rates
        /\ tests[at] = "back-to-back" /\ rates[frame] = "none"
    BY <1>3 DEF BurstsSkipped, Runs
  <2>2. verdicts["throughput"] = "INVALID"
    BY <1>2, <2>1 DEF LoopInv, NoneIsInvalid, UnderWay
  <2>3. QED  BY <1>1, <1>2, <2>1, <2>2, FrameStep
<1>4. CASE BurstsNotApplicable
  <2>1. FrameDone(TRUE, TRUE, FALSE, TRUE, BurstVerdict(TRUE, TRUE)) /\ ended = "no" /\ rates' = rates
    BY <1>4 DEF BurstsNotApplicable, Runs
  <2>2. QED  BY <1>1, <1>2, <2>1, FrameStep
<1>5. ASSUME NEW covers \in BOOLEAN, BurstsFound(covers) PROVE LoopInv'
  <2> DEFINE evidence == B!Complete /\ covers
  <2>1. /\ FrameDone(TRUE, B!Complete, FALSE, evidence, BurstVerdict(TRUE, B!Complete))
        /\ ended = "no" /\ rates' = rates
    BY <1>5 DEF BurstsFound, Runs
  <2>2. B!Complete \in BOOLEAN /\ evidence \in BOOLEAN
    BY DEF B!Complete
  <2>3. evidence => B!Complete
    OBVIOUS
  <2> HIDE DEF evidence
  <2>4. QED  BY <1>1, <1>2, <2>1, <2>2, <2>3, FrameStep
<1>6. QED  BY <1>3, <1>4, <1>5

\* A suite begins without results.
LEMMA LoopInit == Init => LoopInv
<1> SUFFICES ASSUME Init PROVE LoopInv
  OBVIOUS
<1>1. /\ tests \in Suites /\ at = 1 /\ frame = 1 /\ frames = {} /\ allValid = TRUE /\ unmet = FALSE
      /\ rates = [f \in Frames |-> "unknown"] /\ verdicts = [t \in TestNames |-> "none"]
      /\ gaps = {} /\ short = {} /\ ended = "no"
  BY DEF Init, Frames
<1>2. 1 \in 1..Len(tests) /\ tests \in Seq(TestNames) /\ Len(tests) \in Nat
  BY <1>1, SuitesAssumption
<1>3. LoopTyped
  <2>1. rates \in [Frames -> RateNames] /\ 1 \in Frames
    BY <1>1, RangeAssumption DEF Frames, RateNames
  <2>2. verdicts \in [TestNames -> Verdicts \cup {"none"}]
    BY <1>1
  <2>3. at \in 1..Len(tests) /\ ended \in {"no", "returned", "raised"}
    BY <1>1, <1>2
  <2>4. QED  BY <1>1, <2>1, <2>2, <2>3 DEF LoopTyped
<1>4. VerdictsInTurn
  BY <1>1, <1>2 DEF VerdictsInTurn
<1>5. NoneIsInvalid /\ ShortIsInvalid /\ InvalidIsGap
  BY <1>1 DEF NoneIsInvalid, ShortIsInvalid, InvalidIsGap
<1>6. QED  BY <1>3, <1>4, <1>5 DEF LoopInv

\* Every step of a suite keeps what its verdicts rest on.
LEMMA LoopNext == LoopInv /\ [Next]_vars => LoopInv'
<1> SUFFICES ASSUME LoopInv, [Next]_vars PROVE LoopInv'
  OBVIOUS
<1>1. CASE SearchThroughput \/ DrawCurve \/ SearchBursts \/ Ended \/ UNCHANGED vars
  BY <1>1, LoopStays DEF SearchThroughput, DrawCurve, SearchBursts, Ended, vars
<1>2. QED
  BY <1>1, ThroughputStep, LatencyStep, CurveStep, BurstsStep DEF Next

\* What the verdicts of a suite rest on holds throughout.
THEOREM LoopCorrect == Spec => []LoopInv
BY LoopInit, LoopNext, PTL DEF Spec

\* A verdict other than INVALID rests on a valid result of every frame size in every test.
THEOREM NothingCorrect == Spec => []NothingLeftOut
<1>1. LoopInv => NothingLeftOut
  <2>1. SUFFICES ASSUME LoopInv, ended = "returned", Verdict # "INVALID" PROVE short = {}
    BY DEF NothingLeftOut
  <2>2. \A t \in TestNames : verdicts[t] # "INVALID"
    BY <2>1 DEF Verdict, Returned
  <2>3. short \subseteq TestNames /\ "throughput" \in TestNames
    BY <2>1, Named DEF LoopInv, LoopTyped
  <2>4. QED  BY <2>1, <2>2, <2>3 DEF LoopInv, ShortIsInvalid
<1>2. QED  BY <1>1, LoopCorrect, PTL

\* What may be published is complete and has a verdict.
THEOREM ClosedCorrect == Spec => []FailsClosed
<1>1. LoopInv => FailsClosed
  <2>1. SUFFICES ASSUME LoopInv, gaps = {} PROVE Verdict # "INVALID" /\ short = {}
    BY DEF FailsClosed, Complete
  <2>2. short = {} /\ \A t \in TestNames : verdicts[t] # "INVALID"
    BY <2>1 DEF LoopInv, InvalidIsGap
  <2>3. QED  BY <2>2 DEF Verdict, Returned
<1>2. QED  BY <1>1, LoopCorrect, PTL

-----------------------------------------------------------------------------
(* The burst search *)

InRange == BurstStep <= dut /\ dut < MaxBurst

\* the bounds, and what was seen of them in this repetition
BurstBounds ==
  /\ burstLow < burstHigh /\ (burstLow = 0 \/ burstLow >= BurstStep)
  /\ burstPhase = "upper" => burstLow = 0 /\ burstHigh = MaxBurst
  /\ B!Bracketed
  /\ burstPhase \in {"verify", "verified", "rejected"}
       => burstLow > 0 /\ burstHigh - burstLow <= BurstStep
  /\ burstPhase = "verified" => crossed[burstLow] = 2

\* a repetition has its burst, or the search has failed
BurstsCounted ==
  /\ burstPhase = "done" <=> repetition = Repetitions + 1
  /\ burstsValid => Len(longest) = repetition - 1
  /\ ~burstsValid => Len(longest) < repetition - 1

\* what a device with a buffer shows
BurstsOfBuffer ==
  dut # Erratic =>
    /\ burstLow <= dut /\ \A b \in lost : dut < b
    /\ burstPhase # "rejected"
    /\ \A i \in 1..Len(longest) : longest[i] <= dut /\ dut < longest[i] + BurstStep
    /\ InRange => burstsValid
    /\ ~InRange => longest = <<>>

BurstInv == B!TypeOK /\ BurstBounds /\ BurstsCounted /\ BurstsOfBuffer

-----------------------------------------------------------------------------
(* The throughput search *)

\* what the samples so far have shown
Observing ==
  /\ observed # "none" => sample > 1
  /\ observed = "loss" => candidate \in losses
  /\ observed = "zero" /\ phase # "confirm" => candidate \in zeros
  /\ phase \in {"bisect", "done"} => sample = 1 /\ observed = "none" /\ ~retrying

\* the bounds of the bisection; none of the rates above low was crossed
Bisecting ==
  /\ phase = "ceiling" => low = 0 /\ high = Ceiling /\ candidate = Ceiling
  /\ phase \in {"bisect", "search"} => /\ low < high /\ low \in zeros \cup {0}
                                       /\ high \in losses \ zeros
  /\ phase = "search" => low < candidate /\ candidate < high
  /\ phase \in {"ceiling", "bisect", "search"}
       => /\ left = Confirmations /\ quiet = 0
          /\ \A z \in zeros : z <= low \/ (z = candidate /\ observed = "zero")

\* frames were lost just above rate, or it is the highest one
TightAt(r) == r = Ceiling \/ \E h \in losses : r < h /\ 2 * (h - r) <= 3 * Resolution

Confirming ==
  phase = "confirm" => /\ candidate > 0 /\ TightAt(candidate) /\ sample <= 2
                       /\ quiet = CASE observed = "none" -> Confirmations - left
                                    [] observed = "zero" -> Confirmations - left + 1
                                    [] observed = "loss" -> 0

Reported ==
  /\ phase # "done" <=> result = Pending
  /\ result \in Nat => TightAt(result)
  /\ result \in Nat \ {0} => quiet = Confirmations

\* what a device with a capacity shows
RatesOfCapacity ==
  dut # Erratic =>
    /\ \A z \in zeros : z <= dut
    /\ \A l \in losses : dut < l
    /\ ~retrying /\ (sample > 1 => observed # "none")
    /\ phase = "confirm" => candidate <= dut /\ (candidate = Ceiling \/ dut < candidate + Resolution)
    /\ T!Accurate

ThroughputInv == T!TypeOK /\ Observing /\ Bisecting /\ Confirming /\ Reported /\ RatesOfCapacity

-----------------------------------------------------------------------------
(* The loss curve *)

\* the rates of the curve fall, by one and a half steps at most, down to the next rate
Falling ==
  /\ \A i \in 1..Len(drawn) : drawn[i].outcome # "invalid"
  /\ drawn = <<>> => rate = Ceiling /\ curve \in {"none", "invalid"}
  /\ drawn # <<>> => drawn[1].rate = Ceiling
  /\ \A i \in 1..Len(drawn) - 1 : /\ drawn[i].rate > drawn[i + 1].rate
                                  /\ 2 * (drawn[i].rate - drawn[i + 1].rate) <= 3 * LossStep
  /\ drawn # <<>> /\ curve # "stopped" => /\ drawn[Len(drawn)].rate > rate
                                          /\ 2 * (drawn[Len(drawn)].rate - rate) <= 3 * LossStep
  /\ curve = "through" => rate <= 0

\* that many points, from the last backwards, lost nothing
Quiet(i) == \A k \in 0..ZeroLossRuns - 1 : drawn[i - k].outcome = "zero"

\* zeroRun counts the last points without loss
Counted ==
  /\ zeroRun <= Len(drawn)
  /\ \A k \in 0..zeroRun - 1 : drawn[Len(drawn) - k].outcome = "zero"
  /\ zeroRun < Len(drawn) => drawn[Len(drawn) - zeroRun].outcome = "loss"
  /\ curve # "stopped" => zeroRun < ZeroLossRuns
  /\ curve = "stopped" => Len(drawn) > 0
  /\ \A i \in ZeroLossRuns..Len(drawn) : Quiet(i) <=> i = Len(drawn) /\ curve = "stopped"

\* an invalid trial is the last one of its rate only when it is to be repeated
Repeated ==
  /\ curve = "none" =>
       /\ \A i \in 1..Len(points) : points[i].rate > rate \/ (lossRetrying /\ i = Len(points))
       /\ lossRetrying => /\ Len(points) > 0 /\ points[Len(points)].rate = rate
                          /\ points[Len(points)].outcome = "invalid"
       /\ ~lossRetrying /\ Len(points) > 0 => points[Len(points)].outcome # "invalid"
  /\ F!RetriesMatch

CurveInv == F!TypeOK /\ Falling /\ Counted /\ Repeated

-----------------------------------------------------------------------------
(* A search that is not under way is at its beginning. *)

ThroughputFresh ==
  /\ phase = "ceiling" /\ low = 0 /\ high = Ceiling /\ candidate = Ceiling
  /\ sample = 1 /\ retrying = FALSE /\ observed = "none"
  /\ left = Confirmations /\ result = Pending /\ probes = 0
  /\ zeros = {} /\ losses = {} /\ quiet = 0 /\ seen = {}

BurstsFresh ==
  /\ repetition = 1 /\ burstPhase = "upper"
  /\ burstLow = 0 /\ burstHigh = MaxBurst
  /\ longest = <<>> /\ burstsValid = TRUE
  /\ crossed = B!Nothing /\ lost = {}

CurveFresh ==
  /\ rate = Ceiling /\ lossRetrying = FALSE /\ zeroRun = 0
  /\ points = <<>> /\ drawn = <<>> /\ curve = "none"

SearchInv ==
  /\ ThroughputInv /\ CurveInv /\ BurstInv
  /\ UnderWay("throughput") \/ ThroughputFresh
  /\ (UnderWay("back-to-back") /\ rates[frame] \in {"zero", "some"}) \/ BurstsFresh

-----------------------------------------------------------------------------
(* Rounding *)

\* Division with remainder, as the searches use it.
LEMMA DivMod ==
  ASSUME NEW a \in Int, NEW n \in Int, n > 0
  PROVE  /\ a \div n \in Int /\ a % n \in 0..n - 1
         /\ a = n * (a \div n) + (a % n)
<1>1. a \div n \in Int /\ a % n \in 0..n - 1
  OBVIOUS
<1>2. a = n * (a \div n) + (a % n)
  BY Z3T(30)
<1>3. QED  BY <1>1, <1>2

\* The nearest multiple of a step is at most half a step away.
LEMMA Rounding ==
  ASSUME NEW twice \in Int, NEW step \in Nat \ {0}
  PROVE  /\ RoundHalf(twice, step) \in Int
         /\ 2 * RoundHalf(twice, step) - twice <= step
         /\ twice - 2 * RoundHalf(twice, step) <= step
         /\ -(2 * step) <= twice => -step <= RoundHalf(twice, step)
<1> DEFINE n == 2 * step
           q == twice \div n
           r == twice % n
<1>1. n \in Int /\ n > 0
  OBVIOUS
<1> HIDE DEF n
<1>2. q \in Int /\ r \in 0..n - 1 /\ twice = n * q + r
  BY <1>1, DivMod
<1>3. step * (IF r > step \/ (r = step /\ q % 2 = 1) THEN q + 1 ELSE q) = RoundHalf(twice, step)
  BY DEF RoundHalf, n
<1>4. \/ r >= step /\ RoundHalf(twice, step) = step * (q + 1)
      \/ r <= step /\ RoundHalf(twice, step) = step * q
  BY <1>1, <1>2, <1>3
<1> HIDE DEF q, r
<1> DEFINE s == step * q
<1>5. n * q = 2 * s /\ s \in Int /\ step * (q + 1) = s + step
  BY <1>2 DEF n
<1>6. \/ r >= step /\ RoundHalf(twice, step) = s + step
      \/ r <= step /\ RoundHalf(twice, step) = s
  BY <1>4, <1>5
<1>7. /\ q <= -2 => s <= -(2 * step)
      /\ q >= -1 => s >= -step
  BY <1>2
<1> HIDE DEF s
<1>8. twice = 2 * s + r /\ r \in 0..(2 * step) - 1
  BY <1>2, <1>5 DEF n
<1>9. -(2 * step) <= twice => s >= -step
  BY <1>2, <1>5, <1>7, <1>8
<1>10. QED  BY <1>5, <1>6, <1>8, <1>9

-----------------------------------------------------------------------------
(* The steps of the burst search *)

\* The settings of the burst search, and a device that holds bursts up to its buffer.
LEMMA BurstSettings ==
  /\ MaxBurst \in Nat \ {0} /\ BurstStep \in Nat \ {0} /\ Repetitions \in Nat \ {0}
  /\ B!TypeOK /\ dut # Erratic => dut \in Nat
BY BurstAssumption, RatesAssumption DEF B!TypeOK, B!Devices

\* The next burst lies between the bounds, and is one step at least.
LEMMA CandidateBetween ==
  ASSUME B!TypeOK, BurstBounds, B!Apart
  PROVE  /\ B!Candidate \in B!Bursts
         /\ burstLow < B!Candidate /\ B!Candidate < burstHigh /\ BurstStep <= B!Candidate
<1> DEFINE sum == burstLow + burstHigh
           n == 2 * BurstStep
           q == sum \div n
           r == sum % n
           m == q * BurstStep
<1>1. /\ MaxBurst \in Nat /\ BurstStep \in Nat \ {0}
      /\ burstLow \in 0..MaxBurst /\ burstHigh \in 0..MaxBurst
  BY BurstSettings DEF B!TypeOK, B!Bursts
<1>2. sum \in Int /\ n \in Int /\ n > 0
  BY <1>1
<1> HIDE DEF sum, n
<1>3. q \in Int /\ r \in 0..n - 1 /\ sum = n * q + r
  BY <1>2, DivMod
<1>4. B!Candidate = IF m <= burstLow THEN burstLow + BurstStep ELSE m
  BY DEF B!Candidate, sum, n
<1> HIDE DEF q, r
<1>5. n * q = 2 * m /\ m \in Int
  BY <1>1, <1>3 DEF n
<1>6. m > 0 => BurstStep <= m
  <2>1. q <= 0 => m <= 0
    BY <1>1, <1>3
  <2>2. q >= 1 => m >= BurstStep
    BY <1>1, <1>3
  <2>3. QED  BY <1>1, <1>3, <1>5, <2>1, <2>2
<1> HIDE DEF m
<1>7. 2 * m <= burstLow + burstHigh
  BY <1>1, <1>2, <1>3, <1>5 DEF sum
<1>8. burstLow < burstHigh /\ burstHigh - burstLow > BurstStep /\ (burstLow = 0 \/ burstLow >= BurstStep)
  BY DEF BurstBounds, B!Apart
<1>9. QED  BY <1>1, <1>4, <1>5, <1>6, <1>7, <1>8 DEF B!Bursts

\* What a trial adds to the evidence of its repetition.
LEMMA BurstObserved ==
  ASSUME B!TypeOK, NEW burst \in B!Bursts, NEW seenAs, B!Observe(burst, seenAs)
  PROVE  /\ crossed' \in [B!Bursts -> 0..2] /\ lost' \subseteq B!Bursts
         /\ lost \subseteq lost' /\ \A b \in B!Bursts : crossed[b] <= crossed'[b]
         /\ seenAs = "all" => crossed'[burst] > 0 /\ (crossed[burst] > 0 => crossed'[burst] = 2)
         /\ seenAs = "fewer" => burst \in lost'
         /\ dut # Erratic => /\ seenAs = "all" <=> burst <= dut
                             /\ seenAs # "all" => seenAs = "fewer" /\ dut < burst
                             /\ \A b \in lost' \ lost : dut < b
<1>1. /\ crossed' = [crossed EXCEPT ![burst] = IF seenAs = "all" /\ @ < 2 THEN @ + 1 ELSE @]
      /\ lost' = IF seenAs = "fewer" THEN lost \cup {burst} ELSE lost
      /\ seenAs \in B!BurstObservations(burst)
  BY DEF B!Observe
<1>2. crossed \in [B!Bursts -> 0..2] /\ lost \subseteq B!Bursts
  BY DEF B!TypeOK
<1>3. \A b \in B!Bursts : crossed'[b] = IF b = burst /\ seenAs = "all" /\ crossed[b] < 2 THEN crossed[b] + 1 ELSE crossed[b]
  BY <1>1, <1>2
<1>4. crossed' \in [B!Bursts -> 0..2]
  BY <1>1, <1>2
<1>5. dut # Erratic => seenAs = IF burst <= dut THEN "all" ELSE "fewer"
  BY <1>1 DEF B!BurstObservations
<1>6. dut # Erratic => dut \in Nat /\ burst \in Int
  BY BurstSettings DEF B!Bursts
<1>7. \A b \in B!Bursts : crossed[b] \in 0..2
  BY <1>2
<1>8. QED  BY <1>1, <1>2, <1>3, <1>4, <1>5, <1>6, <1>7

\* The next repetition begins, with or without a burst of the last one.
LEMMA Restarts ==
  ASSUME BurstInv, B!NextRepetition, burstPhase # "done", dut' = dut,
         burstsValid' \in BOOLEAN, longest' \in Seq(B!Bursts),
         burstsValid' => Len(longest') = repetition,
         ~burstsValid' => Len(longest') < repetition,
         dut # Erratic => /\ \A i \in 1..Len(longest') : longest'[i] <= dut /\ dut < longest'[i] + BurstStep
                          /\ InRange => burstsValid'
                          /\ ~InRange => longest' = <<>>
  PROVE  BurstInv'
<1>1. /\ repetition' = repetition + 1
      /\ burstPhase' = IF repetition = Repetitions THEN "done" ELSE "upper"
      /\ burstLow' = 0 /\ burstHigh' = MaxBurst
      /\ crossed' = B!Nothing /\ lost' = {}
  BY DEF B!NextRepetition
<1>2. /\ MaxBurst \in Nat \ {0} /\ BurstStep \in Nat \ {0} /\ Repetitions \in Nat \ {0}
      /\ dut # Erratic => dut \in Nat
  BY BurstSettings DEF BurstInv
<1>3. repetition \in 1..Repetitions
  BY <1>2 DEF BurstInv, B!TypeOK, BurstsCounted
<1>4. B!TypeOK'
  <2>1. repetition' \in 1..Repetitions + 1 /\ burstPhase' \in {"upper", "done"}
    BY <1>1, <1>2, <1>3
  <2>2. crossed' \in [B!Bursts -> 0..2] /\ burstLow' \in B!Bursts /\ burstHigh' \in B!Bursts
    BY <1>1, <1>2 DEF B!Nothing, B!Bursts
  <2>3. dut' \in B!Devices
    BY DEF BurstInv, B!TypeOK, B!Devices
  <2>4. QED  BY <1>1, <2>1, <2>2, <2>3 DEF B!TypeOK, B!Bursts, B!Devices
<1>5. BurstBounds'
  BY <1>1, <1>2 DEF BurstBounds, B!Bracketed
<1>6. BurstsCounted'
  BY <1>1, <1>2, <1>3 DEF BurstsCounted
<1>7. BurstsOfBuffer'
  BY <1>1, <1>2 DEF BurstsOfBuffer, InRange
<1>8. QED  BY <1>4, <1>5, <1>6, <1>7 DEF BurstInv

\* A repetition that fails finds no burst.
LEMMA BurstsFail ==
  ASSUME BurstInv, B!UpperFails \/ B!SearchFails \/ B!Rejects
  PROVE  BurstInv'
<1>1. /\ burstsValid' = FALSE /\ longest' = longest /\ B!NextRepetition /\ dut' = dut
      /\ burstPhase \in {"upper", "search", "rejected"}
  BY DEF B!UpperFails, B!SearchFails, B!Rejects, B!Fails
<1>2. longest \in Seq(B!Bursts) /\ Len(longest) \in Nat /\ repetition \in Nat
      /\ burstHigh \in B!Bursts /\ burstLow \in B!Bursts
  BY DEF BurstInv, B!TypeOK
<1>3. Len(longest) < repetition
  BY <1>2 DEF BurstInv, BurstsCounted
<1>4. ASSUME dut # Erratic PROVE ~InRange
  <2>1. dut \in Nat /\ MaxBurst \in Nat /\ BurstStep \in Nat
    BY <1>4, BurstSettings DEF BurstInv
  <2>2. CASE B!UpperFails
    BY <1>4, <2>1, <2>2 DEF B!UpperFails, B!BurstObservations, InRange
  <2>3. CASE B!SearchFails /\ B!Apart
    BY <1>4, <2>3 DEF B!SearchFails, B!BurstObservations
  <2>4. CASE B!SearchFails /\ ~B!Apart
    <3>1. burstPhase = "search" /\ burstLow <= 0 /\ ~(burstHigh - burstLow > BurstStep)
      BY <2>4 DEF B!SearchFails, B!Apart
    <3>2. burstHigh \in lost
      BY <3>1 DEF BurstInv, BurstBounds, B!Bracketed
    <3>3. dut < burstHigh
      BY <1>4, <3>2 DEF BurstInv, BurstsOfBuffer
    <3>4. QED  BY <1>2, <2>1, <3>1, <3>3 DEF InRange, B!Bursts
  <2>5. CASE B!Rejects
    BY <1>4, <2>5 DEF B!Rejects, BurstInv, BurstsOfBuffer
  <2>6. QED  BY <2>2, <2>3, <2>4, <2>5, <1>1 DEF B!UpperFails, B!SearchFails, B!Rejects
<1>5. dut # Erratic => /\ \A i \in 1..Len(longest) : longest[i] <= dut /\ dut < longest[i] + BurstStep
                       /\ ~InRange => longest = <<>>
  BY DEF BurstInv, BurstsOfBuffer
<1>6. QED  BY <1>1, <1>2, <1>3, <1>4, <1>5, Restarts

\* A repetition takes the burst that was verified.
LEMMA BurstsTaken ==
  ASSUME BurstInv, B!Takes
  PROVE  BurstInv'
<1>1. /\ burstPhase = "verified" /\ longest' = Append(longest, burstLow) /\ burstsValid' = burstsValid
      /\ B!NextRepetition /\ dut' = dut
  BY DEF B!Takes
<1>2. /\ longest \in Seq(B!Bursts) /\ Len(longest) \in Nat /\ repetition \in Nat /\ burstsValid \in BOOLEAN
      /\ burstLow \in B!Bursts /\ burstHigh \in B!Bursts
  BY DEF BurstInv, B!TypeOK
<1>3. longest' \in Seq(B!Bursts) /\ Len(longest') = Len(longest) + 1
      /\ longest'[Len(longest) + 1] = burstLow
      /\ \A i \in 1..Len(longest) : longest'[i] = longest[i]
  BY <1>1, <1>2
<1>4. /\ burstsValid' => Len(longest') = repetition
      /\ ~burstsValid' => Len(longest') < repetition
  BY <1>1, <1>2, <1>3 DEF BurstInv, BurstsCounted
<1>5. ASSUME dut # Erratic
      PROVE  /\ \A i \in 1..Len(longest') : longest'[i] <= dut /\ dut < longest'[i] + BurstStep
             /\ InRange /\ burstsValid
  <2>1. /\ burstHigh \in lost /\ burstLow > 0 /\ burstHigh - burstLow <= BurstStep
        /\ (burstLow = 0 \/ burstLow >= BurstStep)
    BY <1>1 DEF BurstInv, BurstBounds, B!Bracketed
  <2>2. /\ burstLow <= dut /\ dut < burstHigh
        /\ \A i \in 1..Len(longest) : longest[i] <= dut /\ dut < longest[i] + BurstStep
        /\ InRange => burstsValid
    BY <1>5, <2>1 DEF BurstInv, BurstsOfBuffer
  <2>3. dut \in Nat /\ MaxBurst \in Nat /\ BurstStep \in Nat
    BY <1>5, BurstSettings DEF BurstInv
  <2>4. dut < burstLow + BurstStep
    BY <1>2, <2>1, <2>2, <2>3 DEF B!Bursts
  <2>5. BurstStep <= dut /\ dut < MaxBurst
    BY <1>2, <2>1, <2>2, <2>3 DEF B!Bursts
  <2>6. \A i \in 1..Len(longest') : i \in 1..Len(longest) \/ i = Len(longest) + 1
    BY <1>2, <1>3
  <2>7. QED  BY <1>3, <2>2, <2>4, <2>5, <2>6 DEF InRange
<1>6. QED  BY <1>1, <1>2, <1>3, <1>4, <1>5, Restarts

\* A trial, or the end of the search, keeps the bounds.
LEMMA BurstsOn ==
  ASSUME BurstInv,
         \/ B!UpperLoses \/ B!SearchHolds \/ B!SearchLoses \/ B!SearchEnds
         \/ \E seenAs \in {"invalid", "all", "fewer"} : B!Verify(seenAs)
  PROVE  BurstInv'
<1>1. /\ dut' = dut /\ repetition' = repetition /\ longest' = longest /\ burstsValid' = burstsValid
      /\ burstPhase # "done" /\ burstPhase' # "done"
  BY DEF B!UpperLoses, B!SearchHolds, B!SearchLoses, B!SearchEnds, B!Verify, B!bounds, B!evidence
<1>2. BurstsCounted'
  BY <1>1 DEF BurstInv, BurstsCounted
<1>3. /\ MaxBurst \in B!Bursts /\ MaxBurst \in Nat \ {0} /\ BurstStep \in Nat \ {0}
      /\ burstLow \in B!Bursts /\ burstHigh \in B!Bursts
      /\ B!TypeOK /\ BurstBounds /\ BurstsOfBuffer
      /\ dut # Erratic => dut \in Nat
  BY BurstSettings DEF BurstInv, B!TypeOK, B!Bursts
<1>4. ASSUME crossed' \in [B!Bursts -> 0..2], lost' \subseteq B!Bursts,
             burstLow' \in B!Bursts, burstHigh' \in B!Bursts,
             burstPhase' \in {"search", "verify", "verified", "rejected"}
      PROVE  B!TypeOK'
  BY <1>1, <1>3, <1>4 DEF B!TypeOK, B!Bursts, B!Devices
<1>5. ASSUME dut # Erratic => burstLow' <= dut /\ (\A b \in lost' : dut < b) /\ burstPhase' # "rejected"
      PROVE  BurstsOfBuffer'
  BY <1>1, <1>3, <1>5 DEF BurstsOfBuffer, InRange
<1>6. CASE B!UpperLoses
  <2>1. /\ burstPhase = "upper" /\ B!Observe(MaxBurst, "fewer") /\ burstPhase' = "search"
        /\ burstLow' = burstLow /\ burstHigh' = burstHigh
        /\ burstLow = 0 /\ burstHigh = MaxBurst
    BY <1>3, <1>6 DEF B!UpperLoses, B!bounds, BurstBounds
  <2>2. B!TypeOK'
    BY <1>3, <1>4, <2>1, BurstObserved
  <2>3. BurstBounds'
    BY <1>3, <2>1, BurstObserved DEF BurstBounds, B!Bracketed
  <2>4. BurstsOfBuffer'
    BY <1>3, <1>5, <2>1, BurstObserved DEF BurstsOfBuffer
  <2>5. QED  BY <1>2, <2>2, <2>3, <2>4 DEF BurstInv
<1>7. CASE B!SearchHolds
  <2> DEFINE c == B!Candidate
  <2>1. /\ burstPhase = "search" /\ B!Apart /\ B!Observe(c, "all") /\ burstPhase' = "search"
        /\ burstLow' = c /\ burstHigh' = burstHigh
    BY <1>7 DEF B!SearchHolds
  <2>2. c \in B!Bursts /\ burstLow < c /\ c < burstHigh /\ BurstStep <= c
    BY <1>3, <2>1, CandidateBetween
  <2> HIDE DEF c
  <2>3. B!TypeOK'
    BY <1>3, <1>4, <2>1, <2>2, BurstObserved
  <2>4. BurstBounds'
    BY <1>3, <2>1, <2>2, BurstObserved DEF BurstBounds, B!Bracketed
  <2>5. BurstsOfBuffer'
    BY <1>3, <1>5, <2>1, <2>2, BurstObserved DEF BurstsOfBuffer
  <2>6. QED  BY <1>2, <2>3, <2>4, <2>5 DEF BurstInv
<1>8. CASE B!SearchLoses
  <2> DEFINE c == B!Candidate
  <2>1. /\ burstPhase = "search" /\ B!Apart /\ B!Observe(c, "fewer") /\ burstPhase' = "search"
        /\ burstLow' = burstLow /\ burstHigh' = c
    BY <1>8 DEF B!SearchLoses
  <2>2. c \in B!Bursts /\ burstLow < c /\ c < burstHigh
    BY <1>3, <2>1, CandidateBetween
  <2> HIDE DEF c
  <2>3. B!TypeOK'
    BY <1>3, <1>4, <2>1, <2>2, BurstObserved
  <2>4. burstLow > 0 => crossed'[burstLow] > 0
    <3>1. burstLow > 0 => crossed[burstLow] > 0
      BY <1>3, <2>1 DEF BurstBounds, B!Bracketed
    <3>2. crossed[burstLow] <= crossed'[burstLow] /\ crossed[burstLow] \in 0..2 /\ crossed'[burstLow] \in 0..2
      BY <1>3, <2>1, <2>2, BurstObserved DEF B!TypeOK
    <3>3. QED  BY <3>1, <3>2
  <2>5. BurstBounds'
    BY <1>3, <2>1, <2>2, <2>4, BurstObserved DEF BurstBounds, B!Bracketed
  <2>6. BurstsOfBuffer'
    BY <1>3, <1>5, <2>1, <2>2, BurstObserved DEF BurstsOfBuffer
  <2>7. QED  BY <1>2, <2>3, <2>5, <2>6 DEF BurstInv
<1>9. CASE B!SearchEnds
  <2>1. /\ burstPhase = "search" /\ ~B!Apart /\ burstLow > 0 /\ burstPhase' = "verify"
        /\ burstLow' = burstLow /\ burstHigh' = burstHigh /\ crossed' = crossed /\ lost' = lost
    BY <1>9 DEF B!SearchEnds, B!bounds, B!evidence
  <2>2. B!TypeOK'
    BY <1>3, <1>4, <2>1 DEF B!TypeOK
  <2>3. burstHigh - burstLow <= BurstStep
    BY <1>3, <2>1 DEF B!Apart, B!Bursts
  <2>4. BurstBounds'
    BY <1>3, <2>1, <2>3 DEF BurstBounds, B!Bracketed
  <2>5. BurstsOfBuffer'
    BY <1>3, <1>5, <2>1 DEF BurstsOfBuffer
  <2>6. QED  BY <1>2, <2>2, <2>4, <2>5 DEF BurstInv
<1>10. ASSUME NEW seenAs \in {"invalid", "all", "fewer"}, B!Verify(seenAs) PROVE BurstInv'
  <2>1. /\ burstPhase = "verify" /\ B!Observe(burstLow, seenAs)
        /\ burstPhase' = IF seenAs = "all" THEN "verified" ELSE "rejected"
        /\ burstLow' = burstLow /\ burstHigh' = burstHigh
    BY <1>10 DEF B!Verify, B!bounds
  <2>2. /\ burstLow > 0 /\ burstHigh - burstLow <= BurstStep /\ burstLow < burstHigh /\ burstHigh \in lost
        /\ crossed[burstLow] > 0 /\ (burstLow = 0 \/ burstLow >= BurstStep)
    BY <1>3, <2>1 DEF BurstBounds, B!Bracketed
  <2>3. /\ crossed' \in [B!Bursts -> 0..2] /\ lost' \subseteq B!Bursts /\ lost \subseteq lost'
        /\ crossed[burstLow] <= crossed'[burstLow]
        /\ seenAs = "all" => crossed'[burstLow] = 2
        /\ dut # Erratic => /\ seenAs = "all" <=> burstLow <= dut
                            /\ \A b \in lost' \ lost : dut < b
    BY <1>3, <2>1, <2>2, BurstObserved
  <2>4. B!TypeOK'
    BY <1>3, <1>4, <2>1, <2>3
  <2>5. crossed'[burstLow] > 0
    <3>1. crossed[burstLow] \in 0..2 /\ crossed'[burstLow] \in 0..2
      BY <1>3, <2>3 DEF B!TypeOK
    <3>2. QED  BY <2>2, <2>3, <3>1
  <2>6. BurstBounds'
    BY <2>1, <2>2, <2>3, <2>5 DEF BurstBounds, B!Bracketed
  <2>7. BurstsOfBuffer'
    BY <1>3, <1>5, <2>1, <2>3 DEF BurstsOfBuffer
  <2>8. QED  BY <1>2, <2>4, <2>6, <2>7 DEF BurstInv
<1>11. QED  BY <1>6, <1>7, <1>8, <1>9, <1>10

\* Every step of measure_back_to_back keeps its bounds, its count and its findings.
LEMMA BurstsNext ==
  ASSUME BurstInv, B!Next
  PROVE  BurstInv'
BY BurstsFail, BurstsTaken, BurstsOn DEF B!Next

-----------------------------------------------------------------------------
(* The steps of the throughput search *)

\* The settings of the throughput search, and a device with a capacity.
LEMMA RateSettings ==
  /\ Ceiling \in Nat \ {0} /\ Resolution \in Nat \ {0} /\ Samples \in Nat \ {0} /\ Confirmations \in Nat \ {0}
  /\ Pending \notin Int /\ Invalid \notin Int /\ Pending # Invalid
  /\ T!TypeOK /\ dut # Erratic => dut \in Nat
BY ThroughputAssumption, RatesAssumption DEF T!TypeOK, T!Devices

\* The searches round as the settings say.
LEMMA SameRounding ==
  ASSUME NEW twice \in Int, NEW step \in Int
  PROVE  T!RoundHalf(twice, step) = RoundHalf(twice, step) /\ F!RoundHalf(twice, step) = RoundHalf(twice, step)
BY DEF RoundHalf, T!RoundHalf, F!RoundHalf

\* Where the bisection repeats itself, its bounds are at most one step apart.
LEMMA MiddleOrEnd ==
  ASSUME T!TypeOK
  PROVE  /\ ~T!Repeats(T!Middle) => /\ T!Middle \in T!Rates
                                    /\ low < T!Middle /\ T!Middle < high
         /\ T!Repeats(T!Middle) => high - low <= Resolution
<1> DEFINE m == T!Middle
<1>1. low \in 0..Ceiling /\ high \in 0..Ceiling /\ Ceiling \in Nat /\ Resolution \in Nat \ {0}
  BY RateSettings DEF T!TypeOK, T!Rates
<1>2. m = RoundHalf(low + high, Resolution)
  BY <1>1, SameRounding DEF T!Middle
<1>3. m \in Int /\ 2 * m - (low + high) <= Resolution /\ (low + high) - 2 * m <= Resolution
  BY <1>1, <1>2, Rounding
<1>4. T!Repeats(m) <=> m <= low \/ m >= high
  BY DEF T!Repeats
<1> HIDE DEF m
<1>5. QED
  <2>1. /\ ~T!Repeats(m) => m \in T!Rates /\ low < m /\ m < high
        /\ T!Repeats(m) => high - low <= Resolution
    BY <1>1, <1>3, <1>4 DEF T!Rates
  <2>2. QED  BY <2>1 DEF m

\* The next rate to confirm is lower, by one and a half steps at most.
LEMMA LowerIsNear ==
  ASSUME T!TypeOK
  PROVE  /\ T!Lower \in Int /\ T!Lower < candidate
         /\ 2 * (candidate - T!Lower) <= 3 * Resolution
<1>1. candidate \in 0..Ceiling /\ Ceiling \in Nat /\ Resolution \in Nat \ {0}
  BY RateSettings DEF T!TypeOK, T!Rates
<1> DEFINE twice == 2 * (candidate - Resolution)
<1>2. twice \in Int
  BY <1>1
<1>3. T!Lower = RoundHalf(twice, Resolution)
  BY <1>1, SameRounding DEF T!Lower, T!RoundRate
<1> HIDE DEF twice
<1>4. T!Lower \in Int /\ 2 * T!Lower - twice <= Resolution /\ twice - 2 * T!Lower <= Resolution
  BY <1>1, <1>2, <1>3, Rounding
<1>5. QED  BY <1>1, <1>4 DEF twice

\* A rate stays tight when more losses are known.
LEMMA TightStays ==
  ASSUME NEW r, TightAt(r), losses \subseteq losses'
  PROVE  r = Ceiling \/ \E h \in losses' : r < h /\ 2 * (h - r) <= 3 * Resolution
BY DEF TightAt

\* What a trial adds to the evidence, and to what observe would return.
LEMMA RateObserved ==
  ASSUME ThroughputInv, NEW out, T!Trial(out)
  PROVE  /\ out \in Outcomes
         /\ phase' = phase /\ low' = low /\ high' = high /\ candidate' = candidate /\ left' = left
         /\ result' = result /\ dut' = dut /\ probes' = probes
         /\ phase \in {"ceiling", "search", "confirm"} /\ sample \in Nat /\ candidate \in T!Rates
         /\ sample <= T!SamplesOf(phase)
         /\ \/ out = "invalid" /\ ~retrying /\ retrying' = TRUE /\ sample' = sample /\ observed' = observed
            \/ /\ out # "invalid" \/ retrying
               /\ retrying' = FALSE /\ sample' = sample + 1
               /\ observed' = IF out = "invalid" THEN observed ELSE T!Taken(observed, out)
         /\ zeros' = IF out = "zero" /\ phase # "confirm" THEN zeros \cup {candidate} ELSE zeros
         /\ losses' = IF out = "loss" THEN losses \cup {candidate} ELSE losses
         /\ quiet' = IF out = "loss" THEN 0
                     ELSE IF out = "zero" /\ phase = "confirm" THEN quiet + 1 ELSE quiet
         /\ seen' \subseteq seen \cup {"confirmed", "twice-invalid"}
         /\ dut # Erratic => /\ dut \in Nat
                             /\ out = IF candidate <= dut THEN "zero" ELSE "loss"
<1>1. /\ phase \in {"ceiling", "search", "confirm"} /\ sample <= T!SamplesOf(phase)
      /\ out \in T!Observations(dut, candidate)
      /\ IF out = "invalid" /\ ~retrying
         THEN retrying' = TRUE /\ UNCHANGED <<sample, observed>>
         ELSE /\ retrying' = FALSE /\ sample' = sample + 1
              /\ observed' = IF out = "invalid" THEN observed ELSE T!Taken(observed, out)
      /\ zeros' = IF out = "zero" /\ phase # "confirm" THEN zeros \cup {candidate} ELSE zeros
      /\ losses' = IF out = "loss" THEN losses \cup {candidate} ELSE losses
      /\ quiet' = IF out = "loss" THEN 0
                  ELSE IF out = "zero" /\ phase = "confirm" THEN quiet + 1 ELSE quiet
      /\ seen' = seen \cup (IF phase = "confirm" /\ out = "zero" THEN {"confirmed"} ELSE {})
                      \cup (IF retrying /\ out = "invalid" THEN {"twice-invalid"} ELSE {})
      /\ phase' = phase /\ low' = low /\ high' = high /\ candidate' = candidate /\ left' = left
      /\ result' = result /\ dut' = dut /\ probes' = probes
  BY DEF T!Trial, T!bounds
<1>2. sample \in Nat /\ candidate \in T!Rates
  <2>1. sample \in 1..Samples + 1 /\ candidate \in T!Rates
    BY DEF ThroughputInv, T!TypeOK
  <2>2. Samples \in Nat
    BY RateSettings
  <2>3. QED  BY <2>1, <2>2
<1>3. dut # Erratic => dut \in Nat
  BY RateSettings DEF ThroughputInv
<1>4. out \in Outcomes /\ (dut # Erratic => out = IF candidate <= dut THEN "zero" ELSE "loss")
  BY <1>1 DEF T!Observations, T!Outcomes, Outcomes
<1>5. seen' \subseteq seen \cup {"confirmed", "twice-invalid"}
  BY <1>1
<1>6. QED  BY <1>1, <1>2, <1>3, <1>4, <1>5

\* A trial keeps the bounds, and what is known above and below them.
LEMMA RateTrial ==
  ASSUME ThroughputInv, NEW out, T!Trial(out)
  PROVE  ThroughputInv'
<1>1. /\ out \in {"invalid", "zero", "loss"} /\ phase \in {"ceiling", "search", "confirm"}
      /\ phase' = phase /\ low' = low /\ high' = high /\ candidate' = candidate /\ left' = left
      /\ result' = result /\ dut' = dut /\ probes' = probes
      /\ sample <= T!SamplesOf(phase)
      /\ \/ out = "invalid" /\ ~retrying /\ retrying' = TRUE /\ sample' = sample /\ observed' = observed
         \/ /\ out # "invalid" \/ retrying
            /\ retrying' = FALSE /\ sample' = sample + 1
            /\ observed' = IF out = "invalid" THEN observed ELSE IF observed = "zero" THEN "zero" ELSE out
      /\ zeros' = IF out = "zero" /\ phase # "confirm" THEN zeros \cup {candidate} ELSE zeros
      /\ losses' = IF out = "loss" THEN losses \cup {candidate} ELSE losses
      /\ quiet' = IF out = "loss" THEN 0
                  ELSE IF out = "zero" /\ phase = "confirm" THEN quiet + 1 ELSE quiet
      /\ seen' \subseteq seen \cup {"confirmed", "twice-invalid"}
      /\ dut # Erratic => /\ dut \in Nat
                          /\ out = IF candidate <= dut THEN "zero" ELSE "loss"
  BY RateObserved DEF Outcomes, T!Taken
<1>2. /\ Ceiling \in Nat \ {0} /\ Samples \in Nat \ {0} /\ Confirmations \in Nat \ {0}
      /\ sample \in 1..Samples + 1 /\ candidate \in T!Rates /\ left \in 1..Confirmations
      /\ zeros \subseteq T!Rates /\ losses \subseteq T!Rates /\ quiet \in 0..Confirmations
      /\ observed \in {"none", "zero", "loss"} /\ retrying \in BOOLEAN
      /\ low \in T!Rates /\ high \in T!Rates
  <2>1. Ceiling \in Nat \ {0} /\ Samples \in Nat \ {0} /\ Confirmations \in Nat \ {0}
    BY RateSettings
  <2>2. QED  BY <2>1 DEF ThroughputInv, T!TypeOK
<1>3. phase = "confirm" => sample = 1 /\ observed = "none" /\ quiet = Confirmations - left
  <2>1. SUFFICES ASSUME phase = "confirm" PROVE sample = 1 /\ observed = "none" /\ quiet = Confirmations - left
    OBVIOUS
  <2>2. sample = 1
    BY <1>1, <1>2, <2>1 DEF T!SamplesOf
  <2>3. observed = "none"
    BY <1>2, <2>2 DEF ThroughputInv, Observing
  <2>4. QED  BY <2>1, <2>2, <2>3 DEF ThroughputInv, Confirming
<1>4. sample <= Samples
  <2>1. T!SamplesOf(phase) \in {1, Samples}
    BY DEF T!SamplesOf
  <2>2. QED  BY <1>1, <1>2, <2>1
<1>5. quiet' \in 0..Confirmations
  BY <1>1, <1>2, <1>3
<1>6. T!TypeOK'
  <2>1. sample' \in 1..Samples + 1 /\ retrying' \in BOOLEAN /\ observed' \in {"none", "zero", "loss"}
    <3>1. sample' \in 1..Samples + 1
      BY <1>1, <1>2, <1>4
    <3>2. retrying' \in BOOLEAN
      BY <1>1
    <3>3. observed' \in {"none", "zero", "loss"}
      BY <1>1, <1>2
    <3>4. QED  BY <3>1, <3>2, <3>3
  <2>2. zeros' \subseteq T!Rates /\ losses' \subseteq T!Rates
    BY <1>1, <1>2
  <2>3. T!TypeOK
    BY DEF ThroughputInv
  <2>4. seen' \subseteq {"confirmed", "twice-invalid"}
    BY <1>1, <2>3 DEF T!TypeOK
  <2>5. QED  BY <1>1, <1>5, <2>1, <2>2, <2>3, <2>4 DEF T!TypeOK, T!Devices, T!Rates, T!ProbeCap
<1>7. Observing'
  BY <1>1, <1>2, <1>3 DEF ThroughputInv, Observing
<1>8. Bisecting'
  BY <1>1, <1>2 DEF ThroughputInv, Bisecting, T!Rates
<1>9. Confirming'
  <2>1. ASSUME phase = "confirm" PROVE candidate > 0 /\ TightAt(candidate)'
    BY <1>1, <2>1, TightStays DEF ThroughputInv, Confirming, TightAt
  <2>2. ASSUME phase = "confirm"
        PROVE  /\ sample' <= 2
               /\ quiet' = CASE observed' = "none" -> Confirmations - left
                             [] observed' = "zero" -> Confirmations - left + 1
                             [] observed' = "loss" -> 0
    BY <1>1, <1>2, <1>3, <2>2
  <2>3. QED  BY <1>1, <2>1, <2>2 DEF Confirming, TightAt
<1>10. Reported'
  BY <1>1, RateSettings DEF ThroughputInv, Reported
<1>11. RatesOfCapacity'
  BY <1>1, <1>2 DEF ThroughputInv, RatesOfCapacity, T!Accurate, T!Rates
<1>12. QED  BY <1>6, <1>7, <1>8, <1>9, <1>10, <1>11 DEF ThroughputInv

\* The next observation begins.
LEMMA RateRestartsObserving ==
  ASSUME T!ObserveNext
  PROVE  Observing' /\ sample' = 1 /\ retrying' = FALSE /\ observed' = "none"
BY DEF T!ObserveNext, Observing

\* What leaves the samples and the evidence typed leaves all of it typed.
LEMMA RateTyped ==
  ASSUME ThroughputInv, phase' \in {"ceiling", "bisect", "search", "confirm", "done"},
         dut' = dut, UNCHANGED T!evidence, T!ObserveNext \/ UNCHANGED T!observing,
         low' \in T!Rates, high' \in T!Rates, candidate' \in T!Rates, left' \in 1..Confirmations,
         result' \in T!Rates \cup {Pending, Invalid}, probes' \in 0..T!ProbeCap
  PROVE  T!TypeOK'
<1>1. sample' \in 1..Samples + 1 /\ retrying' \in BOOLEAN /\ observed' \in {"none", "zero", "loss"}
  <2>1. CASE T!ObserveNext
    <3>1. Samples \in Nat \ {0}
      BY RateSettings
    <3>2. sample' = 1 /\ retrying' = FALSE /\ observed' = "none"
      BY <2>1, RateRestartsObserving
    <3>3. sample' \in 1..Samples + 1
      BY <3>1, <3>2
    <3>4. QED  BY <3>2, <3>3
  <2>2. CASE UNCHANGED T!observing
    BY <2>2 DEF T!observing, ThroughputInv, T!TypeOK
  <2>3. QED  BY <2>1, <2>2
<1>2. QED  BY <1>1 DEF T!evidence, ThroughputInv, T!TypeOK, T!Devices, T!Rates, T!ProbeCap

\* What the invariant says of the variables, typed for the steps below.
LEMMA RateFacts ==
  ASSUME ThroughputInv
  PROVE  /\ Ceiling \in Nat \ {0} /\ Resolution \in Nat \ {0} /\ Samples \in Nat \ {0}
         /\ Confirmations \in Nat \ {0}
         /\ Pending \notin Int /\ Invalid \notin Int /\ Pending # Invalid
         /\ dut # Erratic => dut \in Nat
         /\ low \in 0..Ceiling /\ high \in 0..Ceiling /\ candidate \in 0..Ceiling
         /\ left \in 1..Confirmations /\ quiet \in 0..Confirmations /\ probes \in 0..Ceiling
         /\ zeros \subseteq 0..Ceiling /\ losses \subseteq 0..Ceiling
         /\ sample \in 1..Samples + 1
         /\ T!Rates = 0..Ceiling /\ T!ProbeCap = Ceiling
<1>1. /\ Ceiling \in Nat \ {0} /\ Resolution \in Nat \ {0} /\ Samples \in Nat \ {0}
      /\ Confirmations \in Nat \ {0}
      /\ Pending \notin Int /\ Invalid \notin Int /\ Pending # Invalid
      /\ dut # Erratic => dut \in Nat
  BY RateSettings DEF ThroughputInv
<1>2. /\ low \in 0..Ceiling /\ high \in 0..Ceiling /\ candidate \in 0..Ceiling
      /\ left \in 1..Confirmations /\ quiet \in 0..Confirmations /\ probes \in 0..Ceiling
      /\ zeros \subseteq 0..Ceiling /\ losses \subseteq 0..Ceiling
      /\ sample \in 1..Samples + 1
      /\ T!Rates = 0..Ceiling /\ T!ProbeCap = Ceiling
  BY DEF ThroughputInv, T!TypeOK, T!Rates, T!ProbeCap
<1>3. QED  BY <1>1, <1>2

\* No sample was valid.
LEMMA RateInvalid ==
  ASSUME ThroughputInv, T!NoValidTrial
  PROVE  ThroughputInv'
<1>1. /\ phase \in {"ceiling", "search", "confirm"} /\ sample > T!SamplesOf(phase) /\ observed = "none"
      /\ phase' = "done" /\ result' = Invalid /\ T!ObserveNext
      /\ dut' = dut /\ low' = low /\ high' = high /\ candidate' = candidate /\ left' = left
      /\ probes' = probes /\ UNCHANGED T!evidence
      /\ zeros' = zeros /\ losses' = losses /\ quiet' = quiet
  BY DEF T!NoValidTrial, T!Observes, T!bounds, T!evidence
<1>2. T!TypeOK'
  BY <1>1, RateTyped DEF ThroughputInv, T!TypeOK
<1>3. Observing'
  BY <1>1, RateRestartsObserving
<1>4. Bisecting' /\ Confirming'
  BY <1>1 DEF Bisecting, Confirming
<1>5. Reported'
  BY <1>1, RateFacts DEF Reported
<1>6. dut = Erratic
  <2>1. T!SamplesOf(phase) >= 1 /\ T!SamplesOf(phase) \in Nat
    BY RateFacts DEF T!SamplesOf
  <2>2. sample > 1
    BY <1>1, <2>1, RateFacts
  <2>3. QED  BY <1>1, <2>2 DEF ThroughputInv, RatesOfCapacity
<1>7. RatesOfCapacity'
  BY <1>1, <1>6 DEF RatesOfCapacity
<1>8. QED  BY <1>2, <1>3, <1>4, <1>5, <1>7 DEF ThroughputInv

\* The ceiling was observed.
LEMMA RateCeiling ==
  ASSUME ThroughputInv, T!CeilingHolds \/ T!CeilingLoses
  PROVE  ThroughputInv'
<1>1. /\ phase = "ceiling"
      /\ \/ phase' = "confirm" /\ observed = "zero"
         \/ phase' = "bisect" /\ observed = "loss"
      /\ T!ObserveNext
      /\ dut' = dut /\ low' = low /\ high' = high /\ candidate' = candidate /\ left' = left
      /\ result' = result /\ probes' = probes /\ UNCHANGED T!evidence
      /\ zeros' = zeros /\ losses' = losses /\ quiet' = quiet
  BY DEF T!CeilingHolds, T!CeilingLoses, T!Observes, T!bounds, T!evidence
<1>2. T!TypeOK'
  BY <1>1, RateTyped DEF ThroughputInv, T!TypeOK
<1>3. /\ low = 0 /\ high = Ceiling /\ candidate = Ceiling /\ left = Confirmations /\ quiet = 0
      /\ \A z \in zeros : z <= low \/ (z = candidate /\ observed = "zero")
  BY <1>1 DEF ThroughputInv, Bisecting
<1>4. /\ observed = "loss" => candidate \in losses
      /\ observed = "zero" => candidate \in zeros
  BY <1>1 DEF ThroughputInv, Observing
<1>5. Observing' /\ sample' = 1 /\ retrying' = FALSE /\ observed' = "none"
  BY <1>1, RateRestartsObserving
<1>6. Bisecting'
  BY <1>1, <1>3, <1>4, <1>5, RateFacts DEF Bisecting
<1>7. Confirming'
  BY <1>1, <1>3, <1>5, RateFacts DEF Confirming, TightAt
<1>8. Reported'
  BY <1>1, RateFacts DEF Reported, ThroughputInv
<1>9. RatesOfCapacity'
  BY <1>1, <1>3, <1>4, <1>5, RateFacts DEF RatesOfCapacity, ThroughputInv, T!Accurate
<1>10. QED  BY <1>2, <1>5, <1>6, <1>7, <1>8, <1>9 DEF ThroughputInv

\* The bisection looks at its middle.
LEMMA RateProbe ==
  ASSUME ThroughputInv, T!Probe
  PROVE  ThroughputInv'
<1>1. /\ phase = "bisect" /\ ~T!Repeats(T!Middle)
      /\ candidate' = T!Middle /\ phase' = "search"
      /\ probes' = IF probes < T!ProbeCap THEN probes + 1 ELSE probes
      /\ dut' = dut /\ low' = low /\ high' = high /\ left' = left /\ result' = result
      /\ UNCHANGED T!observing /\ UNCHANGED T!evidence
      /\ sample' = sample /\ retrying' = retrying /\ observed' = observed
      /\ zeros' = zeros /\ losses' = losses /\ quiet' = quiet
  BY DEF T!Probe, T!bounds, T!observing, T!evidence
<1>2. candidate' \in T!Rates /\ low < candidate' /\ candidate' < high
  BY <1>1, MiddleOrEnd DEF ThroughputInv
<1>3. probes' \in 0..T!ProbeCap
  BY <1>1, RateFacts
<1>4. T!TypeOK'
  BY <1>1, <1>2, <1>3, RateTyped DEF ThroughputInv, T!TypeOK
<1>5. sample = 1 /\ observed = "none" /\ ~retrying
  BY <1>1 DEF ThroughputInv, Observing
<1>6. Observing'
  BY <1>1, <1>5 DEF Observing
<1>7. Bisecting'
  BY <1>1, <1>2, <1>5 DEF ThroughputInv, Bisecting
<1>8. Confirming'
  BY <1>1 DEF Confirming
<1>9. Reported'
  BY <1>1, RateFacts DEF ThroughputInv, Reported
<1>10. RatesOfCapacity'
  BY <1>1, <1>5 DEF ThroughputInv, RatesOfCapacity, T!Accurate
<1>11. QED  BY <1>4, <1>6, <1>7, <1>8, <1>9, <1>10 DEF ThroughputInv

\* The bisection ends between a rate without loss and one with losses, a step apart.
LEMMA BisectionEnds ==
  ASSUME ThroughputInv, T!SearchEnds
  PROVE  /\ phase = "bisect" /\ candidate' = low /\ low \in zeros \cup {0}
         /\ high \in losses \ zeros /\ low < high /\ high <= low + Resolution
<1>1. /\ phase = "bisect"
      /\ high - low <= Resolution \/ T!Repeats(T!Middle)
      /\ candidate' = low
  BY DEF T!SearchEnds, T!Best
<1>2. high - low <= Resolution
  BY <1>1, MiddleOrEnd DEF ThroughputInv
<1>3. low \in zeros \cup {0} /\ high \in losses \ zeros /\ low < high
  BY <1>1 DEF ThroughputInv, Bisecting
<1>4. high <= low + Resolution
  BY <1>2, RateFacts
<1>5. QED  BY <1>1, <1>3, <1>4

\* The end of the bisection is the beginning of the confirmation.
LEMMA RateSearchEnds ==
  ASSUME ThroughputInv, T!SearchEnds
  PROVE  ThroughputInv'
<1>1. /\ phase = "bisect"
      /\ IF low = 0 THEN phase' = "done" /\ result' = 0
                    ELSE phase' = "confirm" /\ result' = result
      /\ dut' = dut /\ low' = low /\ high' = high /\ left' = left /\ probes' = probes
      /\ UNCHANGED T!observing /\ UNCHANGED T!evidence
      /\ sample' = sample /\ retrying' = retrying /\ observed' = observed
      /\ zeros' = zeros /\ losses' = losses /\ quiet' = quiet
  BY DEF T!SearchEnds, T!Best, T!bounds, T!observing, T!evidence
<1>2. /\ candidate' = low /\ low \in zeros \cup {0}
      /\ high \in losses \ zeros /\ low < high /\ high <= low + Resolution
  BY BisectionEnds
<1>3. T!TypeOK'
  <2>1. result' \in T!Rates \cup {Pending, Invalid}
    BY <1>1, RateFacts DEF ThroughputInv, T!TypeOK
  <2>2. QED  BY <1>1, <1>2, <2>1, RateTyped DEF ThroughputInv, T!TypeOK
<1>4. /\ sample = 1 /\ observed = "none" /\ ~retrying
      /\ left = Confirmations /\ quiet = 0
      /\ result = Pending
  BY <1>1 DEF ThroughputInv, Observing, Bisecting, Reported
<1>5. Observing'
  BY <1>1, <1>4 DEF Observing
<1>6. Bisecting'
  BY <1>1 DEF Bisecting
<1>7. TightAt(low)'
  <2>1. 2 * (high - low) <= 3 * Resolution
    BY <1>2, RateFacts
  <2>2. QED  BY <1>1, <1>2, <2>1 DEF TightAt
<1>8. Confirming'
  <2>1. SUFFICES ASSUME phase' = "confirm" PROVE Confirming'
    BY DEF Confirming
  <2>2. candidate' > 0
    BY <1>1, <1>2, <2>1, RateFacts
  <2>3. quiet' = Confirmations - left'
    BY <1>1, <1>4, RateFacts
  <2>4. TightAt(candidate)'
    BY <1>1, <1>2, <1>7 DEF TightAt
  <2>5. QED  BY <1>1, <1>4, <2>2, <2>3, <2>4 DEF Confirming
<1>9. Reported'
  BY <1>1, <1>4, <1>7, RateFacts DEF Reported, TightAt
<1>10. ASSUME dut # Erratic PROVE low <= dut /\ dut < low + Resolution /\ dut \in Nat
  <2>1. dut < high /\ (low \in zeros => low <= dut)
    BY <1>2, <1>10 DEF ThroughputInv, RatesOfCapacity
  <2>2. QED  BY <1>2, <1>10, <2>1, RateFacts
<1>11. RatesOfCapacity'
  <2>1. T!Accurate'
    BY <1>1, <1>10, RateFacts DEF T!Accurate
  <2>2. QED  BY <1>1, <1>2, <1>4, <1>10, <2>1 DEF ThroughputInv, RatesOfCapacity
<1>12. QED  BY <1>3, <1>5, <1>6, <1>8, <1>9, <1>11 DEF ThroughputInv

\* A bound of the bisection moves to the rate that was observed.
LEMMA RateSearched ==
  ASSUME ThroughputInv, T!SearchHolds \/ T!SearchLoses
  PROVE  ThroughputInv'
<1>1. /\ phase = "search" /\ phase' = "bisect"
      /\ \/ observed = "zero" /\ low' = candidate /\ high' = high
         \/ observed = "loss" /\ low' = low /\ high' = candidate
      /\ T!ObserveNext
      /\ dut' = dut /\ candidate' = candidate /\ left' = left
      /\ result' = result /\ probes' = probes /\ UNCHANGED T!evidence
      /\ zeros' = zeros /\ losses' = losses /\ quiet' = quiet
  BY DEF T!SearchHolds, T!SearchLoses, T!Observes, T!evidence
<1>2. T!TypeOK'
  BY <1>1, RateTyped DEF ThroughputInv, T!TypeOK
<1>3. /\ low < candidate /\ candidate < high /\ left = Confirmations /\ quiet = 0
      /\ low \in zeros \cup {0} /\ high \in losses \ zeros
      /\ \A z \in zeros : z <= low \/ (z = candidate /\ observed = "zero")
  BY <1>1 DEF ThroughputInv, Bisecting
<1>4. /\ observed = "loss" => candidate \in losses
      /\ observed = "zero" => candidate \in zeros
  BY <1>1 DEF ThroughputInv, Observing
<1>5. Observing' /\ sample' = 1 /\ retrying' = FALSE /\ observed' = "none"
  BY <1>1, RateRestartsObserving
<1>6. Bisecting'
  <2>1. CASE observed = "zero"
    BY <1>1, <1>3, <1>4, <1>5, <2>1, RateFacts DEF Bisecting
  <2>2. CASE observed = "loss"
    BY <1>1, <1>3, <1>4, <1>5, <2>2, RateFacts DEF Bisecting
  <2>3. QED  BY <1>1, <2>1, <2>2
<1>7. Confirming'
  BY <1>1 DEF Confirming
<1>8. Reported'
  BY <1>1, RateFacts DEF Reported, ThroughputInv
<1>9. RatesOfCapacity'
  BY <1>1, <1>5 DEF RatesOfCapacity, ThroughputInv, T!Accurate
<1>10. QED  BY <1>2, <1>5, <1>6, <1>7, <1>8, <1>9 DEF ThroughputInv

\* A confirmation holds.
LEMMA RateConfirmed ==
  ASSUME ThroughputInv, T!ConfirmHolds
  PROVE  ThroughputInv'
<1>1. /\ phase = "confirm" /\ observed = "zero" /\ T!ObserveNext
      /\ IF left = 1 THEN phase' = "done" /\ result' = candidate /\ left' = left
                     ELSE left' = left - 1 /\ phase' = phase /\ result' = result
      /\ dut' = dut /\ low' = low /\ high' = high /\ candidate' = candidate
      /\ probes' = probes /\ UNCHANGED T!evidence
      /\ zeros' = zeros /\ losses' = losses /\ quiet' = quiet
  BY DEF T!ConfirmHolds, T!Observes, T!bounds, T!evidence
<1>2. /\ candidate > 0 /\ TightAt(candidate) /\ quiet = Confirmations - left + 1
      /\ result = Pending
  BY <1>1 DEF ThroughputInv, Confirming, Reported
<1>3. left' \in 1..Confirmations /\ result' \in T!Rates \cup {Pending, Invalid}
  BY <1>1, <1>2, RateFacts
<1>4. T!TypeOK'
  BY <1>1, <1>3, RateTyped DEF ThroughputInv, T!TypeOK
<1>5. Observing' /\ sample' = 1 /\ retrying' = FALSE /\ observed' = "none"
  BY <1>1, RateRestartsObserving
<1>6. Bisecting'
  BY <1>1 DEF Bisecting
<1>7. TightAt(candidate)'
  BY <1>1, <1>2 DEF TightAt
<1>8. Confirming'
  <2>1. phase' = "confirm" => quiet' = Confirmations - left'
    BY <1>1, <1>2, RateFacts
  <2>2. QED  BY <1>1, <1>2, <1>5, <1>7, <2>1 DEF Confirming
<1>9. Reported'
  <2>1. phase' = "done" => quiet' = Confirmations
    BY <1>1, <1>2, RateFacts
  <2>2. QED  BY <1>1, <1>2, <1>7, <2>1, RateFacts DEF Reported, TightAt
<1>10. RatesOfCapacity'
  <2>1. dut # Erratic => candidate <= dut /\ (candidate = Ceiling \/ dut < candidate + Resolution)
    BY <1>1 DEF ThroughputInv, RatesOfCapacity
  <2>2. T!Accurate'
    BY <1>1, <2>1, RateFacts DEF T!Accurate
  <2>3. QED  BY <1>1, <1>5, <2>1, <2>2 DEF ThroughputInv, RatesOfCapacity
<1>11. QED  BY <1>4, <1>5, <1>6, <1>8, <1>9, <1>10 DEF ThroughputInv

\* A confirmation loses frames: the next lower rate is tried, if there is one.
LEMMA RateLowered ==
  ASSUME ThroughputInv, T!ConfirmLoses
  PROVE  ThroughputInv'
<1> DEFINE l == T!Lower
<1>1. /\ phase = "confirm" /\ observed = "loss" /\ T!ObserveNext
      /\ IF l <= 0 THEN phase' = "done" /\ result' = 0 /\ candidate' = candidate /\ left' = left
                   ELSE candidate' = l /\ left' = Confirmations /\ phase' = phase /\ result' = result
      /\ dut' = dut /\ low' = low /\ high' = high
      /\ probes' = probes /\ UNCHANGED T!evidence
      /\ zeros' = zeros /\ losses' = losses /\ quiet' = quiet
  BY DEF T!ConfirmLoses, T!AgainLeft, T!Observes, T!bounds, T!evidence
<1>2. l \in Int /\ l < candidate /\ 2 * (candidate - l) <= 3 * Resolution
  BY LowerIsNear DEF ThroughputInv
<1> HIDE DEF l
<1>3. /\ candidate > 0 /\ candidate \in losses /\ quiet = 0 /\ result = Pending
  BY <1>1 DEF ThroughputInv, Observing, Confirming, Reported
<1>4. /\ candidate' \in T!Rates /\ left' \in 1..Confirmations /\ result' \in T!Rates \cup {Pending, Invalid}
  <2>1. l > 0 => l \in T!Rates
    BY <1>2, RateFacts
  <2>2. candidate' \in T!Rates
    <3>1. candidate \in T!Rates /\ (l <= 0 \/ l > 0)
      BY <1>2, RateFacts
    <3>2. candidate' = candidate \/ (~(l <= 0) /\ candidate' = l)
      BY <1>1
    <3>3. QED  BY <2>1, <3>1, <3>2
  <2>3. left' \in 1..Confirmations
    BY <1>1, RateFacts
  <2>4. result' \in T!Rates \cup {Pending, Invalid}
    BY <1>1, <1>3, RateFacts
  <2>5. QED  BY <2>2, <2>3, <2>4
<1>5. T!TypeOK'
  BY <1>1, <1>4, RateTyped DEF ThroughputInv, T!TypeOK
<1>6. Observing' /\ sample' = 1 /\ retrying' = FALSE /\ observed' = "none"
  BY <1>1, RateRestartsObserving
<1>7. Bisecting'
  BY <1>1 DEF Bisecting
<1>8. l <= 0 => 2 * candidate <= 3 * Resolution
  BY <1>2, RateFacts
<1>9. Confirming'
  <2>1. SUFFICES ASSUME phase' = "confirm" PROVE Confirming'
    BY DEF Confirming
  <2>2. candidate' = l /\ l > 0 /\ left' = Confirmations
    BY <1>1, <1>2, <2>1
  <2>3. TightAt(candidate)'
    BY <1>1, <1>2, <1>3, <2>2 DEF TightAt
  <2>4. quiet' = Confirmations - left'
    BY <1>1, <1>3, <2>2, RateFacts
  <2>5. QED  BY <1>6, <2>2, <2>3, <2>4 DEF Confirming
<1>10. Reported'
  <2>1. CASE l <= 0
    <3>1. phase' = "done" /\ result' = 0 /\ 0 # Pending /\ 0 \in Nat
      BY <1>1, <2>1, RateFacts
    <3>2. candidate \in losses' /\ 0 < candidate /\ 2 * (candidate - 0) <= 3 * Resolution
      BY <1>1, <1>3, <1>8, <2>1, RateFacts
    <3>3. QED  BY <3>1, <3>2 DEF Reported, TightAt
  <2>2. CASE ~(l <= 0)
    BY <1>1, <1>3, <2>2, RateFacts DEF Reported
  <2>3. QED  BY <2>1, <2>2
<1>11. dut = Erratic
  <2>1. dut # Erratic => candidate <= dut /\ dut < candidate
    BY <1>1, <1>3 DEF ThroughputInv, RatesOfCapacity
  <2>2. QED  BY <2>1, RateFacts
<1>12. RatesOfCapacity'
  BY <1>1, <1>11 DEF RatesOfCapacity
<1>13. QED  BY <1>5, <1>6, <1>7, <1>9, <1>10, <1>12 DEF ThroughputInv

\* Every step of search_frame keeps its bounds, its confirmations and its findings.
LEMMA RatesNext ==
  ASSUME ThroughputInv, T!Next
  PROVE  ThroughputInv'
BY RateTrial, RateInvalid, RateCeiling, RateProbe, RateSearchEnds, RateSearched, RateConfirmed, RateLowered
   DEF T!Next

-----------------------------------------------------------------------------
(* The steps of the loss curve *)

\* The settings of the loss curve.
LEMMA LossSettings ==
  Ceiling \in Nat \ {0} /\ LossStep \in Nat \ {0} /\ ZeroLossRuns \in Nat \ {0}
BY LossAssumption, RatesAssumption

\* The next lower rate is lower, by one and a half steps at most, and not below one
\* step under zero.
LEMMA BelowIsLower ==
  ASSUME F!TypeOK, rate > 0
  PROVE  /\ F!Below \in -LossStep..Ceiling /\ F!Below < rate
         /\ 2 * (rate - F!Below) <= 3 * LossStep
<1> DEFINE twice == 2 * (rate - LossStep)
<1>1. /\ Ceiling \in Nat /\ LossStep \in Nat \ {0}
      /\ rate \in -LossStep..Ceiling
  BY LossSettings DEF F!TypeOK
<1>2. twice \in Int /\ -(2 * LossStep) <= twice
  BY <1>1
<1>3. F!Below = RoundHalf(twice, LossStep)
  BY <1>1, SameRounding DEF F!Below, F!RoundRate
<1> HIDE DEF twice
<1>4. /\ F!Below \in Int /\ 2 * F!Below - twice <= LossStep /\ twice - 2 * F!Below <= LossStep
      /\ -LossStep <= F!Below
  BY <1>1, <1>2, <1>3, Rounding
<1>5. QED  BY <1>1, <1>4 DEF twice

\* A sequence of points with one more.
LEMMA Appended ==
  ASSUME NEW s \in Seq(F!Point), NEW p \in F!Point
  PROVE  /\ Append(s, p) \in Seq(F!Point) /\ Len(s) \in Nat /\ Len(Append(s, p)) = Len(s) + 1
         /\ \A i \in 1..Len(s) : Append(s, p)[i] = s[i] /\ s[i] \in F!Point /\ s[i].rate \in Int
         /\ Append(s, p)[Len(s) + 1] = p
<1>1. \A i \in 1..Len(s) : s[i] \in F!Point
  OBVIOUS
<1>2. \A q \in F!Point : q.rate \in Int
  BY LossSettings DEF F!Point
<1>3. QED  BY <1>1, <1>2

\* A trial adds its point; every rate is tried again at most once.
LEMMA CurveMeasured ==
  ASSUME CurveInv, NEW out \in F!Outcomes, F!Measure(out)
  PROVE  /\ points' \in Seq(F!Point) /\ [rate |-> rate, outcome |-> out] \in F!Point
         /\ curve = "none" /\ rate \in 1..Ceiling
         /\ Len(points) \in Nat /\ Len(points') = Len(points) + 1
         /\ points'[Len(points) + 1].rate = rate /\ points'[Len(points) + 1].outcome = out
         /\ \A i \in 1..Len(points) : points'[i] = points[i] /\ points[i].rate \in Int
         /\ \A i \in 2..Len(points') : points'[i].rate = points'[i - 1].rate
                                         <=> points'[i - 1].outcome = "invalid"
         /\ \A i \in 3..Len(points') : points'[i].rate # points'[i - 2].rate
<1>1. /\ rate > 0 /\ curve = "none" /\ points' = Append(points, [rate |-> rate, outcome |-> out])
  BY DEF F!Measure
<1>2. rate \in -LossStep..Ceiling /\ points \in Seq(F!Point) /\ lossRetrying \in BOOLEAN
  BY DEF CurveInv, F!TypeOK
<1>3. rate \in 1..Ceiling
  BY <1>1, <1>2, LossSettings
<1>4. [rate |-> rate, outcome |-> out] \in F!Point
  BY <1>3 DEF F!Point
<1> DEFINE n == Len(points)
<1>5. /\ points' \in Seq(F!Point) /\ n \in Nat /\ Len(points') = n + 1
      /\ \A i \in 1..n : points'[i] = points[i] /\ points[i].rate \in Int
      /\ points'[n + 1].rate = rate /\ points'[n + 1].outcome = out
  BY <1>1, <1>2, <1>4, Appended
<1>6. /\ \A i \in 1..n : points[i].rate > rate \/ (lossRetrying /\ i = n)
      /\ lossRetrying => /\ n > 0 /\ points[n].rate = rate
                         /\ points[n].outcome = "invalid"
      /\ ~lossRetrying /\ n > 0 => points[n].outcome # "invalid"
      /\ \A i \in 2..n : points[i].rate = points[i - 1].rate <=> points[i - 1].outcome = "invalid"
      /\ \A i \in 3..n : points[i].rate # points[i - 2].rate
  BY <1>1 DEF CurveInv, Repeated, F!RetriesMatch
<1> HIDE DEF n
<1>7. ASSUME NEW i \in 2..n + 1
      PROVE  points'[i].rate = points'[i - 1].rate <=> points'[i - 1].outcome = "invalid"
  <2>1. CASE i \in 2..n
    <3>1. i \in 1..n /\ i - 1 \in 1..n
      BY <1>5, <2>1
    <3>2. QED  BY <1>5, <1>6, <2>1, <3>1
  <2>2. CASE i = n + 1
    <3>1. n \in 1..n /\ i - 1 = n
      BY <1>5, <2>2
    <3>2. points[n].outcome = "invalid" <=> lossRetrying
      BY <1>6, <3>1, <1>5
    <3>3. points[n].rate = rate <=> lossRetrying
      BY <1>3, <1>5, <1>6, <3>1
    <3>4. QED  BY <1>5, <2>2, <3>1, <3>2, <3>3
  <2>3. QED  BY <1>5, <2>1, <2>2
<1>8. ASSUME NEW i \in 3..n + 1
      PROVE  points'[i].rate # points'[i - 2].rate
  <2>1. CASE i \in 3..n
    <3>1. i \in 1..n /\ i - 2 \in 1..n
      BY <1>5, <2>1
    <3>2. QED  BY <1>5, <1>6, <2>1, <3>1
  <2>2. CASE i = n + 1
    <3>1. n - 1 \in 1..n /\ i - 2 = n - 1 /\ n - 1 # n
      BY <1>5, <2>2
    <3>2. points[n - 1].rate > rate
      BY <1>6, <3>1
    <3>3. QED  BY <1>3, <1>5, <2>2, <3>1, <3>2
  <2>3. QED  BY <1>5, <2>1, <2>2
<1>9. QED  BY <1>1, <1>3, <1>4, <1>5, <1>7, <1>8 DEF n

\* An invalid trial is repeated, or the measurement is given up.
LEMMA CurveUnusable ==
  ASSUME CurveInv, NEW out \in F!Outcomes, F!Retry(out) \/ F!GiveUp(out)
  PROVE  CurveInv'
<1>1. /\ F!Measure(out) /\ out = "invalid" /\ dut' = dut /\ rate' = rate /\ zeroRun' = zeroRun /\ drawn' = drawn
      /\ \/ ~lossRetrying /\ lossRetrying' = TRUE /\ curve' = curve
         \/ lossRetrying /\ lossRetrying' = lossRetrying /\ curve' = "invalid"
  BY DEF F!Retry, F!GiveUp, F!Unusable
<1> DEFINE n == Len(points)
<1>2. /\ points' \in Seq(F!Point) /\ curve = "none" /\ rate \in 1..Ceiling
      /\ n \in Nat /\ Len(points') = n + 1
      /\ points'[n + 1].rate = rate /\ points'[n + 1].outcome = "invalid"
      /\ \A i \in 1..n : points'[i] = points[i] /\ points[i].rate \in Int
      /\ \A i \in 2..Len(points') : points'[i].rate = points'[i - 1].rate
                                      <=> points'[i - 1].outcome = "invalid"
      /\ \A i \in 3..Len(points') : points'[i].rate # points'[i - 2].rate
  BY <1>1, CurveMeasured
<1>3. /\ \A i \in 1..n : points[i].rate > rate \/ (lossRetrying /\ i = n)
      /\ lossRetrying => n > 0 /\ points[n].rate = rate
  BY <1>2 DEF CurveInv, Repeated
<1> HIDE DEF n
<1>4. F!TypeOK'
  <2>1. curve' \in {"none", "invalid", "stopped", "through"}
    BY <1>1, <1>2
  <2>2. lossRetrying' \in BOOLEAN
    BY <1>1 DEF CurveInv, F!TypeOK
  <2>3. QED  BY <1>1, <1>2, <2>1, <2>2 DEF CurveInv, F!TypeOK, F!Point, F!Outcomes, F!Devices
<1>5. curve' \in {"none", "invalid"}
  BY <1>1, <1>2
<1>6. Falling'
  BY <1>1, <1>2, <1>5 DEF CurveInv, Falling
<1>7. Counted'
  BY <1>1, <1>2, <1>5 DEF CurveInv, Counted, Quiet
<1>8. Repeated'
  <2>1. curve' = "none" => \A i \in 1..n + 1 : points'[i].rate > rate \/ (lossRetrying' /\ i = n + 1)
    BY <1>1, <1>2, <1>3
  <2>2. curve' = "invalid" => Len(points') > 1 /\ points'[n + 1].rate = points'[n + 1 - 1].rate
    <3>1. CASE lossRetrying
      <4>1. n > 0 /\ n \in 1..n /\ n + 1 - 1 = n /\ points[n].rate = rate
        BY <1>2, <1>3, <3>1
      <4>2. QED  BY <1>2, <4>1
    <3>2. CASE ~lossRetrying
      BY <1>1, <1>2, <3>2
    <3>3. QED  BY <3>1, <3>2
  <2>3. F!RetriesMatch'
    BY <1>2, <2>2 DEF F!RetriesMatch
  <2>4. curve' = "none" => lossRetrying' /\ Len(points') > 0 /\ points'[Len(points')].rate = rate
                           /\ points'[Len(points')].outcome = "invalid"
    BY <1>1, <1>2
  <2>5. QED  BY <1>1, <1>2, <2>1, <2>3, <2>4 DEF Repeated
<1>9. QED  BY <1>4, <1>6, <1>7, <1>8 DEF CurveInv

\* A valid trial gives the curve its point, and the next rate, or the end.
LEMMA CurveUsed ==
  ASSUME CurveInv, NEW out \in F!Outcomes, F!Use(out)
  PROVE  CurveInv'
<1> DEFINE n == Len(points)
           m == Len(drawn)
           last == [rate |-> rate, outcome |-> out]
<1>1. /\ F!Measure(out) /\ out \in {"zero", "loss"} /\ dut' = dut
      /\ drawn' = Append(drawn, last)
      /\ zeroRun' = IF out = "loss" THEN 0 ELSE zeroRun + 1
      /\ IF zeroRun' >= ZeroLossRuns
         THEN curve' = "stopped" /\ rate' = rate /\ lossRetrying' = lossRetrying
         ELSE rate' = F!Below /\ lossRetrying' = FALSE /\ curve' = curve
  BY DEF F!Use, F!Unusable, F!RunAfter, F!Outcomes
<1>2. /\ points' \in Seq(F!Point) /\ last \in F!Point /\ curve = "none" /\ rate \in 1..Ceiling
      /\ n \in Nat /\ Len(points') = n + 1
      /\ points'[n + 1].rate = rate /\ points'[n + 1].outcome = out
      /\ \A i \in 1..n : points'[i] = points[i] /\ points[i].rate \in Int
      /\ \A i \in 2..Len(points') : points'[i].rate = points'[i - 1].rate
                                      <=> points'[i - 1].outcome = "invalid"
      /\ \A i \in 3..Len(points') : points'[i].rate # points'[i - 2].rate
  BY <1>1, CurveMeasured
<1>3. /\ Ceiling \in Nat \ {0} /\ LossStep \in Nat \ {0} /\ ZeroLossRuns \in Nat \ {0}
      /\ zeroRun \in 0..ZeroLossRuns /\ zeroRun < ZeroLossRuns
  <2>1. zeroRun < ZeroLossRuns
    BY <1>2 DEF CurveInv, Counted
  <2>2. zeroRun \in 0..ZeroLossRuns
    BY DEF CurveInv, F!TypeOK
  <2>3. QED  BY <2>1, <2>2, LossSettings
<1>4. /\ drawn' \in Seq(F!Point) /\ m \in Nat /\ Len(drawn') = m + 1
      /\ \A i \in 1..m : drawn'[i] = drawn[i] /\ drawn[i] \in F!Point /\ drawn[i].rate \in Int
      /\ drawn'[m + 1] = last
  <2>1. drawn \in Seq(F!Point)
    BY DEF CurveInv, F!TypeOK
  <2>2. QED  BY <1>1, <1>2, <2>1, Appended
<1>5. last.rate = rate /\ last.outcome = out
  OBVIOUS
<1>6. m = 0 <=> drawn = <<>>
  BY DEF CurveInv, F!TypeOK
<1>7. F!Below \in -LossStep..Ceiling /\ F!Below < rate /\ 2 * (rate - F!Below) <= 3 * LossStep
  BY <1>2, BelowIsLower DEF CurveInv
<1>8. /\ zeroRun <= m
      /\ \A k \in 0..zeroRun - 1 : drawn[m - k].outcome = "zero"
      /\ zeroRun < m => drawn[m - zeroRun].outcome = "loss"
      /\ \A i \in ZeroLossRuns..m : ~Quiet(i)
  BY <1>2 DEF CurveInv, Counted
<1> HIDE DEF n, m, last
<1>9. F!TypeOK'
  <2>1. zeroRun' \in 0..ZeroLossRuns
    BY <1>1, <1>3
  <2>2. rate' \in -LossStep..Ceiling
    <3>1. rate \in -LossStep..Ceiling
      BY <1>2, <1>3
    <3>2. rate' = rate \/ rate' = F!Below
      BY <1>1
    <3>3. QED  BY <1>7, <3>1, <3>2
  <2>3. curve' \in {"none", "stopped"}
    BY <1>1, <1>2
  <2>4. lossRetrying' \in BOOLEAN
    <3>1. lossRetrying \in BOOLEAN
      BY DEF CurveInv, F!TypeOK
    <3>2. lossRetrying' = lossRetrying \/ lossRetrying' = FALSE
      BY <1>1
    <3>3. QED  BY <3>1, <3>2
  <2>5. QED  BY <1>1, <1>2, <1>4, <2>1, <2>2, <2>3, <2>4 DEF CurveInv, F!TypeOK, F!Point, F!Outcomes, F!Devices
<1>10. drawn' # <<>>
  BY <1>4
<1>11. Falling'
  <2>1. /\ \A i \in 1..m : drawn[i].outcome # "invalid"
        /\ m = 0 => rate = Ceiling
        /\ m # 0 => drawn[1].rate = Ceiling
        /\ \A i \in 1..m - 1 : /\ drawn[i].rate > drawn[i + 1].rate
                               /\ 2 * (drawn[i].rate - drawn[i + 1].rate) <= 3 * LossStep
        /\ m # 0 => drawn[m].rate > rate /\ 2 * (drawn[m].rate - rate) <= 3 * LossStep
    BY <1>2, <1>6 DEF CurveInv, Falling, m
  <2>2. \A i \in 1..m + 1 : drawn'[i].outcome # "invalid"
    BY <1>1, <1>4, <1>5, <2>1
  <2>3. drawn'[1].rate = Ceiling
    BY <1>4, <1>5, <2>1
  <2>4. ASSUME NEW i \in 1..m
        PROVE  drawn'[i].rate > drawn'[i + 1].rate /\ 2 * (drawn'[i].rate - drawn'[i + 1].rate) <= 3 * LossStep
    <3>1. CASE i = m
      <4>1. drawn'[i] = drawn[m] /\ drawn'[i + 1] = last /\ m # 0
        BY <1>4, <3>1
      <4>2. QED  BY <1>5, <2>1, <4>1
    <3>2. CASE i # m
      <4>1. drawn'[i] = drawn[i] /\ drawn'[i + 1] = drawn[i + 1] /\ i \in 1..m - 1
        BY <1>4, <3>2
      <4>2. QED  BY <2>1, <4>1
    <3>3. QED  BY <3>1, <3>2
  <2>5. curve' # "stopped" => rate' = F!Below
    BY <1>1
  <2>6. curve' # "through"
    BY <1>1, <1>2
  <2>7. Len(drawn') - 1 = m
    BY <1>4
  <2>8. QED  BY <1>4, <1>5, <1>7, <1>10, <2>2, <2>3, <2>4, <2>5, <2>6, <2>7 DEF Falling
<1>12. Counted'
  <2>1. zeroRun' <= m + 1 /\ zeroRun' \in Nat
    BY <1>1, <1>3, <1>4, <1>8
  <2>2. ASSUME NEW k \in 0..zeroRun' - 1 PROVE drawn'[m + 1 - k].outcome = "zero"
    <3>1. out = "zero" /\ zeroRun' = zeroRun + 1
      BY <1>1, <2>2
    <3>2. CASE k = 0
      BY <1>4, <1>5, <3>1, <3>2
    <3>3. CASE k # 0
      <4>1. k - 1 \in 0..zeroRun - 1 /\ m + 1 - k = m - (k - 1) /\ m - (k - 1) \in 1..m
        BY <1>3, <1>4, <1>8, <3>1, <3>3
      <4>2. QED  BY <1>4, <1>8, <4>1
    <3>4. QED  BY <3>2, <3>3
  <2>3. ASSUME zeroRun' < m + 1 PROVE drawn'[m + 1 - zeroRun'].outcome = "loss"
    <3>1. CASE out = "loss"
      <4>1. zeroRun' = 0 /\ m + 1 - zeroRun' = m + 1
        BY <1>1, <1>4, <3>1
      <4>2. QED  BY <1>4, <1>5, <3>1, <4>1
    <3>2. CASE out = "zero"
      <4>1. zeroRun' = zeroRun + 1
        BY <1>1, <3>2
      <4>2. zeroRun < m /\ m + 1 - zeroRun' = m - zeroRun /\ m - zeroRun \in 1..m
        BY <1>3, <1>4, <2>3, <4>1
      <4>3. QED  BY <1>4, <1>8, <4>2
    <3>3. QED  BY <1>1, <3>1, <3>2
  <2>4. /\ curve' # "stopped" => zeroRun' < ZeroLossRuns
        /\ curve' = "stopped" <=> zeroRun' = ZeroLossRuns
    BY <1>1, <1>2, <1>3
  <2>5. ASSUME NEW i \in ZeroLossRuns..m + 1 PROVE Quiet(i)' <=> i = m + 1 /\ curve' = "stopped"
    <3>1. Quiet(i)' <=> \A k \in 0..ZeroLossRuns - 1 : drawn'[i - k].outcome = "zero"
      BY DEF Quiet
    <3>2. CASE i # m + 1
      <4>1. i \in ZeroLossRuns..m /\ \A k \in 0..ZeroLossRuns - 1 : i - k \in 1..m
        BY <1>3, <1>4, <3>2
      <4>2. \A k \in 0..ZeroLossRuns - 1 : drawn'[i - k] = drawn[i - k]
        BY <1>4, <4>1
      <4>3. Quiet(i)' <=> Quiet(i)
        BY <3>1, <4>2 DEF Quiet
      <4>4. QED  BY <1>8, <3>2, <4>1, <4>3
    <3>3. CASE i = m + 1 /\ zeroRun' = ZeroLossRuns
      <4>1. \A k \in 0..ZeroLossRuns - 1 : drawn'[m + 1 - k].outcome = "zero"
        BY <2>2, <3>3
      <4>2. Quiet(i)'
        BY <1>3, <1>4, <3>1, <3>3, <4>1
      <4>3. QED  BY <2>4, <3>3, <4>2
    <3>4. CASE i = m + 1 /\ zeroRun' # ZeroLossRuns
      <4>1. zeroRun' \in 0..ZeroLossRuns - 1 /\ zeroRun' < m + 1
        BY <1>3, <1>4, <2>1, <2>4, <3>4
      <4>2. drawn'[i - zeroRun'].outcome = "loss"
        <5>1. drawn'[m + 1 - zeroRun'].outcome = "loss"
          BY <2>3, <4>1
        <5>2. QED  BY <1>4, <3>4, <4>1, <5>1
      <4>3. ~Quiet(i)'
        BY <3>1, <4>1, <4>2
      <4>4. QED  BY <2>4, <3>4, <4>3
    <3>5. QED  BY <3>2, <3>3, <3>4
  <2>6. m + 1 > 0
    BY <1>4
  <2>7. Len(drawn') = m + 1
    BY <1>4
  <2>8. /\ zeroRun' <= Len(drawn')
        /\ \A k \in 0..zeroRun' - 1 : drawn'[Len(drawn') - k].outcome = "zero"
    <3>1. zeroRun' <= Len(drawn')
      BY <2>1, <2>7
    <3>2. \A k \in 0..zeroRun' - 1 : drawn'[Len(drawn') - k].outcome = "zero"
      <4>1. SUFFICES ASSUME NEW k \in 0..zeroRun' - 1 PROVE drawn'[Len(drawn') - k].outcome = "zero"
        OBVIOUS
      <4>2. drawn'[m + 1 - k].outcome = "zero"
        BY <2>2
      <4>3. Len(drawn') - k = m + 1 - k
        BY <1>4, <2>1, <2>7
      <4>4. QED  BY <4>2, <4>3
    <3>3. QED  BY <3>1, <3>2
  <2>9. zeroRun' < Len(drawn') => drawn'[Len(drawn') - zeroRun'].outcome = "loss"
    <3>1. SUFFICES ASSUME zeroRun' < Len(drawn') PROVE drawn'[Len(drawn') - zeroRun'].outcome = "loss"
      OBVIOUS
    <3>2. drawn'[m + 1 - zeroRun'].outcome = "loss"
      BY <2>3, <2>7, <3>1
    <3>3. Len(drawn') - zeroRun' = m + 1 - zeroRun'
      BY <1>4, <2>1, <2>7
    <3>4. QED  BY <3>2, <3>3
  <2>10. \A i \in ZeroLossRuns..Len(drawn') : Quiet(i)' <=> i = Len(drawn') /\ curve' = "stopped"
    BY <1>4, <2>5, <2>7
  <2>11. QED  BY <2>4, <2>6, <2>7, <2>8, <2>9, <2>10 DEF Counted
<1>13. Repeated'
  <2>1. curve' = "none" => rate' < rate /\ rate' \in Int /\ lossRetrying' = FALSE
    BY <1>1, <1>7
  <2>2. \A i \in 1..n : points[i].rate >= rate
    <3>1. /\ \A i \in 1..n : points[i].rate > rate \/ (lossRetrying /\ i = n)
          /\ lossRetrying => points[n].rate = rate
      BY <1>2 DEF CurveInv, Repeated, n
    <3>2. QED  BY <1>2, <3>1
  <2>3. curve' = "none" => \A i \in 1..n + 1 : points'[i].rate > rate'
    <3>1. SUFFICES ASSUME curve' = "none", NEW i \in 1..n + 1 PROVE points'[i].rate > rate'
      OBVIOUS
    <3>2. CASE i \in 1..n
      BY <1>2, <2>1, <2>2, <3>1, <3>2
    <3>3. CASE i = n + 1
      BY <1>2, <2>1, <3>1, <3>3
    <3>4. QED  BY <1>2, <3>2, <3>3
  <2>4. F!RetriesMatch'
    BY <1>1, <1>2 DEF F!RetriesMatch
  <2>5. QED  BY <1>1, <1>2, <2>1, <2>3, <2>4 DEF Repeated
<1>14. QED  BY <1>9, <1>11, <1>12, <1>13 DEF CurveInv

\* Every step of measure_frame_loss keeps the curve, the run without loss and the
\* retries.
LEMMA CurveNext ==
  ASSUME CurveInv, F!Next
  PROVE  CurveInv'
<1>1. CASE F!RanThrough
  <2>1. /\ curve = "none" /\ rate <= 0
        /\ curve' = "through" /\ dut' = dut /\ rate' = rate /\ lossRetrying' = lossRetrying
        /\ zeroRun' = zeroRun /\ points' = points /\ drawn' = drawn
    BY <1>1 DEF F!RanThrough
  <2>2. F!TypeOK'
    BY <2>1 DEF CurveInv, F!TypeOK, F!Point, F!Outcomes, F!Devices
  <2>3. drawn # <<>>
    BY <2>1, LossSettings DEF CurveInv, Falling
  <2>4. Falling' /\ Counted' /\ Repeated'
    BY <2>1, <2>3 DEF CurveInv, Falling, Counted, Quiet, Repeated, F!RetriesMatch
  <2>5. QED  BY <2>2, <2>4 DEF CurveInv
<1>2. QED  BY <1>1, CurveUnusable, CurveUsed DEF F!Next, F!Outcomes, F!Retry, F!GiveUp, F!Use

-----------------------------------------------------------------------------
(* The searches within the suite *)

\* At its beginning a search is right, whatever the device.
LEMMA FreshRates == ThroughputFresh /\ dut \in T!Devices => ThroughputInv
<1> SUFFICES ASSUME ThroughputFresh, dut \in T!Devices PROVE ThroughputInv
  OBVIOUS
<1>1. /\ phase = "ceiling" /\ low = 0 /\ high = Ceiling /\ candidate = Ceiling
      /\ sample = 1 /\ retrying = FALSE /\ observed = "none"
      /\ left = Confirmations /\ result = Pending /\ probes = 0
      /\ zeros = {} /\ losses = {} /\ quiet = 0 /\ seen = {}
  BY DEF ThroughputFresh
<1>2. /\ Ceiling \in Nat \ {0} /\ Samples \in Nat \ {0} /\ Confirmations \in Nat \ {0} /\ Pending \notin Int
  BY RateSettings
<1>3. T!TypeOK
  <2>1. /\ low \in T!Rates /\ high \in T!Rates /\ candidate \in T!Rates /\ probes \in 0..T!ProbeCap
        /\ sample \in 1..Samples + 1 /\ left \in 1..Confirmations /\ quiet \in 0..Confirmations
    BY <1>1, <1>2 DEF T!Rates, T!ProbeCap
  <2>2. QED  BY <1>1, <2>1 DEF T!TypeOK
<1>4. Observing /\ Bisecting /\ Confirming
  BY <1>1 DEF Observing, Bisecting, Confirming
<1>5. Reported
  BY <1>1, <1>2 DEF Reported
<1>6. RatesOfCapacity
  BY <1>1 DEF RatesOfCapacity, T!Accurate
<1>7. QED  BY <1>3, <1>4, <1>5, <1>6 DEF ThroughputInv

\* The same of the burst search.
LEMMA FreshBursts == BurstsFresh /\ dut \in B!Devices => BurstInv
<1> SUFFICES ASSUME BurstsFresh, dut \in B!Devices PROVE BurstInv
  OBVIOUS
<1>1. /\ repetition = 1 /\ burstPhase = "upper" /\ burstLow = 0 /\ burstHigh = MaxBurst
      /\ longest = <<>> /\ burstsValid = TRUE /\ crossed = B!Nothing /\ lost = {}
  BY DEF BurstsFresh
<1>2. /\ MaxBurst \in Nat \ {0} /\ BurstStep \in Nat \ {0} /\ Repetitions \in Nat \ {0}
  BY BurstSettings
<1>3. dut # Erratic => dut \in Nat
  BY RatesAssumption DEF B!Devices
<1>4. B!TypeOK
  <2>1. burstLow \in B!Bursts /\ burstHigh \in B!Bursts /\ repetition \in 1..Repetitions + 1
    BY <1>1, <1>2 DEF B!Bursts
  <2>2. crossed \in [B!Bursts -> 0..2] /\ longest \in Seq(B!Bursts)
    BY <1>1 DEF B!Nothing
  <2>3. QED  BY <1>1, <2>1, <2>2 DEF B!TypeOK
<1>5. BurstBounds
  BY <1>1, <1>2 DEF BurstBounds, B!Bracketed
<1>6. BurstsCounted
  BY <1>1, <1>2 DEF BurstsCounted
<1>7. BurstsOfBuffer
  BY <1>1, <1>3 DEF BurstsOfBuffer
<1>8. QED  BY <1>4, <1>5, <1>6, <1>7 DEF BurstInv

\* The same of the loss curve.
LEMMA FreshCurve == CurveFresh /\ dut \in F!Devices => CurveInv
<1> SUFFICES ASSUME CurveFresh, dut \in F!Devices PROVE CurveInv
  OBVIOUS
<1>1. /\ rate = Ceiling /\ lossRetrying = FALSE /\ zeroRun = 0
      /\ points = <<>> /\ drawn = <<>> /\ curve = "none"
  BY DEF CurveFresh
<1>2. rate \in -LossStep..Ceiling /\ zeroRun \in 0..ZeroLossRuns /\ zeroRun < ZeroLossRuns
      /\ ZeroLossRuns > 0 /\ ZeroLossRuns \in Nat
  BY <1>1, LossSettings
<1>3. points \in Seq(F!Point) /\ drawn \in Seq(F!Point) /\ Len(points) = 0 /\ Len(drawn) = 0
  BY <1>1
<1>4. lossRetrying \in BOOLEAN
  BY <1>1
<1>5. F!TypeOK
  BY <1>1, <1>2, <1>3, <1>4 DEF F!TypeOK
<1>6. Falling /\ Counted
  BY <1>1, <1>2, <1>3 DEF Falling, Counted
<1>7. Repeated
  BY <1>1, <1>3 DEF Repeated, F!RetriesMatch
<1>8. QED  BY <1>5, <1>6, <1>7 DEF CurveInv

\* So it is when the next frame size begins.
LEMMA FreshAgain ==
  /\ (CurveFresh /\ dut \in F!Devices => CurveInv)'
  /\ (ThroughputFresh /\ dut \in T!Devices => ThroughputInv)'
  /\ (BurstsFresh /\ dut \in B!Devices => BurstInv)'
BY FreshRates, FreshBursts, FreshCurve, PTL

\* The searches leave the device alone.
LEMMA SameDevice ==
  ASSUME T!Next \/ F!Next \/ B!Next
  PROVE  dut' = dut
<1>1. CASE T!Next
  BY <1>1 DEF T!Next, T!Trial, T!NoValidTrial, T!CeilingHolds, T!CeilingLoses, T!Probe, T!SearchEnds,
              T!SearchHolds, T!SearchLoses, T!ConfirmHolds, T!ConfirmLoses
<1>2. CASE F!Next
  BY <1>2 DEF F!Next, F!Retry, F!GiveUp, F!Use, F!RanThrough
<1>3. CASE B!Next
  BY <1>3 DEF B!Next, B!UpperLoses, B!UpperFails, B!SearchHolds, B!SearchLoses, B!SearchFails, B!SearchEnds,
              B!Verify, B!Takes, B!Rejects
<1>4. QED  BY <1>1, <1>2, <1>3

\* What does not concern a search leaves it right, also for another device if it is
\* at its beginning.
LEMMA SearchesStay ==
  ASSUME SearchInv
  PROVE  /\ UNCHANGED <<throughput, dut>> => ThroughputInv'
         /\ UNCHANGED throughput /\ ThroughputFresh => ThroughputFresh'
         /\ UNCHANGED <<frameLoss, dut>> => CurveInv'
         /\ UNCHANGED <<backToBack, dut>> => BurstInv'
         /\ UNCHANGED backToBack /\ BurstsFresh => BurstsFresh'
         /\ UNCHANGED frameLoss /\ dut' \in F!Devices => CurveInv'
<1>1. UNCHANGED <<throughput, dut>> => ThroughputInv'
  BY DEF SearchInv, throughput, ThroughputInv, T!TypeOK, T!Rates, T!Devices, T!ProbeCap, Observing, Bisecting,
         Confirming, TightAt, Reported, RatesOfCapacity, T!Accurate
<1>2. UNCHANGED throughput /\ ThroughputFresh => ThroughputFresh'
  BY DEF throughput, ThroughputFresh
<1>3. UNCHANGED frameLoss /\ dut' \in F!Devices => CurveInv'
  BY DEF SearchInv, frameLoss, CurveInv, F!TypeOK, F!Devices, F!Point, F!Outcomes, Falling, Counted, Quiet,
         Repeated, F!RetriesMatch
<1>4. UNCHANGED <<frameLoss, dut>> => CurveInv'
  BY <1>3 DEF SearchInv, CurveInv, F!TypeOK
<1>5. UNCHANGED <<backToBack, dut>> => BurstInv'
  BY DEF SearchInv, backToBack, BurstInv, B!TypeOK, B!Bursts, B!Devices, BurstBounds, B!Bracketed,
         BurstsCounted, BurstsOfBuffer, InRange
<1>6. UNCHANGED backToBack /\ BurstsFresh => BurstsFresh'
  BY DEF backToBack, BurstsFresh, B!Nothing, B!Bursts
<1>7. QED  BY <1>1, <1>2, <1>3, <1>4, <1>5, <1>6

\* A suite begins with all its searches at their beginning.
LEMMA SearchInit == Init => SearchInv
<1> SUFFICES ASSUME Init PROVE SearchInv
  OBVIOUS
<1>1. T!Init /\ F!Init /\ B!Init
  BY DEF Init
<1>2. ThroughputFresh /\ dut \in T!Devices
  BY <1>1 DEF T!Init, ThroughputFresh
<1>3. BurstsFresh /\ dut \in B!Devices
  BY <1>1 DEF B!Init, BurstsFresh
<1>4. CurveFresh /\ dut \in F!Devices
  BY <1>1 DEF F!Init, CurveFresh
<1>5. QED  BY <1>2, <1>3, <1>4, FreshRates, FreshBursts, FreshCurve DEF SearchInv

\* Every step of a suite keeps its searches right: the one under way by its own steps,
\* the others because they are at their beginning whatever the next device is.
LEMMA SearchNext == SearchInv /\ [Next]_vars => SearchInv'
<1> SUFFICES ASSUME SearchInv, [Next]_vars PROVE SearchInv'
  OBVIOUS
<1>1. /\ ThroughputInv /\ CurveInv /\ BurstInv
      /\ UnderWay("throughput") \/ ThroughputFresh
      /\ (UnderWay("back-to-back") /\ rates[frame] \in {"zero", "some"}) \/ BurstsFresh
  BY DEF SearchInv
<1>2. dut \in T!Devices /\ T!Devices = B!Devices /\ T!Devices = F!Devices
  BY DEF SearchInv, ThroughputInv, T!TypeOK, T!Devices, B!Devices, F!Devices
<1>3. CASE SearchThroughput
  <2>1. /\ UnderWay("throughput") /\ T!Next /\ UNCHANGED <<suite, frameLoss, backToBack>>
    BY <1>3 DEF SearchThroughput, Runs, UnderWay
  <2>2. ThroughputInv' /\ dut' = dut
    BY <1>1, <2>1, RatesNext, SameDevice
  <2>3. CurveInv' /\ BurstInv'
    BY <2>1, <2>2, SearchesStay
  <2>4. UnderWay("throughput")'
    BY <2>1 DEF UnderWay, suite, loop, outcome
  <2>5. BurstsFresh'
    BY <1>1, <2>1, SearchesStay DEF UnderWay
  <2>6. QED  BY <2>2, <2>3, <2>4, <2>5 DEF SearchInv
<1>4. CASE DrawCurve
  <2>1. /\ UnderWay("frame-loss") /\ F!Next /\ UNCHANGED <<suite, throughput, backToBack>>
    BY <1>4 DEF DrawCurve, Runs, UnderWay
  <2>2. CurveInv' /\ dut' = dut
    BY <1>1, <2>1, CurveNext, SameDevice
  <2>3. ThroughputInv' /\ BurstInv'
    BY <2>1, <2>2, SearchesStay
  <2>4. ThroughputFresh' /\ BurstsFresh'
    BY <1>1, <2>1, SearchesStay DEF UnderWay
  <2>5. QED  BY <2>2, <2>3, <2>4 DEF SearchInv
<1>5. CASE SearchBursts
  <2>1. /\ UnderWay("back-to-back") /\ rates[frame] \in {"zero", "some"}
        /\ B!Next /\ UNCHANGED <<suite, throughput, frameLoss>>
    BY <1>5 DEF SearchBursts, Runs, UnderWay
  <2>2. BurstInv' /\ dut' = dut
    BY <1>1, <2>1, BurstsNext, SameDevice
  <2>3. ThroughputInv' /\ CurveInv'
    BY <2>1, <2>2, SearchesStay
  <2>4. (UnderWay("back-to-back") /\ rates[frame] \in {"zero", "some"})'
    BY <2>1 DEF UnderWay, suite, loop, outcome
  <2>5. ThroughputFresh'
    BY <1>1, <2>1, SearchesStay DEF UnderWay
  <2>6. QED  BY <2>2, <2>3, <2>4, <2>5 DEF SearchInv
<1>6. CASE ThroughputFound
  <2>1. UnderWay("throughput") /\ T!CalledAgain /\ UNCHANGED <<frameLoss, backToBack>>
    BY <1>6 DEF ThroughputFound, Runs, UnderWay
  <2>2. ThroughputFresh' /\ dut' \in T!Devices /\ T!Devices' = T!Devices
    BY <2>1 DEF T!CalledAgain, ThroughputFresh, T!Devices
  <2>3. BurstsFresh' /\ CurveInv'
    BY <1>1, <1>2, <2>1, <2>2, SearchesStay DEF UnderWay
  <2>4. ThroughputInv' /\ BurstInv'
    BY <1>2, <2>2, <2>3, FreshAgain DEF B!Devices, T!Devices
  <2>5. QED  BY <2>2, <2>3, <2>4 DEF SearchInv
<1>7. CASE CurveDrawn
  <2>1. UnderWay("frame-loss") /\ F!CalledAgain /\ UNCHANGED <<throughput, backToBack>>
    BY <1>7 DEF CurveDrawn, Runs, UnderWay
  <2>2. CurveFresh' /\ dut' \in F!Devices
    BY <2>1 DEF F!CalledAgain, CurveFresh
  <2>3. ThroughputFresh' /\ BurstsFresh'
    BY <1>1, <2>1, SearchesStay DEF UnderWay
  <2>4. ThroughputInv' /\ BurstInv'
    BY <1>2, <2>2, <2>3, FreshAgain DEF B!Devices, T!Devices
  <2>5. CurveInv'
    BY <2>2, FreshAgain DEF F!Devices
  <2>6. QED  BY <2>3, <2>4, <2>5 DEF SearchInv
<1>8. ASSUME NEW covers \in BOOLEAN, BurstsFound(covers) PROVE SearchInv'
  <2>1. UnderWay("back-to-back") /\ B!CalledAgain /\ UNCHANGED <<throughput, frameLoss>>
    BY <1>8 DEF BurstsFound, Runs, UnderWay
  <2>2. BurstsFresh' /\ dut' \in B!Devices
    BY <2>1 DEF B!CalledAgain, BurstsFresh, B!Nothing, B!Bursts
  <2>3. ThroughputFresh' /\ CurveInv'
    BY <1>1, <1>2, <2>1, <2>2, SearchesStay DEF UnderWay
  <2>4. ThroughputInv' /\ BurstInv'
    BY <1>2, <2>2, <2>3, FreshAgain DEF B!Devices, T!Devices
  <2>5. QED  BY <2>2, <2>3, <2>4 DEF SearchInv
<1>9. ASSUME UNCHANGED searches, ~UnderWay("throughput"),
             ~(UnderWay("back-to-back") /\ rates[frame] \in {"zero", "some"})
      PROVE  SearchInv'
  <2>1. UNCHANGED <<throughput, dut>> /\ UNCHANGED <<frameLoss, dut>> /\ UNCHANGED <<backToBack, dut>>
        /\ UNCHANGED throughput /\ UNCHANGED backToBack
    BY <1>9 DEF searches
  <2>2. ThroughputFresh' /\ BurstsFresh'
    BY <1>1, <1>9, <2>1, SearchesStay
  <2>3. QED  BY <2>1, <2>2, SearchesStay DEF SearchInv
<1>10. CASE LatencyUnavailable \/ LatencySkips \/ LatencyRaises \/ \E valid \in BOOLEAN : LatencyMeasured(valid)
  BY <1>9, <1>10 DEF LatencyUnavailable, LatencySkips, LatencyRaises, LatencyMeasured, Runs, UnderWay
<1>11. CASE BurstsSkipped \/ BurstsNotApplicable
  BY <1>9, <1>11 DEF BurstsSkipped, BurstsNotApplicable, Runs, UnderWay
<1>12. CASE Ended \/ UNCHANGED vars
  <2>1. UNCHANGED vars
    BY <1>12 DEF Ended
  <2>2. UNCHANGED suite /\ UNCHANGED <<throughput, dut>> /\ UNCHANGED <<frameLoss, dut>>
        /\ UNCHANGED <<backToBack, dut>> /\ UNCHANGED throughput /\ UNCHANGED backToBack
    BY <2>1 DEF vars, searches
  <2>3. UnderWay("throughput")' = UnderWay("throughput") /\ UnderWay("back-to-back")' = UnderWay("back-to-back")
        /\ rates' = rates /\ frame' = frame
    BY <2>2 DEF UnderWay, suite, loop, outcome
  <2>4. QED  BY <1>1, <2>2, <2>3, SearchesStay DEF SearchInv
<1>13. QED
  BY <1>3, <1>4, <1>5, <1>6, <1>7, <1>8, <1>10, <1>11, <1>12 DEF Next

\* Every search that is under way is right, and the others are at their beginning.
THEOREM SearchCorrect == Spec => []SearchInv
BY SearchInit, SearchNext, PTL DEF Spec

\* The suite keeps its types (the loops of _run_rfc2544_suite_sync and their searches).
THEOREM TypeCorrect == Spec => []TypeOK
<1>1. LoopInv /\ SearchInv => TypeOK
  BY DEF LoopInv, LoopTyped, SearchInv, ThroughputInv, CurveInv, BurstInv, TypeOK, Frames, RateNames
<1>2. QED  BY <1>1, LoopCorrect, SearchCorrect, PTL

\* A throughput is reported after all its own confirmations, frames were lost just
\* above it, and it is the capacity of a device that behaves (search_frame).
THEOREM ThroughputCorrect == Spec => []ThroughputSound
<1>1. ThroughputInv => ThroughputSound
  <2>1. SUFFICES ASSUME ThroughputInv PROVE ThroughputSound
    OBVIOUS
  <2>2. T!Confirmed
    BY <2>1, RateFacts DEF ThroughputInv, Reported, T!Confirmed
  <2>3. T!Tight
    BY <2>1, RateFacts DEF ThroughputInv, Reported, TightAt, T!Tight
  <2>4. T!Accurate
    BY <2>1, RateFacts DEF ThroughputInv, RatesOfCapacity, T!Accurate
  <2>5. QED  BY <2>2, <2>3, <2>4 DEF ThroughputSound
<1>2. QED  BY <1>1, SearchCorrect, PTL DEF SearchInv

\* A loss curve leaves out no rate, stops at the first rates in a row without loss,
\* and repeats the invalid trials only (measure_frame_loss).
THEOREM CurveCorrect == Spec => []CurveSound
<1>1. CurveInv => CurveSound
  <2>1. SUFFICES ASSUME CurveInv PROVE CurveSound
    OBVIOUS
  <2>2. F!CurveComplete
    <3>1. SUFFICES ASSUME F!Valid PROVE F!CurveComplete
      BY DEF F!CurveComplete
    <3>2. /\ drawn # <<>> /\ drawn[1].rate = Ceiling
          /\ \A i \in 1..Len(drawn) - 1 : /\ drawn[i].rate > drawn[i + 1].rate
                                          /\ 2 * (drawn[i].rate - drawn[i + 1].rate) <= 3 * LossStep
          /\ curve = "through" => /\ rate <= 0
                                  /\ 2 * (drawn[Len(drawn)].rate - rate) <= 3 * LossStep
      BY <2>1, <3>1 DEF CurveInv, Falling, F!Valid
    <3>3. /\ drawn \in Seq(F!Point) /\ Len(drawn) \in Nat /\ rate \in Int /\ LossStep \in Nat
          /\ \A i \in 1..Len(drawn) : drawn[i] \in F!Point
      BY <2>1, LossSettings DEF CurveInv, F!TypeOK
    <3>4. \A i \in 1..Len(drawn) : drawn[i].rate \in Int
      BY <3>3, LossSettings DEF F!Point
    <3>5. \A i \in 1..Len(drawn) - 1 : drawn[i].rate - drawn[i + 1].rate > 0
      <4>1. \A i \in 1..Len(drawn) - 1 : i \in 1..Len(drawn) /\ i + 1 \in 1..Len(drawn)
        BY <3>3
      <4>2. QED  BY <3>2, <3>4, <4>1
    <3>6. curve = "through" => 2 * drawn[Len(drawn)].rate <= 3 * LossStep
      <4>1. Len(drawn) \in 1..Len(drawn)
        BY <3>2, <3>3
      <4>2. QED  BY <3>2, <3>3, <3>4, <4>1
    <3>7. QED  BY <3>2, <3>5, <3>6 DEF F!CurveComplete
  <2>3. F!StopsInTime
    BY <2>1 DEF CurveInv, Counted, Quiet, F!StopsInTime
  <2>4. QED  BY <2>1, <2>2, <2>3 DEF CurveInv, Repeated, CurveSound
<1>2. QED  BY <1>1, SearchCorrect, PTL DEF SearchInv

\* The burst search keeps its bounds apart and right, finds the buffer of a device
\* that behaves, and averages all repetitions or none (measure_back_to_back).
THEOREM BurstsCorrect == Spec => []BurstsSound
<1>1. BurstInv => BurstsSound
  <2>1. SUFFICES ASSUME BurstInv PROVE BurstsSound
    OBVIOUS
  <2>2. /\ MaxBurst \in Nat \ {0} /\ BurstStep \in Nat \ {0} /\ Repetitions \in Nat \ {0}
        /\ Len(longest) \in Nat /\ repetition \in Nat /\ burstsValid \in BOOLEAN
    BY <2>1, BurstSettings DEF BurstInv, B!TypeOK
  <2>3. burstPhase = "done" => (burstsValid <=> Len(longest) = Repetitions)
    BY <2>1, <2>2 DEF BurstInv, BurstsCounted
  <2>4. ASSUME dut # Erratic, burstPhase = "done" PROVE B!Complete <=> InRange
    <3>1. ~InRange => Len(longest) = 0
      BY <2>1, <2>4 DEF BurstInv, BurstsOfBuffer
    <3>2. InRange => burstsValid
      BY <2>1, <2>4 DEF BurstInv, BurstsOfBuffer
    <3>3. QED  BY <2>2, <2>3, <2>4, <3>1, <3>2 DEF B!Complete
  <2>5. B!Accurate
    BY <2>1, <2>4 DEF BurstInv, BurstsOfBuffer, B!Accurate, InRange
  <2>6. QED  BY <2>1, <2>3, <2>5 DEF BurstInv, BurstBounds, BurstsSound, B!AllOrNothing
<1>2. QED  BY <1>1, SearchCorrect, PTL DEF SearchInv

\* Both bisections end between a value that was crossed without loss and one that
\* lost frames, and the burst that is taken was verified (search_frame,
\* measure_back_to_back).
THEOREM BisectionsCorrect == Spec => BisectionsEndRight
<1>1. SearchInv /\ [Next]_vars
        => [phase = "bisect" /\ phase' # "search"
              => /\ candidate' \in zeros \cup {0}
                 /\ \E h \in losses \ zeros : candidate' < h /\ h <= candidate' + Resolution]_T!vars
  <2>1. SUFFICES ASSUME SearchInv, [Next]_vars, phase = "bisect", phase' # "search", ~UNCHANGED T!vars
                 PROVE  /\ candidate' \in zeros \cup {0}
                        /\ \E h \in losses \ zeros : candidate' < h /\ h <= candidate' + Resolution
    OBVIOUS
  <2>2. ThroughputInv /\ UnderWay("throughput")
    BY <2>1 DEF SearchInv, ThroughputFresh
  <2>3. ~UNCHANGED vars
    BY <2>1 DEF vars, searches, throughput, T!vars, T!bounds, T!observing, T!evidence
  <2>4. SearchThroughput
    BY <2>1, <2>2, <2>3
       DEF Next, UnderWay, ThroughputFound, Runs, LatencyUnavailable, LatencySkips, LatencyRaises,
           LatencyMeasured, DrawCurve, CurveDrawn, BurstsSkipped, BurstsNotApplicable, SearchBursts,
           BurstsFound, Ended
  <2>5. T!Next
    BY <2>4 DEF SearchThroughput
  <2>6. T!SearchEnds
    BY <2>1, <2>5 DEF T!Next, T!Trial, T!NoValidTrial, T!Observes, T!CeilingHolds, T!CeilingLoses, T!Probe,
                      T!SearchHolds, T!SearchLoses, T!ConfirmHolds, T!ConfirmLoses
  <2>7. QED  BY <2>2, <2>6, BisectionEnds
<1>2. SearchInv /\ [Next]_vars
        => [Len(longest') > Len(longest)
              => /\ longest' = Append(longest, burstLow)
                 /\ crossed[burstLow] = 2
                 /\ burstHigh \in lost /\ burstHigh - burstLow <= BurstStep]_B!vars
  <2>1. SUFFICES ASSUME SearchInv, [Next]_vars, Len(longest') > Len(longest)
                 PROVE  /\ longest' = Append(longest, burstLow)
                        /\ crossed[burstLow] = 2
                        /\ burstHigh \in lost /\ burstHigh - burstLow <= BurstStep
    OBVIOUS
  <2>2. BurstInv /\ Len(longest) \in Nat
    BY <2>1 DEF SearchInv, BurstInv, B!TypeOK
  <2>3. longest' # longest /\ longest' # <<>>
    BY <2>1, <2>2
  <2>4. B!Next
    BY <2>1, <2>3 DEF Next, vars, searches, backToBack, SearchThroughput, ThroughputFound, LatencyUnavailable,
                      LatencySkips, LatencyRaises, LatencyMeasured, DrawCurve, CurveDrawn, BurstsSkipped,
                      BurstsNotApplicable, SearchBursts, BurstsFound, B!CalledAgain, Ended
  <2>5. B!Takes
    BY <2>3, <2>4 DEF B!Next, B!UpperLoses, B!UpperFails, B!Fails, B!SearchHolds, B!SearchLoses, B!SearchFails,
                      B!SearchEnds, B!Verify, B!Rejects
  <2>6. burstPhase = "verified" /\ longest' = Append(longest, burstLow)
    BY <2>5 DEF B!Takes
  <2>7. QED  BY <2>2, <2>6 DEF BurstInv, BurstBounds, B!Bracketed
<1>3. QED  BY <1>1, <1>2, SearchCorrect, PTL DEF Spec, BisectionsEndRight, T!BestFound, B!TakenIsVerified
=============================================================================
