---------------------------- MODULE Rfc2544Suite ----------------------------
(***************************************************************************)
(* _run_rfc2544_suite_sync (trex_adapter.py): the tests of a strict suite, one *)
(* after the other, each over all frame sizes.  Latency and back-to-back start *)
(* from the throughput that was found.  What the tests return is turned into a *)
(* verdict and assessed for publication.                                      *)
(***************************************************************************)
EXTENDS Rfc2544Settings, Sequences

CONSTANTS FrameSizes,   \* how many there are
          Suites,       \* the lists of tests that documents ask for
          Minimum,      \* minimum_percent_line_rate of every frame size, or NoAssertion
          NoAssertion,
          LineRate      \* 100 percent

Required == <<"throughput", "latency", "frame-loss", "back-to-back">>
TestNames == {Required[i] : i \in 1..Len(Required)}

\* assertion_targets_throughput: the suites that a document may ask for
Before(tests, later) ==
  \A j \in 1..Len(tests) : tests[j] = later => \E i \in 1..j - 1 : tests[i] = "throughput"

ASSUME SuitesAssumption ==
  /\ Suites \subseteq Seq(TestNames)
  /\ \A tests \in Suites : /\ tests # <<>>
                           /\ \A i, j \in 1..Len(tests) : tests[i] = tests[j] => i = j
                           /\ Before(tests, "latency") /\ Before(tests, "back-to-back")
ASSUME RangeAssumption == /\ FrameSizes \in Nat \ {0}
                          /\ LineRate \in Nat /\ Ceiling <= LineRate
                          /\ NoAssertion \notin Int
                          /\ Minimum \in 0..LineRate \cup {NoAssertion}

VARIABLES tests,       \* of this suite
          at, frame,   \* the test and the frame size under way
          frames,      \* the frame sizes the test has results of
          allValid,    \* all_valid, so far
          unmet,       \* a throughput was below its threshold
          rates,       \* of each frame size: "unknown", "none", "zero", "some", "line"
          verdicts,    \* of each test, "none" before its end
          gaps,        \* tests without all the evidence a publication asks for
          short,       \* history: tests without a valid result of some frame size
          ended        \* "no", "returned", "raised"

loop == <<at, frame, frames, allValid, unmet>>
outcome == <<rates, verdicts, gaps, short, ended>>
suite == <<tests, loop, outcome>>

VARIABLE dut  \* the device under test, as the search that is under way finds it

VARIABLES phase, low, high, candidate, sample, retrying, observed, left, result,
          probes, zeros, losses, quiet, seen
throughput == <<phase, low, high, candidate, sample, retrying, observed, left, result,
                probes, zeros, losses, quiet, seen>>
T == INSTANCE ThroughputSearch

VARIABLES rate, lossRetrying, zeroRun, points, drawn, curve
frameLoss == <<rate, lossRetrying, zeroRun, points, drawn, curve>>
F == INSTANCE FrameLossCurve

VARIABLES repetition, burstPhase, burstLow, burstHigh, longest, burstsValid, crossed, lost
backToBack == <<repetition, burstPhase, burstLow, burstHigh, longest, burstsValid,
                crossed, lost>>
B == INSTANCE BackToBackSearch

searches == <<dut, throughput, frameLoss, backToBack>>
vars == <<suite, searches>>

Verdicts == {"INVALID", "FAIL", "PASS", "NO_ASSERTION"}

TypeOK == /\ tests \in Suites
          /\ at \in 1..Len(tests) /\ frame \in 1..FrameSizes
          /\ frames \subseteq 1..FrameSizes
          /\ allValid \in BOOLEAN /\ unmet \in BOOLEAN
          /\ rates \in [1..FrameSizes -> {"unknown", "none", "zero", "some", "line"}]
          /\ verdicts \in [TestNames -> Verdicts \cup {"none"}]
          /\ gaps \subseteq TestNames /\ short \subseteq TestNames
          /\ ended \in {"no", "returned", "raised"}
          /\ T!TypeOK /\ F!TypeOK /\ B!TypeOK

Init == /\ tests \in Suites
        /\ at = 1 /\ frame = 1 /\ frames = {} /\ allValid = TRUE /\ unmet = FALSE
        /\ rates = [f \in 1..FrameSizes |-> "unknown"]
        /\ verdicts = [t \in TestNames |-> "none"]
        /\ gaps = {} /\ short = {} /\ ended = "no"
        /\ T!Init /\ F!Init /\ B!Init

-----------------------------------------------------------------------------
(* The loop over frame sizes *)

Runs(test) == ended = "no" /\ tests[at] = test

\* The test has returned with this verdict.
Returns(verdict) ==
  /\ verdicts' = [verdicts EXCEPT ![tests[at]] = verdict]
  /\ frame' = 1 /\ frames' = {} /\ allValid' = TRUE /\ unmet' = FALSE
  /\ IF at = Len(tests) THEN ended' = "returned" /\ UNCHANGED at
                        ELSE at' = at + 1 /\ UNCHANGED ended

\* A frame size has a result, or none; verdict is that of the last frame size.
FrameDone(present, valid, missed, evidence, verdict) ==
  /\ short' = IF present /\ valid THEN short ELSE short \cup {tests[at]}
  /\ gaps' = IF present /\ evidence THEN gaps ELSE gaps \cup {tests[at]}
  /\ IF frame = FrameSizes
     THEN Returns(verdict)
     ELSE /\ frame' = frame + 1
          /\ frames' = IF present THEN frames \cup {frame} ELSE frames
          /\ allValid' = (allValid /\ valid)
          /\ unmet' = (unmet \/ missed)
          /\ UNCHANGED <<at, verdicts, ended>>
  /\ UNCHANGED tests

Plain(valid) == IF valid THEN "NO_ASSERTION" ELSE "INVALID"

-----------------------------------------------------------------------------
(* throughput *)

SearchThroughput == /\ Runs("throughput") /\ T!Next
                    /\ UNCHANGED <<suite, frameLoss, backToBack>>

RateOf(r) == IF r = Invalid THEN "none" ELSE IF r = 0 THEN "zero"
             ELSE IF r >= LineRate THEN "line" ELSE "some"

ThroughputVerdict(valid, missed) ==
  IF ~valid THEN "INVALID"
  ELSE IF Minimum = NoAssertion THEN "NO_ASSERTION"
  ELSE IF missed THEN "FAIL" ELSE "PASS"

ThroughputFound ==
  /\ Runs("throughput") /\ phase = "done"
  /\ LET valid == result # Invalid
         missed == Minimum # NoAssertion /\ (~valid \/ result < Minimum)
     IN FrameDone(TRUE, valid, missed, T!Publishable /\ Ceiling = LineRate,
                  ThroughputVerdict(allValid /\ valid, unmet \/ missed))
  /\ rates' = [rates EXCEPT ![frame] = RateOf(result)]
  /\ T!CalledAgain
  /\ UNCHANGED <<frameLoss, backToBack>>

-----------------------------------------------------------------------------
(* latency, at the rate of the throughput *)

\* calibration_valid is decided once, at the beginning
LatencyUnavailable ==
  /\ Runs("latency") /\ frame = 1
  /\ short' = short \cup {"latency"} /\ gaps' = gaps \cup {"latency"}
  /\ Returns("INVALID")
  /\ UNCHANGED <<tests, rates, searches>>

LatencySkips ==
  /\ Runs("latency") /\ rates[frame] = "none"
  /\ FrameDone(FALSE, FALSE, FALSE, FALSE, "INVALID")
  /\ UNCHANGED <<rates, searches>>

\* mutant: samples of trials that were not valid are evidence, too
LatencyMeasuredAnyhow(valid) ==
  /\ Runs("latency") /\ rates[frame] # "none"
  /\ valid => rates[frame] # "zero"
  /\ FrameDone(TRUE, valid, FALSE, TRUE, Plain(allValid /\ valid))
  /\ UNCHANGED <<rates, searches>>

\* measure_latency, all its trials; a frame size without a correction, or without
\* a packet for one of the scenarios, is not measured
LatencyMeasured(valid) ==
  /\ Runs("latency") /\ rates[frame] # "none"
  /\ valid => rates[frame] # "zero"
  /\ FrameDone(TRUE, valid, FALSE, valid, Plain(allValid /\ valid))
  /\ UNCHANGED <<rates, searches>>

\* A trial at a rate of 0 is no valid document (models.py, Rate).
LatencyRaises ==
  /\ Runs("latency") /\ rates[frame] = "zero"
  /\ ended' = "raised"
  /\ UNCHANGED <<tests, loop, rates, verdicts, gaps, short, searches>>

-----------------------------------------------------------------------------
(* frame-loss *)

DrawCurve == /\ Runs("frame-loss") /\ F!Next
             /\ UNCHANGED <<suite, throughput, backToBack>>

\* mutant: the last frame size decides
CurveDrawnLast ==
  /\ Runs("frame-loss") /\ curve # "none"
  /\ FrameDone(TRUE, F!Valid, FALSE, F!Publishable /\ Ceiling = LineRate, Plain(F!Valid))
  /\ F!CalledAgain
  /\ UNCHANGED <<rates, throughput, backToBack>>

CurveDrawn ==
  /\ Runs("frame-loss") /\ curve # "none"
  /\ FrameDone(TRUE, F!Valid, FALSE, F!Publishable /\ Ceiling = LineRate,
               Plain(allValid /\ F!Valid))
  /\ F!CalledAgain
  /\ UNCHANGED <<rates, throughput, backToBack>>

-----------------------------------------------------------------------------
(* back-to-back, below the theoretical rate *)

\* all_valid: there are results, and all of them are valid
BurstVerdict(present, valid) ==
  Plain((frames # {} \/ present) /\ allValid /\ valid)

\* the frame size is passed over: it does not make the test invalid
BurstsSkipped ==
  /\ Runs("back-to-back") /\ rates[frame] = "none"
  /\ FrameDone(FALSE, TRUE, FALSE, FALSE, BurstVerdict(FALSE, TRUE))
  /\ UNCHANGED <<rates, searches>>

BurstsNotApplicable ==
  /\ Runs("back-to-back") /\ rates[frame] = "line"
  /\ FrameDone(TRUE, TRUE, FALSE, TRUE, BurstVerdict(TRUE, TRUE))
  /\ UNCHANGED <<rates, searches>>

SearchBursts == /\ Runs("back-to-back") /\ rates[frame] \in {"zero", "some"}
                /\ B!Next
                /\ UNCHANGED <<suite, throughput, frameLoss>>

\* The bursts may be long enough to cover the range, maximumBurstSeconds.
BurstsFound(covers) ==
  /\ Runs("back-to-back") /\ burstPhase = "done"
  /\ FrameDone(TRUE, B!Complete, FALSE, B!Complete /\ covers, BurstVerdict(TRUE, B!Complete))
  /\ B!CalledAgain
  /\ UNCHANGED <<rates, throughput, frameLoss>>

\* the result is saved, or the Job fails
Ended == ended # "no" /\ UNCHANGED vars

Next == \/ SearchThroughput \/ ThroughputFound
        \/ LatencyUnavailable \/ LatencySkips \/ LatencyRaises
        \/ \E valid \in BOOLEAN : LatencyMeasured(valid)
        \/ DrawCurve \/ CurveDrawn
        \/ BurstsSkipped \/ BurstsNotApplicable \/ SearchBursts
        \/ \E covers \in BOOLEAN : BurstsFound(covers)
        \/ Ended

\* The suite runs in one thread, and a trial has a duration.
Spec == Init /\ [][Next]_vars /\ WF_vars(Next)

-----------------------------------------------------------------------------
(* The verdict of the suite and its assessment *)

Returned(verdict) == \E t \in TestNames : verdicts[t] = verdict

Verdict == IF Returned("INVALID") THEN "INVALID" ELSE IF Returned("FAIL") THEN "FAIL"
           ELSE IF Returned("PASS") THEN "PASS" ELSE "NO_ASSERTION"

\* assess_rfc2544_publication, with a context and an environment
Complete == ended = "returned" /\ tests = Required /\ gaps = {}

-----------------------------------------------------------------------------
(* Properties of the searches, in every test of every suite *)

\* A throughput is reported after all its own confirmations, frames were lost just
\* above it, and it is the capacity of a device that behaves (search_frame).
ThroughputSound == T!Confirmed /\ T!Tight /\ T!Accurate

\* A loss curve leaves out no rate, stops at the first rates in a row without loss,
\* and repeats the invalid trials only (measure_frame_loss).
CurveSound == F!CurveComplete /\ F!StopsInTime /\ F!RetriesMatch

\* The burst search keeps its bounds apart and right, finds the buffer of a device
\* that behaves, and averages all repetitions or none (measure_back_to_back).
BurstsSound == B!Bracketed /\ B!Accurate /\ B!AllOrNothing

\* Both bisections end between a value that was crossed without loss and one that
\* lost frames, and the burst that is taken was verified (search_frame,
\* measure_back_to_back).
BisectionsEndRight == T!BestFound /\ B!TakenIsVerified

-----------------------------------------------------------------------------
(* Properties of the suite *)

\* A verdict other than INVALID rests on a valid result of every frame size in
\* every test: also where back-to-back passes a frame size over without a word
\* (_run_back_to_back_sync, continue).
NothingLeftOut == ended = "returned" /\ Verdict # "INVALID" => short = {}

\* What may be published is complete and has a verdict (publication.py: fail-closed
\* assessment of the evidence bundle).
FailsClosed == Complete => Verdict # "INVALID" /\ short = {}

\* A throughput of 0, which a device may have (design.md: every rate loses frames),
\* does not end the suite without a result.
ZeroIsReported == ended = "raised" => \A f \in 1..FrameSizes : rates[f] # "zero"

\* Every suite ends, on any device, and its throughput searches take no more trials
\* than a bisection needs (search_frame, while high - low > resolution).
Ends == [](T!Logarithmic) /\ <>(ended # "no")
=============================================================================
