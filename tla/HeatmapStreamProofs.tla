------------------------- MODULE HeatmapStreamProofs -------------------------
(***************************************************************************)
(* Proofs about HeatmapStream, for videos of any length and any number of  *)
(* attempts.                                                               *)
(***************************************************************************)
EXTENDS HeatmapStream, TLAPS

\* Masks that are about to be drawn are those of the frame in hand.
DrawInv == pc = "draw" => masks \in {NoFrame, frame}

SInv == StreamTypeOK /\ DrawInv /\ OverlayIsOfItsFrame /\ EndReleasesCapture

LEMMA StreamInitInv ==
  ASSUME StreamInit
  PROVE  SInv
<1>1. length \in Nat /\ position \in 0..length /\ attempt \in 0..(MaxRetries - 1)
  BY StreamAssumption DEF StreamInit
<1>2. odd \in BOOLEAN /\ seekable \in BOOLEAN
  BY Zenon DEF StreamInit
<1>3. shown \in [frame : Nat \cup {NoFrame}, masks : Nat \cup {NoFrame}]
  BY DEF StreamInit
<1>4. StreamTypeOK
  BY <1>1, <1>2, <1>3 DEF StreamInit, StreamTypeOK
<1> QED
  BY <1>4 DEF StreamInit, SInv, DrawInv, OverlayIsOfItsFrame, EndReleasesCapture

LEMMA StreamStepInv ==
  ASSUME SInv, StreamNext
  PROVE  SInv'
<1> USE StreamAssumption DEF SInv, StreamTypeOK, AtYield, DrawInv, OverlayIsOfItsFrame,
        EndReleasesCapture, request, local
<1>1. CASE NothingToShow \/ Open \/ SetupRemote \/ SetupLocal \/ Raises
  BY <1>1 DEF NothingToShow, Open, SetupRemote, SetupLocal, Raises
<1>2. CASE YieldLast
  BY <1>2 DEF YieldLast, Ends
<1>3. CASE ReadToInfer
  BY <1>3 DEF ReadToInfer
<1>4. CASE ReadToPass
  BY <1>4 DEF ReadToPass
<1>5. CASE Rewind
  BY <1>5 DEF Rewind
<1>6. CASE YieldPassed
  BY <1>6 DEF YieldPassed
<1>7. CASE YieldDrawn
  BY <1>7 DEF YieldDrawn
<1>8. CASE Send \/ Retry
  BY <1>8 DEF Send, Retry
<1>9. CASE HostAnswers
  BY <1>9 DEF HostAnswers
<1>10. CASE NotEncoded \/ HostAnswersNonsense \/ LastRequestFails
  BY <1>10 DEF NotEncoded, HostAnswersNonsense, LastRequestFails, WithoutMasks
<1>11. CASE RequestFails
  BY <1>11 DEF RequestFails
<1>12. CASE Closed
  BY <1>12 DEF Closed, Ends
<1>13. CASE Leave
  BY <1>13 DEF Leave
<1> QED
  BY <1>1, <1>2, <1>3, <1>4, <1>5, <1>6, <1>7, <1>8, <1>9, <1>10, <1>11, <1>12, <1>13
  DEF StreamNext, Step

LEMMA StreamStutterInv ==
  ASSUME SInv, UNCHANGED vars
  PROVE  SInv'
  BY DEF SInv, StreamTypeOK, AtYield, DrawInv, OverlayIsOfItsFrame, EndReleasesCapture, vars

-----------------------------------------------------------------------------
\* The inductive invariant: the types, the two invariants the run checks, and
\* whose masks a frame that is drawn on has.
THEOREM StreamInvariance == StreamSpec => []SInv
<1>1. SInv /\ [StreamNext]_vars => SInv'
  BY StreamStepInv, StreamStutterInv
<1> QED
  BY StreamInitInv, <1>1, PTL DEF StreamSpec

\* Type correctness, for videos of every length.
THEOREM StreamTypeCorrect == StreamSpec => []StreamTypeOK
  BY StreamInvariance, PTL DEF SInv

\* No frame is ever shown with the masks of another one.
THEOREM MasksBelong == StreamSpec => []OverlayIsOfItsFrame
  BY StreamInvariance, PTL DEF SInv

\* No way of ending a stream leaves its capture open.
THEOREM CaptureIsReleased == StreamSpec => []EndReleasesCapture
  BY StreamInvariance, PTL DEF SInv

-----------------------------------------------------------------------------
(* What StreamGoesOn rests on *)

\* A bound on the steps to the next yield: an attempt is at most three, the
\* pause before it included, and a rewind is followed by a frame.
ToYield ==
    LET left == 3 * (MaxRetries - 1 - attempt)
    IN  CASE pc = "new" -> 3 * MaxRetries + 4
          [] pc = "setup" -> 3 * MaxRetries + 3
          [] pc = "read" -> 3 * MaxRetries + (IF position = length THEN 2 ELSE 1)
          [] pc = "pause" -> left + 4
          [] pc = "send" -> left + 3
          [] pc = "wait" -> left + 2
          [] OTHER -> 0

\* Every step that the stream of a readable video takes between two yields
\* brings the next one closer, whatever the Host does; a viewer who leaves in
\* between does not put it off.
ComesCloserToYield ==
    [][Readable /\ pc \notin AtYield \cup {"done"} =>
        IF Step THEN ToYield' < ToYield ELSE ToYield' = ToYield]_vars

LEMMA ToYieldIsNat ==
  ASSUME StreamTypeOK
  PROVE  ToYield \in 0 .. 3 * MaxRetries + 4
  BY StreamAssumption DEF StreamTypeOK, ToYield

LEMMA StepComesCloser ==
  ASSUME SInv, Step, Readable, pc \notin AtYield \cup {"done"}
  PROVE  ToYield' < ToYield
<1>0. /\ length \in Nat /\ length > 0 /\ position \in 0..length
      /\ attempt \in 0..(MaxRetries - 1) /\ MaxRetries \in Nat \ {0}
  BY StreamAssumption DEF SInv, StreamTypeOK, Readable
<1> USE <1>0 DEF AtYield, ToYield, request
<1>1. CASE NothingToShow \/ Open \/ SetupRemote \/ SetupLocal \/ Raises
  BY <1>1 DEF NothingToShow, Open, SetupRemote, SetupLocal, Raises
<1>2. CASE ReadToInfer
  BY <1>2 DEF ReadToInfer
<1>3. CASE ReadToPass
  BY <1>3 DEF ReadToPass
<1>4. CASE Rewind
  BY <1>4 DEF Rewind, Readable
<1>5. CASE Send \/ Retry
  BY <1>5 DEF Send, Retry
<1>6. CASE HostAnswers \/ NotEncoded \/ HostAnswersNonsense \/ LastRequestFails
  BY <1>6 DEF HostAnswers, NotEncoded, HostAnswersNonsense, LastRequestFails, WithoutMasks
<1>7. CASE RequestFails
  BY <1>7 DEF RequestFails
<1>8. CASE YieldLast \/ YieldPassed \/ YieldDrawn
  BY <1>8 DEF YieldLast, YieldPassed, YieldDrawn
<1> QED
  BY <1>1, <1>2, <1>3, <1>4, <1>5, <1>6, <1>7, <1>8 DEF Step

\* Of a readable video there are at most 3 * MaxRetries + 4 steps to the next
\* yield, where a viewer who has gone can be noticed.
THEOREM YieldsAreClose == StreamSpec => ComesCloserToYield
<1>1. ASSUME SInv, StreamNext, Readable, pc \notin AtYield \cup {"done"}, ~Step
      PROVE  ToYield' = ToYield
  <2>1. Leave
    BY <1>1 DEF StreamNext, Closed
  <2> QED
    BY <2>1 DEF Leave, request, ToYield
<1>2. SInv /\ [StreamNext]_vars =>
        [Readable /\ pc \notin AtYield \cup {"done"} =>
            IF Step THEN ToYield' < ToYield ELSE ToYield' = ToYield]_vars
  BY <1>1, StepComesCloser
<1> QED
  BY <1>2, StreamInvariance, PTL DEF StreamSpec, ComesCloserToYield
=============================================================================
