---------------------------- MODULE HeatmapStream ----------------------------
(***************************************************************************)
(* One viewer's MJPEG stream: the generator of heatmap_stream in           *)
(* views/pages.py and, for the frames whose masks it asks a Host for, the  *)
(* retries of RemoteClientHelper.                                          *)
(*                                                                         *)
(* A step is what happens between two points where the generator may be    *)
(* left waiting: for the capture, for the Host, for the end of a pause, or *)
(* suspended at a yield, which is where it learns that the viewer has      *)
(* gone.  The Host, the video and the viewer are not part of the program:  *)
(* the Host may answer, with masks or with something else, or fail.        *)
(***************************************************************************)
EXTENDS Naturals

CONSTANTS
    Lengths,       \* numbers of frames the video may have; 0: it opens, and
                   \* no frame can be read
    Modes,         \* of {"remote", "local"}, those the stream may be asked for
    MaxRetries,    \* MAX_RETRIES
    NoFrame

ASSUME StreamAssumption ==
    /\ Lengths \subseteq Nat
    /\ Modes \subseteq {"remote", "local"}
    /\ MaxRetries \in Nat \ {0}
    /\ NoFrame \notin Nat

VARIABLES
    mode, length,    \* the request's sam3_mode and the video
    seekable,        \* whether the source can be set back; a live one cannot
    pc, capture,     \* where the generator is; its VideoCapture
    position,        \* the next frame of the capture
    odd,             \* frame_count % skip_frames # 0
    frame, masks,    \* its locals: the frame in hand, the frame "masks" are of;
                     \* a frame is known by its place in the video
    attempt,         \* "attempt" of _make_request
    viewer,          \* whether somebody still watches
    shown            \* the frame shown last and the frame the masks on it are of

vars == <<mode, length, seekable, pc, capture, position, odd, frame, masks, attempt, viewer, shown>>

AtYield == {"pass", "draw", "last"}

StreamTypeOK ==
    /\ mode \in Modes
    /\ length \in Lengths
    /\ seekable \in BOOLEAN
    /\ pc \in {"new", "setup", "read", "send", "wait", "pause", "done"} \cup AtYield
    /\ capture \in {"none", "open", "released"}
    /\ position \in 0..length
    /\ odd \in BOOLEAN
    /\ frame \in Nat \cup {NoFrame}
    /\ frame # NoFrame => frame < length
    /\ masks \in Nat \cup {NoFrame}
    /\ attempt \in 0..(MaxRetries - 1)
    /\ viewer \in {"watching", "gone"}
    /\ shown \in [frame : Nat \cup {NoFrame}, masks : Nat \cup {NoFrame}]

StreamInit ==
    /\ mode \in Modes
    /\ length \in Lengths
    /\ seekable \in BOOLEAN
    /\ pc = "new"
    /\ capture = "none"
    /\ position = 0
    /\ odd = FALSE
    /\ frame = NoFrame
    /\ masks = NoFrame
    /\ attempt = 0
    /\ viewer = "watching"
    /\ shown = [frame |-> NoFrame, masks |-> NoFrame]

request == <<mode, length, seekable>>
local == <<frame, masks>>

-----------------------------------------------------------------------------
(* The way in and the ways out *)

\* OpenCV is missing, no source is configured, or the source does not open:
\* one frame says so.
NothingToShow ==
    /\ pc = "new"
    /\ pc' = "last"
    /\ UNCHANGED <<request, capture, position, odd, local, attempt, viewer, shown>>

Open ==
    /\ pc = "new"
    /\ capture' = "open"
    /\ pc' = "setup"
    /\ UNCHANGED <<request, position, odd, local, attempt, viewer, shown>>

SetupRemote ==
    /\ pc = "setup"
    /\ mode = "remote"
    /\ pc' = "read"
    /\ UNCHANGED <<request, capture, position, odd, local, attempt, viewer, shown>>

\* sam3_weights_path is assigned in generate(), which makes it a local there:
\* reading it first raises UnboundLocalError, and the stream ends.
SetupLocal ==
    /\ pc = "setup"
    /\ mode = "local"
    /\ pc' = "last"
    /\ UNCHANGED <<request, capture, position, odd, local, attempt, viewer, shown>>

\* The capture or the encoder raises: one frame with the error is the last.
Raises ==
    /\ pc = "read"
    /\ pc' = "last"
    /\ UNCHANGED <<request, capture, position, odd, local, attempt, viewer, shown>>

\* "finally"
Ends ==
    /\ pc' = "done"
    /\ capture' = IF capture = "open" THEN "released" ELSE capture
    /\ UNCHANGED <<request, position, odd, local, attempt>>

YieldLast ==
    /\ pc = "last"
    /\ Ends
    /\ shown' = [frame |-> NoFrame, masks |-> NoFrame]
    /\ UNCHANGED viewer

\* Mutant of Closed: the release stands behind the loop, not in a "finally".
ClosedUnreleased ==
    /\ pc \in AtYield
    /\ viewer = "gone"
    /\ pc' = "done"
    /\ UNCHANGED <<request, capture, position, odd, local, attempt, viewer, shown>>

\* Mutant of Closed: the loop catches what a yield raises, and reads on.
ClosedGoesOn ==
    /\ pc \in AtYield
    /\ viewer = "gone"
    /\ pc' = "read"
    /\ UNCHANGED <<request, capture, position, odd, local, attempt, viewer, shown>>

\* The server could not write and closes the generator: GeneratorExit, which
\* no handler catches.
Closed ==
    /\ pc \in AtYield
    /\ viewer = "gone"
    /\ Ends
    /\ UNCHANGED <<viewer, shown>>

-----------------------------------------------------------------------------
(* The loop *)

\* frame_count is raised before the masks are asked for.
ReadToInfer ==
    /\ pc = "read"
    /\ position < length /\ ~odd
    /\ frame' = position
    /\ position' = position + 1
    /\ odd' = TRUE
    /\ attempt' = 0
    /\ pc' = "send"
    /\ UNCHANGED <<request, capture, masks, viewer, shown>>

ReadToPass ==
    /\ pc = "read"
    /\ position < length /\ odd
    /\ frame' = position
    /\ position' = position + 1
    /\ pc' = "pass"
    /\ UNCHANGED <<request, capture, odd, masks, attempt, viewer, shown>>

\* The video is over, or none of it can be read: again from its beginning.
\* Nobody looks at whether the source could be set back.
Rewind ==
    /\ pc = "read"
    /\ position = length
    /\ position' = IF seekable THEN 0 ELSE position
    /\ UNCHANGED <<request, pc, capture, odd, local, attempt, viewer, shown>>

\* A frame in between goes out as it is; frame_count is raised after.
YieldPassed ==
    /\ pc = "pass"
    /\ shown' = [frame |-> frame, masks |-> NoFrame]
    /\ odd' = FALSE
    /\ pc' = "read"
    /\ UNCHANGED <<request, capture, position, local, attempt, viewer>>

\* Masks that cannot be drawn are left out.
YieldDrawn ==
    /\ pc = "draw"
    /\ \E m \in {masks, NoFrame} : shown' = [frame |-> frame, masks |-> m]
    /\ pc' = "read"
    /\ UNCHANGED <<request, capture, position, odd, local, attempt, viewer>>

-----------------------------------------------------------------------------
(* RemoteClientHelper: evaluate_sam3 and _make_request *)

Send ==
    /\ pc = "send"
    /\ pc' = "wait"
    /\ UNCHANGED <<request, capture, position, odd, local, attempt, viewer, shown>>

HostAnswers ==
    /\ pc = "wait"
    /\ masks' = frame
    /\ pc' = "draw"
    /\ UNCHANGED <<request, capture, position, odd, frame, attempt, viewer, shown>>

\* Mutant of WithoutMasks: the failure is only logged.
WithOldMasks ==
    /\ pc' = "draw"
    /\ UNCHANGED <<request, capture, position, odd, local, attempt, viewer, shown>>

\* What the generator does with whatever evaluate_sam3 raises.
WithoutMasks ==
    /\ masks' = NoFrame
    /\ pc' = "draw"
    /\ UNCHANGED <<request, capture, position, odd, frame, attempt, viewer, shown>>

\* There is no OpenCV to encode the frame, or it does not: nothing is sent.
NotEncoded ==
    /\ pc = "send"
    /\ attempt = 0
    /\ WithoutMasks

\* An answer that is not JSON, or not an object, or has no masks, is not asked
\* for again.
HostAnswersNonsense ==
    /\ pc = "wait"
    /\ WithoutMasks

\* Mutant of RequestFails: the last attempt is followed by another one.
RequestFailsOnceMore ==
    /\ pc = "wait"
    /\ attempt' = attempt + 1
    /\ pc' = "pause"
    /\ UNCHANGED <<request, capture, position, odd, local, viewer, shown>>

\* Mutant of RequestFails: the attempt is not counted.
RequestFailsUncounted ==
    /\ pc = "wait"
    /\ attempt < MaxRetries - 1
    /\ pc' = "pause"
    /\ UNCHANGED <<request, capture, position, odd, local, attempt, viewer, shown>>

\* Refused, timed out, or an HTTP error.
RequestFails ==
    /\ pc = "wait"
    /\ attempt < MaxRetries - 1
    /\ attempt' = attempt + 1
    /\ pc' = "pause"
    /\ UNCHANGED <<request, capture, position, odd, local, viewer, shown>>

LastRequestFails ==
    /\ pc = "wait"
    /\ attempt = MaxRetries - 1
    /\ WithoutMasks

\* time.sleep(1), time.sleep(2)
Retry ==
    /\ pc = "pause"
    /\ pc' = "send"
    /\ UNCHANGED <<request, capture, position, odd, local, attempt, viewer, shown>>

-----------------------------------------------------------------------------
Leave ==
    /\ viewer = "watching"
    /\ viewer' = "gone"
    /\ UNCHANGED <<request, pc, capture, position, odd, local, attempt, shown>>

Step ==
    \/ NothingToShow \/ Open \/ SetupRemote \/ SetupLocal \/ Raises \/ YieldLast
    \/ ReadToInfer \/ ReadToPass \/ Rewind \/ YieldPassed \/ YieldDrawn
    \/ Send \/ NotEncoded \/ HostAnswers \/ HostAnswersNonsense
    \/ RequestFails \/ LastRequestFails \/ Retry

StreamNext == Step \/ Closed \/ Leave

StreamSpec == StreamInit /\ [][StreamNext]_vars

\* The generator runs while it is asked for chunks (no exception need come to
\* its help), a request is answered or times out, and writing to a viewer who
\* has gone fails in the end.
FairStreamSpec == StreamSpec /\ WF_vars(Step /\ ~Raises) /\ SF_vars(Closed)

-----------------------------------------------------------------------------
(* Properties *)

\* The masks drawn on a frame are those the Host found in this very frame,
\* whatever became of the requests for the frames before it.
OverlayIsOfItsFrame == shown.masks \in {NoFrame, shown.frame}

\* Whichever way the stream ends from its setup on, its capture is not left
\* open.
EndReleasesCapture == pc = "done" => capture # "open"

\* A source with frames that can be set back to its beginning
Readable == length > 0 /\ seekable

\* A video that can be read goes on being shown, frame after frame, however
\* often the Host fails or answers nonsense, until the stream has ended.
StreamGoesOn == Readable => []<>(pc \in AtYield \/ pc = "done")

\* A viewer who leaves is noticed, and the stream of a readable video ends: its
\* capture and its worker are not held for ever.
LeavingEndsStream == (viewer = "gone" /\ Readable) ~> (pc = "done")
=============================================================================
