----------------------------- MODULE Detection ------------------------------
(***************************************************************************)
(* The detection service (services/detection): consumers of the            *)
(* video.frames_extracted queue that run Grounding DINO on each frame,     *)
(* store the crops in MinIO and the rows in detection_results, publish     *)
(* video.detection_complete and mark the video DETECTED.                   *)
(*                                                                         *)
(* One video.  Frame keys are functions of the video and of the position,  *)
(* so that all events of the video name the same frames 1..FrameCount; a   *)
(* frame in Hits shows one object above the confidence threshold.  Every   *)
(* attempt draws new detection ids: a detection is named by the attempt    *)
(* and the frame.                                                          *)
(***************************************************************************)
EXTENDS Broker, VideoStatus

CONSTANTS
    FrameCount,   \* frames of the video
    Hits,         \* frames in which something is detected
    MaxEvents,    \* bound: how many frames_extracted events are ever published
    MaxAttempts,  \* bound: how many attempts pass the guard
    Faults        \* which failures happen

FaultKinds == {"transient", "permanent", "unexpected", "storage", "lost", "crash"}

ASSUME DetectionAssumption ==
    /\ FrameCount \in Nat
    /\ Hits \subseteq 1..FrameCount
    /\ MaxEvents \in Nat
    /\ MaxAttempts \in Nat
    /\ Faults \subseteq FaultKinds

VARIABLES
    status,     \* video_records.status
    rows,       \* detection_results of the video
    crops,      \* detections whose crop is in MinIO
    published,  \* video.detection_complete events that were published
    attempts,   \* attempts made so far
    pc,         \* pc[w]: where worker w is in process_frames
    attempt,    \* attempt[w]: the attempt worker w is making
    frame,      \* frame[w]: the frame it is at
    results,    \* results[w]: what it has detected so far
    failed      \* messages that marked the video FAILED (history)

outputVars == <<rows, crops, published>>
localVars == <<attempt, frame, results>>
vars == <<status, outputVars, attempts, pc, localVars, failed, brokerVars>>

FramesEvent == "FramesExtractedEvent"

Locations == {"idle", "guard", "mark", "clear", "frame", "crop", "rows",
              "publish", "finish", "reject", "ack"}

DetectionInit ==
    /\ BrokerInit
    /\ status = "PROCESSING"
    /\ rows = {}
    /\ crops = {}
    /\ published = {}
    /\ attempts = 0
    /\ pc = [w \in Consumers |-> "idle"]
    /\ attempt = [w \in Consumers |-> 0]
    /\ frame = [w \in Consumers |-> 0]
    /\ results = [w \in Consumers |-> {}]
    /\ failed = {}

Goto(w, l) == pc' = [pc EXCEPT ![w] = l]

\* The detection worker w is at, and whether its row names a crop.
Here(w) == [attempt |-> attempt[w], frame |-> frame[w]]
Detected(w, cropped) ==
    [attempt |-> attempt[w], frame |-> frame[w], cropped |-> cropped]

-----------------------------------------------------------------------------
(* The rest of the system                                                  *)

PublishEvent ==
    /\ Len(log) < MaxEvents
    /\ Publish(FramesEvent)
    /\ UNCHANGED <<status, outputVars, attempts, pc, localVars, failed>>

\* Preprocessing writes PREPROCESSED after its event is out, and PROCESSING
\* and FAILED when it works on the video again; embedding and indexing have
\* something to write once an event of detection is out.
OthersMark(s) ==
    /\ \/ s \in {"PROCESSING", "PREPROCESSED", "FAILED"}
       \/ s \in {"EMBEDDED", "INDEXED"} /\ published # {}
    /\ status' = s
    /\ UNCHANGED <<outputVars, attempts, pc, localVars, failed, brokerVars>>

-----------------------------------------------------------------------------
(* process_frames                                                          *)

Receive(w) ==
    /\ Deliver(w)
    /\ UNCHANGED <<status, outputVars, attempts, pc, localVars, failed>>

Start(w) ==
    /\ Take(w)
    /\ Goto(w, "guard")
    /\ UNCHANGED <<status, outputVars, attempts, localVars, failed>>

\* Fault: a video that is being processed counts as done, as in preprocessing.
AlreadyClaimed(w) ==
    /\ pc[w] = "guard"
    /\ status \in {"PROCESSING", "DETECTED", "INDEXED"}
    /\ Goto(w, "ack")
    /\ UNCHANGED <<status, outputVars, attempts, localVars, failed, brokerVars>>

AlreadyProcessed(w) ==
    /\ pc[w] = "guard"
    /\ status \in {"DETECTED", "INDEXED"}
    /\ Goto(w, "ack")
    /\ UNCHANGED <<status, outputVars, attempts, localVars, failed, brokerVars>>

NotProcessed(w) ==
    /\ pc[w] = "guard"
    /\ status \notin {"DETECTED", "INDEXED"}
    /\ Goto(w, "mark")
    /\ UNCHANGED <<status, outputVars, attempts, localVars, failed, brokerVars>>

MarkProcessing(w) ==
    /\ pc[w] = "mark"
    /\ status' = Marked(status, "PROCESSING")
    /\ Goto(w, "clear")
    /\ UNCHANGED <<outputVars, attempts, localVars, failed, brokerVars>>

Begin(w) ==
    /\ attempts < MaxAttempts
    /\ attempts' = attempts + 1
    /\ attempt' = [attempt EXCEPT ![w] = attempts + 1]
    /\ frame' = [frame EXCEPT ![w] = 1]
    /\ results' = [results EXCEPT ![w] = {}]
    /\ Goto(w, "frame")

\* Fault: rows of an earlier attempt stay.
ClearNothing(w) ==
    /\ pc[w] = "clear"
    /\ Begin(w)
    /\ UNCHANGED <<status, outputVars, failed, brokerVars>>

\* _clear_existing_results: every row of the video.  The crops stay.
ClearExisting(w) ==
    /\ pc[w] = "clear"
    /\ Begin(w)
    /\ rows' = {}
    /\ UNCHANGED <<status, crops, published, failed, brokerVars>>

NextFrame(w) ==
    /\ frame' = [frame EXCEPT ![w] = @ + 1]
    /\ Goto(w, "frame")

\* Fetch the frame and run the model; nothing to persist without a detection.
DetectNothing(w) ==
    /\ pc[w] = "frame"
    /\ frame[w] \in (1..FrameCount) \ Hits
    /\ NextFrame(w)
    /\ UNCHANGED <<status, outputVars, attempts, attempt, results, failed, brokerVars>>

Detect(w) ==
    /\ pc[w] = "frame"
    /\ frame[w] \in Hits
    /\ Goto(w, "crop")
    /\ UNCHANGED <<status, outputVars, attempts, localVars, failed, brokerVars>>

Keep(w, cropped) ==
    /\ results' = [results EXCEPT ![w] = @ \cup {Detected(w, cropped)}]
    /\ Goto(w, "rows")

UploadCrop(w) ==
    /\ pc[w] = "crop"
    /\ crops' = crops \cup {Here(w)}
    /\ Keep(w, TRUE)
    /\ UNCHANGED <<status, rows, published, attempts, attempt, frame, failed, brokerVars>>

\* Fault: the path is known before the upload, and kept when it fails.
CropForgotten(w) ==
    /\ "storage" \in Faults
    /\ pc[w] = "crop"
    /\ Keep(w, TRUE)
    /\ UNCHANGED <<status, outputVars, attempts, attempt, frame, failed, brokerVars>>

\* Logged and swallowed: the detection goes on without a crop.  The object may
\* have been stored by an upload that was reported as failed.
CropLost(w) ==
    /\ "storage" \in Faults
    /\ pc[w] = "crop"
    /\ crops' \in {crops, crops \cup {Here(w)}}
    /\ Keep(w, FALSE)
    /\ UNCHANGED <<status, rows, published, attempts, attempt, frame, failed, brokerVars>>

\* Fault: the rows are added to a session that nobody commits.
WriteNoRows(w) ==
    /\ pc[w] = "rows"
    /\ NextFrame(w)
    /\ UNCHANGED <<status, outputVars, attempts, attempt, results, failed, brokerVars>>

\* One transaction for the rows of a frame.
WriteRows(w) ==
    /\ pc[w] = "rows"
    /\ rows' = rows \cup {d \in results[w] : d.frame = frame[w]}
    /\ NextFrame(w)
    /\ UNCHANGED <<status, crops, published, attempts, attempt, results, failed, brokerVars>>

FramesDone(w) ==
    /\ pc[w] = "frame"
    /\ frame[w] = FrameCount + 1
    /\ Goto(w, "publish")
    /\ UNCHANGED <<status, outputVars, attempts, localVars, failed, brokerVars>>

PublishDetections(w) ==
    /\ pc[w] = "publish"
    /\ published' = published \cup {results[w]}
    /\ Goto(w, "finish")
    /\ UNCHANGED <<status, rows, crops, attempts, localVars, failed, brokerVars>>

MarkDetected(w) ==
    /\ pc[w] = "finish"
    /\ status' = Marked(status, "DETECTED")
    /\ Goto(w, "ack")
    /\ UNCHANGED <<outputVars, attempts, localVars, failed, brokerVars>>

\* _quarantine_and_fail; copying the first frame is best effort.
QuarantineAndFail(w) ==
    /\ pc[w] = "reject"
    /\ status' = Marked(status, "FAILED")
    /\ failed' = failed \cup {hand[w]}
    /\ Goto(w, "ack")
    /\ UNCHANGED <<outputVars, attempts, localVars, brokerVars>>

\* The handler is over: its local state is gone.
Return(w) ==
    /\ Goto(w, "idle")
    /\ attempt' = [attempt EXCEPT ![w] = 0]
    /\ frame' = [frame EXCEPT ![w] = 0]
    /\ results' = [results EXCEPT ![w] = {}]

AckFrames(w) ==
    /\ pc[w] = "ack"
    /\ Ack(w)
    /\ Return(w)
    /\ UNCHANGED <<status, outputVars, attempts, failed>>

-----------------------------------------------------------------------------
(* Failures                                                                *)

\* Fault: the handler puts the message back itself and goes on with the frame.
FrameRequeued(w) ==
    /\ "transient" \in Faults
    /\ pc[w] = "frame"
    /\ frame[w] \in 1..FrameCount
    /\ Requeue(w)
    /\ UNCHANGED <<status, outputVars, attempts, pc, localVars, failed>>

\* A frame cannot be fetched, for whatever reason, or inference times out:
\* recoverable.  The rows of the frames before stay.
FrameRetried(w) ==
    /\ "transient" \in Faults
    /\ pc[w] = "frame"
    /\ frame[w] \in 1..FrameCount
    /\ Requeue(w)
    /\ Return(w)
    /\ UNCHANGED <<status, outputVars, attempts, failed>>

\* Inference fails otherwise.
FrameRefused(w) ==
    /\ "permanent" \in Faults
    /\ pc[w] = "frame"
    /\ frame[w] \in 1..FrameCount
    /\ Goto(w, "reject")
    /\ UNCHANGED <<status, outputVars, attempts, localVars, failed, brokerVars>>

\* Publishing fails, with the event in the queue or not.
PublishBroken(w) ==
    /\ "unexpected" \in Faults
    /\ pc[w] = "publish"
    /\ published' \in {published, published \cup {results[w]}}
    /\ DeadLetter(w)
    /\ Return(w)
    /\ UNCHANGED <<status, rows, crops, attempts, failed>>

\* The database, the local disk or the image library fails: no DetectionError.
Unexpected(w) ==
    /\ "unexpected" \in Faults
    /\ pc[w] \in {"guard", "mark", "clear", "frame", "rows", "finish", "reject"}
    /\ DeadLetter(w)
    /\ Return(w)
    /\ UNCHANGED <<status, outputVars, attempts, failed>>

LoseConnection(w) ==
    /\ "lost" \in Faults
    /\ ConnectionLost(w)
    /\ UNCHANGED <<status, outputVars, attempts, pc, localVars, failed>>

CrashWorker(w) ==
    /\ "crash" \in Faults
    /\ Crash(w)
    /\ Return(w)
    /\ UNCHANGED <<status, outputVars, attempts, failed>>

RestartWorker(w) ==
    /\ Restart(w)
    /\ UNCHANGED <<status, outputVars, attempts, pc, localVars, failed>>

-----------------------------------------------------------------------------
Process(w) ==
    \/ AlreadyProcessed(w) \/ NotProcessed(w) \/ MarkProcessing(w)
    \/ ClearExisting(w) \/ DetectNothing(w) \/ Detect(w)
    \/ UploadCrop(w) \/ CropLost(w) \/ WriteRows(w) \/ FramesDone(w)
    \/ PublishDetections(w) \/ MarkDetected(w) \/ QuarantineAndFail(w)
    \/ AckFrames(w)

Failure(w) ==
    \/ FrameRetried(w) \/ FrameRefused(w) \/ PublishBroken(w)
    \/ Unexpected(w) \/ LoseConnection(w) \/ CrashWorker(w)

Worker(w) == Receive(w) \/ Start(w) \/ Process(w) \/ Failure(w) \/ RestartWorker(w)

DetectionNext ==
    \/ PublishEvent
    \/ \E s \in VideoStatuses : OthersMark(s)
    \/ \E w \in Consumers : Worker(w)

DetectionSpec == DetectionInit /\ [][DetectionNext]_vars

-----------------------------------------------------------------------------
(* Properties                                                              *)

DetectionIds == [attempt : 1..MaxAttempts, frame : Hits]
Detections == [attempt : 1..MaxAttempts, frame : Hits, cropped : BOOLEAN]

DetectionTypeOK ==
    /\ QueueTypeOK
    /\ log \in Seq({FramesEvent})
    /\ status \in VideoStatuses
    /\ rows \subseteq Detections
    /\ crops \subseteq DetectionIds
    /\ published \subseteq SUBSET Detections
    /\ attempts \in 0..MaxAttempts
    /\ pc \in [Consumers -> Locations]
    /\ attempt \in [Consumers -> 0..MaxAttempts]
    /\ frame \in [Consumers -> 0..FrameCount + 1]
    /\ results \in [Consumers -> SUBSET Detections]
    /\ failed \subseteq Messages
    /\ \A w \in Consumers : pc[w] = "idle" <=> hand[w] = None

\* A DETECTED video has the rows of one published event, all of them and no
\* others: clearing first "closes the duplicate-row gap" (detection.py) of the
\* attempts that crashed or were requeued before.
DetectedMeansRecorded == status = "DETECTED" => rows \in published

\* Embedding finds the crop of every detection that names one, of whatever
\* attempt: crops are stored before they are named, and never overwritten or
\* deleted by a later attempt.
NamedCropsExist ==
    \A d \in rows \cup UNION published :
        d.cropped => [attempt |-> d.attempt, frame |-> d.frame] \in crops

\* No event is lost: what was acknowledged has its detections published - by
\* this delivery or by the one whose status made the guard skip it - or the
\* video was marked FAILED for it.
AckedMeansDetected ==
    \A i \in acked : i \in failed \/ published # {}

\* The rows are there before the event that embedding builds on.
RecordedBeforePublished ==
    [][\A e \in published' \ published : e \subseteq rows]_vars
=============================================================================
