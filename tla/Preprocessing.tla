--------------------------- MODULE Preprocessing ----------------------------
(***************************************************************************)
(* The preprocessing service (services/preprocessing): consumers of the    *)
(* video.ingested queue that claim a video under a row lock, cut it into   *)
(* frames, scenes and clips, store these in MinIO, publish                 *)
(* video.frames_extracted and mark the video PREPROCESSED.                 *)
(*                                                                         *)
(* A message is the id of the ingested video.  Object keys are functions   *)
(* of the video and of a position in it, so that a second run overwrites   *)
(* what the first one stored.                                              *)
(***************************************************************************)
EXTENDS Broker, VideoStatus

CONSTANTS
    Videos,
    MaxEvents,      \* bound: how many video.ingested events are ever published
    LaterStatuses,  \* statuses the later stages write to the same row
    Faults          \* which failures happen

FaultKinds == {"transient", "permanent", "unexpected", "lost", "crash"}

VARIABLES
    status,     \* status[v]: video_records.status
    stored,     \* videos whose frames, clips and normalized video are in MinIO
    announced,  \* videos whose video.frames_extracted event was published
    pc          \* pc[w]: where worker w is in process_video

pipelineVars == <<status, stored, announced>>
vars == <<pipelineVars, pc, brokerVars>>

Locations == {"idle", "claim", "mark", "work", "store", "publish", "finish",
              "reject", "ack"}

\* Between the claim and the end of process_video.
Working == {"mark", "work", "store", "publish", "finish", "reject"}

PreprocessingInit ==
    /\ BrokerInit
    /\ status = [v \in Videos |-> Absent]
    /\ stored = {}
    /\ announced = {}
    /\ pc = [w \in Consumers |-> "idle"]

Goto(w, l) == pc' = [pc EXCEPT ![w] = l]

VideoInHand(w) == log[hand[w]]

Mark(v, s) == status' = [status EXCEPT ![v] = Marked(@, s)]

-----------------------------------------------------------------------------
(* The rest of the system                                                  *)

\* Ingestion commits its row, before or after its event is delivered.
IngestionCommits(v) ==
    /\ status[v] = Absent
    /\ status' = [status EXCEPT ![v] = "PENDING"]
    /\ UNCHANGED <<stored, announced, pc, brokerVars>>

PublishEvent(v) ==
    /\ Len(log) < MaxEvents
    /\ Publish(v)
    /\ UNCHANGED <<pipelineVars, pc>>

\* The stages behind detection's queue, once there is something to detect.
DownstreamMarks(v, s) ==
    /\ v \in announced
    /\ s \in LaterStatuses
    /\ Mark(v, s)
    /\ UNCHANGED <<stored, announced, pc, brokerVars>>

-----------------------------------------------------------------------------
(* process_video                                                           *)

Receive(w) ==
    /\ Deliver(w)
    /\ UNCHANGED <<pipelineVars, pc>>

Start(w) ==
    /\ Take(w)
    /\ Goto(w, "claim")
    /\ UNCHANGED pipelineVars

Claimed == {"PREPROCESSED", "INDEXED", "PROCESSING"}

\* Fault: status read in one transaction, written by the next.
ClaimUnlocked(w) ==
    /\ pc[w] = "claim"
    /\ status[VideoInHand(w)] \notin Claimed \cup {Absent}
    /\ Goto(w, "mark")
    /\ UNCHANGED <<pipelineVars, brokerVars>>

\* Fault: a missing row stops nothing, as in detection and embedding.
ClaimMissing(w) ==
    /\ pc[w] = "claim"
    /\ status[VideoInHand(w)] \notin Claimed
    /\ Mark(VideoInHand(w), "PROCESSING")
    /\ Goto(w, "mark")
    /\ UNCHANGED <<stored, announced, brokerVars>>

\* _claim_for_processing: SELECT ... FOR UPDATE and the write that follows.
Claim(w) ==
    /\ pc[w] = "claim"
    /\ status[VideoInHand(w)] \notin Claimed \cup {Absent}
    /\ Mark(VideoInHand(w), "PROCESSING")
    /\ Goto(w, "mark")
    /\ UNCHANGED <<stored, announced, brokerVars>>

\* Done, in flight, or no such video: the message is acknowledged.
RefuseClaim(w) ==
    /\ pc[w] = "claim"
    /\ status[VideoInHand(w)] \in Claimed \cup {Absent}
    /\ Goto(w, "ack")
    /\ UNCHANGED <<pipelineVars, brokerVars>>

MarkProcessing(w) ==
    /\ pc[w] = "mark"
    /\ Mark(VideoInHand(w), "PROCESSING")
    /\ Goto(w, "work")
    /\ UNCHANGED <<stored, announced, brokerVars>>

\* _fetch_source and _run_stages: local files only.
RunStages(w) ==
    /\ pc[w] = "work"
    /\ Goto(w, "store")
    /\ UNCHANGED <<pipelineVars, brokerVars>>

\* _persist_artifacts, all of it.
Store(w) ==
    /\ pc[w] = "store"
    /\ stored' = stored \cup {VideoInHand(w)}
    /\ Goto(w, "publish")
    /\ UNCHANGED <<status, announced, brokerVars>>

PublishFrames(w) ==
    /\ pc[w] = "publish"
    /\ announced' = announced \cup {VideoInHand(w)}
    /\ Goto(w, "finish")
    /\ UNCHANGED <<status, stored, brokerVars>>

MarkPreprocessed(w) ==
    /\ pc[w] = "finish"
    /\ Mark(VideoInHand(w), "PREPROCESSED")
    /\ Goto(w, "ack")
    /\ UNCHANGED <<stored, announced, brokerVars>>

\* _quarantine_and_fail; copying the source to quarantine is best effort.
QuarantineAndFail(w) ==
    /\ pc[w] = "reject"
    /\ Mark(VideoInHand(w), "FAILED")
    /\ Goto(w, "ack")
    /\ UNCHANGED <<stored, announced, brokerVars>>

AckVideo(w) ==
    /\ pc[w] = "ack"
    /\ Ack(w)
    /\ Goto(w, "idle")
    /\ UNCHANGED pipelineVars

-----------------------------------------------------------------------------
(* Failures                                                                *)

\* Fetching the source fails, FFmpeg times out, or the first upload fails:
\* recoverable.  The status stays PROCESSING.
WorkRetried(w) ==
    /\ "transient" \in Faults
    /\ pc[w] \in {"work", "store"}
    /\ Requeue(w)
    /\ Goto(w, "idle")
    /\ UNCHANGED pipelineVars

\* Fault: the stages that fail are skipped over.
WorkTolerated(w) ==
    /\ "permanent" \in Faults
    /\ pc[w] = "work"
    /\ Goto(w, "publish")
    /\ UNCHANGED <<pipelineVars, brokerVars>>

\* The source does not decode, or no frame is sharp enough.
WorkRefused(w) ==
    /\ "permanent" \in Faults
    /\ pc[w] = "work"
    /\ Goto(w, "reject")
    /\ UNCHANGED <<pipelineVars, brokerVars>>

\* A later upload fails: the rollback calls delete_artifact, which the
\* storage service does not have.
StoreBroken(w) ==
    /\ "transient" \in Faults
    /\ pc[w] = "store"
    /\ DeadLetter(w)
    /\ Goto(w, "idle")
    /\ UNCHANGED pipelineVars

\* Publishing fails, with the event in the queue or not.
PublishBroken(w) ==
    /\ "unexpected" \in Faults
    /\ pc[w] = "publish"
    /\ announced' \in {announced, announced \cup {VideoInHand(w)}}
    /\ DeadLetter(w)
    /\ Goto(w, "idle")
    /\ UNCHANGED <<status, stored>>

\* The database, the local disk or OpenCV fails: no PreprocessingError.
Unexpected(w) ==
    /\ "unexpected" \in Faults
    /\ pc[w] \in {"claim", "mark", "work", "finish", "reject"}
    /\ DeadLetter(w)
    /\ Goto(w, "idle")
    /\ UNCHANGED pipelineVars

LoseConnection(w) ==
    /\ "lost" \in Faults
    /\ ConnectionLost(w)
    /\ UNCHANGED <<pipelineVars, pc>>

CrashWorker(w) ==
    /\ "crash" \in Faults
    /\ Crash(w)
    /\ Goto(w, "idle")
    /\ UNCHANGED pipelineVars

RestartWorker(w) ==
    /\ Restart(w)
    /\ UNCHANGED <<pipelineVars, pc>>

-----------------------------------------------------------------------------
Process(w) ==
    \/ Claim(w) \/ RefuseClaim(w) \/ MarkProcessing(w) \/ RunStages(w)
    \/ Store(w) \/ PublishFrames(w) \/ MarkPreprocessed(w)
    \/ QuarantineAndFail(w) \/ AckVideo(w)

Failure(w) ==
    \/ WorkRetried(w) \/ WorkRefused(w) \/ StoreBroken(w) \/ PublishBroken(w)
    \/ Unexpected(w) \/ LoseConnection(w) \/ CrashWorker(w)

Worker(w) == Receive(w) \/ Start(w) \/ Process(w) \/ Failure(w) \/ RestartWorker(w)

Others ==
    \E v \in Videos :
        \/ IngestionCommits(v)
        \/ PublishEvent(v)
        \/ \E s \in LaterStatuses : DownstreamMarks(v, s)

PreprocessingNext == Others \/ \E w \in Consumers : Worker(w)

PreprocessingSpec == PreprocessingInit /\ [][PreprocessingNext]_vars

-----------------------------------------------------------------------------
(* Properties                                                              *)

PreprocessingTypeOK ==
    /\ QueueTypeOK
    /\ log \in Seq(Videos)
    /\ status \in [Videos -> VideoStatuses \cup {Absent}]
    /\ stored \subseteq Videos
    /\ announced \subseteq Videos
    /\ pc \in [Consumers -> Locations]
    /\ \A w \in Consumers : pc[w] = "idle" <=> hand[w] = None

\* The claim is exclusive: until its frames are announced a video is in the
\* hands of one worker, whatever is redelivered to others meanwhile
\* (_claim_for_processing, "closing the race window").
ClaimedByOne ==
    \A w, x \in Consumers :
        /\ w # x
        /\ pc[w] \in Working
        /\ pc[x] \in Working
        /\ VideoInHand(w) = VideoInHand(x)
        => VideoInHand(w) \in announced

\* Detection never sees an event whose frames are not in MinIO yet.
AnnouncedIsStored == announced \subseteq stored

\* "Transient infra problems: RabbitMQ redelivers later" (preprocessing.py):
\* a video is not left PROCESSING when its messages were acknowledged, unless
\* detection has it by now.
NotLeftProcessing ==
    \A i \in acked :
        status[log[i]] = "PROCESSING" =>
            \/ log[i] \in announced
            \/ \E j \in Messages \ acked : log[j] = log[i]
=============================================================================
