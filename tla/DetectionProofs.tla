--------------------------- MODULE DetectionProofs --------------------------
(***************************************************************************)
(* Theorems about the detection service, for any prefetch, any frames and  *)
(* any combination of faults: those about the crops and the acknowledged   *)
(* events for any number of workers, those about the rows for a worker     *)
(* that has the queue for itself.                                          *)
(***************************************************************************)
EXTENDS Detection, BrokerProofs

\* The detection that a row d stands for.
Named(d) == [attempt |-> d.attempt, frame |-> d.frame]

IdleOK == \A w \in Consumers : pc[w] = "idle" <=> hand[w] = None

\* Where a worker is in an attempt.
Attempting == {"frame", "crop", "rows", "publish", "finish", "reject"}

PlaceOK(w) ==
    /\ pc[w] \in Attempting => attempt[w] # 0 /\ frame[w] # 0
    /\ pc[w] \in {"crop", "rows"} => frame[w] \in Hits

\* What a worker remembers, so that what it writes and publishes names crops
\* that are there, and that what it acknowledges is dealt with.
CropsKept(w) == \A d \in results[w] : d.cropped => Named(d) \in crops

ToAck(w) ==
    /\ pc[w] = "finish" => published # {}
    /\ pc[w] = "ack" => hand[w] \in failed \/ published # {}

DetectedIsPublished == status \in {"DETECTED", "INDEXED"} => published # {}

DetectionInv ==
    /\ DetectionTypeOK
    /\ QueueInv
    /\ NamedCropsExist
    /\ AckedMeansDetected
    /\ DetectedIsPublished
    /\ \A w \in Consumers : PlaceOK(w) /\ CropsKept(w) /\ ToAck(w)

\* A worker that is alone: while it is at the video nobody calls the video
\* DETECTED, and the rows are those of its attempt, up to the frame it is at.
AtWork == Attempting \cup {"mark", "clear"}

RowsOfAttempt(w) ==
    /\ pc[w] \in AtWork => status # "DETECTED"
    /\ pc[w] \in {"frame", "crop"} => \A d \in results[w] : d.frame < frame[w]
    /\ pc[w] \in {"frame", "crop", "publish", "finish"} => rows = results[w]
    /\ pc[w] = "rows" =>
          /\ rows = {d \in results[w] : d.frame # frame[w]}
          /\ \A d \in results[w] : d.frame <= frame[w]
    /\ pc[w] = "finish" => results[w] \in published

AloneInv ==
    /\ DetectionInv
    /\ DetectedMeansRecorded
    /\ \A w \in Consumers : RowsOfAttempt(w)

-----------------------------------------------------------------------------
(* The queue and the types                                                 *)

LEMMA QueueStep ==
    ASSUME DetectionTypeOK, QueueInv, [DetectionNext]_vars
    PROVE  QueueInv' /\ LogGrows /\ log' \in Seq({FramesEvent})
<1> DEFINE S == {FramesEvent}
<1>1. QueueMove(S)
    <2>1. ASSUME NEW w \in Consumers, Process(w) PROVE QueueMove(S)
        BY <2>1 DEF QueueMove, Process, AlreadyProcessed, NotProcessed,
            MarkProcessing, ClearExisting, DetectNothing, Detect, UploadCrop,
            CropLost, WriteRows, FramesDone, PublishDetections, MarkDetected,
            QuarantineAndFail, AckFrames
    <2>2. ASSUME NEW w \in Consumers, Failure(w) PROVE QueueMove(S)
        BY <2>2 DEF QueueMove, Failure, FrameRetried, FrameRefused,
            PublishBroken, Unexpected, LoseConnection, CrashWorker
    <2>3. ASSUME NEW w \in Consumers, Receive(w) \/ Start(w) \/ RestartWorker(w)
          PROVE  QueueMove(S)
        BY <2>3 DEF QueueMove, Receive, Start, RestartWorker
    <2>4. PublishEvent => QueueMove(S)
        BY DEF QueueMove, PublishEvent
    <2>5. (\E s \in VideoStatuses : OthersMark(s)) \/ UNCHANGED vars => QueueMove(S)
        BY DEF QueueMove, OthersMark, vars
    <2> QED
        BY <2>1, <2>2, <2>3, <2>4, <2>5 DEF DetectionNext, Worker
<1>2. log \in Seq(S)
    BY DEF DetectionTypeOK
<1> HIDE DEF S
<1>3. QueueInv' /\ LogGrows /\ log' \in Seq(S)
    BY <1>1, <1>2, QueueMoves
<1> QED
    BY <1>3 DEF S

LEMMA IdleStep ==
    ASSUME DetectionTypeOK, QueueInv, [DetectionNext]_vars
    PROVE  (pc \in [Consumers -> Locations] /\ IdleOK)'
<1> DEFINE Moves ==
        \/ pc' = pc /\ hand' = hand
        \/ \E w \in Consumers, l \in Locations \ {"idle"} :
              /\ pc' = [pc EXCEPT ![w] = l]
              /\ Take(w) \/ (pc[w] # "idle" /\ hand' = hand)
        \/ \E w \in Consumers :
              /\ pc' = [pc EXCEPT ![w] = "idle"]
              /\ hand' = [hand EXCEPT ![w] = None]
<1>1. ASSUME NEW w \in Consumers, Process(w) \/ FrameRefused(w), ~ AckFrames(w)
      PROVE  Moves
    <2>1. \E l \in Locations \ {"idle"} : Goto(w, l)
        BY <1>1 DEF Process, AlreadyProcessed, NotProcessed, MarkProcessing,
            ClearExisting, DetectNothing, Detect, UploadCrop, CropLost,
            WriteRows, FramesDone, PublishDetections, MarkDetected,
            QuarantineAndFail, FrameRefused, Begin, NextFrame, Keep, Locations
    <2>2. pc[w] # "idle" /\ hand' = hand
        BY <1>1 DEF Process, AlreadyProcessed, NotProcessed, MarkProcessing,
            ClearExisting, DetectNothing, Detect, UploadCrop, CropLost,
            WriteRows, FramesDone, PublishDetections, MarkDetected,
            QuarantineAndFail, FrameRefused, brokerVars
    <2> QED
        BY <2>1, <2>2 DEF Goto
<1>2. ASSUME NEW w \in Consumers,
             \/ AckFrames(w) \/ FrameRetried(w) \/ PublishBroken(w)
             \/ Unexpected(w) \/ CrashWorker(w)
      PROVE  Moves
    BY <1>2 DEF AckFrames, FrameRetried, PublishBroken, Unexpected,
        CrashWorker, Ack, Requeue, DeadLetter, Release, Crash, Return, Goto
<1>3. ASSUME NEW w \in Consumers, Start(w) PROVE Moves
    BY <1>3 DEF Start, Goto, Locations
<1>4. ASSUME NEW w \in Consumers,
             Receive(w) \/ LoseConnection(w) \/ RestartWorker(w)
      PROVE  Moves
    BY <1>4 DEF Receive, LoseConnection, RestartWorker, Deliver,
        ConnectionLost, Restart
<1>5. (\E s \in VideoStatuses : OthersMark(s)) \/ PublishEvent \/ UNCHANGED vars
          => Moves
    BY DEF OthersMark, PublishEvent, Publish, vars, brokerVars
<1>6. Moves
    BY <1>1, <1>2, <1>3, <1>4, <1>5 DEF DetectionNext, Worker, Process, Failure
<1>7. /\ log \in Seq({FramesEvent})
      /\ pc \in [Consumers -> Locations]
      /\ \A w \in Consumers : pc[w] = "idle" <=> hand[w] = None
      /\ "idle" \in Locations
    BY DEF DetectionTypeOK, Locations
<1> QED
    BY <1>6, <1>7, IdleMoves DEF IdleOK

-----------------------------------------------------------------------------
(* The attempts: what a step does to the variables of the service          *)

\* The part of the invariant that is about the attempts and what they leave.
AttemptsOK ==
    /\ status \in VideoStatuses
    /\ rows \subseteq Detections
    /\ crops \subseteq DetectionIds
    /\ published \subseteq SUBSET Detections
    /\ attempts \in 0..MaxAttempts
    /\ attempt \in [Consumers -> 0..MaxAttempts]
    /\ frame \in [Consumers -> 0..FrameCount + 1]
    /\ results \in [Consumers -> SUBSET Detections]
    /\ NamedCropsExist
    /\ \A w \in Consumers : PlaceOK(w) /\ CropsKept(w)

LEMMA AttemptsKnown ==
    ASSUME DetectionInv
    PROVE  AttemptsOK /\ pc \in [Consumers -> Locations]
BY DEF DetectionInv, DetectionTypeOK, AttemptsOK

LEMMA StatusTypes ==
    /\ {"PROCESSING", "DETECTED", "FAILED"} \subseteq VideoStatuses
    /\ \A s, t : s \in VideoStatuses => Marked(s, t) = t
BY DEF VideoStatuses, Marked, Absent

\* A worker moves on in its attempt, or ends it.
LEMMA LocalSame ==
    ASSUME AttemptsOK, pc \in [Consumers -> Locations],
           NEW w \in Consumers, NEW l, Goto(w, l),
           status' \in VideoStatuses,
           UNCHANGED <<outputVars, attempts, localVars>>,
           l \in Attempting => pc[w] \in Attempting,
           l \in {"crop", "rows"} => frame[w] \in Hits
    PROVE  AttemptsOK'
<1>1. /\ UNCHANGED <<rows, crops, published, attempts, attempt, frame, results>>
    BY DEF outputVars, localVars
<1>2. ASSUME NEW x \in Consumers PROVE PlaceOK(x)' /\ CropsKept(x)'
    BY <1>1 DEF AttemptsOK, PlaceOK, CropsKept, Goto, Attempting
<1>3. NamedCropsExist'
    BY <1>1 DEF AttemptsOK, NamedCropsExist
<1> QED
    BY <1>1, <1>2, <1>3 DEF AttemptsOK

LEMMA LocalEnds ==
    ASSUME AttemptsOK, pc \in [Consumers -> Locations],
           NEW w \in Consumers, Return(w),
           UNCHANGED <<status, rows, crops, attempts>>,
           published' \in {published, published \cup {results[w]}}
    PROVE  AttemptsOK'
<1>1. /\ DetectionAssumption
      /\ attempt' \in [Consumers -> 0..MaxAttempts]
      /\ frame' \in [Consumers -> 0..FrameCount + 1]
      /\ results' \in [Consumers -> SUBSET Detections]
      /\ published' \subseteq SUBSET Detections
    BY DetectionAssumption DEF DetectionAssumption, AttemptsOK, Return
<1>2. ASSUME NEW x \in Consumers PROVE PlaceOK(x)' /\ CropsKept(x)'
    BY DEF AttemptsOK, PlaceOK, CropsKept, Return, Goto, Attempting
<1>3. NamedCropsExist'
    <2>1. \A d \in results[w] : d.cropped => Named(d) \in crops
        BY DEF AttemptsOK, CropsKept
    <2> QED
        BY <2>1 DEF AttemptsOK, NamedCropsExist, Named
<1> QED
    BY <1>1, <1>2, <1>3 DEF AttemptsOK

\* The steps of a worker at the frames of its attempt.
LEMMA AttemptStep ==
    ASSUME AttemptsOK, pc \in [Consumers -> Locations], NEW w \in Consumers,
           \/ ClearExisting(w) \/ DetectNothing(w) \/ UploadCrop(w)
           \/ CropLost(w) \/ WriteRows(w) \/ PublishDetections(w)
    PROVE  AttemptsOK'
<1> USE DetectionAssumption DEF DetectionAssumption
<1>1. CASE ClearExisting(w)
    <2>1. /\ attempts + 1 \in 1..MaxAttempts
          /\ attempts' = attempts + 1
          /\ attempt' = [attempt EXCEPT ![w] = attempts + 1]
          /\ frame' = [frame EXCEPT ![w] = 1]
          /\ results' = [results EXCEPT ![w] = {}]
          /\ pc' = [pc EXCEPT ![w] = "frame"]
          /\ rows' = {}
          /\ UNCHANGED <<status, crops, published>>
        BY <1>1 DEF ClearExisting, Begin, Goto, AttemptsOK
    <2>2. ASSUME NEW x \in Consumers PROVE PlaceOK(x)' /\ CropsKept(x)'
        BY <2>1 DEF AttemptsOK, PlaceOK, CropsKept
    <2>3. NamedCropsExist'
        BY <2>1 DEF AttemptsOK, NamedCropsExist
    <2> QED
        BY <2>1, <2>2, <2>3 DEF AttemptsOK
<1>2. CASE DetectNothing(w) \/ WriteRows(w)
    <2>1. /\ frame[w] \in 1..FrameCount
          /\ frame' = [frame EXCEPT ![w] = @ + 1]
          /\ pc' = [pc EXCEPT ![w] = "frame"]
          /\ pc[w] \in Attempting
          /\ UNCHANGED <<status, crops, published, attempts, attempt, results>>
        BY <1>2 DEF DetectNothing, WriteRows, NextFrame, Goto, outputVars,
            AttemptsOK, PlaceOK, Attempting
    <2>2. /\ rows \subseteq rows'
          /\ rows' \subseteq rows \cup results[w]
        BY <1>2 DEF DetectNothing, WriteRows, outputVars
    <2>3. ASSUME NEW x \in Consumers PROVE PlaceOK(x)' /\ CropsKept(x)'
        BY <2>1 DEF AttemptsOK, PlaceOK, CropsKept
    <2>4. NamedCropsExist'
        BY <2>1, <2>2 DEF AttemptsOK, NamedCropsExist, CropsKept, Named
    <2> QED
        BY <2>1, <2>2, <2>3, <2>4 DEF AttemptsOK
<1>3. CASE UploadCrop(w) \/ CropLost(w)
    <2>1. PICK c \in BOOLEAN :
              /\ results' = [results EXCEPT ![w] = @ \cup {Detected(w, c)}]
              /\ c => Here(w) \in crops'
        BY <1>3 DEF UploadCrop, CropLost, Keep
    <2>2. /\ pc[w] = "crop"
          /\ pc' = [pc EXCEPT ![w] = "rows"]
          /\ crops \subseteq crops'
          /\ crops' \subseteq crops \cup {Here(w)}
          /\ UNCHANGED <<status, rows, published, attempts, attempt, frame>>
        BY <1>3 DEF UploadCrop, CropLost, Keep, Goto
    <2>3. /\ frame[w] \in Hits
          /\ attempt[w] \in 1..MaxAttempts
        BY <2>2 DEF AttemptsOK, PlaceOK, Attempting
    <2>4. Here(w) \in DetectionIds /\ Detected(w, c) \in Detections
        BY <2>3 DEF Here, Detected, DetectionIds, Detections
    <2>5. Named(Detected(w, c)) = Here(w) /\ Detected(w, c).cropped = c
        BY DEF Named, Here, Detected
    <2>6. ASSUME NEW x \in Consumers PROVE PlaceOK(x)' /\ CropsKept(x)'
        <3>1. PlaceOK(x)'
            BY <2>2, <2>3 DEF AttemptsOK, PlaceOK, Attempting
        <3>2. CropsKept(x)'
            <4>1. \A d \in results[x] : d.cropped => Named(d) \in crops'
                BY <2>2 DEF AttemptsOK, CropsKept
            <4>2. results'[x] \subseteq results[x] \cup
                      (IF x = w THEN {Detected(w, c)} ELSE {})
                BY <2>1 DEF AttemptsOK
            <4> QED
                BY <2>1, <2>5, <4>1, <4>2 DEF CropsKept
        <3> QED
            BY <3>1, <3>2
    <2>7. NamedCropsExist'
        BY <2>2 DEF AttemptsOK, NamedCropsExist
    <2>8. results' \in [Consumers -> SUBSET Detections]
        BY <2>1, <2>4 DEF AttemptsOK
    <2> QED
        BY <2>2, <2>4, <2>6, <2>7, <2>8 DEF AttemptsOK
<1>4. CASE PublishDetections(w)
    <2>1. /\ pc[w] = "publish"
          /\ pc' = [pc EXCEPT ![w] = "finish"]
          /\ published' = published \cup {results[w]}
          /\ UNCHANGED <<status, rows, crops, attempts, attempt, frame, results>>
        BY <1>4 DEF PublishDetections, Goto, localVars
    <2>2. ASSUME NEW x \in Consumers PROVE PlaceOK(x)' /\ CropsKept(x)'
        BY <2>1 DEF AttemptsOK, PlaceOK, CropsKept, Attempting
    <2>3. NamedCropsExist'
        BY <2>1 DEF AttemptsOK, NamedCropsExist, CropsKept, Named
    <2> QED
        BY <2>1, <2>2, <2>3 DEF AttemptsOK
<1> QED
    BY <1>1, <1>2, <1>3, <1>4

LEMMA AttemptsStep ==
    ASSUME DetectionInv, [DetectionNext]_vars
    PROVE  AttemptsOK'
<1>1. AttemptsOK /\ pc \in [Consumers -> Locations]
    BY AttemptsKnown
<1>2. ASSUME NEW w \in Consumers, Process(w) \/ FrameRefused(w) \/ Start(w)
      PROVE  AttemptsOK'
    <2>1. CASE \/ ClearExisting(w) \/ DetectNothing(w) \/ UploadCrop(w)
               \/ CropLost(w) \/ WriteRows(w) \/ PublishDetections(w)
        BY <1>1, <2>1, AttemptStep
    <2>2. CASE AckFrames(w)
        BY <1>1, <2>2, LocalEnds DEF AckFrames, outputVars
    <2>3. CASE \/ AlreadyProcessed(w) \/ NotProcessed(w) \/ MarkProcessing(w)
               \/ Detect(w) \/ FramesDone(w) \/ MarkDetected(w)
               \/ QuarantineAndFail(w) \/ FrameRefused(w) \/ Start(w)
        <3>1. PICK l \in Locations :
                  /\ Goto(w, l)
                  /\ l \in Attempting => pc[w] \in Attempting
                  /\ l \in {"crop", "rows"} => frame[w] \in Hits
            BY <2>3 DEF AlreadyProcessed, NotProcessed, MarkProcessing, Detect,
                FramesDone, MarkDetected, QuarantineAndFail, FrameRefused,
                Start, Locations, Attempting
        <3>2. /\ status' \in VideoStatuses
              /\ UNCHANGED <<outputVars, attempts, localVars>>
            BY <1>1, <2>3, StatusTypes DEF AlreadyProcessed, NotProcessed,
                MarkProcessing, Detect, FramesDone, MarkDetected,
                QuarantineAndFail, FrameRefused, Start, AttemptsOK
        <3> QED
            BY <1>1, <3>1, <3>2, LocalSame
    <2> QED
        BY <1>2, <2>1, <2>2, <2>3 DEF Process
<1>3. ASSUME NEW w \in Consumers,
             \/ FrameRetried(w) \/ PublishBroken(w) \/ Unexpected(w)
             \/ CrashWorker(w)
      PROVE  AttemptsOK'
    BY <1>1, <1>3, LocalEnds
    DEF FrameRetried, PublishBroken, Unexpected, CrashWorker, outputVars
<1>4. ASSUME UNCHANGED <<outputVars, attempts, pc, localVars>>,
             status' \in VideoStatuses
      PROVE  AttemptsOK'
    BY <1>1, <1>4 DEF AttemptsOK, outputVars, localVars, NamedCropsExist,
        PlaceOK, CropsKept
<1>5. ASSUME \/ \E w \in Consumers :
                   Receive(w) \/ LoseConnection(w) \/ RestartWorker(w)
             \/ PublishEvent
             \/ \E s \in VideoStatuses : OthersMark(s)
             \/ UNCHANGED vars
      PROVE  AttemptsOK'
    BY <1>1, <1>4, <1>5 DEF Receive, LoseConnection, RestartWorker,
        PublishEvent, OthersMark, vars, AttemptsOK
<1> QED
    BY <1>2, <1>3, <1>5 DEF DetectionNext, Worker, Process, Failure

-----------------------------------------------------------------------------
(* What was acknowledged                                                   *)

AcksOK ==
    /\ AckedMeansDetected
    /\ DetectedIsPublished
    /\ \A w \in Consumers : ToAck(w)

\* A step after which nothing more is acknowledged.
LEMMA NothingAcked ==
    ASSUME DetectionInv, acked' = acked,
           published \subseteq published', failed \subseteq failed',
           \/ status' = status
           \/ status' \in {"DETECTED", "INDEXED"} => published # {},
           \A w \in Consumers :
               \/ pc'[w] \notin {"finish", "ack"}
               \/ pc'[w] = pc[w] /\ hand'[w] = hand[w]
               \/ pc'[w] = "finish" /\ published' # {}
               \/ pc'[w] = "ack" /\ (published' # {} \/ hand'[w] \in failed')
    PROVE  AcksOK'
BY DEF DetectionInv, AcksOK, AckedMeansDetected, DetectedIsPublished, ToAck

LEMMA AcksStep ==
    ASSUME DetectionInv, [DetectionNext]_vars
    PROVE  AcksOK'
<1>1. /\ AttemptsOK /\ pc \in [Consumers -> Locations]
      /\ hand \in [Consumers -> Messages \cup {None}]
    BY AttemptsKnown DEF DetectionInv, QueueInv, QueueTypeOK
<1>2. ASSUME NEW w \in Consumers, Process(w) \/ FrameRefused(w), ~ AckFrames(w)
      PROVE  AcksOK'
    <2>1. hand' = hand /\ acked' = acked
        BY <1>2 DEF Process, AlreadyProcessed, NotProcessed, MarkProcessing,
            ClearExisting, DetectNothing, Detect, UploadCrop, CropLost,
            WriteRows, FramesDone, PublishDetections, MarkDetected,
            QuarantineAndFail, FrameRefused, brokerVars
    <2>2. CASE AlreadyProcessed(w) \/ MarkDetected(w) \/ QuarantineAndFail(w)
        <3>1. /\ pc' = [pc EXCEPT ![w] = "ack"]
              /\ published' = published
              /\ failed \subseteq failed'
            BY <2>2 DEF AlreadyProcessed, MarkDetected, QuarantineAndFail,
                outputVars, Goto
        <3>2. /\ published # {} \/ hand[w] \in failed'
              /\ status' # status => status' \in {"DETECTED", "FAILED"}
              /\ status' = "DETECTED" => published # {}
            BY <1>1, <2>2, StatusTypes
            DEF AlreadyProcessed, MarkDetected, QuarantineAndFail,
                DetectionInv, DetectedIsPublished, ToAck, AttemptsOK, Marked, Absent
        <3> QED
            BY <1>1, <2>1, <3>1, <3>2, NothingAcked
    <2>3. CASE PublishDetections(w)
        <3>1. /\ pc' = [pc EXCEPT ![w] = "finish"]
              /\ published' # {} /\ published \subseteq published'
              /\ failed' = failed /\ status' = status
            BY <2>3 DEF PublishDetections, Goto
        <3> QED
            BY <1>1, <2>1, <3>1, NothingAcked
    <2>4. CASE \/ NotProcessed(w) \/ MarkProcessing(w) \/ ClearExisting(w)
               \/ DetectNothing(w) \/ Detect(w) \/ UploadCrop(w) \/ CropLost(w)
               \/ WriteRows(w) \/ FramesDone(w) \/ FrameRefused(w)
        <3>1. PICK l \in Locations \ {"finish", "ack"} : Goto(w, l)
            BY <2>4 DEF NotProcessed, MarkProcessing, ClearExisting,
                DetectNothing, Detect, UploadCrop, CropLost, WriteRows,
                FramesDone, FrameRefused, Begin, NextFrame, Keep, Locations
        <3>2. /\ published' = published /\ failed' = failed
              /\ status' = status \/ status' = "PROCESSING"
            BY <1>1, <2>4 DEF NotProcessed, MarkProcessing, ClearExisting,
                DetectNothing, Detect, UploadCrop, CropLost, WriteRows,
                FramesDone, FrameRefused, outputVars, Marked, AttemptsOK,
                VideoStatuses, Absent
        <3> QED
            BY <1>1, <2>1, <3>1, <3>2, NothingAcked DEF Goto
    <2> QED
        BY <1>2, <2>2, <2>3, <2>4 DEF Process
<1>3. ASSUME NEW w \in Consumers, AckFrames(w)
      PROVE  AcksOK'
    <2>1. /\ pc[w] = "ack"
          /\ pc' = [pc EXCEPT ![w] = "idle"]
          /\ hand' = [hand EXCEPT ![w] = None]
          /\ acked' \subseteq acked \cup {hand[w]}
          /\ UNCHANGED <<status, published, failed>>
        BY <1>3 DEF AckFrames, Return, Goto, Ack, Release, Abandon, outputVars
    <2> QED
        BY <1>1, <2>1 DEF DetectionInv, AcksOK, AckedMeansDetected,
            DetectedIsPublished, ToAck
<1>4. ASSUME NEW w \in Consumers,
             \/ FrameRetried(w) \/ PublishBroken(w) \/ Unexpected(w)
             \/ CrashWorker(w)
      PROVE  AcksOK'
    <2>1. /\ pc' = [pc EXCEPT ![w] = "idle"]
          /\ hand' = [hand EXCEPT ![w] = None]
          /\ acked' = acked
          /\ status' = status /\ failed' = failed
          /\ published \subseteq published'
        BY <1>4 DEF FrameRetried, PublishBroken, Unexpected, CrashWorker,
            Return, Goto, Requeue, DeadLetter, Release, Abandon, Crash, outputVars
    <2> QED
        BY <1>1, <2>1, NothingAcked
<1>5. ASSUME NEW w \in Consumers, Start(w)
      PROVE  AcksOK'
    <2>1. /\ pc' = [pc EXCEPT ![w] = "guard"]
          /\ \A x \in Consumers \ {w} : hand'[x] = hand[x]
          /\ UNCHANGED <<status, published, failed, acked>>
        BY <1>1, <1>5 DEF Start, Take, Goto, outputVars
    <2> QED
        BY <1>1, <2>1, NothingAcked
<1>6. ASSUME \/ \E w \in Consumers :
                   Receive(w) \/ LoseConnection(w) \/ RestartWorker(w)
             \/ PublishEvent
             \/ \E s \in VideoStatuses : OthersMark(s)
             \/ UNCHANGED vars
      PROVE  AcksOK'
    <2>1. UNCHANGED <<pc, hand, acked, published, failed>>
        BY <1>6 DEF Receive, LoseConnection, RestartWorker, PublishEvent,
            OthersMark, Deliver, ConnectionLost, Restart, Publish, vars,
            brokerVars, outputVars
    <2>2. \/ status' = status
          \/ status' \in {"DETECTED", "INDEXED"} => published # {}
        BY <1>6 DEF Receive, LoseConnection, RestartWorker, PublishEvent,
            OthersMark, vars
    <2> QED
        BY <2>1, <2>2, NothingAcked
<1> QED
    BY <1>2, <1>3, <1>4, <1>5, <1>6 DEF DetectionNext, Worker, Process, Failure

-----------------------------------------------------------------------------
LEMMA InvStep ==
    ASSUME DetectionInv, [DetectionNext]_vars
    PROVE  DetectionInv'
<1>1. QueueInv' /\ LogGrows /\ log' \in Seq({FramesEvent})
    BY QueueStep DEF DetectionInv
<1>2. (pc \in [Consumers -> Locations] /\ IdleOK)'
    BY IdleStep DEF DetectionInv
<1>3. AttemptsOK' /\ AcksOK'
    BY AttemptsStep, AcksStep
<1>4. (failed \subseteq Messages)'
    <2>1. failed \subseteq Messages /\ Messages \subseteq Messages'
        BY <1>1 DEF DetectionInv, DetectionTypeOK, LogGrows
    <2>2. ASSUME NEW w \in Consumers, QuarantineAndFail(w)
          PROVE  failed' \subseteq Messages
        <3>1. pc[w] # "idle" /\ failed' = failed \cup {hand[w]}
            BY <2>2 DEF QuarantineAndFail
        <3>2. hand[w] \in Messages
            BY <3>1, BodyInHand DEF DetectionInv, DetectionTypeOK
        <3> QED
            BY <2>1, <3>1, <3>2
    <2>3. (\E w \in Consumers : QuarantineAndFail(w)) \/ failed' = failed
        BY DEF DetectionNext, Worker, Process, Failure, AlreadyProcessed,
            NotProcessed, MarkProcessing, ClearExisting, DetectNothing, Detect,
            UploadCrop, CropLost, WriteRows, FramesDone, PublishDetections,
            MarkDetected, AckFrames, FrameRetried, FrameRefused,
            PublishBroken, Unexpected, LoseConnection, CrashWorker, Receive,
            Start, RestartWorker, PublishEvent, OthersMark, vars
    <2> QED
        BY <2>1, <2>2, <2>3
<1>5. DetectionTypeOK'
    BY <1>1, <1>2, <1>3, <1>4
    DEF DetectionTypeOK, AttemptsOK, QueueInv, IdleOK
<1> QED
    BY <1>1, <1>3, <1>5 DEF DetectionInv, AttemptsOK, AcksOK

LEMMA InvInit ==
    ASSUME DetectionInit
    PROVE  DetectionInv
<1>1. QueueInv
    BY InitQueue DEF DetectionInit
<1>2. /\ log = << >> /\ acked = {}
      /\ hand = [w \in Consumers |-> None]
      /\ status = "PROCESSING"
      /\ rows = {} /\ crops = {} /\ published = {} /\ failed = {}
      /\ attempts = 0
      /\ pc = [w \in Consumers |-> "idle"]
      /\ attempt = [w \in Consumers |-> 0]
      /\ frame = [w \in Consumers |-> 0]
      /\ results = [w \in Consumers |-> {}]
    BY DEF DetectionInit, BrokerInit
<1>3. DetectionTypeOK
    BY <1>1, <1>2, EmptySeq, DetectionAssumption
    DEF DetectionTypeOK, QueueInv, Locations, VideoStatuses, DetectionAssumption
<1> QED
    BY <1>1, <1>2, <1>3 DEF DetectionInv, NamedCropsExist, AckedMeansDetected,
        DetectedIsPublished, PlaceOK, CropsKept, ToAck, Attempting

LEMMA InvHolds == DetectionSpec => []DetectionInv
<1>1. DetectionInv /\ [DetectionNext]_vars => DetectionInv'
    BY InvStep
<1> QED
    BY <1>1, InvInit, PTL DEF DetectionSpec

\* The workers, the queue, the rows and the crops keep to their types.
THEOREM DetectionTypes == DetectionSpec => []DetectionTypeOK
<1>1. DetectionInv => DetectionTypeOK
    BY DEF DetectionInv
<1> QED
    BY <1>1, InvHolds, PTL

\* Whatever is redelivered, and however many workers clear each other's rows:
\* a crop that a row or an event names is in MinIO (_persist_detections).
THEOREM DetectionCrops == DetectionSpec => []NamedCropsExist
<1>1. DetectionInv => NamedCropsExist
    BY DEF DetectionInv
<1> QED
    BY <1>1, InvHolds, PTL

\* No frames_extracted event is lost (process_frames): what was acknowledged
\* had its detections published, or the video marked FAILED.
THEOREM DetectionAcks == DetectionSpec => []AckedMeansDetected
<1>1. DetectionInv => AckedMeansDetected
    BY DEF DetectionInv
<1> QED
    BY <1>1, InvHolds, PTL

-----------------------------------------------------------------------------
(* One worker                                                              *)

RecordsOK == DetectedMeansRecorded /\ \A w \in Consumers : RowsOfAttempt(w)

\* Nothing happens to the rows, the events and the attempt of the worker, and
\* it is not further in it than it was.
LEMMA RecordsSame ==
    ASSUME AloneInv,
           UNCHANGED <<rows, attempt, frame, results>>,
           published \subseteq published',
           status' = "DETECTED" =>
               \/ status = "DETECTED"
               \/ \E w \in Consumers : pc[w] = "finish",
           \A w \in Consumers :
               pc'[w] \in AtWork =>
                   /\ pc'[w] = pc[w] \/ pc'[w] \in {"mark", "clear", "reject"}
                   /\ status' # "DETECTED"
    PROVE  RecordsOK'
<1>1. DetectedMeansRecorded'
    BY DEF AloneInv, RowsOfAttempt, DetectedMeansRecorded
<1>2. ASSUME NEW w \in Consumers PROVE RowsOfAttempt(w)'
    BY DEF AloneInv, RowsOfAttempt, AtWork, Attempting
<1> QED
    BY <1>1, <1>2 DEF RecordsOK

LEMMA RecordsStep ==
    ASSUME Alone, AloneInv, [DetectionNext]_vars
    PROVE  RecordsOK'
<1>1. /\ AttemptsOK /\ pc \in [Consumers -> Locations]
      /\ \A w \in Consumers : RowsOfAttempt(w)
    BY AttemptsKnown DEF AloneInv
<1>2. ASSUME NEW w \in Consumers
      PROVE  \A x \in Consumers : x = w
    BY <1>2 DEF Alone
<1>3. ASSUME NEW w \in Consumers,
             \/ AlreadyProcessed(w) \/ NotProcessed(w) \/ MarkProcessing(w)
             \/ MarkDetected(w) \/ QuarantineAndFail(w) \/ FrameRefused(w)
             \/ Start(w)
      PROVE  RecordsOK'
    <2>1. UNCHANGED <<rows, attempt, frame, results, published>>
        BY <1>3 DEF AlreadyProcessed, NotProcessed, MarkProcessing,
            MarkDetected, QuarantineAndFail, FrameRefused, Start, outputVars,
            localVars
    <2>2. /\ status' = "DETECTED" => status = "DETECTED" \/ pc[w] = "finish"
          /\ pc'[w] \in AtWork =>
                 /\ pc'[w] \in {"mark", "clear", "reject"}
                 /\ status' # "DETECTED"
        BY <1>1, <1>3, StatusTypes
        DEF AlreadyProcessed, NotProcessed, MarkProcessing, MarkDetected,
            QuarantineAndFail, FrameRefused, Start, Goto, AtWork, Attempting,
            RowsOfAttempt, AttemptsOK
    <2> QED
        BY <1>2, <2>1, <2>2, RecordsSame
<1>4. ASSUME NEW w \in Consumers,
             \/ AckFrames(w) \/ FrameRetried(w) \/ PublishBroken(w)
             \/ Unexpected(w) \/ CrashWorker(w)
      PROVE  RecordsOK'
    <2>1. /\ pc'[w] = "idle"
          /\ rows' = rows /\ status' = status /\ published \subseteq published'
        BY <1>1, <1>4 DEF AckFrames, FrameRetried, PublishBroken, Unexpected,
            CrashWorker, Return, Goto, outputVars
    <2> QED
        BY <1>2, <2>1 DEF AloneInv, RecordsOK, RowsOfAttempt,
            DetectedMeansRecorded, AtWork, Attempting
<1>5. ASSUME NEW w \in Consumers,
             \/ ClearExisting(w) \/ DetectNothing(w) \/ Detect(w)
             \/ UploadCrop(w) \/ CropLost(w) \/ WriteRows(w) \/ FramesDone(w)
             \/ PublishDetections(w)
      PROVE  RecordsOK'
    <2> USE DetectionAssumption DEF DetectionAssumption
    <2>1. pc[w] \in AtWork /\ status # "DETECTED" /\ status' = status
        BY <1>1, <1>5 DEF ClearExisting, DetectNothing, Detect, UploadCrop,
            CropLost, WriteRows, FramesDone, PublishDetections, outputVars,
            RowsOfAttempt, AtWork, Attempting
    <2>2. DetectedMeansRecorded'
        BY <2>1 DEF DetectedMeansRecorded
    <2>3. RowsOfAttempt(w)'
        <3>0. \A d \in results[w] : d.frame \in Nat
            <4>1. \A d \in results[w] : d \in Detections
                BY <1>1 DEF AttemptsOK
            <4>2. \A d \in Detections : d.frame \in Hits
                BY DEF Detections
            <4>3. Hits \subseteq Nat
                OBVIOUS
            <4> QED
                BY <4>1, <4>2, <4>3
        <3>1. CASE ClearExisting(w)
            <4>1. pc'[w] = "frame" /\ rows' = {} /\ results'[w] = {}
                BY <1>1, <3>1 DEF ClearExisting, Begin, Goto, AttemptsOK
            <4> QED
                BY <2>1, <4>1 DEF RowsOfAttempt
        <3>2. CASE DetectNothing(w)
            <4>1. /\ pc[w] = "frame" /\ pc'[w] = "frame"
                  /\ frame[w] \in Nat /\ frame'[w] = frame[w] + 1
                  /\ rows' = rows /\ results' = results
                BY <1>1, <3>2
                DEF DetectNothing, NextFrame, Goto, AttemptsOK, outputVars
            <4>2. /\ rows = results[w]
                  /\ \A d \in results[w] : d.frame < frame[w]
                BY <1>1, <4>1 DEF RowsOfAttempt
            <4> QED
                BY <2>1, <3>0, <4>1, <4>2 DEF RowsOfAttempt
        <3>3. CASE Detect(w) \/ FramesDone(w)
            <4>1. /\ pc[w] = "frame" /\ pc'[w] \in {"crop", "publish"}
                  /\ UNCHANGED <<rows, results, frame>>
                BY <1>1, <3>3 DEF Detect, FramesDone, Goto, outputVars, localVars
            <4> QED
                BY <1>1, <2>1, <4>1 DEF RowsOfAttempt
        <3>4. CASE UploadCrop(w) \/ CropLost(w)
            <4>1. PICK c \in BOOLEAN :
                      results'[w] = results[w] \cup {Detected(w, c)}
                BY <1>1, <3>4 DEF UploadCrop, CropLost, Keep, AttemptsOK
            <4>2. /\ pc[w] = "crop" /\ pc'[w] = "rows"
                  /\ UNCHANGED <<rows, frame>>
                BY <1>1, <3>4 DEF UploadCrop, CropLost, Keep, Goto
            <4>3. /\ rows = results[w]
                  /\ \A d \in results[w] : d.frame < frame[w]
                  /\ frame[w] \in Nat
                BY <1>1, <4>2 DEF RowsOfAttempt, AttemptsOK
            <4>4. \A d \in results[w] : d.frame <= frame[w] /\ d.frame # frame[w]
                BY <3>0, <4>3
            <4>5. rows = {d \in results'[w] : d.frame # frame[w]}
                BY <4>1, <4>3, <4>4 DEF Detected
            <4>6. \A d \in results'[w] : d.frame <= frame[w]
                BY <4>1, <4>3, <4>4 DEF Detected
            <4> QED
                BY <2>1, <4>2, <4>5, <4>6 DEF RowsOfAttempt
        <3>5. CASE WriteRows(w)
            <4>1. /\ pc[w] = "rows" /\ pc'[w] = "frame"
                  /\ frame[w] \in Nat /\ frame'[w] = frame[w] + 1
                  /\ rows' = rows \cup {d \in results[w] : d.frame = frame[w]}
                  /\ results' = results
                BY <1>1, <3>5 DEF WriteRows, NextFrame, Goto, AttemptsOK
            <4>2. rows' = results[w]
                BY <1>1, <4>1 DEF RowsOfAttempt
            <4>3. \A d \in results[w] : d.frame <= frame[w]
                BY <1>1, <4>1 DEF RowsOfAttempt
            <4> QED
                BY <2>1, <3>0, <4>1, <4>2, <4>3 DEF RowsOfAttempt
        <3>6. CASE PublishDetections(w)
            <4>1. /\ pc[w] = "publish" /\ pc'[w] = "finish"
                  /\ published' = published \cup {results[w]}
                  /\ UNCHANGED <<rows, results>>
                BY <1>1, <3>6 DEF PublishDetections, Goto, localVars
            <4> QED
                BY <1>1, <2>1, <4>1 DEF RowsOfAttempt
        <3> QED
            BY <1>5, <3>1, <3>2, <3>3, <3>4, <3>5, <3>6
    <2> QED
        BY <1>2, <2>2, <2>3 DEF RecordsOK
<1>6. ASSUME \/ \E w \in Consumers :
                   Receive(w) \/ LoseConnection(w) \/ RestartWorker(w)
             \/ PublishEvent
             \/ \E s \in VideoStatuses : OthersMark(s)
             \/ UNCHANGED vars
      PROVE  RecordsOK'
    <2>1. /\ UNCHANGED <<pc, rows, attempt, frame, results, published>>
          /\ status' = "DETECTED" => status = "DETECTED"
        BY <1>6 DEF Receive, LoseConnection, RestartWorker, PublishEvent,
            OthersMark, vars, outputVars, localVars
    <2>2. \A w \in Consumers : pc[w] \in AtWork => status' # "DETECTED"
        BY <1>1, <2>1 DEF RowsOfAttempt
    <2> QED
        BY <2>1, <2>2, RecordsSame
<1> QED
    BY <1>3, <1>4, <1>5, <1>6 DEF DetectionNext, Worker, Process, Failure

LEMMA AloneHolds ==
    ASSUME Alone
    PROVE  DetectionSpec => []AloneInv
<1>1. DetectionInit => AloneInv
    <2>1. SUFFICES ASSUME DetectionInit PROVE AloneInv
        OBVIOUS
    <2> QED
        BY <2>1, InvInit DEF DetectionInit, AloneInv, RowsOfAttempt,
            DetectedMeansRecorded, AtWork, Attempting
<1>2. AloneInv /\ [DetectionNext]_vars => AloneInv'
    BY InvStep, RecordsStep DEF AloneInv, RecordsOK
<1> QED
    BY <1>1, <1>2, PTL DEF DetectionSpec

\* Clearing first closes the duplicate-row gap (process_frames) for a worker
\* that has the queue for itself: the rows of a DETECTED video are those of one
\* published event, whatever crashed or was requeued before.
THEOREM DetectionRecords ==
    ASSUME Alone
    PROVE  DetectionSpec => []DetectedMeansRecorded
<1>1. AloneInv => DetectedMeansRecorded
    BY DEF AloneInv
<1> QED
    BY <1>1, AloneHolds, PTL

\* Such a worker publishes what it has recorded, and nothing before.
THEOREM DetectionOrder ==
    ASSUME Alone
    PROVE  DetectionSpec => RecordedBeforePublished
<1>1. ASSUME AloneInv, [DetectionNext]_vars
      PROVE  \A e \in published' \ published : e \subseteq rows
    <2>1. ASSUME NEW w \in Consumers, PublishDetections(w) \/ PublishBroken(w)
          PROVE  /\ rows = results[w]
                 /\ published' \subseteq published \cup {results[w]}
        BY <1>1, <2>1
        DEF PublishDetections, PublishBroken, AloneInv, RowsOfAttempt
    <2>2. \/ published' = published
          \/ \E w \in Consumers : PublishDetections(w) \/ PublishBroken(w)
        BY <1>1 DEF DetectionNext, Worker, Process, Failure, AlreadyProcessed,
            NotProcessed, MarkProcessing, ClearExisting, DetectNothing, Detect,
            UploadCrop, CropLost, WriteRows, FramesDone, MarkDetected,
            QuarantineAndFail, AckFrames, FrameRetried, FrameRefused,
            Unexpected, LoseConnection, CrashWorker, Receive, Start,
            RestartWorker, PublishEvent, OthersMark, vars, outputVars
    <2> QED
        BY <2>1, <2>2
<1>2. AloneInv /\ [DetectionNext]_vars =>
          [\A e \in published' \ published : e \subseteq rows]_vars
    BY <1>1
<1> QED
    BY <1>2, AloneHolds, PTL DEF DetectionSpec, RecordedBeforePublished
=============================================================================
