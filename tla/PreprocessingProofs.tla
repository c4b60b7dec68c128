------------------------ MODULE PreprocessingProofs -------------------------
(***************************************************************************)
(* Theorems about the preprocessing service, for any number of workers,    *)
(* any prefetch, any videos and events, and every combination of faults.   *)
(***************************************************************************)
EXTENDS Preprocessing, BrokerProofs

\* The stages behind preprocessing write statuses, and never remove a row.
LaterStatusesOK == LaterStatuses \subseteq VideoStatuses

\* What a worker knows of the video it has claimed: there is a row, which says
\* PROCESSING until the frames of the video are announced - by this worker or
\* by one that lost its claim - and what it announces is in MinIO.
Held(w) ==
    pc[w] \in Working =>
        /\ status[VideoInHand(w)] # Absent
        /\ VideoInHand(w) \in announced \/ status[VideoInHand(w)] = "PROCESSING"
        /\ pc[w] = "publish" => VideoInHand(w) \in stored
        /\ pc[w] = "finish" => VideoInHand(w) \in announced

AnnouncedIsRecorded == \A v \in announced : status[v] # Absent

PreprocessingInv ==
    /\ PreprocessingTypeOK
    /\ QueueInv
    /\ AnnouncedIsStored
    /\ AnnouncedIsRecorded
    /\ ClaimedByOne
    /\ \A w \in Consumers : Held(w)

-----------------------------------------------------------------------------
(* The queue and the types                                                 *)

IdleOK == \A w \in Consumers : pc[w] = "idle" <=> hand[w] = None

LEMMA QueueStep ==
    ASSUME PreprocessingTypeOK, QueueInv, [PreprocessingNext]_vars
    PROVE  QueueInv' /\ LogGrows /\ log' \in Seq(Videos)
<1>1. QueueMove(Videos)
    <2>1. ASSUME NEW w \in Consumers, Process(w) PROVE QueueMove(Videos)
        BY <2>1 DEF QueueMove, Process, Claim, RefuseClaim, MarkProcessing,
            RunStages, Store, PublishFrames, MarkPreprocessed,
            QuarantineAndFail, AckVideo
    <2>2. ASSUME NEW w \in Consumers, Failure(w) PROVE QueueMove(Videos)
        BY <2>2 DEF QueueMove, Failure, WorkRetried, WorkRefused, StoreBroken,
            PublishBroken, Unexpected, LoseConnection, CrashWorker
    <2>3. ASSUME NEW w \in Consumers, Receive(w) \/ Start(w) \/ RestartWorker(w)
          PROVE  QueueMove(Videos)
        BY <2>3 DEF QueueMove, Receive, Start, RestartWorker
    <2>4. Others => QueueMove(Videos)
        BY DEF QueueMove, Others, IngestionCommits, PublishEvent, DownstreamMarks
    <2>5. UNCHANGED vars => QueueMove(Videos)
        BY DEF QueueMove, vars
    <2> QED
        BY <2>1, <2>2, <2>3, <2>4, <2>5 DEF PreprocessingNext, Worker
<1> QED
    BY <1>1, QueueMoves DEF PreprocessingTypeOK

LEMMA IdleStep ==
    ASSUME PreprocessingTypeOK, QueueInv, [PreprocessingNext]_vars
    PROVE  (pc \in [Consumers -> Locations] /\ IdleOK)'
<1> DEFINE Moves ==
        \/ pc' = pc /\ hand' = hand
        \/ \E w \in Consumers, l \in Locations \ {"idle"} :
              /\ pc' = [pc EXCEPT ![w] = l]
              /\ Take(w) \/ (pc[w] # "idle" /\ hand' = hand)
        \/ \E w \in Consumers :
              /\ pc' = [pc EXCEPT ![w] = "idle"]
              /\ hand' = [hand EXCEPT ![w] = None]
<1>1. ASSUME NEW w \in Consumers,
             \/ Claim(w) \/ RefuseClaim(w) \/ MarkProcessing(w) \/ RunStages(w)
             \/ Store(w) \/ PublishFrames(w) \/ MarkPreprocessed(w)
             \/ QuarantineAndFail(w) \/ WorkRefused(w)
      PROVE  Moves
    <2>1. \E l \in Locations \ {"idle"} : Goto(w, l)
        BY <1>1 DEF Claim, RefuseClaim, MarkProcessing, RunStages, Store,
            PublishFrames, MarkPreprocessed, QuarantineAndFail, WorkRefused,
            Locations
    <2>2. pc[w] # "idle" /\ hand' = hand
        BY <1>1 DEF Claim, RefuseClaim, MarkProcessing, RunStages, Store,
            PublishFrames, MarkPreprocessed, QuarantineAndFail, WorkRefused,
            brokerVars
    <2> QED
        BY <2>1, <2>2 DEF Goto
<1>2. ASSUME NEW w \in Consumers,
             \/ AckVideo(w) \/ WorkRetried(w) \/ StoreBroken(w)
             \/ PublishBroken(w) \/ Unexpected(w) \/ CrashWorker(w)
      PROVE  Moves
    BY <1>2 DEF AckVideo, WorkRetried, StoreBroken, PublishBroken, Unexpected,
        CrashWorker, Ack, Requeue, DeadLetter, Release, Crash, Goto
<1>3. ASSUME NEW w \in Consumers, Start(w) PROVE Moves
    BY <1>3 DEF Start, Goto, Locations
<1>4. ASSUME NEW w \in Consumers,
             Receive(w) \/ LoseConnection(w) \/ RestartWorker(w)
      PROVE  Moves
    BY <1>4 DEF Receive, LoseConnection, RestartWorker, Deliver,
        ConnectionLost, Restart
<1>5. Others \/ UNCHANGED vars => Moves
    BY DEF Others, IngestionCommits, PublishEvent, DownstreamMarks, Publish,
        vars, brokerVars
<1>6. Moves
    BY <1>1, <1>2, <1>3, <1>4, <1>5
    DEF PreprocessingNext, Worker, Process, Failure
<1>7. /\ log \in Seq(Videos)
      /\ pc \in [Consumers -> Locations]
      /\ \A w \in Consumers : pc[w] = "idle" <=> hand[w] = None
      /\ "idle" \in Locations
    BY DEF PreprocessingTypeOK, Locations
<1> QED
    BY <1>6, <1>7, IdleMoves DEF IdleOK

\* A worker that runs the handler has a video in hand.
LEMMA HandFacts ==
    ASSUME PreprocessingTypeOK, QueueInv, NEW w \in Consumers, pc[w] # "idle"
    PROVE  /\ VideoInHand(w) \in Videos
           /\ LogGrows => log'[hand[w]] = log[hand[w]]
BY BodyInHand DEF PreprocessingTypeOK, VideoInHand

LEMMA TypeStep ==
    ASSUME LaterStatusesOK, PreprocessingTypeOK, QueueInv, [PreprocessingNext]_vars
    PROVE  PreprocessingTypeOK'
<1> DEFINE DataOK ==
        /\ status \in [Videos -> VideoStatuses \cup {Absent}]
        /\ stored \subseteq Videos
        /\ announced \subseteq Videos
<1>1. DataOK
    BY DEF PreprocessingTypeOK
<1>2. ASSUME NEW v \in Videos, NEW s \in VideoStatuses, Mark(v, s)
      PROVE  status' \in [Videos -> VideoStatuses \cup {Absent}]
    BY <1>1, <1>2 DEF Mark, Marked
<1>3. {"PENDING", "PROCESSING", "PREPROCESSED", "FAILED"} \subseteq VideoStatuses
    BY DEF VideoStatuses
<1>4. ASSUME NEW w \in Consumers, Process(w) PROVE DataOK'
    <2>1. pc[w] # "idle"
        BY <1>4 DEF Process, Claim, RefuseClaim, MarkProcessing, RunStages,
            Store, PublishFrames, MarkPreprocessed, QuarantineAndFail, AckVideo
    <2>2. VideoInHand(w) \in Videos
        BY <2>1, HandFacts
    <2>3. CASE \/ Claim(w) \/ MarkProcessing(w) \/ MarkPreprocessed(w)
               \/ QuarantineAndFail(w)
        BY <1>1, <1>2, <1>3, <2>2, <2>3
        DEF Claim, MarkProcessing, MarkPreprocessed, QuarantineAndFail
    <2>4. CASE \/ RefuseClaim(w) \/ RunStages(w) \/ Store(w)
               \/ PublishFrames(w) \/ AckVideo(w)
        BY <1>1, <2>2, <2>4
        DEF RefuseClaim, RunStages, Store, PublishFrames, AckVideo, pipelineVars
    <2> QED
        BY <1>4, <2>3, <2>4 DEF Process
<1>5. ASSUME NEW w \in Consumers, Failure(w) PROVE DataOK'
    <2>1. CASE PublishBroken(w)
        <3>1. VideoInHand(w) \in Videos
            BY <2>1, HandFacts DEF PublishBroken
        <3> QED
            BY <1>1, <2>1, <3>1 DEF PublishBroken
    <2>2. CASE ~ PublishBroken(w)
        BY <1>1, <1>5, <2>2 DEF Failure, WorkRetried, WorkRefused, StoreBroken,
            Unexpected, LoseConnection, CrashWorker, pipelineVars
    <2> QED
        BY <2>1, <2>2
<1>6. ASSUME NEW w \in Consumers, Receive(w) \/ Start(w) \/ RestartWorker(w)
      PROVE  DataOK'
    BY <1>1, <1>6 DEF Receive, Start, RestartWorker, pipelineVars
<1>7. ASSUME NEW v \in Videos, IngestionCommits(v) PROVE DataOK'
    BY <1>1, <1>3, <1>7 DEF IngestionCommits
<1>8. ASSUME NEW v \in Videos, NEW s \in LaterStatuses, DownstreamMarks(v, s)
      PROVE  DataOK'
    BY <1>1, <1>2, <1>8 DEF DownstreamMarks, LaterStatusesOK
<1>9. ASSUME NEW v \in Videos, PublishEvent(v) PROVE DataOK'
    BY <1>1, <1>9 DEF PublishEvent, pipelineVars
<1>10. UNCHANGED vars => DataOK'
    BY <1>1 DEF vars, pipelineVars
<1>11. DataOK'
    BY <1>4, <1>5, <1>6, <1>7, <1>8, <1>9, <1>10
    DEF PreprocessingNext, Worker, Others
<1> QED
    BY <1>11, QueueStep, IdleStep DEF QueueInv, IdleOK, PreprocessingTypeOK

-----------------------------------------------------------------------------
(* The claim                                                               *)

\* What holds of claimed videos is disturbed by nobody who leaves the rows
\* that say PROCESSING alone, unless the frames are out.
StatusKept ==
    /\ announced \subseteq announced'
    /\ stored \subseteq stored'
    /\ \A v \in Videos :
          /\ status[v] # Absent => status'[v] # Absent
          /\ status[v] = "PROCESSING" /\ v \notin announced => status'[v] = status[v]

LEMMA HeldStays ==
    ASSUME PreprocessingInv, LogGrows, StatusKept, NEW w \in Consumers,
           pc'[w] = pc[w], hand'[w] = hand[w]
    PROVE  Held(w)'
<1> SUFFICES ASSUME pc[w] \in Working
             PROVE  Held(w)'
    BY DEF Held
<1>1. /\ VideoInHand(w) \in Videos
      /\ log'[hand[w]] = log[hand[w]]
    BY HandFacts DEF PreprocessingInv, Working
<1>2. VideoInHand(w)' = VideoInHand(w)
    BY <1>1 DEF VideoInHand
<1>3. Held(w)
    BY DEF PreprocessingInv
<1> QED
    BY <1>1, <1>2, <1>3 DEF Held, StatusKept

\* Nobody who has not claimed a video becomes one of its workers.
NoNewWorker ==
    \A w \in Consumers :
        pc'[w] \in Working =>
            pc[w] \in Working /\ VideoInHand(w)' = VideoInHand(w)

LEMMA ClaimStays ==
    ASSUME ClaimedByOne, announced \subseteq announced', NoNewWorker
    PROVE  ClaimedByOne'
BY DEF ClaimedByOne, NoNewWorker

\* A worker that stays at its place, with the message it has.
LEMMA SameVideo ==
    ASSUME PreprocessingInv, LogGrows, NEW w \in Consumers,
           hand'[w] = hand[w], pc[w] \in Working
    PROVE  VideoInHand(w)' = VideoInHand(w)
BY HandFacts DEF PreprocessingInv, Working, VideoInHand

LEMMA PipelineSame ==
    ASSUME UNCHANGED pipelineVars
    PROVE  StatusKept
BY DEF pipelineVars, StatusKept

\* A step in which no handler moves.
LEMMA NobodyMoves ==
    ASSUME PreprocessingInv, LogGrows, StatusKept, pc' = pc, hand' = hand
    PROVE  ClaimedByOne' /\ \A w \in Consumers : Held(w)'
<1>1. NoNewWorker
    BY SameVideo DEF NoNewWorker
<1> QED
    BY <1>1, ClaimStays, HeldStays DEF PreprocessingInv, StatusKept

\* A step of one worker that claims nothing.
LEMMA OneMoves ==
    ASSUME PreprocessingInv, LogGrows, StatusKept,
           NEW w \in Consumers, NEW l, Goto(w, l),
           \A x \in Consumers \ {w} : hand'[x] = hand[x],
           l \in Working => pc[w] \in Working /\ hand'[w] = hand[w],
           l \in Working => Held(w)'
    PROVE  ClaimedByOne' /\ \A x \in Consumers : Held(x)'
<1>1. pc'[w] = l /\ \A x \in Consumers \ {w} : pc'[x] = pc[x]
    BY DEF Goto, PreprocessingInv, PreprocessingTypeOK
<1>2. NoNewWorker
    BY <1>1, SameVideo DEF NoNewWorker
<1>3. \A x \in Consumers \ {w} : Held(x)'
    BY <1>1, HeldStays
<1>4. Held(w)'
    BY <1>1 DEF Held
<1> QED
    BY <1>2, <1>3, <1>4, ClaimStays DEF PreprocessingInv, StatusKept

ClaimOK ==
    /\ ClaimedByOne
    /\ \A w \in Consumers : Held(w)
    /\ AnnouncedIsStored
    /\ AnnouncedIsRecorded

\* Announcing is safe where Store was before, on a video with a row.
LEMMA AnnouncedStays ==
    ASSUME PreprocessingInv, StatusKept, NEW w \in Consumers,
           \/ announced' = announced
           \/ pc[w] = "publish" /\ announced' = announced \cup {VideoInHand(w)}
    PROVE  AnnouncedIsStored' /\ AnnouncedIsRecorded'
<1>1. /\ AnnouncedIsStored
      /\ AnnouncedIsRecorded
      /\ announced \subseteq Videos
      /\ Held(w)
    BY DEF PreprocessingInv, PreprocessingTypeOK
<1>2. pc[w] = "publish" =>
          /\ VideoInHand(w) \in Videos
          /\ VideoInHand(w) \in stored
          /\ status[VideoInHand(w)] # Absent
    BY <1>1, HandFacts DEF PreprocessingInv, Held, Working
<1> QED
    BY <1>1, <1>2 DEF AnnouncedIsStored, AnnouncedIsRecorded, StatusKept

LEMMA ProcessStep ==
    ASSUME PreprocessingInv, LogGrows, NEW w \in Consumers, Process(w)
    PROVE  ClaimOK'
<1> DEFINE v == VideoInHand(w)
<1>1. pc[w] # "idle"
    BY DEF Process, Claim, RefuseClaim, MarkProcessing, RunStages, Store,
        PublishFrames, MarkPreprocessed, QuarantineAndFail, AckVideo
<1>2. /\ v \in Videos
      /\ hand' = hand => VideoInHand(w)' = v
    BY <1>1, HandFacts DEF PreprocessingInv, VideoInHand
<1>3. /\ pc \in [Consumers -> Locations]
      /\ status \in [Videos -> VideoStatuses \cup {Absent}]
      /\ Held(w)
    BY DEF PreprocessingInv, PreprocessingTypeOK
<1>4. ASSUME NEW s \in VideoStatuses, Mark(v, s)
      PROVE  /\ status[v] # Absent => status'[v] = s
             /\ \A u \in Videos \ {v} : status'[u] = status[u]
             /\ \A u \in Videos : status[u] # Absent => status'[u] # Absent
    BY <1>2, <1>3, <1>4 DEF Mark, Marked, VideoStatuses, Absent
<1>5. {"PROCESSING", "PREPROCESSED", "FAILED"} \subseteq VideoStatuses
    BY DEF VideoStatuses
<1> HIDE DEF v
<1>6. CASE Claim(w)
    <2>1. /\ pc[w] = "claim"
          /\ status[v] \notin Claimed \cup {Absent}
          /\ Mark(v, "PROCESSING")
          /\ Goto(w, "mark")
          /\ stored' = stored /\ announced' = announced
          /\ hand' = hand
        BY <1>6 DEF Claim, brokerVars, v
    <2>2. StatusKept
        BY <1>4, <1>5, <2>1 DEF StatusKept, Claimed
    <2>3. pc'[w] = "mark" /\ \A x \in Consumers \ {w} : pc'[x] = pc[x]
        BY <1>3, <2>1 DEF Goto
    <2>4. Held(w)'
        BY <1>2, <1>4, <1>5, <2>1, <2>3 DEF Held, Absent
    <2>5. \A x \in Consumers \ {w} : Held(x)'
        BY <2>1, <2>2, <2>3, HeldStays
    <2>6. ASSUME NEW x \in Consumers \ {w}, pc'[x] \in Working,
                 VideoInHand(x)' = VideoInHand(w)'
          PROVE  VideoInHand(w)' \in announced'
        <3>1. VideoInHand(x) = v /\ pc[x] \in Working
            BY <1>2, <2>1, <2>3, <2>6, SameVideo
        <3>2. v \in announced \/ status[v] = "PROCESSING"
            BY <3>1 DEF PreprocessingInv, Held
        <3> QED
            BY <1>2, <2>1, <3>2 DEF Claimed
    <2>7. ASSUME NEW x \in Consumers \ {w}, NEW y \in Consumers \ {w}, x # y,
                 pc'[x] \in Working, pc'[y] \in Working,
                 VideoInHand(x)' = VideoInHand(y)'
          PROVE  VideoInHand(x)' \in announced'
        <3>1. /\ VideoInHand(x)' = VideoInHand(x) /\ pc[x] \in Working
              /\ VideoInHand(y)' = VideoInHand(y) /\ pc[y] \in Working
            BY <2>1, <2>3, <2>7, SameVideo
        <3> QED
            BY <2>1, <2>7, <3>1 DEF PreprocessingInv, ClaimedByOne
    <2>8. ClaimedByOne'
        BY <2>6, <2>7 DEF ClaimedByOne
    <2> QED
        BY <2>1, <2>2, <2>4, <2>5, <2>8, AnnouncedStays DEF ClaimOK
<1>7. CASE QuarantineAndFail(w)
    <2>1. /\ pc[w] = "reject"
          /\ Mark(v, "FAILED")
          /\ Goto(w, "ack")
          /\ stored' = stored /\ announced' = announced
          /\ hand' = hand
        BY <1>7 DEF QuarantineAndFail, brokerVars, v
    <2>2. pc'[w] = "ack" /\ \A x \in Consumers \ {w} : pc'[x] = pc[x]
        BY <1>3, <2>1 DEF Goto
    <2>3. NoNewWorker
        BY <2>1, <2>2, SameVideo DEF NoNewWorker, Working
    <2>4. ASSUME NEW x \in Consumers \ {w}, pc[x] \in Working
          PROVE  Held(x)'
        <3>1. /\ VideoInHand(x) \in Videos
              /\ VideoInHand(x)' = VideoInHand(x)
              /\ Held(x)
            BY <2>1, <2>4, SameVideo, HandFacts DEF PreprocessingInv, Working
        \* Nobody else works on the video, unless its frames are out.
        <3>2. VideoInHand(x) \in announced \/ VideoInHand(x) # v
            BY <2>1, <2>4 DEF PreprocessingInv, ClaimedByOne, Working, v
        <3> QED
            BY <1>4, <1>5, <2>1, <2>2, <2>4, <3>1, <3>2 DEF Held
    <2>5. \A x \in Consumers : Held(x)'
        BY <2>2, <2>4 DEF Held, Working
    <2>6. AnnouncedIsStored' /\ AnnouncedIsRecorded'
        BY <1>4, <1>5, <2>1
        DEF PreprocessingInv, PreprocessingTypeOK, AnnouncedIsStored,
            AnnouncedIsRecorded
    <2> QED
        BY <2>1, <2>3, <2>5, <2>6, ClaimStays DEF PreprocessingInv, ClaimOK
<1>8. CASE MarkProcessing(w) \/ MarkPreprocessed(w)
    <2>1. /\ stored' = stored /\ announced' = announced
          /\ hand' = hand
        BY <1>8 DEF MarkProcessing, MarkPreprocessed, brokerVars
    <2>2. CASE MarkProcessing(w)
        <3>1. pc[w] = "mark" /\ Mark(v, "PROCESSING") /\ Goto(w, "work")
            BY <2>2 DEF MarkProcessing, v
        <3>2. status[v] # Absent
            BY <1>3, <3>1 DEF Held, Working, v
        <3>3. /\ status'[v] = "PROCESSING"
              /\ \A u \in Videos \ {v} : status'[u] = status[u]
              /\ \A u \in Videos : status[u] # Absent => status'[u] # Absent
            BY <1>4, <1>5, <3>1, <3>2
        <3>4. StatusKept
            BY <2>1, <3>3 DEF StatusKept
        <3>5. pc'[w] = "work"
            BY <1>3, <3>1 DEF Goto
        <3>6. Held(w)'
            BY <1>2, <2>1, <3>3, <3>5 DEF Held, Absent
        <3> QED
            BY <2>1, <3>1, <3>4, <3>6, OneMoves, AnnouncedStays
            DEF ClaimOK, Working
    <2>3. CASE MarkPreprocessed(w)
        <3>1. pc[w] = "finish" /\ Mark(v, "PREPROCESSED") /\ Goto(w, "ack")
            BY <2>3 DEF MarkPreprocessed, v
        <3>2. v \in announced
            BY <1>3, <3>1 DEF Held, Working, v
        <3>3. StatusKept
            BY <1>4, <1>5, <2>1, <3>1, <3>2 DEF StatusKept
        <3> QED
            BY <2>1, <3>1, <3>3, OneMoves, AnnouncedStays DEF ClaimOK, Working
    <2> QED
        BY <1>8, <2>2, <2>3
<1>9. CASE RunStages(w) \/ Store(w) \/ PublishFrames(w)
    <2>1. /\ pc[w] \in {"work", "store", "publish"}
          /\ status' = status /\ hand' = hand
          /\ pc[w] = "store" => stored' = stored \cup {v}
          /\ pc[w] = "publish" => announced' = announced \cup {v}
          /\ pc[w] # "store" => stored' = stored
          /\ pc[w] # "publish" => announced' = announced
        BY <1>9 DEF RunStages, Store, PublishFrames, pipelineVars, brokerVars, v
    <2>2. PICK l \in {"store", "publish", "finish"} :
              /\ Goto(w, l)
              /\ l = "publish" => pc[w] = "store"
              /\ l = "finish" => pc[w] = "publish"
        BY <1>9 DEF RunStages, Store, PublishFrames
    <2>3. StatusKept
        BY <2>1 DEF StatusKept
    <2>4. Held(w)'
        <3>1. pc'[w] = l
            BY <1>3, <2>2 DEF Goto
        <3>2. /\ status[v] # Absent
              /\ v \in announced \/ status[v] = "PROCESSING"
            BY <1>3, <2>1 DEF Held, Working, v
        <3> QED
            BY <1>2, <2>1, <2>2, <3>1, <3>2 DEF Held
    <2>5. ClaimedByOne' /\ \A x \in Consumers : Held(x)'
        BY <2>1, <2>2, <2>3, <2>4, OneMoves DEF Working
    <2>6. AnnouncedIsStored' /\ AnnouncedIsRecorded'
        BY <2>1, <2>3, AnnouncedStays DEF v
    <2> QED
        BY <2>5, <2>6 DEF ClaimOK
<1>10. CASE RefuseClaim(w) \/ AckVideo(w)
    <2>1. UNCHANGED pipelineVars
        BY <1>10 DEF RefuseClaim, AckVideo
    <2>2. PICK l \in {"ack", "idle"} : Goto(w, l)
        BY <1>10 DEF RefuseClaim, AckVideo
    <2>3. \A x \in Consumers \ {w} : hand'[x] = hand[x]
        BY <1>10 DEF RefuseClaim, AckVideo, brokerVars, Ack, Release,
            PreprocessingInv, PreprocessingTypeOK, QueueTypeOK
    <2> QED
        BY <2>1, <2>2, <2>3, PipelineSame, OneMoves, AnnouncedStays
        DEF ClaimOK, Working, pipelineVars
<1> QED
    BY <1>6, <1>7, <1>8, <1>9, <1>10 DEF Process

LEMMA FailureStep ==
    ASSUME PreprocessingInv, LogGrows, NEW w \in Consumers, Failure(w)
    PROVE  ClaimOK'
<1>1. hand \in [Consumers -> Messages \cup {None}]
    BY DEF PreprocessingInv, PreprocessingTypeOK, QueueTypeOK
<1>2. CASE LoseConnection(w)
    BY <1>2, PipelineSame, NobodyMoves, AnnouncedStays
    DEF LoseConnection, ConnectionLost, ClaimOK, pipelineVars
<1>3. CASE WorkRefused(w)
    <2>1. /\ UNCHANGED pipelineVars
          /\ hand' = hand
          /\ pc[w] = "work"
          /\ Goto(w, "reject")
        BY <1>3 DEF WorkRefused, brokerVars
    <2>2. Held(w)'
        <3>1. VideoInHand(w)' = VideoInHand(w) /\ Held(w)
            BY <2>1, SameVideo DEF PreprocessingInv, Working
        <3>2. pc'[w] = "reject"
            BY <2>1 DEF Goto, PreprocessingInv, PreprocessingTypeOK
        <3> QED
            BY <2>1, <3>1, <3>2 DEF Held, Working, pipelineVars
    <2> QED
        BY <2>1, <2>2, PipelineSame, OneMoves, AnnouncedStays
        DEF ClaimOK, Working, pipelineVars
\* The handler ends; PublishBroken may have announced its video.
<1>4. CASE \/ WorkRetried(w) \/ StoreBroken(w) \/ PublishBroken(w)
           \/ Unexpected(w) \/ CrashWorker(w)
    <2>1. /\ Goto(w, "idle")
          /\ \A x \in Consumers \ {w} : hand'[x] = hand[x]
        BY <1>1, <1>4 DEF WorkRetried, StoreBroken, PublishBroken, Unexpected,
            CrashWorker, Requeue, DeadLetter, Release, Crash
    <2>2. /\ status' = status /\ stored' = stored
          /\ \/ announced' = announced
             \/ pc[w] = "publish" /\ announced' = announced \cup {VideoInHand(w)}
        BY <1>4 DEF WorkRetried, StoreBroken, PublishBroken, Unexpected,
            CrashWorker, pipelineVars
    <2>3. StatusKept
        BY <2>2 DEF StatusKept
    <2> QED
        BY <2>1, <2>2, <2>3, OneMoves, AnnouncedStays DEF ClaimOK, Working
<1> QED
    BY <1>2, <1>3, <1>4 DEF Failure

LEMMA OthersStep ==
    ASSUME LaterStatusesOK, PreprocessingInv, LogGrows, Others
    PROVE  ClaimOK'
<1>1. /\ pc' = pc /\ hand' = hand
      /\ stored' = stored /\ announced' = announced
    BY DEF Others, IngestionCommits, PublishEvent, DownstreamMarks, Publish,
        pipelineVars, brokerVars
<1>2. status \in [Videos -> VideoStatuses \cup {Absent}]
    BY DEF PreprocessingInv, PreprocessingTypeOK
<1>3. StatusKept
    <2>1. ASSUME NEW v \in Videos, IngestionCommits(v) PROVE StatusKept
        BY <1>1, <1>2, <2>1 DEF IngestionCommits, StatusKept, Absent
    <2>2. ASSUME NEW v \in Videos, NEW s \in LaterStatuses, DownstreamMarks(v, s)
          PROVE  StatusKept
        <3>1. v \in announced /\ s # Absent
            BY <2>2 DEF DownstreamMarks, LaterStatusesOK, VideoStatuses, Absent
        <3> QED
            BY <1>1, <1>2, <2>2, <3>1
            DEF DownstreamMarks, Mark, Marked, StatusKept
    <2>3. ASSUME NEW v \in Videos, PublishEvent(v) PROVE StatusKept
        BY <2>3, PipelineSame DEF PublishEvent
    <2> QED
        BY <2>1, <2>2, <2>3 DEF Others
<1>4. AnnouncedIsStored' /\ AnnouncedIsRecorded'
    BY <1>1, <1>3 DEF PreprocessingInv, PreprocessingTypeOK, AnnouncedIsStored,
        AnnouncedIsRecorded, StatusKept
<1> QED
    BY <1>1, <1>3, <1>4, NobodyMoves DEF ClaimOK

LEMMA InvStep ==
    ASSUME LaterStatusesOK, PreprocessingInv, [PreprocessingNext]_vars
    PROVE  PreprocessingInv'
<1>1. PreprocessingTypeOK' /\ QueueInv' /\ LogGrows
    BY TypeStep, QueueStep DEF PreprocessingInv
<1>2. hand \in [Consumers -> Messages \cup {None}]
    BY DEF PreprocessingInv, PreprocessingTypeOK, QueueTypeOK
<1>3. ASSUME NEW w \in Consumers, Receive(w) \/ RestartWorker(w)
      PROVE  ClaimOK'
    BY <1>1, <1>3, PipelineSame, NobodyMoves, AnnouncedStays
    DEF Receive, RestartWorker, Deliver, Restart, ClaimOK, pipelineVars
<1>4. ASSUME NEW w \in Consumers, Start(w)
      PROVE  ClaimOK'
    <2>1. /\ Goto(w, "claim")
          /\ UNCHANGED pipelineVars
          /\ \A x \in Consumers \ {w} : hand'[x] = hand[x]
        BY <1>2, <1>4 DEF Start, Take
    <2> QED
        BY <1>1, <2>1, PipelineSame, OneMoves, AnnouncedStays
        DEF ClaimOK, Working, pipelineVars
<1>5. ASSUME UNCHANGED vars
      PROVE  ClaimOK'
    <2>1. /\ UNCHANGED pipelineVars
          /\ pc' = pc /\ hand' = hand
        BY <1>5 DEF vars, brokerVars
    <2>2. AnnouncedIsStored' /\ AnnouncedIsRecorded'
        BY <2>1 DEF PreprocessingInv, AnnouncedIsStored, AnnouncedIsRecorded,
            pipelineVars
    <2> QED
        BY <1>1, <2>1, <2>2, PipelineSame, NobodyMoves DEF ClaimOK
<1>6. ClaimOK'
    BY <1>1, <1>3, <1>4, <1>5, ProcessStep, FailureStep, OthersStep
    DEF PreprocessingNext, Worker
<1> QED
    BY <1>1, <1>6 DEF ClaimOK, PreprocessingInv

LEMMA InvInit ==
    ASSUME PreprocessingInit
    PROVE  PreprocessingInv
<1>1. QueueInv
    BY InitQueue DEF PreprocessingInit
<1>2. /\ log = << >>
      /\ hand = [w \in Consumers |-> None]
      /\ status = [v \in Videos |-> Absent]
      /\ stored = {} /\ announced = {}
      /\ pc = [w \in Consumers |-> "idle"]
    BY DEF PreprocessingInit, BrokerInit
<1>3. PreprocessingTypeOK
    BY <1>1, <1>2, EmptySeq DEF PreprocessingTypeOK, QueueInv, Locations
<1> QED
    BY <1>1, <1>2, <1>3 DEF PreprocessingInv, AnnouncedIsStored,
        AnnouncedIsRecorded, ClaimedByOne, Held, Working

LEMMA InvHolds ==
    ASSUME LaterStatusesOK
    PROVE  PreprocessingSpec => []PreprocessingInv
<1>1. PreprocessingInit => PreprocessingInv
    BY InvInit
<1>2. PreprocessingInv /\ [PreprocessingNext]_vars => PreprocessingInv'
    BY InvStep
<1> QED
    BY <1>1, <1>2, PTL DEF PreprocessingSpec

\* The workers, the queue and the row keep to their types.
THEOREM PreprocessingTypes ==
    ASSUME LaterStatusesOK
    PROVE  PreprocessingSpec => []PreprocessingTypeOK
<1>1. PreprocessingInv => PreprocessingTypeOK
    BY DEF PreprocessingInv
<1> QED
    BY <1>1, InvHolds, PTL

\* The row lock and the status written under it are enough for mutual
\* exclusion (_claim_for_processing): whatever is redelivered, lost or retried,
\* a video whose frames are not announced has at most one worker.
THEOREM PreprocessingClaims ==
    ASSUME LaterStatusesOK
    PROVE  PreprocessingSpec => []ClaimedByOne
<1>1. PreprocessingInv => ClaimedByOne
    BY DEF PreprocessingInv
<1> QED
    BY <1>1, InvHolds, PTL

\* What is announced to detection is in MinIO (_persist_artifacts).
THEOREM PreprocessingAnnounces ==
    ASSUME LaterStatusesOK
    PROVE  PreprocessingSpec => []AnnouncedIsStored
<1>1. PreprocessingInv => AnnouncedIsStored
    BY DEF PreprocessingInv
<1> QED
    BY <1>1, InvHolds, PTL

\* What is announced to detection has a row: the claim finds no video whose
\* transaction was rolled back, and nobody removes a row.
THEOREM PreprocessingRecorded ==
    ASSUME LaterStatusesOK
    PROVE  PreprocessingSpec => []AnnouncedIsRecorded
<1>1. PreprocessingInv => AnnouncedIsRecorded
    BY DEF PreprocessingInv
<1> QED
    BY <1>1, InvHolds, PTL
=============================================================================
