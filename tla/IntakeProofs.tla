---------------------------- MODULE IntakeProofs ----------------------------
(***************************************************************************)
(* Theorems about ingestion and preprocessing working together, for any    *)
(* uploads and contents, any number of preprocessing workers, and every    *)
(* combination of faults.                                                  *)
(*                                                                         *)
(* First what ingestion's transactions, cleanups and crashes preserve,     *)
(* then that each step of Intake is one that module Preprocessing allows   *)
(* for, and last what follows from the theorems about preprocessing.       *)
(***************************************************************************)
EXTENDS Intake, FiniteSetTheorems, SequenceTheorems, TLAPS

Proved == INSTANCE PreprocessingProofs WITH
    Consumers <- Workers, Videos <- Requests, Faults <- WorkFaults,
    pc <- workerPc, MaxEvents <- Cardinality(Requests)

\* Two transactions that are open at the same time insert different keys.
OneTransactionPerKey ==
    \A q, r \in pending : Key(q) = Key(r) => q = r

\* What a request has done, and not done yet, at each stage of _run_pipeline.
\* The object of a failed insert may be deleted because neither a row nor an
\* event refers to it; a row may be committed because nobody else can have
\* committed one with the same key since it was inserted.
RequestOK(r) ==
    /\ pc[r] \in {"insert", "publish", "commit"} => r \in objects
    /\ pc[r] \in {"publish", "commit"} => r \in pending /\ ~ Taken(r)
    /\ pc[r] \notin {"commit", "done"} => r \notin published
    /\ pc[r] # "done" => ~ Recorded(r)

\* A duplicate response names a video.
DuplicatesNamed ==
    \A r \in Requests : answer[r] = "duplicate" => original[r] \in Requests

IngestionInv ==
    /\ IngestionTypeOK
    /\ DuplicatesNamed
    /\ OneTransactionPerKey
    /\ \A r \in Requests : RequestOK(r)
    /\ ReferencedObjectsExist
    /\ OneRecordPerContent
    /\ DuplicatesAreRecorded

-----------------------------------------------------------------------------
(* The steps of ingestion                                                  *)

LEMMA IngestionStart ==
    ASSUME IngestionInit
    PROVE  IngestionInv
BY DEF IngestionInit, IngestionInv, IngestionTypeOK, OneTransactionPerKey,
       DuplicatesNamed, RequestOK, ReferencedObjectsExist, OneRecordPerContent,
       DuplicatesAreRecorded, Recorded, Absent, VideoStatuses, Stages, Answers

\* An answer ends its request and the transaction it has open.
LEMMA AnswerFacts ==
    ASSUME IngestionTypeOK, NEW r \in Requests, NEW a, Answer(r, a)
    PROVE  /\ pc'[r] = "done" /\ \A q \in Requests \ {r} : pc'[q] = pc[q]
           /\ answer'[r] = a /\ \A q \in Requests \ {r} : answer'[q] = answer[q]
           /\ pending' = pending \ {r}
           /\ pc' \in [Requests -> Stages]
           /\ a \in Answers => answer' \in [Requests -> Answers]
BY DEF Answer, Goto, IngestionTypeOK, Stages

LEMMA GotoFacts ==
    ASSUME IngestionTypeOK, NEW r \in Requests, NEW s \in Stages, Goto(r, s)
    PROVE  /\ pc'[r] = s /\ \A q \in Requests \ {r} : pc'[q] = pc[q]
           /\ pc' \in [Requests -> Stages]
BY DEF Goto, IngestionTypeOK

\* The other requests notice nothing of a step of r, except that they can not
\* have the key of a row that it commits.
LEMMA OthersKeep ==
    ASSUME IngestionInv, NEW r \in Requests, NEW q \in Requests \ {r},
           pc'[q] = pc[q],
           q \in objects => q \in objects',
           q \in pending => q \in pending',
           q \in published' => q \in published,
           \/ status' = status
           \/ r \in pending /\ status' = [status EXCEPT ![r] = "PENDING"]
    PROVE  RequestOK(q)'
<1>1. /\ RequestOK(q)
      /\ status \in [Requests -> VideoStatuses \cup {Absent}]
      /\ q \in pending /\ r \in pending => Key(q) # Key(r)
    BY DEF IngestionInv, IngestionTypeOK, OneTransactionPerKey
<1>2. Recorded(q)' <=> Recorded(q)
    BY <1>1 DEF Recorded
<1>3. q \in pending /\ ~ Taken(q) => ~ Taken(q)'
    BY <1>1 DEF Taken, Recorded, Key
<1> QED
    BY <1>1, <1>2, <1>3 DEF RequestOK

\* Steps that commit no row: what they have to show.
LEMMA UncommittedStep ==
    ASSUME IngestionInv, NEW r \in Requests, IngestionTypeOK',
           status' = status,
           \A q \in Requests \ {r} : pc'[q] = pc[q],
           objects \ {r} \subseteq objects',
           pending \ {r} \subseteq pending',
           published' \subseteq published \cup {r},
           RequestOK(r)',
           OneTransactionPerKey',
           Recorded(r) \/ r \in published' => r \in objects',
           \A q \in Requests : answer'[q] = "duplicate" =>
               \/ answer[q] = "duplicate" /\ original'[q] = original[q]
               \/ /\ original'[q] \in Requests
                  /\ Recorded(original'[q]) /\ Key(original'[q]) = Key(q)
    PROVE  IngestionInv'
<1>1. \A q \in Requests \ {r} : RequestOK(q)'
    BY OthersKeep
<1>2. ReferencedObjectsExist'
    BY DEF IngestionInv, ReferencedObjectsExist, Recorded
<1>3. OneRecordPerContent'
    BY DEF IngestionInv, OneRecordPerContent, Recorded, Key
<1>4. DuplicatesAreRecorded'
    BY DEF IngestionInv, DuplicatesAreRecorded, Recorded, Key
<1>5. DuplicatesNamed'
    BY DEF IngestionInv, DuplicatesNamed
<1> QED
    BY <1>1, <1>2, <1>3, <1>4, <1>5 DEF IngestionInv

\* The end of a request that leaves no row behind.
LEMMA EndStep ==
    ASSUME IngestionInv, NEW r \in Requests, NEW a \in Answers, Answer(r, a),
           status' = status, published' = published,
           objects \ {r} \subseteq objects',
           objects' \subseteq objects \cup {r},
           r \in published => r \in objects',
           Recorded(r) => r \in objects',
           \/ a # "duplicate" /\ original' = original
           \/ \E v \in Requests :
                 /\ Recorded(v) /\ Key(v) = Key(r)
                 /\ original' = [original EXCEPT ![r] = v]
    PROVE  IngestionInv'
<1>1. /\ pc'[r] = "done" /\ \A q \in Requests \ {r} : pc'[q] = pc[q]
      /\ answer'[r] = a /\ \A q \in Requests \ {r} : answer'[q] = answer[q]
      /\ pending' = pending \ {r}
      /\ pc' \in [Requests -> Stages]
      /\ answer' \in [Requests -> Answers]
    BY AnswerFacts DEF IngestionInv
<1>2. IngestionTypeOK'
    BY <1>1 DEF IngestionInv, IngestionTypeOK
<1>3. RequestOK(r)'
    BY <1>1 DEF RequestOK
<1>4. OneTransactionPerKey'
    BY <1>1 DEF IngestionInv, OneTransactionPerKey, Key
<1>5. ASSUME NEW q \in Requests, answer'[q] = "duplicate"
      PROVE  \/ answer[q] = "duplicate" /\ original'[q] = original[q]
             \/ /\ original'[q] \in Requests
                /\ Recorded(original'[q]) /\ Key(original'[q]) = Key(q)
    BY <1>1, <1>5 DEF IngestionInv, IngestionTypeOK
<1> QED
    BY <1>1, <1>2, <1>3, <1>4, <1>5, UncommittedStep

LEMMA RequestStepKeeps ==
    ASSUME IngestionInv, NEW r \in Requests, Request(r)
    PROVE  IngestionInv'
<1>1. /\ IngestionTypeOK
      /\ RequestOK(r)
      /\ Recorded(r) \/ r \in published => r \in objects
    BY DEF IngestionInv, ReferencedObjectsExist
\* The request goes on and answers nothing.
<1>2. ASSUME NEW s \in Stages, Goto(r, s), status' = status,
             UNCHANGED answerVars,
             objects \subseteq objects', objects' \subseteq objects \cup {r},
             published \subseteq published', published' \subseteq published \cup {r},
             r \in published' => r \in objects',
             \/ pending' = pending
             \/ pending' = pending \cup {r} /\ ~ Locked(r),
             r \in pending' => s \in {"report", "publish", "commit"},
             pc'[r] = s => RequestOK(r)'
      PROVE  IngestionInv'
    <2>1. /\ pc'[r] = s /\ \A q \in Requests \ {r} : pc'[q] = pc[q]
          /\ pc' \in [Requests -> Stages]
        BY <1>1, <1>2, GotoFacts
    <2>2. IngestionTypeOK'
        BY <1>1, <1>2, <2>1 DEF IngestionTypeOK, answerVars
    <2>3. OneTransactionPerKey'
        BY <1>2 DEF IngestionInv, OneTransactionPerKey, Locked, Key
    <2>4. UNCHANGED <<answer, original>>
        BY <1>2 DEF answerVars
    <2> QED
        BY <1>1, <1>2, <2>1, <2>2, <2>3, <2>4, UncommittedStep
<1> USE DEF rowVars, answerVars
<1>3. CASE Quarantine(r) \/ FindNothing(r)
    <2>1. \E s \in Stages : Goto(r, s) /\ s \in {"record", "upload"}
        BY <1>3 DEF Quarantine, FindNothing, Stages
    <2>2. UNCHANGED <<rowVars, objects, published, answerVars>>
        BY <1>3 DEF Quarantine, FindNothing
    <2>3. pc[r] = "received" /\ r \notin pending
        BY <1>1, <1>3 DEF Quarantine, FindNothing, IngestionTypeOK
    <2> QED
        BY <1>1, <1>2, <2>1, <2>2, <2>3 DEF RequestOK, Recorded
<1>4. CASE RecordRejection(r)
    <2>1. Goto(r, "report") /\ pc[r] = "record" /\ "report" \in Stages
        BY <1>4 DEF RecordRejection, Stages
    <2> QED
        BY <1>1, <1>2, <1>4, <2>1 DEF RecordRejection, RequestOK, Recorded
<1>5. CASE Reject(r) \/ LookupFails(r) \/ UploadFails(r) \/ CommitFails(r)
    <2>1. \E a \in Answers : Answer(r, a) /\ a # "duplicate"
        BY <1>5 DEF Reject, LookupFails, UploadFails, CommitFails, Answers
    <2>2. /\ UNCHANGED <<status, published, original>>
          /\ objects \subseteq objects' /\ objects' \subseteq objects \cup {r}
        BY <1>5 DEF Reject, LookupFails, UploadFails, CommitFails
    <2> QED
        BY <1>1, <2>1, <2>2, EndStep
<1>6. CASE FindDuplicate(r)
    <2>1. /\ Answer(r, "duplicate") /\ "duplicate" \in Answers
          /\ UNCHANGED <<status, objects, published>>
          /\ \E v \in Requests :
                /\ Recorded(v) /\ Key(v) = Key(r)
                /\ original' = [original EXCEPT ![r] = v]
        BY <1>6 DEF FindDuplicate, Answers
    <2> QED
        BY <1>1, <2>1, EndStep
<1>7. CASE Upload(r)
    <2>1. Goto(r, "insert") /\ pc[r] = "upload" /\ "insert" \in Stages
        BY <1>7 DEF Upload, Stages
    <2>2. r \notin pending
        BY <1>1, <2>1 DEF IngestionTypeOK
    <2> QED
        BY <1>1, <1>2, <1>7, <2>1, <2>2 DEF Upload, RequestOK, Recorded
<1>8. CASE Insert(r)
    <2>1. Goto(r, "publish") /\ pc[r] = "insert" /\ "publish" \in Stages
        BY <1>8 DEF Insert, Stages
    <2>2. ~ Taken(r)' /\ status' = status
        BY <1>8 DEF Insert, Taken, Recorded, Key
    <2> QED
        BY <1>1, <1>2, <1>8, <2>1, <2>2 DEF Insert, RequestOK, Recorded
<1>9. CASE InsertFails(r)
    <2>1. Goto(r, "cleanup") /\ pc[r] = "insert" /\ "cleanup" \in Stages
        BY <1>9 DEF InsertFails, Stages
    <2>2. r \notin pending
        BY <1>1, <2>1 DEF IngestionTypeOK
    <2> QED
        BY <1>1, <1>2, <1>9, <2>1, <2>2 DEF InsertFails, RequestOK, Recorded
\* The object that goes is one that nothing refers to.
<1>10. CASE DeleteObject(r)
    <2>1. r \notin published /\ ~ Recorded(r)
        BY <1>1, <1>10 DEF DeleteObject, RequestOK
    <2>2. /\ Answer(r, "error") /\ "error" \in Answers
          /\ UNCHANGED <<status, published, original>>
          /\ objects \ {r} \subseteq objects' /\ objects' \subseteq objects
        BY <1>10 DEF DeleteObject, Answers
    <2> QED
        BY <2>1, <2>2, EndStep
<1>11. CASE PublishEvent(r) \/ PublishFails(r)
    <2>1. Goto(r, "commit") /\ pc[r] = "publish" /\ "commit" \in Stages
        BY <1>11 DEF PublishEvent, PublishFails, Stages
    <2>2. /\ UNCHANGED <<rowVars, objects, answerVars>>
          /\ published \subseteq published' /\ published' \subseteq published \cup {r}
        BY <1>11 DEF PublishEvent, PublishFails
    <2>3. ~ Taken(r)' /\ r \in objects /\ r \in pending /\ ~ Recorded(r)'
        BY <1>1, <2>1, <2>2 DEF RequestOK, Taken, Recorded, Key
    <2> QED
        BY <1>1, <1>2, <2>1, <2>2, <2>3 DEF RequestOK
<1>12. CASE Commit(r)
    <2>1. /\ pc[r] = "commit"
          /\ status' = [status EXCEPT ![r] = "PENDING"]
          /\ Answer(r, "accepted") /\ "accepted" \in Answers
          /\ UNCHANGED <<objects, published, original>>
        BY <1>12 DEF Commit, Answers
    <2>2. /\ r \in objects /\ r \in pending /\ ~ Taken(r)
        BY <1>1, <2>1 DEF RequestOK
    <2>3. /\ pc'[r] = "done" /\ \A q \in Requests \ {r} : pc'[q] = pc[q]
          /\ answer'[r] = "accepted"
          /\ \A q \in Requests \ {r} : answer'[q] = answer[q]
          /\ pending' = pending \ {r}
          /\ pc' \in [Requests -> Stages]
          /\ answer' \in [Requests -> Answers]
        BY <1>1, <2>1, AnswerFacts
    <2>4. /\ status'[r] = "PENDING" /\ Recorded(r)'
          /\ \A q \in Requests \ {r} : status'[q] = status[q]
          /\ \A q \in Requests : Recorded(q) => Recorded(q)'
          /\ \A q \in Requests \ {r} : Recorded(q)' => Recorded(q)
        BY <1>1, <2>1 DEF IngestionTypeOK, Recorded, Absent
    <2>5. IngestionTypeOK'
        BY <1>1, <2>1, <2>3 DEF IngestionTypeOK, VideoStatuses
    <2>6. OneTransactionPerKey'
        BY <2>3 DEF IngestionInv, OneTransactionPerKey, Key
    <2>7. \A q \in Requests \ {r} : RequestOK(q)'
        BY <2>1, <2>2, <2>3, OthersKeep
    <2>8. RequestOK(r)'
        BY <2>3 DEF RequestOK
    <2>9. ReferencedObjectsExist'
        BY <2>1, <2>2, <2>4 DEF IngestionInv, ReferencedObjectsExist
    <2>10. OneRecordPerContent'
        BY <2>2, <2>4 DEF IngestionInv, OneRecordPerContent, Taken, Key
    <2>11. DuplicatesNamed' /\ DuplicatesAreRecorded'
        <3>1. ASSUME NEW q \in Requests, answer'[q] = "duplicate"
              PROVE  /\ original'[q] \in Requests
                     /\ status'[original'[q]] # Absent
                     /\ Key(original'[q]) = Key(q)
            <4>1. answer[q] = "duplicate" /\ original'[q] = original[q]
                BY <2>1, <2>3, <3>1
            <4>2. /\ original[q] \in Requests
                  /\ Recorded(original[q])
                  /\ Key(original[q]) = Key(q)
                BY <4>1 DEF IngestionInv, DuplicatesNamed, DuplicatesAreRecorded
            <4> QED
                BY <2>4, <4>1, <4>2 DEF Recorded
        <3> QED
            BY <3>1 DEF DuplicatesNamed, DuplicatesAreRecorded, Recorded, Key
    <2> QED
        BY <2>5, <2>6, <2>7, <2>8, <2>9, <2>10, <2>11 DEF IngestionInv
<1> QED
    BY <1>3, <1>4, <1>5, <1>6, <1>7, <1>8, <1>9, <1>10, <1>11, <1>12 DEF Request

\* A crash takes the open transactions with it, and nothing else.
LEMMA CrashKeeps ==
    ASSUME IngestionInv, CrashIngestion
    PROVE  IngestionInv'
<1>1. /\ pending' = {}
      /\ \A r \in Requests : pc'[r] \in {pc[r], "done"}
      /\ \A r \in Requests : pc'[r] \in {"received", "done"}
      /\ pc' \in [Requests -> Stages]
      /\ UNCHANGED <<status, objects, published, answer, original>>
    BY DEF CrashIngestion, answerVars, IngestionInv, IngestionTypeOK, Stages
<1>2. IngestionTypeOK'
    BY <1>1 DEF IngestionInv, IngestionTypeOK
<1>3. \A r \in Requests : RequestOK(r)'
    BY <1>1 DEF IngestionInv, RequestOK, Recorded
<1>4. OneTransactionPerKey'
    BY <1>1 DEF OneTransactionPerKey
<1>5. /\ ReferencedObjectsExist'
      /\ OneRecordPerContent'
      /\ DuplicatesNamed'
      /\ DuplicatesAreRecorded'
    BY <1>1 DEF IngestionInv, ReferencedObjectsExist, OneRecordPerContent,
        DuplicatesNamed, DuplicatesAreRecorded, Recorded, Key
<1> QED
    BY <1>2, <1>3, <1>4, <1>5 DEF IngestionInv

\* The services behind ingestion write over the status of rows that are there.
LEMMA MarkKeeps ==
    ASSUME IngestionInv, UNCHANGED ingestVars,
           \/ status' = status
           \/ \E v, s : /\ s \in VideoStatuses
                        /\ status' = [status EXCEPT ![v] = Marked(@, s)]
    PROVE  IngestionInv'
<1>1. UNCHANGED <<pending, objects, published, pc, answer, original>>
    BY DEF ingestVars, answerVars
<1>2. status \in [Requests -> VideoStatuses \cup {Absent}]
    BY DEF IngestionInv, IngestionTypeOK
<1>3. /\ status' \in [Requests -> VideoStatuses \cup {Absent}]
      /\ \A v \in Requests : status'[v] # Absent <=> status[v] # Absent
    BY <1>2 DEF Marked, Absent, VideoStatuses
<1>4. \A v \in Requests : Recorded(v)' <=> Recorded(v)
    BY <1>3 DEF Recorded
<1>5. \A r \in Requests : Taken(r)' <=> Taken(r)
    BY <1>4 DEF Taken, Key
<1>6. IngestionTypeOK' /\ OneTransactionPerKey'
    BY <1>1, <1>3
    DEF IngestionInv, IngestionTypeOK, OneTransactionPerKey, Key
<1>7. \A r \in Requests : RequestOK(r)'
    BY <1>1, <1>4, <1>5 DEF IngestionInv, RequestOK
<1>8. ReferencedObjectsExist' /\ OneRecordPerContent'
    BY <1>1, <1>4
    DEF IngestionInv, ReferencedObjectsExist, OneRecordPerContent, Key
<1>9. DuplicatesNamed' /\ DuplicatesAreRecorded'
    BY <1>1, <1>4
    DEF IngestionInv, DuplicatesNamed, DuplicatesAreRecorded, Key
<1> QED
    BY <1>6, <1>7, <1>8, <1>9 DEF IngestionInv

-----------------------------------------------------------------------------
(* Ingestion by itself                                                     *)

\* Ingestion keeps its promises beside services that write any status to its
\* rows at any time: an object for every row, one row per content, and no
\* duplicate answer without a recorded original.
THEOREM IngestionAlone ==
    IngestionSpec => []( /\ IngestionTypeOK /\ ReferencedObjectsExist
                         /\ OneRecordPerContent /\ DuplicatesAreRecorded )
<1>1. IngestionInit => IngestionInv
    BY IngestionStart
<1>2. IngestionInv /\ [IngestionNext]_vars => IngestionInv'
    <2> SUFFICES ASSUME IngestionInv, [IngestionNext]_vars
                 PROVE  IngestionInv'
        OBVIOUS
    <2>1. ASSUME UNCHANGED vars
          PROVE  status' = status /\ UNCHANGED ingestVars
        BY <2>1 DEF vars, rowVars, ingestVars
    <2> QED
        BY <2>1, RequestStepKeeps, CrashKeeps, MarkKeeps DEF IngestionNext
<1>3. IngestionInv => /\ IngestionTypeOK /\ ReferencedObjectsExist
                      /\ OneRecordPerContent /\ DuplicatesAreRecorded
    BY DEF IngestionInv
<1> QED
    BY <1>1, <1>2, <1>3, PTL DEF IngestionSpec

-----------------------------------------------------------------------------
(* Both services                                                           *)

\* The queue holds one message for every event that was published.
IntakeInv ==
    /\ IngestionInv
    /\ log \in Seq(Requests)
    /\ Len(log) = Cardinality(published)

\* What a request does to what preprocessing shares with it.
LEMMA RequestFacts ==
    ASSUME NEW r \in Requests, Request(r)
    PROVE  \/ status' = status /\ published' = published
           \/ /\ pc[r] = "publish"
              /\ status' = status /\ published' = published \cup {r}
           \/ /\ pc[r] = "commit"
              /\ status' = [status EXCEPT ![r] = "PENDING"]
              /\ published' = published
BY DEF Request, Quarantine, RecordRejection, Reject, FindDuplicate, FindNothing,
       LookupFails, Upload, UploadFails, Insert, InsertFails, DeleteObject,
       PublishEvent, PublishFails, Commit, CommitFails, rowVars

\* Preprocessing writes the status of rows that exist, and no messages.
LEMMA WorkFacts ==
    ASSUME NEW w \in Workers, Pre!Worker(w)
    PROVE  /\ log' = log
           /\ \/ status' = status
              \/ \E v, s : /\ s \in VideoStatuses
                           /\ status' = [status EXCEPT ![v] = Marked(@, s)]
<1>1. log' = log
    BY DEF Pre!Worker, Pre!Process, Pre!Failure, Pre!Receive, Pre!Start,
        Pre!RestartWorker, Pre!Claim, Pre!RefuseClaim, Pre!MarkProcessing,
        Pre!RunStages, Pre!Store, Pre!PublishFrames, Pre!MarkPreprocessed,
        Pre!QuarantineAndFail, Pre!AckVideo, Pre!WorkRetried, Pre!WorkRefused,
        Pre!StoreBroken, Pre!PublishBroken, Pre!Unexpected, Pre!LoseConnection,
        Pre!CrashWorker, Pre!brokerVars, Pre!Deliver, Pre!Take, Pre!Ack,
        Pre!Requeue, Pre!DeadLetter, Pre!Release, Pre!ConnectionLost,
        Pre!Crash, Pre!Restart
<1>2. ASSUME NEW s \in VideoStatuses, Pre!Mark(Pre!VideoInHand(w), s)
      PROVE  \E v : status' = [status EXCEPT ![v] = Marked(@, s)]
    BY <1>2 DEF Pre!Mark, Pre!Marked, Pre!Absent, Marked, Absent
<1>3. CASE \/ Pre!Claim(w) \/ Pre!MarkProcessing(w) \/ Pre!MarkPreprocessed(w)
           \/ Pre!QuarantineAndFail(w)
    <2>1. \E s \in VideoStatuses : Pre!Mark(Pre!VideoInHand(w), s)
        BY <1>3 DEF Pre!Claim, Pre!MarkProcessing, Pre!MarkPreprocessed,
            Pre!QuarantineAndFail, VideoStatuses
    <2> QED
        BY <1>1, <1>2, <2>1
<1>4. CASE ~ (\/ Pre!Claim(w) \/ Pre!MarkProcessing(w) \/ Pre!MarkPreprocessed(w)
              \/ Pre!QuarantineAndFail(w))
    <2>1. status' = status
        BY <1>4 DEF Pre!Worker, Pre!Process, Pre!Failure, Pre!Receive, Pre!Start,
            Pre!RestartWorker, Pre!RefuseClaim, Pre!RunStages, Pre!Store,
            Pre!PublishFrames, Pre!AckVideo, Pre!WorkRetried, Pre!WorkRefused,
            Pre!StoreBroken, Pre!PublishBroken, Pre!Unexpected,
            Pre!LoseConnection, Pre!CrashWorker, Pre!pipelineVars
    <2> QED
        BY <1>1, <2>1
<1> QED
    BY <1>3, <1>4

\* An event that a request publishes is a new message; otherwise the queue is
\* left alone.
LEMMA ForwardFacts ==
    ASSUME IntakeInv, NEW r \in Requests, RequestStep(r)
    PROVE  \/ published' = published /\ UNCHANGED queueVars
           \/ /\ published' = published \cup {r}
              /\ status' = status
              /\ Pre!Publish(r)
              /\ Len(log) < Cardinality(Requests)
              /\ log' \in Seq(Requests)
              /\ Len(log') = Cardinality(published')
<1>1. CASE published' = published
    BY <1>1 DEF RequestStep, Forward
<1>2. CASE published' # published
    <2>1. /\ pc[r] = "publish" /\ status' = status
          /\ published' = published \cup {r}
        BY <1>2, RequestFacts DEF RequestStep
    <2>2. r \notin published /\ published \subseteq Requests
        BY <2>1 DEF IntakeInv, IngestionInv, IngestionTypeOK, RequestOK
    <2>3. Pre!Publish(r)
        BY <1>2, <2>1, <2>2 DEF RequestStep, Forward
    <2>4. log' = Append(log, r)
        BY <2>3 DEF Pre!Publish
    <2>5. /\ log' \in Seq(Requests)
          /\ Len(log') = Len(log) + 1
        BY <2>4, AppendProperties DEF IntakeInv
    <2>6. /\ IsFiniteSet(published)
          /\ Cardinality(published) \in Nat
          /\ Cardinality(published') = Cardinality(published) + 1
          /\ published' \subseteq Requests
        BY <2>1, <2>2, IntakeAssumption, FS_Subset, FS_AddElement,
            FS_CardinalityType
    <2>7. Cardinality(published') <= Cardinality(Requests)
          /\ Cardinality(Requests) \in Nat
        BY <2>6, IntakeAssumption, FS_Subset, FS_CardinalityType
    <2> QED
        BY <2>1, <2>3, <2>5, <2>6, <2>7 DEF IntakeInv
<1> QED
    BY <1>1, <1>2

LEMMA DownstreamFacts ==
    ASSUME DownstreamStep
    PROVE  /\ log' = log
           /\ UNCHANGED ingestVars
           /\ \E v, s : /\ s \in VideoStatuses
                        /\ status' = [status EXCEPT ![v] = Marked(@, s)]
<1>1. PICK v \in Requests, s \in LaterStatuses : Pre!DownstreamMarks(v, s)
    BY DEF DownstreamStep
<1>2. /\ s \in VideoStatuses
      /\ status' = [status EXCEPT ![v] = Marked(@, s)]
      /\ log' = log
    BY <1>1, IntakeAssumption DEF Pre!DownstreamMarks, Pre!Mark, Pre!Marked,
        Pre!Absent, Marked, Absent, Pre!brokerVars
<1> QED
    BY <1>2 DEF DownstreamStep

LEMMA IntakeStep ==
    ASSUME IntakeInv, [Next]_intakeVars
    PROVE  IntakeInv'
<1> USE DEF IntakeInv
<1>1. ASSUME NEW r \in Requests, RequestStep(r) PROVE IntakeInv'
    BY <1>1, RequestStepKeeps, ForwardFacts DEF RequestStep, queueVars
<1>2. CASE CrashStep
    BY <1>2, CrashKeeps DEF CrashStep, CrashIngestion, queueVars
<1>3. ASSUME NEW w \in Workers, WorkStep(w) PROVE IntakeInv'
    BY <1>3, WorkFacts, MarkKeeps DEF WorkStep, ingestVars
<1>4. CASE DownstreamStep
    BY <1>4, DownstreamFacts, MarkKeeps DEF ingestVars
<1>5. CASE UNCHANGED intakeVars
    BY <1>5, MarkKeeps DEF intakeVars, ingestVars, queueVars
<1> QED
    BY <1>1, <1>2, <1>3, <1>4, <1>5 DEF Next

LEMMA IntakeHolds == Spec => []IntakeInv
<1>1. Init => IntakeInv
    <2>1. Init => log = << >> /\ published = {}
        BY DEF Init, Pre!PreprocessingInit, Pre!BrokerInit, IngestionInit
    <2>2. Len(<< >>) = 0 /\ << >> \in Seq(Requests) /\ Cardinality({}) = 0
        BY EmptySeq, FS_EmptySet
    <2> QED
        BY <2>1, <2>2, IngestionStart DEF Init, IntakeInv
<1>2. IntakeInv /\ [Next]_intakeVars => IntakeInv'
    BY IntakeStep
<1> QED
    BY <1>1, <1>2, PTL DEF Spec

\* The object of a row that is committed, or of an event that is published, is
\* in MinIO: cleanup after a failure never deletes what somebody refers to.
THEOREM IntakeObjects == Spec => []ReferencedObjectsExist
<1>1. IntakeInv => ReferencedObjectsExist
    BY DEF IntakeInv, IngestionInv
<1> QED
    BY <1>1, IntakeHolds, PTL

\* However many uploads of one content race, one row of it is committed.
THEOREM IntakeRecords == Spec => []OneRecordPerContent
<1>1. IntakeInv => OneRecordPerContent
    BY DEF IntakeInv, IngestionInv
<1> QED
    BY <1>1, IntakeHolds, PTL

\* A client that is told "duplicate" is given a video that has a row.
THEOREM IntakeDuplicates == Spec => []DuplicatesAreRecorded
<1>1. IntakeInv => DuplicatesAreRecorded
    BY DEF IntakeInv, IngestionInv
<1> QED
    BY <1>1, IntakeHolds, PTL

-----------------------------------------------------------------------------
(* Intake implements Preprocessing                                         *)

LEMMA PreprocessingSame ==
    ASSUME UNCHANGED <<status, queueVars, workVars>>
    PROVE  UNCHANGED Pre!vars
BY DEF queueVars, workVars, Pre!vars, Pre!pipelineVars, Pre!brokerVars

\* A step of Intake is a step of Preprocessing, or leaves all of it alone.
LEMMA RefinementStep ==
    ASSUME IntakeInv, [Next]_intakeVars
    PROVE  [Pre!PreprocessingNext]_Pre!vars
<1>1. ASSUME NEW r \in Requests, RequestStep(r)
      PROVE  [Pre!PreprocessingNext]_Pre!vars
    <2>1. UNCHANGED workVars
        BY <1>1 DEF RequestStep
    <2>2. CASE UNCHANGED queueVars /\ status' = status
        BY <2>1, <2>2, PreprocessingSame
    \* The event goes out before the row is committed.
    <2>3. CASE /\ Pre!Publish(r) /\ status' = status
               /\ Len(log) < Cardinality(Requests)
        <3>1. Pre!PublishEvent(r)
            BY <2>1, <2>3 DEF Pre!PublishEvent, Pre!pipelineVars, workVars
        <3> QED
            BY <3>1 DEF Pre!PreprocessingNext, Pre!Others
    \* The row is committed; there was none before.
    <2>4. CASE /\ pc[r] = "commit" /\ status' = [status EXCEPT ![r] = "PENDING"]
               /\ UNCHANGED queueVars
        <3>1. status[r] = Absent
            BY <2>4 DEF IntakeInv, IngestionInv, RequestOK, Recorded
        <3>2. Pre!IngestionCommits(r)
            BY <2>1, <2>4, <3>1 DEF Pre!IngestionCommits, Pre!brokerVars,
                Pre!Absent, Absent, workVars, queueVars
        <3> QED
            BY <3>2 DEF Pre!PreprocessingNext, Pre!Others
    <2>5. \/ published' = published /\ UNCHANGED queueVars
          \/ /\ Pre!Publish(r) /\ status' = status
             /\ Len(log) < Cardinality(Requests)
        BY <1>1, ForwardFacts
    <2>6. \/ status' = status
          \/ pc[r] = "commit" /\ status' = [status EXCEPT ![r] = "PENDING"]
        BY <1>1, RequestFacts DEF RequestStep
    <2> QED
        BY <2>2, <2>3, <2>4, <2>5, <2>6
<1>2. CASE CrashStep
    BY <1>2, PreprocessingSame DEF CrashStep, CrashIngestion
<1>3. ASSUME NEW w \in Workers, WorkStep(w)
      PROVE  [Pre!PreprocessingNext]_Pre!vars
    BY <1>3 DEF WorkStep, Pre!PreprocessingNext
<1>4. CASE DownstreamStep
    BY <1>4 DEF DownstreamStep, Pre!PreprocessingNext, Pre!Others
<1>5. CASE UNCHANGED intakeVars
    BY <1>5, PreprocessingSame DEF intakeVars
<1> QED
    BY <1>1, <1>2, <1>3, <1>4, <1>5 DEF Next

\* Ingestion's transactions, cleanups and crashes are nothing that module
\* Preprocessing does not allow its environment to do: rows appear once, in any
\* order with their events, and are changed by the pipeline only.
THEOREM IntakeRefines == Spec => ImplementsPreprocessing
<1>1. Init => Pre!PreprocessingInit
    BY DEF Init
<1>2. IntakeInv /\ [Next]_intakeVars => [Pre!PreprocessingNext]_Pre!vars
    BY RefinementStep
<1> QED
    BY <1>1, <1>2, IntakeHolds, PTL
    DEF Spec, ImplementsPreprocessing, Pre!PreprocessingSpec

-----------------------------------------------------------------------------
(* What was proved about Preprocessing holds in Intake                     *)

\* The two names of module Preprocessing stand for the same formulas.
LEMMA SameModule ==
    /\ Pre!PreprocessingInit <=> Proved!PreprocessingInit
    /\ [Pre!PreprocessingNext]_Pre!vars <=> [Proved!PreprocessingNext]_Proved!vars
<1>1. Pre!PreprocessingInit <=> Proved!PreprocessingInit
    BY ONLY TRUE
    DEF Pre!PreprocessingInit, Proved!PreprocessingInit, Pre!BrokerInit,
        Proved!BrokerInit, Pre!Absent, Proved!Absent, Pre!None, Proved!None
<1>2. /\ Pre!vars = Proved!vars
      /\ Pre!pipelineVars = Proved!pipelineVars
      /\ Pre!brokerVars = Proved!brokerVars
      /\ UNCHANGED Pre!vars <=> UNCHANGED Proved!vars
      /\ UNCHANGED Pre!pipelineVars <=> UNCHANGED Proved!pipelineVars
      /\ UNCHANGED Pre!brokerVars <=> UNCHANGED Proved!brokerVars
    BY ONLY TRUE
    DEF Pre!vars, Proved!vars, Pre!pipelineVars, Proved!pipelineVars,
        Pre!brokerVars, Proved!brokerVars
<1>3. ASSUME NEW w
      PROVE  /\ Pre!Deliver(w) <=> Proved!Deliver(w)
             /\ Pre!Take(w) <=> Proved!Take(w)
             /\ Pre!Ack(w) <=> Proved!Ack(w)
             /\ Pre!Requeue(w) <=> Proved!Requeue(w)
             /\ Pre!DeadLetter(w) <=> Proved!DeadLetter(w)
             /\ Pre!Restart(w) <=> Proved!Restart(w)
    BY ONLY TRUE
    DEF Pre!Deliver, Proved!Deliver, Pre!Take, Proved!Take, Pre!Ack,
        Proved!Ack, Pre!Requeue, Proved!Requeue, Pre!DeadLetter,
        Proved!DeadLetter, Pre!Release, Proved!Release, Pre!Abandon,
        Proved!Abandon, Pre!Restart, Proved!Restart, Pre!None, Proved!None
<1>4. ASSUME NEW w
      PROVE  /\ Pre!ConnectionLost(w) <=> Proved!ConnectionLost(w)
             /\ Pre!Crash(w) <=> Proved!Crash(w)
    BY ONLY TRUE
    DEF Pre!ConnectionLost, Proved!ConnectionLost, Pre!Crash, Proved!Crash,
        Pre!Unacked, Proved!Unacked,
        Pre!Range, Proved!Range, Pre!None, Proved!None
<1>5. ASSUME NEW w, NEW l, NEW v, NEW s
      PROVE  /\ Pre!Goto(w, l) <=> Proved!Goto(w, l)
             /\ Pre!VideoInHand(w) = Proved!VideoInHand(w)
             /\ Pre!Mark(v, s) <=> Proved!Mark(v, s)
             /\ Pre!Publish(v) <=> Proved!Publish(v)
             /\ Pre!Absent = Proved!Absent
             /\ Pre!Claimed = Proved!Claimed
    BY ONLY TRUE
    DEF Pre!Goto, Proved!Goto, Pre!VideoInHand, Proved!VideoInHand, Pre!Mark,
        Proved!Mark, Pre!Marked, Proved!Marked, Pre!Publish, Proved!Publish,
        Pre!Absent, Proved!Absent, Pre!Claimed, Proved!Claimed
<1>6. ASSUME NEW w
      PROVE  Pre!Process(w) <=> Proved!Process(w)
    BY ONLY <1>2, <1>3, <1>5
    DEF Pre!Process, Proved!Process, Pre!Claim, Proved!Claim, Pre!RefuseClaim,
        Proved!RefuseClaim, Pre!MarkProcessing, Proved!MarkProcessing,
        Pre!RunStages, Proved!RunStages, Pre!Store, Proved!Store,
        Pre!PublishFrames, Proved!PublishFrames, Pre!MarkPreprocessed,
        Proved!MarkPreprocessed, Pre!QuarantineAndFail,
        Proved!QuarantineAndFail, Pre!AckVideo, Proved!AckVideo
<1>7. ASSUME NEW w
      PROVE  Pre!Failure(w) <=> Proved!Failure(w)
    BY ONLY <1>2, <1>3, <1>4, <1>5
    DEF Pre!Failure, Proved!Failure, Pre!WorkRetried, Proved!WorkRetried,
        Pre!WorkRefused, Proved!WorkRefused, Pre!StoreBroken,
        Proved!StoreBroken, Pre!PublishBroken, Proved!PublishBroken,
        Pre!Unexpected, Proved!Unexpected, Pre!LoseConnection,
        Proved!LoseConnection, Pre!CrashWorker, Proved!CrashWorker
<1>8. ASSUME NEW w
      PROVE  Pre!Worker(w) <=> Proved!Worker(w)
    BY ONLY <1>2, <1>3, <1>5, <1>6, <1>7
    DEF Pre!Worker, Proved!Worker, Pre!Receive, Proved!Receive, Pre!Start,
        Proved!Start, Pre!RestartWorker, Proved!RestartWorker
<1>9. Pre!Others <=> Proved!Others
    BY ONLY <1>2, <1>5
    DEF Pre!Others, Proved!Others, Pre!IngestionCommits,
        Proved!IngestionCommits, Pre!PublishEvent, Proved!PublishEvent,
        Pre!DownstreamMarks, Proved!DownstreamMarks
<1>10. Pre!PreprocessingNext <=> Proved!PreprocessingNext
    BY ONLY <1>8, <1>9 DEF Pre!PreprocessingNext, Proved!PreprocessingNext
<1> QED
    BY <1>1, <1>2, <1>10

LEMMA PreprocessingHolds ==
    ImplementsPreprocessing =>
        /\ []Proved!PreprocessingTypeOK
        /\ []Proved!ClaimedByOne
        /\ []Proved!AnnouncedIsStored
        /\ []Proved!AnnouncedIsRecorded
<1>1. /\ Proved!LaterStatusesOK
      /\ Proved!BrokerAssumption
    BY IntakeAssumption DEF Proved!LaterStatusesOK, Proved!VideoStatuses,
        VideoStatuses, Proved!BrokerAssumption
<1>2. Proved!PreprocessingSpec => []Proved!PreprocessingTypeOK
    BY <1>1, Proved!PreprocessingTypes
<1>3. Proved!PreprocessingSpec => []Proved!ClaimedByOne
    BY <1>1, Proved!PreprocessingClaims
<1>4. Proved!PreprocessingSpec => []Proved!AnnouncedIsStored
    BY <1>1, Proved!PreprocessingAnnounces
<1>5. Proved!PreprocessingSpec => []Proved!AnnouncedIsRecorded
    BY <1>1, Proved!PreprocessingRecorded
<1> QED
    BY <1>2, <1>3, <1>4, <1>5, SameModule, PTL
    DEF ImplementsPreprocessing, Pre!PreprocessingSpec, Proved!PreprocessingSpec

\* The same invariants, by the names that Intake gives them.
LEMMA SameInvariants ==
    /\ Proved!PreprocessingTypeOK => Pre!PreprocessingTypeOK
    /\ Proved!ClaimedByOne => ClaimedByOne
    /\ Proved!AnnouncedIsStored => AnnouncedIsStored
    /\ Proved!AnnouncedIsRecorded => \A v \in announced : Recorded(v)
<1>1. Proved!PreprocessingTypeOK => Pre!PreprocessingTypeOK
    BY DEF Pre!PreprocessingTypeOK, Proved!PreprocessingTypeOK,
        Pre!QueueTypeOK, Proved!QueueTypeOK, Pre!Messages, Proved!Messages,
        Pre!None, Proved!None, Pre!Sessions, Proved!Sessions,
        Pre!VideoStatuses, Proved!VideoStatuses, Pre!Absent, Proved!Absent,
        Pre!Locations, Proved!Locations
<1>2. Proved!ClaimedByOne => ClaimedByOne
    BY DEF ClaimedByOne, Pre!ClaimedByOne, Proved!ClaimedByOne, Pre!Working,
        Proved!Working, Pre!VideoInHand, Proved!VideoInHand
<1>3. Proved!AnnouncedIsStored => AnnouncedIsStored
    BY DEF AnnouncedIsStored, Pre!AnnouncedIsStored, Proved!AnnouncedIsStored
<1>4. Proved!AnnouncedIsRecorded => \A v \in announced : Recorded(v)
    BY DEF Proved!AnnouncedIsRecorded, Proved!Absent, Recorded, Absent
<1> QED
    BY <1>1, <1>2, <1>3, <1>4

\* Both services keep to their types.
THEOREM IntakeTypes == Spec => []IntakeTypeOK
<1>1. IntakeInv => IngestionTypeOK
    BY DEF IntakeInv, IngestionInv
<1>2. Spec => []Pre!PreprocessingTypeOK
    BY IntakeRefines, PreprocessingHolds, SameInvariants, PTL
<1> QED
    BY <1>1, <1>2, IntakeHolds, PTL DEF IntakeTypeOK

\* A video whose frames are not announced has at most one worker, whatever
\* ingestion does.
THEOREM IntakeClaims == Spec => []ClaimedByOne
BY IntakeRefines, PreprocessingHolds, SameInvariants, PTL

\* What is announced to detection is in MinIO.
THEOREM IntakeAnnounces == Spec => []AnnouncedIsStored
BY IntakeRefines, PreprocessingHolds, SameInvariants, PTL

\* No content is announced to detection twice under different videos: an
\* announced video has a row (from preprocessing), and the rows of a content
\* are one (from ingestion).
THEOREM IntakeAnnouncesOnce == Spec => []OneAnnouncementPerContent
<1>1. ASSUME IntakeInv, announced \subseteq Requests,
             \A v \in announced : Recorded(v)
      PROVE  OneAnnouncementPerContent
    BY <1>1 DEF IntakeInv, IngestionInv, OneRecordPerContent,
        OneAnnouncementPerContent, Key
<1>2. Pre!PreprocessingTypeOK => announced \subseteq Requests
    BY DEF Pre!PreprocessingTypeOK
<1>3. Spec => []Pre!PreprocessingTypeOK
    BY IntakeRefines, PreprocessingHolds, SameInvariants, PTL
<1>4. Spec => []Proved!AnnouncedIsRecorded
    BY IntakeRefines, PreprocessingHolds, PTL
<1>5. Proved!AnnouncedIsRecorded => \A v \in announced : Recorded(v)
    BY SameInvariants
<1> QED
    BY <1>1, <1>2, <1>3, <1>4, <1>5, IntakeHolds, PTL
=============================================================================
