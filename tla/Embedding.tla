----------------------------- MODULE Embedding ------------------------------
(***************************************************************************)
(* The embedding service (services/embedding): consumers of the            *)
(* video.detection_complete queue that embed the frames and crops of a     *)
(* video with CLIP, replace its embedding_records rows, publish the        *)
(* vectors in batches and mark the video EMBEDDED.                         *)
(*                                                                         *)
(* One video.  A message of the queue is a DetectionCompleteEvent; an      *)
(* attempt that passes the guard is a run, named so that its rows and its  *)
(* batches can be told from those of other attempts.  sent[r] counts the   *)
(* batches of run r that reached the video.embeddings_ready queue.         *)
(***************************************************************************)
EXTENDS Broker, VideoStatus

CONSTANTS
    Events,     \* detection events of the video
    Runs,       \* bound: the attempts that may be made
    EventOf,    \* EventOf[r]: the event that run r embeds
    Artifacts,  \* source paths of frames and crops
    Content,    \* Content[r]: sequence of batches of run r
    MaxEvents,  \* bound: how many events are ever published
    Faults      \* which failures happen

FaultKinds == {"transient", "permanent", "unexpected", "lost", "crash"}

ASSUME EmbeddingAssumption ==
    /\ EventOf \in [Runs -> Events]
    /\ Content \in [Runs -> Seq(SUBSET Artifacts)]
    /\ MaxEvents \in Nat
    /\ Faults \subseteq FaultKinds

VARIABLES
    status,    \* video_records.status
    rows,      \* embedding_records of the video
    inserted,  \* runs that have inserted their rows
    sent,      \* sent[r]: number of batches run r has published
    pc,        \* pc[w]: where worker w is in process_detections
    run,       \* run[w]: the attempt worker w is making, or NoRun
    used,      \* attempts made so far
    skipped,   \* messages the idempotency guard dropped (history)
    failed     \* messages that marked the video FAILED (history)

tableVars == <<status, rows>>
outputVars == <<inserted, sent>>
attemptVars == <<pc, run, used>>
historyVars == <<skipped, failed>>
vars == <<tableVars, outputVars, attemptVars, historyVars, brokerVars>>

NoRun == "no run"

Locations == {"idle", "guard", "mark", "clear", "embed", "insert", "publish",
              "finish", "empty", "reject", "wrap", "ack"}

EmbeddingInit ==
    /\ BrokerInit
    /\ status = "DETECTED"
    /\ rows = {}
    /\ inserted = {}
    /\ sent = [r \in Runs |-> 0]
    /\ pc = [w \in Consumers |-> "idle"]
    /\ run = [w \in Consumers |-> NoRun]
    /\ used = {}
    /\ skipped = {}
    /\ failed = {}

Goto(w, l) == pc' = [pc EXCEPT ![w] = l]

\* The handler is over: its local state is gone.
Return(w) ==
    /\ Goto(w, "idle")
    /\ run' = [run EXCEPT ![w] = NoRun]
    /\ UNCHANGED used

EventInHand(w) == log[hand[w]]

\* The final batch of run r is in the queue of the indexing service.
Published(r) == Content[r] # << >> /\ sent[r] = Len(Content[r])

\* Bound: a fault that has the message of worker w delivered again happens
\* only while an attempt is left for it.
MayRetry(w) ==
    \A i \in Unacked(w) \cup ({hand[w]} \ {None}) :
        \E r \in Runs \ used : EventOf[r] = log[i]

-----------------------------------------------------------------------------
(* The rest of the system                                                  *)

PublishEvent(e) ==
    /\ Len(log) < MaxEvents
    /\ Publish(e)
    /\ UNCHANGED <<tableVars, outputVars, attemptVars, historyVars>>

\* Indexing marks PROCESSING, FAILED, or - after a final batch - INDEXED.
IndexingMarks(s) ==
    /\ s \in {"PROCESSING", "FAILED", "INDEXED"}
    /\ s = "INDEXED" => \E r \in Runs : Published(r)
    /\ status' = s
    /\ UNCHANGED <<rows, outputVars, attemptVars, historyVars, brokerVars>>

-----------------------------------------------------------------------------
(* process_detections, one action per database or queue call               *)

Receive(w) ==
    /\ Deliver(w)
    /\ UNCHANGED <<tableVars, outputVars, attemptVars, historyVars>>

Start(w) ==
    /\ Take(w)
    /\ Goto(w, "guard")
    /\ UNCHANGED <<tableVars, outputVars, run, used, historyVars>>

\* Fault: a video that is being processed counts as done, as in preprocessing.
AlreadyClaimed(w) ==
    /\ pc[w] = "guard"
    /\ status \in {"PROCESSING", "EMBEDDED", "INDEXED"}
    /\ skipped' = skipped \cup {hand[w]}
    /\ Goto(w, "ack")
    /\ UNCHANGED <<tableVars, outputVars, run, used, failed, brokerVars>>

AlreadyProcessed(w) ==
    /\ pc[w] = "guard"
    /\ status \in {"EMBEDDED", "INDEXED"}
    /\ skipped' = skipped \cup {hand[w]}
    /\ Goto(w, "ack")
    /\ UNCHANGED <<tableVars, outputVars, run, used, failed, brokerVars>>

NotProcessed(w) ==
    /\ pc[w] = "guard"
    /\ status \notin {"EMBEDDED", "INDEXED"}
    /\ Goto(w, "mark")
    /\ UNCHANGED <<tableVars, outputVars, run, used, historyVars, brokerVars>>

MarkProcessing(w) ==
    /\ pc[w] = "mark"
    /\ status' = Marked(status, "PROCESSING")
    /\ Goto(w, "clear")
    /\ UNCHANGED <<rows, outputVars, run, used, historyVars, brokerVars>>

\* Fault: rows of an earlier attempt stay.
ClearNothing(w) ==
    /\ pc[w] = "clear"
    /\ \E r \in Runs \ used :
          /\ EventOf[r] = EventInHand(w)
          /\ run' = [run EXCEPT ![w] = r]
          /\ used' = used \cup {r}
          /\ Goto(w, IF Content[r] = << >> THEN "empty" ELSE "embed")
    /\ UNCHANGED <<tableVars, outputVars, historyVars, brokerVars>>

\* _clear_existing_records: every row of the video, whoever inserted it.
ClearExisting(w) ==
    /\ pc[w] = "clear"
    /\ \E r \in Runs \ used :
          /\ EventOf[r] = EventInHand(w)
          /\ run' = [run EXCEPT ![w] = r]
          /\ used' = used \cup {r}
          /\ Goto(w, IF Content[r] = << >> THEN "empty" ELSE "embed")
    /\ rows' = {}
    /\ UNCHANGED <<status, outputVars, historyVars, brokerVars>>

\* Fault: publish first, persist never.
EmbedUnpersisted(w) ==
    /\ pc[w] = "embed"
    /\ Goto(w, "publish")
    /\ UNCHANGED <<tableVars, outputVars, run, used, historyVars, brokerVars>>

\* Fetch from MinIO and infer: nothing shared changes.
Embed(w) ==
    /\ pc[w] = "embed"
    /\ Goto(w, "insert")
    /\ UNCHANGED <<tableVars, outputVars, run, used, historyVars, brokerVars>>

\* _write_embedding_rows: one transaction for all rows of the run.
InsertRows(w) ==
    /\ pc[w] = "insert"
    /\ inserted' = inserted \cup {run[w]}
    /\ rows' = rows \cup
          {[run |-> run[w], source_path |-> a, linked |-> FALSE] :
              a \in UNION {Content[run[w]][k] : k \in DOMAIN Content[run[w]]}}
    /\ Goto(w, "publish")
    /\ UNCHANGED <<status, sent, run, used, historyVars, brokerVars>>

Sent(w) == sent' = [sent EXCEPT ![run[w]] = @ + 1]

\* Fault: one iteration too many.
PublishOnceMore(w) ==
    /\ pc[w] = "publish"
    /\ Sent(w)
    /\ Goto(w, IF sent[run[w]] = Len(Content[run[w]]) THEN "finish" ELSE "publish")
    /\ UNCHANGED <<tableVars, inserted, run, used, historyVars, brokerVars>>

\* One iteration of the loop of _publish_in_batches.
PublishBatch(w) ==
    /\ pc[w] = "publish"
    /\ Sent(w)
    /\ Goto(w, IF sent[run[w]] + 1 = Len(Content[run[w]])
               THEN "finish" ELSE "publish")
    /\ UNCHANGED <<tableVars, inserted, run, used, historyVars, brokerVars>>

MarkEmbedded(w) ==
    /\ pc[w] = "finish"
    /\ status' = Marked(status, "EMBEDDED")
    /\ Goto(w, "ack")
    /\ UNCHANGED <<rows, outputVars, run, used, historyVars, brokerVars>>

\* No artifacts, or a non-recoverable EmbeddingError: FAILED, and return.
MarkFailed(w) ==
    /\ pc[w] \in {"empty", "reject"}
    /\ status' = Marked(status, "FAILED")
    /\ failed' = failed \cup {hand[w]}
    /\ Goto(w, "ack")
    /\ UNCHANGED <<rows, outputVars, run, used, skipped, brokerVars>>

AckEvent(w) ==
    /\ pc[w] = "ack"
    /\ Ack(w)
    /\ Return(w)
    /\ UNCHANGED <<tableVars, outputVars, historyVars>>

-----------------------------------------------------------------------------
(* Failures                                                                *)

\* A recoverable EmbeddingError while embedding: MinIO unreachable, timeout.
EmbedRetried(w) ==
    /\ "transient" \in Faults
    /\ MayRetry(w)
    /\ pc[w] = "embed"
    /\ Requeue(w)
    /\ Return(w)
    /\ UNCHANGED <<tableVars, outputVars, historyVars>>

\* The artifact is missing for good, or inference fails.
EmbedRefused(w) ==
    /\ "permanent" \in Faults
    /\ pc[w] = "embed"
    /\ Goto(w, "reject")
    /\ UNCHANGED <<tableVars, outputVars, run, used, historyVars, brokerVars>>

\* Fault: the exception is caught in the handler, which returns.
PublishGivenUp(w) ==
    /\ "transient" \in Faults
    /\ pc[w] = "publish"
    /\ UNCHANGED sent
    /\ Ack(w)
    /\ Return(w)
    /\ UNCHANGED <<tableVars, inserted, historyVars>>

\* publish raises, and _publish_in_batches makes it recoverable: the message
\* is requeued and the status stays as it is.  The batch may have reached the
\* queue, when only the confirm was lost.
PublishRetried(w) ==
    /\ "transient" \in Faults
    /\ MayRetry(w)
    /\ pc[w] = "publish"
    /\ Sent(w) \/ UNCHANGED sent
    /\ Requeue(w)
    /\ Return(w)
    /\ UNCHANGED <<tableVars, inserted, historyVars>>

\* An exception that is no EmbeddingError inside the try block: database or
\* temporary files.
Unforeseen(w) ==
    /\ "unexpected" \in Faults
    /\ pc[w] \in {"embed", "insert", "finish", "empty"}
    /\ Goto(w, "wrap")
    /\ UNCHANGED <<tableVars, outputVars, run, used, historyVars, brokerVars>>

\* `except Exception`: mark FAILED and raise a recoverable error, which the
\* consumer turns into a requeue.
WrapAndRetry(w) ==
    /\ MayRetry(w)
    /\ pc[w] = "wrap"
    /\ status' = Marked(status, "FAILED")
    /\ failed' = failed \cup {hand[w]}
    /\ Requeue(w)
    /\ Return(w)
    /\ UNCHANGED <<rows, outputVars, skipped>>

\* The database fails outside the try block or in an except clause.
Unexpected(w) ==
    /\ "unexpected" \in Faults
    /\ pc[w] \in {"guard", "mark", "clear", "reject", "wrap"}
    /\ DeadLetter(w)
    /\ Return(w)
    /\ UNCHANGED <<tableVars, outputVars, historyVars>>

LoseConnection(w) ==
    /\ "lost" \in Faults
    /\ MayRetry(w)
    /\ ConnectionLost(w)
    /\ UNCHANGED <<tableVars, outputVars, attemptVars, historyVars>>

CrashWorker(w) ==
    /\ "crash" \in Faults
    /\ MayRetry(w)
    /\ Crash(w)
    /\ Return(w)
    /\ UNCHANGED <<tableVars, outputVars, historyVars>>

RestartWorker(w) ==
    /\ Restart(w)
    /\ UNCHANGED <<tableVars, outputVars, attemptVars, historyVars>>

-----------------------------------------------------------------------------
Process(w) ==
    \/ AlreadyProcessed(w) \/ NotProcessed(w) \/ MarkProcessing(w)
    \/ ClearExisting(w) \/ Embed(w) \/ InsertRows(w) \/ PublishBatch(w)
    \/ MarkEmbedded(w) \/ MarkFailed(w) \/ AckEvent(w)

Failure(w) ==
    \/ EmbedRetried(w) \/ EmbedRefused(w) \/ PublishRetried(w)
    \/ Unforeseen(w) \/ WrapAndRetry(w) \/ Unexpected(w)
    \/ LoseConnection(w) \/ CrashWorker(w)

Worker(w) == Receive(w) \/ Start(w) \/ Process(w) \/ Failure(w) \/ RestartWorker(w)

EmbeddingNext ==
    \/ \E e \in Events : PublishEvent(e)
    \/ \E s \in VideoStatuses : IndexingMarks(s)
    \/ \E w \in Consumers : Worker(w)

EmbeddingSpec == EmbeddingInit /\ [][EmbeddingNext]_vars

-----------------------------------------------------------------------------
(* Properties                                                              *)

Rows == [run : Runs, source_path : Artifacts, linked : BOOLEAN]

EmbeddingTypeOK ==
    /\ QueueTypeOK
    /\ log \in Seq(Events)
    /\ status \in VideoStatuses \cup {Absent}
    /\ rows \subseteq Rows
    /\ inserted \subseteq used
    /\ used \subseteq Runs
    /\ sent \in [Runs -> Nat]
    /\ \A r \in Runs : sent[r] <= Len(Content[r])
    /\ pc \in [Consumers -> Locations]
    /\ \A w \in Consumers : pc[w] = "idle" <=> hand[w] = None
    /\ run \in [Consumers -> Runs \cup {NoRun}]
    /\ skipped \subseteq Messages
    /\ failed \subseteq Messages

\* Clearing before inserting "closes the duplicate-row gap" (embedding.py,
\* process_detections): an artifact has one row, whatever is redelivered.
OneRowPerArtifact ==
    \A x, y \in rows : x.source_path = y.source_path => x = y

\* No event is lost: what was acknowledged is published in full - by this
\* delivery, or by the one whose status made the guard skip it - or the video
\* was marked FAILED for it.
AckedMeansPublished ==
    \A i \in acked :
        \/ i \in failed
        \/ \E r \in used : Published(r)

\* "Persistence happens before the event is published" (embedding.py): when a
\* batch goes out, its artifacts have rows that indexing can link.
PersistedBeforePublished ==
    [][\A r \in Runs : sent'[r] # sent[r] =>
          UNION {Content[r][k] : k \in DOMAIN Content[r] \cap {sent'[r]}}
              \subseteq {row.source_path : row \in rows}]_vars
=============================================================================
