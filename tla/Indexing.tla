------------------------------ MODULE Indexing ------------------------------
(***************************************************************************)
(* The indexing service (services/indexing): consumers of the              *)
(* video.embeddings_ready queue that upsert the embeddings of each batch   *)
(* into Qdrant, link the embedding_records rows to the points, and mark    *)
(* the video INDEXED after the final batch.                                *)
(*                                                                         *)
(* One video.  Every read and write of the service is keyed by video_id,   *)
(* so other videos only share the queue.  A run is one attempt of the      *)
(* embedding service to publish the batches of the video; Content[r][b+1]  *)
(* is the set of source paths in its batch with batch_index b.             *)
(***************************************************************************)
EXTENDS Broker, VideoStatus

CONSTANTS
    Runs,           \* attempts of the embedding service (bounds the input)
    Artifacts,      \* source paths of frames and crops
    Content,        \* Content[r]: sequence of batches of run r
    Mismatched,     \* artifacts whose vector has the wrong dimension
    OtherStatuses,  \* statuses the other services write to the same row
    Faults          \* which failures happen

FaultKinds == {"transient", "permanent", "unexpected", "lost", "crash"}

Batches == [run : Runs, batch : Nat]

ASSUME IndexingAssumption ==
    /\ Content \in [Runs -> Seq(SUBSET Artifacts)]
    /\ OtherStatuses \subseteq VideoStatuses \ {"INDEXED"}
    /\ Faults \subseteq FaultKinds

VARIABLES
    status,    \* video_records.status
    rows,      \* embedding_records of the video
    points,    \* point ids in the Qdrant collection
    inserted,  \* runs that have inserted their rows
    sent,      \* sent[r]: number of batches run r has published
    pc,        \* pc[w]: where worker w is in process_embeddings
    skipped,   \* batches the idempotency guard dropped (history)
    rejected,  \* batches that marked the video FAILED (history)
    overtaken  \* batches requeued behind what was prefetched (history)

storeVars == <<status, rows, points>>
producerVars == <<inserted, sent>>
historyVars == <<skipped, rejected, overtaken>>
workerVars == <<pc, historyVars>>
vars == <<storeVars, producerVars, workerVars, brokerVars>>

Locations ==
    {"idle", "guard", "mark", "upsert", "link", "finish", "reject", "ack"}

\* The point id is a UUID5 of (video_id, source_path): one per artifact, the
\* same in every run.  A row is linked when qdrant_point_id is set.
Rows == [run : Runs, source_path : Artifacts, linked : BOOLEAN]

IndexingInit ==
    /\ BrokerInit
    /\ status \in OtherStatuses
    /\ rows = {}
    /\ points = {}
    /\ inserted = {}
    /\ sent = [r \in Runs |-> 0]
    /\ pc = [w \in Consumers |-> "idle"]
    /\ skipped = {}
    /\ rejected = {}
    /\ overtaken = {}

Goto(w, l) == pc' = [pc EXCEPT ![w] = l]

-----------------------------------------------------------------------------
(* The batch in hand                                                       *)

Payload(body) == Content[body.run][body.batch + 1]
IsFirst(body) == body.batch = 0
\* Fault: off by one.
IsLastButOne(body) == body.batch + 2 >= Len(Content[body.run])
IsFinal(body) == body.batch = Len(Content[body.run]) - 1
\* Fault: dimensions not checked.
NotEmpty(body) == Payload(body) # {}
Valid(body) == Payload(body) # {} /\ Payload(body) \cap Mismatched = {}

InHand(w) == log[hand[w]]

-----------------------------------------------------------------------------
(* The other services, as far as indexing can tell them: rows come and go, *)
(* the status changes at any time, and each run publishes its batches in   *)
(* order.                                                                  *)

InsertRows(r) ==
    /\ r \notin inserted
    /\ inserted' = inserted \cup {r}
    /\ rows' = rows \cup
          {[run |-> r, source_path |-> a, linked |-> FALSE] :
              a \in UNION {Content[r][k] : k \in DOMAIN Content[r]}}
    /\ UNCHANGED <<status, points, sent, workerVars, brokerVars>>

ClearRows ==
    /\ rows' = {}
    /\ UNCHANGED <<status, points, producerVars, workerVars, brokerVars>>

PublishBatch(r) ==
    /\ r \in inserted
    /\ sent[r] < Len(Content[r])
    /\ Publish([run |-> r, batch |-> sent[r]])
    /\ sent' = [sent EXCEPT ![r] = @ + 1]
    /\ UNCHANGED <<storeVars, inserted, workerVars>>

SetStatus(s) ==
    /\ status' = s
    /\ UNCHANGED <<rows, points, producerVars, workerVars, brokerVars>>

-----------------------------------------------------------------------------
(* process_embeddings, one action per database or Qdrant call              *)

\* The guard is read for the first batch only.
Start(w) ==
    /\ Take(w)
    /\ Goto(w, IF IsFirst(log[Head(buf[w])]) THEN "guard" ELSE "upsert")
    /\ UNCHANGED <<storeVars, producerVars, historyVars>>

\* Fault: a video somebody works on counts as done, as in preprocessing.
AlreadyClaimed(w) ==
    /\ pc[w] = "guard"
    /\ status \in {"PROCESSING", "INDEXED"}
    /\ skipped' = skipped \cup {hand[w]}
    /\ Goto(w, "ack")
    /\ UNCHANGED <<storeVars, producerVars, rejected, overtaken, brokerVars>>

AlreadyIndexed(w) ==
    /\ pc[w] = "guard"
    /\ status = "INDEXED"
    /\ skipped' = skipped \cup {hand[w]}
    /\ Goto(w, "ack")
    /\ UNCHANGED <<storeVars, producerVars, rejected, overtaken, brokerVars>>

NotIndexed(w) ==
    /\ pc[w] = "guard"
    /\ status # "INDEXED"
    /\ Goto(w, "mark")
    /\ UNCHANGED <<storeVars, producerVars, historyVars, brokerVars>>

MarkProcessing(w) ==
    /\ pc[w] = "mark"
    /\ status' = Marked(status, "PROCESSING")
    /\ Goto(w, "upsert")
    /\ UNCHANGED <<rows, points, producerVars, historyVars, brokerVars>>

\* _validate_embeddings fails before anything is written to Qdrant.
Invalid(w) ==
    /\ pc[w] = "upsert"
    /\ ~ Valid(InHand(w))
    /\ Goto(w, "reject")
    /\ UNCHANGED <<storeVars, producerVars, historyVars, brokerVars>>

\* Fault: a chunk that failed is only logged.
UpsertBestEffort(w) ==
    /\ pc[w] = "upsert"
    /\ Valid(InHand(w))
    /\ \E stored \in SUBSET Payload(InHand(w)) : points' = points \cup stored
    /\ Goto(w, "link")
    /\ UNCHANGED <<status, rows, producerVars, historyVars, brokerVars>>

Upsert(w) ==
    /\ pc[w] = "upsert"
    /\ Valid(InHand(w))
    /\ points' = points \cup Payload(InHand(w))
    /\ Goto(w, "link")
    /\ UNCHANGED <<status, rows, producerVars, historyVars, brokerVars>>

\* batch_upsert works in chunks: the ones before the failure are stored.
SomeChunks(w) ==
    /\ pc[w] = "upsert"
    /\ Valid(InHand(w))
    /\ \E stored \in SUBSET Payload(InHand(w)) : points' = points \cup stored

\* Fault: the exception is caught in the handler, which returns.
UpsertDropped(w) ==
    /\ "transient" \in Faults
    /\ SomeChunks(w)
    /\ Ack(w)
    /\ Goto(w, "idle")
    /\ UNCHANGED <<status, rows, producerVars, historyVars>>

\* A batch goes back to the queue, behind what the worker holds in its iterator.
GiveBack(w) ==
    /\ Requeue(w)
    /\ overtaken' = overtaken \cup (IF buf[w] = << >> THEN {} ELSE {hand[w]})
    /\ UNCHANGED <<skipped, rejected>>

UpsertRetried(w) ==
    /\ "transient" \in Faults
    /\ SomeChunks(w)
    /\ GiveBack(w)
    /\ Goto(w, "idle")
    /\ UNCHANGED <<status, rows, producerVars>>

UpsertRefused(w) ==
    /\ "permanent" \in Faults
    /\ SomeChunks(w)
    /\ Goto(w, "reject")
    /\ UNCHANGED <<status, rows, producerVars, historyVars, brokerVars>>

\* UPDATE embedding_records ... WHERE video_id, source_path: every row of the
\* artifact, whichever run inserted it.
Linked(S) ==
    {IF row.source_path \in S THEN [row EXCEPT !.linked = TRUE] ELSE row :
        row \in rows}

LinkRows(w) ==
    /\ pc[w] = "link"
    /\ rows' = Linked(Payload(InHand(w)))
    /\ Goto(w, IF IsFinal(InHand(w)) THEN "finish" ELSE "ack")
    /\ UNCHANGED <<status, points, producerVars, historyVars, brokerVars>>

LinkRetried(w) ==
    /\ "transient" \in Faults
    /\ pc[w] = "link"
    /\ GiveBack(w)
    /\ Goto(w, "idle")
    /\ UNCHANGED <<storeVars, producerVars>>

MarkIndexed(w) ==
    /\ pc[w] = "finish"
    /\ status' = Marked(status, "INDEXED")
    /\ Goto(w, "ack")
    /\ UNCHANGED <<rows, points, producerVars, historyVars, brokerVars>>

\* A non-recoverable IndexingError: FAILED, and the handler returns.
MarkFailed(w) ==
    /\ pc[w] = "reject"
    /\ status' = Marked(status, "FAILED")
    /\ rejected' = rejected \cup {hand[w]}
    /\ Goto(w, "ack")
    /\ UNCHANGED <<rows, points, producerVars, skipped, overtaken, brokerVars>>

AckBatch(w) ==
    /\ pc[w] = "ack"
    /\ Ack(w)
    /\ Goto(w, "idle")
    /\ UNCHANGED <<storeVars, producerVars, historyVars>>

\* Any other exception: the database while the status is read or written, or
\* Qdrant inside ensure_collection, which wraps nothing.
Unexpected(w) ==
    /\ "unexpected" \in Faults
    /\ pc[w] \in {"guard", "mark", "finish", "reject"}
       \/ (pc[w] = "upsert" /\ Valid(InHand(w)))
    /\ DeadLetter(w)
    /\ Goto(w, "idle")
    /\ UNCHANGED <<storeVars, producerVars, historyVars>>

Receive(w) ==
    /\ Deliver(w)
    /\ UNCHANGED <<storeVars, producerVars, workerVars>>

LoseConnection(w) ==
    /\ "lost" \in Faults
    /\ ConnectionLost(w)
    /\ UNCHANGED <<storeVars, producerVars, workerVars>>

CrashWorker(w) ==
    /\ "crash" \in Faults
    /\ Crash(w)
    /\ Goto(w, "idle")
    /\ UNCHANGED <<storeVars, producerVars, historyVars>>

RestartWorker(w) ==
    /\ Restart(w)
    /\ UNCHANGED <<storeVars, producerVars, workerVars>>

-----------------------------------------------------------------------------
Process(w) ==
    \/ AlreadyIndexed(w) \/ NotIndexed(w) \/ MarkProcessing(w)
    \/ Invalid(w) \/ Upsert(w) \/ LinkRows(w) \/ MarkIndexed(w)
    \/ MarkFailed(w) \/ AckBatch(w)
    \/ UpsertRetried(w) \/ UpsertRefused(w) \/ LinkRetried(w) \/ Unexpected(w)

Worker(w) ==
    \/ Receive(w) \/ Start(w) \/ Process(w)
    \/ LoseConnection(w) \/ CrashWorker(w) \/ RestartWorker(w)

Others ==
    \/ \E r \in Runs : InsertRows(r) \/ PublishBatch(r)
    \/ ClearRows
    \/ \E s \in OtherStatuses : SetStatus(s)

IndexingNext == Others \/ \E w \in Consumers : Worker(w)

IndexingSpec == IndexingInit /\ [][IndexingNext]_vars

-----------------------------------------------------------------------------
(* Properties                                                              *)

IndexingTypeOK ==
    /\ QueueTypeOK
    /\ log \in Seq(Batches)
    /\ \A i \in Messages : log[i].batch < Len(Content[log[i].run])
    /\ status \in VideoStatuses \cup {Absent}
    /\ rows \subseteq Rows
    /\ points \subseteq Artifacts \ Mismatched
    /\ inserted \subseteq Runs
    /\ sent \in [Runs -> Nat]
    /\ pc \in [Consumers -> Locations]
    /\ skipped \subseteq Messages
    /\ rejected \subseteq Messages
    /\ overtaken \subseteq Messages
    /\ \A w \in Consumers : pc[w] = "idle" <=> hand[w] = None

Stored(i) == Payload(log[i]) \subseteq points

\* A row that search can join to a point has that point: the upsert comes
\* before the update, whatever is cleared, inserted again, or redelivered in
\* between (indexing.py, "Persistence happens before the status update").
LinkedRowsHavePoints ==
    \A row \in rows : row.linked => row.source_path \in points

\* No batch is lost silently: what was acknowledged is in Qdrant, or marked
\* the video FAILED, or is a first batch the idempotency guard dropped.
AckedMeansHandled ==
    \A i \in acked :
        \/ Stored(i)
        \/ i \in rejected
        \/ i \in skipped /\ IsFirst(log[i])

\* A batch is only handled after a newer one when it was requeued while newer
\* ones were in the worker's iterator: whatever is lost, redelivered or crashes,
\* everything older than the batch in hand is settled or was overtaken so.
HandledInOrder ==
    \A w \in Consumers :
        hand[w] # None =>
            \A i \in Messages : i < hand[w] => i \in acked \cup dead \cup overtaken

\* The run has batches, all of them were published, and each is in Qdrant or
\* is one of these.
CompleteBut(r, missed) ==
    /\ Content[r] # << >>
    /\ sent[r] = Len(Content[r])
    /\ \A i \in Messages : log[i].run = r => Stored(i) \/ i \in missed

\* INDEXED is only ever said of a video with a complete run, up to batches that
\* were rejected or dead-lettered in sight of everybody
\* (embeddings_ready.py: not INDEXED before the last batch, "all earlier
\* batches are upserted to Qdrant and then acked").
IndexedMeansSearchable ==
    status = "INDEXED" => \E r \in Runs : CompleteBut(r, rejected \cup dead)

\* The ways a batch can be missing from a run that was indexed to its end.
Missed == rejected \cup dead \cup overtaken

\* With any prefetch the retry behind newer batches is the only other way to be
\* INDEXED without a batch: not a crash, a lost connection, a second run, nor
\* an upsert that failed half way.
IndexedMeansAccounted ==
    status = "INDEXED" => \E r \in Runs : CompleteBut(r, Missed)

\* A first batch that the guard drops and whose vectors are not in Qdrant was
\* rejected, dead-lettered or overtaken itself, or another run of the video
\* was indexed to its end: there is no further way for the skip that makes a
\* second delivery harmless to lose vectors (indexing.py, "Idempotency").
SkippedMeansStored ==
    \A i \in skipped :
        \/ Stored(i)
        \/ i \in Missed
        \/ \E r \in Runs \ {log[i].run} : CompleteBut(r, Missed)
=============================================================================
