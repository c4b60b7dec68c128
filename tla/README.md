# Verification of the multimodal video retrieval pipeline

TLA+ models of the surveillance pipeline in `src/surveillance`, the TLC runs that
check them, and proofs of their central theorems. Paths below are relative to
`src/surveillance` unless they say otherwise. `PROJECT.json` maps every definition to
the lines it models.

## 1. The system

    upload / RTSP / watched file
        -> Ingestion      -> video.ingested           -> Preprocessing
        -> video.frames_extracted                     -> Detection
        -> video.detection_complete                   -> Embedding
        -> video.embeddings_ready (in batches)        -> Indexing -> Qdrant
                                  Search (HTTP) reads Qdrant, PostgreSQL and Redis

Each stage is a process of its own. They share three things: the RabbitMQ topic
exchange, MinIO, and the tables of PostgreSQL, above all `video_records.status`, which
every stage overwrites without comparing (`_mark_status`) and which every stage reads
as its idempotency guard. A consumer handles one message at a time and ends in an ack,
a requeue (an exception with `recoverable=True`) or a dead letter (any other).

| Component | State | Operations | Interacts through |
|---|---|---|---|
| `BaseConsumer`, `BasePublisher` (`shared/shared/queue`) | unacknowledged deliveries, the local iterator, the connection | consume, handle one, ack, nack, stop, publish | all stages |
| Ingestion (`services/ingestion`) | one open transaction per request; the row, the raw object | upload, RTSP, filesystem, status | HTTP, `video.ingested` |
| Filesystem watcher | an in-memory queue of paths | created, process queue | calls the ingestion pipeline |
| Preprocessing | claim (status under a row lock), artifacts in MinIO, local files | `process_video` | `video.ingested`, `video.frames_extracted` |
| Scene segmentation, clip windows | the lists they build; clips in MinIO | `segment`, `generate`, `upload_clip` | called by preprocessing |
| Detection | `detection_results`, crops | `process_frames` | `video.frames_extracted`, `video.detection_complete` |
| Embedding | `embedding_records` | `process_detections` | `video.detection_complete`, `video.embeddings_ready` |
| CLIP, Grounding DINO, query encoder | the model, a semaphore of one, executor threads | `embed_image`, `detect`, `encode_text` | called by the two stages and by search |
| Indexing | point ids in `embedding_records`, Qdrant points | `process_embeddings` | `video.embeddings_ready` |
| Search and its cache | Redis: query vectors, result lists, history | text and image search, next page, history | HTTP; reads the points of indexing and the rows of embedding |
| Object storage client | none | put, get, delete with three attempts | all |
| API, dashboard | empty packages | | |

What makes the system hard is not in any one function: a message is delivered again
after any crash, lost connection or transient failure; the status column has five
writers; a stage publishes before it writes its own status; and requeued messages
come back behind those a consumer has prefetched. Search adds a cache whose entries
outlive what they were computed from, pages that are cut from whatever list is there
when they are asked for, and a Redis list that shifts while it is read.

### What correct means, component by component

* **Delivery**: no message is lost or settled twice, a message has two handlers only
  after a lost connection, and everything is settled when faults cease.
* **Ingestion**: one record per content however uploads race; rows and events refer
  only to objects that exist; a duplicate answer names a video that stays; no request
  waits forever.
* **Preprocessing**: the claim is exclusive; what is announced is stored; an accepted
  video is picked up; a retry is a retry.
* **Detection**: the rows of a DETECTED video are those of one published event; rows
  before the event; a named crop exists; no event acknowledged and lost.
* **Embedding**: one row per artifact; rows before batches; no event acknowledged
  unless its batches are out or the video is FAILED.
* **Indexing**: linked rows have points; INDEXED only after all batches of a run; the
  guard drops only what is stored; no batch acknowledged and lost. The second and the
  third do not hold of this code; section 3 says how far they do.
* **Embedding and indexing together**: the video comes to rest INDEXED or FAILED, and
  every artifact reaches Qdrant. Neither holds without exception.
* **Scenes and clips**: the scenes partition the video, the clips of a scene show all
  of it (where the duration is known), and the event names an object for each clip that
  shows it.
* **Inference**: never two calls at once that somebody waits for, and every call is
  answered although an executor thread cannot be stopped.
* **Search**: an answer is what Qdrant and PostgreSQL hold, once they have been quiet
  for the life of a cached list; the pages of a search fit together if their sizes are
  above 0; a result is dropped only for a better one near it, and no two near each other stay; a filter on a
  camera finds what the camera saw.
* **History**: the most recent searches, and a reader misses none of them.

`PROJECT.json` lists the hazards behind these properties, each at its line.

## 2. Modules

| Module | Models | Builds on |
|---|---|---|
| `Broker` | one queue, its consumers, acks, nacks, lost connections, crashes | |
| `Delivery` | the queue with any producer and any handler: the promises of delivery | `Broker` |
| `VideoStatus` | the statuses and `_mark_status` | |
| `Indexing` | indexing workers; producer and other writers as environment | `Broker`, `VideoStatus` |
| `Detection` | detection workers; preprocessing and the later stages as environment | `Broker`, `VideoStatus` |
| `Embedding` | embedding workers; detection and indexing as environment | `Broker`, `VideoStatus` |
| `EmbedIndex` | both, on one status, one table and one queue | instances of the two |
| `Ingestion` | concurrent requests, their transactions, MinIO, the crash of the process | `VideoStatus` |
| `Preprocessing` | preprocessing workers; ingestion and the later stages as environment | `Broker`, `VideoStatus` |
| `Intake` | both, on one status, one bucket and one queue | `Ingestion`, instance of `Preprocessing` |
| `SceneClips` | scenes and clips of a video, and the clips in storage | |
| `InferenceGuard` | semaphore, timeout and executor threads around a model | |
| `TemporalDedup` | the loop that drops near results | |
| `Search` | concurrent searches, the result cache, pages; indexing as environment | `TemporalDedup` |
| `SearchHistory` | the history list in Redis, its writers and a reader | |
| `BrokerProofs` | lemmas about the queue that the services' proofs cite | `Broker` |
| `IndexingProofs`, `EmbeddingProofs`, `DetectionProofs`, `PreprocessingProofs` | theorems about one module each | that module, `BrokerProofs` |
| `EmbedIndexProofs` | theorems about `EmbedIndex` | `EmbedIndex`, instance of `IndexingProofs` |
| `IntakeProofs` | theorems about `Ingestion`, and about both ends of `Intake` | `Intake`, instance of `PreprocessingProofs` |
| `PartsProofs` | theorems about `Delivery`, `TemporalDedup`, `Search`, `SearchHistory`, `InferenceGuard`, `SceneClips` | these, `BrokerProofs` |
| `MC...` | instances for TLC | `MCUploads` and `MCProgress` also choose what happens in their first state |

**The granularity** is that of the code's suspension points: one action for each
database transaction, Qdrant call, storage call or publication, so that every `await`
is a place where others run. `pc[w]` is the place of worker `w` in its handler, and a
handler's local data is what the message in its hand says. A crash discards `pc` and
`hand` and keeps the database, MinIO and the queue.

**Broker.** `log` is the sequence of bodies ever published; a message is its position.
`ready`, `buf`, `hand`, `acked` and `dead` are the places a message can be in.
`session` tells an open channel from one that was lost under a running handler
(`"stale"`) and from a consumer that is gone (`"down"`). On a stale session ack and
nack raise out of `start_consuming`, as `_handle_one` has no handler for that; the
task is gone and only `Restart` brings it back. A requeued message goes back to its
old position in the queue, which is behind what consumers hold already.

**Indexing and Embedding** describe one video. All reads and writes are keyed by
`video_id`, so other videos only share the queue. A *run* is one attempt of embedding;
`Content[r]` is its sequence of batches of artifacts. A point id is a UUID5 of video
and source path, so a point is its artifact. The runs need not have anything in common:
every attempt of detection draws new crop ids (`detection.py:165`), so the artifacts of a
second event are partly others. `overtaken` remembers the batches that a worker gave back
(`GiveBack`) while it held newer ones in its iterator: those are handled first, whatever
the queue does with the one that came back.

**Detection** describes one video as well. Frame keys are functions of the video and of
the position, so that a redelivered or a second event names the same frames; a frame in
`Hits` shows one object. A detection is named by the attempt that drew its id and by its
frame, so that rows and crops of different attempts can be told apart. The rows of a
frame are one transaction, the event comes after the last frame. Whatever goes wrong
when a frame is fetched counts as transient (`FrameRetried`), a failed upload of a crop
is swallowed (`CropLost`).

**Ingestion.** A request stands for the video it would create (`uuid4`). `status[v]`
is what is committed; `pending` holds the rows of open transactions. PostgreSQL's
unique index makes a second insert of a hash wait for the first transaction and then
fail or go on. All rejected uploads share the hash `""`. `get_db` commits after the
handler returned, or rolls back when it raised, as it does for the 422 of a rejected
upload.

**Preprocessing.** Claim, a second PROCESSING, the stages, storing, publishing,
PREPROCESSED, ack. The rollback of a partial upload calls `delete_artifact`, which
`PreprocessingStorageService` does not have; its AttributeError is not a
`PreprocessingError` and dead-letters the message (`StoreBroken`).

**SceneClips.** One frame per step: whether the picture changed is a choice, which
covers every histogram and every frame that cannot be read. `Paired` is the list of
scenes of the sorted boundaries. A clip is a step too, because each has a branch of
`_clip_windows`; `StoreClip` writes the object under the key of its scene. Time is in
units of which the code has milliseconds. `length` is what ffprobe says, the length of the
video or 0 when it fails (`transcoder.py:91-99`); the frames are those of the video in both
cases. `OrWhole` is the one scene that `segment` falls back to.

**InferenceGuard** has what `CLIPQueryEncoder`, `CLIPEmbedder` and
`GroundingDINODetector` share: one holder of the semaphore, a job in the executor, and
`wait_for`. On a timeout a job that waits for a thread is withdrawn, one that computes
becomes `abandoned` and occupies its thread for as long as it likes.

**Search.** A request is at the cache lookup (`Hit`, `Miss`), the retrieval, the
hydration point by point, storing, or the answer; each is an `await` of the code where
other requests and indexing go on. A search is a query with its filters, as the cache
key is. `points` and `joined` are what Qdrant and PostgreSQL hold; `Payload` is what
indexing stores and `Passes` the filter search builds. `visit[c]` follows one search
over its pages as its client sees it: the token, the pages put together, and whether
they were all computed from the same hits and with sizes above 0 (`uneven` if not). The
image route takes any `page_size` (`routes.py:144`), 0 stands for the default and what is
below 0 goes through `min()` (`search.py:151-154`), so page sizes are any integers but 0:
`Page` slices as Python does, from the end of the list for a bound below 0, and
`NextOffset` hands out tokens below 0, which the client sends back. `quiet` counts the ticks since anything
changed below the cache. `Deduplicated` is what the loop of `TemporalDedup` returns
(theorem `DedupComputes`); the loop runs result by result in a module of its own because
its invariants are about its steps. `Selected` picks elements of a list by their places;
it is written with the number of a place, as the provers know no `SelectSeq`.

**SearchHistory.** `append_history` is two calls, `LPUSH` and `LTRIM`, and either may
be missing. The reader turns pages with a cursor that is a position. `promised` is what
was in the list from its first page on.

**Composition.** `EmbedIndex` and `Intake` join the components by their variables: a
step of a component changes its own and the shared variables, and `Forward` turns what
one publishes into a message of the other's queue. `ImplementsIndexing` and
`ImplementsPreprocessing` state that the composition is a behaviour of the component's
own specification, so that the environment there is general enough and whatever is
proved of `Indexing` alone holds of it beside the real `Embedding`.

`MCProgress` and `MCParts` put parts that share no variable side by side: the first
state chooses one of them, and the others stay at their initial states. Such a run asks
the questions of each part by itself; nothing is composed.

Definitions whose comment starts with "Fault:" are broken variants of the definition
that follows them. No specification uses them; they are there to show that each
property fails when the code has the bug they describe.

## 3. Runs

| Run | Instance | Shows |
|---|---|---|
| `delivery_unattended` | 1 consumer, 1 message, no restart | **violated**: a lost connection stops a consumer for good |
| `indexing` | 1 worker, prefetch 5, 2 runs whose crops differ, the second with an unusable vector, all faults | a batch is overtaken only when it is retried behind newer ones; INDEXED means each batch of a run stored, rejected, dead-lettered or overtaken; what the guard drops is stored, with named exceptions; linked rows have points, no batch lost silently |
| `indexing_prefetch` | the same worker, one run, retried faults | **violated**: INDEXED with a batch missing |
| `detection` | 1 worker, prefetch 2, 2 events, 3 frames of which 2 show something, 3 attempts, all faults | rows of a DETECTED video are a published event's, rows before the event, crops exist, nothing lost |
| `progress` | `retries`, `embedding`, `indexing`: 1 embedding worker (prefetch 2) and 1 indexing worker (prefetch 5), 1 event, 2 attempts of 2 batches, with retries of both services or any of transient failures, lost connections and crashes of one of them; `queue`: 2 consumers, prefetch 2, 3 messages, all faults; `guard`: 3 callers, 2 threads | refinement of `Indexing`, eventually searchable unless overtaken and skipped; delivery promises, and that all is settled once faults cease; one call computes, every call is answered |
| `embed_index_rest` | both services of `progress` without faults | **violated**: rests EMBEDDED |
| `intake` | 3 requests (2 of one content and 1 corrupt, or 2 corrupt and 1 other), 2 workers, prefetch 1, all faults in both services | ingestion races, waiting for equal and for empty hashes, claim, refinement of `Preprocessing`, every request answered |
| `intake_early` | 1 worker, no faults | **violated**: an accepted video stays PENDING |
| `intake_retry` | 1 worker, transient failures only | **violated**: a retried video stays PROCESSING |
| `parts` | `requests`: 2 clients, one with page sizes 1 and 2 and one with -1, 2 searches, 4 points, all faults; `dedup`: every ranking of those; `history`: 2 searches, limit 3, pages of 2, 5 entries; `clips`: 4 lengths of video, known or not, any frames; `embedding`: 1 worker, prefetch 2, 3 attempts at 2 events, all faults | see the five modules' properties |
| `clips_kept` | the part `clips` of `parts` | **violated**: clips of one scene overwrite each other |
| `camera_filter` | 1 client that asks for one camera, no faults | **violated**: answered with nothing |

### The violated runs

Each quotes a sentence of the repository in `PROJECT.json`; in short:

* `delivery_unattended`: "consume forever" (`consumer.py:60-62`). Ack and nack are
  outside any `try`; no container has a restart policy, and the process stays up.
* `indexing_prefetch`: `embeddings_ready.py:28-31`. INDEXED looks at the index of the
  batch in hand only. With the default prefetch of 5 (`indexing/core/config.py:32`) one
  transient failure puts a batch behind those that the worker holds already, the final one
  among them. A batch that is not the first is then only late; the first is lost: when it
  is delivered again the guard (`indexing.py:74-82`) sees INDEXED, and drops and
  acknowledges it. `indexing` and `progress` pass with the same prefetch because their
  properties name this loss as an exception: `IndexedMeansAccounted` and
  `EventuallySearchable` are what is left of the promise, and they show that nothing else
  breaks it. `SkippedMeansStored` has one exception more, which needs no prefetch: of two
  detections of a video the second has other crops, and its first batch is dropped if the
  first was INDEXED in between.
* `embed_index_rest`: `src/Architecture.md:649-650`. EMBEDDED is written after
  the batches are out.
* `intake_early`: `src/Architecture.md:56` and `:371`. The event leaves before
  the commit, and a missing row is acknowledged.
* `intake_retry`: `preprocessing.py:11-16`. PROCESSING is committed by the claim and
  refused by the next one.
* `clips_kept`: `frame_extracted.py:45-47`. The key of a clip has no window index; the
  local file of the same clip has one. The rest of `SceneClips` holds: the windows
  themselves are right.
* `camera_filter`: `indexing.py:218-219`, `src/Architecture.md:236` and `:413`. Indexing
  stores no `camera_id` and no `location`, and the filter of search requires them. The
  property asks only for a non-empty answer.

### Bounds, and why they are enough

`MaxMessages`, `MaxEvents`, `Runs` and `Requests` bound what enters the system; all else
is bounded by them. Two of everything that competes (workers, uploads of one content,
batches, clients, searches) is what a race needs; three messages with prefetch two let
one overtake another; a second run that shares a frame with the first and has other crops
meets the status, the rows and the points of the first. Retries are bounded only in
`Embedding`, where each attempt consumes a run: `MayRetry` disables a fault that would
need an attempt beyond the last. In `Detection` `MaxAttempts` counts passes of the
guard, three of them: one whose rows stay, one that clears them, and one of the other
event; a frame without a hit stands between two with one, so that rows of an unfinished
attempt differ from those of a finished one. A frame shows at most one object: rows of a
frame are written together anyway. `LaterStatuses = {"DETECTED"}` stands for every
status of later stages that the claim does not refuse; the claim is the only reader.

In `Search` an entry lives two ticks (`ResultTTL`) and a request takes at most one
(`MaxDelay`), so that an entry can be renewed, can outlive a change, and can be written
by a request that began before one. One change (`MaxChanges`) is enough to make two
lists differ; the rows that were lost may come back. `TopK` cuts a list of four points
to two; page sizes of one and two make a search of one page and one of two. Of the four
points of `dedup` three are of one video and start at 0, 5 and 7 with a window of 5: two
neighbours, two that are exactly a window apart, and rankings that put the third between
the neighbours; a fourth starts with one of them in another video. `EveryRanking` is
every order of every subset. A list of at most five entries under a limit of three is
trimmed twice, over pages of two. The lengths 1, 2, 5 and 6 of a video give, with a
minimum of 3 and a maximum of 4, scenes below, at and between the bounds and scenes of
two windows. Two executor threads are the least with which an abandoned one can be
beside another, and three callers the least with which one waits while another holds;
with both threads abandoned a job waits for a thread until its own timeout.

One client turns the pages of `Search` with sizes one and two; the other has only the size
-1, which gives the list without its end and a token of -1. Tokens are followed down to
`MaxBack` below 0: a visit with such a page is excepted from `PagesFitTogether`, and what
it could do to the visits of others it can do by then.

Of the four uploads of `MCUploads` one never comes, one of the two that are alike or one of
the two corrupt ones: three at a time are enough for each race, those for the hash of a
video and those for the empty hash of rejected uploads.

`indexing` has one worker, as one container runs; `LinkedRowsHavePoints` and
`AckedMeansHandled` are theorems for any workers (section 4), so a larger instance would
add nothing. Its prefetch of 5 is the default, and more than the four batches there can
be: everything published may be in the iterator when a batch goes back. The `progress` run
has the same prefetch over four batches. For size it does not combine crashes and lost
connections of one service with failures of the other: `embedding` and `indexing` have
every fault of the one beside a service that does its work, in any order of their steps,
and `retries` has messages of both come back. `EventuallySearchable` is only checked that
far; `ImplementsIndexing` is a theorem for every combination.

### Fairness

* `DeliveryFairness` and the `Fairness` of `EmbedIndex`, which `progress` states
  together (of a part that does not run no step is enabled, and fairness asks nothing of
  it), assume that RabbitMQ delivers, that handlers come to an end (asyncio runs them;
  FFmpeg and inference have timeouts) and that a worker that is down is started again.
  The last is an assumption about whoever operates the system, not about the code:
  `UnattendedSpec` drops it and `delivery_unattended` shows the difference.
* `GuardFairness` only assumes that a coroutine inside the semaphore goes on when its job
  is done or its time is over: the event loop runs and `wait_for` has a timeout. No
  thread need take a job or end one.
* `FairSpec` of `Intake` only assumes that each request runs to its end while the
  process lives. Nothing is assumed of the workers.
* `FaultsCease` and `QueueFaultsCease` are premises of the liveness properties and not
  of the specification: faults may happen any number of times before. `EventuallySettled`
  then asks that all messages are settled, not one of them.

`CHECK_DEADLOCK FALSE` is set where the system may come to rest with all requests
answered and all messages settled.

## 4. Proofs

All for any values of the constants: any sets of consumers, any prefetch, any number of
messages, runs, frames, uploads and faults, any results and window, any limits. What a
theorem assumes beyond the `...Assumption`s of the modules is said below.

### The queue

* `BrokerProofs` proves for each action of `Broker` that it preserves `QueueInv`.
  `ExactlyOneHome` is not inductive alone: a consumer whose session is not open must hold
  nothing in its buffer, and a crashed one nothing in hand (`SessionsOK`); otherwise a
  restart would make old deliveries count again. `QueueMove(S)` is what a step
  of a service may do to its queue, `S` being the bodies it publishes there. Such a step
  preserves `QueueInv` and what is published stays where it is (`QueueMoves`), what is
  settled stays settled (`SettledGrows`), and a worker whose place in its handler moves
  with its hand is idle exactly when it has nothing in hand (`IdleMoves`). A service's
  proof then has one case for each of its actions and needs no look into the queue.
* `DeliveryTypes`, `DeliveryExactlyOneHome`, `DeliveryHandledTwice`: `QueueInv` with the
  type of the bodies.
* The order: `InOrder` says that what a consumer has in hand, and each delivery in its
  iterator, is older than everything that is neither done nor ahead of it there. For one
  consumer (`Alone`) every step of the queue keeps it, whatever the prefetch, a lost
  connection and a crash included, up to the message that is requeued while newer ones are
  in the iterator: that one has to count as done (`InOrderMoves`). With several consumers
  there is no such order.

### The services, for any number of workers

Each invariant says, for each place of a handler, what the worker has done with the
message in its hand; `QueueInv` is part of it, so that the message in hand keeps its body
and is settled by nobody else.

* `IndexingTypes`, `IndexingLinkedRows`, `IndexingAcked`: at `link` the points of the
  batch are stored, at `ack` it is handled (`Progress`), and points, rejections and skips
  only grow (`GrowsStep`).
* `EmbeddingTypes`, `EmbeddingAcks` and `DetectionTypes`, `DetectionAcks`,
  `DetectionCrops`: a worker at its acknowledgement has published, or has marked the video
  FAILED, or found a status that says so; a crop is named only by an attempt that stored
  it, and nobody removes one.
* `PreprocessingTypes`, `PreprocessingClaims`, `PreprocessingAnnounces`,
  `PreprocessingRecorded`: the row of a video in hand says PROCESSING until its frames
  are announced, and the claim refuses PROCESSING, so nobody else claims it (`Held`).
  `ClaimedByOne` is not inductive without it: the status is what the lock protects, and
  the other writers of the status must be shown to come later. Hypothesis:
  `LaterStatusesOK`, the later stages write statuses and remove no row.
* `IngestionAlone`, for `IngestionSpec`: the requests of `Ingestion` without a worker.
  `OneTransactionPerKey` is PostgreSQL's unique index for open transactions; `RequestOK`
  says what a request has done at each stage, in particular that the object it may still
  have to delete is referred to by no row and no event. Neither `ReferencedObjectsExist`
  nor `OneRecordPerContent` is inductive without both.
* `IntakeRefines`: every step of `Intake` is one that `Preprocessing` allows for, so
  `ImplementsPreprocessing` is a theorem and not only a checked property. A commit of a
  request is the environment's new row; a crash of ingestion is no step of preprocessing;
  `Forward` is its publication, which needs that no request is published twice. The
  bound of that environment, `MaxEvents`, is the number of requests, which therefore must
  be finitely many (`IntakeAssumption`).
* `IntakeTypes`, `IntakeClaims`, `IntakeAnnounces` follow from the theorems about
  preprocessing along that refinement, with its hypothesis discharged by
  `IntakeAssumption`; `IntakeObjects`, `IntakeRecords`, `IntakeDuplicates` from the
  invariant of ingestion, which the workers' steps preserve because they write a status
  and never remove a row; `IntakeAnnouncesOnce` from both ends together.

* `EmbedIndexRefines`: every step of `EmbedIndex` is one that `Indexing` allows for, so
  `ImplementsIndexing` is a theorem, for any number of workers of either service and
  every combination of their faults. `AttemptsInv` says what the environment of
  `Indexing` takes for granted: an attempt has one worker and is not made again, it
  inserts its rows once, and it publishes only after that and no batch beyond its last
  (`AttemptOK`). A redelivered event is a new attempt, which is why retries and crashes
  of embedding are nothing new to indexing. `EmbedMove` is a step of embedding without
  its queue, so that the refinement has one case for each thing indexing can see.
* `EmbedIndexLinkedRows`, `EmbedIndexAcked` and, with one indexing worker,
  `EmbedIndexAccounted` follow from the theorems about indexing along that refinement.

### The services, with one worker

These theorems have the hypothesis `Alone`, one consumer at the queue, which is what the
compose file starts. They are false for two, as section 5 says.

* `EmbeddingRows`, `EmbeddingOrder` and `DetectionRecords`, `DetectionOrder`. The
  invariant ties the rows in the table to the attempt that is running: after the clearing
  they are exactly what it has written so far (`RowsOfAttempt`), between attempts they
  are of one (`RowsOfOneRun`). The two `...Order` theorems are action properties: a step
  that publishes does so over rows that are there.
* `IndexingOrder`, `IndexingAccounted`, `IndexingSkips`, for any prefetch and any runs.
  `OrderInv` adds to the invariant of indexing that deliveries are `InOrder` up to
  `overtaken`, that the batches of a run are published in order (`BatchesInOrder`), and
  that INDEXED, and every skip, comes after one run is complete but for what is `Missed`
  (rejected, dead-lettered or overtaken). The step that matters is the final batch: all
  earlier ones of its run are settled or overtaken when it is handled, and by
  `AckedMeansHandled` the settled ones are stored or given up (`FinishCompletes`).
  `CompleteBut` asks for a run that has batches: embedding publishes nothing and marks
  nothing otherwise. That `overtaken` is not empty is the bug of `indexing_prefetch`; the
  theorems say that it is the only one of its kind. Nothing is assumed of what the runs
  have in common.

### The parts

* `DedupKeepsApart`, `DedupDropsNearBetter`. `KeptApart` is not inductive: the loop
  compares with `keptAt`, so the invariant adds that `keptAt` is the start times of
  `kept`, both ways (`KeptTimes`): one way so that a result that passes the test is near
  nothing kept, the other so that one that fails it is near something kept; and that what
  is kept was passed, which makes it better.
* `HistoryMostRecent`. `MostRecentKept` is inductive with types and with `trimming`
  finite: a push adds one entry and one search that has still to trim, a lost trimming
  moves it to `untrimmed`, a trimming keeps the head (`PrefixIsHead`).
* `HistoryReaderMissesNothing`. While somebody reads, what of the promised entries lies
  before the cursor was given (`ReaderInv`). A push shifts the list by one and only
  brings entries that were given behind the cursor again; the new entry is not promised,
  for which `MostRecentKept` is needed: its number is greater than all others.
* `GuardSerialises`. The invariant `Exclusive`: one coroutine inside, jobs only inside,
  and each waiter once in the queue, so that the one who is let in is not there again.
* `ScenesFollowEachOther`. `PairedFacts`: `sorted(set(boundaries))`, paired, leaves out
  nothing, whatever the boundaries are, if 0 is one of them and the end of the video is
  added. It rests on `RankOnto`, that counting a finite set of numbers from its least
  numbers all of its members, proved from a least counterexample (`Smallest`), as the
  provers take no induction. `Located` finds the scene of a frame in the same way.
  `ScenesMade` has the three ways scenes come about: with a known duration; without one
  from the changes of picture, up to the last of them (`LastFacts`); and without either,
  by the fallback (`PairedNone`). So there is always a scene, and `Follow` says where the
  last one ends.
* `ClipsShowAll`. The invariant `CutInv` has the scenes that are done shown, and one that
  is above the maximum shown from its start to where its last clip ends (`PartlyCut`), so
  that the next window goes on there. `PaddedFacts` is the arithmetic of padding: half of
  what is missing before, the rest behind, never less than the scene and never past the
  end of the video, if that is known. `Owed` are the scenes that must be shown: all of
  them with a known duration, otherwise those that need no padding.
* `DedupComputes`: when the loop of `TemporalDedup` is through, what it has kept is
  `Deduplicated(ranked)`. `Greedy(list, n, K)` says that `K` are the places, among the
  first `n`, that no earlier place in `K` is close to. There is exactly one such `K`
  (`GreedyUnique`, `GreedyExists`, each from a least counterexample), one result more
  changes it as a round of the loop does (`GreedyStep`), and so the loop, the recursive
  function and `Representatives`, which the properties are stated with, are the same list
  (`DeduplicatedChosen`, `DeduplicatedRepresents`).
* `SearchPagesFit`. The invariant `PagesInv` has the types (`SearchTypes`), that every
  cached list is the whole list of the hits stored with it, and for each visit that the
  pages it was given are the head of its list and its token the place behind them, unless
  the visit is uneven (`VisitOK`). A request between its lookup and its answer has a page
  size and a place to begin at, below 0 only in an uneven visit, or the answer would not be
  a page. Page sizes are any integers but 0, which the code replaces by the default. `PageFits` is the arithmetic of one page:
  head and page meet without gap or overlap, and the token is missing exactly when
  nothing is left.
* `SearchFresh`. `FreshWhenQuiet` alone is not inductive: a request may carry hits from
  before the last change for as long as it takes, and store them. `FreshInv` compares
  ages: a request that is younger than the quiet gathers the hits of the moment (found,
  and still to join, `Pending`); an entry that was stored more than `MaxDelay` into the
  quiet, which its remaining life tells, holds them. A tick adds one on both sides except
  where `quiet` is capped, and the cap is beyond every delay because an entry lives for at
  least one tick. `SelectedAgain` brings the definition of the answer of the moment (the
  head of the ranking of the points, then those with a row) into the form in which the
  cache has it (a ranking of hits).
* The last two rest on `SearchAssumption`: there is a search, a ranking names each point
  once (points have ids), and the life of an entry is at least one tick, as `SETEX` takes
  no zero.

### Model-checked only

Liveness and everything under fairness (`EventuallySettled`, `EveryCallAnswered`,
`EventuallySearchable`, `EventuallyAnswered`) is beyond the provers. Every invariant and
every action property that a passing run checks is a theorem.

## 5. Seen while modelling, without a run

* A detection event that is redelivered clears and re-inserts the embedding rows and
  publishes new batches; when indexing has marked the video INDEXED meanwhile, its guard
  skips the first of them (`indexing.py:80-82`) and the rows of that batch keep no point
  id, against `src/Architecture.md:978` ("which vectors are in Qdrant?"). When detection
  was repeated as well, the crops of that batch are new ones and not in Qdrant at all:
  the second exception of `SkippedMeansStored`.
* With two detection workers, a lost connection lets one clear while the other inserts:
  rows of two attempts, and an event whose rows are gone.
* `GroundingDINODetector.load` imports `torch` again inside an `if`, which makes the name
  local to the function: with the device `cuda` the test above it reads an unbound local
  (`grounding_dino.py:51` and `:73`). Only other devices start.
* "Every call to detect() is serialised" (`grounding_dino.py:7-10`), "All encode calls are
  serialised" (`clip_encoder.py:9-11`): after a timeout the executor thread goes on while
  the semaphore is free, and two threads use the model at once. `InferenceGuard` has such
  threads as `abandoned`; `OneCallComputes` is what is left of the promise.
* `storage/client.py:10-15` says that NoSuchKey must not be wrapped in a recoverable
  error, as that requeues for ever; `detection.py:133-138` wraps every failure of a
  fetch so.
* A database failure during hydration is swallowed (`search.py:290-299`): the search
  answers 200 with fewer results or none and caches that for the TTL, where
  `schemas.py:31-38` has a 503 for "PG down". `FreshWhenQuiet` counts it as a change.
* A clip that is extended at the end of the video, and the last window of a split scene,
  may be below the minimum, against "clamped to [MIN, MAX]" (`clip_generator.py:7-8`);
  `wanted` is always the minimum, never the default.
* `start_ms` and `end_ms` of a search are documented as epoch milliseconds
  (`schemas.py:57-58`) and compared with a timestamp that counts from the start of the
  video.
* The text route takes a `page_size` from 1 to 100, the image route any (`routes.py:144`).
  With -1 the first page is all results but the last, and its token is -1, which slices
  from the end (`search.py:458-459`, `:475`): following it repeats and skips results.
  `PagesFitTogether` has this as its exception.
* When ffprobe fails, the duration of a video counts as 0 (`transcoder.py:91-99`). Its
  scenes then end at the last change of picture, or are one empty scene; and a scene that
  has to be padded gives a clip that ends at 0, where it begins or before, for which FFmpeg
  is asked for no length or a negative one. `ScenesPartition` and `ClipsCoverScenes` have
  this as their exception.
* A search answered from the cache is not in the history; a failed read of the history is
  answered like its end.
* `search.py:122-123` says that the hashes of several images are XORed; the code hashes the
  joined bytes.
* With two embedding workers, a lost connection lets both clear and then both insert:
  every artifact has two rows, and `scalar_one_or_none` in search raises for it.
* `_publish_in_batches` says a failed publish marks the video FAILED
  (`embedding.py:281-283`); the recoverable branch re-raises and leaves PROCESSING.
* The row of a rejected upload, there for the audit (`src/Architecture.md:1431`), is
  rolled back by the exception of the 422.
* The loser of two racing uploads gets a 500, not the duplicate answer.
* The skip list of the claim lacks DETECTED and EMBEDDED (`preprocessing.py:301`; its
  docstring says "PREPROCESSED or further along"): a late redelivery preprocesses such a
  video again. The model does so, and no property judges it: `ClaimedByOne` is about videos
  that are not announced, and `announced` is a set of videos.
* PREPROCESSED is written over what detection has written by then (`preprocessing.py:101`).
  It is in `Preprocessing` and therefore on both sides of `ImplementsPreprocessing`.
* All services bind their dead-letter queue to one exchange with `#`: every such queue
  gets every dead letter.

## 6. Abstractions, and what is not modelled

Bytes, vectors, payloads and file contents are model values; hashing is `ContentOf`.
Malformed messages do not occur: `PublishEvent` publishes what the publisher's model
built; a consumer that gets one acknowledges it (detection, embedding, indexing) or
dead-letters it (preprocessing, which does not catch the validation error), and
`Delivery` has both ends. A partial upsert is any subset of the chunk. Quarantine
buckets, webhooks and local temporary files are left out: nothing in the models reads
them. In `Detection`, `Embedding` and `Indexing` the row of the video exists. A partial
`_persist_artifacts` leaves objects that no event refers to, and `stored` means all of
it.

In `Search` the nearest points are the true nearest (`exact=False` in the code: HNSW may
miss some), a query has one vector (the cache of vectors holds what encoding gives
again), and a point passes a filter by the fields of its payload; ranges of time are
sets of accepted timestamps. A video whose rows are doubled is one whose rows are
missing, because hydration raises for it. In `SearchHistory` there is one reader, who
never restarts a reading half way; pushes that fail are searches that did not happen.
`SceneClips` describes one video after the other in one process, as one worker does.

Not modelled: image processing and inference (FFmpeg, OpenCV, CLIP, DINO: external and
numeric), health routes (constant), API and dashboard (empty), configuration, logging,
migrations and compose files (no state at run time), the storage client's retry loop on its
own (its outcomes are those of its callers), and the in-memory queue of the filesystem
watcher beyond what a crash does to a request.

## 7. Plan

Order of work, the most important behaviour first. Done: 1 to 8 and 10.

1. `Broker`, `Delivery` and their proofs: all stages stand on them.
2. `Indexing` with its proofs: the end of the pipeline, the meaning of INDEXED.
3. `Embedding`, which feeds it.
4. `EmbedIndex`: refinement of `Indexing`, liveness, the two races on the status.
5. `Ingestion`, `Preprocessing`, `Intake`: the other end.
6. `Detection`, with rows, fresh crop ids and the retry of a missing frame.
7. `Search`, `TemporalDedup`, `SearchHistory`: searches, cache and indexing interleaved.
8. `SceneClips` and `InferenceGuard`.
9. The composition of `Detection` with the queue of `Preprocessing` and with `Embedding`,
   and two workers of each.
10. Proofs. Left: liveness, which stays with TLC.
