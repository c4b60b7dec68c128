--------------------------- MODULE EmbeddingProofs --------------------------
(***************************************************************************)
(* Theorems about the embedding service, for any prefetch, any events and  *)
(* contents and any combination of faults: what is acknowledged for any    *)
(* number of workers, the rows for a worker that has the queue for itself. *)
(***************************************************************************)
EXTENDS Embedding, BrokerProofs

IdleOK == \A w \in Consumers : pc[w] = "idle" <=> hand[w] = None

\* Where a worker has an attempt of its own, not refused yet.
Attempting == {"embed", "insert", "publish", "finish", "empty"}

\* What a worker knows of its attempt: how many of its batches are out.
PlaceOK(w) ==
    /\ pc[w] \in Attempting => run[w] \in used
    /\ pc[w] \in {"embed", "insert", "publish"} =>
           sent[run[w]] < Len(Content[run[w]])
    /\ pc[w] \in {"embed", "insert"} => sent[run[w]] = 0
    /\ pc[w] = "publish" => run[w] \in inserted
    /\ pc[w] = "finish" => Published(run[w])

\* No two workers publish the batches of one attempt.
OwnAttempts ==
    \A w, x \in Consumers :
        w # x /\ pc[w] \in Attempting /\ pc[x] \in Attempting => run[w] # run[x]

SentByAttempts == \A r \in Runs \ used : sent[r] = 0

SomePublished == \E r \in used : Published(r)

ToAck(w) == pc[w] = "ack" => hand[w] \in failed \/ SomePublished

DoneIsPublished == status \in {"EMBEDDED", "INDEXED"} => SomePublished

EmbeddingInv ==
    /\ EmbeddingTypeOK
    /\ QueueInv
    /\ AckedMeansPublished
    /\ DoneIsPublished
    /\ OwnAttempts
    /\ SentByAttempts
    /\ \A w \in Consumers : PlaceOK(w) /\ ToAck(w)

\* A worker that is alone: the rows are those of one attempt, as the worker
\* inserted them, and the artifacts of the batches that go out are among them.
RowsOfOneRun == \A x, y \in rows : x.run = y.run /\ x.linked = FALSE

Persisted(r) ==
    \A k \in DOMAIN Content[r] :
        Content[r][k] \subseteq {row.source_path : row \in rows}

RowsOfAttempt(w) ==
    /\ pc[w] \in {"embed", "insert"} => rows = {}
    /\ pc[w] = "publish" => Persisted(run[w])

AloneInv ==
    /\ EmbeddingInv
    /\ RowsOfOneRun
    /\ \A w \in Consumers : RowsOfAttempt(w)

-----------------------------------------------------------------------------
(* The queue and the types                                                 *)

LEMMA QueueStep ==
    ASSUME EmbeddingTypeOK, QueueInv, [EmbeddingNext]_vars
    PROVE  QueueInv' /\ LogGrows /\ log' \in Seq(Events)
<1>1. QueueMove(Events)
    <2>1. ASSUME NEW w \in Consumers, Process(w) PROVE QueueMove(Events)
        BY <2>1 DEF QueueMove, Process, AlreadyProcessed, NotProcessed,
            MarkProcessing, ClearExisting, Embed, InsertRows, PublishBatch,
            MarkEmbedded, MarkFailed, AckEvent
    <2>2. ASSUME NEW w \in Consumers, Failure(w) PROVE QueueMove(Events)
        BY <2>2 DEF QueueMove, Failure, EmbedRetried, EmbedRefused,
            PublishRetried, Unforeseen, WrapAndRetry, Unexpected,
            LoseConnection, CrashWorker
    <2>3. ASSUME NEW w \in Consumers, Receive(w) \/ Start(w) \/ RestartWorker(w)
          PROVE  QueueMove(Events)
        BY <2>3 DEF QueueMove, Receive, Start, RestartWorker
    <2>4. (\E e \in Events : PublishEvent(e)) => QueueMove(Events)
        BY DEF QueueMove, PublishEvent
    <2>5. (\E s \in VideoStatuses : IndexingMarks(s)) \/ UNCHANGED vars
              => QueueMove(Events)
        BY DEF QueueMove, IndexingMarks, vars
    <2> QED
        BY <2>1, <2>2, <2>3, <2>4, <2>5 DEF EmbeddingNext, Worker
<1> QED
    BY <1>1, QueueMoves DEF EmbeddingTypeOK

LEMMA IdleStep ==
    ASSUME EmbeddingTypeOK, QueueInv, [EmbeddingNext]_vars
    PROVE  (pc \in [Consumers -> Locations] /\ IdleOK)'
<1> DEFINE Moves ==
        \/ pc' = pc /\ hand' = hand
        \/ \E w \in Consumers, l \in Locations \ {"idle"} :
              /\ pc' = [pc EXCEPT ![w] = l]
              /\ Take(w) \/ (pc[w] # "idle" /\ hand' = hand)
        \/ \E w \in Consumers :
              /\ pc' = [pc EXCEPT ![w] = "idle"]
              /\ hand' = [hand EXCEPT ![w] = None]
<1>1. ASSUME NEW w \in Consumers,
             Process(w) \/ EmbedRefused(w) \/ Unforeseen(w), ~ AckEvent(w)
      PROVE  Moves
    <2>1. \E l \in Locations \ {"idle"} : Goto(w, l)
        BY <1>1 DEF Process, AlreadyProcessed, NotProcessed, MarkProcessing,
            ClearExisting, Embed, InsertRows, PublishBatch, MarkEmbedded,
            MarkFailed, EmbedRefused, Unforeseen, Locations
    <2>2. pc[w] # "idle" /\ hand' = hand
        BY <1>1 DEF Process, AlreadyProcessed, NotProcessed, MarkProcessing,
            ClearExisting, Embed, InsertRows, PublishBatch, MarkEmbedded,
            MarkFailed, EmbedRefused, Unforeseen, brokerVars
    <2> QED
        BY <2>1, <2>2 DEF Goto
<1>2. ASSUME NEW w \in Consumers,
             \/ AckEvent(w) \/ EmbedRetried(w) \/ PublishRetried(w)
             \/ WrapAndRetry(w) \/ Unexpected(w) \/ CrashWorker(w)
      PROVE  Moves
    BY <1>2 DEF AckEvent, EmbedRetried, PublishRetried, WrapAndRetry,
        Unexpected, CrashWorker, Ack, Requeue, DeadLetter, Release, Crash,
        Return, Goto
<1>3. ASSUME NEW w \in Consumers, Start(w) PROVE Moves
    BY <1>3 DEF Start, Goto, Locations
<1>4. ASSUME NEW w \in Consumers,
             Receive(w) \/ LoseConnection(w) \/ RestartWorker(w)
      PROVE  Moves
    BY <1>4 DEF Receive, LoseConnection, RestartWorker, Deliver,
        ConnectionLost, Restart, attemptVars
<1>5. \/ \E s \in VideoStatuses : IndexingMarks(s)
      \/ \E e \in Events : PublishEvent(e)
      \/ UNCHANGED vars
      => Moves
    BY DEF IndexingMarks, PublishEvent, Publish, vars, brokerVars, attemptVars
<1>6. Moves
    BY <1>1, <1>2, <1>3, <1>4, <1>5 DEF EmbeddingNext, Worker, Process, Failure
<1>7. /\ log \in Seq(Events)
      /\ pc \in [Consumers -> Locations]
      /\ \A w \in Consumers : pc[w] = "idle" <=> hand[w] = None
      /\ "idle" \in Locations
    BY DEF EmbeddingTypeOK, Locations
<1> QED
    BY <1>6, <1>7, IdleMoves DEF IdleOK

-----------------------------------------------------------------------------
(* The attempts                                                            *)

LEMMA ContentFacts ==
    ASSUME NEW r \in Runs
    PROVE  /\ Content[r] \in Seq(SUBSET Artifacts)
           /\ Len(Content[r]) \in Nat
           /\ DOMAIN Content[r] = 1 .. Len(Content[r])
           /\ Content[r] = << >> <=> Len(Content[r]) = 0
<1>1. Content[r] \in Seq(SUBSET Artifacts)
    BY EmbeddingAssumption DEF EmbeddingAssumption
<1> QED
    BY <1>1, LenProperties, EmptySeq

\* The part of the invariant that is about the attempts and what they leave.
AttemptsOK ==
    /\ status \in VideoStatuses \cup {Absent}
    /\ rows \subseteq Rows
    /\ inserted \subseteq used
    /\ used \subseteq Runs
    /\ sent \in [Runs -> Nat]
    /\ \A r \in Runs : sent[r] <= Len(Content[r])
    /\ run \in [Consumers -> Runs \cup {NoRun}]
    /\ OwnAttempts
    /\ SentByAttempts
    /\ \A w \in Consumers : PlaceOK(w)

LEMMA AttemptsKnown ==
    ASSUME EmbeddingInv
    PROVE  AttemptsOK /\ pc \in [Consumers -> Locations]
BY DEF EmbeddingInv, EmbeddingTypeOK, AttemptsOK

LEMMA StatusTypes ==
    ASSUME NEW s \in VideoStatuses \cup {Absent}, NEW t \in VideoStatuses
    PROVE  Marked(s, t) \in VideoStatuses \cup {Absent}
BY DEF Marked

LEMMA PlaceStays ==
    ASSUME NEW w \in Consumers, PlaceOK(w),
           pc'[w] = pc[w], run'[w] = run[w],
           used \subseteq used', inserted \subseteq inserted',
           pc[w] \in Attempting => sent'[run[w]] = sent[run[w]]
    PROVE  PlaceOK(w)'
BY DEF PlaceOK, Published, Attempting

\* A worker that does nothing but move on, or ends its attempt.
LEMMA LocalMove ==
    ASSUME AttemptsOK, pc \in [Consumers -> Locations],
           NEW w \in Consumers, NEW l, Goto(w, l),
           l \in Attempting => pc[w] = "embed" /\ l = "insert",
           run' = run \/ (run' = [run EXCEPT ![w] = NoRun] /\ l \notin Attempting),
           status' \in VideoStatuses \cup {Absent},
           UNCHANGED <<rows, outputVars, used>>
    PROVE  AttemptsOK'
<1>1. /\ UNCHANGED <<inserted, sent>>
      /\ pc'[w] = l
      /\ \A x \in Consumers \ {w} : pc'[x] = pc[x] /\ run'[x] = run[x]
      /\ run' \in [Consumers -> Runs \cup {NoRun}]
    BY DEF outputVars, AttemptsOK, Goto
<1>2. ASSUME NEW x \in Consumers PROVE PlaceOK(x)'
    <2>1. CASE x # w
        BY <1>1, <2>1, PlaceStays DEF AttemptsOK
    <2>2. CASE x = w
        BY <1>1, <2>2 DEF AttemptsOK, PlaceOK, Attempting
    <2> QED
        BY <2>1, <2>2
<1>3. OwnAttempts'
    BY <1>1 DEF AttemptsOK, OwnAttempts, Attempting
<1>4. SentByAttempts'
    BY <1>1 DEF AttemptsOK, SentByAttempts
<1> QED
    BY <1>1, <1>2, <1>3, <1>4 DEF AttemptsOK

LEMMA ClearStep ==
    ASSUME AttemptsOK, pc \in [Consumers -> Locations],
           NEW w \in Consumers, ClearExisting(w)
    PROVE  AttemptsOK'
<1>1. PICK r \in Runs \ used :
          /\ run' = [run EXCEPT ![w] = r]
          /\ used' = used \cup {r}
          /\ Goto(w, IF Content[r] = << >> THEN "empty" ELSE "embed")
    BY DEF ClearExisting
<1>2. /\ rows' = {}
      /\ UNCHANGED <<status, inserted, sent>>
    BY DEF ClearExisting, outputVars
<1>3. /\ run'[w] = r /\ pc'[w] \in {"empty", "embed"}
      /\ pc'[w] = "embed" => Content[r] # << >>
      /\ \A x \in Consumers \ {w} : pc'[x] = pc[x] /\ run'[x] = run[x]
      /\ run' \in [Consumers -> Runs \cup {NoRun}]
    BY <1>1 DEF AttemptsOK, Goto
<1>4. sent[r] = 0
    BY DEF AttemptsOK, SentByAttempts
<1>5. ASSUME NEW x \in Consumers PROVE PlaceOK(x)'
    <2>1. CASE x # w
        BY <1>1, <1>2, <1>3, <2>1, PlaceStays DEF AttemptsOK
    <2>2. CASE x = w
        <3>1. Content[r] # << >> => 0 < Len(Content[r])
            BY ContentFacts
        <3> QED
            BY <1>1, <1>2, <1>3, <1>4, <2>2, <3>1 DEF PlaceOK
    <2> QED
        BY <2>1, <2>2
<1>6. OwnAttempts'
    <2>1. \A x \in Consumers : pc[x] \in Attempting => run[x] \in used
        BY DEF AttemptsOK, PlaceOK
    <2> QED
        BY <1>3, <2>1 DEF AttemptsOK, OwnAttempts
<1>7. SentByAttempts'
    BY <1>1, <1>2 DEF AttemptsOK, SentByAttempts
<1> QED
    BY <1>1, <1>2, <1>3, <1>5, <1>6, <1>7 DEF AttemptsOK

LEMMA InsertStep ==
    ASSUME AttemptsOK, pc \in [Consumers -> Locations],
           NEW w \in Consumers, InsertRows(w)
    PROVE  AttemptsOK'
<1>1. /\ pc[w] = "insert" /\ pc' = [pc EXCEPT ![w] = "publish"]
      /\ inserted' = inserted \cup {run[w]}
      /\ UNCHANGED <<status, sent, run, used>>
    BY DEF InsertRows, Goto
<1>2. run[w] \in used /\ run[w] \in Runs
    BY <1>1 DEF AttemptsOK, PlaceOK, Attempting
<1>3. rows' \subseteq Rows
    <2>1. \A k \in DOMAIN Content[run[w]] : Content[run[w]][k] \subseteq Artifacts
        BY <1>2, ContentFacts, ElementOfSeq
    <2>2. ASSUME NEW a \in UNION {Content[run[w]][k] : k \in DOMAIN Content[run[w]]}
          PROVE  [run |-> run[w], source_path |-> a, linked |-> FALSE] \in Rows
        BY <1>2, <2>1 DEF Rows
    <2> QED
        BY <2>2 DEF AttemptsOK, InsertRows
<1>4. ASSUME NEW x \in Consumers PROVE PlaceOK(x)'
    <2>1. CASE x # w
        BY <1>1, <2>1, PlaceStays DEF AttemptsOK
    <2>2. CASE x = w
        BY <1>1, <1>2, <2>2 DEF AttemptsOK, PlaceOK
    <2> QED
        BY <2>1, <2>2
<1>5. OwnAttempts'
    BY <1>1 DEF AttemptsOK, OwnAttempts, Attempting
<1>6. SentByAttempts'
    BY <1>1 DEF AttemptsOK, SentByAttempts
<1> QED
    BY <1>1, <1>2, <1>3, <1>4, <1>5, <1>6 DEF AttemptsOK

\* A batch goes out, and the worker moves on or ends its attempt.
LEMMA SendStep ==
    ASSUME AttemptsOK, pc \in [Consumers -> Locations],
           NEW w \in Consumers, pc[w] = "publish", Sent(w), NEW l, Goto(w, l),
           \/ l = "idle" /\ run' = [run EXCEPT ![w] = NoRun]
           \/ /\ run' = run
              /\ l = IF sent[run[w]] + 1 = Len(Content[run[w]])
                     THEN "finish" ELSE "publish",
           UNCHANGED <<status, rows, inserted, used>>
    PROVE  AttemptsOK'
<1> DEFINE r == run[w]
<1>1. /\ r \in Runs /\ r \in used /\ r \in inserted
      /\ sent[r] \in Nat
      /\ sent[r] < Len(Content[r])
      /\ sent'[r] = sent[r] + 1
      /\ \A q \in Runs \ {r} : sent'[q] = sent[q]
      /\ sent' \in [Runs -> Nat]
    BY DEF AttemptsOK, PlaceOK, Attempting, Sent
<1>2. Len(Content[r]) \in Nat /\ (Content[r] = << >> <=> Len(Content[r]) = 0)
    BY <1>1, ContentFacts
<1>3. /\ pc'[w] = l
      /\ \A x \in Consumers \ {w} : pc'[x] = pc[x] /\ run'[x] = run[x]
      /\ run' \in [Consumers -> Runs \cup {NoRun}]
    BY DEF Goto, AttemptsOK
<1>4. sent'[r] <= Len(Content[r])
    BY <1>1, <1>2
<1>5. l \in {"finish", "publish"} => run'[w] = r
    BY DEF AttemptsOK
<1>6. PlaceOK(w)'
    <2>1. CASE l = "idle"
        BY <1>3, <2>1 DEF PlaceOK, Attempting
    <2>2. CASE l = "finish"
        <3>1. sent'[r] = Len(Content[r]) /\ Content[r] # << >>
            BY <1>1, <1>2, <2>2
        <3> QED
            BY <1>1, <1>3, <1>5, <2>2, <3>1 DEF PlaceOK, Published
    <2>3. CASE l = "publish"
        <3>1. sent'[r] < Len(Content[r])
            BY <1>1, <1>2, <2>3
        <3> QED
            BY <1>1, <1>3, <1>5, <2>3, <3>1 DEF PlaceOK
    <2> QED
        BY <2>1, <2>2, <2>3
<1>7. ASSUME NEW x \in Consumers \ {w} PROVE PlaceOK(x)'
    <2>1. pc[x] \in Attempting => run[x] # r /\ run[x] \in Runs
        BY DEF AttemptsOK, OwnAttempts, PlaceOK, Attempting
    <2> QED
        BY <1>1, <1>3, <2>1, PlaceStays DEF AttemptsOK
<1>8. OwnAttempts'
    <2>1. l \in Attempting => l \in {"finish", "publish"}
        BY DEF Attempting
    <2>2. pc[w] \in Attempting
        BY DEF Attempting
    <2> QED
        BY <1>3, <1>5, <2>1, <2>2 DEF AttemptsOK, OwnAttempts
<1>9. SentByAttempts'
    BY <1>1 DEF AttemptsOK, SentByAttempts
<1>10. \A q \in Runs : sent'[q] <= Len(Content[q])
    BY <1>1, <1>4 DEF AttemptsOK
<1> QED
    BY <1>1, <1>3, <1>6, <1>7, <1>8, <1>9, <1>10 DEF AttemptsOK

LEMMA AttemptsStep ==
    ASSUME EmbeddingInv, [EmbeddingNext]_vars
    PROVE  AttemptsOK'
<1>1. AttemptsOK /\ pc \in [Consumers -> Locations]
    BY AttemptsKnown
<1>2. {"PROCESSING", "EMBEDDED", "FAILED"} \subseteq VideoStatuses
    BY DEF VideoStatuses
<1>3. ASSUME NEW w \in Consumers,
             \/ AlreadyProcessed(w) \/ NotProcessed(w) \/ MarkProcessing(w)
             \/ Embed(w) \/ MarkEmbedded(w) \/ MarkFailed(w)
             \/ EmbedRefused(w) \/ Unforeseen(w) \/ Start(w)
      PROVE  AttemptsOK'
    <2>1. PICK l \in Locations :
              /\ Goto(w, l)
              /\ l \in Attempting => pc[w] = "embed" /\ l = "insert"
        BY <1>3 DEF AlreadyProcessed, NotProcessed, MarkProcessing, Embed,
            MarkEmbedded, MarkFailed, EmbedRefused, Unforeseen, Start,
            Locations, Attempting
    <2>2. UNCHANGED <<rows, outputVars, run, used>>
        BY <1>3 DEF AlreadyProcessed, NotProcessed, MarkProcessing, Embed,
            MarkEmbedded, MarkFailed, EmbedRefused, Unforeseen, Start, tableVars
    <2>3. status' \in VideoStatuses \cup {Absent}
        BY <1>1, <1>2, <1>3, StatusTypes
        DEF AlreadyProcessed, NotProcessed, MarkProcessing, Embed,
            MarkEmbedded, MarkFailed, EmbedRefused, Unforeseen, Start,
            tableVars, AttemptsOK
    <2> QED
        BY <1>1, <2>1, <2>2, <2>3, LocalMove
<1>4. ASSUME NEW w \in Consumers,
             \/ AckEvent(w) \/ EmbedRetried(w) \/ Unexpected(w)
             \/ CrashWorker(w) \/ WrapAndRetry(w)
      PROVE  AttemptsOK'
    <2>1. Return(w) /\ UNCHANGED <<rows, outputVars>>
        BY <1>4 DEF AckEvent, EmbedRetried, Unexpected, CrashWorker,
            WrapAndRetry, tableVars
    <2>2. status' \in VideoStatuses \cup {Absent}
        BY <1>1, <1>2, <1>4, StatusTypes
        DEF AckEvent, EmbedRetried, Unexpected, CrashWorker, WrapAndRetry,
            tableVars, AttemptsOK
    <2> QED
        BY <1>1, <2>1, <2>2, LocalMove DEF Return, Attempting
<1>5. ASSUME NEW w \in Consumers, PublishBatch(w)
      PROVE  AttemptsOK'
    BY <1>1, <1>5, SendStep DEF PublishBatch, tableVars
<1>6. ASSUME NEW w \in Consumers, PublishRetried(w)
      PROVE  AttemptsOK'
    <2>1. /\ Return(w) /\ pc[w] = "publish"
          /\ UNCHANGED <<status, rows, inserted>>
          /\ Sent(w) \/ sent' = sent
        BY <1>6 DEF PublishRetried, tableVars
    <2>2. CASE Sent(w)
        BY <1>1, <2>1, <2>2, SendStep DEF Return
    <2>3. CASE sent' = sent
        BY <1>1, <2>1, <2>3, LocalMove DEF Return, Attempting, AttemptsOK,
            outputVars
    <2> QED
        BY <2>1, <2>2, <2>3
<1>7. ASSUME UNCHANGED <<rows, outputVars, attemptVars>>,
             status' \in VideoStatuses \cup {Absent}
      PROVE  AttemptsOK'
    <2>1. UNCHANGED <<rows, inserted, sent, pc, run, used>>
        BY <1>7 DEF outputVars, attemptVars
    <2>2. \A w \in Consumers : PlaceOK(w)'
        BY <1>1, <2>1 DEF AttemptsOK, PlaceOK, Published
    <2>3. OwnAttempts' /\ SentByAttempts'
        BY <1>1, <2>1 DEF AttemptsOK, OwnAttempts, SentByAttempts
    <2> QED
        BY <1>1, <1>7, <2>1, <2>2, <2>3 DEF AttemptsOK
<1>8. ASSUME \/ \E w \in Consumers :
                   Receive(w) \/ LoseConnection(w) \/ RestartWorker(w)
             \/ \E e \in Events : PublishEvent(e)
             \/ \E s \in VideoStatuses : IndexingMarks(s)
             \/ UNCHANGED vars
      PROVE  AttemptsOK'
    <2>1. UNCHANGED <<rows, outputVars, attemptVars>>
        BY <1>8 DEF Receive, LoseConnection, RestartWorker, PublishEvent,
            IndexingMarks, vars, tableVars
    <2>2. status' \in VideoStatuses \cup {Absent}
        BY <1>1, <1>8 DEF Receive, LoseConnection, RestartWorker,
            PublishEvent, IndexingMarks, vars, tableVars, AttemptsOK
    <2> QED
        BY <1>7, <2>1, <2>2
<1> QED
    BY <1>1, <1>3, <1>4, <1>5, <1>6, <1>8, ClearStep, InsertStep
    DEF EmbeddingNext, Worker, Process, Failure

-----------------------------------------------------------------------------
(* What was acknowledged                                                   *)

\* What is published stays published.
LEMMA PublishedStays ==
    ASSUME EmbeddingInv, [EmbeddingNext]_vars
    PROVE  SomePublished => SomePublished'
<1>1. AttemptsOK /\ AttemptsOK'
    BY AttemptsKnown, AttemptsStep
<1>2. used \subseteq used'
    BY DEF EmbeddingNext, Worker, Process, Failure, AlreadyProcessed,
        NotProcessed, MarkProcessing, ClearExisting, Embed, InsertRows,
        PublishBatch, MarkEmbedded, MarkFailed, AckEvent, EmbedRetried,
        EmbedRefused, PublishRetried, Unforeseen, WrapAndRetry, Unexpected,
        LoseConnection, CrashWorker, Receive, Start, RestartWorker,
        PublishEvent, IndexingMarks, Return, vars, attemptVars
<1>3. sent' = sent \/ \E w \in Consumers : Sent(w)
    BY DEF EmbeddingNext, Worker, Process, Failure, AlreadyProcessed,
        NotProcessed, MarkProcessing, ClearExisting, Embed, InsertRows,
        PublishBatch, MarkEmbedded, MarkFailed, AckEvent, EmbedRetried,
        EmbedRefused, PublishRetried, Unforeseen, WrapAndRetry, Unexpected,
        LoseConnection, CrashWorker, Receive, Start, RestartWorker,
        PublishEvent, IndexingMarks, vars, outputVars
<1>4. ASSUME NEW r \in Runs, Published(r) PROVE Published(r)'
    <2>1. /\ sent[r] \in Nat /\ sent'[r] \in Nat
          /\ sent[r] <= sent'[r]
        BY <1>1, <1>3 DEF AttemptsOK, Sent
    <2>2. sent'[r] <= Len(Content[r]) /\ Len(Content[r]) \in Nat
        BY <1>1, ContentFacts DEF AttemptsOK
    <2> QED
        BY <1>4, <2>1, <2>2 DEF Published
<1> QED
    BY <1>1, <1>2, <1>4 DEF AttemptsOK, SomePublished

AcksOK ==
    /\ AckedMeansPublished
    /\ DoneIsPublished
    /\ \A w \in Consumers : ToAck(w)

\* A step after which nothing more is acknowledged.
LEMMA NothingAcked ==
    ASSUME EmbeddingInv, SomePublished => SomePublished',
           acked' = acked, failed \subseteq failed',
           \/ status' = status
           \/ status' \in {"EMBEDDED", "INDEXED"} => SomePublished,
           \A w \in Consumers :
               \/ pc'[w] # "ack"
               \/ pc'[w] = pc[w] /\ hand'[w] = hand[w]
               \/ SomePublished \/ hand'[w] \in failed'
    PROVE  AcksOK'
<1>1. ASSUME NEW w \in Consumers PROVE ToAck(w)'
    BY DEF EmbeddingInv, ToAck
<1>2. DoneIsPublished'
    BY DEF EmbeddingInv, DoneIsPublished
<1>3. AckedMeansPublished'
    <2>1. \A i \in acked : i \in failed \/ SomePublished
        BY DEF EmbeddingInv, AckedMeansPublished, SomePublished
    <2> QED
        BY <2>1 DEF AckedMeansPublished, SomePublished
<1> QED
    BY <1>1, <1>2, <1>3 DEF AcksOK

LEMMA AcksStep ==
    ASSUME EmbeddingInv, [EmbeddingNext]_vars
    PROVE  AcksOK'
<1>1. /\ AttemptsOK /\ pc \in [Consumers -> Locations]
      /\ hand \in [Consumers -> Messages \cup {None}]
      /\ SomePublished => SomePublished'
    BY AttemptsKnown, PublishedStays DEF EmbeddingInv, QueueInv, QueueTypeOK
<1>2. ASSUME NEW w \in Consumers,
             AlreadyProcessed(w) \/ MarkEmbedded(w) \/ MarkFailed(w)
      PROVE  AcksOK'
    <2>1. /\ pc' = [pc EXCEPT ![w] = "ack"]
          /\ hand' = hand /\ acked' = acked
          /\ failed \subseteq failed'
        BY <1>2 DEF AlreadyProcessed, MarkEmbedded, MarkFailed, brokerVars,
            historyVars, Goto
    <2>2. pc[w] = "finish" => SomePublished
        BY <1>1 DEF AttemptsOK, PlaceOK, Attempting, SomePublished
    <2>3. SomePublished \/ hand[w] \in failed'
        BY <1>2, <2>2
        DEF AlreadyProcessed, MarkEmbedded, MarkFailed, EmbeddingInv, DoneIsPublished
    <2>4. \/ status' = status
          \/ status' \in {"EMBEDDED", "INDEXED"} => SomePublished
        BY <1>2, <2>2
        DEF AlreadyProcessed, MarkEmbedded, MarkFailed, Marked, tableVars
    <2> QED
        BY <1>1, <2>1, <2>3, <2>4, NothingAcked
<1>3. ASSUME NEW w \in Consumers,
             \/ NotProcessed(w) \/ MarkProcessing(w) \/ ClearExisting(w)
             \/ Embed(w) \/ InsertRows(w) \/ PublishBatch(w)
             \/ EmbedRefused(w) \/ Unforeseen(w)
      PROVE  AcksOK'
    <2>1. PICK l \in Locations \ {"ack"} : Goto(w, l)
        BY <1>3 DEF NotProcessed, MarkProcessing, ClearExisting, Embed,
            InsertRows, PublishBatch, EmbedRefused, Unforeseen, Locations
    <2>2. /\ hand' = hand /\ acked' = acked /\ failed' = failed
          /\ status' = status \/ status' = Marked(status, "PROCESSING")
        BY <1>3 DEF NotProcessed, MarkProcessing, ClearExisting, Embed,
            InsertRows, PublishBatch, EmbedRefused, Unforeseen, brokerVars,
            historyVars, tableVars
    <2>3. \/ status' = status
          \/ status' \notin {"EMBEDDED", "INDEXED"}
        BY <2>2 DEF Marked, Absent
    <2> QED
        BY <1>1, <2>1, <2>2, <2>3, NothingAcked DEF Goto
<1>4. ASSUME NEW w \in Consumers, AckEvent(w)
      PROVE  AcksOK'
    <2>1. /\ pc[w] = "ack"
          /\ pc' = [pc EXCEPT ![w] = "idle"]
          /\ hand' = [hand EXCEPT ![w] = None]
          /\ acked' \subseteq acked \cup {hand[w]}
          /\ UNCHANGED <<status, failed>>
        BY <1>4 DEF AckEvent, Return, Goto, Ack, Release, Abandon, tableVars,
            historyVars
    <2>2. \A i \in acked' : i \in failed \/ SomePublished
        BY <2>1 DEF EmbeddingInv, AckedMeansPublished, ToAck, SomePublished
    <2>3. AckedMeansPublished'
        BY <1>1, <2>1, <2>2 DEF AckedMeansPublished, SomePublished
    <2>4. ASSUME NEW x \in Consumers PROVE ToAck(x)'
        BY <1>1, <2>1 DEF EmbeddingInv, ToAck
    <2>5. DoneIsPublished'
        BY <1>1, <2>1 DEF EmbeddingInv, DoneIsPublished
    <2> QED
        BY <2>3, <2>4, <2>5 DEF AcksOK
<1>5. ASSUME NEW w \in Consumers,
             \/ EmbedRetried(w) \/ PublishRetried(w) \/ WrapAndRetry(w)
             \/ Unexpected(w) \/ CrashWorker(w)
      PROVE  AcksOK'
    <2>1. /\ pc' = [pc EXCEPT ![w] = "idle"]
          /\ hand' = [hand EXCEPT ![w] = None]
          /\ acked' = acked
          /\ failed \subseteq failed'
          /\ status' = status \/ status' = Marked(status, "FAILED")
        BY <1>5 DEF EmbedRetried, PublishRetried, WrapAndRetry, Unexpected,
            CrashWorker, Return, Goto, Requeue, DeadLetter, Release, Abandon,
            Crash, tableVars, historyVars
    <2>2. \/ status' = status
          \/ status' \notin {"EMBEDDED", "INDEXED"}
        BY <2>1 DEF Marked, Absent
    <2> QED
        BY <1>1, <2>1, <2>2, NothingAcked
<1>6. ASSUME NEW w \in Consumers, Start(w)
      PROVE  AcksOK'
    <2>1. /\ pc' = [pc EXCEPT ![w] = "guard"]
          /\ \A x \in Consumers \ {w} : hand'[x] = hand[x]
          /\ UNCHANGED <<status, failed, acked>>
        BY <1>1, <1>6 DEF Start, Take, Goto, tableVars, historyVars
    <2> QED
        BY <1>1, <2>1, NothingAcked
<1>7. ASSUME \/ \E w \in Consumers :
                   Receive(w) \/ LoseConnection(w) \/ RestartWorker(w)
             \/ \E e \in Events : PublishEvent(e)
             \/ \E s \in VideoStatuses : IndexingMarks(s)
             \/ UNCHANGED vars
      PROVE  AcksOK'
    <2>1. UNCHANGED <<pc, hand, acked, failed>>
        BY <1>7 DEF Receive, LoseConnection, RestartWorker, PublishEvent,
            IndexingMarks, Deliver, ConnectionLost, Restart, Publish, vars,
            brokerVars, attemptVars, historyVars
    <2>2. \/ status' = status
          \/ status' = "INDEXED" /\ \E r \in Runs : Published(r)
          \/ status' \in {"PROCESSING", "FAILED"}
        BY <1>7 DEF Receive, LoseConnection, RestartWorker, PublishEvent,
            IndexingMarks, vars, tableVars
    <2>3. ASSUME NEW r \in Runs, Published(r) PROVE SomePublished
        <3>1. sent[r] # 0
            BY <2>3, ContentFacts DEF Published
        <3> QED
            BY <1>1, <2>3, <3>1 DEF AttemptsOK, SentByAttempts, SomePublished
    <2> QED
        BY <1>1, <2>1, <2>2, <2>3, NothingAcked
<1> QED
    BY <1>2, <1>3, <1>4, <1>5, <1>6, <1>7
    DEF EmbeddingNext, Worker, Process, Failure

-----------------------------------------------------------------------------
LEMMA HistoryStep ==
    ASSUME EmbeddingInv, [EmbeddingNext]_vars, LogGrows
    PROVE  (skipped \subseteq Messages /\ failed \subseteq Messages)'
<1>1. /\ skipped \subseteq Messages /\ failed \subseteq Messages
      /\ Messages \subseteq Messages'
    BY DEF EmbeddingInv, EmbeddingTypeOK, LogGrows
<1>2. ASSUME NEW w \in Consumers, pc[w] # "idle" PROVE hand[w] \in Messages
    BY <1>2, BodyInHand DEF EmbeddingInv, EmbeddingTypeOK
<1>3. \/ UNCHANGED <<skipped, failed>>
      \/ \E w \in Consumers :
            /\ pc[w] # "idle"
            /\ skipped' \in {skipped, skipped \cup {hand[w]}}
            /\ failed' \in {failed, failed \cup {hand[w]}}
    <2>1. ASSUME NEW w \in Consumers,
                 AlreadyProcessed(w) \/ MarkFailed(w) \/ WrapAndRetry(w)
          PROVE  /\ pc[w] # "idle"
                 /\ skipped' \in {skipped, skipped \cup {hand[w]}}
                 /\ failed' \in {failed, failed \cup {hand[w]}}
        BY <2>1 DEF AlreadyProcessed, MarkFailed, WrapAndRetry
    <2>2. \/ UNCHANGED <<skipped, failed>>
          \/ \E w \in Consumers :
                AlreadyProcessed(w) \/ MarkFailed(w) \/ WrapAndRetry(w)
        BY DEF EmbeddingNext, Worker, Process, Failure, NotProcessed,
            MarkProcessing, ClearExisting, Embed, InsertRows, PublishBatch,
            MarkEmbedded, AckEvent, EmbedRetried, EmbedRefused,
            PublishRetried, Unforeseen, Unexpected, LoseConnection,
            CrashWorker, Receive, Start, RestartWorker, PublishEvent,
            IndexingMarks, vars, historyVars
    <2> QED
        BY <2>1, <2>2
<1> QED
    BY <1>1, <1>2, <1>3

LEMMA InvStep ==
    ASSUME EmbeddingInv, [EmbeddingNext]_vars
    PROVE  EmbeddingInv'
<1>1. QueueInv' /\ LogGrows /\ log' \in Seq(Events)
    BY QueueStep DEF EmbeddingInv
<1>2. (pc \in [Consumers -> Locations] /\ IdleOK)'
    BY IdleStep DEF EmbeddingInv
<1>3. AttemptsOK' /\ AcksOK'
    BY AttemptsStep, AcksStep
<1>4. (skipped \subseteq Messages /\ failed \subseteq Messages)'
    BY <1>1, HistoryStep
<1>5. EmbeddingTypeOK'
    BY <1>1, <1>2, <1>3, <1>4
    DEF EmbeddingTypeOK, AttemptsOK, QueueInv, IdleOK
<1> QED
    BY <1>1, <1>3, <1>5 DEF EmbeddingInv, AttemptsOK, AcksOK

LEMMA InvInit ==
    ASSUME EmbeddingInit
    PROVE  EmbeddingInv
<1>1. QueueInv
    BY InitQueue DEF EmbeddingInit
<1>2. /\ log = << >> /\ acked = {}
      /\ hand = [w \in Consumers |-> None]
      /\ status = "DETECTED"
      /\ rows = {} /\ inserted = {} /\ used = {} /\ skipped = {} /\ failed = {}
      /\ sent = [r \in Runs |-> 0]
      /\ pc = [w \in Consumers |-> "idle"]
      /\ run = [w \in Consumers |-> NoRun]
    BY DEF EmbeddingInit, BrokerInit
<1>3. EmbeddingTypeOK
    <2>1. \A r \in Runs : sent[r] <= Len(Content[r])
        BY <1>2, ContentFacts
    <2> QED
        BY <1>1, <1>2, <2>1, EmptySeq
        DEF EmbeddingTypeOK, QueueInv, Locations, VideoStatuses
<1> QED
    BY <1>1, <1>2, <1>3 DEF EmbeddingInv, AckedMeansPublished, DoneIsPublished,
        OwnAttempts, SentByAttempts, PlaceOK, ToAck, Attempting

LEMMA InvHolds == EmbeddingSpec => []EmbeddingInv
<1>1. EmbeddingInv /\ [EmbeddingNext]_vars => EmbeddingInv'
    BY InvStep
<1> QED
    BY <1>1, InvInit, PTL DEF EmbeddingSpec

\* The workers, the queue, the rows and the attempts keep to their types; no
\* attempt publishes more batches than it has.
THEOREM EmbeddingTypes == EmbeddingSpec => []EmbeddingTypeOK
<1>1. EmbeddingInv => EmbeddingTypeOK
    BY DEF EmbeddingInv
<1> QED
    BY <1>1, InvHolds, PTL

\* No detection event is lost (process_detections), whatever is redelivered
\* and however many workers there are: what was acknowledged is published in
\* full, by its own delivery or by that for which the guard skipped it, or the
\* video was marked FAILED for it.
THEOREM EmbeddingAcks == EmbeddingSpec => []AckedMeansPublished
<1>1. EmbeddingInv => AckedMeansPublished
    BY DEF EmbeddingInv
<1> QED
    BY <1>1, InvHolds, PTL

-----------------------------------------------------------------------------
(* One worker                                                              *)

RecordsOK == RowsOfOneRun /\ \A w \in Consumers : RowsOfAttempt(w)

LEMMA RecordsStep ==
    ASSUME Alone, AloneInv, [EmbeddingNext]_vars
    PROVE  RecordsOK'
<1>1. /\ AttemptsOK /\ pc \in [Consumers -> Locations]
      /\ RecordsOK
    BY AttemptsKnown DEF AloneInv, RecordsOK
<1>2. ASSUME NEW w \in Consumers
      PROVE  \A x \in Consumers : x = w
    BY <1>2 DEF Alone
\* The rows stay, and the attempt goes no further.
<1>3. ASSUME rows' = rows,
             \A w \in Consumers :
                 \/ pc'[w] \notin {"embed", "insert", "publish"}
                 \/ pc'[w] = pc[w] /\ run'[w] = run[w]
                 \/ pc[w] = "embed" /\ pc'[w] = "insert"
      PROVE  RecordsOK'
    BY <1>1, <1>3 DEF RecordsOK, RowsOfOneRun, RowsOfAttempt, Persisted
<1>4. ASSUME NEW w \in Consumers,
             \/ AlreadyProcessed(w) \/ NotProcessed(w) \/ MarkProcessing(w)
             \/ Embed(w) \/ PublishBatch(w) \/ MarkEmbedded(w) \/ MarkFailed(w)
             \/ EmbedRefused(w) \/ Unforeseen(w) \/ Start(w)
      PROVE  RecordsOK'
    <2>1. rows' = rows
        BY <1>4 DEF AlreadyProcessed, NotProcessed, MarkProcessing, Embed,
            PublishBatch, MarkEmbedded, MarkFailed, EmbedRefused, Unforeseen,
            Start, tableVars
    <2>2. \/ pc'[w] \notin {"embed", "insert", "publish"}
          \/ pc'[w] = pc[w] /\ run'[w] = run[w]
          \/ pc[w] = "embed" /\ pc'[w] = "insert"
        BY <1>1, <1>4 DEF AlreadyProcessed, NotProcessed, MarkProcessing,
            Embed, PublishBatch, MarkEmbedded, MarkFailed, EmbedRefused,
            Unforeseen, Start, Goto
    <2> QED
        BY <1>2, <1>3, <2>1, <2>2
<1>5. ASSUME NEW w \in Consumers,
             \/ AckEvent(w) \/ EmbedRetried(w) \/ PublishRetried(w)
             \/ WrapAndRetry(w) \/ Unexpected(w) \/ CrashWorker(w)
      PROVE  RecordsOK'
    <2>1. rows' = rows /\ pc'[w] = "idle"
        BY <1>1, <1>5 DEF AckEvent, EmbedRetried, PublishRetried, WrapAndRetry,
            Unexpected, CrashWorker, Return, Goto, tableVars
    <2> QED
        BY <1>2, <1>3, <2>1
<1>6. ASSUME NEW w \in Consumers, ClearExisting(w)
      PROVE  RecordsOK'
    <2>1. rows' = {} /\ pc'[w] \in {"empty", "embed"}
        BY <1>1, <1>6 DEF ClearExisting, Goto
    <2> QED
        BY <1>2, <2>1 DEF RecordsOK, RowsOfOneRun, RowsOfAttempt
<1>7. ASSUME NEW w \in Consumers, InsertRows(w)
      PROVE  RecordsOK'
    <2> DEFINE r == run[w]
               sources == UNION {Content[r][k] : k \in DOMAIN Content[r]}
    <2>1. /\ rows = {}
          /\ pc'[w] = "publish" /\ run'[w] = r
          /\ rows' = {[run |-> r, source_path |-> a, linked |-> FALSE] : a \in sources}
        BY <1>1, <1>7 DEF InsertRows, Goto, RecordsOK, RowsOfAttempt
    <2>2. ASSUME NEW k \in DOMAIN Content[r], NEW a \in Content[r][k]
          PROVE  \E row \in rows' : row.source_path = a
        <3>1. a \in sources
            OBVIOUS
        <3> HIDE DEF sources
        <3> DEFINE row == [run |-> r, source_path |-> a, linked |-> FALSE]
        <3>2. row \in rows' /\ row.source_path = a
            BY <2>1, <3>1
        <3> QED
            BY <3>2
    <2> HIDE DEF sources
    <2>3. RowsOfOneRun'
        BY <2>1 DEF RowsOfOneRun
    <2>4. RowsOfAttempt(w)'
        BY <2>1, <2>2 DEF RowsOfAttempt, Persisted
    <2> QED
        BY <1>2, <2>3, <2>4 DEF RecordsOK
<1>8. ASSUME \/ \E w \in Consumers :
                   Receive(w) \/ LoseConnection(w) \/ RestartWorker(w)
             \/ \E e \in Events : PublishEvent(e)
             \/ \E s \in VideoStatuses : IndexingMarks(s)
             \/ UNCHANGED vars
      PROVE  RecordsOK'
    <2>1. UNCHANGED <<rows, pc, run>>
        BY <1>8 DEF Receive, LoseConnection, RestartWorker, PublishEvent,
            IndexingMarks, vars, tableVars, attemptVars
    <2> QED
        BY <1>3, <2>1
<1> QED
    BY <1>4, <1>5, <1>6, <1>7, <1>8 DEF EmbeddingNext, Worker, Process, Failure

LEMMA AloneHolds ==
    ASSUME Alone
    PROVE  EmbeddingSpec => []AloneInv
<1>1. EmbeddingInit => AloneInv
    <2>1. SUFFICES ASSUME EmbeddingInit PROVE AloneInv
        OBVIOUS
    <2> QED
        BY <2>1, InvInit DEF EmbeddingInit, AloneInv, RowsOfOneRun, RowsOfAttempt
<1>2. AloneInv /\ [EmbeddingNext]_vars => AloneInv'
    BY InvStep, RecordsStep DEF AloneInv, RecordsOK
<1> QED
    BY <1>1, <1>2, PTL DEF EmbeddingSpec

\* Clearing before inserting closes the duplicate-row gap (process_detections)
\* for a worker that has the queue for itself: an artifact has one row,
\* whatever crashed or was requeued before.
THEOREM EmbeddingRows ==
    ASSUME Alone
    PROVE  EmbeddingSpec => []OneRowPerArtifact
<1>1. AloneInv => OneRowPerArtifact
    <2>1. SUFFICES ASSUME AloneInv, NEW x \in rows, NEW y \in rows,
                          x.source_path = y.source_path
                   PROVE  x = y
        BY DEF OneRowPerArtifact
    <2>2. x \in Rows /\ y \in Rows
        BY <2>1 DEF AloneInv, EmbeddingInv, EmbeddingTypeOK
    <2>3. x.run = y.run /\ x.linked = FALSE /\ y.linked = FALSE
        BY <2>1 DEF AloneInv, RowsOfOneRun
    <2> QED
        BY <2>1, <2>2, <2>3 DEF Rows
<1> QED
    BY <1>1, AloneHolds, PTL

\* Such a worker publishes a batch when its artifacts have rows that indexing
\* can link.
THEOREM EmbeddingOrder ==
    ASSUME Alone
    PROVE  EmbeddingSpec => PersistedBeforePublished
<1> DEFINE A == \A r \in Runs : sent'[r] # sent[r] =>
                    UNION {Content[r][k] : k \in DOMAIN Content[r] \cap {sent'[r]}}
                        \subseteq {row.source_path : row \in rows}
<1>1. ASSUME AloneInv, [EmbeddingNext]_vars
      PROVE  A
    <2>1. ASSUME NEW w \in Consumers, pc[w] = "publish", Sent(w)
          PROVE  A
        <3>1. /\ Persisted(run[w])
              /\ \A r \in Runs : sent'[r] # sent[r] => r = run[w]
            BY <1>1, <2>1 DEF AloneInv, RowsOfAttempt, Sent, EmbeddingInv,
                EmbeddingTypeOK
        <3>2. ASSUME NEW r \in Runs, sent'[r] # sent[r],
                     NEW k \in DOMAIN Content[r]
              PROVE  Content[r][k] \subseteq {row.source_path : row \in rows}
            BY <3>1, <3>2 DEF Persisted
        <3> QED
            BY <3>2
    <2>2. \/ sent' = sent
          \/ \E w \in Consumers : pc[w] = "publish" /\ Sent(w)
        BY <1>1 DEF EmbeddingNext, Worker, Process, Failure, AlreadyProcessed,
            NotProcessed, MarkProcessing, ClearExisting, Embed, InsertRows,
            PublishBatch, MarkEmbedded, MarkFailed, AckEvent, EmbedRetried,
            EmbedRefused, PublishRetried, Unforeseen, WrapAndRetry, Unexpected,
            LoseConnection, CrashWorker, Receive, Start, RestartWorker,
            PublishEvent, IndexingMarks, vars, outputVars
    <2>3. sent' = sent => A
        OBVIOUS
    <2> QED
        BY <2>1, <2>2, <2>3
<1>2. AloneInv /\ [EmbeddingNext]_vars => [A]_vars
    BY <1>1
<1> QED
    BY <1>2, AloneHolds, PTL DEF EmbeddingSpec, PersistedBeforePublished
=============================================================================
