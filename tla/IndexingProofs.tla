--------------------------- MODULE IndexingProofs ---------------------------
(***************************************************************************)
(* Theorems about the indexing service, for any number of workers, any     *)
(* prefetch, any runs and batches, and every combination of faults.        *)
(***************************************************************************)
EXTENDS Indexing, BrokerProofs

Handled(i) == Stored(i) \/ i \in rejected \/ (i \in skipped /\ IsFirst(log[i]))

\* What a worker has done by the time it gets to a place in process_embeddings.
Reached(w) ==
    /\ pc[w] \in {"guard", "mark"} => IsFirst(log[hand[w]])
    /\ pc[w] \in {"link", "finish"} => Stored(hand[w])
    /\ pc[w] = "finish" => IsFinal(log[hand[w]])
    /\ pc[w] = "ack" => Handled(hand[w])

Progress == \A w \in Consumers : Reached(w)

IndexingInv ==
    /\ IndexingTypeOK
    /\ QueueInv
    /\ LinkedRowsHavePoints
    /\ AckedMeansHandled
    /\ Progress

-----------------------------------------------------------------------------
(* The queue                                                               *)

LEMMA IndexingQueueMove ==
    ASSUME IndexingTypeOK, [IndexingNext]_vars
    PROVE  QueueMove(Batches)
<1> USE DEF QueueMove
<1>1. ASSUME NEW w \in Consumers, Worker(w)
      PROVE  QueueMove(Batches)
    <2>1. CASE Receive(w) \/ Start(w)
        BY <2>1 DEF Receive, Start
    <2>2. CASE \/ UpsertRetried(w) \/ LinkRetried(w)
               \/ AckBatch(w) \/ Unexpected(w)
        BY <2>2 DEF UpsertRetried, LinkRetried, GiveBack, AckBatch, Unexpected
    <2>3. CASE LoseConnection(w) \/ CrashWorker(w) \/ RestartWorker(w)
        BY <2>3 DEF LoseConnection, CrashWorker, RestartWorker
    <2>4. CASE \/ AlreadyIndexed(w) \/ NotIndexed(w) \/ MarkProcessing(w)
               \/ Invalid(w) \/ Upsert(w) \/ LinkRows(w) \/ MarkIndexed(w)
               \/ MarkFailed(w) \/ UpsertRefused(w)
        BY <2>4 DEF AlreadyIndexed, NotIndexed, MarkProcessing, Invalid,
            Upsert, LinkRows, MarkIndexed, MarkFailed, UpsertRefused
    <2> QED
        BY <1>1, <2>1, <2>2, <2>3, <2>4 DEF Worker, Process
<1>2. ASSUME NEW r \in Runs, PublishBatch(r)
      PROVE  QueueMove(Batches)
    BY <1>2 DEF PublishBatch, Batches, IndexingTypeOK
<1>3. ASSUME \/ \E r \in Runs : InsertRows(r)
             \/ ClearRows
             \/ \E s \in OtherStatuses : SetStatus(s)
             \/ UNCHANGED vars
      PROVE  QueueMove(Batches)
    BY <1>3 DEF InsertRows, ClearRows, SetStatus, vars
<1> QED
    BY <1>1, <1>2, <1>3 DEF IndexingNext, Others

\* Only a run of the embedding service publishes.
LEMMA PublishedStep ==
    ASSUME [IndexingNext]_vars
    PROVE  \/ log' = log /\ sent' = sent
           \/ \E r \in Runs : PublishBatch(r)
<1>1. ASSUME NEW w \in Consumers, Worker(w)
      PROVE  log' = log /\ sent' = sent
    BY <1>1 DEF Worker, Process, Receive, Start, AlreadyIndexed, NotIndexed,
        MarkProcessing, Invalid, Upsert, UpsertRetried, UpsertRefused,
        LinkRows, LinkRetried, MarkIndexed, MarkFailed, AckBatch,
        Unexpected, LoseConnection, CrashWorker, RestartWorker, brokerVars,
        Deliver, Take, GiveBack, Ack, Requeue, DeadLetter, Release,
        ConnectionLost, Crash, Restart, producerVars
<1>2. ASSUME Others
      PROVE  \/ log' = log /\ sent' = sent
             \/ \E r \in Runs : PublishBatch(r)
    BY <1>2 DEF Others, InsertRows, ClearRows, SetStatus, brokerVars, producerVars
<1>3. UNCHANGED vars => log' = log /\ sent' = sent
    BY DEF vars, brokerVars, producerVars
<1> QED
    BY <1>1, <1>2, <1>3 DEF IndexingNext

\* A batch that is published goes behind the others.
LEMMA PublishedLast ==
    ASSUME IndexingTypeOK, NEW r \in Runs, PublishBatch(r)
    PROVE  /\ Messages = 1 .. Len(log)
           /\ Len(log) \in Nat
           /\ Messages' = 1 .. Len(log) + 1
           /\ \A i \in Messages : log'[i] = log[i]
           /\ log'[Len(log) + 1] = [run |-> r, batch |-> sent[r]]
           /\ sent[r] < Len(Content[r])
           /\ sent' = [sent EXCEPT ![r] = sent[r] + 1]
<1> DEFINE body == [run |-> r, batch |-> sent[r]]
<1>1. /\ log' = Append(log, body)
      /\ sent[r] < Len(Content[r])
      /\ sent' = [sent EXCEPT ![r] = sent[r] + 1]
    BY DEF PublishBatch, Publish
<1>2. log \in Seq(Batches) /\ body \in Batches
    BY DEF IndexingTypeOK, Batches
<1> HIDE DEF body
<1>3. /\ Messages = 1 .. Len(log)
      /\ Len(log) \in Nat
      /\ Messages' = 1 .. Len(log) + 1
      /\ \A i \in 1 .. Len(log) : log'[i] = log[i]
      /\ log'[Len(log) + 1] = body
    BY <1>1, <1>2, AppendProperties, LenProperties DEF Messages
<1> QED
    BY <1>1, <1>3 DEF body

LEMMA QueueStep ==
    ASSUME IndexingTypeOK, QueueInv, [IndexingNext]_vars
    PROVE  /\ QueueInv'
           /\ LogGrows
           /\ log' \in Seq(Batches)
           /\ (\A i \in Messages : log[i].batch < Len(Content[log[i].run]))'
<1>1. /\ log \in Seq(Batches)
      /\ \A i \in Messages : log[i].batch < Len(Content[log[i].run])
    BY DEF IndexingTypeOK
<1>2. QueueInv' /\ LogGrows /\ log' \in Seq(Batches)
    BY <1>1, IndexingQueueMove, QueueMoves
<1>3. CASE log' = log
    BY <1>1, <1>2, <1>3 DEF Messages
<1>4. ASSUME NEW r \in Runs, PublishBatch(r), NEW i \in Messages'
      PROVE  log'[i].batch < Len(Content[log'[i].run])
    <2>1. /\ Messages = 1 .. Len(log)
          /\ Len(log) \in Nat
          /\ Messages' = 1 .. Len(log) + 1
          /\ \A j \in Messages : log'[j] = log[j]
          /\ log'[Len(log) + 1] = [run |-> r, batch |-> sent[r]]
          /\ sent[r] < Len(Content[r])
        BY <1>4, PublishedLast
    <2>2. CASE i \in Messages
        BY <1>1, <2>1, <2>2
    <2>3. CASE i = Len(log) + 1
        BY <2>1, <2>3
    <2>4. i \in Messages \/ i = Len(log) + 1
        BY <1>4, <2>1
    <2> QED
        BY <2>2, <2>3, <2>4
<1> QED
    BY <1>2, <1>3, <1>4, PublishedStep

-----------------------------------------------------------------------------
(* Types                                                                   *)

\* The place of a worker in process_embeddings, and what it has in hand.
IdleOK == \A w \in Consumers : pc[w] = "idle" <=> hand[w] = None

LEMMA IdleStep ==
    ASSUME IndexingTypeOK, QueueInv, [IndexingNext]_vars
    PROVE  (pc \in [Consumers -> Locations] /\ IdleOK)'
<1>1. /\ pc \in [Consumers -> Locations]
      /\ hand \in [Consumers -> Messages \cup {None}]
      /\ IdleOK
    BY DEF IndexingTypeOK, QueueTypeOK, IdleOK
<1> USE DEF IdleOK, Locations, Goto
\* Inside a handler nothing happens to the delivery.
<1>2. ASSUME NEW w \in Consumers, NEW l \in Locations \ {"idle"},
             pc[w] # "idle", Goto(w, l), hand' = hand
      PROVE  (pc \in [Consumers -> Locations] /\ IdleOK)'
    BY <1>1, <1>2
\* A handler ends with nothing in hand.
<1>3. ASSUME NEW w \in Consumers,
             Goto(w, "idle"), hand' = [hand EXCEPT ![w] = None]
      PROVE  (pc \in [Consumers -> Locations] /\ IdleOK)'
    BY <1>1, <1>3
<1>4. CASE pc' = pc /\ hand' = hand
    BY <1>1, <1>4
<1>5. ASSUME NEW w \in Consumers, Start(w)
      PROVE  (pc \in [Consumers -> Locations] /\ IdleOK)'
    <2>1. Head(buf[w]) # None
        <3>1. buf[w] \in Seq(Messages) /\ buf[w] # << >> /\ None \notin Messages
            BY <1>5, MessagesFacts DEF Start, Take, IndexingTypeOK, QueueTypeOK
        <3> QED
            BY <3>1, HeadTailFacts
    <2>2. hand' = [hand EXCEPT ![w] = Head(buf[w])]
        BY <1>5 DEF Start, Take
    <2>3. \E l \in {"guard", "upsert"} : pc' = [pc EXCEPT ![w] = l]
        BY <1>5 DEF Start
    <2> QED
        BY <1>1, <2>1, <2>2, <2>3
<1>6. ASSUME NEW w \in Consumers, Process(w)
      PROVE  (pc \in [Consumers -> Locations] /\ IdleOK)'
    <2>1. ASSUME \/ AlreadyIndexed(w) \/ NotIndexed(w) \/ MarkProcessing(w)
                 \/ Invalid(w) \/ Upsert(w) \/ LinkRows(w) \/ MarkIndexed(w)
                 \/ MarkFailed(w) \/ UpsertRefused(w)
          PROVE  /\ pc[w] # "idle" /\ hand' = hand
                 /\ \E l \in Locations \ {"idle"} : Goto(w, l)
        BY <2>1 DEF AlreadyIndexed, NotIndexed, MarkProcessing, Invalid, Upsert,
            LinkRows, MarkIndexed, MarkFailed, UpsertRefused, SomeChunks,
            brokerVars
    <2>2. ASSUME \/ UpsertRetried(w) \/ LinkRetried(w)
                 \/ AckBatch(w) \/ Unexpected(w)
          PROVE  Goto(w, "idle") /\ hand' = [hand EXCEPT ![w] = None]
        BY <2>2 DEF UpsertRetried, LinkRetried, AckBatch, Unexpected,
            GiveBack, Ack, Requeue, DeadLetter, Release
    <2> QED
        BY <1>2, <1>3, <1>6, <2>1, <2>2 DEF Process
<1>7. ASSUME NEW w \in Consumers, CrashWorker(w)
      PROVE  (pc \in [Consumers -> Locations] /\ IdleOK)'
    BY <1>3, <1>7 DEF CrashWorker, Crash
<1>8. ASSUME NEW w \in Consumers,
             Receive(w) \/ LoseConnection(w) \/ RestartWorker(w)
      PROVE  pc' = pc /\ hand' = hand
    BY <1>8 DEF Receive, LoseConnection, RestartWorker, workerVars, Deliver,
        ConnectionLost, Restart
<1>9. Others \/ UNCHANGED vars => pc' = pc /\ hand' = hand
    BY DEF Others, InsertRows, PublishBatch, Publish, ClearRows, SetStatus,
        vars, workerVars, brokerVars
<1> QED
    BY <1>4, <1>5, <1>6, <1>7, <1>8, <1>9 DEF IndexingNext, Worker

\* A handler that runs has a message in hand.
LEMMA HandFacts ==
    ASSUME IndexingTypeOK, NEW w \in Consumers, pc[w] # "idle"
    PROVE  /\ hand[w] \in Messages
           /\ InHand(w) \in Batches
           /\ InHand(w).batch < Len(Content[InHand(w).run])
           /\ Payload(InHand(w)) \subseteq Artifacts
<1> USE IndexingAssumption
<1>1. /\ log \in Seq(Batches)
      /\ hand[w] \in Messages
    BY DEF IndexingTypeOK, QueueTypeOK
<1>2. /\ InHand(w) \in Batches
      /\ InHand(w).batch < Len(Content[InHand(w).run])
    BY <1>1, LenProperties, ElementOfSeq DEF InHand, Messages, IndexingTypeOK
<1>3. Payload(InHand(w)) \in SUBSET Artifacts
    <2>1. Content[InHand(w).run] \in Seq(SUBSET Artifacts)
        BY <1>2 DEF Batches
    <2>2. InHand(w).batch + 1 \in 1 .. Len(Content[InHand(w).run])
        BY <1>2, <2>1, LenProperties DEF Batches
    <2> QED
        BY <2>1, <2>2, ElementOfSeq DEF Payload
<1> QED
    BY <1>1, <1>2, <1>3

LEMMA TypeStep ==
    ASSUME IndexingTypeOK, QueueInv, [IndexingNext]_vars
    PROVE  IndexingTypeOK'
<1> DEFINE DataOK ==
        /\ status \in VideoStatuses \cup {Absent}
        /\ rows \subseteq Rows
        /\ points \subseteq Artifacts \ Mismatched
        /\ inserted \subseteq Runs
        /\ sent \in [Runs -> Nat]
        /\ skipped \subseteq Messages
        /\ rejected \subseteq Messages
        /\ overtaken \subseteq Messages
<1>1. DataOK
    BY DEF IndexingTypeOK
<1>2. Messages \subseteq Messages'
    BY QueueStep DEF LogGrows
<1> USE DEF storeVars, producerVars, historyVars, workerVars
<1>3. ASSUME NEW r \in Runs, InsertRows(r) PROVE DataOK'
    <2> DEFINE New == {[run |-> r, source_path |-> a, linked |-> FALSE] :
                          a \in UNION {Content[r][k] : k \in DOMAIN Content[r]}}
    <2>1. \A k \in DOMAIN Content[r] : Content[r][k] \subseteq Artifacts
        <3>1. Content[r] \in Seq(SUBSET Artifacts)
            BY IndexingAssumption
        <3> QED
            BY <3>1, ElementOfSeq, LenProperties
    <2>2. New \subseteq Rows
        <3>1. \A a \in UNION {Content[r][k] : k \in DOMAIN Content[r]} : a \in Artifacts
            BY <2>1
        <3>2. \A a \in Artifacts :
                  [run |-> r, source_path |-> a, linked |-> FALSE] \in Rows
            BY DEF Rows
        <3> QED
            BY <3>1, <3>2
    <2> HIDE DEF New
    <2>3. rows' = rows \cup New /\ inserted' = inserted \cup {r}
        BY <1>3 DEF InsertRows, New
    <2>4. UNCHANGED <<status, points, sent, historyVars>>
        BY <1>3 DEF InsertRows
    <2> QED
        BY <1>1, <1>2, <2>2, <2>3, <2>4
<1>4. ASSUME NEW r \in Runs, PublishBatch(r) PROVE DataOK'
    BY <1>1, <1>2, <1>4 DEF PublishBatch
<1>5. ASSUME ClearRows PROVE DataOK'
    BY <1>1, <1>2, <1>5 DEF ClearRows
<1>6. ASSUME NEW s \in OtherStatuses, SetStatus(s) PROVE DataOK'
    BY <1>1, <1>2, <1>6, IndexingAssumption DEF SetStatus
<1>7. ASSUME NEW w \in Consumers, Process(w) PROVE DataOK'
    <2>1. CASE AlreadyIndexed(w)
        BY <1>1, <1>2, <2>1, HandFacts DEF AlreadyIndexed
    <2>2. CASE MarkFailed(w)
        BY <1>1, <1>2, <2>2, HandFacts
        DEF MarkFailed, Marked, VideoStatuses, Absent
    <2>3. CASE MarkProcessing(w) \/ MarkIndexed(w)
        BY <1>1, <1>2, <2>3
        DEF MarkProcessing, MarkIndexed, Marked, VideoStatuses, Absent
    <2>4. CASE Upsert(w)
        <3>1. Payload(InHand(w)) \subseteq Artifacts \ Mismatched
            BY <2>4, HandFacts DEF Upsert, Valid
        <3> QED
            BY <1>1, <1>2, <2>4, <3>1 DEF Upsert
    <2>5. CASE UpsertRetried(w) \/ UpsertRefused(w)
        <3>1. SomeChunks(w)
            BY <2>5 DEF UpsertRetried, UpsertRefused
        <3>2. Payload(InHand(w)) \subseteq Artifacts \ Mismatched
            BY <3>1, HandFacts DEF SomeChunks, Valid
        <3>3. points' \subseteq points \cup Payload(InHand(w))
            BY <3>1 DEF SomeChunks
        <3>4. UNCHANGED <<status, rows, producerVars, skipped, rejected>>
            BY <2>5 DEF UpsertRetried, UpsertRefused, GiveBack
        <3>5. overtaken' \subseteq overtaken \cup {hand[w]} /\ hand[w] \in Messages
            BY <2>5, <3>1, HandFacts
            DEF UpsertRetried, UpsertRefused, GiveBack, SomeChunks
        <3> QED
            BY <1>1, <1>2, <3>2, <3>3, <3>4, <3>5
    <2>6. CASE LinkRows(w)
        <3>1. Linked(Payload(InHand(w))) \subseteq Rows
            BY <1>1 DEF Linked, Rows
        <3> QED
            BY <1>1, <1>2, <2>6, <3>1 DEF LinkRows
    <2>7. CASE LinkRetried(w)
        <3>1. overtaken' \subseteq overtaken \cup {hand[w]} /\ hand[w] \in Messages
            BY <2>7, HandFacts DEF LinkRetried, GiveBack
        <3>2. UNCHANGED <<storeVars, producerVars, skipped, rejected>>
            BY <2>7 DEF LinkRetried, GiveBack
        <3> QED
            BY <1>1, <1>2, <3>1, <3>2
    <2>8. CASE NotIndexed(w) \/ Invalid(w) \/ AckBatch(w) \/ Unexpected(w)
        BY <1>1, <1>2, <2>8 DEF NotIndexed, Invalid, AckBatch, Unexpected
    <2> QED
        BY <1>7, <2>1, <2>2, <2>3, <2>4, <2>5, <2>6, <2>7, <2>8 DEF Process
<1>8. ASSUME NEW w \in Consumers,
             \/ Receive(w) \/ Start(w)
             \/ LoseConnection(w) \/ CrashWorker(w) \/ RestartWorker(w)
      PROVE  DataOK'
    BY <1>1, <1>2, <1>8
    DEF Receive, Start, LoseConnection, CrashWorker, RestartWorker
<1>9. ASSUME UNCHANGED vars PROVE DataOK'
    BY <1>1, <1>2, <1>9 DEF vars
<1>10. DataOK'
    BY <1>3, <1>4, <1>5, <1>6, <1>7, <1>8, <1>9 DEF IndexingNext, Others, Worker
<1> QED
    BY <1>10, QueueStep, IdleStep DEF QueueInv, IdleOK, IndexingTypeOK

-----------------------------------------------------------------------------
(* What is stored, linked and acknowledged                                 *)

\* What was stored, rejected, skipped or overtaken once remains so.
Grows ==
    /\ points \subseteq points'
    /\ skipped \subseteq skipped'
    /\ rejected \subseteq rejected'
    /\ overtaken \subseteq overtaken'

LEMMA GrowsStep == ASSUME [IndexingNext]_vars PROVE Grows
<1> USE DEF Grows, storeVars, producerVars, historyVars, workerVars
<1>1. ASSUME NEW w \in Consumers, Process(w) PROVE Grows
    BY <1>1 DEF Process, AlreadyIndexed, NotIndexed, MarkProcessing, Invalid,
        Upsert, UpsertRetried, UpsertRefused, SomeChunks, GiveBack, LinkRows,
        LinkRetried, MarkIndexed, MarkFailed, AckBatch, Unexpected
<1>2. ASSUME NEW w \in Consumers,
             \/ Receive(w) \/ Start(w)
             \/ LoseConnection(w) \/ CrashWorker(w) \/ RestartWorker(w)
      PROVE  Grows
    BY <1>2 DEF Receive, Start, LoseConnection, CrashWorker, RestartWorker
<1>3. Others \/ UNCHANGED vars => Grows
    BY DEF Others, InsertRows, PublishBatch, ClearRows, SetStatus, vars
<1> QED
    BY <1>1, <1>2, <1>3 DEF IndexingNext, Worker

LEMMA HandledGrows ==
    ASSUME LogGrows, Grows, NEW i \in Messages
    PROVE  /\ IsFirst(log[i]) => IsFirst(log[i])'
           /\ IsFinal(log[i]) => IsFinal(log[i])'
           /\ Stored(i) => Stored(i)'
           /\ Handled(i) => Handled(i)'
<1>1. log'[i] = log[i]
    BY DEF LogGrows
<1> QED
    BY <1>1 DEF Grows, Handled, Stored, Payload, IsFirst, IsFinal

LEMMA ProgressStep ==
    ASSUME IndexingInv, [IndexingNext]_vars, IndexingTypeOK', LogGrows, Grows
    PROVE  Progress'
<1>1. /\ pc \in [Consumers -> Locations]
      /\ hand \in [Consumers -> Messages \cup {None}]
      /\ IdleOK
      /\ \A w \in Consumers : Reached(w)
    BY DEF IndexingInv, IndexingTypeOK, QueueTypeOK, IdleOK, Progress
<1>2. ASSUME NEW w \in Consumers, pc[w] # "idle"
      PROVE  /\ hand[w] \in Messages
             /\ log'[hand[w]] = log[hand[w]]
             /\ Reached(w)
    BY <1>1, <1>2 DEF IdleOK, LogGrows
\* A worker that stays where it was keeps what it had.
<1>3. ASSUME NEW w \in Consumers, pc'[w] = pc[w], hand'[w] = hand[w]
      PROVE  Reached(w)'
    <2>1. CASE pc[w] = "idle"
        BY <1>3, <2>1 DEF Reached
    <2>2. CASE pc[w] # "idle"
        <3>1. /\ IsFirst(log[hand[w]]) => IsFirst(log'[hand'[w]])
              /\ IsFinal(log[hand[w]]) => IsFinal(log'[hand'[w]])
              /\ Stored(hand[w]) => Stored(hand[w])'
              /\ Handled(hand[w]) => Handled(hand[w])'
            BY <1>2, <1>3, <2>2, HandledGrows DEF IsFirst, IsFinal
        <3> QED
            BY <1>2, <1>3, <2>2, <3>1 DEF Reached
    <2> QED
        BY <2>1, <2>2
\* So only the worker that moves matters.
<1>4. ASSUME NEW w \in Consumers, NEW l, Goto(w, l),
             \A v \in Consumers \ {w} : hand'[v] = hand[v],
             pc'[w] = l => Reached(w)'
      PROVE  Progress'
    <2>1. pc'[w] = l /\ \A v \in Consumers \ {w} : pc'[v] = pc[v]
        BY <1>1, <1>4 DEF Goto
    <2> QED
        BY <1>3, <1>4, <2>1 DEF Progress
<1>5. ASSUME NEW w \in Consumers, Goto(w, "idle"),
             hand' = [hand EXCEPT ![w] = None]
      PROVE  Progress'
    <2>1. \A v \in Consumers \ {w} : hand'[v] = hand[v]
        BY <1>1, <1>5
    <2>2. pc'[w] = "idle" => Reached(w)'
        BY DEF Reached
    <2> QED
        BY <1>4, <1>5, <2>1, <2>2
<1>6. ASSUME pc' = pc, hand' = hand
      PROVE  Progress'
    BY <1>3, <1>6 DEF Progress
<1>7. ASSUME NEW w \in Consumers, Start(w)
      PROVE  Progress'
    <2>1. /\ hand' = [hand EXCEPT ![w] = Head(buf[w])]
          /\ log' = log
          /\ Goto(w, IF IsFirst(log[Head(buf[w])]) THEN "guard" ELSE "upsert")
        BY <1>7 DEF Start, Take
    <2>2. hand'[w] = Head(buf[w]) /\ \A v \in Consumers \ {w} : hand'[v] = hand[v]
        BY <1>1, <2>1
    <2>3. CASE IsFirst(log[Head(buf[w])])
        <3>1. pc'[w] = "guard" => Reached(w)'
            BY <2>1, <2>2, <2>3 DEF Reached, IsFirst
        <3> QED
            BY <1>4, <2>1, <2>2, <2>3, <3>1
    <2>4. CASE ~ IsFirst(log[Head(buf[w])])
        <3>1. pc'[w] = "upsert" => Reached(w)'
            BY DEF Reached
        <3> QED
            BY <1>4, <2>1, <2>2, <2>4, <3>1
    <2> QED
        BY <2>3, <2>4
<1>8. ASSUME NEW w \in Consumers, Process(w)
      PROVE  Progress'
    <2>1. CASE AlreadyIndexed(w)
        <3>1. /\ Goto(w, "ack") /\ hand' = hand /\ log' = log
              /\ hand[w] \in skipped'
              /\ pc[w] = "guard"
            BY <2>1 DEF AlreadyIndexed, brokerVars
        <3>2. IsFirst(log[hand[w]])
            BY <1>2, <3>1 DEF Reached
        <3>3. Handled(hand[w])'
            BY <3>1, <3>2 DEF Handled, IsFirst
        <3>4. pc'[w] = "ack" => Reached(w)'
            BY <3>3 DEF Reached
        <3> QED
            BY <1>4, <3>1, <3>4
    <2>2. CASE NotIndexed(w)
        <3>1. Goto(w, "mark") /\ hand' = hand /\ log' = log /\ pc[w] = "guard"
            BY <2>2 DEF NotIndexed, brokerVars
        <3>2. IsFirst(log[hand[w]])
            BY <1>2, <3>1 DEF Reached
        <3>3. pc'[w] = "mark" => Reached(w)'
            BY <3>1, <3>2 DEF Reached, IsFirst
        <3> QED
            BY <1>4, <3>1, <3>3
    <2>3. CASE MarkProcessing(w) \/ Invalid(w) \/ UpsertRefused(w)
        <3>1. hand' = hand /\ \E l \in {"upsert", "reject"} : Goto(w, l)
            BY <2>3 DEF MarkProcessing, Invalid, UpsertRefused, brokerVars
        <3>2. pc'[w] \in {"upsert", "reject"} => Reached(w)'
            BY DEF Reached
        <3> QED
            BY <1>4, <3>1, <3>2
    <2>4. CASE Upsert(w)
        <3>1. /\ Goto(w, "link") /\ hand' = hand /\ log' = log
              /\ Payload(log[hand[w]]) \subseteq points'
            BY <2>4 DEF Upsert, InHand, brokerVars
        <3>2. Stored(hand[w])'
            BY <3>1 DEF Stored, Payload
        <3>3. pc'[w] = "link" => Reached(w)'
            BY <3>2 DEF Reached
        <3> QED
            BY <1>4, <3>1, <3>3
    <2>5. CASE LinkRows(w) \/ MarkIndexed(w)
        <3>1. /\ hand' = hand
              /\ \E l \in {"finish", "ack"} : Goto(w, l)
              /\ pc[w] \in {"link", "finish"}
            BY <2>5 DEF LinkRows, MarkIndexed, brokerVars
        <3>2. Stored(hand[w]) /\ hand[w] \in Messages
            BY <1>2, <3>1 DEF Reached
        <3>3. Stored(hand[w])' /\ Handled(hand[w])'
            BY <3>1, <3>2, HandledGrows DEF Handled
        <3>4. pc'[w] = "finish" => IsFinal(log[hand[w]])'
            <4>1. log' = log
                BY <2>5 DEF LinkRows, MarkIndexed, brokerVars
            <4>2. CASE LinkRows(w)
                BY <1>1, <3>1, <4>1, <4>2 DEF LinkRows, Goto, InHand, IsFinal
            <4>3. CASE MarkIndexed(w)
                BY <1>1, <4>3 DEF MarkIndexed, Goto
            <4> QED
                BY <2>5, <4>2, <4>3
        <3>5. pc'[w] \in {"finish", "ack"} => Reached(w)'
            BY <3>3, <3>4 DEF Reached
        <3> QED
            BY <1>4, <3>1, <3>5
    <2>6. CASE MarkFailed(w)
        <3>1. Goto(w, "ack") /\ hand' = hand /\ hand[w] \in rejected'
            BY <2>6 DEF MarkFailed, brokerVars
        <3>2. Handled(hand[w])'
            BY <3>1 DEF Handled
        <3>3. pc'[w] = "ack" => Reached(w)'
            BY <3>2 DEF Reached
        <3> QED
            BY <1>4, <3>1, <3>3
    <2>7. CASE \/ UpsertRetried(w) \/ LinkRetried(w) \/ AckBatch(w) \/ Unexpected(w)
        <3>1. Goto(w, "idle") /\ hand' = [hand EXCEPT ![w] = None]
            BY <2>7 DEF UpsertRetried, LinkRetried, AckBatch, Unexpected,
                GiveBack, Ack, Requeue, DeadLetter, Release
        <3> QED
            BY <1>5, <3>1
    <2> QED
        BY <1>8, <2>1, <2>2, <2>3, <2>4, <2>5, <2>6, <2>7 DEF Process
<1>9. ASSUME NEW w \in Consumers, CrashWorker(w)
      PROVE  Progress'
    BY <1>5, <1>9 DEF CrashWorker, Crash
<1>10. ASSUME NEW w \in Consumers,
              Receive(w) \/ LoseConnection(w) \/ RestartWorker(w)
       PROVE  pc' = pc /\ hand' = hand
    BY <1>10 DEF Receive, LoseConnection, RestartWorker, workerVars, Deliver,
        ConnectionLost, Restart
<1>11. Others \/ UNCHANGED vars => pc' = pc /\ hand' = hand
    BY DEF Others, InsertRows, PublishBatch, Publish, ClearRows, SetStatus,
        vars, workerVars, brokerVars
<1> QED
    BY <1>6, <1>7, <1>8, <1>9, <1>10, <1>11 DEF IndexingNext, Worker

LEMMA LinkedStep ==
    ASSUME IndexingInv, [IndexingNext]_vars, Grows
    PROVE  LinkedRowsHavePoints'
<1> USE DEF LinkedRowsHavePoints, Grows, storeVars, producerVars, workerVars
<1>1. \A row \in rows : row.linked => row.source_path \in points
    BY DEF IndexingInv
<1>2. CASE \A row \in rows' : row.linked => row \in rows
    BY <1>1, <1>2
<1>3. ASSUME NEW w \in Consumers, LinkRows(w)
      PROVE  LinkedRowsHavePoints'
    <2>1. /\ rows' = Linked(Payload(InHand(w)))
          /\ pc[w] = "link"
          /\ points' = points
        BY <1>3 DEF LinkRows
    <2>2. Payload(InHand(w)) \subseteq points
        BY <2>1 DEF IndexingInv, Progress, Reached, Stored, InHand
    <2>3. ASSUME NEW row \in rows', row.linked
          PROVE  row.source_path \in points
        <3>1. PICK old \in rows :
                  row = IF old.source_path \in Payload(InHand(w))
                        THEN [old EXCEPT !.linked = TRUE] ELSE old
            BY <2>1, <2>3 DEF Linked
        <3>2. old \in Rows
            BY DEF IndexingInv, IndexingTypeOK
        <3>3. CASE old.source_path \in Payload(InHand(w))
            BY <2>2, <3>1, <3>2, <3>3 DEF Rows
        <3>4. CASE old.source_path \notin Payload(InHand(w))
            BY <1>1, <2>3, <3>1, <3>4
        <3> QED
            BY <3>3, <3>4
    <2> QED
        BY <2>1, <2>3
<1>4. ASSUME NEW w \in Consumers,
             \/ AlreadyIndexed(w) \/ NotIndexed(w) \/ MarkProcessing(w)
             \/ Invalid(w) \/ Upsert(w) \/ UpsertRetried(w) \/ UpsertRefused(w)
             \/ LinkRetried(w) \/ MarkIndexed(w) \/ MarkFailed(w) \/ AckBatch(w)
             \/ Unexpected(w) \/ Receive(w) \/ Start(w)
             \/ LoseConnection(w) \/ CrashWorker(w) \/ RestartWorker(w)
      PROVE  rows' = rows
    BY <1>4 DEF AlreadyIndexed, NotIndexed, MarkProcessing, Invalid, Upsert,
        UpsertRetried, UpsertRefused, LinkRetried, MarkIndexed, MarkFailed,
        AckBatch, Unexpected, Receive, Start, LoseConnection, CrashWorker,
        RestartWorker
<1>5. ASSUME NEW r \in Runs, InsertRows(r)
      PROVE  \A row \in rows' : row.linked => row \in rows
    <2>1. rows' = rows \cup {[run |-> r, source_path |-> a, linked |-> FALSE] :
                    a \in UNION {Content[r][k] : k \in DOMAIN Content[r]}}
        BY <1>5 DEF InsertRows
    <2> QED
        BY <2>1
<1>6. ASSUME \/ \E r \in Runs : PublishBatch(r)
             \/ \E s \in OtherStatuses : SetStatus(s)
             \/ ClearRows
             \/ UNCHANGED vars
      PROVE  rows' \subseteq rows
    BY <1>6 DEF PublishBatch, SetStatus, ClearRows, vars
<1> QED
    BY <1>2, <1>3, <1>4, <1>5, <1>6 DEF IndexingNext, Others, Worker, Process

LEMMA AckedStep ==
    ASSUME IndexingInv, [IndexingNext]_vars, LogGrows, Grows
    PROVE  AckedMeansHandled'
<1>1. acked \subseteq Messages /\ \A i \in acked : Handled(i)
    BY DEF IndexingInv, IndexingTypeOK, QueueTypeOK, AckedMeansHandled, Handled
<1>2. \A i \in acked : Handled(i)'
    BY <1>1, HandledGrows
<1>3. ASSUME NEW w \in Consumers, AckBatch(w)
      PROVE  \A i \in acked' : i \in acked \/ (i = hand[w] /\ Handled(i)')
    <2>1. /\ acked' \subseteq acked \cup {hand[w]}
          /\ pc[w] = "ack"
        BY <1>3 DEF AckBatch, Ack, Abandon
    <2>2. hand[w] \in Messages /\ Handled(hand[w])
        BY <2>1 DEF IndexingInv, IndexingTypeOK, QueueTypeOK, Progress, Reached
    <2>3. PICK i \in Messages : i = hand[w]
        BY <2>2
    <2>4. Handled(i)'
        BY <2>2, <2>3, HandledGrows
    <2> QED
        BY <2>1, <2>3, <2>4
<1>4. (\E w \in Consumers : AckBatch(w)) \/ acked' = acked
    <2>1. ASSUME NEW w \in Consumers, Worker(w)
          PROVE  AckBatch(w) \/ acked' = acked
        BY <2>1 DEF Worker, Process, AlreadyIndexed, NotIndexed, MarkProcessing,
            Invalid, Upsert, UpsertRetried, UpsertRefused, LinkRows, LinkRetried,
            MarkIndexed, MarkFailed, Unexpected, Receive, Start, LoseConnection,
            CrashWorker, RestartWorker, brokerVars, Deliver, Take, GiveBack, Requeue,
            DeadLetter, Abandon, ConnectionLost, Crash, Restart
    <2>2. Others \/ UNCHANGED vars => acked' = acked
        BY DEF Others, InsertRows, PublishBatch, Publish, ClearRows, SetStatus,
            vars, brokerVars
    <2> QED
        BY <2>1, <2>2 DEF IndexingNext
<1>5. \A i \in acked' : Handled(i)'
    BY <1>2, <1>3, <1>4
<1> QED
    BY <1>5 DEF AckedMeansHandled, Handled

LEMMA IndexingInitInv == ASSUME IndexingInit PROVE IndexingInv
<1> USE IndexingAssumption
<1>1. QueueInv /\ log = << >> /\ acked = {} /\ hand = [w \in Consumers |-> None]
    BY InitQueue DEF IndexingInit, BrokerInit
<1>2. Messages = {}
    BY <1>1 DEF Messages
<1>3. IndexingTypeOK
    BY <1>1, <1>2, EmptySeq
    DEF IndexingInit, IndexingTypeOK, QueueInv, VideoStatuses, Locations
<1>4. LinkedRowsHavePoints /\ AckedMeansHandled /\ Progress
    BY <1>1 DEF IndexingInit, LinkedRowsHavePoints, AckedMeansHandled, Progress,
        Reached
<1> QED
    BY <1>1, <1>3, <1>4 DEF IndexingInv

LEMMA IndexingStep ==
    ASSUME IndexingInv, [IndexingNext]_vars
    PROVE  IndexingInv'
<1>1. IndexingTypeOK' /\ QueueInv' /\ LogGrows /\ Grows
    BY QueueStep, TypeStep, GrowsStep DEF IndexingInv
<1> QED
    BY <1>1, ProgressStep, LinkedStep, AckedStep DEF IndexingInv

-----------------------------------------------------------------------------
(* The theorems                                                            *)

\* The service keeps its types: points only ever come from batches that
\* passed validation, and a worker has a message in hand exactly while it is
\* inside process_embeddings.
THEOREM IndexingTypes == IndexingSpec => []IndexingTypeOK
<1>1. IndexingInv => IndexingTypeOK
    BY DEF IndexingInv
<1> QED
    BY <1>1, IndexingInitInv, IndexingStep, PTL DEF IndexingSpec

\* A row whose qdrant_point_id is set has its point in Qdrant, however many
\* workers handle batches of however many runs while rows are cleared and
\* inserted again.
THEOREM IndexingLinkedRows == IndexingSpec => []LinkedRowsHavePoints
<1>1. IndexingInv => LinkedRowsHavePoints
    BY DEF IndexingInv
<1> QED
    BY <1>1, IndexingInitInv, IndexingStep, PTL DEF IndexingSpec

\* An acknowledged batch is in Qdrant, or marked the video FAILED, or is a
\* first batch dropped by the idempotency guard: nothing else loses a batch.
THEOREM IndexingAcked == IndexingSpec => []AckedMeansHandled
<1>1. IndexingInv => AckedMeansHandled
    BY DEF IndexingInv
<1> QED
    BY <1>1, IndexingInitInv, IndexingStep, PTL DEF IndexingSpec

-----------------------------------------------------------------------------
(* One worker                                                              *)

\* A run publishes its batches one after the other.
BatchesInOrder ==
    /\ \A r \in Runs : sent[r] <= Len(Content[r])
    /\ \A i \in Messages : log[i].batch < sent[log[i].run]
    /\ \A i, j \in Messages :
          log[i].run = log[j].run /\ i < j => log[i].batch < log[j].batch

\* Everything older than a delivery is settled, overtaken or ahead of it.
DeliveriesInOrder ==
    \A w \in Consumers :
        InOrder(hand[w], buf[w], Messages, acked \cup dead \cup overtaken)

SomeComplete == \E r \in Runs : CompleteBut(r, Missed)

\* The guard skips, and the video is INDEXED, only once a run is complete.
OrderInv ==
    /\ IndexingInv
    /\ DeliveriesInOrder
    /\ BatchesInOrder
    /\ status = "INDEXED" \/ skipped # {} => SomeComplete

LEMMA BatchesStep ==
    ASSUME IndexingTypeOK, BatchesInOrder, [IndexingNext]_vars
    PROVE  BatchesInOrder'
<1>1. CASE log' = log /\ sent' = sent
    BY <1>1 DEF BatchesInOrder, Messages
<1>2. ASSUME NEW r \in Runs, PublishBatch(r)
      PROVE  BatchesInOrder'
    <2> DEFINE n == Len(log) + 1
    <2>1. /\ Messages = 1 .. Len(log)
          /\ Len(log) \in Nat
          /\ Messages' = 1 .. Len(log) + 1
          /\ \A i \in Messages : log'[i] = log[i]
          /\ log'[n] = [run |-> r, batch |-> sent[r]]
          /\ sent[r] < Len(Content[r])
          /\ sent' = [sent EXCEPT ![r] = sent[r] + 1]
        BY <1>2, PublishedLast
    <2>2. /\ sent \in [Runs -> Nat]
          /\ \A q \in Runs : Len(Content[q]) \in Nat
          /\ \A i \in Messages : log[i].run \in Runs /\ log[i].batch \in Nat
        <3>1. \A i \in Messages : log[i] \in Batches
            BY LenProperties, ElementOfSeq DEF IndexingTypeOK, Messages
        <3>2. \A q \in Runs : Len(Content[q]) \in Nat
            BY IndexingAssumption, LenProperties
        <3> QED
            BY <3>1, <3>2 DEF Batches, IndexingTypeOK
    <2>3. /\ \A i \in Messages' : i \in Messages \/ i = n
          /\ \A i \in Messages : i < n /\ i \in Messages'
          /\ n \in Messages'
        BY <2>1
    <2> HIDE DEF n
    <2>4. /\ log'[n].run = r
          /\ log'[n].batch = sent[r]
          /\ sent'[r] = sent[r] + 1
          /\ \A q \in Runs \ {r} : sent'[q] = sent[q]
          /\ \A q \in Runs : sent[q] <= sent'[q]
        BY <2>1, <2>2
    <2>5. \A q \in Runs : sent'[q] <= Len(Content[q])
        BY <2>1, <2>2, <2>4 DEF BatchesInOrder
    <2>6. ASSUME NEW i \in Messages'
          PROVE  log'[i].batch < sent'[log'[i].run]
        <3>1. CASE i \in Messages
            BY <2>1, <2>2, <2>4, <3>1 DEF BatchesInOrder
        <3>2. CASE i = n
            BY <2>2, <2>4, <3>2
        <3> QED
            BY <2>3, <3>1, <3>2
    <2>7. ASSUME NEW i \in Messages', NEW j \in Messages',
                 log'[i].run = log'[j].run, i < j
          PROVE  log'[i].batch < log'[j].batch
        <3>1. i \in Messages
            BY <2>1, <2>3, <2>7 DEF n
        <3>2. CASE j \in Messages
            BY <2>1, <2>7, <3>1, <3>2 DEF BatchesInOrder
        <3>3. CASE j = n
            BY <2>1, <2>4, <2>7, <3>1, <3>3 DEF BatchesInOrder
        <3> QED
            BY <2>3, <3>2, <3>3
    <2> QED
        BY <2>5, <2>6, <2>7 DEF BatchesInOrder
<1> QED
    BY <1>1, <1>2, PublishedStep

\* A run that is complete stays complete: it publishes no more, and nothing it
\* published is taken back.
LEMMA CompleteStep ==
    ASSUME IndexingTypeOK, QueueInv, [IndexingNext]_vars,
           NEW r \in Runs, CompleteBut(r, Missed)
    PROVE  CompleteBut(r, Missed)'
<1>1. LogGrows /\ Grows
    BY QueueStep, GrowsStep
<1>2. dead \subseteq dead'
    BY IndexingQueueMove, SettledGrows
<1>3. ASSUME NEW i \in Messages, log[i].run = r
      PROVE  (Stored(i) \/ i \in Missed)'
    <2>1. Stored(i) => Stored(i)'
        BY <1>1, HandledGrows
    <2> QED
        BY <1>1, <1>2, <1>3, <2>1 DEF CompleteBut, Missed, Grows
<1>4. /\ sent'[r] = sent[r]
      /\ \A i \in Messages' : log'[i].run = r => i \in Messages /\ log[i].run = r
    <2>1. CASE log' = log /\ sent' = sent
        BY <2>1 DEF Messages
    <2>2. ASSUME NEW q \in Runs, PublishBatch(q)
          PROVE  /\ sent'[r] = sent[r]
                 /\ \A i \in Messages' :
                       log'[i].run = r => i \in Messages /\ log[i].run = r
        <3>1. /\ Messages = 1 .. Len(log)
              /\ Len(log) \in Nat
              /\ Messages' = 1 .. Len(log) + 1
              /\ \A i \in Messages : log'[i] = log[i]
              /\ log'[Len(log) + 1] = [run |-> q, batch |-> sent[q]]
              /\ sent[q] < Len(Content[q])
              /\ sent' = [sent EXCEPT ![q] = sent[q] + 1]
            BY <2>2, PublishedLast
        <3>2. q # r
            <4>1. Len(Content[q]) \in Nat
                BY IndexingAssumption, LenProperties
            <4> QED
                BY <3>1, <4>1 DEF CompleteBut
        <3>3. sent'[r] = sent[r]
            BY <3>1, <3>2 DEF IndexingTypeOK
        <3>4. log'[Len(log) + 1].run # r
            BY <3>1, <3>2
        <3> QED
            BY <3>1, <3>3, <3>4
    <2> QED
        BY <2>1, <2>2, PublishedStep
<1> QED
    BY <1>3, <1>4 DEF CompleteBut

\* The worker that is alone finishes with the last batch of a run only after
\* the others were settled or overtaken.
LEMMA FinishCompletes ==
    ASSUME OrderInv, NEW w \in Consumers, pc[w] = "finish"
    PROVE  SomeComplete
<1> DEFINE h == hand[w]
           r == log[h].run
<1>1. CASE skipped # {}
    BY <1>1 DEF OrderInv
<1>2. CASE skipped = {}
    <2>1. /\ h \in Messages /\ hand[w] # None
          /\ log[h] \in Batches
          /\ log[h].batch < Len(Content[r])
        BY HandFacts, MessagesFacts DEF OrderInv, IndexingInv, IndexingTypeOK, InHand
    <2>2. Stored(h) /\ log[h].batch = Len(Content[r]) - 1
        BY DEF OrderInv, IndexingInv, Progress, Reached, IsFinal
    <2>3. /\ r \in Runs
          /\ Content[r] \in Seq(SUBSET Artifacts)
          /\ Len(Content[r]) \in Nat
          /\ log[h].batch \in Nat
        BY <2>1, IndexingAssumption, LenProperties DEF Batches
    <2>4. Content[r] # << >>
        BY <2>1, <2>3, EmptySeq
    <2>5. /\ sent[r] \in Nat
          /\ sent[r] <= Len(Content[r])
          /\ log[h].batch < sent[r]
        BY <2>1, <2>3 DEF OrderInv, BatchesInOrder, IndexingInv, IndexingTypeOK
    <2> HIDE DEF h, r
    <2>6. sent[r] = Len(Content[r])
        BY <2>2, <2>3, <2>5
    <2>7. ASSUME NEW i \in Messages, log[i].run = r
          PROVE  Stored(i) \/ i \in Missed
        <3>1. i \in Nat /\ h \in Nat /\ log[i] \in Batches
            BY <2>1, MessagesFacts, LenProperties, ElementOfSeq
            DEF OrderInv, IndexingInv, IndexingTypeOK, Messages
        <3>2. CASE i = h
            BY <2>2, <3>2
        <3>3. CASE h < i
            <4>1. log[h].batch < log[i].batch /\ log[i].batch < sent[r]
                BY <2>1, <2>7, <3>3 DEF OrderInv, BatchesInOrder, r
            <4> QED
                BY <2>2, <2>3, <2>6, <3>1, <4>1 DEF Batches
        <3>4. CASE i < h
            <4>1. i \in acked \cup dead \cup overtaken
                BY <2>1, <3>4 DEF OrderInv, DeliveriesInOrder, InOrder, h
            <4>2. i \in acked => Stored(i) \/ i \in rejected
                BY <1>2 DEF OrderInv, IndexingInv, AckedMeansHandled
            <4> QED
                BY <4>1, <4>2 DEF Missed
        <3> QED
            BY <3>1, <3>2, <3>3, <3>4
    <2> QED
        BY <2>3, <2>4, <2>6, <2>7 DEF SomeComplete, CompleteBut
<1> QED
    BY <1>1, <1>2

\* The two ways to learn that the video is INDEXED: to say so, or to see it.
LEMMA SomeCompleteStep ==
    ASSUME OrderInv, [IndexingNext]_vars
    PROVE  (status = "INDEXED" \/ skipped # {} => SomeComplete)'
<1>1. IndexingTypeOK /\ QueueInv
    BY DEF OrderInv, IndexingInv
<1>2. SomeComplete => SomeComplete'
    <2>1. ASSUME NEW r \in Runs, CompleteBut(r, Missed)
          PROVE  CompleteBut(r, Missed)'
        BY <1>1, <2>1, CompleteStep
    <2> QED
        BY <2>1 DEF SomeComplete
<1>3. ASSUME NEW w \in Consumers, MarkIndexed(w)
      PROVE  SomeComplete
    BY <1>3, FinishCompletes DEF MarkIndexed
<1>4. ASSUME NEW w \in Consumers, AlreadyIndexed(w)
      PROVE  SomeComplete
    BY <1>4 DEF AlreadyIndexed, OrderInv
<1>5. \/ \E w \in Consumers : MarkIndexed(w) \/ AlreadyIndexed(w)
      \/ skipped' = skipped /\ (status' = "INDEXED" => status = "INDEXED")
    <2> USE DEF storeVars, historyVars, workerVars
    <2>1. ASSUME NEW w \in Consumers, Worker(w), ~ MarkIndexed(w), ~ AlreadyIndexed(w)
          PROVE  skipped' = skipped /\ (status' = "INDEXED" => status = "INDEXED")
        BY <2>1 DEF Worker, Process, Receive, Start, NotIndexed, MarkProcessing,
            Invalid, Upsert, UpsertRetried, UpsertRefused, GiveBack, LinkRows,
            LinkRetried, MarkFailed, AckBatch, Unexpected, LoseConnection,
            CrashWorker, RestartWorker, Marked, Absent
    <2>2. ASSUME Others
          PROVE  skipped' = skipped /\ (status' = "INDEXED" => status = "INDEXED")
        BY <2>2, IndexingAssumption
        DEF Others, InsertRows, PublishBatch, ClearRows, SetStatus
    <2>3. UNCHANGED vars => skipped' = skipped /\ status' = status
        BY DEF vars
    <2> QED
        BY <2>1, <2>2, <2>3 DEF IndexingNext
<1> QED
    BY <1>2, <1>3, <1>4, <1>5 DEF OrderInv

\* A batch that goes back while the iterator holds others is overtaken.
LEMMA GivenBack ==
    ASSUME IndexingTypeOK, QueueInv, [IndexingNext]_vars, Alone,
           NEW c \in Consumers, Requeue(c), buf[c] # << >>
    PROVE  hand[c] \in overtaken'
<1>1. hand \in [Consumers -> Messages \cup {None}]
    BY DEF QueueInv, QueueTypeOK
<1>2. /\ session[c] = "open"
      /\ session' = session /\ acked' = acked /\ dead' = dead
      /\ hand[c] # None /\ hand'[c] = None
    BY <1>1 DEF Requeue, Release, Abandon, QueueInv, SessionsOK
<1>3. hand[c] \notin acked \cup dead
    BY <1>2 DEF QueueInv, ExactlyOneHome, Unacked
<1>4. ASSUME NEW w \in Consumers, w = c, Worker(w)
      PROVE  hand[c] \in overtaken'
    <2>1. CASE UpsertRetried(w) \/ LinkRetried(w)
        BY <1>4, <2>1 DEF UpsertRetried, LinkRetried, GiveBack
    <2>2. ASSUME AckBatch(w) \/ Unexpected(w)
          PROVE  FALSE
        BY <1>2, <1>3, <1>4, <2>2
        DEF AckBatch, Unexpected, Ack, DeadLetter, Abandon
    <2>3. ASSUME CrashWorker(w)
          PROVE  FALSE
        <3>1. session'[c] = "down"
            BY <1>4, <2>3 DEF CrashWorker, Crash, QueueInv, QueueTypeOK
        <3> QED
            BY <1>2, <3>1
    <2>4. ASSUME Start(w)
          PROVE  FALSE
        BY <1>2, <1>4, <2>4 DEF Start, Take
    <2>5. ASSUME \/ Receive(w) \/ LoseConnection(w) \/ RestartWorker(w)
                 \/ AlreadyIndexed(w) \/ NotIndexed(w) \/ MarkProcessing(w)
                 \/ Invalid(w) \/ Upsert(w) \/ LinkRows(w) \/ MarkIndexed(w)
                 \/ MarkFailed(w) \/ UpsertRefused(w)
          PROVE  hand' = hand
        BY <2>5 DEF Receive, LoseConnection, RestartWorker, Deliver,
            ConnectionLost, Restart, AlreadyIndexed, NotIndexed, MarkProcessing,
            Invalid, Upsert, LinkRows, MarkIndexed, MarkFailed, UpsertRefused,
            brokerVars
    <2> QED
        BY <1>2, <1>4, <2>1, <2>2, <2>3, <2>4, <2>5 DEF Worker, Process
<1>5. Others \/ UNCHANGED vars => hand' = hand
    BY DEF Others, InsertRows, PublishBatch, Publish, ClearRows, SetStatus,
        vars, brokerVars
<1>6. \A w \in Consumers : w = c
    BY DEF Alone
<1> QED
    BY <1>2, <1>4, <1>5, <1>6 DEF IndexingNext

LEMMA OrderInitInv == ASSUME IndexingInit PROVE OrderInv
<1>1. DeliveriesInOrder
    BY InOrderInit DEF IndexingInit, DeliveriesInOrder
<1>2. BatchesInOrder
    <2>1. Messages = {}
        BY DEF IndexingInit, BrokerInit, Messages
    <2>2. \A r \in Runs : Len(Content[r]) \in Nat
        BY IndexingAssumption, LenProperties
    <2> QED
        BY <2>1, <2>2 DEF IndexingInit, BatchesInOrder
<1>3. status # "INDEXED" /\ skipped = {}
    BY IndexingAssumption DEF IndexingInit
<1> QED
    BY <1>1, <1>2, <1>3, IndexingInitInv DEF OrderInv

LEMMA OrderStep ==
    ASSUME OrderInv, [IndexingNext]_vars, Alone
    PROVE  OrderInv'
<1>1. IndexingTypeOK /\ QueueInv /\ log \in Seq(Batches)
    BY DEF OrderInv, IndexingInv, IndexingTypeOK
<1>2. IndexingInv'
    BY IndexingStep DEF OrderInv
<1>3. DeliveriesInOrder'
    <2> DEFINE done == acked \cup dead \cup overtaken
               after == acked' \cup dead' \cup overtaken'
    <2>1. /\ acked \subseteq acked' /\ dead \subseteq dead'
          /\ overtaken \subseteq overtaken'
          /\ QueueMove(Batches)
        BY <1>1, GrowsStep, IndexingQueueMove, SettledGrows DEF Grows
    <2>2. /\ acked \cup dead \subseteq done
          /\ done \subseteq after
          /\ acked' \cup dead' \subseteq after
        BY <2>1
    <2>3. \A c \in Consumers : Requeue(c) /\ buf[c] # << >> => hand[c] \in after
        BY <1>1, GivenBack
    <2>4. \A c \in Consumers : InOrder(hand[c], buf[c], Messages, done)
        BY DEF OrderInv, DeliveriesInOrder
    <2> HIDE DEF done, after
    <2>5. \A c \in Consumers : InOrder(hand'[c], buf'[c], Messages', after)
        BY <1>1, <2>1, <2>2, <2>3, <2>4, InOrderMoves
    <2> QED
        BY <2>5 DEF DeliveriesInOrder, after
<1>4. BatchesInOrder'
    BY <1>1, BatchesStep DEF OrderInv
<1> QED
    BY <1>2, <1>3, <1>4, SomeCompleteStep DEF OrderInv

\* A worker that is alone handles a batch only when every older one is settled
\* or was given back behind newer deliveries, through every retry, crash and
\* lost connection and with any prefetch.
THEOREM IndexingOrder ==
    ASSUME Alone
    PROVE  IndexingSpec => []HandledInOrder
<1>1. OrderInv => HandledInOrder
    BY DEF OrderInv, DeliveriesInOrder, InOrder, HandledInOrder
<1>2. OrderInv /\ [IndexingNext]_vars => OrderInv'
    BY OrderStep
<1> QED
    BY <1>1, <1>2, OrderInitInv, PTL DEF IndexingSpec

\* With such a worker a video is only INDEXED when every batch of one of its
\* runs is in Qdrant, was rejected, dead-lettered or overtaken.
THEOREM IndexingAccounted ==
    ASSUME Alone
    PROVE  IndexingSpec => []IndexedMeansAccounted
<1>1. OrderInv => IndexedMeansAccounted
    BY DEF OrderInv, SomeComplete, IndexedMeansAccounted
<1>2. OrderInv /\ [IndexingNext]_vars => OrderInv'
    BY OrderStep
<1> QED
    BY <1>1, <1>2, OrderInitInv, PTL DEF IndexingSpec

LEMMA SkippedStep ==
    ASSUME OrderInv, SkippedMeansStored, [IndexingNext]_vars
    PROVE  SkippedMeansStored'
<1> DEFINE Other(i) == \E r \in Runs \ {log[i].run} : CompleteBut(r, Missed)
           Fine(i) == Stored(i) \/ i \in Missed \/ Other(i)
<1>1. /\ IndexingTypeOK /\ QueueInv
      /\ skipped \subseteq Messages
    BY DEF OrderInv, IndexingInv, IndexingTypeOK
<1>2. LogGrows /\ Grows /\ dead \subseteq dead'
    BY <1>1, QueueStep, GrowsStep, IndexingQueueMove, SettledGrows
<1>3. \A r \in Runs : CompleteBut(r, Missed) => CompleteBut(r, Missed)'
    BY <1>1, CompleteStep
<1>4. ASSUME NEW i \in Messages, Fine(i)
      PROVE  Fine(i)'
    <2>1. Stored(i) => Stored(i)'
        BY <1>2, HandledGrows
    <2>2. i \in Missed => (i \in Missed)'
        BY <1>2 DEF Missed, Grows
    <2>3. Other(i) => Other(i)'
        BY <1>2, <1>3 DEF LogGrows
    <2> QED
        BY <1>4, <2>1, <2>2, <2>3
<1>5. ASSUME NEW w \in Consumers, AlreadyIndexed(w)
      PROVE  /\ skipped' = skipped \cup {hand[w]}
             /\ hand[w] \in Messages
             /\ \A i \in {hand[w]} : Fine(i)
    <2>1. /\ pc[w] = "guard" /\ status = "INDEXED"
          /\ skipped' = skipped \cup {hand[w]}
        BY <1>5 DEF AlreadyIndexed
    <2>2. PICK q \in Runs : CompleteBut(q, Missed)
        BY <2>1 DEF OrderInv, SomeComplete
    <2>3. hand[w] \in Messages
        BY <1>1, <2>1, HandFacts
    <2> QED
        BY <2>1, <2>2, <2>3 DEF CompleteBut
<1>6. (\E w \in Consumers : AlreadyIndexed(w)) \/ skipped' = skipped
    <2> USE DEF storeVars, historyVars, workerVars
    <2>1. ASSUME NEW w \in Consumers, Worker(w), ~ AlreadyIndexed(w)
          PROVE  skipped' = skipped
        BY <2>1 DEF Worker, Process, Receive, Start, NotIndexed, MarkProcessing,
            Invalid, Upsert, UpsertRetried, UpsertRefused, GiveBack, LinkRows,
            LinkRetried, MarkIndexed, MarkFailed, AckBatch, Unexpected,
            LoseConnection, CrashWorker, RestartWorker
    <2>2. Others \/ UNCHANGED vars => skipped' = skipped
        BY DEF Others, InsertRows, PublishBatch, ClearRows, SetStatus, vars
    <2> QED
        BY <2>1, <2>2 DEF IndexingNext
<1>7. \A i \in skipped : Fine(i)
    BY DEF SkippedMeansStored
<1>8. \A i \in skipped' : i \in Messages /\ Fine(i)
    <2> HIDE DEF Fine
    <2> QED
        BY <1>1, <1>5, <1>6, <1>7
<1>9. \A i \in skipped' : Fine(i)'
    BY <1>4, <1>8
<1> QED
    BY <1>9 DEF SkippedMeansStored

\* The idempotency guard of such a worker drops a first batch whose vectors are
\* not in Qdrant only when it was rejected, dead-lettered or overtaken itself,
\* or when another run of the video was indexed to its end.
THEOREM IndexingSkips ==
    ASSUME Alone
    PROVE  IndexingSpec => []SkippedMeansStored
<1>1. IndexingInit => SkippedMeansStored
    BY DEF IndexingInit, SkippedMeansStored
<1>2. OrderInv /\ [IndexingNext]_vars => OrderInv'
    BY OrderStep
<1>3. OrderInv /\ SkippedMeansStored /\ [IndexingNext]_vars => SkippedMeansStored'
    BY SkippedStep
<1> QED
    BY <1>1, <1>2, <1>3, OrderInitInv, PTL DEF IndexingSpec
=============================================================================
