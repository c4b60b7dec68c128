-------------------------- MODULE EmbedIndexProofs --------------------------
(***************************************************************************)
(* Theorems about embedding and indexing working together, for any number  *)
(* of workers of either, any attempts and batches, and every combination   *)
(* of faults.                                                              *)
(*                                                                         *)
(* First what embedding's attempts keep to whatever its queue does, then   *)
(* that each of its steps is one that module Indexing allows for, and last *)
(* what follows from the theorems about indexing.                          *)
(***************************************************************************)
EXTENDS EmbedIndex, TLAPS

\* A worker between the clearing of the rows and the last batch.
Attempting(w) == ePc[w] \in {"embed", "insert", "publish"}

\* What an attempt has done at each place: rows once, batches after them.
AttemptOK(w) ==
    /\ Attempting(w) =>
          /\ run[w] \in used
          /\ sent[run[w]] < Len(Content[run[w]])
    /\ ePc[w] \in {"embed", "insert"} =>
          run[w] \notin inserted /\ sent[run[w]] = 0
    /\ ePc[w] = "publish" => run[w] \in inserted

\* An attempt has one worker and is not made again.
AttemptsInv ==
    /\ status \in EmbeddingStatuses \cup {"INDEXED"}
    /\ used \subseteq Runs
    /\ inserted \subseteq used
    /\ sent \in [Runs -> Nat]
    /\ \A r \in Runs \ used : sent[r] = 0
    /\ ePc \in [Embedders -> Emb!Locations]
    /\ run \in [Embedders -> Runs \cup {Emb!NoRun}]
    /\ \A w \in Embedders : AttemptOK(w)
    /\ \A w, x \in Embedders :
          w # x /\ Attempting(w) /\ Attempting(x) => run[w] # run[x]

-----------------------------------------------------------------------------
(* What a step of embedding does to its attempts and to what is shared     *)

ToPlace(w, l) == ePc' = [ePc EXCEPT ![w] = l]

\* Nothing but a status and the place, which is none of an attempt.
Elsewhere(w) ==
    /\ UNCHANGED <<rows, inserted, sent, used>>
    /\ status' = status \/ status' \in EmbeddingStatuses
    /\ \E l \in Emb!Locations \ {"embed", "insert", "publish"} : ToPlace(w, l)
    /\ \E r \in Runs \cup {Emb!NoRun} : run' = [run EXCEPT ![w] = r]

\* The attempt begins.
Clears(w) ==
    \E r \in Runs \ used :
        /\ rows' = {}
        /\ used' = used \cup {r}
        /\ run' = [run EXCEPT ![w] = r]
        /\ ToPlace(w, IF Content[r] = << >> THEN "empty" ELSE "embed")
        /\ UNCHANGED <<status, inserted, sent>>

Embeds(w) ==
    /\ ePc[w] = "embed"
    /\ ToPlace(w, "insert")
    /\ UNCHANGED <<status, rows, inserted, sent, used, run>>

Inserts(w) ==
    /\ ePc[w] = "insert"
    /\ ToPlace(w, "publish")
    /\ inserted' = inserted \cup {run[w]}
    /\ rows' = rows \cup
          {[run |-> run[w], source_path |-> a, linked |-> FALSE] :
              a \in UNION {Content[run[w]][k] : k \in DOMAIN Content[run[w]]}}
    /\ UNCHANGED <<status, sent, used, run>>

\* A batch goes out, and the attempt goes on, is done, or is given up because
\* the confirm was lost.
Sends(w) ==
    /\ ePc[w] = "publish"
    /\ sent' = [sent EXCEPT ![run[w]] = @ + 1]
    /\ UNCHANGED <<status, rows, inserted, used>>
    /\ \/ /\ ToPlace(w, IF sent[run[w]] + 1 = Len(Content[run[w]])
                        THEN "finish" ELSE "publish")
          /\ run' = run
       \/ /\ ToPlace(w, "idle")
          /\ \E r \in Runs \cup {Emb!NoRun} : run' = [run EXCEPT ![w] = r]

\* The queue of embedding alone.
Rests == UNCHANGED <<status, rows, inserted, sent, used, ePc, run>>

EmbedMove(w) ==
    \/ Elsewhere(w) \/ Clears(w) \/ Embeds(w) \/ Inserts(w) \/ Sends(w) \/ Rests

LEMMA EmbedMoves ==
    ASSUME AttemptsInv, NEW w \in Embedders, Emb!Worker(w)
    PROVE  EmbedMove(w)
<1>1. /\ run \in [Embedders -> Runs \cup {Emb!NoRun}]
      /\ status # Emb!Absent
    BY DEF AttemptsInv, EmbeddingStatuses, Emb!Absent
<1>2. run = [run EXCEPT ![w] = run[w]] /\ run[w] \in Runs \cup {Emb!NoRun}
    BY <1>1
<1>3. \A s \in EmbeddingStatuses : Emb!Marked(status, s) \in EmbeddingStatuses
    BY <1>1 DEF Emb!Marked
<1> USE DEF Emb!tableVars, Emb!outputVars, Emb!attemptVars, Emb!Goto, Emb!Return, ToPlace
<1>4. CASE Emb!Receive(w) \/ Emb!LoseConnection(w) \/ Emb!RestartWorker(w)
    BY <1>4 DEF Emb!Receive, Emb!LoseConnection, Emb!RestartWorker, EmbedMove, Rests
<1>5. CASE \/ Emb!Start(w) \/ Emb!AlreadyProcessed(w) \/ Emb!NotProcessed(w)
           \/ Emb!EmbedRefused(w) \/ Emb!Unforeseen(w)
    <2>1. Elsewhere(w)
        BY <1>2, <1>5
        DEF Emb!Start, Emb!AlreadyProcessed, Emb!NotProcessed, Emb!EmbedRefused,
            Emb!Unforeseen, Elsewhere, Emb!Locations
    <2> QED
        BY <2>1 DEF EmbedMove
<1>6. CASE Emb!MarkProcessing(w) \/ Emb!MarkEmbedded(w) \/ Emb!MarkFailed(w)
    <2>1. Elsewhere(w)
        BY <1>2, <1>3, <1>6
        DEF Emb!MarkProcessing, Emb!MarkEmbedded, Emb!MarkFailed,
            EmbeddingStatuses, Elsewhere, Emb!Locations
    <2> QED
        BY <2>1 DEF EmbedMove
<1>7. CASE \/ Emb!AckEvent(w) \/ Emb!EmbedRetried(w) \/ Emb!Unexpected(w)
           \/ Emb!CrashWorker(w)
    <2>1. Elsewhere(w)
        BY <1>7
        DEF Emb!AckEvent, Emb!EmbedRetried, Emb!Unexpected, Emb!CrashWorker,
            Elsewhere, Emb!Locations
    <2> QED
        BY <2>1 DEF EmbedMove
<1>8. CASE Emb!WrapAndRetry(w)
    <2>1. Elsewhere(w)
        BY <1>3, <1>8
        DEF Emb!WrapAndRetry, Elsewhere, Emb!Locations, EmbeddingStatuses
    <2> QED
        BY <2>1 DEF EmbedMove
<1>9. CASE Emb!ClearExisting(w)
    BY <1>9 DEF Emb!ClearExisting, Clears, EmbedMove
<1>10. CASE Emb!Embed(w)
    BY <1>10 DEF Emb!Embed, Embeds, EmbedMove
<1>11. CASE Emb!InsertRows(w)
    BY <1>11 DEF Emb!InsertRows, Inserts, EmbedMove
<1>12. CASE Emb!PublishBatch(w)
    BY <1>12 DEF Emb!PublishBatch, Emb!Sent, Sends, EmbedMove
<1>13. CASE Emb!PublishRetried(w)
    <2>1. Sends(w) \/ Elsewhere(w)
        BY <1>13
        DEF Emb!PublishRetried, Emb!Sent, Sends, Elsewhere, Emb!Locations
    <2> QED
        BY <2>1 DEF EmbedMove
<1> QED
    BY <1>4, <1>5, <1>6, <1>7, <1>8, <1>9, <1>10, <1>11, <1>12, <1>13
    DEF Emb!Worker, Emb!Process, Emb!Failure

-----------------------------------------------------------------------------
(* The attempts                                                            *)

LEMMA AttemptsInit == Init => AttemptsInv
<1> SUFFICES ASSUME Init
             PROVE  AttemptsInv
    OBVIOUS
<1>1. /\ status = "DETECTED" /\ used = {} /\ inserted = {}
      /\ sent = [r \in Runs |-> 0]
      /\ ePc = [w \in Embedders |-> "idle"]
      /\ run = [w \in Embedders |-> Emb!NoRun]
    BY DEF Init, Emb!EmbeddingInit
<1>2. \A w \in Embedders : ePc[w] = "idle"
    BY <1>1
<1>3. /\ sent \in [Runs -> Nat]
      /\ \A r \in Runs : sent[r] = 0
      /\ ePc \in [Embedders -> Emb!Locations]
      /\ run \in [Embedders -> Runs \cup {Emb!NoRun}]
    BY <1>1 DEF Emb!Locations
<1> QED
    BY <1>1, <1>2, <1>3 DEF AttemptsInv, AttemptOK, Attempting, EmbeddingStatuses

\* A step of embedding preserves what its attempts keep to.
LEMMA MoveKeeps ==
    ASSUME AttemptsInv, NEW w \in Embedders, EmbedMove(w)
    PROVE  AttemptsInv'
<1>1. /\ \A x \in Embedders : AttemptOK(x)
      /\ \A x, y \in Embedders :
            x # y /\ Attempting(x) /\ Attempting(y) => run[x] # run[y]
      /\ inserted \subseteq used /\ used \subseteq Runs
      /\ sent \in [Runs -> Nat]
      /\ \A r \in Runs \ used : sent[r] = 0
      /\ ePc \in [Embedders -> Emb!Locations]
      /\ run \in [Embedders -> Runs \cup {Emb!NoRun}]
      /\ status \in EmbeddingStatuses \cup {"INDEXED"}
    BY DEF AttemptsInv
<1>2. CASE Elsewhere(w)
    <2>1. /\ UNCHANGED <<rows, inserted, sent, used>>
          /\ status' \in EmbeddingStatuses \cup {"INDEXED"}
          /\ ePc' \in [Embedders -> Emb!Locations]
          /\ run' \in [Embedders -> Runs \cup {Emb!NoRun}]
          /\ ePc'[w] \notin {"embed", "insert", "publish"}
          /\ \A x \in Embedders \ {w} : ePc'[x] = ePc[x] /\ run'[x] = run[x]
        BY <1>1, <1>2 DEF Elsewhere, ToPlace
    <2> QED
        BY <1>1, <2>1 DEF AttemptsInv, AttemptOK, Attempting
<1>3. ASSUME NEW r \in Runs \ used,
             used' = used \cup {r}, run' = [run EXCEPT ![w] = r],
             ToPlace(w, IF Content[r] = << >> THEN "empty" ELSE "embed"),
             UNCHANGED <<status, inserted, sent>>
      PROVE  AttemptsInv'
    <2>1. /\ ePc' \in [Embedders -> Emb!Locations]
          /\ run' \in [Embedders -> Runs \cup {Emb!NoRun}]
          /\ ePc'[w] = IF Content[r] = << >> THEN "empty" ELSE "embed"
          /\ run'[w] = r
          /\ \A x \in Embedders \ {w} : ePc'[x] = ePc[x] /\ run'[x] = run[x]
        BY <1>1, <1>3 DEF ToPlace, Emb!Locations
    <2>2. /\ r \notin inserted /\ sent[r] = 0
          /\ Content[r] # << >> => 0 < Len(Content[r])
        BY <1>1, EmbedIndexAssumption
    <2>3. ASSUME NEW x \in Embedders
          PROVE  AttemptOK(x)'
        <3>1. CASE x = w
            BY <1>3, <2>1, <2>2, <3>1 DEF AttemptOK, Attempting
        <3>2. CASE x # w
            BY <1>1, <1>3, <2>1, <3>2 DEF AttemptOK, Attempting
        <3> QED
            BY <3>1, <3>2
    <2>4. ASSUME NEW x \in Embedders, NEW y \in Embedders, x # y,
                 Attempting(x)', Attempting(y)'
          PROVE  run'[x] # run'[y]
        <3>1. \A z \in Embedders \ {w} :
                  Attempting(z)' => Attempting(z) /\ run[z] \in used
            BY <1>1, <2>1 DEF Attempting, AttemptOK
        <3> QED
            BY <1>1, <2>1, <2>4, <3>1
    <2>5. /\ used' \subseteq Runs /\ inserted' \subseteq used'
          /\ \A q \in Runs \ used' : sent'[q] = 0
          /\ sent' \in [Runs -> Nat]
          /\ status' \in EmbeddingStatuses \cup {"INDEXED"}
        BY <1>1, <1>3
    <2>6. /\ run' \in [Embedders -> Runs \cup {Emb!NoRun}]
          /\ ePc' \in [Embedders -> Emb!Locations]
        BY <2>1
    <2> QED
        BY <2>3, <2>4, <2>5, <2>6 DEF AttemptsInv
<1>4. CASE Embeds(w)
    <2>1. /\ ePc' \in [Embedders -> Emb!Locations]
          /\ ePc[w] = "embed" /\ ePc'[w] = "insert"
          /\ \A x \in Embedders \ {w} : ePc'[x] = ePc[x]
        BY <1>1, <1>4 DEF Embeds, ToPlace, Emb!Locations
    <2>2. UNCHANGED <<status, rows, inserted, sent, used, run>>
        BY <1>4 DEF Embeds
    <2> QED
        BY <1>1, <2>1, <2>2 DEF AttemptsInv, AttemptOK, Attempting
<1>5. CASE Inserts(w)
    <2>1. /\ ePc' \in [Embedders -> Emb!Locations]
          /\ ePc[w] = "insert" /\ ePc'[w] = "publish"
          /\ \A x \in Embedders \ {w} : ePc'[x] = ePc[x]
        BY <1>1, <1>5 DEF Inserts, ToPlace, Emb!Locations
    <2>2. /\ inserted' = inserted \cup {run[w]} /\ run[w] \in used
          /\ UNCHANGED <<status, sent, used, run>>
        BY <1>1, <1>5 DEF Inserts, AttemptOK, Attempting
    <2>3. ASSUME NEW x \in Embedders
          PROVE  AttemptOK(x)'
        <3>1. CASE x = w
            BY <1>1, <2>1, <2>2, <3>1 DEF AttemptOK, Attempting
        <3>2. CASE x # w
            BY <1>1, <2>1, <2>2, <3>2 DEF AttemptOK, Attempting
        <3> QED
            BY <3>1, <3>2
    <2> QED
        BY <1>1, <2>1, <2>2, <2>3 DEF AttemptsInv, Attempting
<1>6. CASE Sends(w)
    <2> DEFINE r == run[w]
    <2>1. /\ ePc[w] = "publish" /\ Attempting(w)
          /\ r \in used /\ r \in Runs /\ r \in inserted
          /\ sent[r] \in Nat /\ sent[r] < Len(Content[r])
          /\ Len(Content[r]) \in Nat
        BY <1>1, <1>6, EmbedIndexAssumption DEF Sends, AttemptOK, Attempting
    <2>2. /\ UNCHANGED <<status, inserted, used>>
          /\ sent' = [sent EXCEPT ![r] = sent[r] + 1]
        BY <1>6 DEF Sends
    <2>3. /\ ePc' \in [Embedders -> Emb!Locations]
          /\ run' \in [Embedders -> Runs \cup {Emb!NoRun}]
          /\ \A x \in Embedders \ {w} : ePc'[x] = ePc[x] /\ run'[x] = run[x]
          /\ \/ ePc'[w] \in {"idle", "finish"}
             \/ /\ ePc'[w] = "publish" /\ run'[w] = r
                /\ sent[r] + 1 # Len(Content[r])
        BY <1>1, <1>6 DEF Sends, ToPlace, Emb!Locations
    <2> HIDE DEF r
    <2>4. /\ sent' \in [Runs -> Nat] /\ sent'[r] = sent[r] + 1
          /\ \A q \in Runs \ {r} : sent'[q] = sent[q]
        BY <1>1, <2>1, <2>2
    <2>5. ASSUME NEW x \in Embedders
          PROVE  AttemptOK(x)'
        <3>1. CASE x = w
            BY <2>1, <2>2, <2>3, <2>4, <3>1 DEF AttemptOK, Attempting
        <3>2. CASE x # w
            <4>1. Attempting(x) => run[x] \in Runs /\ run[x] # r
                BY <1>1, <2>1, <3>2 DEF AttemptOK, r
            <4> QED
                BY <1>1, <2>2, <2>3, <2>4, <3>2, <4>1 DEF AttemptOK, Attempting
        <3> QED
            BY <3>1, <3>2
    <2>6. ASSUME NEW x \in Embedders, NEW y \in Embedders, x # y,
                 Attempting(x)', Attempting(y)'
          PROVE  run'[x] # run'[y]
        <3>1. \A z \in Embedders : Attempting(z)' => Attempting(z) /\ run'[z] = run[z]
            BY <2>1, <2>3 DEF Attempting, r
        <3> QED
            BY <1>1, <2>6, <3>1
    <2>7. \A q \in Runs \ used' : sent'[q] = 0
        BY <1>1, <2>1, <2>2, <2>4
    <2> QED
        BY <1>1, <2>2, <2>3, <2>4, <2>5, <2>6, <2>7 DEF AttemptsInv
<1>7. CASE Rests
    BY <1>1, <1>7 DEF Rests, AttemptsInv, AttemptOK, Attempting
<1>8. CASE Clears(w)
    BY <1>3, <1>8 DEF Clears
<1> QED
    BY <1>2, <1>4, <1>5, <1>6, <1>7, <1>8 DEF EmbedMove

\* Indexing only writes a status.
LEMMA IndexingMoves ==
    ASSUME NEW w \in Indexers, Idx!Worker(w)
    PROVE  /\ UNCHANGED <<inserted, sent>>
           /\ \/ status' = status
              \/ \E s \in {"PROCESSING", "FAILED", "INDEXED"} :
                    status' = Idx!Marked(status, s)
BY DEF Idx!Worker, Idx!Process, Idx!Receive, Idx!Start, Idx!AlreadyIndexed,
    Idx!NotIndexed, Idx!MarkProcessing, Idx!Invalid, Idx!Upsert, Idx!UpsertRetried,
    Idx!UpsertRefused, Idx!LinkRows, Idx!LinkRetried, Idx!GiveBack,
    Idx!MarkIndexed, Idx!MarkFailed, Idx!AckBatch, Idx!Unexpected, Idx!LoseConnection,
    Idx!CrashWorker, Idx!RestartWorker, Idx!storeVars, Idx!producerVars

LEMMA AttemptsStep ==
    ASSUME AttemptsInv, [Next]_vars
    PROVE  AttemptsInv'
<1>1. CASE Detect
    <2>1. Rests
        BY <1>1 DEF Detect, Emb!PublishEvent, Emb!tableVars, Emb!outputVars,
            Emb!attemptVars, Rests
    <2> QED
        BY <2>1 DEF Rests, AttemptsInv, AttemptOK, Attempting
<1>2. ASSUME NEW w \in Embedders, EmbedStep(w)
      PROVE  AttemptsInv'
    BY <1>2, EmbedMoves, MoveKeeps DEF EmbedStep
<1>3. ASSUME NEW w \in Indexers, IndexStep(w)
      PROVE  AttemptsInv'
    <2>1. /\ UNCHANGED <<inserted, sent, used, ePc, run>>
          /\ \/ status' = status
             \/ \E s \in {"PROCESSING", "FAILED", "INDEXED"} :
                   status' = Idx!Marked(status, s)
        BY <1>3, IndexingMoves DEF IndexStep, embedVars
    <2>2. status' \in EmbeddingStatuses \cup {"INDEXED"}
        BY <2>1 DEF AttemptsInv, EmbeddingStatuses, Idx!Marked, Idx!Absent
    <2> QED
        BY <2>1, <2>2 DEF AttemptsInv, AttemptOK, Attempting
<1>4. CASE UNCHANGED vars
    BY <1>4 DEF vars, sharedVars, embedVars, AttemptsInv, AttemptOK, Attempting
<1> QED
    BY <1>1, <1>2, <1>3, <1>4 DEF Next

LEMMA AttemptsHold == Spec => []AttemptsInv
BY AttemptsInit, AttemptsStep, PTL DEF Spec

-----------------------------------------------------------------------------
(* EmbedIndex implements Indexing                                          *)

LEMMA IndexingSame ==
    ASSUME UNCHANGED <<sharedVars, indexVars>>
    PROVE  UNCHANGED Idx!vars
BY DEF sharedVars, indexVars, indexQueueVars, Idx!vars, Idx!storeVars,
    Idx!producerVars, Idx!historyVars, Idx!workerVars, Idx!brokerVars

\* A step of EmbedIndex is a step of Indexing, or leaves all of it alone.
LEMMA RefinementStep ==
    ASSUME AttemptsInv, [Next]_vars
    PROVE  [Idx!IndexingNext]_Idx!vars
<1>1. CASE Detect
    <2>1. UNCHANGED <<sharedVars, indexVars>>
        BY <1>1 DEF Detect, Emb!PublishEvent, Emb!tableVars, Emb!outputVars,
            Emb!attemptVars, sharedVars
    <2> QED
        BY <2>1, IndexingSame
<1>2. ASSUME NEW w \in Embedders, EmbedStep(w)
      PROVE  [Idx!IndexingNext]_Idx!vars
    <2>1. /\ EmbedMove(w) /\ Forward
          /\ UNCHANGED <<points, iPc, iSkipped, rejected, overtaken>>
        BY <1>2, EmbedMoves DEF EmbedStep
    <2>2. sent' = sent => UNCHANGED indexQueueVars
        BY <2>1 DEF Forward
    <2> USE DEF Idx!storeVars, Idx!producerVars, Idx!historyVars,
                Idx!workerVars, Idx!brokerVars, indexQueueVars
    <2>3. CASE Elsewhere(w)
        <3>1. CASE status' = status
            BY <2>1, <2>2, <2>3, <3>1, IndexingSame
            DEF Elsewhere, sharedVars, indexVars
        <3>2. CASE status' \in EmbeddingStatuses
            <4>1. Idx!SetStatus(status')
                BY <2>1, <2>2, <2>3 DEF Elsewhere, Idx!SetStatus
            <4> QED
                BY <3>2, <4>1 DEF Idx!IndexingNext, Idx!Others
        <3> QED
            BY <2>3, <3>1, <3>2 DEF Elsewhere
    <2>4. CASE Clears(w)
        <3>1. Idx!ClearRows
            BY <2>1, <2>2, <2>4 DEF Clears, Idx!ClearRows
        <3> QED
            BY <3>1 DEF Idx!IndexingNext, Idx!Others
    <2>5. CASE Embeds(w)
        BY <2>1, <2>2, <2>5, IndexingSame DEF Embeds, sharedVars, indexVars
    <2>6. CASE Inserts(w)
        <3>1. run[w] \in Runs /\ run[w] \notin inserted
            BY <2>6 DEF Inserts, AttemptsInv, AttemptOK, Attempting
        <3>2. Idx!InsertRows(run[w])
            BY <2>1, <2>2, <2>6, <3>1 DEF Inserts, Idx!InsertRows
        <3> QED
            BY <3>1, <3>2 DEF Idx!IndexingNext, Idx!Others
    <2>7. CASE Sends(w)
        <3>1. /\ run[w] \in Runs /\ run[w] \in inserted
              /\ sent[run[w]] < Len(Content[run[w]])
              /\ sent \in [Runs -> Nat]
            BY <2>7 DEF Sends, AttemptsInv, AttemptOK, Attempting
        <3>2. /\ sent' = [sent EXCEPT ![run[w]] = @ + 1]
              /\ UNCHANGED <<status, rows, inserted>>
            BY <2>7 DEF Sends
        <3>3. /\ sent' # sent
              /\ \A r \in Runs : sent'[r] # sent[r] => r = run[w]
            BY <3>1, <3>2
        <3>4. Idx!Publish([run |-> run[w], batch |-> sent[run[w]]])
            BY <2>1, <3>3 DEF Forward
        <3>5. Idx!PublishBatch(run[w])
            BY <2>1, <3>1, <3>2, <3>4 DEF Idx!PublishBatch
        <3> QED
            BY <3>1, <3>5 DEF Idx!IndexingNext, Idx!Others
    <2>8. CASE Rests
        BY <2>1, <2>2, <2>8, IndexingSame DEF Rests, sharedVars, indexVars
    <2> QED
        BY <2>1, <2>3, <2>4, <2>5, <2>6, <2>7, <2>8 DEF EmbedMove
<1>3. ASSUME NEW w \in Indexers, IndexStep(w)
      PROVE  [Idx!IndexingNext]_Idx!vars
    BY <1>3 DEF IndexStep, Idx!IndexingNext
<1>4. CASE UNCHANGED vars
    BY <1>4, IndexingSame DEF vars
<1> QED
    BY <1>1, <1>2, <1>3, <1>4 DEF Next

\* Embedding's attempts, retries and crashes are nothing that module Indexing
\* does not allow its environment to do: run for run it inserts rows once and
\* publishes the batches in order and after them.
THEOREM EmbedIndexRefines == Spec => ImplementsIndexing
<1>1. Init => Idx!IndexingInit
    BY DEF Init
<1>2. AttemptsInv /\ [Next]_vars => [Idx!IndexingNext]_Idx!vars
    BY RefinementStep
<1> QED
    BY <1>1, <1>2, AttemptsHold, PTL
    DEF Spec, ImplementsIndexing, Idx!IndexingSpec
-----------------------------------------------------------------------------
(* What was proved about Indexing holds with embedding in front of it      *)

Proved == INSTANCE IndexingProofs WITH
    Consumers <- Indexers, Prefetch <- IndexPrefetch, Faults <- IndexFaults,
    Mismatched <- {}, OtherStatuses <- EmbeddingStatuses,
    log <- iLog, ready <- iReady, buf <- iBuf, hand <- iHand,
    session <- iSession, acked <- iAcked, dead <- iDead,
    pc <- iPc, skipped <- iSkipped

\* The two names of module Indexing stand for the same formulas.
LEMMA SameModule ==
    /\ Idx!IndexingInit <=> Proved!IndexingInit
    /\ [Idx!IndexingNext]_Idx!vars <=> [Proved!IndexingNext]_Proved!vars
<1>1. Idx!IndexingInit <=> Proved!IndexingInit
    BY ONLY TRUE
    DEF Idx!IndexingInit, Proved!IndexingInit, Idx!BrokerInit,
        Proved!BrokerInit, Idx!None, Proved!None
<1>2. /\ Idx!vars = Proved!vars
      /\ UNCHANGED Idx!vars <=> UNCHANGED Proved!vars
      /\ UNCHANGED Idx!storeVars <=> UNCHANGED Proved!storeVars
      /\ UNCHANGED Idx!producerVars <=> UNCHANGED Proved!producerVars
      /\ UNCHANGED Idx!historyVars <=> UNCHANGED Proved!historyVars
      /\ UNCHANGED Idx!workerVars <=> UNCHANGED Proved!workerVars
      /\ UNCHANGED Idx!brokerVars <=> UNCHANGED Proved!brokerVars
    BY ONLY TRUE
    DEF Idx!vars, Proved!vars, Idx!storeVars, Proved!storeVars,
        Idx!producerVars, Proved!producerVars, Idx!historyVars,
        Proved!historyVars, Idx!workerVars, Proved!workerVars,
        Idx!brokerVars, Proved!brokerVars
<1>3. ASSUME NEW w
      PROVE  /\ Idx!Deliver(w) <=> Proved!Deliver(w)
             /\ Idx!Take(w) <=> Proved!Take(w)
             /\ Idx!Ack(w) <=> Proved!Ack(w)
             /\ Idx!GiveBack(w) <=> Proved!GiveBack(w)
             /\ Idx!DeadLetter(w) <=> Proved!DeadLetter(w)
             /\ Idx!Restart(w) <=> Proved!Restart(w)
    BY ONLY TRUE
    DEF Idx!Deliver, Proved!Deliver, Idx!Take, Proved!Take, Idx!Ack,
        Proved!Ack, Idx!GiveBack, Proved!GiveBack, Idx!Requeue,
        Proved!Requeue, Idx!DeadLetter,
        Proved!DeadLetter, Idx!Release, Proved!Release, Idx!Abandon,
        Proved!Abandon, Idx!Restart, Proved!Restart, Idx!None, Proved!None
<1>4. ASSUME NEW w
      PROVE  /\ Idx!ConnectionLost(w) <=> Proved!ConnectionLost(w)
             /\ Idx!Crash(w) <=> Proved!Crash(w)
    BY ONLY TRUE
    DEF Idx!ConnectionLost, Proved!ConnectionLost, Idx!Crash, Proved!Crash,
        Idx!Unacked, Proved!Unacked, Idx!Range, Proved!Range, Idx!None,
        Proved!None
<1>5. ASSUME NEW w, NEW l, NEW b, NEW s, NEW S
      PROVE  /\ Idx!Goto(w, l) <=> Proved!Goto(w, l)
             /\ Idx!IsFirst(b) <=> Proved!IsFirst(b)
             /\ Idx!IsFinal(b) <=> Proved!IsFinal(b)
             /\ Idx!Valid(b) <=> Proved!Valid(b)
             /\ Idx!Publish(b) <=> Proved!Publish(b)
             /\ Idx!InHand(w) = Proved!InHand(w)
             /\ Idx!Payload(b) = Proved!Payload(b)
             /\ Idx!Marked(s, l) = Proved!Marked(s, l)
             /\ Idx!Linked(S) = Proved!Linked(S)
    BY ONLY TRUE
    DEF Idx!Goto, Proved!Goto, Idx!IsFirst, Proved!IsFirst, Idx!IsFinal,
        Proved!IsFinal, Idx!Valid, Proved!Valid, Idx!Publish, Proved!Publish,
        Idx!InHand, Proved!InHand, Idx!Payload, Proved!Payload, Idx!Marked,
        Proved!Marked, Idx!Absent, Proved!Absent, Idx!Linked, Proved!Linked
<1>6. ASSUME NEW w
      PROVE  Idx!Worker(w) <=> Proved!Worker(w)
    BY ONLY <1>2, <1>3, <1>4, <1>5
    DEF Idx!Worker, Proved!Worker, Idx!Process, Proved!Process, Idx!Receive,
        Proved!Receive, Idx!Start, Proved!Start, Idx!LoseConnection,
        Proved!LoseConnection, Idx!CrashWorker, Proved!CrashWorker,
        Idx!RestartWorker, Proved!RestartWorker, Idx!AlreadyIndexed,
        Proved!AlreadyIndexed, Idx!NotIndexed, Proved!NotIndexed,
        Idx!MarkProcessing, Proved!MarkProcessing, Idx!Invalid, Proved!Invalid,
        Idx!Upsert, Proved!Upsert, Idx!LinkRows, Proved!LinkRows,
        Idx!MarkIndexed, Proved!MarkIndexed, Idx!MarkFailed, Proved!MarkFailed,
        Idx!AckBatch, Proved!AckBatch, Idx!UpsertRetried, Proved!UpsertRetried,
        Idx!UpsertRefused, Proved!UpsertRefused, Idx!LinkRetried,
        Proved!LinkRetried, Idx!Unexpected, Proved!Unexpected, Idx!SomeChunks,
        Proved!SomeChunks
<1>7. Idx!Others <=> Proved!Others
    BY ONLY <1>2, <1>5
    DEF Idx!Others, Proved!Others, Idx!InsertRows, Proved!InsertRows,
        Idx!PublishBatch, Proved!PublishBatch, Idx!ClearRows, Proved!ClearRows,
        Idx!SetStatus, Proved!SetStatus
<1>8. Idx!IndexingNext <=> Proved!IndexingNext
    BY ONLY <1>6, <1>7 DEF Idx!IndexingNext, Proved!IndexingNext
<1> QED
    BY <1>1, <1>2, <1>8

\* The same invariants.
LEMMA SameInvariants ==
    /\ Proved!LinkedRowsHavePoints => Idx!LinkedRowsHavePoints
    /\ Proved!AckedMeansHandled => Idx!AckedMeansHandled
BY DEF Proved!LinkedRowsHavePoints, Idx!LinkedRowsHavePoints,
    Proved!AckedMeansHandled, Idx!AckedMeansHandled, Proved!Stored,
    Idx!Stored, Proved!Payload, Idx!Payload, Proved!IsFirst, Idx!IsFirst

LEMMA ProvedAssumptions == Proved!IndexingAssumption /\ Proved!BrokerAssumption
BY EmbedIndexAssumption
DEF Proved!IndexingAssumption, Proved!BrokerAssumption, EmbeddingStatuses,
    Proved!VideoStatuses, Proved!FaultKinds, Idx!FaultKinds

\* A row of the embeddings whose point id is set has its point in Qdrant,
\* however many attempts embedding makes and clears while indexing works.
THEOREM EmbedIndexLinkedRows == Spec => []Idx!LinkedRowsHavePoints
<1>1. Proved!IndexingSpec => []Proved!LinkedRowsHavePoints
    BY ProvedAssumptions, Proved!IndexingLinkedRows
<1> QED
    BY <1>1, EmbedIndexRefines, SameModule, SameInvariants, PTL
    DEF ImplementsIndexing, Idx!IndexingSpec, Proved!IndexingSpec

\* A batch that embedding published and indexing acknowledged is in Qdrant, or
\* marked the video FAILED, or is a first batch that the guard dropped.
THEOREM EmbedIndexAcked == Spec => []Idx!AckedMeansHandled
<1>1. Proved!IndexingSpec => []Proved!AckedMeansHandled
    BY ProvedAssumptions, Proved!IndexingAcked
<1> QED
    BY <1>1, EmbedIndexRefines, SameModule, SameInvariants, PTL
    DEF ImplementsIndexing, Idx!IndexingSpec, Proved!IndexingSpec

\* With one indexing worker, whatever it prefetches, a video is INDEXED only
\* when every batch of one of embedding's attempts is in Qdrant, was rejected,
\* dead-lettered or given back behind newer ones - whatever faults embedding
\* has, and however many workers.
THEOREM EmbedIndexAccounted ==
    ASSUME \A w, x \in Indexers : w = x
    PROVE  Spec => []Idx!IndexedMeansAccounted
<1>1. Proved!Alone
    BY DEF Proved!Alone
<1>2. Proved!IndexingSpec => []Proved!IndexedMeansAccounted
    BY <1>1, ProvedAssumptions, Proved!IndexingAccounted
<1>3. Proved!IndexedMeansAccounted => Idx!IndexedMeansAccounted
    BY DEF Proved!IndexedMeansAccounted, Idx!IndexedMeansAccounted,
        Proved!CompleteBut, Idx!CompleteBut, Proved!Missed, Idx!Missed,
        Proved!Stored, Idx!Stored, Proved!Payload, Idx!Payload,
        Proved!Messages, Idx!Messages
<1> QED
    BY <1>2, <1>3, EmbedIndexRefines, SameModule, PTL
    DEF ImplementsIndexing, Idx!IndexingSpec, Proved!IndexingSpec
=============================================================================
