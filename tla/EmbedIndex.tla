----------------------------- MODULE EmbedIndex -----------------------------
(***************************************************************************)
(* The embedding and the indexing service together, on the two things they *)
(* share: the video.embeddings_ready queue and the database (the status of *)
(* the video and its embedding_records).  The components are the modules   *)
(* Embedding and Indexing; here a batch that embedding publishes enters    *)
(* the queue that indexing consumes.                                       *)
(***************************************************************************)
EXTENDS Naturals, Sequences

CONSTANTS
    Embedders, EmbedPrefetch, EmbedFaults,   \* consumers of detection_complete
    Indexers, IndexPrefetch, IndexFaults,    \* consumers of embeddings_ready
    Events, MaxEvents, Runs, EventOf,        \* as in Embedding
    Artifacts, Content                       \* as in both

VARIABLES
    status, rows, points, inserted, sent,                        \* shared
    eLog, eReady, eBuf, eHand, eSession, eAcked, eDead,          \* its queue
    ePc, run, used, eSkipped, failed,                            \* embedding
    iLog, iReady, iBuf, iHand, iSession, iAcked, iDead,          \* its queue
    iPc, iSkipped, rejected, overtaken                           \* indexing

embedVars == <<eLog, eReady, eBuf, eHand, eSession, eAcked, eDead,
               ePc, run, used, eSkipped, failed>>
indexQueueVars == <<iLog, iReady, iBuf, iHand, iSession, iAcked, iDead>>
indexVars == <<indexQueueVars, iPc, iSkipped, rejected, overtaken>>
sharedVars == <<status, rows, points, inserted, sent>>
vars == <<sharedVars, embedVars, indexVars>>

Emb == INSTANCE Embedding WITH
    Consumers <- Embedders, Prefetch <- EmbedPrefetch, Faults <- EmbedFaults,
    log <- eLog, ready <- eReady, buf <- eBuf, hand <- eHand,
    session <- eSession, acked <- eAcked, dead <- eDead,
    pc <- ePc, skipped <- eSkipped

\* What embedding and detection write to the status, as indexing sees it.
EmbeddingStatuses == {"DETECTED", "PROCESSING", "EMBEDDED", "FAILED"}

Idx == INSTANCE Indexing WITH
    Consumers <- Indexers, Prefetch <- IndexPrefetch, Faults <- IndexFaults,
    Mismatched <- {}, OtherStatuses <- EmbeddingStatuses,
    log <- iLog, ready <- iReady, buf <- iBuf, hand <- iHand,
    session <- iSession, acked <- iAcked, dead <- iDead,
    pc <- iPc, skipped <- iSkipped

ASSUME EmbedIndexAssumption ==
    /\ EventOf \in [Runs -> Events]
    /\ Content \in [Runs -> Seq(SUBSET Artifacts)]
    /\ MaxEvents \in Nat
    /\ EmbedPrefetch \in Nat \ {0} /\ IndexPrefetch \in Nat \ {0}
    /\ EmbedFaults \subseteq Emb!FaultKinds /\ IndexFaults \subseteq Idx!FaultKinds

Init == Emb!EmbeddingInit /\ Idx!IndexingInit /\ status = "DETECTED"

\* Detection publishes an event.
Detect ==
    /\ \E e \in Events : Emb!PublishEvent(e)
    /\ UNCHANGED <<points, indexVars>>

\* Fault: batches numbered from one.
ForwardFromOne ==
    \/ sent' = sent /\ UNCHANGED indexQueueVars
    \/ \E r \in Runs :
          /\ sent'[r] # sent[r]
          /\ Idx!Publish([run |-> r, batch |-> sent'[r]])

\* A batch counted by sent is a message in the queue of indexing.
Forward ==
    \/ sent' = sent /\ UNCHANGED indexQueueVars
    \/ \E r \in Runs :
          /\ sent'[r] # sent[r]
          /\ Idx!Publish([run |-> r, batch |-> sent[r]])

EmbedStep(w) ==
    /\ Emb!Worker(w)
    /\ Forward
    /\ UNCHANGED <<points, iPc, iSkipped, rejected, overtaken>>

IndexStep(w) ==
    /\ Idx!Worker(w)
    /\ UNCHANGED embedVars

Next ==
    \/ Detect
    \/ \E w \in Embedders : EmbedStep(w)
    \/ \E w \in Indexers : IndexStep(w)

Spec == Init /\ [][Next]_vars

\* Deliveries are made, handlers run to an end, dead workers come back.
Fairness ==
    /\ \A w \in Embedders :
          /\ WF_vars(EmbedStep(w) /\ (Emb!Receive(w) \/ Emb!RestartWorker(w)))
          /\ WF_vars(EmbedStep(w) /\ (Emb!Start(w) \/ Emb!Process(w)))
    /\ \A w \in Indexers :
          /\ WF_vars(IndexStep(w) /\ (Idx!Receive(w) \/ Idx!RestartWorker(w)))
          /\ WF_vars(IndexStep(w) /\ (Idx!Start(w) \/ Idx!Process(w)))

FairSpec == Spec /\ Fairness

-----------------------------------------------------------------------------
(* Properties                                                              *)

\* Embedding is an environment that the properties of module Indexing allow
\* for: run for run it inserts rows, clears rows, sets the status and
\* publishes its batches in order.
ImplementsIndexing == Idx!IndexingSpec

AtRest ==
    /\ eLog # << >>
    /\ eReady \cup iReady = {}
    /\ \A w \in Embedders : eHand[w] = 0 /\ eBuf[w] = << >>
    /\ \A w \in Indexers : iHand[w] = 0 /\ iBuf[w] = << >>

\* "status=INDEXED when embedding+indexing completes, FAILED if any stage
\* fails unrecoverably": when every message has been acknowledged, the video
\* is one or the other.
RestsIndexedOrFailed ==
    AtRest /\ eDead \cup iDead = {} => status \in {"INDEXED", "FAILED"}

\* From some moment on no attempt of either service fails.
FaultsCease ==
    <>[][/\ ~ \E w \in Embedders : Emb!Failure(w)
         /\ ~ \E w \in Indexers :
                 \/ Idx!UpsertRetried(w) \/ Idx!LinkRetried(w)
                 \/ Idx!LoseConnection(w) \/ Idx!CrashWorker(w)]_vars

\* Every artifact of a detected video ends up in Qdrant, whatever crashes and
\* retries happened in either service before the faults ceased - unless its
\* batch was given back behind newer ones, which mark the video INDEXED, and was
\* then dropped by the guard (indexing.py, "silently dropped").
EventuallySearchable ==
    FaultsCease =>
        (eLog # << >> ~>
            \A r \in Runs : \A k \in DOMAIN Content[r] :
                \/ Content[r][k] \subseteq points
                \/ \E i \in iSkipped \cap overtaken :
                      Idx!Payload(iLog[i]) = Content[r][k])
=============================================================================
