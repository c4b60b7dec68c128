------------------------------- MODULE Intake -------------------------------
(***************************************************************************)
(* The ingestion and the preprocessing service together.  They share the   *)
(* status column of video_records, which ingestion creates in a            *)
(* transaction of its own and preprocessing claims; the raw bucket; and    *)
(* the video.ingested queue.                                               *)
(***************************************************************************)
EXTENDS Ingestion, Naturals, Sequences, FiniteSets

CONSTANTS
    Workers, Prefetch, WorkFaults,  \* of the preprocessing service
    LaterStatuses                   \* written by the stages behind it

ASSUME IntakeAssumption ==
    /\ IsFiniteSet(Requests)
    /\ Prefetch \in Nat \ {0}
    /\ LaterStatuses \subseteq VideoStatuses

VARIABLES
    log, ready, buf, hand, session, acked, dead,   \* the video.ingested queue
    stored, announced, workerPc                    \* preprocessing

queueVars == <<log, ready, buf, hand, session, acked, dead>>
workVars == <<stored, announced, workerPc>>
ingestVars == <<pending, objects, published, pc, answerVars>>
intakeVars == <<status, ingestVars, queueVars, workVars>>

Pre == INSTANCE Preprocessing WITH
    Consumers <- Workers, Videos <- Requests, Faults <- WorkFaults,
    pc <- workerPc, MaxEvents <- Cardinality(Requests)

Init == IngestionInit /\ Pre!PreprocessingInit

\* Fault: announced once more when the confirm is late.
ForwardTwice ==
    \/ published' = published /\ UNCHANGED queueVars
    \/ \E v \in published' \ published :
          /\ log' = log \o <<v, v>>
          /\ ready' = ready \cup {Len(log) + 1, Len(log) + 2}
          /\ UNCHANGED <<buf, hand, session, acked, dead>>

\* An event published by ingestion is a message in the preprocessing queue.
Forward ==
    \/ published' = published /\ UNCHANGED queueVars
    \/ \E v \in published' \ published : Pre!Publish(v)

RequestStep(r) ==
    /\ Request(r)
    /\ Forward
    /\ UNCHANGED workVars

CrashStep ==
    /\ CrashIngestion
    /\ UNCHANGED <<queueVars, workVars>>

WorkStep(w) ==
    /\ Pre!Worker(w)
    /\ UNCHANGED ingestVars

\* Detection, embedding and indexing write the same column.
DownstreamStep ==
    /\ \E v \in Requests, s \in LaterStatuses : Pre!DownstreamMarks(v, s)
    /\ UNCHANGED ingestVars

Next ==
    \/ CrashStep
    \/ DownstreamStep
    \/ \E r \in Requests : RequestStep(r)
    \/ \E w \in Workers : WorkStep(w)

Spec == Init /\ [][Next]_intakeVars

\* uvicorn runs every request to its end, as long as the process lives.
FairSpec == Spec /\ \A r \in Requests : WF_intakeVars(RequestStep(r))

-----------------------------------------------------------------------------
(* Properties                                                              *)

\* Both services keep to their types.
IntakeTypeOK == IngestionTypeOK /\ Pre!PreprocessingTypeOK

\* See module Preprocessing.
ClaimedByOne == Pre!ClaimedByOne
AnnouncedIsStored == Pre!AnnouncedIsStored
NotLeftProcessing == Pre!NotLeftProcessing

\* Ingestion is an environment that module Preprocessing allows for: it
\* creates rows in any order with their events, once, and nothing else.
ImplementsPreprocessing == Pre!PreprocessingSpec

\* What is announced to detection belongs to a video whose row is committed
\* and whose upload was neither rejected nor a duplicate: the copy that lost
\* the race is not processed a second time.
OneAnnouncementPerContent ==
    \A v, w \in announced : ContentOf[v] = ContentOf[w] => v = w

AtRest ==
    /\ \A r \in Requests : pc[r] = "done"
    /\ ready = {}
    /\ \A w \in Workers : hand[w] = Pre!None /\ buf[w] = << >>

\* "They queue up; nothing is lost": once all requests were answered and all
\* events acknowledged, no accepted video is still waiting to be preprocessed.
AcceptedIsPickedUp ==
    AtRest /\ dead = {} =>
        \A v \in published : status[v] # "PENDING"
=============================================================================
