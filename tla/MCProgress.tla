----------------------------- MODULE MCProgress -----------------------------
(***************************************************************************)
(* What must eventually happen, in one run: embedding feeding indexing,    *)
(* and beside them two parts that share nothing with them or each other,   *)
(* the queue with any handlers and the guard of the models.  The first     *)
(* state chooses the part that runs, and of the two services which of them *)
(* may fail in which way.                                                  *)
(***************************************************************************)
EXTENDS MCEmbedIndex, Delivery, InferenceGuard

VARIABLE part

progressVars == <<part, vars, brokerVars, guardVars>>

ServiceParts == {"retries", "embedding", "indexing"}

ProgressInit ==
    /\ part \in ServiceParts \cup {"queue", "guard"}
    /\ Init
    /\ BrokerInit
    /\ GuardInit

\* No connection breaks under a handler, and nobody dies.
SessionsStay == eSession' = eSession /\ iSession' = iSession

\* No message goes back to the queue of the service.
EmbeddingWorks == eSession' = eSession /\ eReady' \cap DOMAIN eLog \subseteq eReady
IndexingWorks == iSession' = iSession /\ iReady' \cap DOMAIN iLog \subseteq iReady

\* The faults of the part: retries in both services, or any fault of one.
Expected ==
    \/ part = "retries" /\ SessionsStay
    \/ part = "embedding" /\ IndexingWorks
    \/ part = "indexing" /\ EmbeddingWorks

ProgressNext ==
    /\ UNCHANGED part
    /\ \/ /\ part \in ServiceParts
          /\ Next
          /\ Expected
          /\ UNCHANGED <<brokerVars, guardVars>>
       \/ /\ part = "queue"
          /\ DeliveryNext
          /\ UNCHANGED <<vars, guardVars>>
       \/ /\ part = "guard"
          /\ GuardNext
          /\ UNCHANGED <<vars, brokerVars>>

\* Of a part that does not run nothing is ever received, and the fairness of
\* the steps that would receive something demands nothing.
ProgressSpec ==
    /\ ProgressInit
    /\ [][ProgressNext]_progressVars
    /\ Fairness
    /\ DeliveryFairness
    /\ GuardFairness
=============================================================================
