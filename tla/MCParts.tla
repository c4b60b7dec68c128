------------------------------ MODULE MCParts -------------------------------
(***************************************************************************)
(* Parts that share no state, side by side in one run: the requests, the   *)
(* deduplication and the history of search, the clips of preprocessing,    *)
(* and the embedding service.  The first state chooses the part that runs. *)
(***************************************************************************)
EXTENDS Search, SearchHistory, SceneClips, Embedding, Functions, TLC

CONSTANTS
    Parts,   \* which of them may run
    c1, c2, cam1, cam2, h1, h2, h3, h4, v1, v2, e1, e2, r1, r2, r3, a1, a2

\* Four results, three of them of one video; by rank they jump in time.
FourHits == {h1, h2, h3, h4}
TwoVideos == {v1, v2}
VideoOfHit == (h1 :> v1) @@ (h2 :> v1) @@ (h3 :> v2) @@ (h4 :> v1)
StartOfHit == (h1 :> 5) @@ (h2 :> 7) @@ (h3 :> 5) @@ (h4 :> 0)
LabelOfHit == (h1 :> "person") @@ (h2 :> "person") @@ (h3 :> "car") @@ (h4 :> NoLabel)
CameraOfVideo == (v1 :> cam1) @@ (v2 :> cam2)
EveryRanking == {s \in UNION {[1..n -> FourHits] : n \in 1..4} : IsInjective(s)}
OneRanking == [q \in {"query"} |-> <<h1, h2, h3, h4>>]

\* One query under two filters; the first client turns the pages of one of
\* them, the second asks for either, with a page size below 0.
TwoClients == {c1, c2}
Things == [query |-> "query", filters |-> [label |-> {"person", "car"}]]
Cars == [query |-> "query", filters |-> [label |-> {"car"}]]
TwoKeys == {Things, Cars}
Asked == (c1 :> {Things}) @@ (c2 :> TwoKeys)
SizesOf == (c1 :> {1, 2}) @@ (c2 :> {-1})
IndexedAtFirst == {h1, h3, h4}

\* One client that asks for what one camera saw.
OneClient == {c1}
OfCamera == [query |-> "query", filters |-> [camera_id |-> {cam1}]]
CameraKeys == {OfCamera}
AskedOfCamera == (c1 :> CameraKeys)

\* Three attempts to embed; the first two are at the event e1, and the second
\* event carries no artifact at all.
ThreeRuns == {r1, r2, r3}
TwoOfOne == (r1 :> e1) @@ (r2 :> e1) @@ (r3 :> e2)
TwoThenNone == (r1 :> <<{a1}, {a2}>>) @@ (r2 :> <<{a1}, {a2}>>) @@ (r3 :> << >>)
AllFaults == FaultKinds

VARIABLE part

partsVars == <<part, searchVars, dedupVars, historyAll, clipVars,
               vars>>

PartsInit ==
    /\ part \in Parts
    /\ SearchInit
    /\ DedupInit
    /\ HistoryInit
    /\ ClipsInit
    /\ EmbeddingInit

PartsNext ==
    /\ UNCHANGED part
    /\ \/ /\ part = "requests"
          /\ SearchNext
          /\ UNCHANGED <<dedupVars, historyAll, clipVars, vars>>
       \/ /\ part = "dedup"
          /\ DedupNext
          /\ UNCHANGED <<searchVars, historyAll, clipVars, vars>>
       \/ /\ part = "history"
          /\ HistoryNext
          /\ UNCHANGED <<searchVars, dedupVars, clipVars, vars>>
       \/ /\ part = "clips"
          /\ ClipsNext
          /\ UNCHANGED <<searchVars, dedupVars, historyAll, vars>>
       \/ /\ part = "embedding"
          /\ EmbeddingNext
          /\ UNCHANGED <<searchVars, dedupVars, historyAll, clipVars>>

PartsSpec == PartsInit /\ [][PartsNext]_partsVars
=============================================================================
