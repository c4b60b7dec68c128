---------------------------- MODULE PartsProofs -----------------------------
(***************************************************************************)
(* Theorems about the parts that are models of their own (compare MCParts  *)
(* and MCDelivery): the queue, the loop that drops near results, the       *)
(* history in Redis, the guard that the query encoder and the models of    *)
(* embedding and detection share, the scenes and clips of preprocessing,   *)
(* and last the requests of search, with its cache and its pages.          *)
(***************************************************************************)
EXTENDS Delivery, BrokerProofs, Search, SearchHistory, InferenceGuard,
        SceneClips, FiniteSetTheorems, SequenceTheorems, WellFoundedInduction,
        TLAPS

-----------------------------------------------------------------------------
(* The queue: the delivery guarantees, for any number of consumers, any    *)
(* prefetch and any bound on the messages                                  *)

DeliveryInv == log \in Seq(Bodies) /\ QueueInv

LEMMA DeliveryInit == ASSUME BrokerInit PROVE DeliveryInv
BY InitQueue, EmptySeq DEF BrokerInit, DeliveryInv

LEMMA DeliveryStep ==
    ASSUME DeliveryInv, [DeliveryNext]_brokerVars
    PROVE  DeliveryInv'
<1> USE DEF DeliveryInv
<1>1. CASE PublishSome
    <2>1. PICK body \in Bodies : Publish(body)
        BY <1>1 DEF PublishSome
    <2>2. log' \in Seq(Bodies)
        BY <2>1, AppendProperties DEF Publish
    <2>3. QueueInv'
        BY <2>1, PublishQueue
    <2> QED
        BY <2>2, <2>3
<1>2. ASSUME NEW c \in Consumers, Deliver(c)
      PROVE  DeliveryInv'
    BY <1>2, DeliverQueue DEF Deliver
<1>3. ASSUME NEW c \in Consumers, Take(c)
      PROVE  DeliveryInv'
    BY <1>3, TakeQueue DEF Take
<1>4. ASSUME NEW c \in Consumers, Ack(c) \/ Requeue(c) \/ DeadLetter(c)
      PROVE  DeliveryInv'
    BY <1>4, SettleQueue DEF Ack, Requeue, DeadLetter, Release
<1>5. ASSUME NEW c \in Consumers, Crash(c) \/ ConnectionLost(c)
      PROVE  DeliveryInv'
    BY <1>5, FaultQueue DEF Crash, ConnectionLost
<1>6. ASSUME NEW c \in Consumers, Restart(c)
      PROVE  DeliveryInv'
    BY <1>6, RestartQueue DEF Restart
<1>7. CASE UNCHANGED brokerVars
    BY <1>7, SameQueue DEF brokerVars
<1> QED
    BY <1>1, <1>2, <1>3, <1>4, <1>5, <1>6, <1>7 DEF DeliveryNext

\* The queue and its consumers keep their types, whatever the handlers do.
THEOREM DeliveryTypes == DeliverySpec => []DeliveryTypeOK
<1>1. DeliveryInv => DeliveryTypeOK
    BY DEF DeliveryInv, QueueInv, DeliveryTypeOK
<1> QED
    BY <1>1, DeliveryInit, DeliveryStep, PTL DEF DeliverySpec

\* A published message is in exactly one place - queued, with one consumer,
\* acknowledged or dead-lettered - under any sequence of nacks, crashes and
\* lost connections (consumer.py).
THEOREM DeliveryExactlyOneHome == DeliverySpec => []ExactlyOneHome
<1>1. DeliveryInv => ExactlyOneHome
    BY DEF DeliveryInv, QueueInv
<1> QED
    BY <1>1, DeliveryInit, DeliveryStep, PTL DEF DeliverySpec

\* Two consumers have the same message in hand only when one of them lost its
\* connection in the middle of handling it.
THEOREM DeliveryHandledTwice == DeliverySpec => []HandledTwiceOnlyAfterLoss
<1>1. ASSUME DeliveryInv
      PROVE  HandledTwiceOnlyAfterLoss
    <2> SUFFICES ASSUME NEW c \in Consumers, NEW d \in Consumers,
                        c # d, hand[c] # None, hand[c] = hand[d],
                        session[c] # "stale", session[d] # "stale"
                 PROVE  FALSE
        BY DEF HandledTwiceOnlyAfterLoss
    <2>1. session[c] = "open" /\ session[d] = "open"
        BY <1>1 DEF DeliveryInv, QueueInv, QueueTypeOK, SessionsOK, Sessions
    <2>2. hand[c] \in Unacked(c) /\ hand[c] \in Unacked(d)
        BY <2>1 DEF Unacked
    <2> QED
        BY <1>1, <2>2 DEF DeliveryInv, QueueInv, ExactlyOneHome
<1> QED
    BY <1>1, DeliveryInit, DeliveryStep, PTL DEF DeliverySpec
-----------------------------------------------------------------------------
(* Temporal deduplication                                                  *)

DedupTypeOK ==
    /\ ranked \in Seq(Hits)
    /\ passed \in 0..Len(ranked)
    /\ kept \in Seq(Hits)
    /\ keptAt \in [Videos -> Seq(Nat)]

\* The times kept of each video are those of the results kept, and these are
\* among the results that were passed.
KeptTimes ==
    /\ \A k \in DOMAIN kept :
          \E i \in DOMAIN keptAt[VideoOf[kept[k]]] :
              keptAt[VideoOf[kept[k]]][i] = StartOf[kept[k]]
    /\ \A v \in Videos : \A i \in DOMAIN keptAt[v] :
          \E k \in DOMAIN kept :
              VideoOf[kept[k]] = v /\ StartOf[kept[k]] = keptAt[v][i]
    /\ \A k \in DOMAIN kept : \E j \in 1..passed : ranked[j] = kept[k]

DedupInv == DedupTypeOK /\ KeptTimes /\ KeptApart /\ SuppressedNearBetter

LEMMA DedupStarts == ASSUME DedupAssumption, DedupInit PROVE DedupInv
BY DEF DedupInit, DedupInv, DedupTypeOK, KeptTimes, KeptApart, SuppressedNearBetter

\* A new list begins with nothing passed and nothing kept.
LEMMA DedupCallKeeps ==
    ASSUME DedupAssumption, DedupInv, DedupCall
    PROVE  DedupInv'
BY DEF DedupAssumption, DedupCall, DedupInv, DedupTypeOK, KeptTimes, KeptApart,
       SuppressedNearBetter

\* A result that is dropped is near one of its video that was kept before.
LEMMA SuppressKeeps ==
    ASSUME DedupAssumption, DedupInv, SuppressHit
    PROVE  DedupInv'
<1> DEFINE h == ranked[passed + 1]
<1>1. /\ h \in Hits
      /\ VideoOf[h] \in Videos
      /\ passed + 1 \in 1..Len(ranked)
  BY DEF DedupAssumption, DedupInv, DedupTypeOK, SuppressHit
<1>2. DedupTypeOK' /\ KeptTimes' /\ KeptApart'
  BY DEF DedupInv, DedupTypeOK, KeptTimes, KeptApart, SuppressHit
<1>3. \E i \in 1..passed :
          (\E k \in DOMAIN kept : kept[k] = ranked[i]) /\ Close(ranked[i], h)
  <2>1. PICK t \in DOMAIN keptAt[VideoOf[h]] : Near(StartOf[h], keptAt[VideoOf[h]][t])
    BY DEF SuppressHit, Suppressed
  <2>2. PICK k \in DOMAIN kept :
            VideoOf[kept[k]] = VideoOf[h] /\ StartOf[kept[k]] = keptAt[VideoOf[h]][t]
    BY <1>1, <2>1 DEF DedupInv, KeptTimes
  <2>3. PICK i \in 1..passed : ranked[i] = kept[k]
    BY <2>2 DEF DedupInv, KeptTimes
  <2>4. Close(ranked[i], h)
    BY <2>1, <2>2, <2>3 DEF Close, Near
  <2> QED BY <2>2, <2>3, <2>4
<1>4. SuppressedNearBetter'
  <2>1. UNCHANGED <<ranked, kept>> /\ passed' = passed + 1
    BY DEF SuppressHit
  <2>2. SUFFICES ASSUME NEW j \in 1..(passed + 1)
                 PROVE  \/ \E k \in DOMAIN kept : kept[k] = ranked[j]
                        \/ \E i \in 1..(j - 1) :
                              /\ \E k \in DOMAIN kept : kept[k] = ranked[i]
                              /\ Close(ranked[i], ranked[j])
    BY <2>1 DEF SuppressedNearBetter
  <2>3. CASE j \in 1..passed
    BY <2>3 DEF DedupInv, SuppressedNearBetter
  <2>4. CASE j = passed + 1
    <3>1. j - 1 = passed
      BY <2>4 DEF DedupInv, DedupTypeOK
    <3> QED BY <1>3, <2>4, <3>1
  <2>5. passed \in Nat
    BY DEF DedupInv, DedupTypeOK
  <2>6. j \in 1..passed \/ j = passed + 1
    BY <2>5
  <2> QED BY <2>3, <2>4, <2>6
<1> QED BY <1>2, <1>4 DEF DedupInv

\* A result that is kept is near none of its video that was kept before.
LEMMA KeepKeeps ==
    ASSUME DedupAssumption, DedupInv, KeepHit
    PROVE  DedupInv'
<1> DEFINE h == ranked[passed + 1]
           v == VideoOf[h]
<1>1. /\ h \in Hits
      /\ v \in Videos
      /\ StartOf[h] \in Nat
      /\ passed \in Nat
      /\ passed + 1 \in 1..Len(ranked)
  BY DEF DedupAssumption, DedupInv, DedupTypeOK, KeepHit
<1>2. /\ ranked' = ranked
      /\ passed' = passed + 1
      /\ kept' = Append(kept, h)
      /\ keptAt' = [keptAt EXCEPT ![v] = Append(keptAt[v], StartOf[h])]
      /\ ~ Suppressed(h)
  BY DEF KeepHit
<1>3. /\ kept \in Seq(Hits)
      /\ keptAt \in [Videos -> Seq(Nat)]
      /\ \A w \in Videos : keptAt[w] \in Seq(Nat)
  BY DEF DedupInv, DedupTypeOK
<1>4. DedupTypeOK'
  BY <1>1, <1>2, <1>3 DEF DedupInv, DedupTypeOK
<1>5. /\ DOMAIN kept' = 1..(Len(kept) + 1)
      /\ DOMAIN kept = 1..Len(kept)
      /\ Len(kept) \in Nat
      /\ kept'[Len(kept) + 1] = h
      /\ \A k \in DOMAIN kept : kept'[k] = kept[k]
  BY <1>1, <1>2, <1>3
<1>6. /\ DOMAIN keptAt'[v] = 1..(Len(keptAt[v]) + 1)
      /\ DOMAIN keptAt[v] = 1..Len(keptAt[v])
      /\ Len(keptAt[v]) \in Nat
      /\ keptAt'[v][Len(keptAt[v]) + 1] = StartOf[h]
      /\ \A i \in DOMAIN keptAt[v] : keptAt'[v][i] = keptAt[v][i]
      /\ \A w \in Videos \ {v} : keptAt'[w] = keptAt[w]
  BY <1>1, <1>2, <1>3
<1>7. \A k \in DOMAIN kept' : k \in DOMAIN kept \/ k = Len(kept) + 1
  BY <1>5
<1>8. \A k \in DOMAIN kept : kept[k] \in Hits /\ VideoOf[kept[k]] \in Videos
  BY <1>3 DEF DedupAssumption
<1>9. KeptTimes'
  <2>1. ASSUME NEW k \in DOMAIN kept'
        PROVE  \E i \in DOMAIN keptAt'[VideoOf[kept'[k]]] :
                   keptAt'[VideoOf[kept'[k]]][i] = StartOf[kept'[k]]
    <3>1. CASE k = Len(kept) + 1
      BY <3>1, <1>5, <1>6
    <3>2. CASE k \in DOMAIN kept
      <4>1. PICK i \in DOMAIN keptAt[VideoOf[kept[k]]] :
                keptAt[VideoOf[kept[k]]][i] = StartOf[kept[k]]
        BY <3>2 DEF DedupInv, KeptTimes
      <4>2. /\ i \in DOMAIN keptAt'[VideoOf[kept[k]]]
            /\ keptAt'[VideoOf[kept[k]]][i] = keptAt[VideoOf[kept[k]]][i]
        <5>1. CASE VideoOf[kept[k]] = v
          BY <1>6, <4>1, <5>1
        <5>2. CASE VideoOf[kept[k]] # v
          BY <1>6, <1>8, <3>2, <4>1, <5>2
        <5> QED BY <5>1, <5>2
      <4> QED BY <1>5, <3>2, <4>1, <4>2
    <3> QED BY <1>7, <3>1, <3>2
  <2>2. ASSUME NEW w \in Videos, NEW i \in DOMAIN keptAt'[w]
        PROVE  \E k \in DOMAIN kept' :
                   VideoOf[kept'[k]] = w /\ StartOf[kept'[k]] = keptAt'[w][i]
    <3>1. CASE w = v /\ i = Len(keptAt[v]) + 1
      BY <3>1, <1>5, <1>6
    <3>2. CASE i \in DOMAIN keptAt[w] /\ keptAt'[w][i] = keptAt[w][i]
      <4>1. PICK k \in DOMAIN kept :
                VideoOf[kept[k]] = w /\ StartOf[kept[k]] = keptAt[w][i]
        BY <3>2 DEF DedupInv, KeptTimes
      <4> QED BY <1>5, <3>2, <4>1
    <3> QED BY <1>6, <2>2, <3>1, <3>2
  <2>3. ASSUME NEW k \in DOMAIN kept'
        PROVE  \E j \in 1..passed' : ranked'[j] = kept'[k]
    <3>1. CASE k = Len(kept) + 1
      BY <3>1, <1>1, <1>2, <1>5
    <3>2. CASE k \in DOMAIN kept
      <4>1. PICK j \in 1..passed : ranked[j] = kept[k]
        BY <3>2 DEF DedupInv, KeptTimes
      <4> QED BY <1>1, <1>2, <1>5, <3>2, <4>1
    <3> QED BY <1>7, <3>1, <3>2
  <2> QED BY <2>1, <2>2, <2>3 DEF KeptTimes
<1>10. \A k \in DOMAIN kept : ~ Close(kept[k], h) /\ ~ Close(h, kept[k])
  <2>1. SUFFICES ASSUME NEW k \in DOMAIN kept, VideoOf[kept[k]] = v
                 PROVE  ~ Near(StartOf[kept[k]], StartOf[h])
                        /\ ~ Near(StartOf[h], StartOf[kept[k]])
    BY DEF Close
  <2>2. PICK i \in DOMAIN keptAt[v] : keptAt[v][i] = StartOf[kept[k]]
    BY <2>1 DEF DedupInv, KeptTimes
  <2>3. ~ Near(StartOf[h], StartOf[kept[k]])
    BY <1>2, <2>2 DEF Suppressed
  <2>4. Near(StartOf[kept[k]], StartOf[h]) = Near(StartOf[h], StartOf[kept[k]])
    BY DEF Near
  <2> QED BY <2>3, <2>4
<1>11. KeptApart'
  <2>1. SUFFICES ASSUME NEW i \in DOMAIN kept', NEW j \in DOMAIN kept', i # j
                 PROVE  ~ Close(kept'[i], kept'[j])
    BY DEF KeptApart, Close, Near
  <2>2. CASE i \in DOMAIN kept /\ j \in DOMAIN kept
    BY <1>5, <2>1, <2>2 DEF DedupInv, KeptApart
  <2>3. CASE i = Len(kept) + 1
    BY <1>5, <1>7, <1>10, <2>1, <2>3
  <2>4. CASE j = Len(kept) + 1
    BY <1>5, <1>7, <1>10, <2>1, <2>4
  <2> QED BY <1>7, <2>2, <2>3, <2>4
<1>12. SuppressedNearBetter'
  <2>1. ASSUME NEW j \in 1..(passed + 1)
        PROVE  \/ \E k \in DOMAIN kept' : kept'[k] = ranked[j]
               \/ \E i \in 1..(j - 1) :
                     /\ \E k \in DOMAIN kept' : kept'[k] = ranked[i]
                     /\ Close(ranked[i], ranked[j])
    <3>1. CASE j = passed + 1
      BY <1>5, <3>1
    <3>2. CASE j \in 1..passed
      <4>1. \A i : (\E k \in DOMAIN kept : kept[k] = ranked[i])
                   => \E k \in DOMAIN kept' : kept'[k] = ranked[i]
        BY <1>5
      <4>2. \/ \E k \in DOMAIN kept : kept[k] = ranked[j]
            \/ \E i \in 1..(j - 1) : /\ \E k \in DOMAIN kept : kept[k] = ranked[i]
                                     /\ Close(ranked[i], ranked[j])
        BY <3>2 DEF DedupInv, SuppressedNearBetter
      <4> QED BY <4>1, <4>2
    <3>3. j \in 1..passed \/ j = passed + 1
      BY <1>1
    <3> QED BY <3>1, <3>2, <3>3
  <2>2. /\ passed' = passed + 1
        /\ ranked' = ranked
    BY <1>2
  <2> HIDE DEF h, v
  <2> QED BY ONLY <2>1, <2>2 DEF SuppressedNearBetter, Close, Near
<1> QED BY <1>4, <1>9, <1>11, <1>12 DEF DedupInv

LEMMA DedupSteps ==
    ASSUME DedupAssumption, DedupInv, [DedupNext]_dedupVars
    PROVE  DedupInv'
<1>1. CASE DedupNext
  BY <1>1, DedupCallKeeps, SuppressKeeps, KeepKeeps DEF DedupNext
<1>2. CASE UNCHANGED dedupVars
  BY <1>2 DEF dedupVars, DedupInv, DedupTypeOK, KeptTimes, KeptApart,
              SuppressedNearBetter, Close, Near
<1> QED BY <1>1, <1>2

LEMMA DedupInvariant == DedupSpec => []DedupInv
BY DedupAssumption, DedupStarts, DedupSteps, PTL DEF DedupSpec

\* However the ranking jumps in time, no two results of an answer show the same
\* moment of a video: for any results, window and lists.
THEOREM DedupKeepsApart == DedupSpec => []KeptApart
<1>1. DedupInv => KeptApart
  BY DEF DedupInv
<1> QED BY <1>1, DedupInvariant, PTL

\* What is dropped is near a better result of the same video that stays.
THEOREM DedupDropsNearBetter == DedupSpec => []SuppressedNearBetter
<1>1. DedupInv => SuppressedNearBetter
  BY DEF DedupInv
<1> QED BY <1>1, DedupInvariant, PTL

-----------------------------------------------------------------------------
(* The history                                                             *)

HistoryTypeOK ==
    /\ history \in Seq([number : Nat, query_type : QueryTypes])
    /\ pushed \in Nat
    /\ trimming \subseteq Searches /\ IsFiniteSet(trimming)
    /\ untrimmed \in Nat

HistoryInv == HistoryTypeOK /\ MostRecentKept

LEMMA HistoryStarts == ASSUME HistoryAssumption, HistoryInit PROVE HistoryInv
BY FS_EmptySet DEF HistoryInit, HistoryInv, HistoryTypeOK, MostRecentKept, HistoryAssumption

\* The list grows by one entry and by one search that has still to trim it.
LEMMA PushKeeps ==
    ASSUME HistoryAssumption, HistoryInv, NEW s \in Searches, NEW type \in QueryTypes,
           PushEntry(s, type)
    PROVE  HistoryInv'
<1> DEFINE e == [number |-> pushed + 1, query_type |-> type]
<1>1. /\ history' = <<e>> \o history
      /\ pushed' = pushed + 1
      /\ trimming' = trimming \cup {s}
      /\ untrimmed' = untrimmed
      /\ s \notin trimming
  BY DEF PushEntry
<1>2. /\ history \in Seq([number : Nat, query_type : QueryTypes])
      /\ pushed \in Nat
      /\ untrimmed \in Nat
      /\ trimming \subseteq Searches
      /\ IsFiniteSet(trimming)
      /\ HistoryLimit \in Nat
  BY DEF HistoryInv, HistoryTypeOK, HistoryAssumption
<1>3. e \in [number : Nat, query_type : QueryTypes]
  BY <1>2
<1>4. /\ history' \in Seq([number : Nat, query_type : QueryTypes])
      /\ Len(history') = Len(history) + 1
      /\ history'[1] = e
      /\ \A i \in 2..Len(history') : history'[i] = history[i - 1]
  <2> HIDE DEF e
  <2> QED BY <1>1, <1>2, <1>3
<1>5. /\ IsFiniteSet(trimming')
      /\ Cardinality(trimming') = Cardinality(trimming) + 1
      /\ Cardinality(trimming) \in Nat
  BY <1>1, <1>2, FS_AddElement, FS_CardinalityType
<1>6. ASSUME NEW i \in DOMAIN history'
      PROVE  history'[i].number = pushed' - i + 1
  <2>1. CASE i = 1
    BY <2>1, <1>1, <1>2, <1>4
  <2>2. CASE i \in 2..Len(history')
    <3>1. i - 1 \in DOMAIN history
      BY <2>2, <1>2, <1>4
    <3>2. history[i - 1].number = pushed - (i - 1) + 1
      BY <3>1 DEF HistoryInv, MostRecentKept
    <3> QED BY <2>2, <3>2, <1>1, <1>2, <1>4
  <2>3. i = 1 \/ i \in 2..Len(history')
    BY <1>4
  <2> QED BY <2>1, <2>2, <2>3
<1>7. MostRecentKept'
  BY <1>1, <1>2, <1>4, <1>5, <1>6 DEF HistoryInv, MostRecentKept
<1> QED BY <1>1, <1>2, <1>4, <1>5, <1>7 DEF HistoryInv, HistoryTypeOK

\* The head of a list is as long as asked for, or the whole list.
LEMMA PrefixIsHead ==
    ASSUME NEW S, NEW list \in Seq(S), NEW n \in Nat
    PROVE  /\ Prefix(list, n) \in Seq(S)
           /\ Len(Prefix(list, n)) = IF n < Len(list) THEN n ELSE Len(list)
           /\ \A i \in DOMAIN Prefix(list, n) :
                 i \in DOMAIN list /\ Prefix(list, n)[i] = list[i]
<1> DEFINE m == IF n < Len(list) THEN n ELSE Len(list)
<1>1. m \in 0..Len(list) /\ Len(list) \in Nat
  OBVIOUS
<1>2. Prefix(list, n) = SubSeq(list, 1, m)
  BY DEF Prefix
<1> HIDE DEF m
<1>3. /\ SubSeq(list, 1, m) \in Seq(S)
      /\ Len(SubSeq(list, 1, m)) = m
      /\ \A i \in 1..m : SubSeq(list, 1, m)[i] = list[i]
  BY <1>1
<1> QED BY <1>1, <1>2, <1>3 DEF m

\* Trimming keeps the head of the list, which the newest entries are.
LEMMA TrimKeeps ==
    ASSUME HistoryAssumption, HistoryInv, NEW s \in Searches, TrimHistory(s)
    PROVE  HistoryInv'
<1>1. /\ history' = Prefix(history, HistoryLimit)
      /\ pushed' = pushed
      /\ trimming' = trimming \ {s}
      /\ untrimmed' = 0
  BY DEF TrimHistory
<1>2. /\ history \in Seq([number : Nat, query_type : QueryTypes])
      /\ pushed \in Nat
      /\ trimming \subseteq Searches
      /\ IsFiniteSet(trimming)
      /\ HistoryLimit \in Nat
  BY DEF HistoryInv, HistoryTypeOK, HistoryAssumption
<1>3. /\ history' \in Seq([number : Nat, query_type : QueryTypes])
      /\ Len(history') = IF HistoryLimit < Len(history) THEN HistoryLimit
                         ELSE Len(history)
      /\ \A i \in DOMAIN history' : i \in DOMAIN history /\ history'[i] = history[i]
  <2> DEFINE T == [number : Nat, query_type : QueryTypes]
  <2>1. history \in Seq(T) /\ HistoryLimit \in Nat
    BY <1>2
  <2> HIDE DEF T
  <2>2. /\ Prefix(history, HistoryLimit) \in Seq(T)
        /\ Len(Prefix(history, HistoryLimit)) =
              IF HistoryLimit < Len(history) THEN HistoryLimit ELSE Len(history)
        /\ \A i \in DOMAIN Prefix(history, HistoryLimit) :
              i \in DOMAIN history /\ Prefix(history, HistoryLimit)[i] = history[i]
    BY <2>1, PrefixIsHead
  <2> QED BY <1>1, <2>2 DEF T
<1>4. IsFiniteSet(trimming') /\ Cardinality(trimming') \in Nat
  BY <1>1, <1>2, FS_RemoveElement, FS_Subset, FS_CardinalityType
<1>5. MostRecentKept'
  BY <1>1, <1>2, <1>3, <1>4 DEF HistoryInv, MostRecentKept
<1> QED BY <1>1, <1>2, <1>3, <1>4, <1>5 DEF HistoryInv, HistoryTypeOK

\* A trimming that never comes is counted.
LEMMA TrimLostKeeps ==
    ASSUME HistoryAssumption, HistoryInv, NEW s \in Searches, TrimLost(s)
    PROVE  HistoryInv'
<1>1. /\ trimming' = trimming \ {s}
      /\ s \in trimming
      /\ untrimmed' = untrimmed + 1
      /\ UNCHANGED <<history, pushed>>
  BY DEF TrimLost
<1>2. /\ IsFiniteSet(trimming')
      /\ Cardinality(trimming') = Cardinality(trimming) - 1
      /\ Cardinality(trimming) \in Nat
  BY <1>1, FS_RemoveElement, FS_CardinalityType DEF HistoryInv, HistoryTypeOK
<1> QED BY <1>1, <1>2 DEF HistoryInv, HistoryTypeOK, MostRecentKept, HistoryAssumption

LEMMA HistorySteps ==
    ASSUME HistoryAssumption, HistoryInv, [HistoryNext]_historyAll
    PROVE  HistoryInv'
<1>1. CASE \E s \in Searches, type \in QueryTypes : PushEntry(s, type)
  BY <1>1, PushKeeps
<1>2. CASE \E s \in Searches : TrimHistory(s) \/ TrimLost(s)
  BY <1>2, TrimKeeps, TrimLostKeeps
<1>3. CASE UNCHANGED listVars
  BY <1>3 DEF listVars, HistoryInv, HistoryTypeOK, MostRecentKept
<1>4. UNCHANGED historyAll => UNCHANGED listVars
  BY DEF historyAll
<1>5. (\E type \in QueryTypes : BeginReading(type)) \/ ReadPage \/ ReadLost
         => UNCHANGED listVars
  BY DEF BeginReading, ReadPage, ReadLost
<1> QED
  BY <1>1, <1>2, <1>3, <1>4, <1>5 DEF HistoryNext

LEMMA HistoryInvariant == HistorySpec => []HistoryInv
BY HistoryAssumption, HistoryStarts, HistorySteps, PTL DEF HistorySpec

\* The history is the most recent searches without a gap, however pushes and
\* trimmings of any number of searches interleave and fail.
THEOREM HistoryMostRecent == HistorySpec => []MostRecentKept
<1>1. HistoryInv => MostRecentKept
  BY DEF HistoryInv
<1> QED BY <1>1, HistoryInvariant, PTL

\* While somebody reads: what was promised is in the list, and what of it the
\* cursor has passed was given.  Searches only push it behind the cursor again.
ReaderInv ==
    /\ cursor \in Nat \cup {NoPage}
    /\ cursor # NoPage =>
          /\ promised \subseteq Entries(history)
          /\ \A i \in DOMAIN history :
                i <= cursor /\ history[i] \in promised /\ history[i].query_type = wanted
                    => history[i] \in given
    /\ ReaderMissesNothing

\* A page has the entries behind the cursor; one that is not full is the last.
LEMMA PageFacts ==
    ASSUME HistoryAssumption, HistoryTypeOK, NEW n \in Nat
    PROVE  /\ \A i \in DOMAIN history :
                  n < i /\ i <= n + HistoryPage => history[i] \in Entries(PageAt(n))
           /\ Len(PageAt(n)) # HistoryPage => Len(history) < n + HistoryPage
<1> DEFINE m == IF n + HistoryPage < Len(history) THEN n + HistoryPage ELSE Len(history)
           T == [number : Nat, query_type : QueryTypes]
           page == SubSeq(history, n + 1, m)
<1>1. /\ history \in Seq(T)
      /\ HistoryPage \in Nat \ {0}
      /\ Len(history) \in Nat
      /\ DOMAIN history = 1 .. Len(history)
  BY LenProperties DEF HistoryTypeOK, HistoryAssumption
<1>2. m \in Nat /\ m <= Len(history)
  BY <1>1
<1>3. PageAt(n) = page
  BY DEF PageAt
<1> HIDE DEF T, m
<1>4. /\ Len(page) = IF n + 1 <= m THEN m - n ELSE 0
      /\ \A i \in 1..(m - n) : page[i] = history[n + i]
      /\ DOMAIN page = 1..Len(page)
  BY <1>1, <1>2
<1> HIDE DEF page
<1>5. ASSUME NEW i \in DOMAIN history, n < i, i <= n + HistoryPage
      PROVE  history[i] \in Entries(page)
  <2>1. i <= m /\ i \in Nat
    BY <1>1, <1>5 DEF m
  <2>2. i - n \in 1..(m - n) /\ n + (i - n) = i /\ n + 1 <= m
    BY <1>2, <1>5, <2>1
  <2> QED BY <1>4, <2>2 DEF Entries
<1>6. Len(page) # HistoryPage => Len(history) < n + HistoryPage
  <2>1. SUFFICES ASSUME n + HistoryPage <= Len(history)
                 PROVE  Len(page) = HistoryPage
    BY <1>1
  <2>2. m = n + HistoryPage
    BY <1>1, <2>1 DEF m
  <2>3. n + 1 <= m /\ m - n = HistoryPage
    BY <1>1, <2>2
  <2> QED BY <1>4, <2>3
<1> QED BY <1>3, <1>5, <1>6

LEMMA ReaderSteps ==
    ASSUME HistoryAssumption, HistoryInv, ReaderInv, [HistoryNext]_historyAll
    PROVE  ReaderInv'
<1>1. /\ history \in Seq([number : Nat, query_type : QueryTypes])
      /\ pushed \in Nat
      /\ \A i \in DOMAIN history : history[i].number = pushed - i + 1
      /\ DOMAIN history = 1..Len(history)
      /\ Len(history) \in Nat
  BY LenProperties DEF HistoryInv, HistoryTypeOK, MostRecentKept
<1>2. ASSUME NEW s \in Searches, NEW type \in QueryTypes, PushEntry(s, type)
      PROVE  ReaderInv'
  <2> DEFINE e == [number |-> pushed + 1, query_type |-> type]
             T == [number : Nat, query_type : QueryTypes]
  <2>1. /\ history' = <<e>> \o history
        /\ UNCHANGED readerVars
    BY <1>2 DEF PushEntry
  <2>2. e \in T /\ e.number = pushed + 1
    BY <1>1
  <2>3. history \in Seq(T)
    BY <1>1
  <2> HIDE DEF e, T
  <2>4. /\ DOMAIN history' = 1..(Len(history) + 1)
        /\ history'[1] = e
        /\ \A i \in 2..(Len(history) + 1) : history'[i] = history[i - 1]
    BY <1>1, <2>1, <2>2, <2>3
  <2>5. Entries(history) \subseteq Entries(history')
    <3>1. ASSUME NEW i \in DOMAIN history
          PROVE  history[i] \in Entries(history')
      <4>1. i + 1 \in DOMAIN history' /\ history'[i + 1] = history[i]
        BY <1>1, <2>4
      <4> QED BY <4>1 DEF Entries
    <3> QED BY <3>1 DEF Entries
  <2>6. e \notin Entries(history)
    BY <1>1, <2>2 DEF Entries
  <2>7. ASSUME NEW i \in DOMAIN history', cursor # NoPage, i <= cursor,
               history'[i] \in promised, history'[i].query_type = wanted
        PROVE  history'[i] \in given
    <3>1. i # 1
      BY <2>4, <2>6, <2>7 DEF ReaderInv
    <3>2. i - 1 \in DOMAIN history /\ history'[i] = history[i - 1] /\ i - 1 <= cursor
      BY <1>1, <2>4, <2>7, <3>1 DEF ReaderInv, NoPage
    <3> QED BY <2>7, <3>2 DEF ReaderInv
  <2> QED
    BY <2>1, <2>5, <2>7 DEF ReaderInv, ReaderMissesNothing, readerVars
<1>3. ASSUME NEW s \in Searches, TrimHistory(s)
      PROVE  ReaderInv'
  <2>1. /\ history' = Prefix(history, HistoryLimit)
        /\ promised' = promised \cap Entries(history')
        /\ UNCHANGED <<cursor, wanted, given>>
    BY <1>3 DEF TrimHistory
  <2>2. \A i \in DOMAIN history' : i \in DOMAIN history /\ history'[i] = history[i]
    <3>1. HistoryLimit \in Nat
      BY DEF HistoryAssumption
    <3> DEFINE T == [number : Nat, query_type : QueryTypes]
    <3>2. history \in Seq(T)
      BY <1>1
    <3> HIDE DEF T
    <3>3. \A i \in DOMAIN Prefix(history, HistoryLimit) :
              i \in DOMAIN history /\ Prefix(history, HistoryLimit)[i] = history[i]
      BY <3>1, <3>2, PrefixIsHead
    <3> QED BY <2>1, <3>3
  <2> QED BY <2>1, <2>2 DEF ReaderInv, ReaderMissesNothing
<1>4. ASSUME NEW s \in Searches, TrimLost(s)
      PROVE  ReaderInv'
  BY <1>4 DEF TrimLost, readerVars, ReaderInv, ReaderMissesNothing
<1>5. ASSUME NEW type \in QueryTypes, BeginReading(type)
      PROVE  ReaderInv'
  <2>1. /\ cursor' = 0 /\ promised' = Entries(history) /\ history' = history
    BY <1>5 DEF BeginReading, listVars
  <2> QED BY <1>1, <2>1 DEF ReaderInv, ReaderMissesNothing, NoPage
<1>6. ASSUME ReadPage
      PROVE  ReaderInv'
  <2>1. /\ cursor # NoPage
        /\ given' = given \cup OfType(PageAt(cursor))
        /\ cursor' = IF Len(PageAt(cursor)) = HistoryPage
                     THEN cursor + HistoryPage ELSE NoPage
        /\ UNCHANGED <<history, wanted, promised>>
    BY <1>6 DEF ReadPage, listVars
  <2>2. cursor \in Nat /\ HistoryPage \in Nat \ {0}
    BY <2>1 DEF ReaderInv, HistoryAssumption
  <2>3. ASSUME NEW i \in DOMAIN history, i <= cursor + HistoryPage,
               history[i] \in promised, history[i].query_type = wanted
        PROVE  history[i] \in given'
    <3>1. CASE i <= cursor
      BY <2>1, <2>3, <3>1 DEF ReaderInv
    <3>2. CASE cursor < i
      <4>1. history[i] \in Entries(PageAt(cursor))
        BY <2>2, <2>3, <3>2, PageFacts DEF HistoryInv
      <4> QED BY <2>1, <2>3, <4>1 DEF OfType
    <3> QED BY <1>1, <2>2, <3>1, <3>2
  <2>4. CASE Len(PageAt(cursor)) = HistoryPage
    BY <2>1, <2>2, <2>3, <2>4 DEF ReaderInv, ReaderMissesNothing, NoPage
  <2>5. CASE Len(PageAt(cursor)) # HistoryPage
    <3>1. Len(history) < cursor + HistoryPage
      BY <2>2, <2>5, PageFacts DEF HistoryInv
    <3>2. \A i \in DOMAIN history : i <= cursor + HistoryPage
      BY <1>1, <2>2, <3>1
    <3>3. \A e \in promised : e.query_type = wanted => e \in given'
      BY <2>1, <2>3, <3>2 DEF ReaderInv, Entries
    <3> QED BY <2>1, <2>5, <3>3 DEF ReaderInv, ReaderMissesNothing
  <2> QED BY <2>4, <2>5
<1>7. ASSUME ReadLost
      PROVE  ReaderInv'
  BY <1>7 DEF ReadLost, ReaderInv, ReaderMissesNothing
<1>8. CASE UNCHANGED historyAll
  BY <1>8 DEF historyAll, listVars, readerVars, ReaderInv, ReaderMissesNothing
<1> QED
  BY <1>2, <1>3, <1>4, <1>5, <1>6, <1>7, <1>8 DEF HistoryNext

\* A reader who follows next_cursor to its end was given every entry of its
\* type that stayed in the list, however many searches pushed and trimmed it
\* meanwhile.
THEOREM HistoryReaderMissesNothing == HistorySpec => []ReaderMissesNothing
<1>1. HistoryInit => ReaderInv
  BY DEF HistoryInit, ReaderInv, ReaderMissesNothing, NoPage
<1>2. HistoryInv /\ ReaderInv /\ [HistoryNext]_historyAll => ReaderInv'
  BY HistoryAssumption, ReaderSteps
<1>3. ReaderInv => ReaderMissesNothing
  BY DEF ReaderInv
<1> QED BY <1>1, <1>2, <1>3, HistoryInvariant, PTL DEF HistorySpec

-----------------------------------------------------------------------------
(* The guard of the models                                                 *)

GuardTypeOK ==
    /\ at \in [Callers -> {"outside", "waiting", "inside"}]
    /\ waiters \in Seq(Callers)
    /\ job \in [Callers -> {"none", "queued", "computing", "done"}]

\* One coroutine at most is inside, those with a job are, and the waiters wait,
\* each once.
Exclusive ==
    /\ \A c, d \in Callers : at[c] = "inside" /\ at[d] = "inside" => c = d
    /\ \A c \in Callers : job[c] # "none" => at[c] = "inside"
    /\ \A i \in 1..Len(waiters) : at[waiters[i]] = "waiting"
    /\ \A i, j \in 1..Len(waiters) : waiters[i] = waiters[j] => i = j

GuardInv == GuardTypeOK /\ Exclusive

LEMMA GuardStarts == ASSUME GuardInit PROVE GuardInv
BY DEF GuardInit, GuardInv, GuardTypeOK, Exclusive

LEMMA CallKeeps ==
    ASSUME GuardInv, NEW c \in Callers, CallModel(c)
    PROVE  GuardInv'
<1>1. CASE Holders = {} /\ Enter(c) /\ UNCHANGED waiters
  BY <1>1 DEF CallModel, Enter, Holders, GuardInv, GuardTypeOK, Exclusive
<1>2. CASE /\ at' = [at EXCEPT ![c] = "waiting"]
           /\ waiters' = Append(waiters, c)
           /\ UNCHANGED job
  <2>1. at[c] = "outside"
    BY DEF CallModel
  <2>2. GuardTypeOK'
    BY <1>2 DEF GuardInv, GuardTypeOK
  <2>3. /\ Len(waiters') = Len(waiters) + 1
        /\ waiters'[Len(waiters) + 1] = c
        /\ \A i \in 1..Len(waiters) : /\ waiters'[i] = waiters[i]
                                       /\ waiters[i] \in Callers
                                       /\ waiters[i] # c
        /\ Len(waiters) \in Nat
    BY <1>2, <2>1 DEF GuardInv, GuardTypeOK, Exclusive
  <2>4. Exclusive'
    BY <1>2, <2>1, <2>3 DEF GuardInv, GuardTypeOK, Exclusive
  <2> QED BY <2>2, <2>4 DEF GuardInv
<1> QED BY <1>1, <1>2 DEF CallModel

\* The semaphore passes from the one who leaves to the first who waits.
LEMMA LeaveKeeps ==
    ASSUME GuardInv, NEW c \in Callers, at[c] = "inside", Leave(c)
    PROVE  GuardInv'
<1>1. CASE waiters = << >>
  BY <1>1 DEF Leave, GuardInv, GuardTypeOK, Exclusive
<1>2. CASE waiters # << >>
  <2> DEFINE d == Head(waiters)
  <2>1. /\ at' = [at EXCEPT ![c] = "outside", ![d] = "inside"]
        /\ job' = [job EXCEPT ![c] = "none", ![d] = "queued"]
        /\ waiters' = Tail(waiters)
    BY <1>2 DEF Leave
  <2>2. /\ Len(waiters) \in Nat
        /\ Len(waiters) # 0
        /\ d = waiters[1]
        /\ d \in Callers
        /\ at[d] = "waiting"
        /\ \A i \in 1..Len(waiters) : waiters[i] \in Callers
    BY <1>2 DEF GuardInv, GuardTypeOK, Exclusive
  <2>3. /\ waiters' \in Seq(Callers)
        /\ Len(waiters') = Len(waiters) - 1
        /\ \A i \in 1..Len(waiters') :
              waiters'[i] = waiters[i + 1] /\ i + 1 \in 1..Len(waiters)
    BY <1>2, <2>1, <2>2 DEF GuardInv, GuardTypeOK
  <2> HIDE DEF d
  <2>4. GuardTypeOK'
    BY <2>1, <2>3 DEF GuardInv, GuardTypeOK
  <2>5. \A i \in 1..Len(waiters') : waiters'[i] # d /\ waiters'[i] # c
    BY <2>2, <2>3 DEF GuardInv, Exclusive
  <2>6. Exclusive'
    <3>1. \A e \in Callers :
             /\ at'[e] = "inside" => e = d
             /\ job'[e] # "none" => at'[e] = "inside"
      BY <2>1, <2>2 DEF GuardInv, GuardTypeOK, Exclusive
    <3>2. \A i \in 1..Len(waiters') : at'[waiters'[i]] = "waiting"
      BY <2>1, <2>2, <2>3, <2>5 DEF GuardInv, GuardTypeOK, Exclusive
    <3>3. \A i, j \in 1..Len(waiters') : waiters'[i] = waiters'[j] => i = j
      <4>1. SUFFICES ASSUME NEW i \in 1..Len(waiters'), NEW j \in 1..Len(waiters'),
                            waiters'[i] = waiters'[j]
                     PROVE  i = j
        OBVIOUS
      <4>2. i + 1 = j + 1
        BY <2>3, <4>1 DEF GuardInv, Exclusive
      <4> QED BY <4>2
    <3> QED BY <3>1, <3>2, <3>3 DEF Exclusive
  <2> QED BY <2>4, <2>6 DEF GuardInv
<1> QED BY <1>1, <1>2

LEMMA GuardSteps == ASSUME GuardInv, [GuardNext]_guardVars PROVE GuardInv'
<1>1. ASSUME NEW c \in Callers, CallModel(c) PROVE GuardInv'
  BY <1>1, CallKeeps
<1>2. ASSUME NEW c \in Callers, StartJob(c) \/ EndJob(c) PROVE GuardInv'
  BY <1>2 DEF StartJob, EndJob, GuardInv, GuardTypeOK, Exclusive
<1>3. ASSUME NEW c \in Callers, GetResult(c) \/ TimeOut(c) PROVE GuardInv'
  BY <1>3, LeaveKeeps DEF GetResult, TimeOut
<1>4. CASE EndAbandoned \/ UNCHANGED guardVars
  BY <1>4 DEF EndAbandoned, guardVars, GuardInv, GuardTypeOK, Exclusive
<1> QED BY <1>1, <1>2, <1>3, <1>4 DEF GuardNext

LEMMA GuardInvariant == GuardSpec => []GuardInv
BY GuardStarts, GuardSteps, PTL DEF GuardSpec

\* However calls, timeouts and threads interleave, two calls that somebody waits
\* for never compute at once: for any number of coroutines and threads.
THEOREM GuardSerialises == GuardSpec => []OneCallComputes
<1>1. GuardInv => OneCallComputes
  BY DEF GuardInv, Exclusive, OneCallComputes, Computing
<1> QED BY <1>1, GuardInvariant, PTL

-----------------------------------------------------------------------------
(* The least of some numbers, and numbering them from the least            *)

\* A set of numbers has a least member: a property of the natural numbers that
\* has a counterexample has a first one, which is how what follows argues where
\* it would use induction.
LEMMA Smallest ==
    ASSUME NEW S, S \subseteq Nat, S # {}
    PROVE  \E m \in S : \A k \in S : m <= k
<1>1. PICK m \in S : \A k \in S : ~ <<k, m>> \in OpToRel(<, Nat)
  BY NatLessThanWellFounded, WFMin
<1>2. ASSUME NEW k \in S
      PROVE  m <= k
  <2>1. k \in Nat /\ m \in Nat
    OBVIOUS
  <2>2. <<k, m>> \in Nat \X Nat /\ <<k, m>>[1] = k /\ <<k, m>>[2] = m
    BY <2>1
  <2>3. ~ (k < m)
    BY <1>1, <2>2 DEF OpToRel
  <2> QED BY <2>1, <2>3
<1> QED BY <1>2

\* FirstOf, which takes the next frame and the next boundary, finds it.
LEMMA FirstFacts ==
    ASSUME NEW S, S \subseteq Nat, S # {}
    PROVE  FirstOf(S) \in S /\ \A k \in S : FirstOf(S) <= k
BY Smallest DEF FirstOf

\* The number of a boundary, as Paired counts.
Rank(S, u) == Cardinality({v \in S : v <= u})

\* A later boundary has a greater number.
LEMMA RankOrder ==
    ASSUME NEW S, S \subseteq Nat, IsFiniteSet(S), NEW u \in S, NEW w \in S, u < w
    PROVE  Rank(S, u) < Rank(S, w)
<1> DEFINE U == {v \in S : v <= u}
           W == {v \in S : v <= w}
<1>1. /\ IsFiniteSet(U) /\ IsFiniteSet(W)
      /\ U \subseteq W /\ w \in W /\ w \notin U
  <2>1. \A v \in S : v \in Nat
    OBVIOUS
  <2>2. U \in SUBSET S /\ W \in SUBSET S
    OBVIOUS
  <2>3. (\A v \in S : v <= u => v <= w) /\ w <= w /\ ~ (w <= u)
    BY <2>1
  <2>4. U \subseteq W /\ w \in W /\ w \notin U
    BY <2>3
  <2> HIDE DEF U, W
  <2> QED BY <2>2, <2>4, FS_Subset
<1>2. /\ Cardinality(U) <= Cardinality(W)
      /\ Cardinality(U) # Cardinality(W)
      /\ Cardinality(U) \in Nat /\ Cardinality(W) \in Nat
  <2> HIDE DEF U, W
  <2> QED BY <1>1, FS_Subset, FS_CardinalityType
<1> QED BY <1>2 DEF Rank

\* Counted from the smallest, every member has its number and every number
\* its member.
LEMMA RankOnto ==
    ASSUME NEW S, S \subseteq Nat, IsFiniteSet(S)
    PROVE  /\ \A u \in S : Rank(S, u) \in 1..Cardinality(S)
           /\ \A i \in 1..Cardinality(S) : \E u \in S : Rank(S, u) = i
<1> DEFINE n == Cardinality(S)
           B(u) == {v \in S : v <= u}
<1>1. /\ n \in Nat
      /\ \A u \in S : /\ IsFiniteSet(B(u)) /\ Cardinality(B(u)) \in Nat
                      /\ Cardinality(B(u)) <= n
  BY FS_Subset, FS_CardinalityType
<1>2. ASSUME NEW u \in S
      PROVE  Rank(S, u) \in 1..n
  <2>1. u \in B(u)
    OBVIOUS
  <2>2. Cardinality(B(u)) # 0
    BY <1>1, <2>1, FS_EmptySet
  <2> QED BY <1>1, <2>2 DEF Rank
<1> DEFINE Missing == {i \in 1..n : ~ \E u \in S : Rank(S, u) = i}
<1>3. ASSUME Missing # {}
      PROVE  FALSE
  <2>1. Missing \subseteq Nat
    BY <1>1
  <2>2. PICK i \in Missing : \A k \in Missing : i <= k
    BY <1>3, <2>1, Smallest
  <2>3. i \in 1..n /\ ~ \E u \in S : Rank(S, u) = i
    BY <2>2
  <2>4. CASE i = 1
    <3>1. S # {}
      BY <1>1, <2>3, FS_EmptySet
    <3>2. PICK u \in S : \A k \in S : u <= k
      BY <3>1, Smallest
    <3>3. B(u) = {u}
      <4>1. \A v \in S : v \in Nat
        OBVIOUS
      <4>2. \A v \in S : v <= u <=> v = u
        BY <3>2, <4>1
      <4> QED BY <4>2
    <3> QED BY <2>3, <2>4, <3>3, FS_Singleton DEF Rank
  <2>5. CASE i # 1
    <3>1. i - 1 \in 1..n /\ i - 1 \notin Missing
      BY <1>1, <2>2, <2>3, <2>5
    <3>2. PICK u \in S : Rank(S, u) = i - 1
      BY <3>1
    <3>3. PICK later \in S : later > u
      <4>1. Cardinality(B(u)) = i - 1
        BY <3>2 DEF Rank
      <4>2. B(u) # S
        BY <1>1, <2>3, <4>1
      <4>3. PICK v \in S : ~ (v <= u)
        BY <4>2
      <4>4. v \in Nat /\ u \in Nat
        OBVIOUS
      <4> QED BY <4>3, <4>4
    <3>4. PICK w \in {v \in S : v > u} : \A k \in {v \in S : v > u} : w <= k
      BY <3>3, Smallest
    <3>5. B(w) = B(u) \cup {w} /\ w \notin B(u)
      <4>1. \A v \in S : v \in Nat
        OBVIOUS
      <4>2. \A v \in S : v <= w <=> v <= u \/ v = w
        BY <3>4, <4>1
      <4>3. ~ (w <= u)
        BY <3>4, <4>1
      <4> QED BY <3>4, <4>2, <4>3
    <3>6. Cardinality(B(w)) = Cardinality(B(u)) + 1
      <4> HIDE DEF B
      <4> QED BY <1>1, <3>5, FS_AddElement
    <3>7. Rank(S, w) = Rank(S, u) + 1
      BY <3>6 DEF Rank
    <3>8. Rank(S, w) = i
      BY <2>3, <3>2, <3>7
    <3> QED BY <2>3, <3>4, <3>8
  <2> QED BY <2>4, <2>5
<1> QED BY <1>2, <1>3

-----------------------------------------------------------------------------
(* Scenes                                                                  *)

Spans == [id : Nat, start : Nat, end : Nat]

\* The scenes follow each other from 0 to n, are numbered from 0, and none of
\* them is empty, unless n is 0.
Consecutive(list, n) ==
    /\ list \in Seq(Spans)
    /\ Len(list) \in Nat \ {0}
    /\ \A i \in 1..Len(list) :
          /\ list[i].id = i - 1
          /\ list[i].start <= list[i].end
          /\ n # 0 => list[i].start < list[i].end
          /\ list[i].end <= n
    /\ list[1].start = 0
    /\ list[Len(list)].end = n
    /\ \A i \in 1..(Len(list) - 1) : list[i].end = list[i + 1].start

\* Of two numbers that follow each other the members do.
LEMMA RankNext ==
    ASSUME NEW S, S \subseteq Nat, IsFiniteSet(S), NEW u \in S, NEW w \in S,
           Rank(S, w) = Rank(S, u) + 1
    PROVE  u < w /\ \A v \in S : u < v => w <= v
<1>1. /\ \A v \in S : v \in Nat
      /\ \A v \in S : Rank(S, v) \in Nat
  <2>1. \A v \in S : Rank(S, v) \in 1..Cardinality(S)
    BY RankOnto
  <2>2. Cardinality(S) \in Nat
    BY FS_CardinalityType
  <2>3. \A v \in S : Rank(S, v) \in Nat
    BY <2>1, <2>2
  <2> QED BY <2>3
<1>2. ASSUME NEW v \in S, NEW x \in S, v < x
      PROVE  Rank(S, v) < Rank(S, x)
  BY <1>2, RankOrder
<1>3. u < w
  <2>1. u # w
    BY <1>1
  <2>2. ~ (w < u)
    BY <1>1, <1>2
  <2> QED BY <1>1, <2>1, <2>2
<1>4. ASSUME NEW v \in S, u < v, v < w
      PROVE  FALSE
  <2>1. Rank(S, u) < Rank(S, v) /\ Rank(S, v) < Rank(S, w)
    BY <1>2, <1>4
  <2>2. Rank(S, u) \in Nat /\ Rank(S, v) \in Nat
    BY <1>1
  <2> QED BY <2>1, <2>2
<1> QED BY <1>1, <1>3, <1>4

\* The end that a boundary is paired with.
LEMMA EndFacts ==
    ASSUME NEW n \in Nat, NEW B, B \subseteq 0..(n - 1), NEW t \in B, NEW f,
           f = FirstOf(LaterThan(B \cup {n}, t))
    PROVE  /\ f \in B \cup {n} /\ f \in Nat
           /\ t < f /\ f <= n
           /\ \A u \in B : t < u => f <= u
<1>1. \A u \in B : u \in Nat /\ u < n
  OBVIOUS
<1> DEFINE L == LaterThan(B \cup {n}, t)
<1>2. \A u : u \in L <=> (u \in B \/ u = n) /\ u > t
  BY DEF LaterThan
<1> HIDE DEF L
<1>3. L \subseteq Nat /\ n \in L
  BY <1>1, <1>2
<1>4. f \in L /\ \A u \in L : f <= u
  BY <1>3, FirstFacts DEF L
<1>5. t \in Nat /\ f \in Nat
  BY <1>1, <1>3, <1>4
<1> QED BY <1>1, <1>2, <1>4, <1>5

\* sorted(set(boundaries)), paired: whatever the boundaries, if 0 is one of
\* them and all lie before the end.
LEMMA PairedFacts ==
    ASSUME NEW n \in Nat \ {0}, NEW B, B \subseteq 0..(n - 1), 0 \in B
    PROVE  Consecutive(Paired(B \cup {n}), n)
<1> DEFINE S == B \cup {n}
           starts == {t \in S : LaterThan(S, t) # {}}
           c == Cardinality(B)
           from == [i \in 1..c |-> CHOOSE u \in B : Rank(B, u) = i]
           to == [i \in 1..c |-> FirstOf(LaterThan(S, from[i]))]
           P == Paired(S)
<1>1. /\ \A t \in B : t \in Nat /\ t < n
      /\ \A t \in S : t \in Nat /\ t <= n
      /\ B \subseteq Nat /\ S \subseteq Nat
  OBVIOUS
<1>2. starts = B
  <2>1. \A t \in B : n \in LaterThan(S, t)
    BY <1>1 DEF LaterThan
  <2>2. \A u \in S : ~ (u > n)
    BY <1>1
  <2>3. LaterThan(S, n) = {}
    BY <2>2 DEF LaterThan
  <2>4. n \notin B
    BY <1>1
  <2> QED BY <2>1, <2>3, <2>4
<1>3. IsFiniteSet(B) /\ c \in Nat /\ c # 0 /\ c <= n
  <2>1. IsFiniteSet(0..(n - 1)) /\ Cardinality(0..(n - 1)) = n
    BY FS_Interval
  <2>2. IsFiniteSet(B) /\ c <= n
    BY <2>1, FS_Subset
  <2> QED BY <2>2, FS_CardinalityType, FS_EmptySet
<1>4. \A i \in 1..c : from[i] \in B /\ Rank(B, from[i]) = i
  BY <1>1, <1>3, RankOnto
<1>5. P = [i \in 1..c |-> [id |-> i - 1, start |-> from[i], end |-> to[i]]]
  BY <1>2 DEF Paired, Rank
<1> HIDE DEF from
<1>6. ASSUME NEW i \in 1..c
      PROVE  /\ to[i] \in B \cup {n} /\ to[i] \in Nat
             /\ from[i] < to[i] /\ to[i] <= n
             /\ \A u \in B : from[i] < u => to[i] <= u
  <2>1. to[i] = FirstOf(LaterThan(B \cup {n}, from[i])) /\ from[i] \in B
    BY <1>4
  <2> HIDE DEF to, S, starts, c, P
  <2>2. n \in Nat
    OBVIOUS
  <2> QED BY <2>1, <2>2, EndFacts
<1> HIDE DEF S, starts, c, to, P
\* The boundary that follows the i-th.
<1>7. ASSUME NEW i \in 1..(c - 1)
      PROVE  to[i] = from[i + 1]
  <2>1. i \in 1..c /\ i + 1 \in 1..c /\ i \in Nat
    BY <1>3
  <2>2. /\ from[i] \in B /\ from[i + 1] \in B
        /\ from[i] \in Nat /\ from[i + 1] \in Nat /\ from[i + 1] < n
        /\ Rank(B, from[i + 1]) = Rank(B, from[i]) + 1
    BY <1>1, <1>4, <2>1
  <2>3. from[i] < from[i + 1] /\ \A v \in B : from[i] < v => from[i + 1] <= v
    BY <1>1, <1>3, <2>2, RankNext
  <2>4. to[i] \in Nat /\ from[i] < to[i] /\ to[i] <= from[i + 1]
    BY <1>6, <2>1, <2>2, <2>3
  <2>5. to[i] \in B
    BY <1>6, <2>1, <2>2, <2>4
  <2>6. from[i + 1] <= to[i]
    BY <2>3, <2>4, <2>5
  <2> QED BY <2>2, <2>4, <2>6
<1>8. from[1] = 0
  <2>1. 1 \in 1..c
    BY <1>3
  <2>2. from[1] \in B /\ Rank(B, from[1]) = 1 /\ from[1] \in Nat
    BY <1>1, <1>4, <2>1
  <2>3. CASE 0 < from[1]
    <3>1. Rank(B, 0) < 1
      BY <1>1, <1>3, <2>2, <2>3, RankOrder
    <3>2. Rank(B, 0) \in 1..c
      BY <1>1, <1>3, RankOnto DEF c
    <3> QED BY <3>1, <3>2
  <2> QED BY <2>2, <2>3
<1>9. to[c] = n
  <2>1. c \in 1..c
    BY <1>3
  <2>2. from[c] \in B /\ Rank(B, from[c]) = c /\ to[c] \in B \cup {n} /\ from[c] < to[c]
    BY <1>4, <1>6, <2>1
  <2>3. ASSUME to[c] \in B
        PROVE  FALSE
    <3>1. c < Rank(B, to[c])
      BY <1>1, <1>3, <2>2, <2>3, RankOrder
    <3>2. Rank(B, to[c]) \in 1..c
      BY <1>1, <1>3, <2>3, RankOnto DEF c
    <3> QED BY <1>3, <3>1, <3>2
  <2> QED BY <2>2, <2>3
<1>10. ASSUME NEW i \in 1..c
       PROVE  /\ P[i] = [id |-> i - 1, start |-> from[i], end |-> to[i]]
              /\ i - 1 \in Nat /\ from[i] \in Nat /\ to[i] \in Nat
              /\ from[i] < to[i] /\ to[i] <= n
  <2>1. P[i] = [id |-> i - 1, start |-> from[i], end |-> to[i]]
    BY <1>5
  <2>2. from[i] \in Nat
    BY <1>1, <1>4
  <2>3. i - 1 \in Nat
    BY <1>3
  <2> QED BY <2>1, <2>2, <2>3, <1>6
<1>11. \A i \in 1..c :
          /\ P[i] \in Spans
          /\ P[i].id = i - 1 /\ P[i].start = from[i] /\ P[i].end = to[i]
  <2> TAKE i \in 1..c
  <2>1. i - 1 \in Nat /\ from[i] \in Nat /\ to[i] \in Nat
    BY <1>10
  <2>2. P[i] = [id |-> i - 1, start |-> from[i], end |-> to[i]]
    BY <1>10
  <2> QED BY <2>1, <2>2 DEF Spans
<1>12. P \in Seq(Spans) /\ Len(P) = c
  <2>1. P \in [1..c -> Spans]
    BY <1>5, <1>11
  <2> QED BY <1>3, <2>1
<1>13. 1 \in 1..c /\ c \in 1..c
  BY <1>3
<1>14. \A i \in 1..(c - 1) : P[i].end = P[i + 1].start
  <2>1. \A i \in 1..(c - 1) : i \in 1..c /\ i + 1 \in 1..c
    BY <1>3
  <2> QED BY <1>7, <1>11, <2>1
<1>15. \A i \in 1..c :
          P[i].start < P[i].end /\ P[i].start <= P[i].end /\ P[i].end <= n
  <2> TAKE i \in 1..c
  <2>1. from[i] \in Nat /\ to[i] \in Nat /\ from[i] < to[i] /\ to[i] <= n
    BY <1>10
  <2>2. P[i].start = from[i] /\ P[i].end = to[i]
    BY <1>11
  <2> QED BY <2>1, <2>2
<1>16. P[1].start = 0 /\ P[c].end = n
  BY <1>8, <1>9, <1>11, <1>13
<1>17. Consecutive(P, n)
  BY <1>3, <1>11, <1>12, <1>14, <1>15, <1>16 DEF Consecutive
<1> QED BY <1>17 DEF P, S

\* Such a list and its members.
LEMMA ConsecutiveTypes ==
    ASSUME NEW list, NEW n, Consecutive(list, n)
    PROVE  /\ Len(list) \in Nat \ {0} /\ DOMAIN list = 1..Len(list)
           /\ \A i \in 1..Len(list) :
                 /\ list[i].id \in Nat /\ list[i].start \in Nat /\ list[i].end \in Nat
<1>1. list \in Seq(Spans) /\ Len(list) \in Nat \ {0}
  BY DEF Consecutive
<1>2. \A i \in 1..Len(list) : list[i] \in Spans
  BY <1>1
<1>3. \A s \in Spans : s.id \in Nat /\ s.start \in Nat /\ s.end \in Nat
  BY DEF Spans
<1>4. DOMAIN list = 1..Len(list)
  BY <1>1
<1> QED BY <1>1, <1>2, <1>3, <1>4

\* Scenes that leave out nothing have one for every moment.
LEMMA Located ==
    ASSUME NEW list, NEW n \in Nat, Consecutive(list, n), NEW t \in 0..(n - 1)
    PROVE  \E i \in 1..Len(list) : list[i].start <= t /\ t < list[i].end
<1> DEFINE m == Len(list)
           T == {i \in 1..m : t < list[i].end}
<1>1. /\ m \in Nat \ {0} /\ t \in Nat /\ t < n
      /\ \A i \in 1..m : list[i].start \in Nat /\ list[i].end \in Nat
      /\ list[1].start = 0 /\ list[m].end = n
      /\ \A i \in 1..(m - 1) : list[i].end = list[i + 1].start
  <2>1. m \in Nat \ {0} /\ t \in Nat /\ t < n
    BY ConsecutiveTypes
  <2>2. \A i \in 1..m : list[i].start \in Nat /\ list[i].end \in Nat
    BY ConsecutiveTypes
  <2>3. /\ list[1].start = 0 /\ list[m].end = n
        /\ \A i \in 1..(m - 1) : list[i].end = list[i + 1].start
    BY DEF Consecutive
  <2> QED BY <2>1, <2>2, <2>3
<1> HIDE DEF m
<1>2. m \in T /\ T \subseteq Nat
  BY <1>1
<1>3. PICK i \in T : \A k \in T : i <= k
  BY <1>2, Smallest
<1>4. i \in 1..m /\ t < list[i].end
  BY <1>3
<1>5. CASE i = 1
  BY <1>1, <1>4, <1>5 DEF m
<1>6. CASE i # 1
  <2>1. i - 1 \in 1..(m - 1) /\ i - 1 \in 1..m /\ (i - 1) + 1 = i /\ ~ (i <= i - 1)
    BY <1>1, <1>4, <1>6
  <2>2. ~ (t < list[i - 1].end)
    BY <1>3, <2>1
  <2>3. list[i - 1].end = list[i].start
    BY <1>1, <2>1
  <2>4. list[i].start <= t
    BY <1>1, <1>4, <2>1, <2>2, <2>3
  <2> QED BY <1>4, <2>4 DEF m
<1> QED BY <1>5, <1>6

\* The largest of some numbers below a bound.
LEMMA LastFacts ==
    ASSUME NEW n \in Nat, NEW S, S \subseteq 0..n, S # {}
    PROVE  \E m \in S : \A u \in S : u <= m
<1> DEFINE T == {n - u : u \in S}
<1>1. \A u \in S : u \in Nat /\ n - u \in Nat
  OBVIOUS
<1>2. T # {} /\ T \subseteq Nat
  BY <1>1
<1>3. PICK k \in T : \A x \in T : k <= x
  BY <1>2, Smallest
<1>4. PICK m \in S : k = n - m
  BY <1>3
<1>5. ASSUME NEW u \in S
      PROVE  u <= m
  <2>1. n - u \in T
    OBVIOUS
  <2>2. n - m <= n - u
    BY <1>3, <1>4, <2>1
  <2> QED BY <1>1, <2>2
<1> QED BY <1>5

\* Boundaries without a known end: nothing comes out of the start alone.
LEMMA PairedNone == Paired({0}) = << >>
<1> DEFINE starts == {t \in {0} : LaterThan({0}, t) # {}}
<1>1. starts = {}
  BY DEF LaterThan
<1>2. Cardinality(starts) = 0
  BY <1>1, FS_EmptySet
<1>3. 1..Cardinality(starts) = {}
  BY <1>2
<1>4. DOMAIN Paired({0}) = {}
  BY <1>3 DEF Paired
<1>5. Paired({0}) = [i \in {} |-> Paired({0})[i]]
  BY <1>3 DEF Paired
<1> QED BY <1>4, <1>5

LastEnd(list) == list[Len(list)].end

\* The scenes follow each other, to the end of the video if that is known.
Follow(list, n) ==
    /\ list # << >>
    /\ LastEnd(list) \in Nat
    /\ Consecutive(list, LastEnd(list))
    /\ n # 0 => LastEnd(list) = n

\* What is made of boundaries that lie before the end of a video, whether its
\* duration is known or not.
LEMMA ScenesMade ==
    ASSUME NEW n \in Nat \ {0}, NEW B, B \subseteq 0..(n - 1), 0 \in B,
           length \in {n, 0}
    PROVE  Follow(OrWhole(Paired(B \cup {length})), length)
<1> DEFINE P == Paired(B \cup {length})
<1> SUFFICES Follow(OrWhole(P), length)
  OBVIOUS
<1>1. ASSUME NEW m \in Nat, Consecutive(P, m), length # 0 => m = length
      PROVE  Follow(OrWhole(P), length)
  <2> HIDE DEF P
  <2>1. P # << >> /\ LastEnd(P) = m
    <3>1. Len(P) # 0
      BY <1>1 DEF Consecutive
    <3> QED BY <1>1, <3>1 DEF Consecutive, LastEnd
  <2> QED BY <1>1, <2>1 DEF OrWhole, Follow
<1>2. CASE length = n
  <2>1. Consecutive(P, n)
    BY <1>2, PairedFacts
  <2>2. n \in Nat /\ (length # 0 => n = length)
    BY <1>2
  <2> HIDE DEF P
  <2> QED BY <1>1, <2>1, <2>2, Zenon
<1>3. CASE length = 0 /\ B # {0}
  <2>0. n \in Nat /\ B \subseteq 0..n /\ B # {}
    OBVIOUS
  <2>1. PICK m \in B : \A u \in B : u <= m
    BY <2>0, LastFacts
  <2>2. m \in Nat \ {0} /\ \A u \in B : u \in Nat
    <3>1. \A u \in B : u \in Nat
      OBVIOUS
    <3>2. PICK u \in B : u # 0
      BY <1>3
    <3>3. u <= m /\ u \in Nat /\ m \in Nat
      BY <2>1, <3>1
    <3> QED BY <3>1, <3>2, <3>3
  <2> DEFINE C == B \ {m}
  <2>3. C \subseteq 0..(m - 1) /\ 0 \in C
    BY <2>1, <2>2
  <2>4. B \cup {length} = C \cup {m}
    BY <1>3, <2>1
  <2> HIDE DEF C
  <2>5. Consecutive(Paired(C \cup {m}), m)
    BY <2>2, <2>3, PairedFacts
  <2>6. Consecutive(P, m)
    BY <2>4, <2>5
  <2>7. m \in Nat /\ (length # 0 => m = length)
    BY <1>3, <2>2
  <2> HIDE DEF P
  <2> QED BY <1>1, <2>6, <2>7, Zenon
<1>4. CASE length = 0 /\ B = {0}
  <2> DEFINE s == [id |-> 0, start |-> 0, end |-> 0]
             list == <<s>>
  <2>1. B \cup {length} = {0}
    BY <1>4
  <2>2. OrWhole(P) = list
    BY <1>4, <2>1, PairedNone DEF OrWhole
  <2>3. s \in Spans /\ s.id = 0 /\ s.start = 0 /\ s.end = 0
    BY DEF Spans
  <2> HIDE DEF s
  <2>4. list \in Seq(Spans) /\ Len(list) = 1 /\ list[1] = s /\ list # << >>
    BY <2>3
  <2> HIDE DEF list
  <2>5. LastEnd(list) = 0
    BY <2>3, <2>4 DEF LastEnd
  <2>6. Consecutive(list, 0)
    BY <2>3, <2>4 DEF Consecutive
  <2> QED BY <1>4, <2>2, <2>4, <2>5, <2>6 DEF Follow
<1> QED BY <1>2, <1>3, <1>4

\* While frames are compared, the boundaries lie in the video and its start is
\* one of them; the scenes made of them leave out nothing.
ScenesInv ==
    /\ length \in Nat
    /\ stage = "compare" =>
          \E n \in Nat \ {0} :
              /\ length \in {n, 0}
              /\ frames \subseteq 0..(n - 1)
              /\ boundaries \subseteq 0..(n - 1)
              /\ 0 \in boundaries
    /\ scenes = << >> \/ Follow(scenes, length)

LEMMA ScenesInvInit == ClipsInit => ScenesInv
BY DEF ClipsInit, ScenesInv

LEMMA ScenesInvStep == ScenesInv /\ [ClipsNext]_clipVars => ScenesInv'
<1> SUFFICES ASSUME ScenesInv, [ClipsNext]_clipVars
             PROVE  ScenesInv'
  OBVIOUS
<1> USE DEF ScenesInv
<1>1. CASE NewVideo
  <2>1. PICK n \in VideoLengths :
            /\ length' \in {n, 0}
            /\ \E good \in SUBSET FramesOf(n) \ {{}} : frames' = good \ {FirstOf(good)}
    BY <1>1 DEF NewVideo
  <2>2. n \in Nat \ {0} /\ length' \in Nat /\ scenes' = << >> /\ boundaries' = {0}
    BY <1>1, <2>1, ClipAssumption DEF NewVideo
  <2>3. frames' \subseteq 0..(n - 1)
    BY <2>1 DEF FramesOf
  <2>4. boundaries' \subseteq 0..(n - 1) /\ 0 \in boundaries'
    BY <2>2
  <2> QED BY <2>1, <2>2, <2>3, <2>4
<1>2. CASE CompareFrame
  <2>1. frames # {} /\ stage = "compare"
    BY <1>2 DEF CompareFrame
  <2>2. PICK n \in Nat \ {0} :
            /\ length \in {n, 0}
            /\ frames \subseteq 0..(n - 1)
            /\ boundaries \subseteq 0..(n - 1)
            /\ 0 \in boundaries
    BY <2>1
  <2>3. frames \subseteq Nat
    BY <2>2
  <2>4. FirstOf(frames) \in frames
    BY <2>1, <2>3, FirstFacts
  <2>5. /\ frames' \subseteq 0..(n - 1) /\ boundaries' \subseteq 0..(n - 1)
        /\ 0 \in boundaries' /\ length' = length /\ scenes' = scenes
    BY <1>2, <2>2, <2>4 DEF CompareFrame
  <2> QED BY <2>2, <2>5
<1>3. CASE MakeScenes
  <2>1. Follow(scenes', length) /\ length' = length /\ stage' = "cut"
    BY <1>3, ScenesMade DEF MakeScenes
  <2> QED BY <2>1
<1>4. CASE CutShortScene
  BY <1>4 DEF CutShortScene, Cutting
<1>5. CASE CutWholeScene
  BY <1>5 DEF CutWholeScene, Cutting
<1>6. CASE CutLongScene
  BY <1>6 DEF CutLongScene, Cutting
<1>7. CASE ClipsCut
  BY <1>7 DEF ClipsCut
<1>8. CASE StoreClip
  BY <1>8 DEF StoreClip
<1>9. CASE AnnounceClips
  BY <1>9 DEF AnnounceClips
<1>10. CASE NextVideo
  BY <1>10 DEF NextVideo
<1>11. CASE UNCHANGED clipVars
  BY <1>11 DEF clipVars
<1> QED
  BY <1>1, <1>2, <1>3, <1>4, <1>5, <1>6, <1>7, <1>8, <1>9, <1>10, <1>11 DEF ClipsNext

\* A frame that lies in the video lies in a scene, and SceneOf finds one.
LEMMA ScenesInvPartition == ScenesInv => ScenesPartition
<1> SUFFICES ASSUME ScenesInv, scenes # << >>
             PROVE  ScenesPartition
  BY DEF ScenesPartition
<1> DEFINE e == LastEnd(scenes)
           m == Len(scenes)
<1>1. Consecutive(scenes, e) /\ e \in Nat /\ (length # 0 => e = length)
  BY DEF ScenesInv, Follow
<1>2. /\ scenes[1].start = 0
      /\ length # 0 => scenes[Len(scenes)].end = length
      /\ \A i \in 1..(Len(scenes) - 1) : scenes[i].end = scenes[i + 1].start
      /\ DOMAIN scenes = 1..m /\ m \in Nat \ {0}
      /\ \A i \in 1..m : scenes[i].start \in Nat /\ scenes[i].end \in Nat
  BY <1>1, ConsecutiveTypes DEF Consecutive, LastEnd
<1>3. ASSUME NEW t \in Nat
      PROVE  \E i \in DOMAIN scenes :
                  /\ scenes[i].id = SceneOf(t)
                  /\ scenes[i].start <= t
                  /\ t < scenes[i].end \/ i = Len(scenes)
  <2> DEFINE of == {i \in DOMAIN scenes : scenes[i].start <= t /\ t < scenes[i].end}
  <2>1. CASE of # {}
    <3>1. of \subseteq Nat
      BY <1>2
    <3>2. SceneOf(t) = scenes[FirstOf(of)].id
      BY <2>1 DEF SceneOf
    <3>3. FirstOf(of) \in of
      <4> HIDE DEF of
      <4> QED BY <2>1, <3>1, FirstFacts
    <3> QED BY <3>2, <3>3
  <2>2. CASE of = {}
    <3>1. SceneOf(t) = scenes[m].id /\ m \in 1..m
      BY <1>2, <2>2 DEF SceneOf
    <3>2. ~ (t < e)
      <4>1. SUFFICES ASSUME t < e PROVE FALSE
        OBVIOUS
      <4>2. t \in 0..(e - 1)
        BY <1>1, <4>1
      <4>3. \E i \in 1..Len(scenes) : scenes[i].start <= t /\ t < scenes[i].end
        <5> HIDE DEF e
        <5> QED BY <1>1, <4>2, Located
      <4> QED BY <1>2, <2>2, <4>3
    <3>3. scenes[m].start <= scenes[m].end /\ scenes[m].end = e
      BY <1>1, <3>1 DEF Consecutive, LastEnd
    <3>4. scenes[m].start <= t
      BY <1>2, <1>1, <3>1, <3>2, <3>3
    <3> QED BY <1>2, <3>1, <3>4
  <2> QED BY <2>1, <2>2
<1>4. \A n \in VideoLengths : FramesOf(n) \subseteq Nat
  BY ClipAssumption DEF FramesOf
<1> QED BY <1>2, <1>3, <1>4 DEF ScenesPartition

\* However many frames the filter dropped, and wherever the picture changes,
\* the scenes follow each other from the start of the video to its end, if the
\* duration is known, and a frame is told the one it lies in, or the last: for
\* any lengths of videos and any interval of the frames.
THEOREM ScenesFollowEachOther == ClipsSpec => []ScenesPartition
<1>1. ClipsSpec => []ScenesInv
  BY ScenesInvInit, ScenesInvStep, PTL DEF ClipsSpec
<1> QED BY <1>1, ScenesInvPartition, PTL

-----------------------------------------------------------------------------
(* Clips                                                                   *)

ClipType == [scene : Nat, start : Nat, end : Nat]

\* What the clips of scene n show, and what one clip more adds.
ShownBy(list, n) ==
    UNION {list[k].start..(list[k].end - 1) :
              k \in {j \in DOMAIN list : list[j].scene = n}}

LEMMA ShownGrows ==
    ASSUME NEW list \in Seq(ClipType), NEW clip \in ClipType, NEW n
    PROVE  /\ ShownBy(list, n) \subseteq ShownBy(Append(list, clip), n)
           /\ clip.scene = n =>
                 clip.start..(clip.end - 1) \subseteq ShownBy(Append(list, clip), n)
<1> DEFINE more == Append(list, clip)
           N == Len(list)
<1>1. N \in Nat /\ DOMAIN list = 1..N
  OBVIOUS
<1>2. Len(more) = N + 1 /\ DOMAIN more = 1..(N + 1)
  OBVIOUS
<1>3. (\A k \in 1..N : more[k] = list[k]) /\ more[N + 1] = clip
  OBVIOUS
<1> HIDE DEF more, N
<1>4. (\A k \in DOMAIN list : k \in DOMAIN more) /\ N + 1 \in DOMAIN more
  BY <1>1, <1>2
<1> QED BY <1>1, <1>3, <1>4 DEF ShownBy, more

\* A clip of one of the first scenes, of a video of length n, or of one whose
\* duration is not known.
Fits(clip, last, n) ==
    /\ clip \in ClipType
    /\ clip.scene \in 0..last
    /\ n # 0 => clip.start < clip.end /\ clip.end <= n
    /\ clip.end - clip.start <= MaxClip

\* A scene above the maximum that has some of its clips: they show it from
\* its start to where the last of them ends.
PartlyCut ==
    clips # << >> /\ clips[Len(clips)].scene = windowed =>
        /\ windowed < Len(scenes)
        /\ Scene.start < clips[Len(clips)].end
        /\ clips[Len(clips)].end < Scene.end
        /\ Scene.start..(clips[Len(clips)].end - 1) \subseteq ShownBy(clips, windowed)

\* What ClipsCoverScenes asks for: scenes that are padded need a duration.
Owed(s) == length # 0 \/ s.end - s.start >= MinClip

\* The scenes that are done are shown, each under its own number.
CutInv ==
    /\ stage \in {"idle", "compare", "cut", "store", "announced"}
    /\ stage = "compare" => windowed = 0 /\ clips = << >>
    /\ stage \in {"cut", "store", "announced"} =>
          /\ Follow(scenes, length)
          /\ windowed \in 0..Len(scenes)
          /\ clips \in Seq(ClipType)
          /\ \A k \in 1..Len(clips) : Fits(clips[k], windowed, length)
          /\ \A i \in 1..windowed :
                Owed(scenes[i]) =>
                scenes[i].start..(scenes[i].end - 1) \subseteq ShownBy(clips, i - 1)
          /\ PartlyCut
    /\ stage \in {"store", "announced"} => windowed = Len(scenes)

\* Half of what a short scene lacks.
LEMMA Half ==
    ASSUME NEW n \in Nat
    PROVE  n \div 2 \in Nat /\ n \div 2 <= n
OBVIOUS

\* Padding keeps the scene in the clip, the clip in the video and within
\* the maximum.
LEMMA PaddedFacts ==
    ASSUME NEW s, s.start \in Nat, s.end \in Nat, s.start <= s.end,
           length \in Nat, s.end - s.start < MinClip
    PROVE  /\ Padded(s).start \in Nat /\ Padded(s).end \in Nat
           /\ Padded(s).start <= s.start
           /\ s.end <= length => s.end <= Padded(s).end
           /\ Padded(s).end <= length
           /\ Padded(s).end - Padded(s).start <= MaxClip
<1> DEFINE long == s.end - s.start
           half == (MinClip - long) \div 2
           from == LargerOf(0, s.start - half)
<1>1. long \in Nat /\ MinClip \in Nat /\ MinClip - long \in Nat
  BY ClipAssumption
<1>2. LargerOf(MinClip, SmallerOf(DefaultClip, long)) = MinClip
  BY <1>1, ClipAssumption DEF LargerOf, SmallerOf
<1>3. half \in Nat /\ half <= MinClip - long
  BY <1>1, Half
<1>4. Padded(s) = [start |-> from, end |-> SmallerOf(length, from + MinClip)]
  BY <1>2 DEF Padded
<1>5. /\ Padded(s).start = from
      /\ Padded(s).end = SmallerOf(length, from + MinClip)
  BY <1>4
<1> HIDE DEF half
<1>6. from \in Nat /\ from <= s.start /\ s.start - half <= from
  BY <1>3 DEF LargerOf
<1> HIDE DEF from
<1>7. s.end <= from + MinClip
  BY <1>1, <1>3, <1>6
<1>8. /\ SmallerOf(length, from + MinClip) \in Nat
      /\ s.end <= length => s.end <= SmallerOf(length, from + MinClip)
      /\ SmallerOf(length, from + MinClip) <= length
      /\ SmallerOf(length, from + MinClip) <= from + MinClip
  BY <1>1, <1>6, <1>7 DEF SmallerOf
<1> QED BY <1>1, <1>5, <1>6, <1>8, ClipAssumption

\* The scene at hand.
LEMMA SceneAtHand ==
    ASSUME ScenesInv, CutInv, Cutting
    PROVE  /\ windowed \in Nat /\ windowed < Len(scenes) /\ Len(scenes) \in Nat
           /\ length \in Nat
           /\ Scene.id = windowed
           /\ Scene.start \in Nat /\ Scene.end \in Nat
           /\ Scene.start <= Scene.end
           /\ length # 0 => Scene.start < Scene.end /\ Scene.end <= length
<1> DEFINE e == LastEnd(scenes)
<1>1. /\ Consecutive(scenes, e) /\ windowed \in 0..Len(scenes) /\ length \in Nat
      /\ length # 0 => e = length
  BY DEF CutInv, Cutting, ScenesInv, Follow
<1> HIDE DEF e
<1>2. Len(scenes) \in Nat \ {0}
  BY <1>1, ConsecutiveTypes
<1>3. windowed \in Nat /\ windowed < Len(scenes)
  BY <1>1, <1>2 DEF Cutting
<1>4. windowed + 1 \in 1..Len(scenes) /\ (windowed + 1) - 1 = windowed
  BY <1>2, <1>3
<1>5. Scene.start \in Nat /\ Scene.end \in Nat
  BY <1>1, <1>4, ConsecutiveTypes DEF Scene
<1>6. /\ Scene.id = windowed /\ Scene.start <= Scene.end
      /\ e # 0 => Scene.start < Scene.end
      /\ Scene.end <= e
  BY <1>1, <1>4 DEF Scene, Consecutive
<1> QED BY <1>1, <1>2, <1>3, <1>5, <1>6

\* One clip more of the scene at hand.
LEMMA ClipAdded ==
    ASSUME ScenesInv, CutInv, Cutting, NEW start \in Nat, NEW end \in Nat,
           length # 0 => start < end /\ end <= length, end - start <= MaxClip,
           AddClip(start, end), UNCHANGED <<length, scenes>>,
           windowed' \in {windowed, windowed + 1}
    PROVE  /\ clips' \in Seq(ClipType) /\ clips' # << >>
           /\ clips'[Len(clips')] = [scene |-> windowed, start |-> start, end |-> end]
           /\ \A k \in 1..Len(clips') : Fits(clips'[k], windowed', length')
           /\ \A i \in 1..windowed :
                 Owed(scenes[i]) =>
                 scenes[i].start..(scenes[i].end - 1) \subseteq ShownBy(clips', i - 1)
           /\ ShownBy(clips, windowed) \subseteq ShownBy(clips', windowed)
           /\ start..(end - 1) \subseteq ShownBy(clips', windowed)
<1> DEFINE clip == [scene |-> windowed, start |-> start, end |-> end]
           N == Len(clips)
<1>1. windowed \in Nat /\ Scene.id = windowed
  BY SceneAtHand
<1>2. clip \in ClipType /\ clips' = Append(clips, clip) /\ clip.scene = windowed
      /\ clip.start = start /\ clip.end = end
  BY <1>1 DEF AddClip, ClipType
<1>3. /\ clips \in Seq(ClipType)
      /\ \A k \in 1..Len(clips) : Fits(clips[k], windowed, length)
      /\ \A i \in 1..windowed :
            Owed(scenes[i]) =>
            scenes[i].start..(scenes[i].end - 1) \subseteq ShownBy(clips, i - 1)
  BY DEF CutInv, Cutting
<1> HIDE DEF clip
<1>4. N \in Nat /\ clips' \in Seq(ClipType) /\ Len(clips') = N + 1
  BY <1>2, <1>3
<1>5. (\A k \in 1..N : clips'[k] = clips[k]) /\ clips'[N + 1] = clip
  BY <1>2, <1>3
<1> HIDE DEF N
<1>6. clips' # << >> /\ clips'[Len(clips')] = clip
  BY <1>4, <1>5
<1>7. ASSUME NEW k \in 1..Len(clips')
      PROVE  Fits(clips'[k], windowed', length')
  <2>2. CASE k = N + 1
    BY <1>1, <1>2, <1>5, <2>2 DEF Fits, ClipType
  <2>3. CASE k # N + 1
    <3>1. k \in 1..N /\ clips'[k] = clips[k]
      BY <1>4, <1>5, <2>3
    <3>2. Fits(clips[k], windowed, length)
      BY <1>3, <3>1 DEF N
    <3>3. \A w \in 0..windowed : w \in 0..windowed'
      BY <1>1
    <3> QED BY <3>1, <3>2, <3>3 DEF Fits
  <2> QED BY <2>2, <2>3
<1>8. \A n : ShownBy(clips, n) \subseteq ShownBy(clips', n)
  BY <1>2, <1>3, ShownGrows
<1>9. start..(end - 1) \subseteq ShownBy(clips', windowed)
  BY <1>2, <1>3, ShownGrows
<1>10. \A i \in 1..windowed :
          Owed(scenes[i]) =>
          scenes[i].start..(scenes[i].end - 1) \subseteq ShownBy(clips', i - 1)
  BY <1>3, <1>8
<1> QED BY <1>4, <1>6, <1>7, <1>8, <1>9, <1>10 DEF clip

\* The scene at hand is done: all of it is shown.
LEMMA SceneDone ==
    ASSUME ScenesInv, CutInv, Cutting, NEW start \in Nat, NEW end \in Nat,
           length # 0 => start < end /\ end <= length, end - start <= MaxClip,
           AddClip(start, end), UNCHANGED <<stage, length, scenes>>,
           windowed' = windowed + 1,
           Owed(Scene) => Scene.start..(Scene.end - 1)
               \subseteq ShownBy(clips, windowed) \cup start..(end - 1)
    PROVE  CutInv'
<1>1. windowed \in Nat /\ windowed < Len(scenes) /\ Len(scenes) \in Nat
  BY SceneAtHand
<1>2. /\ clips' \in Seq(ClipType) /\ clips' # << >>
      /\ clips'[Len(clips')] = [scene |-> windowed, start |-> start, end |-> end]
      /\ \A k \in 1..Len(clips') : Fits(clips'[k], windowed', length')
      /\ \A i \in 1..windowed :
            Owed(scenes[i]) =>
            scenes[i].start..(scenes[i].end - 1) \subseteq ShownBy(clips', i - 1)
      /\ ShownBy(clips, windowed) \subseteq ShownBy(clips', windowed)
      /\ start..(end - 1) \subseteq ShownBy(clips', windowed)
  BY ClipAdded
<1>3. /\ stage = "cut" /\ stage' = "cut"
      /\ Follow(scenes, length) /\ Follow(scenes', length')
      /\ windowed' \in 0..Len(scenes')
  BY <1>1 DEF CutInv, Cutting
<1>4. ASSUME NEW i \in 1..windowed'
      PROVE  Owed(scenes[i]) =>
             scenes'[i].start..(scenes'[i].end - 1) \subseteq ShownBy(clips', i - 1)
  <2>1. CASE i \in 1..windowed
    BY <1>2, <2>1
  <2>2. CASE i \notin 1..windowed
    <3>1. i = windowed + 1 /\ i - 1 = windowed
      BY <1>1, <2>2
    <3> QED BY <1>2, <3>1 DEF Scene
  <2> QED BY <2>1, <2>2
<1>5. PartlyCut'
  <2>1. clips'[Len(clips')].scene # windowed'
    BY <1>1, <1>2
  <2> QED BY <2>1 DEF PartlyCut
<1>6. \A s : Owed(s)' <=> Owed(s)
  BY DEF Owed
<1> QED BY <1>2, <1>3, <1>4, <1>5, <1>6 DEF CutInv

\* A scene below the minimum: one clip, padded.
LEMMA CutShortStep ==
    ASSUME ScenesInv, CutInv, CutShortScene
    PROVE  CutInv'
<1> DEFINE start == Padded(Scene).start
           end == Padded(Scene).end
<1>1. /\ Cutting /\ AddClip(start, end) /\ UNCHANGED <<stage, length, scenes>>
      /\ windowed' = windowed + 1 /\ Scene.end - Scene.start < MinClip
  BY DEF CutShortScene
<1>2. /\ length \in Nat /\ Scene.start \in Nat /\ Scene.end \in Nat
      /\ Scene.start <= Scene.end
      /\ length # 0 => Scene.start < Scene.end /\ Scene.end <= length
  BY <1>1, SceneAtHand
<1>3. /\ start \in Nat /\ end \in Nat /\ start <= Scene.start
      /\ Scene.end <= length => Scene.end <= end
      /\ end <= length /\ end - start <= MaxClip
  BY <1>1, <1>2, PaddedFacts
<1> HIDE DEF start, end
<1>4. length # 0 => start < end /\ end <= length
  BY <1>2, <1>3
<1>5. ~ (Scene.end - Scene.start >= MinClip)
  BY <1>1, <1>2, ClipAssumption
<1>6. ASSUME length # 0
      PROVE  Scene.start..(Scene.end - 1) \subseteq start..(end - 1)
  BY <1>2, <1>3, <1>6
<1>7. Owed(Scene) => Scene.start..(Scene.end - 1)
          \subseteq ShownBy(clips, windowed) \cup start..(end - 1)
  BY <1>5, <1>6 DEF Owed
<1> QED BY <1>1, <1>3, <1>4, <1>7, SceneDone

\* A scene within the limits: one clip, the scene.
LEMMA CutWholeStep ==
    ASSUME ScenesInv, CutInv, CutWholeScene
    PROVE  CutInv'
<1>1. /\ Cutting /\ AddClip(Scene.start, Scene.end)
      /\ UNCHANGED <<stage, length, scenes>> /\ windowed' = windowed + 1
      /\ Scene.end - Scene.start <= MaxClip
  BY ClipAssumption DEF CutWholeScene
<1>2. /\ Scene.start \in Nat /\ Scene.end \in Nat
      /\ length # 0 => Scene.start < Scene.end /\ Scene.end <= length
  BY <1>1, SceneAtHand
<1> QED BY <1>1, <1>2, SceneDone

\* One window of a scene above the maximum, which goes on where the last ended.
LEMMA CutLongStep ==
    ASSUME ScenesInv, CutInv, CutLongScene
    PROVE  CutInv'
<1> DEFINE p == ScenePosition
           end == SmallerOf(p + MaxClip, Scene.end)
<1>1. /\ Cutting /\ AddClip(p, end) /\ UNCHANGED <<stage, length, scenes>>
      /\ windowed' = IF end = Scene.end THEN windowed + 1 ELSE windowed
      /\ Scene.end - Scene.start > MaxClip
  BY DEF CutLongScene
<1>2. /\ windowed \in Nat /\ windowed < Len(scenes) /\ Len(scenes) \in Nat
      /\ length \in Nat /\ Scene.id = windowed
      /\ Scene.start \in Nat /\ Scene.end \in Nat
      /\ Scene.start < Scene.end
      /\ length # 0 => Scene.end <= length
  <2>1. /\ windowed \in Nat /\ windowed < Len(scenes) /\ Len(scenes) \in Nat
        /\ length \in Nat /\ Scene.id = windowed
        /\ Scene.start \in Nat /\ Scene.end \in Nat
        /\ length # 0 => Scene.end <= length
    BY <1>1, SceneAtHand
  <2>2. Scene.start < Scene.end
    BY <1>1, <2>1, ClipAssumption
  <2> QED BY <2>1, <2>2
<1>3. /\ p \in Nat /\ Scene.start <= p /\ p < Scene.end
      /\ Scene.start..(p - 1) \subseteq ShownBy(clips, windowed)
  <2>1. CASE clips # << >> /\ clips[Len(clips)].scene = windowed
    <3>1. p = clips[Len(clips)].end
      BY <1>2, <2>1 DEF ScenePosition
    <3>2. /\ Scene.start < p /\ p < Scene.end
          /\ Scene.start..(p - 1) \subseteq ShownBy(clips, windowed)
      BY <1>1, <2>1, <3>1 DEF CutInv, Cutting, PartlyCut
    <3>3. p \in Nat
      <4>1. clips \in Seq(ClipType)
        BY <1>1 DEF CutInv, Cutting
      <4>2. clips[Len(clips)] \in ClipType
        BY <2>1, <4>1
      <4> QED BY <3>1, <4>2 DEF ClipType
    <3> QED BY <1>2, <3>2, <3>3
  <2>2. CASE ~ (clips # << >> /\ clips[Len(clips)].scene = windowed)
    <3>1. p = Scene.start
      BY <1>2, <2>2 DEF ScenePosition
    <3>2. Scene.start..(p - 1) = {}
      BY <1>2, <3>1
    <3> QED BY <1>2, <3>1, <3>2
  <2> QED BY <2>1, <2>2
<1> HIDE DEF p
<1>4. /\ end \in Nat /\ p < end /\ end <= Scene.end
      /\ length # 0 => p < end /\ end <= length
      /\ end - p <= MaxClip
  BY <1>2, <1>3, ClipAssumption DEF SmallerOf
<1> HIDE DEF end
<1>5. CASE end = Scene.end
  <2>1. \A t \in Scene.start..(Scene.end - 1) :
            t \in Scene.start..(p - 1) \/ t \in p..(end - 1)
    BY <1>2, <1>3, <1>5
  <2>2. Scene.start..(Scene.end - 1)
            \subseteq ShownBy(clips, windowed) \cup p..(end - 1)
    BY <1>3, <2>1
  <2> QED BY <1>1, <1>3, <1>4, <1>5, <2>2, SceneDone
<1>6. CASE end # Scene.end
  <2>1. windowed' = windowed
    BY <1>1, <1>6
  <2>2. /\ clips' \in Seq(ClipType) /\ clips' # << >>
        /\ clips'[Len(clips')] = [scene |-> windowed, start |-> p, end |-> end]
        /\ \A k \in 1..Len(clips') : Fits(clips'[k], windowed', length')
        /\ \A i \in 1..windowed :
              Owed(scenes[i]) =>
              scenes[i].start..(scenes[i].end - 1) \subseteq ShownBy(clips', i - 1)
        /\ ShownBy(clips, windowed) \subseteq ShownBy(clips', windowed)
        /\ p..(end - 1) \subseteq ShownBy(clips', windowed)
    BY <1>1, <1>3, <1>4, <2>1, ClipAdded
  <2>3. /\ stage = "cut" /\ stage' = "cut"
        /\ Follow(scenes', length') /\ windowed' \in 0..Len(scenes')
    BY <1>1, <2>1 DEF CutInv, Cutting
  <2>4. \A t \in Scene.start..(end - 1) :
            t \in Scene.start..(p - 1) \/ t \in p..(end - 1)
    BY <1>2, <1>3, <1>4
  <2>5. Scene.start..(end - 1) \subseteq ShownBy(clips', windowed)
    BY <1>3, <2>2, <2>4
  <2>6. end < Scene.end /\ Scene.start < end
    BY <1>2, <1>3, <1>4, <1>6
  <2>7. Scene' = Scene /\ clips'[Len(clips')].end = end
    BY <1>1, <2>1, <2>2 DEF Scene
  <2>8. PartlyCut'
    BY <1>1, <1>2, <2>1, <2>5, <2>6, <2>7 DEF PartlyCut
  <2>9. \A s : Owed(s)' <=> Owed(s)
    BY <1>1 DEF Owed
  <2> QED BY <1>1, <2>1, <2>2, <2>3, <2>8, <2>9 DEF CutInv
<1> QED BY <1>5, <1>6

LEMMA CutInvStep == ScenesInv /\ CutInv /\ [ClipsNext]_clipVars => CutInv'
<1> SUFFICES ASSUME ScenesInv, CutInv, [ClipsNext]_clipVars
             PROVE  CutInv'
  OBVIOUS
<1>1. CASE NewVideo
  BY <1>1 DEF NewVideo, CutInv
<1>2. CASE CompareFrame
  BY <1>2 DEF CompareFrame, CutInv
<1>3. CASE MakeScenes
  <2>1. Follow(scenes', length')
    BY <1>3, ScenesMade DEF MakeScenes, ScenesInv
  <2>2. windowed' = 0 /\ clips' = << >> /\ stage' = "cut"
    BY <1>3 DEF MakeScenes, CutInv
  <2>3. windowed' \in 0..Len(scenes')
    <3>1. Len(scenes') \in Nat
      BY <2>1, ConsecutiveTypes DEF Follow
    <3> QED BY <2>2, <3>1
  <2>4. clips' \in Seq(ClipType) /\ 1..Len(clips') = {} /\ 1..windowed' = {}
    BY <2>2
  <2>5. PartlyCut'
    BY <2>2 DEF PartlyCut
  <2> QED BY <2>1, <2>2, <2>3, <2>4, <2>5 DEF CutInv
<1>4. CASE CutShortScene
  BY <1>4, CutShortStep
<1>5. CASE CutWholeScene
  BY <1>5, CutWholeStep
<1>6. CASE CutLongScene
  BY <1>6, CutLongStep
<1> DEFINE Same == UNCHANGED <<length, scenes, windowed, clips>>
<1>7. ASSUME Same
      PROVE  /\ PartlyCut' <=> PartlyCut
             /\ \A k : Fits(clips'[k], windowed', length')
                      <=> Fits(clips[k], windowed, length)
             /\ \A s : Owed(s)' <=> Owed(s)
  BY <1>7 DEF PartlyCut, Scene, Owed
<1>8. CASE ClipsCut
  <2>1. Same /\ stage = "cut" /\ stage' = "store" /\ windowed = Len(scenes)
    BY <1>8 DEF ClipsCut
  <2> QED BY <1>7, <2>1 DEF CutInv
<1>9. CASE StoreClip
  <2>1. Same /\ stage = "store" /\ stage' = stage
    BY <1>9 DEF StoreClip
  <2> QED BY <1>7, <2>1 DEF CutInv
<1>10. CASE AnnounceClips
  <2>1. Same /\ stage = "store" /\ stage' = "announced"
    BY <1>10 DEF AnnounceClips
  <2> QED BY <1>7, <2>1 DEF CutInv
<1>11. CASE NextVideo
  BY <1>11 DEF NextVideo, CutInv
<1>12. CASE UNCHANGED clipVars
  <2>1. Same /\ stage' = stage
    BY <1>12 DEF clipVars
  <2> QED BY <1>7, <2>1 DEF CutInv
<1> QED
  BY <1>1, <1>2, <1>3, <1>4, <1>5, <1>6, <1>8, <1>9, <1>10, <1>11, <1>12 DEF ClipsNext

LEMMA CutInvCovers == ScenesInv /\ CutInv => ClipsCoverScenes
<1> SUFFICES ASSUME ScenesInv, CutInv, stage \in {"store", "announced"}
             PROVE  ClipsCoverScenes
  BY DEF ClipsCoverScenes
<1>1. /\ Follow(scenes, length) /\ windowed = Len(scenes)
      /\ clips \in Seq(ClipType)
      /\ \A k \in 1..Len(clips) : Fits(clips[k], windowed, length)
      /\ \A i \in 1..windowed :
            Owed(scenes[i]) =>
            scenes[i].start..(scenes[i].end - 1) \subseteq ShownBy(clips, i - 1)
  BY DEF CutInv
<1>2. ASSUME NEW i \in DOMAIN scenes
      PROVE  length # 0 \/ scenes[i].end - scenes[i].start >= MinClip =>
                scenes[i].start..(scenes[i].end - 1) \subseteq Shown(scenes[i].id)
  <2>1. i \in 1..Len(scenes) /\ scenes[i].id = i - 1
    BY <1>1, ConsecutiveTypes DEF Consecutive, Follow
  <2>2. Owed(scenes[i]) => scenes[i].start..(scenes[i].end - 1) \subseteq ShownBy(clips, scenes[i].id)
    BY <1>1, <2>1
  <2> QED BY <2>2 DEF Shown, ShownBy, Owed
<1>3. ASSUME NEW k \in DOMAIN clips
      PROVE  /\ clips[k].end - clips[k].start <= MaxClip
             /\ length # 0 =>
                   /\ 0 <= clips[k].start
                   /\ clips[k].start < clips[k].end
                   /\ clips[k].end <= length
  <2>1. k \in 1..Len(clips)
    BY <1>1
  <2>2. Fits(clips[k], windowed, length)
    BY <1>1, <2>1
  <2> QED BY <2>2 DEF Fits, ClipType
<1> QED BY <1>2, <1>3 DEF ClipsCoverScenes

\* The clips of a scene show all of it and nothing beyond the video, and none is
\* longer than the maximum, but for scenes below the minimum of a video whose
\* duration is not known: for any lengths, and any limits of which the minimum
\* is not above the maximum.
THEOREM ClipsShowAll == ClipsSpec => []ClipsCoverScenes
<1>1. ClipsInit => CutInv
  BY DEF ClipsInit, CutInv
<1>2. ClipsSpec => [](ScenesInv /\ CutInv)
  BY <1>1, ScenesInvInit, ScenesInvStep, CutInvStep, PTL DEF ClipsSpec
<1> QED BY <1>2, CutInvCovers, PTL

-----------------------------------------------------------------------------
(* Sublists                                                                *)

LEMMA PositionsFinite ==
    ASSUME NEW S, NEW list \in Seq(S), NEW K \in SUBSET DOMAIN list
    PROVE  /\ Len(list) \in Nat /\ DOMAIN list = 1..Len(list)
           /\ K \subseteq Nat /\ IsFiniteSet(K) /\ Cardinality(K) \in Nat
<1>1. Len(list) \in Nat /\ DOMAIN list = 1..Len(list)
  OBVIOUS
<1>2. IsFiniteSet(1..Len(list))
  BY <1>1, FS_Interval
<1>3. K \subseteq Nat /\ IsFiniteSet(K)
  BY <1>1, <1>2, FS_Subset
<1> QED BY <1>1, <1>3, FS_CardinalityType

\* What Selected gives: as many elements as positions, and at each place the
\* element of the position that has this number among them.
LEMMA SelectedFacts ==
    ASSUME NEW S, NEW list \in Seq(S), NEW K \in SUBSET DOMAIN list
    PROVE  /\ Selected(list, K) \in Seq(S)
           /\ Len(Selected(list, K)) = Cardinality(K)
           /\ \A k \in K : /\ Rank(K, k) \in 1..Cardinality(K)
                           /\ Selected(list, K)[Rank(K, k)] = list[k]
           /\ \A n \in 1..Cardinality(K) : \E k \in K : Rank(K, k) = n
<1> DEFINE nth(n) == CHOOSE k \in K : Rank(K, k) = n
           c == Cardinality(K)
<1>1. /\ K \subseteq Nat /\ IsFiniteSet(K) /\ c \in Nat
      /\ \A k \in K : k \in DOMAIN list /\ k \in Nat
  BY PositionsFinite
<1>2. /\ \A k \in K : Rank(K, k) \in 1..c
      /\ \A n \in 1..c : \E k \in K : Rank(K, k) = n
  BY <1>1, RankOnto
<1>3. Selected(list, K) = [n \in 1..c |-> list[nth(n)]]
  BY DEF Selected, Rank
<1>4. \A n \in 1..c : nth(n) \in K /\ Rank(K, nth(n)) = n
  BY <1>2
<1>5. ASSUME NEW k \in K, NEW j \in K, Rank(K, k) = Rank(K, j)
      PROVE  k = j
  <2>1. ~ (k < j) /\ ~ (j < k)
    <3>1. Rank(K, k) \in Nat
      BY <1>1, <1>2
    <3>2. k < j => Rank(K, k) < Rank(K, j)
      BY <1>1, RankOrder
    <3>3. j < k => Rank(K, j) < Rank(K, k)
      BY <1>1, RankOrder
    <3> QED BY <1>5, <3>1, <3>2, <3>3
  <2> QED BY <1>1, <2>1
<1>6. \A k \in K : nth(Rank(K, k)) = k
  BY <1>2, <1>4, <1>5
<1>7. \A n \in 1..c : list[nth(n)] \in S
  BY <1>1, <1>4
<1> HIDE DEF nth
<1>8. Selected(list, K) \in [1..c -> S]
  BY <1>3, <1>7
<1> HIDE DEF c
<1>9. Selected(list, K) \in Seq(S) /\ Len(Selected(list, K)) = c
  BY <1>1, <1>8
<1> QED BY <1>2, <1>3, <1>6, <1>9 DEF c

\* The same, by place.
LEMMA SelectedElements ==
    ASSUME NEW S, NEW list \in Seq(S), NEW K \in SUBSET DOMAIN list
    PROVE  /\ \A n \in DOMAIN Selected(list, K) :
                 \E k \in K : Selected(list, K)[n] = list[k]
           /\ \A k \in K : \E n \in DOMAIN Selected(list, K) :
                 Selected(list, K)[n] = list[k]
<1>1. DOMAIN Selected(list, K) = 1..Cardinality(K)
  BY SelectedFacts
<1> QED BY <1>1, SelectedFacts

\* f lists the n numbers of K upwards.
Enumerates(f, n, K) ==
    /\ f \in [1..n -> K]
    /\ \A i, j \in 1..n : i < j => f[i] < f[j]
    /\ \A k \in K : \E i \in 1..n : f[i] = k

\* Numbers that follow each other upwards are numbered as they come.
LEMMA RankOfEnumeration ==
    ASSUME NEW n \in Nat, NEW K, K \subseteq Nat, NEW f \in [1..n -> K],
           \A i, j \in 1..n : i < j => f[i] < f[j],
           \A k \in K : \E i \in 1..n : f[i] = k
    PROVE  /\ IsFiniteSet(K) /\ Cardinality(K) = n
           /\ \A i \in 1..n : Rank(K, f[i]) = i
<1>1. \A i, j \in 1..n : f[i] = f[j] => i = j
  <2>1. ASSUME NEW i \in 1..n, NEW j \in 1..n, f[i] = f[j]
        PROVE  i = j
    <3>0. f[i] \in K /\ f[j] \in K
      OBVIOUS
    <3>1. i \in Nat /\ j \in Nat
      OBVIOUS
    <3>2. f[i] \in Nat
      BY <3>0
    <3>3. f[j] \in Nat
      BY <3>0
    <3>4. ~ (i < j) /\ ~ (j < i)
      BY <2>1, <3>1, <3>2, <3>3
    <3> QED BY <3>1, <3>4
  <2> QED BY <2>1
<1>2. ExistsBijection(1..n, K)
  <2>1. f \in Bijection(1..n, K)
    BY <1>1 DEF Bijection, Injection, Surjection, IsInjective
  <2> QED BY <2>1 DEF ExistsBijection
<1>3. IsFiniteSet(K) /\ Cardinality(K) = n
  BY <1>2, FS_CountingElements, FS_NatBijection
<1>4. ASSUME NEW i \in 1..n
      PROVE  Rank(K, f[i]) = i
  <2> DEFINE U == {k \in K : k <= f[i]}
             g == [j \in 1..i |-> f[j]]
  <2>1. i \in Nat /\ \A j \in 1..i : j \in 1..n
    OBVIOUS
  <2>2. \A j \in 1..n : f[j] <= f[i] <=> j <= i
    <3>1. ASSUME NEW j \in 1..n
          PROVE  f[j] <= f[i] <=> j <= i
      <4>1. f[j] \in Nat /\ f[i] \in Nat
        OBVIOUS
      <4>2. /\ j < i => f[j] < f[i]
            /\ i < j => f[i] < f[j]
        OBVIOUS
      <4> QED BY <4>1, <4>2
    <3> QED BY <3>1
  <2>3. g \in [1..i -> U]
    BY <2>1, <2>2
  <2>4. \A k \in U : \E j \in 1..i : g[j] = k
    <3>1. ASSUME NEW k \in U
          PROVE  \E j \in 1..i : g[j] = k
      <4>1. PICK j \in 1..n : f[j] = k
        OBVIOUS
      <4>2. j \in 1..i
        BY <2>2, <4>1
      <4> QED BY <4>1, <4>2
    <3> QED BY <3>1
  <2>5. \A j, k \in 1..i : g[j] = g[k] => j = k
    BY <1>1, <2>1
  <2>6. ExistsBijection(1..i, U)
    <3> HIDE DEF U, g
    <3>1. g \in Bijection(1..i, U)
      BY <2>3, <2>4, <2>5 DEF Bijection, Injection, Surjection, IsInjective
    <3> QED BY <3>1 DEF ExistsBijection
  <2>7. Cardinality(U) = i
    <3> HIDE DEF U, g
    <3> QED BY <2>1, <2>6, FS_CountingElements
  <2> QED BY <2>7 DEF Rank
<1> QED BY <1>3, <1>4

\* Selected is the one list that goes through the positions upwards.
LEMMA SelectedEnumeration ==
    ASSUME NEW S, NEW list \in Seq(S), NEW K \in SUBSET DOMAIN list,
           NEW n \in Nat, NEW f, Enumerates(f, n, K)
    PROVE  /\ Cardinality(K) = n
           /\ \A i \in 1..n : Selected(list, K)[i] = list[f[i]]
<1>1. K \subseteq Nat
  BY PositionsFinite
<1>2. Cardinality(K) = n /\ \A i \in 1..n : Rank(K, f[i]) = i
  BY <1>1, RankOfEnumeration DEF Enumerates
<1>3. \A i \in 1..n : f[i] \in K
  BY DEF Enumerates
<1> QED BY <1>2, <1>3, SelectedFacts

\* The positions in their order.
LEMMA SelectedPlaces ==
    ASSUME NEW S, NEW list \in Seq(S), NEW K \in SUBSET DOMAIN list
    PROVE  \E f : /\ Enumerates(f, Cardinality(K), K)
                  /\ \A i \in 1..Cardinality(K) : Selected(list, K)[i] = list[f[i]]
<1> DEFINE c == Cardinality(K)
           f == [i \in 1..c |-> CHOOSE k \in K : Rank(K, k) = i]
<1>1. K \subseteq Nat /\ IsFiniteSet(K) /\ c \in Nat
  BY PositionsFinite
<1>2. /\ \A k \in K : /\ Rank(K, k) \in 1..c
                      /\ Selected(list, K)[Rank(K, k)] = list[k]
      /\ \A n \in 1..c : \E k \in K : Rank(K, k) = n
  BY SelectedFacts
<1>3. \A i \in 1..c : f[i] \in K /\ Rank(K, f[i]) = i
  BY <1>2
<1>4. f \in [1..c -> K]
  BY <1>3
<1> HIDE DEF f
<1>5. \A i \in 1..c : Selected(list, K)[i] = list[f[i]]
  BY <1>2, <1>3
<1>6. ASSUME NEW i \in 1..c, NEW j \in 1..c, i < j
      PROVE  f[i] < f[j]
  <2>1. f[i] \in K /\ f[j] \in K /\ f[i] \in Nat /\ f[j] \in Nat
    BY <1>1, <1>3
  <2>2. f[j] < f[i] => Rank(K, f[j]) < Rank(K, f[i])
    BY <1>1, <2>1, RankOrder
  <2>3. i \in Nat /\ j \in Nat
    BY <1>1
  <2> QED BY <1>3, <1>6, <2>1, <2>2, <2>3
<1>7. ASSUME NEW k \in K
      PROVE  \E i \in 1..c : f[i] = k
  <2>1. Rank(K, k) \in 1..c
    BY <1>2
  <2> DEFINE i == Rank(K, k)
  <2>2. f[i] \in K /\ Rank(K, f[i]) = Rank(K, k)
    BY <1>3, <2>1
  <2>3. /\ f[i] < k => Rank(K, f[i]) < Rank(K, k)
        /\ k < f[i] => Rank(K, k) < Rank(K, f[i])
    BY <1>1, <2>2, RankOrder
  <2>4. f[i] \in Nat /\ k \in Nat /\ Rank(K, k) \in Nat
    BY <1>1, <2>1, <2>2
  <2>5. f[i] = k
    BY <2>2, <2>3, <2>4
  <2> QED BY <2>1, <2>5
<1> QED BY <1>4, <1>5, <1>6, <1>7 DEF Enumerates

\* One position more, behind all others, is one element more.
LEMMA SelectedMore ==
    ASSUME NEW S, NEW list \in Seq(S), NEW K \in SUBSET DOMAIN list,
           NEW m \in DOMAIN list, \A k \in K : k < m
    PROVE  Selected(list, K \cup {m}) = Append(Selected(list, K), list[m])
<1> DEFINE c == Cardinality(K)
           s == Selected(list, K)
<1>0. PICK f : Enumerates(f, c, K) /\ \A i \in 1..c : s[i] = list[f[i]]
  BY SelectedPlaces
<1>1. /\ f \in [1..c -> K]
      /\ \A i \in 1..c : s[i] = list[f[i]]
      /\ \A i, j \in 1..c : i < j => f[i] < f[j]
      /\ \A k \in K : \E i \in 1..c : f[i] = k
  BY <1>0 DEF Enumerates
<1>2. c \in Nat /\ s \in Seq(S) /\ Len(s) = c /\ list[m] \in S
  BY PositionsFinite, SelectedFacts
<1> HIDE DEF c, s
<1> DEFINE d == c + 1
           g == [i \in 1..d |-> IF i = d THEN m ELSE f[i]]
           M == K \cup {m}
           t == Selected(list, M)
<1>3. \A i \in 1..d : i \in 1..c \/ i = d
  BY <1>2
<1>4. d \in 1..d /\ \A i \in 1..c : i \in 1..d /\ i # d
  BY <1>2
<1>5. /\ g \in [1..d -> M]
      /\ g[d] = m /\ \A i \in 1..c : g[i] = f[i]
  BY <1>1, <1>3, <1>4
<1> HIDE DEF g, d
<1>6. ASSUME NEW i \in 1..d, NEW j \in 1..d, i < j
      PROVE  g[i] < g[j]
  <2>1. i \in 1..c
    BY <1>2, <1>3, <1>6 DEF d
  <2>2. CASE j = d
    BY <1>1, <1>5, <2>1, <2>2
  <2>3. CASE j \in 1..c
    BY <1>1, <1>5, <1>6, <2>1, <2>3
  <2> QED BY <1>3, <2>2, <2>3
<1>7. ASSUME NEW k \in M
      PROVE  \E i \in 1..d : g[i] = k
  BY <1>1, <1>4, <1>5
<1>8. d \in Nat /\ M \in SUBSET DOMAIN list
  BY <1>2 DEF d
<1> HIDE DEF M
<1>9. Cardinality(M) = d /\ \A i \in 1..d : t[i] = list[g[i]]
  <2>1. Enumerates(g, d, M)
    BY <1>5, <1>6, <1>7 DEF Enumerates
  <2> HIDE DEF t
  <2>2. /\ Cardinality(M) = d
        /\ \A i \in 1..d : Selected(list, M)[i] = list[g[i]]
    BY <1>8, <2>1, SelectedEnumeration
  <2> QED BY <2>2 DEF t
<1>10. t \in Seq(S) /\ Len(t) = d
  BY <1>8, <1>9, SelectedFacts
<1> HIDE DEF t
<1>11. /\ Append(s, list[m]) \in Seq(S) /\ Len(Append(s, list[m])) = d
       /\ Append(s, list[m])[d] = list[m]
       /\ \A i \in 1..c : Append(s, list[m])[i] = s[i]
  BY <1>2 DEF d
<1>12. \A i \in 1..d : t[i] = Append(s, list[m])[i]
  BY <1>1, <1>3, <1>4, <1>5, <1>9, <1>11
<1>13. t = Append(s, list[m])
  BY <1>10, <1>11, <1>12, SeqEqual
<1> QED BY <1>13 DEF t, s, M

-----------------------------------------------------------------------------
(* Deduplication                                                           *)

\* K are the places, of the first n, of the results that are kept: those that
\* no better one that is kept is close to.
Greedy(list, n, K) ==
    /\ K \subseteq 1..n
    /\ \A i \in 1..n : i \in K <=> \A j \in K : j < i => ~ Close(list[j], list[i])

\* There is no second such choice.
LEMMA GreedyUnique ==
    ASSUME NEW list, NEW n \in Nat, NEW K, NEW M, Greedy(list, n, K), Greedy(list, n, M)
    PROVE  K = M
<1> DEFINE D == {i \in 1..n : ~ (i \in K <=> i \in M)}
<1>1. K \subseteq 1..n /\ M \subseteq 1..n
  BY DEF Greedy
<1>2. ASSUME D # {} PROVE FALSE
  <2>1. D \subseteq Nat
    OBVIOUS
  <2>2. PICK m \in D : \A k \in D : m <= k
    BY <1>2, <2>1, Smallest
  <2>3. ASSUME NEW j \in 1..n, j < m
        PROVE  j \in K <=> j \in M
    <3>1. j \in Nat /\ m \in Nat
      OBVIOUS
    <3> QED BY <2>2, <2>3, <3>1
  <2>4. m \in K <=> \A j \in K : j < m => ~ Close(list[j], list[m])
    BY DEF Greedy
  <2>5. m \in M <=> \A j \in M : j < m => ~ Close(list[j], list[m])
    BY DEF Greedy
  <2>6. m \in K <=> m \in M
    BY <1>1, <2>3, <2>4, <2>5
  <2> QED BY <2>6
<1> QED BY <1>1, <1>2

\* One result more, as in the loop.
LEMMA GreedyStep ==
    ASSUME NEW list \in Seq(Hits), NEW n \in 1..Len(list), NEW K,
           Greedy(list, n - 1, K)
    PROVE  LET before == Selected(list, K)
               M == IF \E j \in K : Close(list[j], list[n]) THEN K ELSE K \cup {n}
           IN  /\ Greedy(list, n, M)
               /\ Selected(list, M) =
                     IF \E i \in DOMAIN before : Close(before[i], list[n])
                     THEN before ELSE Append(before, list[n])
<1> DEFINE before == Selected(list, K)
           M == IF \E j \in K : Close(list[j], list[n]) THEN K ELSE K \cup {n}
<1>1. /\ n \in Nat /\ n \in DOMAIN list /\ K \in SUBSET DOMAIN list
      /\ \A k \in K : k \in Nat /\ k < n
  BY DEF Greedy
<1>2. /\ \A i \in 1..n : i \in 1..(n - 1) \/ i = n
      /\ \A i \in 1..(n - 1) : i \in 1..n /\ i < n
      /\ n \in 1..n
  BY <1>1
<1>3. /\ K \subseteq 1..(n - 1)
      /\ \A i \in 1..(n - 1) :
            i \in K <=> \A j \in K : j < i => ~ Close(list[j], list[i])
  BY DEF Greedy
<1>4. Greedy(list, n, M)
  <2>1. CASE \E j \in K : Close(list[j], list[n])
    <3>1. M = K /\ K \subseteq 1..n
      BY <1>2, <1>3, <2>1
    <3>2. ASSUME NEW i \in 1..n
          PROVE  i \in K <=> \A j \in K : j < i => ~ Close(list[j], list[i])
      BY <1>1, <1>2, <1>3, <2>1
    <3> QED BY <3>1, <3>2 DEF Greedy
  <2>2. CASE ~ \E j \in K : Close(list[j], list[n])
    <3>1. M = K \cup {n} /\ M \subseteq 1..n
      BY <1>2, <1>3, <2>2
    <3>2. ASSUME NEW i \in 1..n
          PROVE  i \in M <=> \A j \in M : j < i => ~ Close(list[j], list[i])
      <4>1. CASE i = n
        <5>1. ~ (n < n)
          BY <1>1
        <5> QED BY <2>2, <3>1, <4>1, <5>1
      <4>2. CASE i \in 1..(n - 1)
        <5>1. i \in Nat /\ i # n /\ ~ (n < i)
          BY <1>1, <4>2
        <5> QED BY <1>3, <3>1, <4>2, <5>1
      <4> QED BY <1>2, <4>1, <4>2
    <3> QED BY <3>1, <3>2 DEF Greedy
  <2> QED BY <2>1, <2>2
<1>5. (\E i \in DOMAIN before : Close(before[i], list[n]))
        <=> \E j \in K : Close(list[j], list[n])
  BY <1>1, SelectedElements
<1>6. Selected(list, K \cup {n}) = Append(before, list[n])
  BY <1>1, SelectedMore
<1>7. Selected(list, M) = IF \E i \in DOMAIN before : Close(before[i], list[n])
                          THEN before ELSE Append(before, list[n])
  BY <1>5, <1>6
<1> QED BY <1>4, <1>7

\* Of no results, none.
LEMMA GreedyNone ==
    ASSUME NEW list \in Seq(Hits), NEW K
    PROVE  /\ Greedy(list, 0, K) <=> K = {}
           /\ Selected(list, {}) = << >>
<1>1. 1..0 = {}
  OBVIOUS
<1>2. Greedy(list, 0, K) <=> K = {}
  BY <1>1 DEF Greedy
<1>3. {} \in SUBSET DOMAIN list /\ Cardinality({}) = 0
  BY FS_EmptySet
<1>4. Selected(list, {}) \in Seq(Hits) /\ Len(Selected(list, {})) = 0
  BY <1>3, SelectedFacts
<1>5. Selected(list, {}) = << >>
  BY <1>4, EmptySeq
<1> QED BY <1>2, <1>5

\* There is such a choice of any number of results.
LEMMA GreedyExists ==
    ASSUME NEW list \in Seq(Hits), NEW n \in 0..Len(list)
    PROVE  \E K : Greedy(list, n, K)
<1> DEFINE D == {i \in 0..Len(list) : ~ \E K : Greedy(list, i, K)}
<1>1. ASSUME D # {} PROVE FALSE
  <2>1. D \subseteq Nat
    OBVIOUS
  <2>2. PICK m \in D : \A k \in D : m <= k
    BY <1>1, <2>1, Smallest
  <2>3. m # 0
    BY GreedyNone
  <2>4. m \in 1..Len(list) /\ m - 1 \in 0..Len(list) /\ ~ (m <= m - 1)
    BY <2>3
  <2>5. PICK K : Greedy(list, m - 1, K)
    BY <2>2, <2>4
  <2>6. \E M : Greedy(list, m, M)
    BY <2>4, <2>5, GreedyStep
  <2> QED BY <2>6
<1> QED BY <1>1

\* The one choice of the places.
Chosen(list, n) == CHOOSE K : Greedy(list, n, K)

\* It is the one that was asked for, among the places of the list.
LEMMA ChosenFacts ==
    ASSUME NEW list \in Seq(Hits), NEW n \in 0..Len(list)
    PROVE  /\ Greedy(list, n, Chosen(list, n))
           /\ Chosen(list, n) \in SUBSET DOMAIN list
           /\ \A K : Greedy(list, n, K) => K = Chosen(list, n)
<1>1. Greedy(list, n, Chosen(list, n))
  BY GreedyExists DEF Chosen
<1>2. n \in Nat
  OBVIOUS
<1>3. Chosen(list, n) \subseteq 1..n
  BY <1>1 DEF Greedy
<1>4. \A i \in 1..n : i \in DOMAIN list
  OBVIOUS
<1> QED BY <1>1, <1>2, <1>3, <1>4, GreedyUnique

\* One round of the loop.
LEMMA ChosenStep ==
    ASSUME NEW list \in Seq(Hits), NEW n \in 1..Len(list)
    PROVE  LET before == Selected(list, Chosen(list, n - 1))
           IN  Selected(list, Chosen(list, n)) =
                  IF \E i \in DOMAIN before : Close(before[i], list[n])
                  THEN before ELSE Append(before, list[n])
<1>1. n \in 0..Len(list) /\ n - 1 \in 0..Len(list)
  OBVIOUS
<1>2. Greedy(list, n - 1, Chosen(list, n - 1))
  BY <1>1, ChosenFacts
<1> DEFINE K == Chosen(list, n - 1)
           M == IF \E j \in K : Close(list[j], list[n]) THEN K ELSE K \cup {n}
<1>3. Greedy(list, n, M)
  BY <1>2, GreedyStep
<1>4. M = Chosen(list, n)
  BY <1>1, <1>3, ChosenFacts
<1> QED BY <1>2, <1>4, GreedyStep

\* Deduplicated, the loop as a function, keeps those that no better one that
\* is kept is close to.
LEMMA DeduplicatedChosen ==
    ASSUME NEW list \in Seq(Hits)
    PROVE  Deduplicated(list) = Selected(list, Chosen(list, Len(list)))
<1> DEFINE Next(before, n) ==
               IF \E i \in DOMAIN before : Close(before[i], list[n])
               THEN before ELSE Append(before, list[n])
           Body(b) == [n \in 0..Len(list) |->
                          IF n = 0 THEN << >> ELSE Next(b[n - 1], n)]
           f == [n \in 0..Len(list) |-> Selected(list, Chosen(list, n))]
           best == CHOOSE b : b = Body(b)
<1>1. Len(list) \in Nat /\ 0 \in 0..Len(list) /\ Len(list) \in 0..Len(list)
  OBVIOUS
<1>2. Selected(list, Chosen(list, 0)) = << >>
  BY <1>1, ChosenFacts, GreedyNone
<1>3. \A n \in 1..Len(list) : n \in 0..Len(list) /\ n - 1 \in 0..Len(list) /\ n # 0
  OBVIOUS
<1>4. \A n \in 0..Len(list) : n # 0 => n \in 1..Len(list)
  OBVIOUS
<1>5. \A n \in 1..Len(list) : Selected(list, Chosen(list, n))
                                 = Next(Selected(list, Chosen(list, n - 1)), n)
  BY ChosenStep
<1> HIDE DEF Next
<1>6. f = Body(f)
  BY <1>2, <1>3, <1>4, <1>5
<1> HIDE DEF f
<1>7. best = Body(best)
  BY <1>6
<1> HIDE DEF best
<1>8. /\ best[0] = << >>
      /\ \A n \in 1..Len(list) : best[n] = Next(best[n - 1], n)
  BY <1>1, <1>3, <1>7
<1>9. \A n \in 0..Len(list) : best[n] = Selected(list, Chosen(list, n))
  <2> DEFINE D == {i \in 0..Len(list) : best[i] # Selected(list, Chosen(list, i))}
  <2>1. ASSUME D # {} PROVE FALSE
    <3>1. D \subseteq Nat
      OBVIOUS
    <3>2. PICK m \in D : \A k \in D : m <= k
      BY <2>1, <3>1, Smallest
    <3>3. m # 0
      BY <1>2, <1>8
    <3>4. m \in 1..Len(list) /\ m - 1 \in 0..Len(list) /\ ~ (m <= m - 1)
      BY <3>3
    <3>5. best[m - 1] = Selected(list, Chosen(list, m - 1))
      BY <3>2, <3>4
    <3> QED BY <1>5, <1>8, <3>4, <3>5
  <2> QED BY <2>1
<1>10. Deduplicated(list) = best[Len(list)]
  BY DEF Deduplicated, best, Next
<1> QED BY <1>1, <1>9, <1>10

\* The loop keeps what the properties of the search call representatives.
LEMMA DeduplicatedRepresents ==
    ASSUME NEW list \in Seq(Hits)
    PROVE  /\ Deduplicated(list) = Representatives(list)
           /\ Deduplicated(list) \in Seq(Hits)
<1> DEFINE best == CHOOSE K \in SUBSET (DOMAIN list) :
                       \A i \in DOMAIN list :
                           i \in K <=> \A j \in K : j < i => ~ Close(list[j], list[i])
           C == Chosen(list, Len(list))
<1>1. Len(list) \in 0..Len(list) /\ DOMAIN list = 1..Len(list)
  OBVIOUS
<1>2. C \in SUBSET DOMAIN list /\ Greedy(list, Len(list), C)
  BY <1>1, ChosenFacts
<1>3. \A i \in DOMAIN list : i \in C <=> \A j \in C : j < i => ~ Close(list[j], list[i])
  BY <1>1, <1>2 DEF Greedy
<1> HIDE DEF C
<1>4. /\ best \in SUBSET DOMAIN list
      /\ \A i \in DOMAIN list :
            i \in best <=> \A j \in best : j < i => ~ Close(list[j], list[i])
  BY <1>2, <1>3
<1>5. Representatives(list) = Selected(list, best)
  BY DEF Representatives
<1> HIDE DEF best
<1>6. Greedy(list, Len(list), best)
  BY <1>1, <1>4 DEF Greedy
<1>7. best = C
  BY <1>1, <1>6, ChosenFacts DEF C
<1> QED BY <1>2, <1>5, <1>7, DeduplicatedChosen, SelectedFacts DEF C

\* What the loop has kept, after any number of results.
KeptSoFar == kept = Selected(ranked, Chosen(ranked, passed))

\* kept_timestamps says of a result whether one that is kept is close to it.
LEMMA SuppressedIsClose ==
    ASSUME DedupAssumption, DedupInv, NEW h \in Hits
    PROVE  Suppressed(h) <=> \E i \in DOMAIN kept : Close(kept[i], h)
<1>1. VideoOf[h] \in Videos /\ \A k \in DOMAIN kept : kept[k] \in Hits
  BY DEF DedupAssumption, DedupInv, DedupTypeOK
<1>2. ASSUME Suppressed(h)
      PROVE  \E i \in DOMAIN kept : Close(kept[i], h)
  <2>1. PICK t \in DOMAIN keptAt[VideoOf[h]] : Near(StartOf[h], keptAt[VideoOf[h]][t])
    BY <1>2 DEF Suppressed
  <2>2. PICK k \in DOMAIN kept :
            VideoOf[kept[k]] = VideoOf[h] /\ StartOf[kept[k]] = keptAt[VideoOf[h]][t]
    BY <1>1, <2>1 DEF DedupInv, KeptTimes
  <2> QED BY <2>1, <2>2 DEF Close, Near
<1>3. ASSUME NEW i \in DOMAIN kept, Close(kept[i], h)
      PROVE  Suppressed(h)
  <2>1. PICK t \in DOMAIN keptAt[VideoOf[kept[i]]] :
            keptAt[VideoOf[kept[i]]][t] = StartOf[kept[i]]
    BY DEF DedupInv, KeptTimes
  <2> QED BY <1>3, <2>1 DEF Suppressed, Close, Near
<1> QED BY <1>2, <1>3

\* Each round of the loop makes the choice for one result more.
LEMMA KeptSoFarStep ==
    ASSUME DedupAssumption, DedupInv, KeptSoFar, [DedupNext]_dedupVars
    PROVE  KeptSoFar'
<1>1. CASE DedupCall
  <2>1. ranked' \in Seq(Hits) /\ passed' = 0 /\ kept' = << >>
    BY <1>1 DEF DedupCall, DedupAssumption
  <2>2. 0 \in 0..Len(ranked')
    BY <2>1
  <2>3. Selected(ranked', Chosen(ranked', 0)) = << >>
    BY <2>1, <2>2, ChosenFacts, GreedyNone
  <2> QED BY <2>1, <2>3 DEF KeptSoFar
<1>2. CASE SuppressHit \/ KeepHit
  <2> DEFINE n == passed + 1
  <2>1. /\ ranked \in Seq(Hits) /\ n \in 1..Len(ranked) /\ n - 1 = passed
        /\ ranked[n] \in Hits /\ ranked' = ranked /\ passed' = n
    BY <1>2 DEF DedupInv, DedupTypeOK, SuppressHit, KeepHit
  <2>2. kept' = IF Suppressed(ranked[n]) THEN kept ELSE Append(kept, ranked[n])
    BY <1>2 DEF SuppressHit, KeepHit
  <2> HIDE DEF n
  <2>3. kept' = IF \E i \in DOMAIN kept : Close(kept[i], ranked[n])
                THEN kept ELSE Append(kept, ranked[n])
    BY <2>1, <2>2, SuppressedIsClose
  <2>4. kept = Selected(ranked, Chosen(ranked, n - 1))
    BY <2>1 DEF KeptSoFar
  <2>5. kept' = Selected(ranked, Chosen(ranked, n))
    BY <2>1, <2>3, <2>4, ChosenStep
  <2> QED BY <2>1, <2>5 DEF KeptSoFar
<1>3. CASE UNCHANGED dedupVars
  BY <1>3 DEF dedupVars, KeptSoFar
<1> QED BY <1>1, <1>2, <1>3 DEF DedupNext

\* The loop, with its kept_timestamps per video, returns what the request of
\* search is given for it: for every list, window and assignment of times.
THEOREM DedupComputes ==
    DedupSpec => [](passed = Len(ranked) => kept = Deduplicated(ranked))
<1>1. DedupInit => KeptSoFar
  <2>1. SUFFICES ASSUME DedupInit PROVE KeptSoFar
    OBVIOUS
  <2>2. ranked \in Seq(Hits) /\ ranked = << >> /\ passed = 0 /\ kept = << >>
    BY <2>1 DEF DedupInit
  <2>3. 0 \in 0..Len(ranked)
    BY <2>2
  <2> QED BY <2>2, <2>3, ChosenFacts, GreedyNone DEF KeptSoFar
<1>2. DedupInv /\ KeptSoFar /\ [DedupNext]_dedupVars => KeptSoFar'
  BY DedupAssumption, KeptSoFarStep
<1>3. DedupInv /\ KeptSoFar => (passed = Len(ranked) => kept = Deduplicated(ranked))
  BY DeduplicatedChosen DEF KeptSoFar, DedupInv, DedupTypeOK
<1> QED BY <1>1, <1>2, <1>3, DedupInvariant, PTL DEF DedupSpec

-----------------------------------------------------------------------------
(* Search: what every state has                                            *)

\* The list that a search answers from when these are its hydrated hits.
ListOf(k, S) == Deduplicated(Ranked(k, S))

Visits ==
    [key : Keys, next : Int \cup {End}, given : Seq(Hits), view : SUBSET Hits,
     begun : BOOLEAN, uneven : BOOLEAN]

SearchTypeOK ==
    /\ points \subseteq Hits /\ joined \subseteq Videos
    /\ changes \in Nat
    /\ quiet \in 0..QuietEnough
    /\ cache \in [Keys -> [list : Seq(Hits), view : SUBSET Hits, ttl : 0..ResultTTL]]
    /\ place \in [Clients -> {"away", "retrieve", "hydrate", "respond"}]
    /\ size \in [Clients -> Int]
    /\ todo \in [Clients -> Seq(Hits)]
    /\ found \in [Clients -> SUBSET Hits]
    /\ delay \in [Clients -> 0..MaxDelay]
    /\ visit \in [Clients -> Visits]

\* The head of a list.
LEMMA LeadingFacts ==
    ASSUME NEW S, NEW list \in Seq(S), NEW n \in Nat
    PROVE  LET m == IF n < Len(list) THEN n ELSE Len(list)
           IN  /\ Leading(list, n) = SubSeq(list, 1, m)
               /\ Leading(list, n) \in Seq(S)
               /\ Len(Leading(list, n)) = m
               /\ m \in 0..Len(list)
               /\ \A i \in 1..m : Leading(list, n)[i] = list[i]
<1> DEFINE m == IF n < Len(list) THEN n ELSE Len(list)
<1>1. m \in Nat /\ m <= Len(list) /\ Len(list) \in Nat
  OBVIOUS
<1>2. Leading(list, n) = SubSeq(list, 1, m)
  BY DEF Leading
<1> HIDE DEF m
<1>3. /\ SubSeq(list, 1, m) \in Seq(S)
      /\ Len(SubSeq(list, 1, m)) = m
      /\ \A i \in 1..m : SubSeq(list, 1, m)[i] = list[i]
  BY <1>1
<1> QED BY <1>1, <1>2, <1>3 DEF m

\* Whatever the hits: a list, and deduplicated the representatives of it.
LEMMA RankedFacts ==
    ASSUME SearchAssumption, NEW k \in Keys, NEW S
    PROVE  /\ Ranking[k.query] \in Seq(Hits)
           /\ {i \in DOMAIN Ranking[k.query] : Ranking[k.query][i] \in S}
                 \in SUBSET DOMAIN Ranking[k.query]
           /\ Ranked(k, S) \in Seq(Hits)
           /\ ListOf(k, S) \in Seq(Hits)
           /\ ListOf(k, S) = Representatives(Ranked(k, S))
<1> DEFINE list == Ranking[k.query]
           K == {i \in DOMAIN list : list[i] \in S}
<1>1. list \in Seq(Hits)
  BY DEF SearchAssumption
<1>2. K \in SUBSET DOMAIN list
  OBVIOUS
<1>3. Ranked(k, S) = Selected(list, K)
  BY DEF Ranked
<1> HIDE DEF list, K
<1>4. Ranked(k, S) \in Seq(Hits)
  BY <1>1, <1>2, <1>3, SelectedFacts
<1> QED BY <1>1, <1>2, <1>4, DeduplicatedRepresents DEF ListOf, list, K

\* Qdrant answers with a list of points.
LEMMA NearestType ==
    ASSUME SearchAssumption, NEW k \in Keys
    PROVE  Nearest(k) \in Seq(Hits)
<1>1. TopK \in Nat
  BY DEF SearchAssumption
<1> DEFINE R == Ranked(k, {h \in points : Passes(k.filters, h)})
<1>2. R \in Seq(Hits)
  BY RankedFacts
<1>3. Nearest(k) = Leading(R, TopK)
  BY DEF Nearest
<1> HIDE DEF R
<1> QED BY <1>1, <1>2, <1>3, LeadingFacts

\* Two parts that meet.
LEMMA PartsMeet ==
    ASSUME NEW S, NEW list \in Seq(S), NEW p \in Nat, NEW e \in Nat,
           p <= e, e <= Len(list)
    PROVE  SubSeq(list, 1, p) \o SubSeq(list, p + 1, e) = SubSeq(list, 1, e)
<1> DEFINE s == SubSeq(list, 1, p)
           t == SubSeq(list, p + 1, e)
           u == SubSeq(list, 1, e)
<1>0. Len(list) \in Nat /\ p <= Len(list)
  OBVIOUS
<1>1. s \in Seq(S) /\ Len(s) = p /\ \A i \in 1..p : s[i] = list[i]
  BY <1>0
<1>2. t \in Seq(S) /\ Len(t) = e - p /\ \A i \in 1..(e - p) : t[i] = list[p + i]
  BY <1>0
<1>3. u \in Seq(S) /\ Len(u) = e /\ \A i \in 1..e : u[i] = list[i]
  BY <1>0
<1> HIDE DEF s, t, u
<1>4. s \o t \in Seq(S) /\ Len(s \o t) = e
  <2>1. s \o t \in Seq(S) /\ Len(s \o t) = Len(s) + Len(t)
    BY <1>1, <1>2, ConcatProperties
  <2>2. p + (e - p) = e
    OBVIOUS
  <2> QED BY <1>1, <1>2, <2>1, <2>2
<1>5. \A i \in 1..p : (s \o t)[i] = s[i]
  BY <1>1, <1>2
<1>6. \A i \in 1..(e - p) : (s \o t)[p + i] = t[i]
  BY <1>1, <1>2
<1>7. ASSUME NEW i \in 1..e
      PROVE  (s \o t)[i] = u[i]
  <2>0. i \in Nat
    OBVIOUS
  <2>1. CASE i <= p
    <3>1. i \in 1..p
      BY <2>1
    <3> QED BY <1>1, <1>3, <1>5, <3>1
  <2>2. CASE p < i
    <3>1. i - p \in 1..(e - p) /\ p + (i - p) = i
      BY <2>2
    <3> QED BY <1>2, <1>3, <1>6, <3>1
  <2>3. i <= p \/ p < i
    BY <2>0
  <2> QED BY <2>1, <2>2, <2>3
<1>8. s \o t = u
  BY <1>3, <1>4, <1>7, SeqEqual
<1> QED BY <1>8 DEF s, t, u

-----------------------------------------------------------------------------
(* Search: the pages of a visit                                            *)

\* The pages a client has are the head of one list, and its token the place
\* behind them.
VisitOK(v) ==
    LET whole == ListOf(v.key, v.view)
    IN  /\ v.begun /\ ~ v.uneven =>
              /\ v.given = Leading(whole, Len(v.given))
              /\ v.next = IF v.given = whole THEN End ELSE Len(v.given)
        /\ ~ v.begun => v.next \in {0, End} /\ v.given = << >>

\* A page is a list, and the next token an offset or none.
LEMMA PageType ==
    ASSUME NEW list \in Seq(Hits), NEW o \in Int, NEW n \in Int
    PROVE  /\ Page(list, o, n) \in Seq(Hits)
           /\ NextOffset(list, o, n) \in Int \cup {End}
<1> DEFINE b == SliceBound(list, o)
           e == SliceBound(list, o + n)
<1>1. b \in 0..Len(list) /\ e \in 0..Len(list) /\ Len(list) \in Nat
  BY DEF SliceBound
<1>2. Page(list, o, n) = SubSeq(list, b + 1, e)
  BY DEF Page
<1> HIDE DEF b, e
<1>3. SubSeq(list, b + 1, e) \in Seq(Hits)
  BY <1>1
<1> QED BY <1>2, <1>3 DEF NextOffset

\* The next page, appended, is the list up to its end again.
LEMMA PageFits ==
    ASSUME NEW list \in Seq(Hits), NEW had \in Seq(Hits), NEW n \in Nat \ {0},
           had = Leading(list, Len(had))
    PROVE  LET more == had \o Page(list, Len(had), n)
           IN  /\ more \in Seq(Hits)
               /\ more = Leading(list, Len(more))
               /\ NextOffset(list, Len(had), n)
                     = IF more = list THEN End ELSE Len(more)
<1> DEFINE p == Len(had)
           l == Len(list)
           e == IF p + n < l THEN p + n ELSE l
           more == had \o Page(list, p, n)
<1>1. p \in Nat /\ l \in Nat
  OBVIOUS
<1>2. p <= l /\ had = SubSeq(list, 1, p)
  BY <1>1, LeadingFacts
<1>3. e \in Nat /\ p <= e /\ e <= l
  BY <1>1, <1>2
<1>4. more = SubSeq(list, 1, e)
  <2>1. Page(list, p, n) = SubSeq(list, p + 1, e)
    <3>1. SliceBound(list, p) = p /\ SliceBound(list, p + n) = e
      BY <1>1, <1>2 DEF SliceBound
    <3> QED BY <3>1 DEF Page
  <2> HIDE DEF e
  <2>2. SubSeq(list, 1, p) \o SubSeq(list, p + 1, e) = SubSeq(list, 1, e)
    BY <1>1, <1>3, PartsMeet
  <2> HIDE DEF p
  <2> QED BY <1>2, <2>1, <2>2
<1>5. more = Leading(list, e) /\ Len(more) = e /\ more \in Seq(Hits)
  <2>1. Leading(list, e) = SubSeq(list, 1, e) /\ Len(Leading(list, e)) = e
        /\ Leading(list, e) \in Seq(Hits)
    <3> HIDE DEF e
    <3>1. e = IF e < l THEN e ELSE l
      BY <1>1, <1>3
    <3> QED BY <1>1, <1>3, <3>1, LeadingFacts
  <2> QED BY <1>4, <2>1
<1>6. e = l => more = list
  <2>1. SUFFICES ASSUME e = l PROVE more = list
    OBVIOUS
  <2>2. \A i \in 1..l : more[i] = list[i]
    <3> HIDE DEF more, e
    <3>1. l = IF l < l THEN l ELSE l
      OBVIOUS
    <3> QED BY <1>1, <1>5, <2>1, <3>1, LeadingFacts
  <2> HIDE DEF more, e
  <2> QED BY <1>5, <2>1, <2>2, SeqEqual
<1>7. e # l => more # list
  BY <1>5
<1>8. NextOffset(list, p, n) = IF e = l THEN End ELSE e
  BY <1>1 DEF NextOffset
<1> HIDE DEF p, e, more
<1>9. /\ more \in Seq(Hits) /\ more = Leading(list, Len(more))
      /\ NextOffset(list, p, n) = IF more = list THEN End ELSE Len(more)
  BY <1>5, <1>6, <1>7, <1>8
<1> QED BY <1>9 DEF p, more

\* An answer leaves the visit of its client in order, and the others alone.
LEMMA AnswerFacts ==
    ASSUME SearchAssumption, visit \in [Clients -> Visits], NEW c \in Clients,
           NEW v \in Visits, v.next # End, NEW n \in Int,
           NEW hits \in SUBSET Hits, NEW list \in Seq(Hits),
           list = ListOf(v.key, hits), VisitOK(v), Answer(c, v, n, list, hits)
    PROVE  /\ visit' \in [Clients -> Visits]
           /\ VisitOK(visit'[c])
           /\ \A d \in Clients \ {c} : visit'[d] = visit[d]
<1> DEFINE uneven == v.uneven \/ (v.begun /\ v.view # hits) \/ n < 1
           more == v.given \o Page(list, v.next, n)
           w == [key |-> v.key,
                 next |-> NextOffset(list, v.next, n),
                 given |-> IF uneven THEN << >> ELSE more,
                 view |-> IF uneven THEN {} ELSE hits,
                 begun |-> TRUE,
                 uneven |-> uneven]
<1>1. visit' = [visit EXCEPT ![c] = w]
  BY DEF Answer
<1>2. /\ v.key \in Keys /\ v.next \in Int /\ v.given \in Seq(Hits)
      /\ uneven \in BOOLEAN /\ v.begun \in BOOLEAN /\ v.uneven \in BOOLEAN
  BY DEF Visits
<1>3. ASSUME ~ uneven
      PROVE  /\ v.given = Leading(list, Len(v.given))
             /\ v.next = Len(v.given)
  <2>1. CASE v.begun
    <3>1. list = ListOf(v.key, v.view) /\ ~ v.uneven
      BY <1>3, <2>1
    <3> QED BY <2>1, <3>1 DEF VisitOK
  <2>2. CASE ~ v.begun
    <3>1. v.next = 0 /\ v.given = << >>
      BY <2>2 DEF VisitOK
    <3>2. Leading(list, 0) \in Seq(Hits) /\ Len(Leading(list, 0)) = 0
      BY LeadingFacts
    <3>3. Leading(list, 0) = << >>
      BY <3>2, EmptySeq
    <3> QED BY <3>1, <3>3
  <2> QED BY <2>1, <2>2
<1>4. ASSUME ~ uneven
      PROVE  /\ more \in Seq(Hits)
             /\ more = Leading(list, Len(more))
             /\ NextOffset(list, v.next, n) = IF more = list THEN End ELSE Len(more)
  <2> DEFINE g == v.given
  <2>1. g \in Seq(Hits) /\ g = Leading(list, Len(g)) /\ v.next = Len(g)
    BY <1>2, <1>3, <1>4
  <2>0. n \in Nat \ {0}
    BY <1>4
  <2> HIDE DEF uneven, g
  <2>2. LET m == g \o Page(list, Len(g), n)
        IN  /\ m \in Seq(Hits)
            /\ m = Leading(list, Len(m))
            /\ NextOffset(list, Len(g), n) = IF m = list THEN End ELSE Len(m)
    BY ONLY <2>0, <2>1, PageFits, list \in Seq(Hits), Zenon
  <2> QED BY <2>1, <2>2 DEF g
<1>5. NextOffset(list, v.next, n) \in Int \cup {End}
  BY <1>2, PageType
<1> HIDE DEF uneven, more
<1>6. << >> \in Seq(Hits)
  OBVIOUS
<1>7. w \in Visits
  BY <1>2, <1>4, <1>5, <1>6 DEF Visits
<1>8. VisitOK(w)
  <2>1. CASE uneven
    BY <2>1 DEF VisitOK
  <2>2. CASE ~ uneven
    <3>1. w.key = v.key /\ w.view = hits /\ w.given = more /\ w.begun
          /\ w.next = NextOffset(list, v.next, n)
      BY <2>2
    <3> HIDE DEF w
    <3> QED BY <1>4, <2>2, <3>1 DEF VisitOK
  <2> QED BY <2>1, <2>2
<1> HIDE DEF w
<1> QED BY <1>1, <1>7, <1>8

\* Every entry is the whole list of the hits it was computed from; a request
\* that goes on has a place to begin at, and a visit that is in order.
PagesInv ==
    /\ SearchTypeOK
    /\ \A k \in Keys : cache[k].ttl > 0 => cache[k].list = ListOf(k, cache[k].view)
    /\ \A c \in Clients : place[c] # "away" => visit[c].next # End
    /\ \A c \in Clients : VisitOK(visit[c])

LEMMA PagesStart == ASSUME SearchAssumption, SearchInit PROVE PagesInv
<1> DEFINE k0 == CHOOSE k \in Keys : TRUE
           v0 == [NewVisit(k0) EXCEPT !.next = End]
<1>1. k0 \in Keys /\ Indexed \subseteq Hits /\ ResultTTL \in Nat /\ MaxDelay \in Nat
  BY DEF SearchAssumption
<1> HIDE DEF k0
<1>2. /\ v0 \in Visits /\ VisitOK(v0)
  <2> DEFINE r == NewVisit(k0)
  <2>1. r \in Visits /\ r.given = << >> /\ r.begun = FALSE
    <3>1. << >> \in Seq(Hits)
      OBVIOUS
    <3> QED BY <1>1, <3>1 DEF NewVisit, Visits
  <2> HIDE DEF r
  <2>2. v0 = [r EXCEPT !.next = End]
    BY DEF r
  <2>3. v0 \in Visits /\ v0.given = << >> /\ v0.begun = FALSE /\ v0.next = End
    BY <2>1, <2>2 DEF Visits
  <2> HIDE DEF v0
  <2> QED BY <2>3 DEF VisitOK
<1>3. visit = [c \in Clients |-> v0]
  BY DEF SearchInit, k0
<1> HIDE DEF v0
<1>4. visit \in [Clients -> Visits] /\ \A c \in Clients : VisitOK(visit[c])
  BY <1>2, <1>3
<1>5. SearchTypeOK
  BY <1>1, <1>4 DEF SearchInit, SearchTypeOK, NoEntry, QuietEnough
<1>6. \A k \in Keys : cache[k].ttl = 0
  BY DEF SearchInit, NoEntry
<1>7. \A c \in Clients : place[c] = "away"
  BY DEF SearchInit
<1> QED BY <1>4, <1>5, <1>6, <1>7 DEF PagesInv

\* What a client asks for is in order.
LEMMA WishFacts ==
    ASSUME SearchAssumption, PagesInv, NEW c \in Clients, NEW v \in Wishes(c)
    PROVE  v \in Visits /\ v.next # End /\ VisitOK(v)
<1>1. CASE \E k \in Asks[c] : v = NewVisit(k)
  <2>1. PICK k \in Asks[c] : v = NewVisit(k)
    BY <1>1
  <2>2. k \in Keys /\ << >> \in Seq(Hits)
    BY DEF SearchAssumption
  <2>3. v \in Visits /\ v.next = 0 /\ v.given = << >> /\ v.begun = FALSE
    BY <2>1, <2>2 DEF NewVisit, Visits
  <2>4. End \notin Int
    BY DEF SearchAssumption
  <2> QED BY <2>3, <2>4 DEF VisitOK
<1>2. CASE v = visit[c] /\ visit[c].next # End
  BY <1>2 DEF PagesInv, SearchTypeOK
<1> QED BY <1>1, <1>2 DEF Wishes

\* The numbers of the configuration.
LEMMA QuietFacts ==
    ASSUME SearchAssumption
    PROVE  /\ ResultTTL \in Nat \ {0} /\ MaxDelay \in Nat /\ TopK \in Nat
           /\ QuietEnough = ResultTTL + MaxDelay /\ QuietEnough \in Nat
           /\ 0 \in 0..QuietEnough /\ 0 \in 0..MaxDelay
           /\ \A c \in Clients : \A n \in PageSizes[c] : n \in Int
BY DEF SearchAssumption, QuietEnough

\* What goes on beside the requests touches none of it.
LEMMA BesidePages ==
    ASSUME SearchAssumption, PagesInv, UNCHANGED <<cache, requestVars, visit>>,
           SearchTypeOK'
    PROVE  PagesInv'
BY DEF PagesInv, requestVars

\* Indexing and embedding are beside the requests.
LEMMA ChangesPages ==
    ASSUME SearchAssumption, PagesInv,
           \/ \E h \in Hits : IndexPoint(h)
           \/ \E v \in Videos : LoseRows(v) \/ WriteRows(v)
           \/ UNCHANGED searchVars
    PROVE  PagesInv'
<1>1. UNCHANGED <<cache, requestVars, visit>>
  BY DEF IndexPoint, LoseRows, WriteRows, searchVars
<1>2. points' \subseteq Hits /\ joined' \subseteq Videos
  BY DEF IndexPoint, LoseRows, WriteRows, searchVars, indexVars, PagesInv, SearchTypeOK
<1>3. changes' \in Nat /\ quiet' \in 0..QuietEnough
  BY QuietFacts
     DEF IndexPoint, LoseRows, WriteRows, searchVars, indexVars, PagesInv, SearchTypeOK
<1>4. SearchTypeOK'
  BY <1>1, <1>2, <1>3 DEF requestVars, PagesInv, SearchTypeOK
<1> QED BY <1>1, <1>4, BesidePages

\* An entry that lives on is the entry it was.
LEMMA TickPages ==
    ASSUME SearchAssumption, PagesInv, Tick
    PROVE  PagesInv'
<1> DEFINE CacheEntries == [list : Seq(Hits), view : SUBSET Hits, ttl : 0..ResultTTL]
<1>1. /\ points' = points /\ joined' = joined /\ changes' = changes /\ place' = place
      /\ size' = size /\ todo' = todo /\ found' = found /\ visit' = visit
      /\ quiet' = IF quiet < QuietEnough THEN quiet + 1 ELSE quiet
      /\ cache' = [k \in Keys |->
            IF cache[k].ttl > 1 THEN [cache[k] EXCEPT !.ttl = @ - 1] ELSE NoEntry]
      /\ delay' = [c \in Clients |-> IF InFlight(c) THEN delay[c] + 1 ELSE delay[c]]
      /\ \A c \in Clients : InFlight(c) => delay[c] < MaxDelay
  BY DEF Tick, indexVars
<1>2. quiet' \in 0..QuietEnough
  BY <1>1, QuietFacts DEF PagesInv, SearchTypeOK
<1>3. ASSUME NEW k \in Keys
      PROVE  /\ cache'[k] \in CacheEntries
             /\ cache'[k].ttl > 0 =>
                   cache'[k].list = cache[k].list /\ cache'[k].view = cache[k].view
                   /\ cache[k].ttl > 0
  <2> DEFINE e == cache[k]
  <2>1. e \in CacheEntries /\ e.ttl \in 0..ResultTTL /\ ResultTTL \in Nat
    BY QuietFacts DEF PagesInv, SearchTypeOK
  <2>2. cache'[k] = IF e.ttl > 1 THEN [e EXCEPT !.ttl = e.ttl - 1] ELSE NoEntry
    BY <1>1
  <2> HIDE DEF e
  <2>3. CASE e.ttl > 1
    <3>1. e.ttl - 1 \in 0..ResultTTL /\ e.ttl > 0
      BY <2>1, <2>3
    <3>2. cache'[k] = [e EXCEPT !.ttl = e.ttl - 1]
      BY <2>2, <2>3
    <3> QED BY <2>1, <3>1, <3>2 DEF e
  <2>4. CASE ~ (e.ttl > 1)
    <3>1. cache'[k] = NoEntry /\ NoEntry.ttl = 0
      BY <2>2, <2>4 DEF NoEntry
    <3>2. NoEntry \in CacheEntries
      BY <2>1 DEF NoEntry
    <3> QED BY <3>1, <3>2
  <2> QED BY <2>3, <2>4
<1>4. cache' \in [Keys -> CacheEntries]
  BY <1>1, <1>3
<1>5. delay' \in [Clients -> 0..MaxDelay]
  BY <1>1, QuietFacts DEF PagesInv, SearchTypeOK
<1>6. SearchTypeOK'
  BY <1>1, <1>2, <1>4, <1>5 DEF PagesInv, SearchTypeOK
<1>7. \A k \in Keys : cache'[k].ttl > 0 => cache'[k].list = ListOf(k, cache'[k].view)
  BY <1>3 DEF PagesInv
<1> QED BY <1>1, <1>6, <1>7 DEF PagesInv

\* A page from the cache.
LEMMA HitPages ==
    ASSUME SearchAssumption, PagesInv, NEW c \in Clients, NEW v \in Wishes(c),
           NEW n \in PageSizes[c], Hit(c, v, n)
    PROVE  PagesInv'
<1> DEFINE list == cache[v.key].list
           hits == cache[v.key].view
<1>1. /\ Answer(c, v, n, list, hits) /\ cache[v.key].ttl > 0
      /\ UNCHANGED <<points, joined, changes, quiet, cache, place, size, todo, found,
                     delay>>
      /\ place[c] = "away"
  BY DEF Hit, EntryFor, indexVars, requestVars
<1>2. v \in Visits /\ v.next # End /\ VisitOK(v) /\ v.key \in Keys
  BY WishFacts DEF Visits
<1>3. /\ list \in Seq(Hits) /\ hits \in SUBSET Hits /\ list = ListOf(v.key, hits)
      /\ n \in Int /\ visit \in [Clients -> Visits]
  BY <1>1, <1>2, QuietFacts DEF PagesInv, SearchTypeOK
<1> HIDE DEF list, hits
<1>4. /\ visit' \in [Clients -> Visits]
      /\ VisitOK(visit'[c])
      /\ \A d \in Clients \ {c} : visit'[d] = visit[d]
  BY <1>1, <1>2, <1>3, AnswerFacts
<1>5. SearchTypeOK'
  BY <1>1, <1>4 DEF PagesInv, SearchTypeOK
<1> QED BY <1>1, <1>4, <1>5 DEF PagesInv

\* A request that goes on carries what the client asked for.
LEMMA MissPages ==
    ASSUME SearchAssumption, PagesInv, NEW c \in Clients, NEW v \in Wishes(c),
           NEW n \in PageSizes[c], Miss(c, v, n)
    PROVE  PagesInv'
<1>1. /\ place' = [place EXCEPT ![c] = "retrieve"]
      /\ size' = [size EXCEPT ![c] = n]
      /\ visit' = [visit EXCEPT ![c] = v]
      /\ UNCHANGED <<points, joined, changes, quiet, cache, todo, found, delay>>
  BY DEF Miss, GoOn, indexVars
<1>2. v \in Visits /\ v.next # End /\ VisitOK(v) /\ n \in Int
  BY WishFacts, QuietFacts
<1>3. SearchTypeOK'
  BY <1>1, <1>2 DEF PagesInv, SearchTypeOK
<1> QED BY <1>1, <1>2, <1>3 DEF PagesInv, SearchTypeOK

\* The points retrieved are a list.
LEMMA RetrievePages ==
    ASSUME SearchAssumption, PagesInv, NEW c \in Clients, Retrieve(c)
    PROVE  PagesInv'
<1> DEFINE near == Nearest(visit[c].key)
<1>1. /\ todo' = [todo EXCEPT ![c] = near]
      /\ place' = [place EXCEPT ![c] = "hydrate"]
      /\ place[c] = "retrieve"
      /\ UNCHANGED <<points, joined, changes, quiet, cache, size, found, delay, visit>>
  BY DEF Retrieve, GoOn, indexVars
<1>2. near \in Seq(Hits)
  <2>1. visit[c].key \in Keys
    BY DEF PagesInv, SearchTypeOK, Visits
  <2> QED BY <2>1, NearestType
<1> HIDE DEF near
<1>3. SearchTypeOK'
  BY <1>1, <1>2 DEF PagesInv, SearchTypeOK
<1> QED BY <1>1, <1>3 DEF PagesInv, SearchTypeOK

\* A request that is over leaves its visit.
LEMMA OverTypes ==
    ASSUME SearchAssumption, PagesInv, NEW c \in Clients, Over(c)
    PROVE  /\ place' \in [Clients -> {"away", "retrieve", "hydrate", "respond"}]
           /\ size' \in [Clients -> Int]
           /\ todo' \in [Clients -> Seq(Hits)]
           /\ found' \in [Clients -> SUBSET Hits]
           /\ delay' \in [Clients -> 0..MaxDelay]
           /\ place'[c] = "away"
           /\ \A d \in Clients \ {c} : place'[d] = place[d] /\ size'[d] = size[d]
<1>1. << >> \in Seq(Hits)
  OBVIOUS
<1> QED BY <1>1, QuietFacts DEF Over, PagesInv, SearchTypeOK

LEMMA RetrieveFailsPages ==
    ASSUME SearchAssumption, PagesInv, NEW c \in Clients, RetrieveFails(c)
    PROVE  PagesInv'
<1>1. Over(c) /\ UNCHANGED <<points, joined, changes, quiet, cache, visit>>
  BY DEF RetrieveFails, indexVars
<1>2. SearchTypeOK'
  BY <1>1, OverTypes DEF PagesInv, SearchTypeOK
<1> QED BY <1>1, <1>2, OverTypes DEF PagesInv

\* One point less to join, one hit more or not.
LEMMA HydratePages ==
    ASSUME SearchAssumption, PagesInv, NEW c \in Clients,
           HydratePoint(c) \/ HydrateFails(c)
    PROVE  PagesInv'
<1>1. /\ UNCHANGED <<points, joined, changes, cache, place, size, delay, visit>>
      /\ todo[c] # << >>
      /\ todo' = [todo EXCEPT ![c] = Tail(todo[c])]
      /\ quiet' = quiet \/ quiet' = 0
      /\ \/ found' = found
         \/ found' = [found EXCEPT ![c] = found[c] \cup {Head(todo[c])}]
  BY DEF HydratePoint, HydrateFails, indexVars
<1>2. Head(todo[c]) \in Hits /\ Tail(todo[c]) \in Seq(Hits)
  <2>1. todo[c] \in Seq(Hits)
    BY DEF PagesInv, SearchTypeOK
  <2> QED BY <1>1, <2>1
<1>3. todo' \in [Clients -> Seq(Hits)]
  BY <1>1, <1>2 DEF PagesInv, SearchTypeOK
<1>6. found' \in [Clients -> SUBSET Hits]
  <2> DEFINE more == found[c] \cup {Head(todo[c])}
  <2>1. found \in [Clients -> SUBSET Hits]
    BY DEF PagesInv, SearchTypeOK
  <2>2. more \in SUBSET Hits
    BY <1>2, <2>1
  <2>3. found' = found \/ found' = [found EXCEPT ![c] = more]
    BY <1>1
  <2> HIDE DEF more
  <2> QED BY <2>1, <2>2, <2>3
<1>4. quiet' \in 0..QuietEnough
  BY <1>1, QuietFacts DEF PagesInv, SearchTypeOK
<1>5. SearchTypeOK'
  BY <1>1, <1>3, <1>4, <1>6 DEF PagesInv, SearchTypeOK
<1> QED BY <1>1, <1>5 DEF PagesInv

\* The whole list is cached, with the hits it was computed from.
LEMMA StorePages ==
    ASSUME SearchAssumption, PagesInv, NEW c \in Clients, Store(c) \/ StoreFails(c)
    PROVE  PagesInv'
<1> DEFINE k == visit[c].key
           e == [list |-> Results(c), view |-> found[c], ttl |-> ResultTTL]
<1>1. /\ place' = [place EXCEPT ![c] = "respond"]
      /\ place[c] = "hydrate"
      /\ UNCHANGED <<points, joined, changes, quiet, size, todo, found, delay, visit>>
      /\ cache' = cache \/ cache' = [cache EXCEPT ![k] = e]
  BY DEF Store, StoreFails, GoOn, indexVars
<1>2. k \in Keys /\ found[c] \in SUBSET Hits
  BY DEF PagesInv, SearchTypeOK, Visits
<1>3. Results(c) = ListOf(k, found[c]) /\ Results(c) \in Seq(Hits)
  BY <1>2, RankedFacts DEF Results, ListOf
<1>4. /\ e \in [list : Seq(Hits), view : SUBSET Hits, ttl : 0..ResultTTL]
      /\ e.list = ListOf(k, e.view)
  BY <1>2, <1>3, QuietFacts
<1> HIDE DEF e, k
<1>5. cache' \in [Keys -> [list : Seq(Hits), view : SUBSET Hits, ttl : 0..ResultTTL]]
  BY <1>1, <1>2, <1>4 DEF PagesInv, SearchTypeOK
<1>6. SearchTypeOK'
  BY <1>1, <1>5 DEF PagesInv, SearchTypeOK
<1>7. ASSUME NEW l \in Keys, cache'[l].ttl > 0
      PROVE  cache'[l].list = ListOf(l, cache'[l].view)
  <2>1. cache'[l] = cache[l] \/ (l = k /\ cache'[l] = e)
    BY <1>1, <1>2 DEF PagesInv, SearchTypeOK
  <2> QED BY <1>4, <1>7, <2>1 DEF PagesInv
<1> QED BY <1>1, <1>6, <1>7 DEF PagesInv, SearchTypeOK

\* A page of what was just computed.
LEMMA RespondPages ==
    ASSUME SearchAssumption, PagesInv, NEW c \in Clients, Respond(c)
    PROVE  PagesInv'
<1> DEFINE v == visit[c]
           list == Results(c)
           n == size[c]
           hits == found[c]
<1>1. /\ Answer(c, v, n, list, hits) /\ Over(c) /\ place[c] # "away"
      /\ UNCHANGED <<points, joined, changes, quiet, cache>>
  BY DEF Respond, indexVars
<1>2. /\ v \in Visits /\ v.next # End /\ VisitOK(v) /\ v.key \in Keys
      /\ n \in Int /\ hits \in SUBSET Hits /\ visit \in [Clients -> Visits]
  BY <1>1 DEF PagesInv, SearchTypeOK, Visits
<1>3. list = ListOf(v.key, hits) /\ list \in Seq(Hits)
  BY <1>2, RankedFacts DEF Results, ListOf
<1> HIDE DEF v, list, n, hits
<1>4. /\ visit' \in [Clients -> Visits]
      /\ VisitOK(visit'[c])
      /\ \A d \in Clients \ {c} : visit'[d] = visit[d]
  BY <1>1, <1>2, <1>3, AnswerFacts
<1>5. SearchTypeOK'
  BY <1>1, <1>4, OverTypes DEF PagesInv, SearchTypeOK
<1> QED BY <1>1, <1>4, <1>5, OverTypes DEF PagesInv

LEMMA CrashPages ==
    ASSUME SearchAssumption, PagesInv, SearchCrash
    PROVE  PagesInv'
<1>1. << >> \in Seq(Hits)
  OBVIOUS
<1>2. SearchTypeOK'
  BY <1>1, QuietFacts DEF SearchCrash, indexVars, PagesInv, SearchTypeOK
<1> QED BY <1>2 DEF SearchCrash, indexVars, PagesInv

LEMMA PagesStep ==
    ASSUME SearchAssumption, PagesInv, [SearchNext]_searchVars
    PROVE  PagesInv'
<1>1. ASSUME NEW c \in Clients, Request(c)
      PROVE  PagesInv'
  BY <1>1, HitPages, MissPages, RetrievePages, RetrieveFailsPages, HydratePages,
     StorePages, RespondPages DEF Request
<1> QED BY <1>1, ChangesPages, TickPages, CrashPages DEF SearchNext

LEMMA PagesInvariant == SearchSpec => []PagesInv
BY SearchAssumption, PagesStart, PagesStep, PTL DEF SearchSpec

\* The service and its clients keep their types.
THEOREM SearchTypes == SearchSpec => []SearchTypeOK
<1>1. PagesInv => SearchTypeOK
  BY DEF PagesInv
<1> QED BY <1>1, PagesInvariant, PTL

\* The pages of a search that were computed from the same hits are its
\* deduplicated list from the start, nothing twice and nothing left out: for
\* any clients, page sizes above 0, rankings and filters, from the cache or not.
THEOREM SearchPagesFit == SearchSpec => []PagesFitTogether
<1>1. PagesInv => PagesFitTogether
  <2>1. SUFFICES ASSUME PagesInv, NEW c \in Clients, visit[c].begun, ~ visit[c].uneven
                 PROVE  LET v == visit[c]
                            whole == Representatives(Ranked(v.key, v.view))
                        IN  /\ v.given = Leading(whole, Len(v.given))
                            /\ v.next = IF v.given = whole THEN End ELSE Len(v.given)
    BY DEF PagesFitTogether
  <2>2. visit[c].key \in Keys /\ VisitOK(visit[c])
    BY <2>1 DEF PagesInv, SearchTypeOK, Visits
  <2>3. ListOf(visit[c].key, visit[c].view)
           = Representatives(Ranked(visit[c].key, visit[c].view))
    BY <2>2, SearchAssumption, RankedFacts
  <2> QED BY <2>1, <2>2, <2>3 DEF VisitOK
<1> QED BY <1>1, PagesInvariant, PTL

-----------------------------------------------------------------------------
(* Search: fresh answers                                                   *)

\* A selection from the head of a selection from a list without repetition is
\* the selection of these elements from the list itself.
LEMMA SelectedAgain ==
    ASSUME NEW S, NEW R \in Seq(S), IsInjective(R), NEW A \in SUBSET DOMAIN R,
           NEW T \in Nat,
           NEW J \in SUBSET DOMAIN Leading(Selected(R, A), T)
    PROVE  LET N == Leading(Selected(R, A), T)
           IN  Selected(N, J) = Selected(R, {i \in DOMAIN R : \E j \in J : R[i] = N[j]})
<1> DEFINE B == Selected(R, A)
           N == Leading(B, T)
           L == {i \in DOMAIN R : \E j \in J : R[i] = N[j]}
           a == Cardinality(A)
           b == Cardinality(J)
<1>1. /\ B \in Seq(S) /\ Len(B) = a /\ a \in Nat
  BY SelectedFacts, PositionsFinite
<1>2. PICK f : Enumerates(f, a, A) /\ \A i \in 1..a : B[i] = R[f[i]]
  BY SelectedPlaces
<1> HIDE DEF B
<1>3. /\ N \in Seq(S) /\ DOMAIN N \subseteq 1..a
      /\ \A i \in DOMAIN N : N[i] = B[i]
  BY <1>1, LeadingFacts
<1>4. J \in SUBSET DOMAIN N
  BY DEF B
<1> HIDE DEF N
<1>5. /\ Selected(N, J) \in Seq(S) /\ Len(Selected(N, J)) = b /\ b \in Nat
  BY <1>3, <1>4, SelectedFacts, PositionsFinite
<1>6. PICK g : Enumerates(g, b, J) /\ \A i \in 1..b : Selected(N, J)[i] = N[g[i]]
  BY <1>3, <1>4, SelectedPlaces
<1> HIDE DEF a, b
<1>7. /\ g \in [1..b -> J] /\ f \in [1..a -> A]
      /\ \A i \in 1..b : g[i] \in J /\ g[i] \in DOMAIN N /\ g[i] \in 1..a
      /\ \A i \in 1..a : f[i] \in A /\ f[i] \in DOMAIN R
  BY <1>2, <1>3, <1>4, <1>6 DEF Enumerates
<1> DEFINE h == [i \in 1..b |-> f[g[i]]]
<1>8. \A i \in 1..b : R[h[i]] = N[g[i]]
  BY <1>2, <1>3, <1>7
<1>9. h \in [1..b -> L]
  BY <1>7, <1>8
<1>10. \A i, j \in 1..b : i < j => h[i] < h[j]
  BY <1>2, <1>6, <1>7 DEF Enumerates
<1>11. ASSUME NEW l \in L
       PROVE  \E i \in 1..b : h[i] = l
  <2>1. PICK j \in J : R[l] = N[j]
    OBVIOUS
  <2>2. j \in 1..a /\ N[j] = R[f[j]]
    BY <1>2, <1>3, <1>4
  <2>3. l = f[j]
    BY <1>7, <2>1, <2>2 DEF IsInjective
  <2>4. PICK i \in 1..b : g[i] = j
    BY <1>6 DEF Enumerates
  <2> QED BY <2>3, <2>4
<1> HIDE DEF h
<1>12. L \in SUBSET DOMAIN R
  OBVIOUS
<1> HIDE DEF L
<1>13. Enumerates(h, b, L)
  BY <1>9, <1>10, <1>11 DEF Enumerates
<1>14. Cardinality(L) = b /\ \A i \in 1..b : Selected(R, L)[i] = R[h[i]]
  BY <1>5, <1>12, <1>13, SelectedEnumeration
<1>15. Selected(R, L) \in Seq(S) /\ Len(Selected(R, L)) = b
  BY <1>12, <1>14, SelectedFacts
<1>16. Selected(N, J) = Selected(R, L)
  BY <1>5, <1>6, <1>8, <1>14, <1>15, SeqEqual
<1> QED BY <1>16 DEF L, N, B

\* The hits of the moment: the nearest points that have their row.
Live(k) ==
    {h \in Hits : /\ VideoOf[h] \in joined
                  /\ \E i \in DOMAIN Nearest(k) : Nearest(k)[i] = h}

\* The answer of the moment is the list of the hits of the moment.
LEMMA CurrentFacts ==
    ASSUME SearchAssumption, NEW k \in Keys
    PROVE  Current(k) = ListOf(k, Live(k))
<1> DEFINE R == Ranking[k.query]
           A == {i \in DOMAIN R : R[i] \in {h \in points : Passes(k.filters, h)}}
           N == Nearest(k)
           J == {i \in DOMAIN N : VideoOf[N[i]] \in joined}
           L == {i \in DOMAIN R : \E j \in J : R[i] = N[j]}
<1>1. /\ R \in Seq(Hits) /\ IsInjective(R) /\ TopK \in Nat
  BY DEF SearchAssumption
<1>2. N = Leading(Selected(R, A), TopK)
  BY DEF Nearest, Ranked
<1>3. N \in Seq(Hits)
  BY NearestType
<1>4. A \in SUBSET DOMAIN R /\ J \in SUBSET DOMAIN N
  OBVIOUS
<1>5. \A i \in DOMAIN R : R[i] \in Hits
  BY <1>1
<1>6. L = {i \in DOMAIN R : R[i] \in Live(k)}
  BY <1>5 DEF Live
<1>7. Current(k) = Representatives(Selected(N, J))
  BY DEF Current
<1>8. Ranked(k, Live(k)) = Selected(R, L)
  BY <1>6 DEF Ranked
<1> HIDE DEF R, A, N, J
<1>9. Selected(N, J) = Selected(R, L)
  <2>1. J \in SUBSET DOMAIN Leading(Selected(R, A), TopK)
    BY <1>2, <1>4
  <2> QED BY <1>1, <1>2, <1>4, <2>1, SelectedAgain
<1> QED BY <1>7, <1>8, <1>9, RankedFacts

Pending(c) == {h \in Hits : /\ VideoOf[h] \in joined
                            /\ \E i \in DOMAIN todo[c] : todo[c][i] = h}

\* A request that was under way for less time than it has been quiet gathers
\* the hits of the moment; an entry that was stored when it had been quiet for
\* longer than a request may take holds them.
FreshInv ==
    /\ \A c \in Clients : place[c] \in {"away", "retrieve"} =>
          found[c] = {} /\ todo[c] = << >> /\ delay[c] = 0
    /\ \A c \in Clients : place[c] = "respond" => todo[c] = << >>
    /\ \A c \in Clients : InFlight(c) /\ delay[c] < quiet =>
          found[c] \cup Pending(c) = Live(visit[c].key)
    /\ \A k \in Keys : cache[k].ttl > 0 /\ MaxDelay + ResultTTL < quiet + cache[k].ttl =>
          cache[k].view = Live(k)

LEMMA FreshStart == ASSUME SearchAssumption, SearchInit PROVE FreshInv
BY DEF SearchInit, FreshInv, NoEntry, InFlight

\* The hits of the moment change only with points and rows.
LEMMA LiveSame ==
    ASSUME UNCHANGED <<points, joined>>
    PROVE  \A k \in Keys : Live(k)' = Live(k)
BY DEF Live, Nearest

\* A change, or a database failure, starts the time of quiet again.
LEMMA NotQuietFresh ==
    ASSUME SearchAssumption, SearchTypeOK, FreshInv, quiet' = 0,
           UNCHANGED <<place, delay, cache>>,
           \A c \in Clients : \/ found'[c] = found[c] /\ todo'[c] = todo[c]
                              \/ place[c] = "hydrate"
    PROVE  FreshInv'
<1>1. \A c \in Clients : delay[c] \in 0..MaxDelay
  BY DEF SearchTypeOK
<1>2. \A k \in Keys : cache[k].ttl \in 0..ResultTTL
  BY DEF SearchTypeOK
<1>3. \A c \in Clients : ~ (delay'[c] < quiet')
  BY <1>1
<1>4. \A k \in Keys : ~ (MaxDelay + ResultTTL < quiet' + cache'[k].ttl)
  BY <1>2, QuietFacts
<1>5. \A c \in Clients : place'[c] = "respond" => todo'[c] = << >>
  BY DEF FreshInv
<1>6. \A c \in Clients : place'[c] \in {"away", "retrieve"} =>
          found'[c] = {} /\ todo'[c] = << >> /\ delay'[c] = 0
  BY DEF FreshInv
<1> QED BY <1>3, <1>4, <1>5, <1>6 DEF FreshInv

\* Time goes on for the requests and for the entries as for the quiet, but for
\* the cap, which is beyond both.
LEMMA TickFresh ==
    ASSUME SearchAssumption, SearchTypeOK, FreshInv, Tick
    PROVE  FreshInv'
<1>1. /\ UNCHANGED <<points, joined, place, todo, found, visit>>
      /\ quiet' = IF quiet < QuietEnough THEN quiet + 1 ELSE quiet
      /\ cache' = [k \in Keys |->
            IF cache[k].ttl > 1 THEN [cache[k] EXCEPT !.ttl = cache[k].ttl - 1]
            ELSE NoEntry]
      /\ delay' = [c \in Clients |-> IF InFlight(c) THEN delay[c] + 1 ELSE delay[c]]
      /\ \A c \in Clients : InFlight(c) => delay[c] < MaxDelay
      /\ quiet \in 0..QuietEnough
  BY DEF Tick, indexVars, SearchTypeOK
<1>2. \A k \in Keys : Live(k)' = Live(k)
  BY <1>1, LiveSame
<1>3. \A c \in Clients : /\ Pending(c)' = Pending(c) /\ (InFlight(c)' <=> InFlight(c))
                         /\ visit[c].key \in Keys
                         /\ delay[c] \in 0..MaxDelay
  BY <1>1 DEF Pending, InFlight, SearchTypeOK, Visits
<1>4. ASSUME NEW c \in Clients, InFlight(c), delay'[c] < quiet'
      PROVE  found[c] \cup Pending(c) = Live(visit[c].key)
  <2>1. delay'[c] = delay[c] + 1
    BY <1>1, <1>4
  <2>2. delay[c] < quiet
    BY <1>1, <1>3, <1>4, <2>1, QuietFacts
  <2> QED BY <1>4, <2>2 DEF FreshInv
<1>5. ASSUME NEW k \in Keys, cache'[k].ttl > 0,
             MaxDelay + ResultTTL < quiet' + cache'[k].ttl
      PROVE  cache'[k].view = Live(k)
  <2> DEFINE e == cache[k]
  <2>1. e \in [list : Seq(Hits), view : SUBSET Hits, ttl : 0..ResultTTL]
        /\ e.ttl \in 0..ResultTTL
    BY DEF SearchTypeOK
  <2>2. cache'[k] = IF e.ttl > 1 THEN [e EXCEPT !.ttl = e.ttl - 1] ELSE NoEntry
    BY <1>1
  <2> HIDE DEF e
  <2>3. e.ttl > 1
    <3>1. NoEntry.ttl = 0
      BY DEF NoEntry
    <3> QED BY <1>5, <2>2, <3>1
  <2>4. cache'[k].ttl = e.ttl - 1 /\ cache'[k].view = e.view
    BY <2>1, <2>2, <2>3
  <2>5. e.ttl > 0 /\ MaxDelay + ResultTTL < quiet + e.ttl
    BY <1>1, <1>5, <2>1, <2>3, <2>4, QuietFacts
  <2> QED BY <2>4, <2>5 DEF FreshInv, e
<1>6. \A c \in Clients : place[c] \in {"away", "retrieve"} =>
          found[c] = {} /\ todo[c] = << >> /\ delay'[c] = 0
  BY <1>1 DEF FreshInv, InFlight
<1>7. \A c \in Clients : place[c] = "respond" => todo[c] = << >>
  BY DEF FreshInv
<1>8. \A c \in Clients : InFlight(c)' /\ delay'[c] < quiet' =>
          found'[c] \cup Pending(c)' = Live(visit[c].key)
  BY <1>1, <1>3, <1>4
<1>9. \A k \in Keys : cache'[k].ttl > 0 /\ MaxDelay + ResultTTL < quiet' + cache'[k].ttl
          => cache'[k].view = Live(k)'
  BY <1>2, <1>5
<1>10. \A c \in Clients : Live(visit[c].key)' = Live(visit[c].key)
  BY <1>1 DEF Live, Nearest
<1> QED BY <1>1, <1>6, <1>7, <1>8, <1>9, <1>10 DEF FreshInv

\* Where neither the index nor the entries change, a step of one client is
\* about its own request.
LEMMA OwnFresh ==
    ASSUME SearchAssumption, SearchTypeOK, FreshInv, NEW c \in Clients,
           UNCHANGED <<points, joined, quiet, cache>>,
           \A d \in Clients \ {c} :
              /\ place'[d] = place[d] /\ found'[d] = found[d] /\ todo'[d] = todo[d]
              /\ delay'[d] = delay[d] /\ visit'[d] = visit[d],
           place'[c] \in {"away", "retrieve"} =>
              found'[c] = {} /\ todo'[c] = << >> /\ delay'[c] = 0,
           place'[c] = "respond" => todo'[c] = << >>,
           place'[c] \in {"hydrate", "respond"} /\ delay'[c] < quiet =>
              found'[c] \cup Pending(c)' = Live(visit'[c].key)
    PROVE  FreshInv'
<1>1. \A k : Live(k)' = Live(k)
  BY DEF Live, Nearest
<1>2. \A d \in Clients \ {c} : /\ Pending(d)' = Pending(d)
                               /\ InFlight(d)' <=> InFlight(d)
  BY DEF Pending, InFlight
<1>3. \A d \in Clients \ {c} : InFlight(d)' /\ delay'[d] < quiet' =>
          found'[d] \cup Pending(d)' = Live(visit'[d].key)
  BY <1>2 DEF FreshInv
<1>4. InFlight(c)' /\ delay'[c] < quiet' =>
          found'[c] \cup Pending(c)' = Live(visit'[c].key)
  BY DEF InFlight
<1>5. \A d \in Clients : Live(visit[d].key)' = Live(visit'[d].key)
  BY DEF Live, Nearest
<1>6. \A d \in Clients : InFlight(d)' /\ delay'[d] < quiet' =>
          found'[d] \cup Pending(d)' = Live(visit[d].key)'
  BY <1>3, <1>4, <1>5
<1>7. \A d \in Clients : place'[d] \in {"away", "retrieve"} =>
          found'[d] = {} /\ todo'[d] = << >> /\ delay'[d] = 0
  BY DEF FreshInv
<1>8. \A d \in Clients : place'[d] = "respond" => todo'[d] = << >>
  BY DEF FreshInv
<1>9. \A k \in Keys : cache'[k].ttl > 0 /\ MaxDelay + ResultTTL < quiet' + cache'[k].ttl
          => cache'[k].view = Live(k)'
  BY <1>1 DEF FreshInv
<1> QED BY <1>6, <1>7, <1>8, <1>9 DEF FreshInv

\* Before it retrieves, a request has gathered nothing.
LEMMA HitFresh ==
    ASSUME SearchAssumption, SearchTypeOK, FreshInv, NEW c \in Clients, NEW v, NEW n,
           Hit(c, v, n) \/ Miss(c, v, n)
    PROVE  FreshInv'
<1>1. /\ UNCHANGED <<points, joined, quiet, cache, todo, found, delay>>
      /\ place[c] = "away"
      /\ place' = place \/ place' = [place EXCEPT ![c] = "retrieve"]
      /\ \E w : visit' = [visit EXCEPT ![c] = w]
  BY DEF Hit, Miss, Answer, GoOn, indexVars, requestVars
<1>2. /\ place \in [Clients -> {"away", "retrieve", "hydrate", "respond"}]
      /\ visit \in [Clients -> Visits]
  BY DEF SearchTypeOK
<1>3. found[c] = {} /\ todo[c] = << >> /\ delay[c] = 0
  BY <1>1 DEF FreshInv
<1>4. \A d \in Clients \ {c} : place'[d] = place[d] /\ visit'[d] = visit[d]
  BY <1>1, <1>2
<1>5. place'[c] \in {"away", "retrieve"}
  BY <1>1, <1>2
<1> QED BY <1>1, <1>3, <1>4, <1>5, OwnFresh

\* At the moment of the retrieval the hits are those of the moment.
LEMMA RetrieveFresh ==
    ASSUME SearchAssumption, SearchTypeOK, FreshInv, NEW c \in Clients, Retrieve(c)
    PROVE  FreshInv'
<1> DEFINE near == Nearest(visit[c].key)
<1>1. /\ UNCHANGED <<points, joined, quiet, cache, found, delay, visit>>
      /\ todo' = [todo EXCEPT ![c] = near]
      /\ place' = [place EXCEPT ![c] = "hydrate"]
      /\ place[c] = "retrieve"
  BY DEF Retrieve, GoOn, indexVars
<1>2. /\ place \in [Clients -> {"away", "retrieve", "hydrate", "respond"}]
      /\ todo \in [Clients -> Seq(Hits)]
  BY DEF SearchTypeOK
<1>3. found[c] = {}
  BY <1>1 DEF FreshInv
<1>4. todo'[c] = near /\ place'[c] = "hydrate"
      /\ \A d \in Clients \ {c} : todo'[d] = todo[d] /\ place'[d] = place[d]
  BY <1>1, <1>2
<1>5. Pending(c)' = Live(visit[c].key)
  BY <1>1, <1>4 DEF Pending, Live
<1>6. found'[c] \cup Pending(c)' = Live(visit'[c].key)
  BY <1>1, <1>3, <1>5
<1> QED BY <1>1, <1>4, <1>6, OwnFresh

\* A request that is over, whoever ended it.
LEMMA OverFresh ==
    ASSUME SearchAssumption, SearchTypeOK, FreshInv, NEW c \in Clients, Over(c),
           UNCHANGED <<points, joined, quiet, cache>>,
           \A d \in Clients \ {c} : visit'[d] = visit[d]
    PROVE  FreshInv'
<1>1. /\ place'[c] = "away" /\ found'[c] = {} /\ todo'[c] = << >> /\ delay'[c] = 0
      /\ \A d \in Clients \ {c} :
            /\ place'[d] = place[d] /\ found'[d] = found[d] /\ todo'[d] = todo[d]
            /\ delay'[d] = delay[d]
  BY DEF Over, SearchTypeOK
<1> QED BY <1>1, OwnFresh

\* A point that is joined goes from one side to the other, and one that has no
\* row is not a hit of the moment.
LEMMA HydrateFresh ==
    ASSUME SearchAssumption, SearchTypeOK, FreshInv, NEW c \in Clients, HydratePoint(c)
    PROVE  FreshInv'
<1> DEFINE list == todo[c]
           h == Head(list)
<1>1. /\ UNCHANGED <<points, joined, quiet, cache, place, delay, visit>>
      /\ list # << >> /\ place[c] = "hydrate"
      /\ todo' = [todo EXCEPT ![c] = Tail(list)]
      /\ found' = IF VideoOf[h] \in joined
                  THEN [found EXCEPT ![c] = found[c] \cup {h}] ELSE found
  BY DEF HydratePoint, indexVars
<1>2. /\ todo \in [Clients -> Seq(Hits)] /\ found \in [Clients -> SUBSET Hits]
      /\ list \in Seq(Hits)
  BY DEF SearchTypeOK
<1>3. /\ h \in Hits /\ h = list[1] /\ 1 \in DOMAIN list
      /\ \A i \in DOMAIN Tail(list) : Tail(list)[i] = list[i + 1] /\ i + 1 \in DOMAIN list
      /\ \A i \in DOMAIN list : i = 1 \/ i - 1 \in DOMAIN Tail(list)
      /\ \A i \in DOMAIN list : i = 1 \/ Tail(list)[i - 1] = list[i]
  BY <1>1, <1>2
<1>4. /\ todo'[c] = Tail(list)
      /\ found'[c] = IF VideoOf[h] \in joined THEN found[c] \cup {h} ELSE found[c]
      /\ \A d \in Clients \ {c} : todo'[d] = todo[d] /\ found'[d] = found[d]
  BY <1>1, <1>2
<1>5. Pending(c)' \subseteq Pending(c)
  BY <1>1, <1>3, <1>4 DEF Pending
<1>6. Pending(c) \subseteq Pending(c)' \cup (IF VideoOf[h] \in joined THEN {h} ELSE {})
  <2>1. SUFFICES ASSUME NEW g \in Pending(c), g # h
                 PROVE  g \in Pending(c)'
    BY DEF Pending
  <2>2. PICK i \in DOMAIN list : list[i] = g
    BY DEF Pending
  <2>3. i - 1 \in DOMAIN Tail(list) /\ Tail(list)[i - 1] = g
    BY <1>3, <2>1, <2>2
  <2>4. g \in Hits /\ VideoOf[g] \in joined'
    BY <1>1 DEF Pending
  <2> HIDE DEF list, h
  <2> QED BY <1>4, <2>3, <2>4 DEF Pending
<1>7. VideoOf[h] \in joined => h \in Pending(c)
  BY <1>3 DEF Pending
<1>8. found'[c] \cup Pending(c)' = found[c] \cup Pending(c)
  BY <1>4, <1>5, <1>6, <1>7
<1>9. delay[c] < quiet => found[c] \cup Pending(c) = Live(visit[c].key)
  BY <1>1 DEF FreshInv, InFlight
<1>10. place'[c] = "hydrate" /\ delay'[c] = delay[c] /\ visit'[c] = visit[c]
  BY <1>1
<1> HIDE DEF list, h
<1> QED BY <1>1, <1>4, <1>8, <1>9, <1>10, OwnFresh

\* What is stored after a quiet time longer than a request are the hits of the
\* moment.
LEMMA StoreFresh ==
    ASSUME SearchAssumption, SearchTypeOK, FreshInv, NEW c \in Clients,
           Store(c) \/ StoreFails(c)
    PROVE  FreshInv'
<1> DEFINE k == visit[c].key
           e == [list |-> Results(c), view |-> found[c], ttl |-> ResultTTL]
<1>1. /\ UNCHANGED <<points, joined, quiet, todo, found, delay, visit>>
      /\ place' = [place EXCEPT ![c] = "respond"]
      /\ place[c] = "hydrate" /\ todo[c] = << >>
      /\ cache' = cache \/ cache' = [cache EXCEPT ![k] = e]
  BY DEF Store, StoreFails, GoOn, indexVars
<1>2. /\ place'[c] = "respond"
      /\ \A d \in Clients \ {c} : place'[d] = place[d]
      /\ k \in Keys
  BY <1>1 DEF SearchTypeOK, Visits
<1>3. Pending(c) = {} /\ \A d \in Clients : Pending(d)' = Pending(d)
  BY <1>1 DEF Pending
<1>4. delay[c] < quiet => found[c] = Live(k)
  BY <1>1, <1>3 DEF FreshInv, InFlight
<1>5. delay[c] \in 0..MaxDelay /\ quiet \in 0..QuietEnough
  BY DEF SearchTypeOK
<1>6. e.view = found[c] /\ e.ttl = ResultTTL
  OBVIOUS
<1>7. \A l \in Keys : cache'[l] = cache[l] \/ (l = k /\ cache'[l] = e)
  BY <1>1 DEF SearchTypeOK
<1> HIDE DEF e
<1>8. \A l \in Keys : Live(l)' = Live(l)
  BY <1>1, LiveSame
<1>9. ASSUME NEW l \in Keys, cache'[l].ttl > 0,
             MaxDelay + ResultTTL < quiet + cache'[l].ttl
      PROVE  cache'[l].view = Live(l)
  <2>1. CASE cache'[l] = cache[l]
    BY <1>9, <2>1 DEF FreshInv
  <2>2. CASE l = k /\ cache'[l] = e
    <3>1. MaxDelay + ResultTTL < quiet + ResultTTL
      BY <1>6, <1>9, <2>2
    <3>2. delay[c] < quiet
      BY <1>5, <3>1, QuietFacts
    <3> QED BY <1>4, <1>6, <2>2, <3>2
  <2> QED BY <1>7, <2>1, <2>2
<1>10. \A d \in Clients : /\ place[d] = place'[d] \/ d = c
                          /\ InFlight(d)' => InFlight(d)
  BY <1>1, <1>2 DEF InFlight
<1>11. \A d \in Clients : InFlight(d)' /\ delay'[d] < quiet' =>
          found'[d] \cup Pending(d)' = Live(visit[d].key)
  BY <1>1, <1>3, <1>10 DEF FreshInv
<1>12. \A d \in Clients : Live(visit[d].key)' = Live(visit[d].key)
  BY <1>1 DEF Live, Nearest
<1>13. \A d \in Clients : place'[d] \in {"away", "retrieve"} =>
          found'[d] = {} /\ todo'[d] = << >> /\ delay'[d] = 0
  BY <1>1, <1>2, <1>10 DEF FreshInv
<1>14. \A d \in Clients : place'[d] = "respond" => todo'[d] = << >>
  BY <1>1, <1>10 DEF FreshInv
<1>15. \A l \in Keys : cache'[l].ttl > 0 /\ MaxDelay + ResultTTL < quiet' + cache'[l].ttl
          => cache'[l].view = Live(l)'
  BY <1>1, <1>8, <1>9
<1> QED BY <1>1, <1>11, <1>12, <1>13, <1>14, <1>15 DEF FreshInv

\* A crash ends every request.
LEMMA CrashFresh ==
    ASSUME SearchAssumption, SearchTypeOK, FreshInv, SearchCrash
    PROVE  FreshInv'
<1>1. /\ UNCHANGED <<points, joined, quiet, cache, visit>>
      /\ \A c \in Clients : place'[c] = "away" /\ todo'[c] = << >>
                            /\ found'[c] = {} /\ delay'[c] = 0
  BY DEF SearchCrash, indexVars
<1>2. \A k \in Keys : Live(k)' = Live(k)
  BY <1>1, LiveSame
<1> QED BY <1>1, <1>2 DEF FreshInv, InFlight

LEMMA SameFresh ==
    ASSUME SearchAssumption, SearchTypeOK, FreshInv, UNCHANGED searchVars
    PROVE  FreshInv'
<1>1. UNCHANGED <<points, joined, quiet, cache, place, todo, found, delay, visit>>
  BY DEF searchVars, indexVars, requestVars
<1>2. /\ \A k \in Keys : Live(k)' = Live(k)
      /\ \A c \in Clients : Live(visit[c].key)' = Live(visit[c].key)
  BY <1>1 DEF Live, Nearest
<1>3. \A c \in Clients : Pending(c)' = Pending(c) /\ (InFlight(c)' <=> InFlight(c))
  BY <1>1 DEF Pending, InFlight
<1> QED BY <1>1, <1>2, <1>3 DEF FreshInv

LEMMA FreshStep ==
    ASSUME SearchAssumption, SearchTypeOK, FreshInv, [SearchNext]_searchVars
    PROVE  FreshInv'
<1>1. ASSUME NEW c \in Clients, Request(c)
      PROVE  FreshInv'
  <2>1. ASSUME NEW v \in Wishes(c), NEW n \in PageSizes[c], Hit(c, v, n) \/ Miss(c, v, n)
        PROVE  FreshInv'
    BY <2>1, HitFresh
  <2>2. CASE RetrieveFails(c)
    <3>1. Over(c) /\ UNCHANGED <<points, joined, quiet, cache, visit>>
      BY <2>2 DEF RetrieveFails, indexVars
    <3> QED BY <3>1, OverFresh
  <2>3. CASE HydrateFails(c)
    <3>1. /\ quiet' = 0 /\ UNCHANGED <<place, delay, cache, found>>
          /\ todo' = [todo EXCEPT ![c] = Tail(todo[c])]
          /\ place[c] = "hydrate"
      BY <2>3 DEF HydrateFails
    <3>2. \A d \in Clients : d = c \/ todo'[d] = todo[d]
      BY <3>1 DEF SearchTypeOK
    <3> QED BY <3>1, <3>2, NotQuietFresh
  <2>4. CASE Respond(c)
    <3>1. /\ Over(c) /\ UNCHANGED <<points, joined, quiet, cache>>
          /\ \E w : visit' = [visit EXCEPT ![c] = w]
      BY <2>4 DEF Respond, Answer, indexVars
    <3>2. \A d \in Clients \ {c} : visit'[d] = visit[d]
      BY <3>1 DEF SearchTypeOK
    <3> QED BY <3>1, <3>2, OverFresh
  <2> QED BY <1>1, <2>1, <2>2, <2>3, <2>4, RetrieveFresh, HydrateFresh, StoreFresh
          DEF Request
<1>2. CASE \/ \E h \in Hits : IndexPoint(h)
           \/ \E v \in Videos : LoseRows(v) \/ WriteRows(v)
  <2>1. quiet' = 0 /\ UNCHANGED <<cache, place, size, todo, found, delay, visit>>
    BY <1>2 DEF IndexPoint, LoseRows, WriteRows, requestVars
  <2> QED BY <2>1, NotQuietFresh
<1> QED BY <1>1, <1>2, TickFresh, CrashFresh, SameFresh DEF SearchNext

\* When nothing has changed for the time an entry lives and the longest request
\* takes, whatever can still be answered is what a new retrieval would give:
\* for any number of clients, searches and points, and any lifetime and delay.
THEOREM SearchFresh == SearchSpec => []FreshWhenQuiet
<1>1. PagesInv => SearchTypeOK
  BY DEF PagesInv
<1>2. SearchInit => FreshInv
  BY SearchAssumption, FreshStart
<1>3. PagesInv /\ FreshInv /\ [SearchNext]_searchVars => FreshInv'
  BY <1>1, SearchAssumption, FreshStep
<1>4. PagesInv /\ FreshInv => FreshWhenQuiet
  <2>1. SUFFICES ASSUME PagesInv, FreshInv, quiet = QuietEnough
                 PROVE  /\ \A k \in Keys : cache[k].ttl > 0 => cache[k].list = Current(k)
                        /\ \A c \in Clients : place[c] = "respond" =>
                              Results(c) = Current(visit[c].key)
    BY DEF FreshWhenQuiet
  <2>2. ASSUME NEW k \in Keys, cache[k].ttl > 0
        PROVE  cache[k].list = Current(k)
    <3>1. cache[k].ttl \in 0..ResultTTL
      BY <2>1, <1>1 DEF SearchTypeOK
    <3>2. MaxDelay + ResultTTL < quiet + cache[k].ttl
      BY <2>1, <2>2, <3>1, QuietFacts, SearchAssumption
    <3>3. cache[k].view = Live(k)
      BY <2>1, <2>2, <3>2 DEF FreshInv
    <3>4. cache[k].list = ListOf(k, cache[k].view)
      BY <2>1, <2>2 DEF PagesInv
    <3> QED BY <3>3, <3>4, CurrentFacts, SearchAssumption
  <2>3. ASSUME NEW c \in Clients, place[c] = "respond"
        PROVE  Results(c) = Current(visit[c].key)
    <3>1. delay[c] \in 0..MaxDelay /\ visit[c].key \in Keys
      BY <2>1, <1>1 DEF SearchTypeOK, Visits
    <3>2. delay[c] < quiet
      BY <2>1, <3>1, QuietFacts, SearchAssumption
    <3>3. found[c] \cup Pending(c) = Live(visit[c].key) /\ todo[c] = << >>
      BY <2>1, <2>3, <3>2 DEF FreshInv, InFlight
    <3>4. Pending(c) = {}
      BY <3>3 DEF Pending
    <3>5. Results(c) = ListOf(visit[c].key, Live(visit[c].key))
      BY <3>3, <3>4 DEF Results, ListOf
    <3> QED BY <3>1, <3>5, CurrentFacts, SearchAssumption
  <2> QED BY <2>2, <2>3
<1> QED BY <1>2, <1>3, <1>4, PagesInvariant, PTL DEF SearchSpec
=============================================================================
