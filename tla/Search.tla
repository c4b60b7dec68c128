------------------------------- MODULE Search --------------------------------
(***************************************************************************)
(* The search service (services/search): concurrent requests that look a   *)
(* query up in the result cache in Redis, or retrieve the nearest points   *)
(* from Qdrant, join them one by one with PostgreSQL, rank, drop near      *)
(* duplicates, cache the whole list and answer one page of it.  Indexing   *)
(* and embedding go on beside it.                                          *)
(*                                                                         *)
(* A client follows next_page_token from page to page of one search, with  *)
(* a page size of its choice each time.  Encoding reads nothing that       *)
(* others write (the vector of a query is always the same), so a request   *)
(* begins here with its vector in hand; InferenceGuard has the rest.       *)
(***************************************************************************)
EXTENDS TemporalDedup, FiniteSets, Functions

CONSTANTS
    Clients,
    Ranking,       \* Ranking[q]: the hits by similarity to query q, each once
    Keys,          \* searches: a query and its filters, accepted values by field
    LabelOf,       \* LabelOf[h]: what is detected in h, or NoLabel (whole frames)
    CameraOf,      \* CameraOf[v]: camera_id of the video
    TopK,          \* SEARCH_TOP_K
    Asks,          \* Asks[c]: the searches of client c
    PageSizes,     \* PageSizes[c]: its page sizes, as effective_page_size; below 0
                   \* too, which the image route lets pass
    End,           \* no next_page_token
    Indexed,       \* points in Qdrant at the beginning
    ResultTTL,     \* SEARCH_RESULT_CACHE_TTL_SECONDS, in ticks
    MaxDelay,      \* bound: ticks from a retrieval to its answer
    MaxBack,       \* bound: how far below 0 a token is followed
    MaxChanges,    \* bound: changes of points and rows
    SearchFaults   \* which failures happen

NoLabel == "no label"
SearchFaultKinds == {"redis", "qdrant", "postgres", "crash"}

ASSUME SearchAssumption ==
    /\ Keys # {}
    /\ \A k \in Keys :
          Ranking[k.query] \in Seq(Hits) /\ IsInjective(Ranking[k.query])
    /\ DOMAIN LabelOf = Hits /\ DOMAIN CameraOf = Videos
    /\ TopK \in Nat /\ ResultTTL \in Nat \ {0} /\ MaxDelay \in Nat
    /\ MaxChanges \in Nat /\ MaxBack \in Nat
    /\ Asks \in [Clients -> SUBSET Keys]
    /\ \A c \in Clients : PageSizes[c] \subseteq Int \ {0}
    /\ End \notin Int
    /\ Indexed \subseteq Hits
    /\ SearchFaults \subseteq SearchFaultKinds

VARIABLES
    points,   \* points in Qdrant
    joined,   \* videos whose artifacts have one embedding_records row each
    changes,  \* changes of the two so far
    quiet,    \* ticks since the last change or database failure, up to a cap
    cache,    \* cache[k]: the entry search:result:k
    place,    \* place[c]: where the request of client c is in the pipeline
    size,     \* size[c]: its effective_page_size
    todo,     \* todo[c]: retrieved points that are not yet joined
    found,    \* found[c]: the hydrated results
    delay,    \* delay[c]: ticks since the retrieval
    visit     \* visit[c]: the search of client c and what it was given

indexVars == <<points, joined, changes>>
requestVars == <<place, size, todo, found, delay>>
searchVars == <<indexVars, quiet, cache, requestVars, visit>>

NoEntry == [list |-> << >>, view |-> {}, ttl |-> 0]
QuietEnough == ResultTTL + MaxDelay   \* cap of quiet

\* The search, the offset in the token at hand, the pages put together, and
\* the hits they were computed from.  A visit is uneven when two of its pages
\* were computed from different hits, or the size of one was below 1.
NewVisit(k) ==
    [key |-> k, next |-> 0, given |-> << >>, view |-> {}, begun |-> FALSE,
     uneven |-> FALSE]

SearchInit ==
    /\ points = Indexed
    /\ joined = Videos
    /\ changes = 0
    /\ quiet = 0
    /\ cache = [k \in Keys |-> NoEntry]
    /\ place = [c \in Clients |-> "away"]
    /\ size = [c \in Clients |-> 0]
    /\ todo = [c \in Clients |-> << >>]
    /\ found = [c \in Clients |-> {}]
    /\ delay = [c \in Clients |-> 0]
    /\ visit = [c \in Clients |->
                   [NewVisit(CHOOSE k \in Keys : TRUE) EXCEPT !.next = End]]

InFlight(c) == place[c] \in {"hydrate", "respond"}

\* The request is over, with or without an answer.
Over(c) ==
    /\ place' = [place EXCEPT ![c] = "away"]
    /\ size' = [size EXCEPT ![c] = 0]
    /\ todo' = [todo EXCEPT ![c] = << >>]
    /\ found' = [found EXCEPT ![c] = {}]
    /\ delay' = [delay EXCEPT ![c] = 0]

GoOn(c, l) == place' = [place EXCEPT ![c] = l]

-----------------------------------------------------------------------------
(* The rest of the system, and time                                        *)

\* Indexing upserts a point.
IndexPoint(h) ==
    /\ changes < MaxChanges
    /\ h \notin points
    /\ points' = points \cup {h}
    /\ changes' = changes + 1
    /\ quiet' = 0
    /\ UNCHANGED <<joined, cache, requestVars, visit>>

\* Embedding clears the rows of a video, or - two attempts at once - doubles
\* them; scalar_one_or_none raises for the second.
LoseRows(v) ==
    /\ changes < MaxChanges
    /\ v \in joined
    /\ joined' = joined \ {v}
    /\ changes' = changes + 1
    /\ quiet' = 0
    /\ UNCHANGED <<points, cache, requestVars, visit>>

WriteRows(v) ==
    /\ v \notin joined
    /\ joined' = joined \cup {v}
    /\ quiet' = 0
    /\ UNCHANGED <<points, changes, cache, requestVars, visit>>

\* Redis drops an entry when its time is over.
Tick ==
    /\ \A c \in Clients : InFlight(c) => delay[c] < MaxDelay
    /\ quiet' = IF quiet < QuietEnough THEN quiet + 1 ELSE quiet
    /\ cache' = [k \in Keys |->
          IF cache[k].ttl > 1 THEN [cache[k] EXCEPT !.ttl = @ - 1] ELSE NoEntry]
    /\ delay' = [c \in Clients |-> IF InFlight(c) THEN delay[c] + 1 ELSE delay[c]]
    /\ UNCHANGED <<indexVars, place, size, todo, found, visit>>

-----------------------------------------------------------------------------
(* Rank, deduplicate, paginate                                             *)

Leading(list, n) == SubSeq(list, 1, IF n < Len(list) THEN n ELSE Len(list))

\* The payload that indexing stored with the point of h.
Payload(h) ==
    IF LabelOf[h] = NoLabel THEN [timestamp_ms |-> StartOf[h]]
    ELSE [timestamp_ms |-> StartOf[h], label |-> LabelOf[h]]

\* Every condition must hold; one on a field the payload lacks does not.
Passes(filters, h) ==
    \A field \in DOMAIN filters :
        field \in DOMAIN Payload(h) /\ Payload(h)[field] \in filters[field]

\* The elements of the list at the positions in K, in its order.
Selected(list, K) ==
    LET nth(n) == CHOOSE k \in K : Cardinality({i \in K : i <= k}) = n
    IN  [n \in 1..Cardinality(K) |-> list[nth(n)]]

\* The hits in S, best first.
Ranked(k, S) ==
    LET list == Ranking[k.query]
    IN  Selected(list, {i \in DOMAIN list : list[i] \in S})

\* The top_k points of the collection that pass the filters, best first.
Nearest(k) ==
    Leading(Ranked(k, {h \in points : Passes(k.filters, h)}), TopK)

\* The loop of module TemporalDedup: what is kept of the first n results.
Deduplicated(list) ==
    LET best[n \in 0..Len(list)] ==
            IF n = 0 THEN << >>
            ELSE LET before == best[n - 1]
                 IN  IF \E i \in DOMAIN before : Close(before[i], list[n])
                     THEN before ELSE Append(before, list[n])
    IN  best[Len(list)]

\* A bound of a slice, counted from the end if it is below 0.
SliceBound(list, i) ==
    IF i >= 0 THEN IF i < Len(list) THEN i ELSE Len(list)
    ELSE IF Len(list) + i > 0 THEN Len(list) + i ELSE 0

Page(list, offset, n) ==
    SubSeq(list, SliceBound(list, offset) + 1, SliceBound(list, offset + n))

\* The next token, which a page size below 1 takes back, and below 0.
NextOffset(list, offset, n) == IF offset + n < Len(list) THEN offset + n ELSE End

\* A page of n results of the list, which was computed from these hits, for a
\* client at this point of its visit.
Answer(c, v, n, list, hits) ==
    LET uneven == v.uneven \/ (v.begun /\ v.view # hits) \/ n < 1
    IN  visit' = [visit EXCEPT ![c] =
            [key |-> v.key,
             next |-> NextOffset(list, v.next, n),
             given |-> IF uneven THEN << >> ELSE v.given \o Page(list, v.next, n),
             view |-> IF uneven THEN {} ELSE hits,
             begun |-> TRUE,
             uneven |-> uneven]]

-----------------------------------------------------------------------------
(* A request                                                               *)

\* What client c may ask for: the first page of a search, the next page of the
\* one it is at, or again a page that was not answered.
Wishes(c) ==
    {NewVisit(k) : k \in Asks[c]}
        \cup {v \in {visit[c]} : v.next # End /\ v.next >= -MaxBack}

EntryFor(v) == cache[v.key]

\* Fault: reading an entry renews it.
HitRenewed(c, v, n) ==
    /\ place[c] = "away"
    /\ EntryFor(v).ttl > 0
    /\ Answer(c, v, n, EntryFor(v).list, EntryFor(v).view)
    /\ cache' = [cache EXCEPT ![v.key].ttl = ResultTTL]
    /\ UNCHANGED <<indexVars, quiet, requestVars>>

\* The answer follows the read without a suspension.
Hit(c, v, n) ==
    /\ place[c] = "away"
    /\ EntryFor(v).ttl > 0
    /\ Answer(c, v, n, EntryFor(v).list, EntryFor(v).view)
    /\ UNCHANGED <<indexVars, quiet, cache, requestVars>>

\* No entry, or Redis fails, which counts as none.
Miss(c, v, n) ==
    /\ place[c] = "away"
    /\ EntryFor(v).ttl = 0 \/ "redis" \in SearchFaults
    /\ GoOn(c, "retrieve")
    /\ size' = [size EXCEPT ![c] = n]
    /\ visit' = [visit EXCEPT ![c] = v]
    /\ UNCHANGED <<indexVars, quiet, cache, todo, found, delay>>

Retrieve(c) ==
    /\ place[c] = "retrieve"
    /\ todo' = [todo EXCEPT ![c] = Nearest(visit[c].key)]
    /\ GoOn(c, "hydrate")
    /\ UNCHANGED <<indexVars, quiet, cache, size, found, delay, visit>>

\* Qdrant fails: 503 or 422, and the client may ask again.
RetrieveFails(c) ==
    /\ "qdrant" \in SearchFaults
    /\ place[c] = "retrieve"
    /\ Over(c)
    /\ UNCHANGED <<indexVars, quiet, cache, visit>>

\* One point: its row and its video in one session.  A point without exactly
\* one row is skipped.
HydratePoint(c) ==
    /\ place[c] = "hydrate"
    /\ todo[c] # << >>
    /\ found' = IF VideoOf[Head(todo[c])] \in joined
                THEN [found EXCEPT ![c] = @ \cup {Head(todo[c])}] ELSE found
    /\ todo' = [todo EXCEPT ![c] = Tail(@)]
    /\ UNCHANGED <<indexVars, quiet, cache, place, size, delay, visit>>

\* The database fails: the exception is swallowed and the point skipped.
HydrateFails(c) ==
    /\ "postgres" \in SearchFaults
    /\ place[c] = "hydrate"
    /\ todo[c] # << >>
    /\ todo' = [todo EXCEPT ![c] = Tail(@)]
    /\ quiet' = 0
    /\ UNCHANGED <<indexVars, cache, place, size, found, delay, visit>>

Results(c) == Deduplicated(Ranked(visit[c].key, found[c]))

\* Fault: what the request answers is cached.
StorePage(c) ==
    /\ place[c] = "hydrate"
    /\ todo[c] = << >>
    /\ cache' = [cache EXCEPT ![visit[c].key] =
          [list |-> Page(Results(c), visit[c].next, size[c]), view |-> found[c],
           ttl |-> ResultTTL]]
    /\ GoOn(c, "respond")
    /\ UNCHANGED <<indexVars, quiet, size, todo, found, delay, visit>>

\* Rank and deduplicate, then cache the whole list for every page size.
Store(c) ==
    /\ place[c] = "hydrate"
    /\ todo[c] = << >>
    /\ cache' = [cache EXCEPT ![visit[c].key] =
          [list |-> Results(c), view |-> found[c], ttl |-> ResultTTL]]
    /\ GoOn(c, "respond")
    /\ UNCHANGED <<indexVars, quiet, size, todo, found, delay, visit>>

StoreFails(c) ==
    /\ "redis" \in SearchFaults
    /\ place[c] = "hydrate"
    /\ todo[c] = << >>
    /\ GoOn(c, "respond")
    /\ UNCHANGED <<indexVars, quiet, cache, size, todo, found, delay, visit>>

\* append_history, which SearchHistory describes, and the page.
Respond(c) ==
    /\ place[c] = "respond"
    /\ Answer(c, visit[c], size[c], Results(c), found[c])
    /\ Over(c)
    /\ UNCHANGED <<indexVars, quiet, cache>>

\* The process dies: every request is lost, the cache stays.
SearchCrash ==
    /\ "crash" \in SearchFaults
    /\ place' = [c \in Clients |-> "away"]
    /\ size' = [c \in Clients |-> 0]
    /\ todo' = [c \in Clients |-> << >>]
    /\ found' = [c \in Clients |-> {}]
    /\ delay' = [c \in Clients |-> 0]
    /\ UNCHANGED <<indexVars, quiet, cache, visit>>

-----------------------------------------------------------------------------
Request(c) ==
    \/ \E v \in Wishes(c), n \in PageSizes[c] : Hit(c, v, n) \/ Miss(c, v, n)
    \/ Retrieve(c) \/ RetrieveFails(c)
    \/ HydratePoint(c) \/ HydrateFails(c)
    \/ Store(c) \/ StoreFails(c) \/ Respond(c)

SearchNext ==
    \/ \E c \in Clients : Request(c)
    \/ \E h \in Hits : IndexPoint(h)
    \/ \E v \in Videos : LoseRows(v) \/ WriteRows(v)
    \/ Tick \/ SearchCrash

SearchSpec == SearchInit /\ [][SearchNext]_searchVars

-----------------------------------------------------------------------------
(* Properties                                                              *)

\* The results that no better result close to them stands for.
Representatives(list) ==
    LET best == CHOOSE K \in SUBSET (DOMAIN list) :
                    \A i \in DOMAIN list :
                        i \in K <=> \A j \in K : j < i => ~ Close(list[j], list[i])
    IN  Selected(list, best)

\* The answer of this moment to a search.
Current(k) ==
    LET list == Nearest(k)
    IN  Representatives(
            Selected(list, {i \in DOMAIN list : VideoOf[list[i]] \in joined}))

\* The cache is a performance optimisation, not a correctness requirement
\* (cache.py): when index and rows have been quiet, and the database up, for
\* the time an entry lives and the longest request takes, every list that can
\* still be answered is the one a new retrieval would give - however often an
\* old one was read, and although a slow request may store its list after a
\* quicker one that saw more.
FreshWhenQuiet ==
    quiet = QuietEnough =>
        /\ \A k \in Keys : cache[k].ttl > 0 => cache[k].list = Current(k)
        /\ \A c \in Clients :
              place[c] = "respond" => Results(c) = Current(visit[c].key)

\* "Safe, stateless page navigation" (search.py, _paginate): as long as the
\* pages of a search come from the same hits, from the cache or not, in pages
\* of any sizes above 0 and beside any other searches, they are the deduplicated
\* list from its start, nothing twice and nothing left out.  A page size below 0,
\* which the image route takes, is excepted: it slices from the end of the list,
\* and the token that comes with it leads backwards through it.
PagesFitTogether ==
    \A c \in Clients :
        LET v == visit[c]
            whole == Representatives(Ranked(v.key, v.view))
        IN  v.begun /\ ~ v.uneven =>
                /\ v.given = Leading(whole, Len(v.given))
                /\ v.next = IF v.given = whole THEN End ELSE Len(v.given)

\* The camera filter works (Architecture.md, "Search"; indexing.py: the payload
\* carries all metadata needed for filtering): a search of what some cameras
\* saw is not answered with nothing while a point of theirs is in the index.
CameraFilterFinds ==
    \A c \in Clients :
        LET k == visit[c].key
        IN  /\ quiet = QuietEnough
            /\ place[c] = "respond"
            /\ DOMAIN k.filters = {"camera_id"}
            /\ \E h \in points : CameraOf[VideoOf[h]] \in k.filters.camera_id
            => Results(c) # << >>
=============================================================================
