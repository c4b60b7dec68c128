---------------------------- MODULE SearchHistory ----------------------------
(***************************************************************************)
(* The search history in Redis (SearchCacheClient.append_history and       *)
(* get_history, SearchService.get_search_history): a list, newest first,   *)
(* pushed and trimmed in two calls by concurrent searches, and read page   *)
(* by page with a cursor that is a position in the list.                   *)
(*                                                                         *)
(* The entries are numbered in the order in which they are pushed.         *)
(***************************************************************************)
EXTENDS Integers, Sequences, FiniteSets

CONSTANTS
    Searches,        \* concurrent searches
    HistoryLimit,    \* entries kept (1000)
    HistoryPage,     \* page_size of the reader
    QueryTypes,      \* "text", "image", "multi_image"
    MaxEntries       \* bound: searches ever recorded

ASSUME HistoryAssumption ==
    /\ HistoryLimit \in Nat \ {0}
    /\ HistoryPage \in Nat \ {0}
    /\ MaxEntries \in Nat

NoPage == -1   \* no next_cursor

VARIABLES
    history,   \* the list search:history:default
    pushed,    \* entries ever pushed
    trimming,  \* searches between their LPUSH and their LTRIM
    untrimmed, \* pushes whose LTRIM never came, since the last LTRIM (history)
    cursor,    \* next_cursor of the reader, or NoPage between two readings
    wanted,    \* the query_type it asks for
    given,     \* the entries it was given so far
    promised   \* entries in the list since it began

listVars == <<history, pushed, trimming, untrimmed>>
readerVars == <<cursor, wanted, given, promised>>
historyAll == <<listVars, readerVars>>

HistoryInit ==
    /\ history = << >>
    /\ pushed = 0
    /\ trimming = {}
    /\ untrimmed = 0
    /\ cursor = NoPage
    /\ wanted = "none"
    /\ given = {}
    /\ promised = {}

Entries(list) == {list[i] : i \in DOMAIN list}
Prefix(list, n) == SubSeq(list, 1, IF n < Len(list) THEN n ELSE Len(list))

-----------------------------------------------------------------------------
(* append_history: two calls of Redis, each of which may fail              *)

PushEntry(s, type) ==
    /\ s \notin trimming
    /\ pushed < MaxEntries
    /\ history' = <<[number |-> pushed + 1, query_type |-> type]>> \o history
    /\ pushed' = pushed + 1
    /\ trimming' = trimming \cup {s}
    /\ UNCHANGED <<untrimmed, readerVars>>

\* Fault: keep the first of the entries that should go.
TrimOldest(s) ==
    /\ s \in trimming
    /\ history' = SubSeq(history, 2, Len(history))
    /\ trimming' = trimming \ {s}
    /\ untrimmed' = 0
    /\ promised' = promised \cap Entries(history')
    /\ UNCHANGED <<pushed, cursor, wanted, given>>

TrimHistory(s) ==
    /\ s \in trimming
    /\ history' = Prefix(history, HistoryLimit)
    /\ trimming' = trimming \ {s}
    /\ untrimmed' = 0
    /\ promised' = promised \cap Entries(history')
    /\ UNCHANGED <<pushed, cursor, wanted, given>>

\* Redis fails or the process dies between the two calls: the warning is
\* logged, and the list is longer until the next search trims it.
TrimLost(s) ==
    /\ s \in trimming
    /\ trimming' = trimming \ {s}
    /\ untrimmed' = untrimmed + 1
    /\ UNCHANGED <<history, pushed, readerVars>>

-----------------------------------------------------------------------------
(* get_search_history, called again with its next_cursor                   *)

BeginReading(type) ==
    /\ cursor = NoPage
    /\ cursor' = 0
    /\ wanted' = type
    /\ given' = {}
    /\ promised' = Entries(history)
    /\ UNCHANGED listVars

PageAt(n) ==
    SubSeq(history, n + 1,
           IF n + HistoryPage < Len(history) THEN n + HistoryPage ELSE Len(history))

OfType(list) == {e \in Entries(list) : e.query_type = wanted}

\* Fault: whether there is more is told by the entries of the wanted type.
ReadFiltered ==
    /\ cursor # NoPage
    /\ given' = given \cup OfType(PageAt(cursor))
    /\ cursor' = IF Cardinality(OfType(PageAt(cursor))) = HistoryPage
                 THEN cursor + HistoryPage ELSE NoPage
    /\ UNCHANGED <<listVars, wanted, promised>>

\* LRANGE, then the filter: the cursor counts entries of every type.
ReadPage ==
    /\ cursor # NoPage
    /\ given' = given \cup OfType(PageAt(cursor))
    /\ cursor' = IF Len(PageAt(cursor)) = HistoryPage
                 THEN cursor + HistoryPage ELSE NoPage
    /\ UNCHANGED <<listVars, wanted, promised>>

\* A read error is answered like the end of the history: no entries and no
\* cursor.  Nothing is promised to this reader any more.
ReadLost ==
    /\ cursor # NoPage
    /\ cursor' = NoPage
    /\ promised' = {}
    /\ UNCHANGED <<listVars, wanted, given>>

HistoryNext ==
    \/ \E s \in Searches, type \in QueryTypes : PushEntry(s, type)
    \/ \E s \in Searches : TrimHistory(s) \/ TrimLost(s)
    \/ \E type \in QueryTypes : BeginReading(type)
    \/ ReadPage \/ ReadLost

HistorySpec == HistoryInit /\ [][HistoryNext]_historyAll

-----------------------------------------------------------------------------
(* Properties                                                              *)

\* "Keeps the most recent 1000" (cache.py, append_history): the list is the
\* most recent searches without a gap, at least the limit of them, and longer
\* only by the pushes that are not trimmed yet.
MostRecentKept ==
    /\ \A i \in DOMAIN history : history[i].number = pushed - i + 1
    /\ Len(history) >= pushed \/ Len(history) >= HistoryLimit
    /\ Len(history) <= HistoryLimit + Cardinality(trimming) + untrimmed

\* A reader that follows next_cursor to its end was given every entry of its
\* type that was there all along, although searches shift the list under its
\* cursor and others of its pages are filtered.
ReaderMissesNothing ==
    cursor = NoPage => {e \in promised : e.query_type = wanted} \subseteq given
=============================================================================
