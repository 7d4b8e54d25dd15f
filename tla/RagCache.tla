------------------------------ MODULE RagCache ------------------------------
(***************************************************************************)
(* RAGCache, its LRU caches and DegradePolicy, used by readers that look   *)
(* a query up, retrieve on a miss and put the result, while sources are    *)
(* updated and invalidated.  A value is the version of the corpus it was   *)
(* computed from; a key is a query with the caller's role (_query_key).    *)
(* Each get and each put is a step, and what a reader computes in between  *)
(* may be overtaken.                                                       *)
(***************************************************************************)
EXTENDS Naturals, Sequences

CONSTANTS
    CacheReaders,
    QueryKeys,
    MaxSize,            \* capacity of the query cache and of the context cache
    MaxUpdates          \* bound on the updates of the source

ASSUME CacheAssumption ==
    MaxSize \in Nat \ {0} /\ MaxUpdates \in Nat

VARIABLES
    cache,              \* "query", "context" -> entries, least recently used first
    embedding,          \* the cached embedding of the source's chunk: [asOf, put]
    corpus,             \* the version of the corpus
    updating,           \* the source has changed and is not invalidated yet
    reader              \* reader -> [at, key, asOf]

\* The field put of what is cached is history: the version of the corpus when it was put.

cacheVars == <<cache, embedding, corpus, updating, reader>>
Caches == {"query", "context"}
NoEmbedding == [asOf |-> 0, put |-> 0]

CacheIdle == [at |-> "idle", key |-> "none", asOf |-> 0]

CacheInit ==
    /\ cache = [n \in Caches |-> <<>>]
    /\ embedding = NoEmbedding
    /\ corpus = 1
    /\ updating = FALSE
    /\ reader = [r \in CacheReaders |-> CacheIdle]

\* The OrderedDict: a key has at most one entry.
KeysOf(entries) == {entries[i].key : i \in DOMAIN entries}
Position(entries, k) == CHOOSE i \in DOMAIN entries : entries[i].key = k
Entry(entries, k) == entries[Position(entries, k)]
Without(entries, k) ==
    IF k \notin KeysOf(entries) THEN entries
    ELSE SubSeq(entries, 1, Position(entries, k) - 1)
            \o SubSeq(entries, Position(entries, k) + 1, Len(entries))
Hit(entries, k) == k \in KeysOf(entries) /\ ~Entry(entries, k).expired

\* LRUCache.get: an expired entry is deleted, a hit moves to the end.
AfterGet(entries, k) ==
    IF Hit(entries, k) THEN Append(Without(entries, k), Entry(entries, k))
    ELSE Without(entries, k)

\* LRUCache.put: the key's old entry goes, then the least recently used ones.
AfterPut(entries, k, value, now) ==
    LET others == Without(entries, k)
        excess == Len(others) + 1 - MaxSize
        kept == IF excess > 0 THEN SubSeq(others, excess + 1, Len(others)) ELSE others
    IN Append(kept, [key |-> k, asOf |-> value, put |-> now, expired |-> FALSE])

\* get_query_result
AskQuery(r, k) ==
    /\ reader[r].at = "idle"
    /\ cache' = [cache EXCEPT !["query"] = AfterGet(@, k)]
    /\ IF Hit(cache["query"], k)
       THEN reader' = [reader EXCEPT ![r] = [at |-> "answered", key |-> k,
                                             asOf |-> Entry(cache["query"], k).asOf]]
       ELSE reader' = [reader EXCEPT ![r] = [at |-> "missed", key |-> k, asOf |-> 0]]
    /\ UNCHANGED <<embedding, corpus, updating>>

\* The retrieval of a missed query begins with get_embedding: a hit is what the result is
\* computed from, a miss is computed.
RetrieveMissed(r) ==
    /\ reader[r].at = "missed"
    /\ IF embedding # NoEmbedding
       THEN reader' = [reader EXCEPT ![r].at = "retrieved", ![r].asOf = embedding.asOf]
       ELSE reader' = [reader EXCEPT ![r].at = "embedded", ![r].asOf = corpus]
    /\ UNCHANGED <<cache, embedding, corpus, updating>>

PutEmbedding(r) ==
    /\ reader[r].at = "embedded"
    /\ embedding' = [asOf |-> reader[r].asOf, put |-> corpus]
    /\ reader' = [reader EXCEPT ![r].at = "retrieved"]
    /\ UNCHANGED <<cache, corpus, updating>>

\* The embedding expires, or others take its place.
DropEmbedding ==
    /\ embedding # NoEmbedding
    /\ embedding' = NoEmbedding
    /\ UNCHANGED <<cache, corpus, updating, reader>>

\* put_query_result and put_context
PutResult(r) ==
    /\ reader[r].at = "retrieved"
    /\ cache' = [n \in Caches |-> AfterPut(cache[n], reader[r].key, reader[r].asOf, corpus)]
    /\ reader' = [reader EXCEPT ![r].at = "answered"]
    /\ UNCHANGED <<embedding, corpus, updating>>

\* should_degrade and get_fallback: the query cache, then the context cache, else nothing.
FallBack(r) ==
    LET k == reader[r].key IN
    /\ reader[r].at = "missed"
    /\ cache' = [cache EXCEPT !["query"] = AfterGet(@, k),
                              !["context"] = IF Hit(cache["query"], k) THEN @ ELSE AfterGet(@, k)]
    /\ LET from == {n \in Caches : Hit(cache[n], k)} IN
       reader' = [reader EXCEPT ![r] =
                    [at |-> "answered", key |-> k,
                     asOf |-> IF from = {} THEN 0
                              ELSE Entry(cache[IF "query" \in from THEN "query" ELSE "context"],
                                         k).asOf]]
    /\ UNCHANGED <<embedding, corpus, updating>>

Leave(r) ==
    /\ reader[r].at = "answered"
    /\ reader' = [reader EXCEPT ![r] = CacheIdle]
    /\ UNCHANGED <<cache, embedding, corpus, updating>>

Expire(n, i) ==
    /\ ~cache[n][i].expired
    /\ cache' = [cache EXCEPT ![n][i].expired = TRUE]
    /\ UNCHANGED <<embedding, corpus, updating, reader>>

\* The documents of the source change.
UpdateSource ==
    /\ corpus <= MaxUpdates /\ ~updating
    /\ corpus' = corpus + 1
    /\ updating' = TRUE
    /\ UNCHANGED <<cache, embedding, reader>>

\* Mutant: the context cache is forgotten.
InvalidateQueries ==
    /\ updating
    /\ cache' = [cache EXCEPT !["query"] = <<>>]
    /\ embedding' = NoEmbedding
    /\ updating' = FALSE
    /\ UNCHANGED <<corpus, reader>>

\* invalidate_source: queries and contexts all go, embeddings by prefix.
InvalidateSource ==
    /\ updating
    /\ cache' = [n \in Caches |-> <<>>]
    /\ embedding' = NoEmbedding
    /\ updating' = FALSE
    /\ UNCHANGED <<corpus, reader>>

CacheNext ==
    \/ \E r \in CacheReaders :
          \/ \E k \in QueryKeys : AskQuery(r, k)
          \/ RetrieveMissed(r) \/ PutEmbedding(r) \/ PutResult(r) \/ FallBack(r) \/ Leave(r)
    \/ \E n \in Caches : \E i \in DOMAIN cache[n] : Expire(n, i)
    \/ DropEmbedding \/ UpdateSource \/ InvalidateSource

CacheSpec == CacheInit /\ [][CacheNext]_cacheVars

-----------------------------------------------------------------------------
CacheEntries(newest) == [key : QueryKeys, asOf : 0..newest, put : 0..newest, expired : BOOLEAN]
CacheReads(newest) == [at : {"idle", "missed", "embedded", "retrieved", "answered"},
                       key : QueryKeys \cup {"none"}, asOf : 0..newest]
OneEntryPerKey(entries) ==
    \A i, j \in DOMAIN entries : entries[i].key = entries[j].key => i = j

\* No cache holds more than its capacity, or two entries of a key.
CacheTypeOK ==
    /\ corpus \in 1..(MaxUpdates + 1) /\ updating \in BOOLEAN
    /\ embedding \in [asOf : 0..corpus, put : 0..corpus]
    /\ reader \in [CacheReaders -> CacheReads(corpus)]
    /\ \A r \in CacheReaders : reader[r].at # "idle" => reader[r].key \in QueryKeys
    /\ cache \in [Caches -> Seq(CacheEntries(corpus))]
    /\ \A n \in Caches : Len(cache[n]) <= MaxSize /\ OneEntryPerKey(cache[n])

\* Older than the corpus only because an update came between its computation and its put.
FreshOrOvertaken(item) ==
    item.asOf = corpus \/ (item.asOf < item.put /\ item.put = corpus)

\* Between updates a cached query, context or embedding is as new as the corpus, or was put
\* after the last update by a reader which that update overtook (or which read such a late
\* embedding): invalidate_source leaves nothing that was put before it, and what comes late
\* is gone with the next one.
CachedIsFresh ==
    ~updating =>
        /\ embedding # NoEmbedding => FreshOrOvertaken(embedding)
        /\ \A n \in Caches : \A i \in DOMAIN cache[n] : FreshOrOvertaken(cache[n][i])
=============================================================================
