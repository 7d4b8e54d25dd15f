----------------------------- MODULE Retrieval ------------------------------
(***************************************************************************)
(* The retrieval chain of a query: two rankings are merged (RRF), filtered *)
(* by access level and cut, reranked and cut, deduplicated, rid of low     *)
(* value chunks and packed into the token budget.  Each stage is one step. *)
(* A chunk's text is abstracted to its duplicate class and token count;    *)
(* its freshness and authority to one score, in sixtieths of a relevance.  *)
(***************************************************************************)
EXTENDS Naturals, Sequences, FiniteSets, SequencesExt

CONSTANTS
    Chunks,             \* chunk -> [level, text, tokens, low, bonus]
    UserRoles,
    SearchTopK,         \* of the two searches
    FinalTopK,          \* of the retriever
    TopN,               \* of the reranker
    TokenBudgets

ASSUME RetrievalAssumption ==
    /\ SearchTopK \in Nat /\ FinalTopK \in Nat \ {0} /\ TopN \in Nat \ {0} /\ TokenBudgets \subseteq Nat
    /\ \A c \in DOMAIN Chunks : Chunks[c].tokens \in Nat /\ Chunks[c].bonus \in Nat

VARIABLES
    query,              \* [role, vector, keyword, budget]: the two rankings are inputs
    stage,
    hits                \* the chunks after the last stage, best first

retrievalVars == <<query, stage, hits>>

\* Rankings without repetitions, as the two searches return them.
Rankings == UNION {{r \in [1..n -> DOMAIN Chunks] : IsInjective(r)} :
                      n \in 0..SearchTopK}

RetrievalInit ==
    /\ query \in [role : UserRoles, vector : Rankings, keyword : Rankings, budget : TokenBudgets]
    /\ stage = "start"
    /\ hits = <<>>

FirstN(chunks, n) == SubSeq(chunks, 1, IF n < Len(chunks) THEN n ELSE Len(chunks))

Advance(from, to, chunks) ==
    /\ stage = from /\ stage' = to
    /\ hits' = chunks
    /\ UNCHANGED query

Rank(ranking, c) == SelectInSeq(ranking, LAMBDA x : x = c)
Union(a, b) == ToSet(a) \cup ToSet(b)

\* 1 / (60 + rank), in millionths.
Reciprocal(rank) == IF rank = 0 THEN 0 ELSE 1000000 \div (60 + rank)
RrfScore(c) == Reciprocal(Rank(query.vector, c)) + Reciprocal(Rank(query.keyword, c))

\* Order of first insertion into the score table: ties keep it.
Inserted(c) ==
    IF Rank(query.vector, c) > 0 THEN Rank(query.vector, c)
    ELSE Len(query.vector) + Rank(query.keyword, c)

\* The set in decreasing order of a score, ties by position.
Sorted(set, Score(_), Position(_)) ==
    SetToSortSeq(set, LAMBDA a, b : \/ Score(a) > Score(b)
                                    \/ Score(a) = Score(b) /\ Position(a) < Position(b))

\* _merge_rrf
Merged == Sorted(Union(query.vector, query.keyword), RrfScore, Inserted)

Allowed == [public |-> {"public"}, internal |-> {"public", "internal"},
            admin |-> {"public", "internal", "restricted"}]

\* Mutant: the cut to top_k comes before the access filter.
FilteredAfterCut(role) ==
    LET levels == IF role \in DOMAIN Allowed THEN Allowed[role] ELSE {"public"}
    IN SelectSeq(FirstN(Merged, FinalTopK), LAMBDA c : Chunks[c].level \in levels)

\* _filter_by_access, and the cut to top_k; an unknown role sees what is public.
FilteredTopK(role) ==
    LET levels == IF role \in DOMAIN Allowed THEN Allowed[role] ELSE {"public"}
        visible == SelectSeq(Merged, LAMBDA c : Chunks[c].level \in levels)
    IN FirstN(visible, FinalTopK)

Retrieve == Advance("start", "retrieved", FilteredTopK(query.role))

\* rerank: the relevance normalised by the best one, plus freshness and authority.
FinalScore(c) ==
    (60 * RrfScore(c)) \div RrfScore(hits[1]) + Chunks[c].bonus
Rerank ==
    Advance("retrieved", "reranked",
            FirstN(Sorted(ToSet(hits), FinalScore, LAMBDA c : Rank(hits, c)), TopN))

\* Mutant: the last of several duplicates is kept.
DeduplicatedLast(chunks) ==
    SelectSeq(chunks, LAMBDA c : \A d \in ToSet(chunks) :
        Rank(chunks, d) > Rank(chunks, c) => Chunks[d].text # Chunks[c].text)

\* _deduplicate: a chunk like one before it is dropped.
Deduplicated(chunks) ==
    SelectSeq(chunks, LAMBDA c : \A d \in ToSet(chunks) :
        Rank(chunks, d) < Rank(chunks, c) => Chunks[d].text # Chunks[c].text)

\* The greedy choice: a chunk that does not fit is skipped, later ones are still tried.
Pack(taken, c, budget) ==
    IF taken.used + Chunks[c].tokens > budget THEN taken
    ELSE [chunks |-> Append(taken.chunks, c), used |-> taken.used + Chunks[c].tokens]

\* compress
Compress ==
    LET valuable == SelectSeq(Deduplicated(hits), LAMBDA c : ~Chunks[c].low)
        packed == FoldLeft(LAMBDA taken, c : Pack(taken, c, query.budget),
                           [chunks |-> <<>>, used |-> 0], valuable)
    IN Advance("reranked", "compressed", packed.chunks)

RetrievalDone == stage = "compressed" /\ UNCHANGED retrievalVars

RetrievalNext == Retrieve \/ Rerank \/ Compress \/ RetrievalDone
RetrievalSpec == RetrievalInit /\ [][RetrievalNext]_retrievalVars

-----------------------------------------------------------------------------
RetrievalTypeOK ==
    /\ stage \in {"start", "retrieved", "reranked", "compressed"}
    /\ hits \in Seq(DOMAIN Chunks)

\* What a role may see, as a reference: levels up to its own.
Visible(role, c) ==
    \/ Chunks[c].level = "public"
    \/ Chunks[c].level = "internal" /\ role \in {"internal", "admin"}
    \/ Chunks[c].level = "restricted" /\ role = "admin"

\* The chunks a role may not see take no place: as many chunks are retrieved as there are
\* visible candidates, up to top_k, and a chunk both searches rank above another comes first.
RetrievalIsFull ==
    stage = "retrieved" =>
        LET candidates == {c \in Union(query.vector, query.keyword) : Visible(query.role, c)}
        IN /\ Len(hits) = IF Cardinality(candidates) < FinalTopK
                          THEN Cardinality(candidates) ELSE FinalTopK
           /\ \A c \in candidates, d \in ToSet(hits) :
                 /\ 0 < Rank(query.vector, c) /\ Rank(query.vector, c) < Rank(query.vector, d)
                 /\ 0 < Rank(query.keyword, c) /\ Rank(query.keyword, c) < Rank(query.keyword, d)
                 => Rank(hits, c) \in 1..(Rank(hits, d) - 1)

Total(chunks) == FoldLeft(LAMBDA sum, c : sum + Chunks[c].tokens, 0, chunks)

\* Compression leaves out only what it should: every chunk missing from the context is of
\* low value, repeats a better chunk, or does not fit any more; and the best chunk of all,
\* if it is of value and fits, comes first.
NothingLeftOut ==
    [][stage = "reranked" =>
          /\ \A c \in ToSet(hits) \ ToSet(hits') :
                \/ Chunks[c].low
                \/ Total(hits') + Chunks[c].tokens > query.budget
                \/ \E d \in ToSet(hits) :
                      Rank(hits, d) < Rank(hits, c) /\ Chunks[d].text = Chunks[c].text
          /\ hits # <<>> /\ ~Chunks[hits[1]].low /\ Chunks[hits[1]].tokens <= query.budget =>
                hits' # <<>> /\ hits'[1] = hits[1]]_retrievalVars
=============================================================================
