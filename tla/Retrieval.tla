------------------------------ MODULE Retrieval ------------------------------
(***************************************************************************)
(* What the support agent finds in the knowledge base: two searches, their *)
(* fusion into one list of candidates, the reranking of the candidates and *)
(* the gate that the best of them must pass.                               *)
(*                                                                         *)
(* A hit is a chunk with the score its search gave it, in hundredths.  The *)
(* embeddings, the texts and the index are not here: a search may return   *)
(* any list its ORDER BY and LIMIT allow.                                  *)
(***************************************************************************)
EXTENDS Naturals, Sequences, FiniteSets, Functions

CONSTANTS
    Chunks,     \* chunks of the organization's completed documents
    HitScores,  \* the scores of hits
    Listed,     \* LIMIT of either search
    Candidates, \* how many fused hits go to the reranker
    RrfK,       \* ai_rrf_k
    KeywordPart,\* hybrid_keyword_weight, out of 100
    Kept        \* ai_final_top_k

ASSUME RetrievalAssumption ==
    /\ Chunks \subseteq Nat
    /\ HitScores \subseteq 0..100
    /\ KeywordPart \in 1..99
    /\ RrfK \in Nat \ {0}
    /\ Listed \in Nat /\ Candidates \in Nat

Found(l) == {l[i].chunk : i \in DOMAIN l}
RankOf(l, c) == CHOOSE i \in DOMAIN l : l[i].chunk = c
ScoreOf(l, c) == IF c \in Found(l) THEN l[RankOf(l, c)].score ELSE 0

(* Every chunk once, the better first. *)
Lists == UNION {{l \in [1..n -> [chunk : Chunks, score : HitScores]] :
                    /\ Cardinality(Found(l)) = n
                    /\ \A i \in 1..(n - 1) : l[i].score >= l[i + 1].score} : n \in 0..Listed}

(* search_pgvector and _keyword_search leave equal scores in any order, and  *)
(* the latter takes any of the matches; fts_search orders equals by id.      *)
VectorLists == Lists
KeywordLists == Lists
FtsLists == {l \in Lists : \A i, j \in DOMAIN l :
                i < j /\ l[i].score = l[j].score => l[i].chunk < l[j].chunk}

(* rrf_fuse scores a chunk 1/(k + rank) in each list that has it: here a     *)
(* numerator and a denominator.                                              *)
RrfScore(s, f, c) ==
    LET a == RrfK + RankOf(s, c)
        b == RrfK + RankOf(f, c)
    IN  CASE c \notin Found(f) -> <<1, a>>
          [] c \notin Found(s) -> <<1, b>>
          [] OTHER             -> <<a + b, a * b>>
Higher(x, y) == x[1] * y[2] > y[1] * x[2]

(* The fused order.  A definition named X_Fault is X with one plausible bug,  *)
(* which no action uses.                                                     *)
RrfBefore_ByKeyFirst(s, f, c, d) == c < d
RrfBefore(s, f, c, d) ==
    \/ Higher(RrfScore(s, f, c), RrfScore(s, f, d))
    \/ ~Higher(RrfScore(s, f, d), RrfScore(s, f, c)) /\ c < d

(* _merge_hits adds the weighted scores, out of 10000; equals stay in the    *)
(* order in which they came, the semantic hits first.                        *)
MergedScore(s, k, c) == (100 - KeywordPart) * ScoreOf(s, c) + KeywordPart * ScoreOf(k, c)
Arrival(s, k, c) == IF c \in Found(s) THEN RankOf(s, c) ELSE Len(s) + RankOf(k, c)
MergeBefore(s, k, c, d) ==
    \/ MergedScore(s, k, c) > MergedScore(s, k, d)
    \/ MergedScore(s, k, c) = MergedScore(s, k, d) /\ Arrival(s, k, c) < Arrival(s, k, d)

(* HybridRetriever.search: the fused list, cut to the candidates. *)
Before(rrf, s, t, c, d) == IF rrf THEN RrfBefore(s, t, c, d) ELSE MergeBefore(s, t, c, d)
Place(rrf, s, t, c) ==
    1 + Cardinality({d \in Found(s) \cup Found(t) : Before(rrf, s, t, d, c)})
Search(rrf, s, t) ==
    LET all   == Found(s) \cup Found(t)
        total == IF Cardinality(all) < Candidates THEN Cardinality(all) ELSE Candidates
    IN  [i \in 1..total |-> CHOOSE c \in all : Place(rrf, s, t, c) = i]

(* Reranker.rank gives each candidate a relevance and keeps the best.        *)
Rerank(hits, relevance) ==
    LET better(i, j) == \/ relevance[hits[i]] > relevance[hits[j]]
                        \/ relevance[hits[i]] = relevance[hits[j]] /\ i < j
        place(j)     == 1 + Cardinality({i \in DOMAIN hits : better(i, j)})
        total        == IF Len(hits) < Kept THEN Len(hits) ELSE Kept
    IN  [n \in 1..total |-> relevance[hits[CHOOSE j \in DOMAIN hits : place(j) = n]]]

(* aggregate_retrieval_score: six parts of the best, four of the mean.       *)
Aggregate(docs) ==
    IF docs = <<>> THEN 0
    ELSE (6 * docs[1] * Len(docs) + 4 * FoldFunction(LAMBDA x, y : x + y, 0, docs))
            \div (10 * Len(docs))

(* RelevanceGate.evaluate; docs are sorted, the first is the best. *)
GatePasses(docs, threshold, required) ==
    IF docs = <<>> THEN ~required ELSE docs[1] >= threshold

-----------------------------------------------------------------------------
(* What the fusion of two lists owes to them: no chunk that one list prefers *)
(* is put behind a chunk that neither list prefers to it, nor dropped for it. *)
Prefers(rrf, l, c, d) ==
    IF rrf THEN /\ c \in Found(l)
                /\ d \in Found(l) => RankOf(l, c) < RankOf(l, d)
           ELSE ScoreOf(l, c) > ScoreOf(l, d)
RespectsBoth(rrf, s, t, hits) ==
    \A c, d \in Found(s) \cup Found(t) :
        /\ Prefers(rrf, s, c, d) \/ Prefers(rrf, t, c, d)
        /\ ~Prefers(rrf, s, d, c) /\ ~Prefers(rrf, t, d, c)
        => \A j \in DOMAIN hits :
              hits[j] = d => \E i \in DOMAIN hits : i < j /\ hits[i] = c
=============================================================================
