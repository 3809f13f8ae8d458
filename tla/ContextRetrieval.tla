-------------------------- MODULE ContextRetrieval --------------------------
(***************************************************************************)
(* The context of one interface: its symbols, expanded along the relations *)
(* of the scan, the chunks of these symbols and those that a vector search *)
(* adds, ranked and cut to a budget (exact_retrieval.py,                   *)
(* hybrid_retrieval.py).  Scores and distances are in percent.  Chunks are *)
(* ranked by score, first line and id, which is a random UUID.             *)
(***************************************************************************)
EXTENDS SourceIndex

CONSTANT Uuid(_)   \* the place of a chunk's id among all ids

MaxRelationDepth == 2

----------------------------------------------------------------------------
(* Exact retrieval *)

\* One round of _expand_symbol_ids; relations are followed in both directions.
Neighbours_Forward(relations, frontier) ==
  {r.target : r \in {x \in relations : x.source \in frontier}}
Neighbours(relations, frontier) ==
  {r.target : r \in {x \in relations : x.source \in frontier}}
    \cup {r.source : r \in {x \in relations : x.target \in frontier}}

\* _expand_symbol_ids: the seeds with their parents, then the rounds.
Expand(seeds, symbols, relations) ==
  LET start == seeds \cup UNION {s.parent : s \in {x \in symbols : x.qname \in seeds}}
      Round(acc, n) ==
        LET found == Neighbours(relations, acc.frontier) \ acc.selected
        IN [selected |-> acc.selected \cup found, frontier |-> found]
  IN FoldLeft(Round, [selected |-> start, frontier |-> start], [n \in 1..MaxRelationDepth |-> n]).selected

\* retrieve_exact_context, the chunks of the selected symbols
Selected(api, index) == Expand(api.controller \cup api.handler, index.symbols, index.relations)
ExactChunks(api, index) == {c \in index.chunks : c.symbol # {} /\ c.symbol \subseteq Selected(api, index)}

----------------------------------------------------------------------------
(* Hybrid retrieval *)

\* _add_exact_chunks
ExactScore(api, chunk) ==
  IF chunk.symbol = api.handler THEN 100 ELSE IF chunk.symbol = api.controller THEN 95 ELSE 85

\* search_by_embedding: the nearest of the chunks that have a vector.
Nearest(chunks, distance, limit) ==
  LET embedded == {c \in chunks : c.id \in DOMAIN distance}
      Closer(c) == {o \in embedded : distance[o.id] < distance[c.id]}
  IN {c \in embedded : Cardinality(Closer(c)) < limit}

\* _add_vector_chunks: a distance in percent counts for less than an exact hit.
VectorScore_Unweighted(distance) == IF distance >= 100 THEN 0 ELSE 100 - distance
VectorScore(distance) == IF distance >= 100 THEN 0 ELSE ((100 - distance) * 80) \div 100

\* Every candidate with the better of its scores, best first.
Ranked(api, index, distance, limit) ==
  LET exact == ExactChunks(api, index)
      near == Nearest(index.chunks, distance, limit)
      Exact(c) == IF c \in exact THEN ExactScore(api, c) ELSE 0
      Vector(c) == IF c \in near THEN VectorScore(distance[c.id]) ELSE 0
      Score(c) == IF Exact(c) >= Vector(c) THEN Exact(c) ELSE Vector(c)
      Earlier(o, c) == o.line < c.line \/ (o.line = c.line /\ Uuid(o) < Uuid(c))
      Before(c) == {o \in exact \cup near : Score(o) > Score(c) \/ (Score(o) = Score(c) /\ Earlier(o, c))}
      At(i) == CHOOSE c \in exact \cup near : Cardinality(Before(c)) = i - 1
  IN [i \in 1..Cardinality(exact \cup near) |->
        [chunk |-> At(i), score |-> Score(At(i)), exact |-> At(i) \in exact]]

\* One chunk of _apply_context_budget; after a stop nothing is added.
Take_Whole(acc, hit, limit) ==
  IF Len(acc.taken) >= limit \/ acc.remaining <= 0 THEN acc
  ELSE [taken |-> Append(acc.taken, [hit |-> hit, size |-> hit.chunk.size]),
        remaining |-> acc.remaining - hit.chunk.size]
Take(acc, hit, limit) ==
  IF Len(acc.taken) >= limit \/ acc.remaining <= 0 THEN acc
  ELSE LET size == IF hit.chunk.size > acc.remaining THEN acc.remaining ELSE hit.chunk.size
       IN [taken |-> Append(acc.taken, [hit |-> hit, size |-> size]),
           remaining |-> acc.remaining - size]

\* retrieve_hybrid_context: the hits that fit, each with the size that is kept.
Context(api, index, distance, limits) ==
  LET Step(acc, hit) == Take(acc, hit, limits.results)
  IN FoldLeft(Step, [taken |-> <<>>, remaining |-> limits.characters],
              Ranked(api, index, distance, limits.candidates)).taken

=============================================================================
