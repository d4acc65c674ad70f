------------------------------ MODULE Retrieval -----------------------------
(***************************************************************************)
(* HybridRetriever: a filtered search of the nodes' metadata narrows the   *)
(* vector search (VectorPath over the feature bank); the two lists are     *)
(* fused into one ranking.  vec_to_node is the caller's table from bank    *)
(* index to node; LinkEmbedding extends it, and the bank grows without it. *)
(* Samples and queries are numbers, their distance the square of the       *)
(* difference.  Scores are scaled by Scale.  Wild stands for what a read   *)
(* past the end of a vector gives.                                         *)
(* Bounds: MaxSamples, and the nodes 1..Len(Types).                        *)
(***************************************************************************)
EXTENDS Integers, Sequences, FiniteSets, SequencesExt, FiniteSetsExt, Folds

CONSTANTS MaxSamples, Values, Types, Filters, TopK, RangeThreshold, MaxResults, Alpha, RrfK

VARIABLES bank, vec_to_node, answer

retrVars == <<bank, vec_to_node, answer>>
NoAnswer == <<>>
Wild == 0
Scale == 1000
Nodes == DOMAIN Types

(* MetadataPath::Search: SELECT id ... LIMIT.                              *)
Meta(filter) ==
  LET hits == SetToSortSeq({n \in Nodes : filter = {} \/ Types[n] \in filter}, <)
  IN  SubSeq(hits, 1, Min({MaxResults, Len(hits)}))

(* VectorPath::Search.                                                     *)
Distance(q, i) == (q - bank[i]) * (q - bank[i])
Nearest(q, indices, k) ==
  LET order == SetToSortSeq(indices, LAMBDA i, j : Distance(q, i) < Distance(q, j)
                                                   \/ (Distance(q, i) = Distance(q, j) /\ i < j))
  IN  SubSeq(order, 1, Min({k, Len(order)}))
Search(q, mode, subset) ==
  CASE mode = "Range" -> SetToSortSeq({i \in DOMAIN bank : Distance(q, i) < RangeThreshold}, <)
    [] mode = "Hybrid" /\ subset # {} -> Nearest(q, subset \cap DOMAIN bank, Min({TopK, Cardinality(subset)}))
    [] OTHER -> Nearest(q, DOMAIN bank, TopK)

(* The reverse of the table keeps the last index of a node.                *)
\* Variant of Subset: the nodes' own numbers.
SubsetOfNodes(meta) == ToSet(meta)
Subset(meta) ==
  {Max({i \in DOMAIN vec_to_node : vec_to_node[i] = n}) : n \in ToSet(meta) \cap ToSet(vec_to_node)}
(* Vectors without a node are skipped in this list, and not in the other.  *)
MappedNodes(vec) ==
  LET known == SelectSeq(vec, LAMBDA i : i \in DOMAIN vec_to_node)
  IN  [i \in DOMAIN known |-> vec_to_node[known[i]]]
NodeAt(ids, i) == IF i \in DOMAIN ids THEN ids[i] ELSE Wild

(* A node's scores are those of the last vector that names it.             *)
Scored(n, vec, ids) == {i \in DOMAIN vec : NodeAt(ids, i) = n}
Named(vec, ids, meta) == ToSet(meta) \cup {NodeAt(ids, i) : i \in DOMAIN vec}
WeightedFuse(q, vec, ids, meta) ==
  LET far == Max({1} \cup {Distance(q, vec[i]) : i \in DOMAIN vec})
      V(n) == IF Scored(n, vec, ids) = {} THEN 0
              ELSE Scale - (Scale * Distance(q, vec[Max(Scored(n, vec, ids))])) \div far
      M(n) == IF n \in ToSet(meta) THEN Scale ELSE 0
  IN  {[node |-> n, vector |-> V(n), fused |-> (Alpha * V(n) + (10 - Alpha) * M(n)) \div 10] : n \in Named(vec, ids, meta)}
RRFFuse(q, vec, ids, meta) ==
  LET Rrf(rank) == (Scale * 100) \div (RrfK + rank)
      At(n) == {i \in DOMAIN vec : NodeAt(ids, i) = n}
      V(n) == IF At(n) = {} THEN 0 ELSE Rrf(Max(At(n)))
      F(n) == MapThenSumSet(Rrf, At(n)) + MapThenSumSet(Rrf, {r \in DOMAIN meta : meta[r] = n})
  IN  {[node |-> n, vector |-> V(n), fused |-> F(n)] : n \in Named(vec, ids, meta)}

Ranked(items) == SetToSortSeq(items, LAMBDA a, b : a.fused > b.fused \/ (a.fused = b.fused /\ a.node < b.node))
Retrieve(q, filter, mode, fusion) ==
  LET meta == Meta(filter)
      narrow == filter # {} /\ mode = "TopK"
      vec == Search(q, IF narrow THEN "Hybrid" ELSE mode, IF narrow THEN Subset(meta) ELSE {})
      ids == MappedNodes(vec)
      items == IF fusion = "Weighted" THEN WeightedFuse(q, vec, ids, meta) ELSE RRFFuse(q, vec, ids, meta)
  IN  /\ bank # <<>> /\ answer = NoAnswer  \* one question per table
      /\ answer' = [filter |-> filter, mode |-> mode, vec |-> vec, meta |-> meta,
                    items |-> IF narrow /\ meta = <<>> THEN <<>> ELSE Ranked(items),
                    fusion |-> fusion, covered |-> Len(vec_to_node) >= Len(bank),
                    known |-> ToSet(meta) \cap ToSet(vec_to_node), table |-> vec_to_node]
      /\ UNCHANGED <<bank, vec_to_node>>

AddSample(v) == /\ Len(bank) < MaxSamples /\ bank' = Append(bank, v) /\ answer' = NoAnswer
                /\ UNCHANGED vec_to_node
LinkEmbedding(n) == /\ Len(vec_to_node) < Len(bank) /\ vec_to_node' = Append(vec_to_node, n)
                    /\ answer' = NoAnswer /\ UNCHANGED bank
RetrInit == bank = <<>> /\ vec_to_node = <<>> /\ answer = NoAnswer
RetrNext ==
  \/ \E v \in Values : AddSample(v)
  \/ \E n \in Nodes : LinkEmbedding(n)
  \/ \E q \in Values, filter \in Filters, mode \in {"TopK", "Range"}, fusion \in {"Weighted", "RRF"} :
       Retrieve(q, filter, mode, fusion)
RetrSpec == RetrInit /\ [][RetrNext]_retrVars

(***************************************************************************)
(* Properties                                                              *)
(***************************************************************************)
(* An answer (hybrid_retriever.cpp:20-90) ranks each node once, best first,*)
(* and, while the table covers the bank, only nodes the metadata or a      *)
(* vector named, with a vector score exactly if one of theirs was found;   *)
(* with a filter that some linked node passes, only nodes that pass it.    *)
AnswerSound ==
  answer # NoAnswer =>
    /\ \A i, j \in DOMAIN answer.items : i < j => answer.items[i].fused >= answer.items[j].fused /\ answer.items[i].node # answer.items[j].node
    /\ answer.covered =>
         \A i \in DOMAIN answer.items :
           LET n == answer.items[i].node
               own == {j \in DOMAIN answer.vec : answer.table[answer.vec[j]] = n}
           IN  /\ n \in Nodes /\ (own # {} \/ n \in ToSet(answer.meta))
               /\ (answer.fusion = "RRF" => (answer.items[i].vector > 0) = (own # {}))
    /\ answer.covered /\ answer.filter # {} /\ answer.mode = "TopK" /\ answer.known # {} =>
         \A i \in DOMAIN answer.items : Types[answer.items[i].node] \in answer.filter

\* Documented (hybrid_retriever.cpp:62 "skipping unmapped indices"): fusion gets a list
\* of nodes as long as that of the vectors.  It reads past the end of the shorter one.
NoWildNode == answer # NoAnswer => \A i \in DOMAIN answer.items : answer.items[i].node # Wild
\* Documented (hybrid_retriever.cpp:25-33): a filter constrains the vectors.  If no node
\* that passes has a vector, the search is of the whole bank.
FilterHonoured ==
  answer # NoAnswer /\ answer.filter # {} /\ answer.mode = "TopK" /\ answer.covered =>
    \A i \in DOMAIN answer.items : Types[answer.items[i].node] \in answer.filter
=============================================================================
