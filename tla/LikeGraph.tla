----------------------------- MODULE LikeGraph -----------------------------
(***************************************************************************)
(* The likes and the builder that turns them into a graph: the query of    *)
(* build_graph_annoy (matching/tasks.py) and create_graph_from_likes        *)
(* (matching/build_graph_annoy.py).  The query has no ORDER BY, so the rows *)
(* come in any order.  What follows, the embedding and the files, is        *)
(* AnnoyIndex's.                                                           *)
(*                                                                         *)
(* Weights are in halves: reciprocal_weight is 0.5.                        *)
(***************************************************************************)
EXTENDS Likes

VARIABLES
  builder, \* "idle", or "add" in the loop over the rows
  table,   \* likes_df: the count of each pair that has a row
  todo,    \* rows the loop has not come to
  graph    \* the weight of each edge, in halves

builderVars == <<builder, table, todo, graph>>
vars == <<likeVars, builderVars>>

\* The rows build_graph_annoy puts in the place of an empty table.
Dummy == [p \in {<<1, 2>>, <<1, 3>>, <<2, 3>>} |->
            IF p = <<1, 2>> THEN 1 ELSE IF p = <<1, 3>> THEN 3 ELSE 2]

NoEdges == [e \in {} |-> 0]

InitGraph == /\ Init
             /\ builder = "idle" /\ table = NoEdges /\ todo = {} /\ graph = NoEdges

\* likes_df, from one query, and all_edges.
ReadLikes == /\ builder = "idle" /\ builder' = "add"
             /\ table' = IF made = {} THEN Dummy ELSE [p \in made |-> count[p]]
             /\ todo' = DOMAIN table'
             /\ graph' = NoEdges
             /\ UNCHANGED likeVars

Reverse(e) == <<e[2], e[1]>>

\* add_edge, or += for an edge that is there.
AddEdge(g, e, w) == [x \in DOMAIN g \cup {e} |->
                       IF x # e THEN g[x] ELSE IF e \in DOMAIN g THEN g[e] + w ELSE w]

\* Mutant: asks the graph for the reverse edge, which a later row may add.
AddRow_AsItGoes(p) ==
  LET forward == AddEdge(graph, p, 2 * table[p]) IN
  /\ builder = "add" /\ p \in todo
  /\ todo' = todo \ {p}
  /\ graph' = IF Reverse(p) \in DOMAIN graph
                THEN forward ELSE AddEdge(forward, Reverse(p), table[p])
  /\ UNCHANGED <<likeVars, builder, table>>

\* One round of the loop.
AddRow(p) ==
  LET forward == AddEdge(graph, p, 2 * table[p]) IN
  /\ builder = "add" /\ p \in todo
  /\ todo' = todo \ {p}
  /\ graph' = IF Reverse(p) \in DOMAIN table
                THEN forward ELSE AddEdge(forward, Reverse(p), table[p])
  /\ UNCHANGED <<likeVars, builder, table>>

Built == /\ builder = "add" /\ todo = {}
         /\ builder' = "idle" /\ table' = NoEdges /\ graph' = NoEdges
         /\ UNCHANGED <<likeVars, todo>>

Next == \/ LikeStep /\ UNCHANGED builderVars
        \/ ReadLikes
        \/ \E p \in todo : AddRow(p)
        \/ Built

Spec == InitGraph /\ [][Next]_vars

-----------------------------------------------------------------------------
(* Properties                                                              *)

\* Every variable has its type.
TypeOK == /\ RowsOK
          /\ builder \in {"idle", "add"}
          /\ table \in [DOMAIN table -> Nat] /\ graph \in [DOMAIN graph -> Nat]
          /\ todo \subseteq DOMAIN table
          /\ builder = "idle" => todo = {}

\* In whatever order the rows come, the graph has an edge in both directions for
\* each: the weight is the count of the row in that direction, or half the count
\* of the other one if there is none.
GraphMatchesRows ==
  builder = "add" /\ todo = {} =>
    /\ DOMAIN graph = DOMAIN table \cup {Reverse(p) : p \in DOMAIN table}
    /\ \A e \in DOMAIN graph :
         graph[e] = IF e \in DOMAIN table THEN 2 * table[e] ELSE table[Reverse(e)]
=============================================================================
