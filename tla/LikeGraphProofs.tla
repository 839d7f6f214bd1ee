-------------------------- MODULE LikeGraphProofs --------------------------
(***************************************************************************)
(* Theorems about Likes and LikeGraph for every set of users and requests. *)
(*                                                                         *)
(* An instance in hand is never worth more than the likes made so far      *)
(* (InHand), which is why no overlap can invent a like; and as long as it   *)
(* is fresh it is the row, which is there.  The graph is what the rows     *)
(* already added say (Drawn): the edge back depends on all rows, not on    *)
(* those already added, which is why their order does not matter.          *)
(***************************************************************************)
EXTENDS LikeGraph, TLAPS

-----------------------------------------------------------------------------
(* The inductive invariant                                                 *)

\* Who has a row to create, or one in hand, has it for a pair.
InHand == \A r \in Requests :
            /\ pc[r] \in {"create", "like", "unlike"} => target[r] \in Pairs
            /\ pc[r] \in {"like", "unlike"} =>
                 /\ key[r] \in Requests
                 /\ mine[r] <= likes[target[r]]
                 /\ r \in fresh => /\ key[r] = row[target[r]]
                                  /\ mine[r] = count[target[r]]
            /\ pc[r] = "unlike" => mine[r] > 0
            /\ r \in fresh => pc[r] # "new"

Drawn == builder = "add" =>
           LET added == DOMAIN table \ todo
               back  == {Reverse(p) : p \in added} \ DOMAIN table IN
           /\ DOMAIN graph = added \cup back
           /\ \A e \in added : graph[e] = 2 * table[e]
           /\ \A e \in back : graph[e] = table[Reverse(e)]

\* The nodes of any table: users, or those of the dummy rows.
Nodes == Users \cup {1, 2, 3}

Inv == RowsOK /\ InHand /\ NoMoreThanLiked /\ ExactUnlessOverlapped

GraphInv == Inv /\ TypeOK /\ DOMAIN table \subseteq Nodes \X Nodes /\ Drawn

-----------------------------------------------------------------------------
(* The rows                                                                *)

LEMMA InitRows == Init => Inv
<1> SUFFICES ASSUME Init PROVE Inv
  OBVIOUS
<1>1. RowsOK
  BY DEF Init, RowsOK, made
<1>2. InHand /\ NoMoreThanLiked /\ ExactUnlessOverlapped
  BY DEF Init, InHand, NoMoreThanLiked, ExactUnlessOverlapped
<1> QED
  BY <1>1, <1>2 DEF Inv

\* A save of a count the rows allow, by a request that has its row in hand.
LEMMA SaveStep ==
  ASSUME Inv, NEW r \in Requests, SaveLike(r) \/ SaveUnlike(r)
  PROVE  Inv'
<1> USE NoOneAssumption DEF Inv, RowsOK, InHand, made, Drop
<1>1. /\ target[r] \in Pairs /\ key[r] \in Requests
      /\ mine[r] \in Nat /\ (SaveUnlike(r) => mine[r] - 1 \in Nat)
  BY DEF SaveLike, SaveUnlike, Goto
<1>2. RowsOK'
  BY <1>1 DEF SaveLike, SaveUnlike, Save, Goto
<1>3. InHand'
  BY <1>1 DEF SaveLike, SaveUnlike, Save, Goto
<1>4. NoMoreThanLiked'
  BY <1>1 DEF SaveLike, SaveUnlike, Save, Goto, NoMoreThanLiked
<1>5. ExactUnlessOverlapped'
  BY <1>1 DEF SaveLike, SaveUnlike, Save, Goto, ExactUnlessOverlapped
<1> QED
  BY <1>2, <1>3, <1>4, <1>5

\* Every step of a request keeps the rows in order.
LEMMA RowsStep == Inv /\ LikeStep => Inv'
<1> SUFFICES ASSUME Inv, LikeStep PROVE Inv'
  OBVIOUS
<1> USE NoOneAssumption
    DEF Inv, RowsOK, InHand, NoMoreThanLiked, ExactUnlessOverlapped, Goto, made,
        rowVars, instance, requestVars, history
<1>1. ASSUME NEW r \in Requests, Refused(r) PROVE Inv'
  BY <1>1 DEF Refused
<1>2. ASSUME NEW r \in Requests, NEW p \in Pairs, FirstLike(r, p) PROVE Inv'
  BY <1>2 DEF FirstLike
<1>3. ASSUME NEW r \in Requests, NEW p \in Pairs, Like(r, p) PROVE Inv'
  BY <1>3 DEF Like, Read
<1>4. ASSUME NEW r \in Requests, NEW p \in Pairs, Unlike(r, p) PROVE Inv'
  BY <1>4 DEF Unlike, Read
<1>5. ASSUME NEW r \in Requests, CreateConflicts(r) PROVE Inv'
  <2>1. target[r] \in Pairs /\ row[target[r]] \in Requests
    BY <1>5 DEF CreateConflicts
  <2>2. /\ UNCHANGED <<row, count, target, likes, unlikes, raced>>
        /\ pc' = [pc EXCEPT ![r] = "like"]
        /\ key' = [key EXCEPT ![r] = row[target[r]]]
        /\ mine' = [mine EXCEPT ![r] = count[target[r]]]
        /\ fresh' = fresh \cup {r}
    BY <1>5 DEF CreateConflicts, Read
  <2>3. RowsOK'
    BY <2>1, <2>2
  <2>4. InHand'
    BY <2>1, <2>2
  <2>5. NoMoreThanLiked'
    BY <2>2
  <2>6. ExactUnlessOverlapped'
    BY <2>2
  <2> QED
    BY <2>3, <2>4, <2>5, <2>6
<1>6. ASSUME NEW r \in Requests, Create(r) PROVE Inv'
  <2>1. target[r] \in Pairs /\ row[target[r]] = NoOne /\ count[target[r]] = 0
    BY <1>6 DEF Create
  <2>2. /\ pc' = [pc EXCEPT ![r] = "done"]
        /\ row' = [row EXCEPT ![target[r]] = r]
        /\ count' = [count EXCEPT ![target[r]] = 1]
        /\ likes' = [likes EXCEPT ![target[r]] = @ + 1]
        /\ UNCHANGED <<target, key, mine, unlikes, fresh, raced>>
    BY <1>6 DEF Create
  <2>3. RowsOK'
    BY <2>1, <2>2
  <2>4. InHand'
    BY <2>1, <2>2
  <2>5. NoMoreThanLiked'
    BY <2>1, <2>2
  <2>6. ExactUnlessOverlapped'
    BY <2>1, <2>2
  <2> QED
    BY <2>3, <2>4, <2>5, <2>6
<1>7. ASSUME NEW r \in Requests, SaveLike(r) \/ SaveUnlike(r) PROVE Inv'
  BY <1>7, SaveStep
<1>8. ASSUME NEW r \in Requests, Fails(r) PROVE Inv'
  BY <1>8 DEF Fails, Drop
<1>9. ASSUME NEW p \in Pairs, DeleteRow(p) PROVE Inv'
  BY <1>9 DEF DeleteRow
<1> QED
  BY <1>1, <1>2, <1>3, <1>4, <1>5, <1>6, <1>7, <1>8, <1>9 DEF LikeStep

-----------------------------------------------------------------------------
(* The graph                                                               *)

LEMMA ReverseTwice == \A e \in Nodes \X Nodes : Reverse(Reverse(e)) = e
BY DEF Reverse

LEMMA AddRowStep ==
  ASSUME GraphInv, NEW p \in todo, AddRow(p)
  PROVE  Drawn'
<1> DEFINE added == DOMAIN table \ todo
           back  == {Reverse(x) : x \in added} \ DOMAIN table
           q     == Reverse(p)
           g     == AddEdge(graph, p, 2 * table[p])
<1> USE DEF GraphInv, TypeOK
<1>1. /\ p \in DOMAIN table /\ p \notin DOMAIN graph
      /\ (DOMAIN table \ todo)' = added \cup {p}
  BY DEF AddRow, Drawn
<1>2. q \notin DOMAIN table => q \notin DOMAIN graph /\ q # p
  BY <1>1, ReverseTwice DEF Drawn, AddRow
<1>3. /\ DOMAIN g = DOMAIN graph \cup {p} /\ g[p] = 2 * table[p]
      /\ \A e \in DOMAIN graph : g[e] = graph[e]
  BY <1>1 DEF AddEdge
<1>0. /\ table' = table /\ builder = "add"
      /\ DOMAIN graph = added \cup back
      /\ \A e \in added : graph[e] = 2 * table[e]
      /\ \A e \in back : graph[e] = table[Reverse(e)]
  BY DEF AddRow, Drawn
<1>4. CASE q \in DOMAIN table
  <2>1. graph' = g
    BY <1>4 DEF AddRow
  <2>2. {Reverse(x) : x \in added \cup {p}} \ DOMAIN table = back
    BY <1>4
  <2> QED
    BY <1>1, <1>3, <1>0, <2>1, <2>2 DEF Drawn
<1>5. CASE q \notin DOMAIN table
  <2>1. /\ DOMAIN graph' = DOMAIN graph \cup {p, q}
        /\ graph'[p] = 2 * table[p] /\ graph'[q] = table[p]
        /\ \A e \in DOMAIN graph : graph'[e] = graph[e]
    BY <1>2, <1>3, <1>5 DEF AddRow, AddEdge
  <2>2. Reverse(q) = p
    BY <1>1, ReverseTwice
  <2>3. {Reverse(x) : x \in added \cup {p}} \ DOMAIN table = back \cup {q}
    BY <1>5
  <2> QED
    BY <1>1, <1>2, <1>5, <1>0, <2>1, <2>2, <2>3 DEF Drawn
<1> QED
  BY <1>4, <1>5

LEMMA InitGraphInv == InitGraph => GraphInv
<1> SUFFICES ASSUME InitGraph PROVE GraphInv
  OBVIOUS
<1>1. Inv
  BY InitRows DEF InitGraph
<1>2. TypeOK /\ DOMAIN table \subseteq Nodes \X Nodes /\ Drawn
  BY <1>1 DEF InitGraph, Inv, TypeOK, NoEdges, Drawn
<1> QED
  BY <1>1, <1>2 DEF GraphInv

\* Every step keeps the rows in order and the graph what its rows say.
LEMMA GraphStep == GraphInv /\ [Next]_vars => GraphInv'
<1> SUFFICES ASSUME GraphInv, [Next]_vars PROVE GraphInv'
  OBVIOUS
<1> USE DEF builderVars
<1>1. CASE LikeStep /\ UNCHANGED builderVars
  BY <1>1, RowsStep DEF GraphInv, Inv, TypeOK, Drawn
<1>2. CASE ReadLikes
  <2>1. table' \in [DOMAIN table' -> Nat] /\ DOMAIN table' \subseteq Nodes \X Nodes
    <3>1. CASE made = {}
      BY <1>2, <3>1 DEF ReadLikes, Dummy, Nodes
    <3>2. CASE made # {}
      BY <1>2, <3>2 DEF ReadLikes, GraphInv, Inv, RowsOK, Pairs, made, Nodes
    <3> QED
      BY <3>1, <3>2
  <2>2. todo' = DOMAIN table' /\ graph' = NoEdges /\ builder' = "add" /\ UNCHANGED likeVars
    BY <1>2 DEF ReadLikes
  <2>3. Inv'
    BY <2>2 DEF GraphInv, Inv, RowsOK, InHand, NoMoreThanLiked, ExactUnlessOverlapped,
                likeVars, rowVars, instance, requestVars, history, made
  <2>4. Drawn'
    BY <2>2 DEF Drawn, NoEdges
  <2>5. TypeOK'
    BY <2>1, <2>2, <2>3 DEF TypeOK, Inv, NoEdges
  <2> QED
    BY <2>1, <2>3, <2>4, <2>5 DEF GraphInv
<1>3. ASSUME NEW p \in todo, AddRow(p) PROVE GraphInv'
  <2>1. Inv' /\ UNCHANGED <<table, builder>> /\ todo' \subseteq todo /\ builder = "add"
    BY <1>3 DEF AddRow, GraphInv, Inv, RowsOK, InHand, NoMoreThanLiked,
                ExactUnlessOverlapped, likeVars, rowVars, instance, requestVars, history, made
  <2>2. graph' \in [DOMAIN graph' -> Nat]
    BY <1>3 DEF AddRow, AddEdge, GraphInv, TypeOK
  <2>3. TypeOK'
    BY <2>1, <2>2 DEF TypeOK, GraphInv, Inv
  <2> QED
    BY <1>3, <2>1, <2>3, AddRowStep DEF GraphInv
<1>4. CASE Built
  <2>1. /\ builder' = "idle" /\ table' = NoEdges /\ graph' = NoEdges /\ todo' = {}
        /\ UNCHANGED likeVars
    BY <1>4 DEF Built
  <2>2. Inv'
    BY <2>1 DEF GraphInv, Inv, RowsOK, InHand, NoMoreThanLiked, ExactUnlessOverlapped,
                likeVars, rowVars, instance, requestVars, history, made
  <2> QED
    BY <2>1, <2>2 DEF GraphInv, TypeOK, Inv, NoEdges, Drawn
<1>5. CASE UNCHANGED vars
  BY <1>5 DEF vars, likeVars, rowVars, instance, requestVars, history, made, GraphInv, TypeOK, Drawn,
              Inv, RowsOK, InHand, NoMoreThanLiked, ExactUnlessOverlapped
<1> QED
  BY <1>1, <1>2, <1>3, <1>4, <1>5 DEF Next

LEMMA Invariance == Spec => []GraphInv
BY InitGraphInv, GraphStep, PTL DEF Spec

-----------------------------------------------------------------------------
(* The theorems                                                            *)

\* Every variable has its type; in particular no unlike takes a count below zero.
THEOREM TypeCorrect == Spec => []TypeOK
<1>1. GraphInv => TypeOK
  BY DEF GraphInv
<1> QED
  BY Invariance, <1>1, PTL

\* Whatever overlaps, fails or is deleted, a count never exceeds the likes that were made.
THEOREM NoInventedLikes == Spec => []NoMoreThanLiked
<1>1. GraphInv => NoMoreThanLiked
  BY DEF GraphInv, Inv
<1> QED
  BY Invariance, <1>1, PTL

\* Where no save overtook another the count is exact, first likes at a time included.
THEOREM ExactCounts == Spec => []ExactUnlessOverlapped
<1>1. GraphInv => ExactUnlessOverlapped
  BY DEF GraphInv, Inv
<1> QED
  BY Invariance, <1>1, PTL

\* The graph is a function of the rows, not of the order they come in.
THEOREM GraphOfRows == Spec => []GraphMatchesRows
<1>1. GraphInv => GraphMatchesRows
  BY DEF GraphInv, TypeOK, Drawn, GraphMatchesRows
<1> QED
  BY Invariance, <1>1, PTL
=============================================================================
