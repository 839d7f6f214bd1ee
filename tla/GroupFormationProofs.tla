------------------------ MODULE GroupFormationProofs ------------------------
(***************************************************************************)
(* Theorems about GroupFormation for every set of users, batch size and    *)
(* number of neighbours, with or without a torn index.                     *)
(*                                                                         *)
(* The properties are not inductive alone.  That groups are disjoint needs *)
(* to know what the loop holds in its hands at each pc; the size of a group *)
(* needs the counter i to be the size of the group being filled.  Inv is   *)
(* the inductive strengthening.                                            *)
(***************************************************************************)
EXTENDS GroupFormation, FiniteSetTheorems, SequenceTheorems, TLAPS

-----------------------------------------------------------------------------
(* The inductive invariant                                                 *)

\* What the two loops hold in their hands, and when.
Hands == /\ pc = "take" => \E u \in Users : popped = {u}
         /\ pc \notin {"take", "raised"} => popped = {} /\ matched = {}
         /\ pc \in {"load", "pop", "take"} =>
              group = {} /\ i = 0 /\ leftoverGroups = {}
         /\ pc = "done" => group = {} /\ leftover = {}

\* How many they hold, and how many each group has.
Sizes == /\ Cardinality(matched) <= 3
         /\ pc = "drain" => Cardinality(group) = i
         /\ \A g \in clusterGroups : Cardinality(g) \in 3..4
         /\ \A g \in leftoverGroups : Cardinality(g) \in 1..4
         /\ pc # "done" => \A g \in leftoverGroups : Cardinality(g) = 4
         /\ \A g, h \in leftoverGroups :
              g # h => Cardinality(g) >= 3 \/ Cardinality(h) >= 3

\* What the neighbour lists are made of.
FromIndex == /\ popped \subseteq indexed
             /\ matched \subseteq indexed
             /\ neighbours \in Seq(indexed)
             /\ NewUsersOnlyInLeftover

\* Why the cluster's loop ended, or never began.
LoopEnd == /\ pc = "load" => ~loaded
           /\ ~loaded => /\ pc \notin {"pop", "take"}
                         /\ leftover = {} /\ group = {} /\ formed = {}
           /\ pc \in {"drain", "done"} /\ loaded /\ global # {} =>
                processed = BatchSize

Inv == TypeOK /\ NobodyTwice /\ Hands /\ Sizes /\ FromIndex /\ LoopEnd

-----------------------------------------------------------------------------
(* Lemmas                                                                  *)

\* Sets of users are finite, so they can be counted.
LEMMA UsersCount ==
  ASSUME NEW S \in SUBSET Users
  PROVE  IsFiniteSet(S) /\ Cardinality(S) \in Nat
BY UsersFinite, FS_Subset, FS_CardinalityType

\* Adding a user to a set of users that lacks it adds one to its size.
LEMMA AddUser ==
  ASSUME NEW S \in SUBSET Users, NEW u \in Users, u \notin S
  PROVE  Cardinality(S \cup {u}) = Cardinality(S) + 1
BY UsersCount, FS_AddElement

\* An answer of the index is a sequence of indexed users.
LEMMA AnswersAreSequences == ASSUME NEW s \in Answers PROVE s \in Seq(indexed)
<1>1. PICK n \in 0..(TopK + 1) : s \in [1..n -> indexed]
  BY DEF Answers
<1> QED
  BY <1>1, TopKAssumption

\* A group none of whose users is in an earlier group can join the groups.
LEMMA AddGroup ==
  ASSUME NEW F, NEW g, g \cap UNION F = {},
         \A h, k \in F : h # k => h \cap k = {}
  PROVE  /\ UNION (F \cup {g}) = (UNION F) \cup g
         /\ \A h \in F : h \cap g = {}
         /\ \A h, k \in F \cup {g} : h # k => h \cap k = {}
<1>1. UNION (F \cup {g}) = (UNION F) \cup g
  OBVIOUS
<1>2. \A h \in F : h \cap g = {}
  OBVIOUS
<1> QED
  BY <1>1, <1>2

\* The initial state satisfies the invariant.
LEMMA InitInv == Init => Inv
<1> SUFFICES ASSUME Init PROVE Inv
  OBVIOUS
<1>1. TypeOK
  <2>1. neighbours \in Seq(Users) /\ neighbours \in Seq(indexed)
    BY EmptySeq DEF Init
  <2>2. processed \in 0..BatchSize /\ i \in 0..3
    BY BatchAssumption DEF Init
  <2>3. global \subseteq Users /\ indexed \subseteq Users
    BY DEF Init
  <2> QED
    BY <2>1, <2>2, <2>3 DEF Init, TypeOK
<1>2. NobodyTwice /\ Hands /\ FromIndex /\ LoopEnd
  BY EmptySeq DEF Init, NobodyTwice, Hands, FromIndex, LoopEnd, NewUsersOnlyInLeftover,
         formed, InHand
<1>3. Sizes
  BY FS_EmptySet DEF Init, Sizes
<1> QED
  BY <1>1, <1>2, <1>3 DEF Inv

\* Every step preserves the types of the variables.
LEMMA TypeStep == TypeOK /\ FromIndex /\ [Next]_vars => TypeOK'
<1> SUFFICES ASSUME TypeOK, FromIndex, [Next]_vars PROVE TypeOK'
  OBVIOUS
<1> USE BatchAssumption DEF TypeOK, clusterVars, drainVars
<1>1. CASE LoadIndex \/ IndexMissing \/ LoadRaises
  BY <1>1 DEF LoadIndex, IndexMissing, LoadRaises
<1>2. ASSUME NEW u \in Users, PopUnmapped(u) PROVE TypeOK'
  BY <1>2 DEF PopUnmapped, MayPop
<1>3. ASSUME NEW u \in Users, PopMapped(u) PROVE TypeOK'
  <2>1. neighbours' \in Seq(Users)
    BY <1>3, AnswersAreSequences DEF PopMapped
  <2> QED
    BY <1>3, <2>1 DEF PopMapped, MayPop
<1>4. ASSUME NEW u \in Users, DrainOne(u) PROVE TypeOK'
  BY <1>4 DEF DrainOne
<1>5. CASE LookupRaises
  BY <1>5 DEF LookupRaises
<1>6. CASE TakeNeighbour
  <2>1. neighbours' \in Seq(Users)
    BY <1>6, HeadTailProperties DEF TakeNeighbour
  <2> QED
    BY <1>6, <2>1 DEF TakeNeighbour, InQueue
<1>7. CASE TooFew
  BY <1>7 DEF TooFew, SearchOver
<1>8. CASE CloseGroup
  BY <1>8 DEF CloseGroup, SearchOver
<1>9. CASE EndCluster \/ Finish
  BY <1>9 DEF EndCluster, Finish
<1>10. CASE UNCHANGED vars
  BY <1>10 DEF vars
<1> QED
  BY <1>1, <1>2, <1>3, <1>4, <1>5, <1>6, <1>7, <1>8, <1>9, <1>10
     DEF Next, Step, Stopped

\* Every step keeps a user in one place.
LEMMA TwiceStep == Inv /\ [Next]_vars => NobodyTwice'
<1> SUFFICES ASSUME Inv, [Next]_vars PROVE NobodyTwice'
  OBVIOUS
<1> USE DEF Inv, TypeOK, NobodyTwice, Hands, formed, InHand, clusterVars, drainVars
<1>1. CASE LoadIndex \/ IndexMissing \/ LoadRaises
  BY <1>1 DEF LoadIndex, IndexMissing, LoadRaises
<1>2. ASSUME NEW u \in Users, PopUnmapped(u) PROVE NobodyTwice'
  BY <1>2 DEF PopUnmapped, MayPop
<1>3. ASSUME NEW u \in Users, PopMapped(u) PROVE NobodyTwice'
  BY <1>3 DEF PopMapped, MayPop
<1>4. ASSUME NEW u \in Users, DrainOne(u) PROVE NobodyTwice'
  <2>1. CASE i = 3
    <3> DEFINE g == group \cup {u}
    <3>1. formed' = formed \cup {g} /\ InHand' = {} /\ UNCHANGED <<global, clusterGroups>>
      BY <1>4, <2>1 DEF DrainOne
    <3>2. g \cap UNION formed = {}
      BY <1>4 DEF DrainOne
    <3>3. /\ UNION formed' = (UNION formed) \cup g
          /\ \A h, k \in formed' : h # k => h \cap k = {}
      <4>1. \A h, k \in formed : h # k => h \cap k = {}
        OBVIOUS
      <4> HIDE DEF g, formed
      <4> QED
        BY <3>1, <3>2, <4>1, AddGroup
    <3>4. clusterGroups' \cap leftoverGroups' = {}
      BY <1>4, <2>1, <3>2 DEF DrainOne
    <3>5. leftover' = leftover \ {u} /\ popped' = {} /\ matched' = {}
      BY <1>4 DEF DrainOne
    <3> HIDE DEF formed
    <3> QED
      BY <1>4, <3>1, <3>2, <3>3, <3>4, <3>5 DEF DrainOne
  <2>2. CASE i # 3
    BY <1>4, <2>2 DEF DrainOne
  <2> QED
    BY <2>1, <2>2
<1>5. CASE LookupRaises
  BY <1>5 DEF LookupRaises
<1>6. CASE TakeNeighbour
  BY <1>6 DEF TakeNeighbour, InQueue
<1>7. CASE TooFew
  BY <1>7 DEF TooFew, SearchOver
<1>8. CASE CloseGroup
  <2> DEFINE g == popped \cup matched
  <2>1. /\ formed' = formed \cup {g} /\ InHand' = {}
        /\ leftoverGroups' = {} /\ UNCHANGED <<global, leftover>>
    BY <1>8 DEF CloseGroup, SearchOver
  <2>2. g \cap UNION formed = {} /\ g \cap (global \cup leftover) = {}
    OBVIOUS
  <2>3. /\ UNION formed' = (UNION formed) \cup g
        /\ \A h, k \in formed' : h # k => h \cap k = {}
    <3>1. \A h, k \in formed : h # k => h \cap k = {}
      OBVIOUS
    <3>2. g \cap UNION formed = {}
      BY <2>2
    <3> HIDE DEF g, formed
    <3> QED
      BY <2>1, <3>1, <3>2, AddGroup
  <2>4. popped' = {} /\ matched' = {} /\ group' = {}
    BY <1>8 DEF CloseGroup, SearchOver
  <2> HIDE DEF formed
  <2> QED
    BY <2>1, <2>2, <2>3, <2>4
<1>9. CASE EndCluster
  BY <1>9 DEF EndCluster
<1>10. CASE Finish
  <2>1. CASE group = {}
    BY <1>10, <2>1 DEF Finish
  <2>2. CASE group # {}
    <3>1. /\ formed' = formed \cup {group} /\ InHand' = {}
          /\ leftoverGroups' = leftoverGroups \cup {group}
          /\ UNCHANGED <<global, leftover, clusterGroups>>
      BY <1>10, <2>2 DEF Finish
    <3>2. group \cap UNION formed = {}
      OBVIOUS
    <3>3. /\ UNION formed' = (UNION formed) \cup group
          /\ \A h, k \in formed' : h # k => h \cap k = {}
      BY <3>1, <3>2, AddGroup
    <3>4. group \notin clusterGroups
      BY <2>2, <3>2
    <3>5. popped' = {} /\ matched' = {} /\ group' = {}
      BY <1>10 DEF Finish
    <3>6. clusterGroups' \cap leftoverGroups' = {}
      BY <3>1, <3>4
    <3> HIDE DEF formed
    <3> QED
      BY <3>1, <3>2, <3>3, <3>5, <3>6
  <2> QED
    BY <2>1, <2>2
<1>11. CASE UNCHANGED vars
  BY <1>11 DEF vars
<1> QED
  BY <1>1, <1>2, <1>3, <1>4, <1>5, <1>6, <1>7, <1>8, <1>9, <1>10, <1>11
     DEF Next, Step, Stopped

\* Every step keeps the book on what the loops hold.
LEMMA HandsStep == Inv /\ [Next]_vars => Hands' /\ LoopEnd' /\ FromIndex'
<1> SUFFICES ASSUME Inv, [Next]_vars PROVE Hands' /\ LoopEnd' /\ FromIndex'
  OBVIOUS
<1> USE BatchAssumption
    DEF Inv, TypeOK, Hands, LoopEnd, FromIndex, NewUsersOnlyInLeftover, formed,
        clusterVars, drainVars
<1>1. CASE LoadIndex \/ IndexMissing \/ LoadRaises
  BY <1>1 DEF LoadIndex, IndexMissing, LoadRaises
<1>2. ASSUME NEW u \in Users, PopUnmapped(u) PROVE Hands' /\ LoopEnd' /\ FromIndex'
  BY <1>2 DEF PopUnmapped, MayPop
<1>3. ASSUME NEW u \in Users, PopMapped(u) PROVE Hands' /\ LoopEnd' /\ FromIndex'
  <2>1. neighbours' \in Seq(indexed)
    BY <1>3, AnswersAreSequences DEF PopMapped
  <2> QED
    BY <1>3, <2>1 DEF PopMapped, MayPop
<1>4. ASSUME NEW u \in Users, DrainOne(u) PROVE Hands' /\ LoopEnd' /\ FromIndex'
  BY <1>4 DEF DrainOne
<1>5. CASE LookupRaises
  BY <1>5 DEF LookupRaises
<1>6. CASE TakeNeighbour
  <2>1. Head(neighbours) \in indexed /\ neighbours' \in Seq(indexed)
    BY <1>6, HeadTailProperties DEF TakeNeighbour
  <2> QED
    BY <1>6, <2>1 DEF TakeNeighbour, InQueue
<1>7. CASE TooFew
  <2>1. neighbours' \in Seq(indexed)
    BY <1>7, EmptySeq DEF TooFew
  <2> QED
    BY <1>7, <2>1 DEF TooFew, SearchOver
<1>8. CASE CloseGroup
  <2>1. neighbours' \in Seq(indexed)
    BY <1>8, EmptySeq DEF CloseGroup
  <2> QED
    BY <1>8, <2>1 DEF CloseGroup, SearchOver
<1>9. CASE EndCluster
  BY <1>9 DEF EndCluster
<1>10. CASE Finish
  BY <1>10 DEF Finish
<1>11. CASE UNCHANGED vars
  BY <1>11 DEF vars
<1> QED
  BY <1>1, <1>2, <1>3, <1>4, <1>5, <1>6, <1>7, <1>8, <1>9, <1>10, <1>11
     DEF Next, Step, Stopped

\* Every step keeps the sizes: the counter i is the size of the group that is
\* being filled, so a group is closed at exactly four.
LEMMA SizesStep == Inv /\ [Next]_vars => Sizes'
<1> SUFFICES ASSUME Inv, [Next]_vars PROVE Sizes'
  OBVIOUS
<1> USE DEF Inv, TypeOK, Sizes, Hands, clusterVars, drainVars
<1>1. CASE LoadIndex \/ IndexMissing \/ LoadRaises
  BY <1>1, FS_EmptySet DEF LoadIndex, IndexMissing, LoadRaises
<1>2. ASSUME NEW u \in Users, PopUnmapped(u) PROVE Sizes'
  BY <1>2 DEF PopUnmapped, MayPop
<1>3. ASSUME NEW u \in Users, PopMapped(u) PROVE Sizes'
  BY <1>3, FS_EmptySet DEF PopMapped, MayPop
<1>4. ASSUME NEW u \in Users, DrainOne(u) PROVE Sizes'
  <2>1. u \notin group
    BY <1>4 DEF DrainOne, NobodyTwice, InHand
  <2>2. Cardinality(group \cup {u}) = i + 1
    BY <1>4, <2>1, AddUser DEF DrainOne
  <2>3. CASE i = 3
    <3> DEFINE g == group \cup {u}
    <3>1. /\ leftoverGroups' = leftoverGroups \cup {g} /\ group' = {} /\ i' = 0
          /\ UNCHANGED <<pc, matched, clusterGroups>> /\ pc = "drain"
      BY <1>4, <2>3 DEF DrainOne
    <3>2. Cardinality(g) = 4 /\ Cardinality(group') = 0
      BY <2>2, <2>3, <3>1, FS_EmptySet
    <3> HIDE DEF g
    <3> QED
      BY <3>1, <3>2
  <2>4. CASE i # 3
    BY <1>4, <2>2, <2>4 DEF DrainOne
  <2> QED
    BY <2>3, <2>4
<1>5. CASE LookupRaises
  BY <1>5 DEF LookupRaises
<1>6. CASE TakeNeighbour
  <2> DEFINE v == Head(neighbours)
  <2>1. v \in Users
    BY <1>6, HeadTailProperties DEF TakeNeighbour
  <2>2. CASE matched' = matched \cup {v} /\ v \in global
    <3>1. v \notin matched
      BY <2>2 DEF NobodyTwice, InHand
    <3>2. Cardinality(matched') = Cardinality(matched) + 1
      BY <2>1, <2>2, <3>1, AddUser
    <3>3. Cardinality(matched) \in Nat
      BY UsersCount
    <3> HIDE DEF v
    <3> QED
      BY <1>6, <3>2, <3>3 DEF TakeNeighbour
  <2>3. CASE matched' = matched
    BY <1>6, <2>3 DEF TakeNeighbour
  <2>4. matched' = matched \/ (matched' = matched \cup {v} /\ v \in global)
    BY <1>6 DEF TakeNeighbour, InQueue
  <2> QED
    BY <2>2, <2>3, <2>4
<1>7. CASE TooFew
  BY <1>7, FS_EmptySet DEF TooFew, SearchOver
<1>8. CASE CloseGroup
  <2>1. PICK u \in Users : popped = {u}
    BY <1>8 DEF CloseGroup, SearchOver
  <2>2. u \notin matched
    BY <2>1 DEF NobodyTwice
  <2>3. Cardinality(popped \cup matched) = Cardinality(matched) + 1
    <3>1. popped \cup matched = matched \cup {u}
      BY <2>1
    <3> QED
      BY <2>2, <3>1, AddUser
  <2>4. Cardinality(matched) \in 2..3
    BY <1>8, UsersCount DEF CloseGroup
  <2> DEFINE g == popped \cup matched
  <2>5. /\ clusterGroups' = clusterGroups \cup {g} /\ matched' = {}
        /\ UNCHANGED leftoverGroups /\ pc' = "pop" /\ pc = "take"
    BY <1>8 DEF CloseGroup, SearchOver
  <2>6. Cardinality(g) \in 3..4 /\ Cardinality(matched') = 0
    BY <2>3, <2>4, <2>5, FS_EmptySet
  <2> HIDE DEF g
  <2> QED
    BY <2>5, <2>6
<1>9. CASE EndCluster
  BY <1>9, FS_EmptySet DEF EndCluster
<1>10. CASE Finish
  <2>1. CASE group = {}
    BY <1>10, <2>1 DEF Finish
  <2>2. CASE group # {}
    <3>1. leftoverGroups' = leftoverGroups \cup {group}
      BY <1>10, <2>2 DEF Finish
    <3>2. Cardinality(group) \in 1..3
      BY <1>10, <2>2, UsersCount, FS_EmptySet DEF Finish
    <3> QED
      BY <1>10, <3>1, <3>2 DEF Finish
  <2> QED
    BY <2>1, <2>2
<1>11. CASE UNCHANGED vars
  BY <1>11 DEF vars
<1> QED
  BY <1>1, <1>2, <1>3, <1>4, <1>5, <1>6, <1>7, <1>8, <1>9, <1>10, <1>11
     DEF Next, Step, Stopped

LEMMA InvStep == Inv /\ [Next]_vars => Inv'
BY TypeStep, TwiceStep, HandsStep, SizesStep DEF Inv

-----------------------------------------------------------------------------
(* Theorems                                                                *)

\* The invariant holds in every state of every run.
THEOREM Invariance == Spec => []Inv
BY InitInv, InvStep, PTL DEF Spec

\* Type correctness, and the batch bound, for every batch size.
THEOREM TypeCorrect == Spec => []TypeOK
<1>1. Inv => TypeOK
  BY DEF Inv
<1> QED
  BY <1>1, Invariance, PTL

\* No user is ever in two groups, or in a group and still in a queue.
THEOREM NoDoubleMatching == Spec => []NobodyTwice
<1>1. Inv => NobodyTwice
  BY DEF Inv
<1> QED
  BY <1>1, Invariance, PTL

\* The groups of the index never take in a user without an entry in the map.
THEOREM NewUsersGoToLeftover == Spec => []NewUsersOnlyInLeftover
<1>1. Inv => NewUsersOnlyInLeftover
  BY DEF Inv, FromIndex
<1> QED
  BY <1>1, Invariance, PTL

\* What the groups are formed from, as the abstract grouping sees it.
Waiting == global \cup leftover \cup InHand

\* Every step either moves users among the queues and the hands, or takes one
\* group of the abstract specification out of them.
LEMMA StepRefines ==
  ASSUME Inv, [Next]_vars
  PROVE  \/ Waiting' = Waiting /\ formed' = formed
         \/ \E g \in SUBSET Waiting :
              /\ g # {} /\ Cardinality(g) <= 4
              /\ \A h \in formed : Cardinality(h) >= 3
              /\ Waiting' = Waiting \ g
              /\ formed' = formed \cup {g}
<1> DEFINE Same == Waiting' = Waiting /\ formed' = formed
           Takes(g) == /\ g # {} /\ Cardinality(g) <= 4
                       /\ \A h \in formed : Cardinality(h) >= 3
                       /\ Waiting' = Waiting \ g
                       /\ formed' = formed \cup {g}
<1> SUFFICES Same \/ \E g \in SUBSET Waiting : Takes(g)
  OBVIOUS
<1> USE DEF Inv, TypeOK, Hands, Waiting, formed, InHand, clusterVars, drainVars
<1>0. pc # "done" => \A h \in formed : Cardinality(h) >= 3
  BY DEF Sizes
<1>1. CASE LoadIndex \/ IndexMissing \/ LoadRaises
  BY <1>1 DEF LoadIndex, IndexMissing, LoadRaises
<1>2. ASSUME NEW u \in Users, PopUnmapped(u) PROVE Same
  BY <1>2 DEF PopUnmapped, MayPop
<1>3. ASSUME NEW u \in Users, PopMapped(u) PROVE Same
  BY <1>3 DEF PopMapped, MayPop
<1>4. ASSUME NEW u \in Users, DrainOne(u)
      PROVE  Same \/ \E g \in SUBSET Waiting : Takes(g)
  <2>1. CASE i = 3
    <3> DEFINE g == group \cup {u}
    <3>1. Cardinality(g) = 4
      BY <1>4, <2>1, AddUser DEF DrainOne, NobodyTwice, Sizes
    <3>2. g \cap (global \cup (leftover \ {u})) = {} /\ g \subseteq Waiting
      BY <1>4 DEF NobodyTwice, DrainOne
    <3>3. Waiting' = Waiting \ g /\ formed' = formed \cup {g}
      BY <1>4, <2>1, <3>2 DEF DrainOne
    <3> HIDE DEF Waiting, formed
    <3>4. Takes(g)
      BY <1>0, <1>4, <3>1, <3>3 DEF DrainOne
    <3> HIDE DEF g
    <3> QED
      BY <3>2, <3>4
  <2>2. CASE i # 3
    BY <1>4, <2>2 DEF DrainOne
  <2> QED
    BY <2>1, <2>2
<1>5. CASE LookupRaises
  BY <1>5 DEF LookupRaises
<1>6. CASE TakeNeighbour
  BY <1>6 DEF TakeNeighbour, InQueue
<1>7. CASE TooFew
  BY <1>7 DEF TooFew, SearchOver
<1>8. CASE CloseGroup
  <2> DEFINE g == popped \cup matched
  <2>1. g # {} /\ g \subseteq Waiting /\ g \cap (global \cup leftover) = {}
    BY <1>8 DEF NobodyTwice, CloseGroup, SearchOver
  <2>2. Cardinality(g) <= 4
    <3>1. g \in clusterGroups'
      BY <1>8 DEF CloseGroup
    <3>2. \A h \in clusterGroups' : Cardinality(h) \in 3..4
      BY SizesStep DEF Sizes
    <3> QED
      BY <3>1, <3>2
  <2>3. Waiting' = Waiting \ g /\ formed' = formed \cup {g}
    BY <1>8, <2>1 DEF CloseGroup, SearchOver
  <2> HIDE DEF g, Waiting, formed
  <2>4. Takes(g)
    BY <1>0, <1>8, <2>1, <2>2, <2>3 DEF CloseGroup, SearchOver
  <2> QED
    BY <2>1, <2>4
<1>9. CASE EndCluster
  BY <1>9 DEF EndCluster
<1>10. CASE Finish
  <2>1. CASE group = {}
    BY <1>10, <2>1 DEF Finish
  <2>2. CASE group # {}
    <3>1. group \subseteq Waiting /\ group \cap (global \cup leftover) = {}
      BY DEF NobodyTwice
    <3>2. Cardinality(group) <= 4
      BY <1>10, UsersCount DEF Finish, Sizes
    <3>3. Waiting' = Waiting \ group /\ formed' = formed \cup {group}
      BY <1>10, <2>2, <3>1 DEF Finish
    <3> HIDE DEF Waiting, formed
    <3>4. Takes(group)
      BY <1>0, <1>10, <2>2, <3>2, <3>3 DEF Finish
    <3> QED
      BY <3>1, <3>4
  <2> QED
    BY <2>1, <2>2
<1>11. CASE UNCHANGED vars
  BY <1>11 DEF vars
<1> QED
  BY <1>1, <1>2, <1>3, <1>4, <1>5, <1>6, <1>7, <1>8, <1>9, <1>10, <1>11
     DEF Next, Step, Stopped

\* The instance of the abstract grouping counts as FiniteSets does.
LEMMA SameCount == \A S : Abstract!Cardinality(S) = Cardinality(S)
BY DEF Cardinality, Abstract!Cardinality, IsFiniteSet, Abstract!IsFiniteSet

\* The two loops implement the abstract grouping: rooms of at most four, taken
\* from users who wait, a room of fewer than three only at the very end.
THEOREM Refinement == Spec => ImplementsGrouping
<1>1. Init => Abstract!Init
  BY DEF Init, Abstract!Init, formed, InHand
<1>2. Inv /\ [Next]_vars => [Abstract!Next]_Abstract!vars
  <2> SUFFICES ASSUME Inv, [Next]_vars PROVE [Abstract!Next]_Abstract!vars
    OBVIOUS
  <2>1. CASE Waiting' = Waiting /\ formed' = formed
    BY <2>1 DEF Waiting, Abstract!vars
  <2>2. ASSUME NEW g \in SUBSET Waiting,
               g # {}, Cardinality(g) <= 4,
               \A h \in formed : Cardinality(h) >= 3,
               Waiting' = Waiting \ g, formed' = formed \cup {g}
        PROVE  Abstract!Next
    <3>1. Abstract!Form(g)
      BY <2>2, SameCount DEF Waiting, Abstract!Form, Abstract!MinRoom, Abstract!MaxRoom
    <3> QED
      BY <3>1 DEF Waiting, Abstract!Next
  <2> QED
    BY <2>1, <2>2, StepRefines
<1> QED
  BY <1>1, <1>2, Invariance, PTL DEF Spec, ImplementsGrouping, Abstract!Spec

\* Nobody leaves the queues, the hands and the groups, and nobody enters.
LEMMA EveryoneStays == Inv /\ [Next]_vars => Everyone' = Everyone
<1> SUFFICES ASSUME Inv, [Next]_vars PROVE Everyone' = Everyone
  OBVIOUS
<1>1. Everyone = Waiting \cup UNION formed
  BY DEF Everyone, Waiting
<1>2. CASE Waiting' = Waiting /\ formed' = formed
  BY <1>1, <1>2 DEF Everyone, Waiting
<1>3. ASSUME NEW g \in SUBSET Waiting,
             Waiting' = Waiting \ g, formed' = formed \cup {g}
      PROVE  Everyone' = Everyone
  <2>1. UNION (formed \cup {g}) = (UNION formed) \cup g
    OBVIOUS
  <2>2. Everyone' = Waiting' \cup UNION formed'
    BY DEF Everyone, Waiting
  <2> HIDE DEF Waiting
  <2> QED
    BY <1>1, <1>3, <2>1, <2>2
<1> QED
  BY <1>2, <1>3, StepRefines

\* No step of the grouping loses a user of the snapshot or invents one.
THEOREM NobodyIsLost == Spec => NobodyLost
<1>1. Inv /\ [Next]_vars => [Everyone' = Everyone]_vars
  BY EveryoneStays
<1> QED
  BY <1>1, Invariance, PTL DEF Spec, NobodyLost

\* The users taken out of the queue are no fewer than those popped from it.
Popped == processed <= Cardinality(Everyone \ global)

LEMMA PoppedStep == Inv /\ Popped /\ [Next]_vars => Popped'
<1> SUFFICES ASSUME Inv, Popped, [Next]_vars PROVE Popped'
  OBVIOUS
<1> DEFINE Taken == Everyone \ global
<1>1. Everyone' = Everyone /\ Everyone \in SUBSET Users
  BY EveryoneStays DEF Inv, TypeOK, Everyone, InHand, formed
<1>2. processed \in Nat /\ Cardinality(Taken) \in Nat
  BY <1>1, UsersCount, BatchAssumption DEF Inv, TypeOK
<1>3. ASSUME global' \subseteq global, processed' = processed PROVE Popped'
  <2>1. Taken \subseteq Taken' /\ Taken' \in SUBSET Users
    BY <1>1, <1>3
  <2>2. Cardinality(Taken) <= Cardinality(Taken') /\ Cardinality(Taken') \in Nat
    BY <2>1, UsersCount, FS_Subset
  <2> QED
    BY <1>2, <1>3, <2>2 DEF Popped
<1>4. ASSUME NEW u \in global, global' = global \ {u}, processed' = processed + 1
      PROVE  Popped'
  <2>1. u \in Everyone /\ u \in Users /\ Taken \in SUBSET Users
    BY <1>1 DEF Everyone
  <2>2. Taken' = Taken \cup {u} /\ u \notin Taken
    BY <1>1, <1>4, <2>1
  <2>3. Cardinality(Taken') = Cardinality(Taken) + 1
    BY <2>1, <2>2, AddUser
  <2> QED
    BY <1>2, <1>4, <2>3 DEF Popped
<1>5. ASSUME NEW u \in Users, PopUnmapped(u) \/ PopMapped(u) PROVE Popped'
  BY <1>4, <1>5 DEF PopUnmapped, PopMapped
<1>6. CASE TakeNeighbour
  BY <1>3, <1>6 DEF TakeNeighbour
<1>7. CASE TooFew \/ CloseGroup
  BY <1>3, <1>7 DEF TooFew, CloseGroup
<1>8. ASSUME UNCHANGED <<global, processed>> PROVE Popped'
  BY <1>3, <1>8
<1>9. CASE \/ LoadIndex \/ IndexMissing \/ LoadRaises \/ LookupRaises \/ EndCluster
           \/ Finish \/ \E u \in Users : DrainOne(u)
  BY <1>8, <1>9 DEF LoadIndex, IndexMissing, LoadRaises, LookupRaises, EndCluster,
     Finish, DrainOne, clusterVars
<1>10. CASE UNCHANGED vars
  BY <1>8, <1>10 DEF vars
<1> QED
  BY <1>5, <1>6, <1>7, <1>9, <1>10 DEF Next, Step, Stopped

\* When the run is done its groups partition the users it took out of the
\* queue, at most one room has fewer than three, and a user is still queued
\* only when the batch was used up or no index was found: what MatchingService
\* takes a run to return.
THEOREM RunsEndWithAnOutcome == Spec => []ResultIsAnOutcome
<1>0. Init => Popped
  <2> SUFFICES ASSUME Init PROVE Popped
    OBVIOUS
  <2>1. Everyone \in SUBSET Users /\ processed = 0
    BY DEF Init, Everyone, InHand, formed
  <2>2. Cardinality(Everyone \ global) \in Nat
    BY <2>1, UsersCount
  <2> QED
    BY <2>1, <2>2 DEF Popped
<1>1. Inv /\ Popped => ResultIsAnOutcome
  <2> SUFFICES ASSUME Inv, Popped, pc = "done" PROVE ResultIsAnOutcome
    BY DEF ResultIsAnOutcome
  <2> DEFINE S == Everyone \ global
  <2>1. InHand = {} /\ leftover = {}
    BY DEF Inv, Hands, InHand
  <2>2. UNION formed = S
    BY <2>1 DEF Inv, NobodyTwice, Everyone
  <2>3. \A g \in formed : Cardinality(g) \in 1..4
    BY DEF Inv, Sizes, formed
  <2>4. \A g, h \in formed : g # h => g \cap h = {}
    BY DEF Inv, NobodyTwice
  <2>5. \A g, h \in formed : g # h => Cardinality(g) >= 3 \/ Cardinality(h) >= 3
    BY DEF Inv, Sizes, formed
  <2>6. \A g \in formed : g \in SUBSET S
    BY <2>2
  <2> HIDE DEF S
  <2>7. formed \in Outcomes(S)
    BY <2>2, <2>3, <2>4, <2>5, <2>6
       DEF Outcomes, MinRoom, MaxRoom
  <2>8. loaded /\ global # {} => processed = BatchSize
    BY DEF Inv, LoopEnd
  <2>9. ASSUME global = {} PROVE S \in Placeable(Everyone, BatchSize)
    BY <2>9 DEF S, Placeable
  <2>10. ASSUME loaded, global # {} PROVE S \in Placeable(Everyone, BatchSize)
    <3>1. Cardinality(S) >= BatchSize
      BY <2>8, <2>10 DEF Popped, S
    <3> QED
      BY <3>1 DEF S, Placeable
  <2>11. loaded => S \in Placeable(Everyone, BatchSize)
    BY <2>9, <2>10
  <2>12. ~loaded => formed = {}
    BY DEF Inv, LoopEnd
  <2> QED
    BY <2>7, <2>8, <2>11, <2>12 DEF S, ResultIsAnOutcome
<1>2. Spec => []Popped
  BY <1>0, PoppedStep, Invariance, PTL DEF Spec
<1> QED
  BY <1>1, <1>2, Invariance, PTL
=============================================================================
