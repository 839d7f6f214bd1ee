-------------------------- MODULE AnnoyIndexProofs --------------------------
(***************************************************************************)
(* Theorems about AnnoyIndex for every set of users and number of crashes. *)
(*                                                                         *)
(* Why a user of the map has an item, whatever overlaps: until a build finds *)
(* users gone, every graph contains the ones before it.  So the users of   *)
(* the map are among those of a whole .ann (the map is written last), those *)
(* a run read are among those of the map, and the run reads the .ann later *)
(* still.  The rank of a user in the map is then smaller    *)
(* than the number of items.                                               *)
(***************************************************************************)
EXTENDS AnnoyIndex, FiniteSetTheorems, TLAPS

-----------------------------------------------------------------------------
(* The inductive invariants                                                *)

\* What the files hold at each point of a build.
Stages == /\ bpc = "create" => ann = Absent
          /\ bpc = "fill" => ann = Partial(nodes)
          /\ bpc \in {"map", "dump"} => ann = Whole(nodes)
          /\ bpc = "dump" => map = Partial(nodes)

\* Later graphs contain earlier ones.
Grows == ~shrunk =>
           /\ map.of \subseteq nodes
           /\ ann.state = "whole" => map.of \subseteq ann.of
           /\ rpc # "idle" => rmap \subseteq map.of
           /\ rpc \in {"query", "noitem", "noentry"} /\ ~cut => rmap \subseteq rann

\* The files of a calm run are those of the last build.
Calm == calm =>
          /\ rpc # "idle" => ~dirty /\ bpc \in {"idle", "embed"} /\ map # Absent
          /\ rpc \in {"ann", "query"} => rmap = map.of
          /\ rpc = "query" => rann = ann.of

Inv == TypeOK /\ Stages /\ SettledFilesAgree /\ Grows

CalmInv == Calm /\ CalmRunsReadOneIndex

-----------------------------------------------------------------------------
LEMMA InitInv == Init => Inv
<1> SUFFICES ASSUME Init PROVE Inv
  OBVIOUS
<1>1. 0 \in 0..MaxCrashes
  BY CrashesAssumption
<1> QED
  BY <1>1 DEF Init, Inv, TypeOK, File, Stages, SettledFilesAgree, Grows, Absent

\* The contents of a file.
LEMMA Files ==
  ASSUME NEW S \in SUBSET Users
  PROVE  /\ Whole(S) \in File /\ Partial(S) \in File
         /\ Whole(S).of = S /\ Partial(S).of = S
         /\ Whole(S).state = "whole" /\ Partial(S).state = "partial"
         /\ Absent \in File /\ Absent.of = {} /\ Absent.state = "absent"
BY DEF File, Whole, Partial, Absent

LEMMA FileContents == ASSUME NEW f \in File
                      PROVE  /\ f.of \in SUBSET Users
                             /\ f.state \in {"absent", "partial", "whole"}
BY DEF File, Whole, Partial, Absent

\* Every step preserves the types of the variables.
LEMMA TypeStep == TypeOK /\ [Next]_vars => TypeOK'
<1> SUFFICES ASSUME TypeOK, [Next]_vars PROVE TypeOK'
  OBVIOUS
<1> USE DEF TypeOK, Goto, buildVars, runVars
<1>1. ASSUME NEW u \in Users, NEW v \in Users, NewLike(u, v) PROVE TypeOK'
  BY <1>1 DEF NewLike
<1>0. ASSUME NEW S \in SUBSET liked, DeleteLikes(S) PROVE TypeOK'
  BY <1>0 DEF DeleteLikes
<1>2. CASE ReadLikes
  BY <1>2, DummyAssumption DEF ReadLikes, Graph
<1>3. CASE Writes
  <2>1. Whole(nodes) \in File /\ Partial(nodes) \in File /\ Absent \in File
    BY Files
  <2> QED
    BY <1>3, <2>1 DEF Writes, Unlink, CreateAnn, FillAnn, OpenMap, DumpMap
<1>4. CASE BuildDies
  <2>1. crashes + 1 \in 0..MaxCrashes
    BY <1>4, CrashesAssumption DEF BuildDies
  <2> QED
    BY <1>4, <2>1 DEF BuildDies, Writing
<1>5. CASE Check \/ EndRun \/ MapUnreadable \/ AnnMissing
  BY <1>5 DEF Check, EndRun, MapUnreadable, AnnMissing, Writing
<1>6. CASE LoadMap \/ LoadAnn \/ AnnCut
  <2>1. map.of \in SUBSET Users /\ ann.of \in SUBSET Users
    BY FileContents
  <2> QED
    BY <1>6, <2>1 DEF LoadMap, LoadAnn, AnnCut
<1>7. ASSUME NEW u \in Users, NoItem(u) \/ \E n \in 0..Cardinality(rann) : NoEntry(u, n)
      PROVE  TypeOK'
  BY <1>7 DEF NoItem, NoEntry
<1>8. CASE UNCHANGED vars
  BY <1>8 DEF vars
<1> QED
  BY <1>0, <1>1, <1>2, <1>3, <1>4, <1>5, <1>6, <1>7, <1>8 DEF Next, Reads

\* A build leaves what it wrote, a run touches no file.
LEMMA StageStep == TypeOK /\ Stages /\ SettledFilesAgree /\ [Next]_vars
                     => Stages' /\ SettledFilesAgree'
<1> SUFFICES ASSUME TypeOK, Stages, SettledFilesAgree, [Next]_vars
             PROVE  Stages' /\ SettledFilesAgree'
  OBVIOUS
<1> USE DEF Stages, SettledFilesAgree, Goto, buildVars
<1>1. ASSUME NEW u \in Users, NEW v \in Users, NewLike(u, v)
      PROVE  Stages' /\ SettledFilesAgree'
  BY <1>1 DEF NewLike
<1>0. ASSUME NEW S \in SUBSET liked, DeleteLikes(S) PROVE Stages' /\ SettledFilesAgree'
  BY <1>0 DEF DeleteLikes
<1>2. CASE ReadLikes
  BY <1>2 DEF ReadLikes
<1>3. CASE Writes
  BY <1>3 DEF Writes, Unlink, CreateAnn, FillAnn, OpenMap, DumpMap, Whole, Partial
<1>4. CASE BuildDies
  BY <1>4 DEF BuildDies, Writing, TypeOK
<1>5. CASE Reads
  BY <1>5 DEF Reads, Check, LoadMap, MapUnreadable, LoadAnn, AnnMissing, AnnCut,
              NoItem, NoEntry, EndRun
<1>6. CASE UNCHANGED vars
  BY <1>6 DEF vars
<1> QED
  BY <1>0, <1>1, <1>2, <1>3, <1>4, <1>5, <1>6 DEF Next

\* Later graphs contain earlier ones, on disk and in what a run has read.
LEMMA GrowStep == TypeOK /\ Stages /\ Grows /\ [Next]_vars => Grows'
<1> SUFFICES ASSUME TypeOK, Stages, Grows, [Next]_vars PROVE Grows'
  OBVIOUS
<1> USE DEF Grows, Goto, buildVars, runVars
<1>1. ASSUME NEW u \in Users, NEW v \in Users, NewLike(u, v) PROVE Grows'
  BY <1>1 DEF NewLike
<1>0. ASSUME NEW S \in SUBSET liked, DeleteLikes(S) PROVE Grows'
  BY <1>0 DEF DeleteLikes
<1>2. CASE ReadLikes
  <2>1. ~shrunk' => ~shrunk /\ nodes \subseteq nodes'
    BY <1>2 DEF ReadLikes, TypeOK
  <2> QED
    BY <1>2, <2>1 DEF ReadLikes
<1>3. CASE Unlink \/ CreateAnn
  <2>1. ann'.state # "whole"
    BY <1>3 DEF Unlink, CreateAnn, Absent, Partial
  <2>2. /\ UNCHANGED <<liked, map, nodes, shrunk, rpc, rmap, rann, cut>>
        /\ bpc # "idle" /\ bpc' # "idle"
    BY <1>3 DEF Unlink, CreateAnn
  <2> QED
    BY <2>1, <2>2
<1>4. CASE FillAnn
  BY <1>4 DEF FillAnn, Whole
<1>5. CASE OpenMap
  BY <1>5 DEF OpenMap, Stages, Whole, Partial
<1>6. CASE DumpMap
  BY <1>6 DEF DumpMap, Stages, Whole, Partial
<1>7. CASE BuildDies
  BY <1>7 DEF BuildDies
<1>8. CASE Check \/ LoadMap \/ MapUnreadable \/ AnnMissing \/ EndRun
  BY <1>8 DEF Check, LoadMap, MapUnreadable, AnnMissing, EndRun
<1>9. CASE LoadAnn
  BY <1>9 DEF LoadAnn
<1>10. CASE AnnCut
  BY <1>10 DEF AnnCut
<1>11. ASSUME NEW u \in Users, NoItem(u) \/ \E n \in 0..Cardinality(rann) : NoEntry(u, n)
       PROVE  Grows'
  BY <1>11 DEF NoItem, NoEntry
<1>12. CASE UNCHANGED vars
  BY <1>12 DEF vars
<1> QED
  BY <1>0, <1>1, <1>2, <1>3, <1>4, <1>5, <1>6, <1>7, <1>8, <1>9, <1>10, <1>11, <1>12
     DEF Next, Writes, Reads

LEMMA Invariance == Spec => []Inv
<1>1. Inv /\ [Next]_vars => Inv'
  BY TypeStep, StageStep, GrowStep DEF Inv
<1> QED
  BY InitInv, <1>1, PTL DEF Spec

\* Every variable has its type, whatever dies.
THEOREM TypeCorrect == Spec => []TypeOK
BY Invariance, PTL DEF Inv

\* Between two builds the two files are of one build, unless one died halfway.
THEOREM FilesAgree == Spec => []SettledFilesAgree
BY Invariance, PTL DEF Inv

-----------------------------------------------------------------------------
(* A user of the map has an item                                           *)

\* The number of a user in a smaller graph is below the size of a larger one.
LEMMA RankBelow ==
  ASSUME NEW S \in SUBSET Users, NEW R \in SUBSET S, NEW u \in R
  PROVE  Rank(R, u) < Cardinality(S)
<1> DEFINE Before == {v \in R : v < u}
<1>1. IsFiniteSet(Users) /\ u \in Nat
  BY UsersAssumption
<1>2. IsFiniteSet(S)
  BY <1>1, FS_Subset
<1>3. Before \in SUBSET S
  OBVIOUS
<1>4. u \in S /\ u \notin Before
  BY <1>1
<1>5. Before # S
  BY <1>4
<1>6. /\ IsFiniteSet(Before)
      /\ Cardinality(Before) <= Cardinality(S)
      /\ Cardinality(Before) # Cardinality(S)
  BY <1>2, <1>3, <1>5, FS_Subset
<1>7. Cardinality(Before) < Cardinality(S)
  BY <1>2, <1>6, FS_CardinalityType
<1> QED
  BY <1>7 DEF Rank

\* A run never asks for an item that is not there: every step into "noitem"
\* comes from a query whose map is within its .ann.
LEMMA ItemStep == Inv /\ MappedUsersHaveItems /\ [Next]_vars => MappedUsersHaveItems'
<1> SUFFICES ASSUME Inv, MappedUsersHaveItems, [Next]_vars, ~shrunk', ~cut', rpc' = "noitem"
             PROVE  FALSE
  BY DEF MappedUsersHaveItems
<1> USE DEF Inv, TypeOK, MappedUsersHaveItems, buildVars, runVars, Goto
<1>1. ASSUME NEW u \in Users, NEW v \in Users, NewLike(u, v) PROVE FALSE
  BY <1>1 DEF NewLike
<1>0. ASSUME NEW S \in SUBSET liked, DeleteLikes(S) PROVE FALSE
  BY <1>0 DEF DeleteLikes
<1>2. CASE ReadLikes
  BY <1>2 DEF ReadLikes
<1>3. CASE Writes
  BY <1>3 DEF Writes, Unlink, CreateAnn, FillAnn, OpenMap, DumpMap
<1>4. CASE BuildDies
  BY <1>4 DEF BuildDies
<1>5. CASE Check \/ LoadMap \/ MapUnreadable \/ LoadAnn \/ AnnMissing \/ AnnCut \/ EndRun
  BY <1>5 DEF Check, LoadMap, MapUnreadable, LoadAnn, AnnMissing, AnnCut, EndRun
<1>6. ASSUME NEW u \in Users, NoItem(u) PROVE FALSE
  <2>1. rpc = "query" /\ ~cut /\ ~shrunk /\ u \in rmap
    BY <1>6 DEF NoItem
  <2>2. rmap \in SUBSET rann /\ rann \in SUBSET Users
    BY <2>1 DEF Grows
  <2>3. Rank(rmap, u) < Cardinality(rann)
    BY <2>1, <2>2, RankBelow
  <2>4. Rank(rmap, u) >= Cardinality(rann)
    BY <1>6 DEF NoItem, Item
  <2>5. IsFiniteSet(rann) /\ IsFiniteSet({v \in rmap : v < u})
    BY <2>2, UsersAssumption, FS_Subset
  <2>6. Rank(rmap, u) \in Nat /\ Cardinality(rann) \in Nat
    BY <2>5, FS_CardinalityType DEF Rank
  <2> QED
    BY <2>3, <2>4, <2>6
<1>7. ASSUME NEW u \in Users, NEW n \in 0..Cardinality(rann), NoEntry(u, n) PROVE FALSE
  BY <1>7 DEF NoEntry
<1>8. CASE UNCHANGED vars
  BY <1>8 DEF vars
<1> QED
  BY <1>0, <1>1, <1>2, <1>3, <1>4, <1>5, <1>6, <1>7, <1>8 DEF Next, Reads

\* Whatever builds and runs overlap or die, a user of the map has an item in
\* the .ann, unless graphs shrink or an unfinished file comes in.
THEOREM ItemsForMappedUsers == Spec => []MappedUsersHaveItems
<1>1. Init => MappedUsersHaveItems
  BY DEF Init, MappedUsersHaveItems
<1> QED
  BY Invariance, <1>1, ItemStep, PTL DEF Spec

-----------------------------------------------------------------------------
(* A run that meets no build                                               *)

\* Nobody writes while a run is calm, so that what it loads is what the last
\* build wrote, and its queries stay within it.
LEMMA CalmStep == Inv /\ CalmInv /\ [Next]_vars => CalmInv'
<1> SUFFICES ASSUME Inv, CalmInv, [Next]_vars PROVE CalmInv'
  OBVIOUS
<1> USE DEF CalmInv, Calm, CalmRunsReadOneIndex, Goto, buildVars, runVars
<1>1. ASSUME NEW u \in Users, NEW v \in Users, NewLike(u, v) PROVE CalmInv'
  BY <1>1 DEF NewLike
<1>0. ASSUME NEW S \in SUBSET liked, DeleteLikes(S) PROVE CalmInv'
  BY <1>0 DEF DeleteLikes
<1>2. CASE ReadLikes
  BY <1>2 DEF ReadLikes
<1>3. CASE Writes
  BY <1>3 DEF Writes, Unlink, CreateAnn, FillAnn, OpenMap, DumpMap
<1>4. CASE BuildDies
  BY <1>4 DEF BuildDies, Writing
<1>5. CASE Check
  <2>1. bpc \in {"idle", "embed", "create", "fill", "map", "dump"}
    BY DEF Inv, TypeOK
  <2> QED
    BY <1>5, <2>1 DEF Check, Writing
<1>6. CASE LoadMap \/ MapUnreadable \/ LoadAnn \/ AnnMissing \/ AnnCut
  <2>1. calm /\ rpc # "idle" => ann = map /\ ann.state # "partial" /\ ann # Absent
    BY DEF Inv, SettledFilesAgree
  <2> QED
    BY <1>6, <2>1 DEF LoadMap, MapUnreadable, LoadAnn, AnnMissing, AnnCut
<1>7. CASE EndRun
  BY <1>7 DEF EndRun
<1>8. ASSUME NEW u \in Users, NoItem(u) PROVE CalmInv'
  <2>1. /\ rpc = "query" /\ u \in rmap /\ ~(Rank(rmap, u) < Cardinality(rann))
        /\ calm' = calm
    <3>1. IsFiniteSet(rann) /\ IsFiniteSet({v \in rmap : v < u})
      BY UsersAssumption, FS_Subset DEF Inv, TypeOK
    <3>2. Rank(rmap, u) \in Nat /\ Cardinality(rann) \in Nat
      BY <3>1, FS_CardinalityType DEF Rank
    <3> QED
      BY <1>8, <3>2 DEF NoItem, Item
  <2>2. ASSUME calm PROVE FALSE
    <3>1. rmap = rann /\ rann \in SUBSET Users
      BY <2>1, <2>2 DEF Inv, TypeOK
    <3> QED
      BY <2>1, <3>1, RankBelow
  <2> QED
    BY <2>1, <2>2
<1>9. ASSUME NEW u \in Users, NEW n \in 0..Cardinality(rann), NoEntry(u, n) PROVE CalmInv'
  <2>1. IsFiniteSet(rann)
    BY UsersAssumption, FS_Subset DEF Inv, TypeOK
  <2>2. n \in Int /\ Cardinality(rann) \in Nat
    BY <2>1, FS_CardinalityType
  <2>3. calm => rmap = rann
    BY <1>9 DEF NoEntry
  <2>4. ~calm /\ calm' = calm
    BY <1>9, <2>2, <2>3 DEF NoEntry
  <2> QED
    BY <2>4
<1>10. CASE UNCHANGED vars
  BY <1>10 DEF vars
<1> QED
  BY <1>0, <1>1, <1>2, <1>3, <1>4, <1>5, <1>6, <1>7, <1>8, <1>9, <1>10 DEF Next, Reads

\* A run that meets no build and no leavings of a dead one reads one index
\* and is not aborted.
THEOREM CalmRuns == Spec => []CalmRunsReadOneIndex
<1>1. Init => CalmInv
  BY DEF Init, CalmInv, Calm, CalmRunsReadOneIndex
<1> QED
  BY Invariance, <1>1, CalmStep, PTL DEF Spec, CalmInv
=============================================================================
