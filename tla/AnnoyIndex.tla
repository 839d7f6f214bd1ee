----------------------------- MODULE AnnoyIndex -----------------------------
(***************************************************************************)
(* The two files of the index: build_graph_annoy (matching/tasks.py,       *)
(* matching/build_graph_annoy.py) writes cluster_global.ann and then       *)
(* global_map.json in place, run_matching_algo and match_in_cluster        *)
(* (matching/matching.py) read the map and then the .ann.  No lock keeps    *)
(* builds and runs apart.                                                  *)
(*                                                                         *)
(* A build numbers the users of the like graph in ascending order, so that *)
(* the content of either file is given by the set of users it was built    *)
(* from: the n-th item of the .ann is the vector of the n-th of them.      *)
(***************************************************************************)
EXTENDS Integers, FiniteSets

CONSTANTS Users,       \* user ids
          MaxCrashes   \* bound: builds that die

ASSUME UsersAssumption   == Users \subseteq Nat \ {0} /\ IsFiniteSet(Users)
ASSUME CrashesAssumption == MaxCrashes \in Nat

VARIABLES
  liked,      \* users in a row of Like, also in one at count zero
  ann, map,   \* the files: state "absent", "partial" or "whole", and the users in it
  bpc, nodes, \* where the build is, and the nodes of the last graph
  rpc,        \* where a run is; the exceptions that abort it are states too
  rmap, rann, \* what it loaded from the map and the .ann
  crashes,
  shrunk,     \* history: a build found a user gone who was in the graph before
  dirty,      \* history: a build died while it wrote, and none ended since
  calm,       \* history: nobody wrote since the run began, or died writing before
  cut         \* history: the run loaded a .ann that was not whole

buildVars == <<liked, ann, map, bpc, nodes, crashes, shrunk, dirty>>
runVars   == <<rpc, rmap, rann, cut>>
vars      == <<buildVars, runVars, calm>>

Absent     == [state |-> "absent", of |-> {}]
Partial(S) == [state |-> "partial", of |-> S]
Whole(S)   == [state |-> "whole", of |-> S]

\* The likes injected while the table is empty are among these users.
Dummy == {1, 2, 3}

ASSUME DummyAssumption == Dummy \subseteq Users

\* The position of user u among the users S, from 0.
Rank(S, u) == Cardinality({v \in S : v < u})

Init == /\ liked = {}
        /\ ann = Absent /\ map = Absent
        /\ bpc = "idle" /\ nodes = {}
        /\ rpc = "idle" /\ rmap = {} /\ rann = {}
        /\ crashes = 0
        /\ shrunk = FALSE /\ dirty = FALSE /\ calm = TRUE /\ cut = FALSE

-----------------------------------------------------------------------------
(* The builder                                                             *)

\* A first like between two users adds a row.
NewLike(u, v) == /\ u # v
                 /\ ~({u, v} \subseteq liked)
                 /\ liked' = liked \cup {u, v}
                 /\ UNCHANGED <<ann, map, bpc, nodes, crashes, shrunk, dirty,
                                runVars, calm>>

\* Likes and users can be deleted on the admin site; a row that is left has two users.
DeleteLikes(S) == /\ S # liked /\ Cardinality(S) # 1
                  /\ liked' = S
                  /\ UNCHANGED <<ann, map, bpc, nodes, crashes, shrunk, dirty,
                                 runVars, calm>>

Goto(from, to) == bpc = from /\ bpc' = to

Graph == IF liked = {} THEN Dummy ELSE liked

\* Mutant: the index is built only when there is none.
ReadLikes_Once == /\ Goto("idle", "embed")
                  /\ map = Absent
                  /\ nodes' = Graph
                  /\ shrunk' = (shrunk \/ ~(nodes \subseteq Graph))
                  /\ UNCHANGED <<liked, ann, map, crashes, dirty, runVars, calm>>

\* Mutant: only some of the likes, the recent ones say, make the graph.
ReadLikes_Recent == /\ Goto("idle", "embed")
                    /\ \E S \in SUBSET Graph : nodes' = S
                    /\ shrunk' = (shrunk \/ ~(nodes \subseteq Graph))
                    /\ UNCHANGED <<liked, ann, map, crashes, dirty, runVars, calm>>

\* One query reads the table; the graph has the users of its rows as nodes.
ReadLikes == /\ Goto("idle", "embed")
             /\ nodes' = Graph
             /\ shrunk' = (shrunk \/ ~(nodes \subseteq Graph))
             /\ UNCHANGED <<liked, ann, map, crashes, dirty, runVars, calm>>

\* Annoy's save removes the old file and writes a new one.  A run that has
\* loaded the old file keeps it.
Unlink == /\ Goto("embed", "create")
          /\ ann' = Absent
          /\ calm' = FALSE
          /\ UNCHANGED <<liked, map, nodes, crashes, shrunk, dirty, runVars>>

CreateAnn == /\ Goto("create", "fill")
             /\ ann' = Partial(nodes)
             /\ calm' = FALSE
             /\ UNCHANGED <<liked, map, nodes, crashes, shrunk, dirty, runVars>>

FillAnn == /\ Goto("fill", "map")
           /\ ann' = Whole(nodes)
           /\ calm' = FALSE
           /\ UNCHANGED <<liked, map, nodes, crashes, shrunk, dirty, runVars>>

\* open(..., "w") empties the map, or makes an empty file.
OpenMap == /\ Goto("map", "dump")
           /\ map' = Partial(nodes)
           /\ calm' = FALSE
           /\ UNCHANGED <<liked, ann, nodes, crashes, shrunk, dirty, runVars>>

\* Mutant: the map is made from the table as it is by now.
DumpMap_Rereads == /\ Goto("dump", "idle")
                   /\ map' = Whole(Graph)
                   /\ calm' = FALSE
                   /\ dirty' = FALSE
                   /\ UNCHANGED <<liked, ann, nodes, crashes, shrunk, runVars>>

DumpMap == /\ Goto("dump", "idle")
           /\ map' = Whole(nodes)
           /\ calm' = FALSE
           /\ dirty' = FALSE
           /\ UNCHANGED <<liked, ann, nodes, crashes, shrunk, runVars>>

Writing == bpc \in {"create", "fill", "map", "dump"}

\* The worker dies, or the build raises: the files stay as they are.
BuildDies == /\ crashes < MaxCrashes
             /\ bpc # "idle"
             /\ crashes' = crashes + 1
             /\ bpc' = "idle"
             /\ dirty' = (dirty \/ Writing)
             /\ UNCHANGED <<liked, ann, map, nodes, shrunk, runVars, calm>>

Writes == \/ Unlink \/ CreateAnn \/ FillAnn \/ OpenMap \/ DumpMap

-----------------------------------------------------------------------------
(* The reader: one matching run                                            *)

\* Without either file the run is skipped.
Check == /\ rpc = "idle"
         /\ ann # Absent /\ map # Absent
         /\ rpc' = "map"
         /\ calm' = (~dirty /\ ~Writing)
         /\ rmap' = {} /\ rann' = {} /\ cut' = FALSE
         /\ UNCHANGED buildVars

\* Mutant: the two directions of the map are swapped.
LoadMap_Swapped == /\ rpc = "map"
                   /\ map.state = "whole"
                   /\ rmap' = {Rank(map.of, u) : u \in map.of}
                   /\ rpc' = "ann"
                   /\ UNCHANGED <<buildVars, rann, cut, calm>>

LoadMap == /\ rpc = "map"
           /\ map.state = "whole"
           /\ rmap' = map.of
           /\ rpc' = "ann"
           /\ UNCHANGED <<buildVars, rann, cut, calm>>

\* json.load of an unfinished map: no FileNotFoundError, the run is aborted.
MapUnreadable == /\ rpc = "map"
                 /\ map.state = "partial"
                 /\ rpc' = "badmap"
                 /\ UNCHANGED <<buildVars, rmap, rann, cut, calm>>

LoadAnn == /\ rpc = "ann"
           /\ ann.state = "whole"
           /\ rann' = ann.of
           /\ rpc' = "query"
           /\ UNCHANGED <<buildVars, rmap, cut, calm>>

\* Between unlink and creation the run forms no group, or is aborted: the code
\* expects FileNotFoundError, Annoy may raise a plain IOError.
AnnMissing == /\ rpc = "ann"
              /\ ann = Absent
              /\ rpc' \in {"idle", "badann"}
              /\ UNCHANGED <<buildVars, rmap, rann, cut, calm>>

\* An unfinished file is refused by Annoy, or taken for a smaller index.
AnnCut == /\ rpc = "ann"
          /\ ann.state = "partial"
          /\ \/ /\ rpc' = "badann"
                /\ UNCHANGED <<rann, cut>>
             \/ /\ \E S \in SUBSET ann.of : rann' = S
                /\ rpc' = "query"
                /\ cut' = TRUE
          /\ UNCHANGED <<buildVars, rmap, calm>>

\* Mutant: the items are numbered from one.
Item_FromOne(u) == Rank(rmap, u) + 1

\* user_index_map[u].
Item(u) == Rank(rmap, u)

\* get_nns_by_item of an item the .ann does not have: Annoy's IndexError.
NoItem(u) == /\ rpc = "query"
             /\ u \in rmap
             /\ Item(u) >= Cardinality(rann)
             /\ rpc' = "noitem"
             /\ UNCHANGED <<buildVars, rmap, rann, cut, calm>>

\* One of the answers has no entry in index_user_map: KeyError.
NoEntry(u, n) == /\ rpc = "query"
                 /\ u \in rmap
                 /\ Item(u) < Cardinality(rann)
                 /\ n < Cardinality(rann)
                 /\ n >= Cardinality(rmap)
                 /\ rpc' = "noentry"
                 /\ UNCHANGED <<buildVars, rmap, rann, cut, calm>>

\* The run ends, in one way or the other.
EndRun == /\ rpc \in {"query", "badmap", "badann", "noitem", "noentry"}
          /\ rpc' = "idle"
          /\ UNCHANGED <<buildVars, rmap, rann, cut, calm>>

Reads == \/ Check \/ LoadMap \/ MapUnreadable \/ LoadAnn \/ AnnMissing \/ AnnCut
         \/ \E u \in Users : NoItem(u) \/ \E n \in 0..Cardinality(rann) : NoEntry(u, n)
         \/ EndRun

Next == \/ \E u, v \in Users : NewLike(u, v)
        \/ \E S \in SUBSET liked : DeleteLikes(S)
        \/ ReadLikes \/ Writes \/ BuildDies
        \/ Reads

Spec == Init /\ [][Next]_vars

\* Beat starts a build a day, and a build goes on until it ends or dies.  No run,
\* no like and no crash has to happen.
FairSpec == Spec /\ WF_vars(ReadLikes \/ Writes)

-----------------------------------------------------------------------------
(* Properties                                                              *)

File == {Absent} \cup {Partial(S) : S \in SUBSET Users} \cup {Whole(S) : S \in SUBSET Users}

\* Every variable has its type.
TypeOK == /\ liked \subseteq Users
          /\ ann \in File /\ map \in File
          /\ bpc \in {"idle", "embed", "create", "fill", "map", "dump"}
          /\ nodes \subseteq Users
          /\ rpc \in {"idle", "map", "ann", "query", "badmap", "badann", "noitem", "noentry"}
          /\ rmap \subseteq Users /\ rann \subseteq Users
          /\ crashes \in 0..MaxCrashes
          /\ shrunk \in BOOLEAN /\ dirty \in BOOLEAN
          /\ calm \in BOOLEAN /\ cut \in BOOLEAN

\* Between two builds the two files are of the same build, unless the last one
\* died halfway: the numbers of the map are the numbers of the .ann.
SettledFilesAgree == bpc \in {"idle", "embed"} /\ ~dirty =>
                       ann = map /\ ann.state # "partial"

\* A run that meets no build, and no leavings of a dead one, reads one index
\* and is not aborted.
CalmRunsReadOneIndex ==
  calm => /\ rpc \in {"idle", "map", "ann", "query"}
          /\ rpc = "query" => rmap = rann

\* Whatever builds and runs overlap or die, a user of the map has an item in
\* the .ann, for the map is written last and read first.  A .ann read in the
\* making is an exception, and a graph that shrinks: when likes are deleted, or
\* real ones replace the dummies.
MappedUsersHaveItems == ~shrunk /\ ~cut => rpc # "noitem"

\* A user of the like table comes to be indexed, unless all likes of the user are
\* deleted first, though builds may die.
LikedUsersGetIndexed ==
  \A u \in Users : u \in liked ~> u \notin liked \/ (map.state = "whole" /\ u \in map.of)
=============================================================================
