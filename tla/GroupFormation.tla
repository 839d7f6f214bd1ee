--------------------------- MODULE GroupFormation ---------------------------
(***************************************************************************)
(* run_batch_matching and match_in_cluster (matching/matching.py) over a    *)
(* ClusterQueueManager (matching/queue_manager.py): the greedy grouping of  *)
(* one matching run, step by step.                                         *)
(*                                                                         *)
(* The queue of cluster "global" starts with the users of the snapshot.    *)
(* Up to BatchSize of them are popped; each takes up to three of its Annoy *)
(* neighbours that are still queued.  Whoever finds fewer than two goes,   *)
(* with the one found, to the queue "leftover", which is cut into fours at  *)
(* the end.  set.pop takes an arbitrary user; the approximate index may     *)
(* answer with any list of distinct indexed users.                         *)
(***************************************************************************)
EXTENDS RoomSizes, Sequences

CONSTANTS Users,       \* the users the run was given are a subset of these
          BatchSize,   \* batch_size, 50 in the code
          TopK,        \* top_k, 50 in the code
          Torn         \* TRUE: the .ann file and the map may be of two builds

ASSUME UsersFinite     == IsFiniteSet(Users)
ASSUME BatchAssumption == BatchSize \in Nat \ {0}
ASSUME TopKAssumption  == TopK \in Nat \ {0}
ASSUME TornAssumption  == Torn \in BOOLEAN

VARIABLES pc,              \* where the run is
          indexed,         \* users with an entry in user_index_map
          loaded,          \* the index was found and loaded
          global,          \* cluster_queues["global"]
          leftover,        \* cluster_queues["leftover"]
          processed,       \* users popped from global so far
          popped,          \* {user_entry} while it is in hand, else {}
          neighbours,      \* neigh_indices, as the users they stand for
          matched,         \* matched_entries
          clusterGroups,   \* groups_formed of match_in_cluster
          group, i,        \* the leftover group being filled, and its counter
          leftoverGroups   \* groups_formed of run_batch_matching

vars == <<pc, indexed, loaded, global, leftover, processed, popped,
          neighbours, matched, clusterGroups, group, i, leftoverGroups>>

clusterVars == <<loaded, indexed, processed, popped, neighbours, matched,
                 clusterGroups, global>>
drainVars   == <<group, i, leftoverGroups>>

\* An answer of get_nns_by_item(item, TopK + 1).
Answers == UNION {{s \in [1..n -> indexed] :
                     \A j, k \in 1..n : s[j] = s[k] => j = k} : n \in 0..(TopK + 1)}

Init == /\ pc = "load"
        /\ indexed \in SUBSET Users
        /\ global \in {S \in SUBSET Users : Cardinality(S) >= 2}
        /\ loaded = FALSE
        /\ leftover = {} /\ processed = 0
        /\ popped = {} /\ neighbours = <<>> /\ matched = {}
        /\ clusterGroups = {}
        /\ group = {} /\ i = 0 /\ leftoverGroups = {}

-----------------------------------------------------------------------------
(* match_in_cluster("global")                                              *)

LoadIndex == /\ pc = "load"
             /\ loaded' = TRUE
             /\ pc' = "pop"
             /\ UNCHANGED <<indexed, global, leftover, processed, popped,
                            neighbours, matched, clusterGroups, drainVars>>

\* FileNotFoundError: the cluster returns no group and its queue stays as it is.
IndexMissing == /\ pc = "load"
                /\ pc' = "drain"
                /\ UNCHANGED <<clusterVars, leftover, drainVars>>

\* A half-written map is no FileNotFoundError: the exception leaves the run.
LoadRaises == /\ pc = "load"
              /\ Torn
              /\ pc' = "raised"
              /\ UNCHANGED <<clusterVars, leftover, drainVars>>

\* Mutant: one user beyond the batch.
MayPop_OneMore == pc = "pop" /\ global # {} /\ processed <= BatchSize

MayPop == pc = "pop" /\ global # {} /\ processed < BatchSize

\* Mutant: a new user ends the cluster's loop (break for continue).
PopUnmapped_Breaks(u) == /\ MayPop
                         /\ u \in global \ indexed
                         /\ global' = global \ {u}
                         /\ leftover' = leftover \cup {u}
                         /\ processed' = processed + 1
                         /\ pc' = "drain"
                         /\ UNCHANGED <<indexed, loaded, popped, neighbours,
                                        matched, clusterGroups, drainVars>>

PopUnmapped(u) == /\ MayPop
                  /\ u \in global \ indexed
                  /\ global' = global \ {u}
                  /\ leftover' = leftover \cup {u}
                  /\ processed' = processed + 1
                  /\ UNCHANGED <<pc, indexed, loaded, popped, neighbours,
                                 matched, clusterGroups, drainVars>>

\* Mutant: the check that the user has an entry in the map is missing.
PopMapped_Unchecked(u) == /\ MayPop
                          /\ u \in global
                          /\ global' = global \ {u}
                          /\ processed' = processed + 1
                          /\ popped' = {u}
                          /\ neighbours' \in Answers
                          /\ matched' = {}
                          /\ pc' = "take"
                          /\ UNCHANGED <<indexed, loaded, leftover,
                                         clusterGroups, drainVars>>

PopMapped(u) == /\ MayPop
                /\ u \in global \cap indexed
                /\ global' = global \ {u}
                /\ processed' = processed + 1
                /\ popped' = {u}
                /\ neighbours' \in Answers
                /\ matched' = {}
                /\ pc' = "take"
                /\ UNCHANGED <<indexed, loaded, leftover, clusterGroups,
                               drainVars>>

\* The map knows an item the .ann file lacks, or the other way round: Annoy's
\* IndexError or the KeyError of index_user_map leaves the run.
LookupRaises == /\ Torn
                /\ pc = "take"
                /\ pc' = "raised"
                /\ UNCHANGED <<clusterVars, leftover, drainVars>>

\* The entry get_remove hands out for user v, if v still waits in global.
InQueue(v) == {v} \cap global

\* Mutant: the neighbour is matched but stays in the queue.
TakeNeighbour_Keeps == /\ pc = "take"
                       /\ Cardinality(matched) < 3
                       /\ neighbours # <<>>
                       /\ neighbours' = Tail(neighbours)
                       /\ matched' = matched \cup (InQueue(Head(neighbours)) \ popped)
                       /\ UNCHANGED <<pc, indexed, loaded, global, leftover,
                                      processed, popped, clusterGroups, drainVars>>

\* Mutant: the popped user's own item is skipped before it is taken off the list.
TakeNeighbour_Peeks ==
  /\ pc = "take"
  /\ Cardinality(matched) < 3
  /\ neighbours # <<>>
  /\ LET found == InQueue(Head(neighbours)) \ popped IN
       /\ neighbours' = IF {Head(neighbours)} = popped THEN neighbours
                                                     ELSE Tail(neighbours)
       /\ matched' = matched \cup found
       /\ global' = global \ found
  /\ UNCHANGED <<pc, indexed, loaded, leftover, processed, popped,
                 clusterGroups, drainVars>>

TakeNeighbour == /\ pc = "take"
                 /\ Cardinality(matched) < 3
                 /\ neighbours # <<>>
                 /\ neighbours' = Tail(neighbours)
                 /\ LET found == InQueue(Head(neighbours)) \ popped IN
                      /\ matched' = matched \cup found
                      /\ global' = global \ found
                 /\ UNCHANGED <<pc, indexed, loaded, leftover, processed,
                                popped, clusterGroups, drainVars>>

SearchOver == pc = "take" /\ (Cardinality(matched) = 3 \/ neighbours = <<>>)

\* Mutant: the one neighbour found is not handed to the leftover queue.
TooFew_Forgets == /\ SearchOver
                  /\ Cardinality(matched) < 2
                  /\ leftover' = leftover \cup popped
                  /\ popped' = {} /\ matched' = {} /\ neighbours' = <<>>
                  /\ pc' = "pop"
                  /\ UNCHANGED <<indexed, loaded, global, processed,
                                 clusterGroups, drainVars>>

TooFew == /\ SearchOver
          /\ Cardinality(matched) < 2
          /\ leftover' = leftover \cup popped \cup matched
          /\ popped' = {} /\ matched' = {} /\ neighbours' = <<>>
          /\ pc' = "pop"
          /\ UNCHANGED <<indexed, loaded, global, processed, clusterGroups,
                         drainVars>>

\* Mutant: two users are enough for a room (the size test is off by one).
CloseGroup_Pairs == /\ SearchOver
                    /\ Cardinality(matched) >= 1
                    /\ clusterGroups' = clusterGroups \cup {popped \cup matched}
                    /\ popped' = {} /\ matched' = {} /\ neighbours' = <<>>
                    /\ pc' = "pop"
                    /\ UNCHANGED <<indexed, loaded, global, leftover, processed,
                                   drainVars>>

CloseGroup == /\ SearchOver
              /\ Cardinality(matched) >= 2
              /\ clusterGroups' = clusterGroups \cup {popped \cup matched}
              /\ popped' = {} /\ matched' = {} /\ neighbours' = <<>>
              /\ pc' = "pop"
              /\ UNCHANGED <<indexed, loaded, global, leftover, processed,
                             drainVars>>

EndCluster == /\ pc = "pop"
              /\ global = {} \/ processed >= BatchSize
              /\ pc' = "drain"
              /\ UNCHANGED <<clusterVars, leftover, drainVars>>

-----------------------------------------------------------------------------
(* The leftover queue, cut into fours                                      *)

DrainOne(u) == /\ pc = "drain"
               /\ u \in leftover
               /\ leftover' = leftover \ {u}
               /\ IF i = 3
                    THEN /\ leftoverGroups' = leftoverGroups \cup {group \cup {u}}
                         /\ group' = {} /\ i' = 0
                    ELSE /\ group' = group \cup {u}
                         /\ i' = i + 1
                         /\ UNCHANGED leftoverGroups
               /\ UNCHANGED <<pc, clusterVars>>

\* What remains becomes a group whatever its size: "added to test if only one user".
Finish == /\ pc = "drain"
          /\ leftover = {}
          /\ leftoverGroups' = leftoverGroups \cup ({group} \ {{}})
          /\ group' = {}
          /\ pc' = "done"
          /\ UNCHANGED <<clusterVars, leftover, i>>

Stopped == /\ pc \in {"done", "raised"}
           /\ UNCHANGED vars

Step == \/ LoadIndex \/ IndexMissing
        \/ \E u \in Users : PopUnmapped(u) \/ PopMapped(u) \/ DrainOne(u)
        \/ TakeNeighbour
        \/ TooFew \/ CloseGroup \/ EndCluster
        \/ Finish

Next == Step \/ LoadRaises \/ LookupRaises \/ Stopped

Spec == Init /\ [][Next]_vars

\* The run is one sequential call: while it can go on, it does.  Nothing makes it raise.
FairSpec == Spec /\ WF_vars(Step)

-----------------------------------------------------------------------------
(* Properties                                                              *)

formed == clusterGroups \cup leftoverGroups

InHand == popped \cup matched \cup group

Everyone == global \cup leftover \cup InHand \cup UNION formed

\* Every variable has its type, and the batch is never exceeded.
TypeOK == /\ pc \in {"load", "pop", "take", "drain", "done", "raised"}
          /\ loaded \in BOOLEAN
          /\ indexed \subseteq Users /\ global \subseteq Users
          /\ leftover \subseteq Users /\ popped \subseteq Users
          /\ matched \subseteq Users /\ group \subseteq Users
          /\ neighbours \in Seq(Users)
          /\ processed \in 0..BatchSize
          /\ i \in 0..3
          /\ clusterGroups \subseteq SUBSET Users
          /\ leftoverGroups \subseteq SUBSET Users

\* A user is in one place only: a queue, the hands of the loop, or one group.
\* A user in two rooms is the double matching the run must never produce.
NobodyTwice == /\ global \cap leftover = {}
               /\ (global \cup leftover) \cap (InHand \cup UNION formed) = {}
               /\ popped \cap matched = {}
               /\ group \cap (popped \cup matched) = {}
               /\ InHand \cap UNION formed = {}
               /\ \A g, h \in formed : g # h => g \cap h = {}
               /\ clusterGroups \cap leftoverGroups = {}

\* No step of the grouping loses a user of the snapshot or invents one,
\* whatever moves between the two queues and the groups.
NobodyLost == [][Everyone' = Everyone]_vars

\* A user without likes has no entry in the map: only the random leftover
\* groups may take in such a user.
NewUsersOnlyInLeftover == \A g \in clusterGroups : g \subseteq indexed

\* Every run behaves as the abstract grouping does.
Abstract == INSTANCE Grouping WITH
              waiting <- global \cup leftover \cup InHand,
              formed  <- formed
ImplementsGrouping == Abstract!Spec

\* A run that ends has placed everybody it took out of the queue, in rooms of
\* three or four but for at most one: all of its users, or the whole batch at
\* least, and nobody when there was no index.  This is all that MatchingService
\* takes a run to do.
ResultIsAnOutcome ==
  pc = "done" =>
    /\ formed \in Outcomes(Everyone \ global)
    /\ loaded => Everyone \ global \in Placeable(Everyone, BatchSize)
    /\ loaded /\ global # {} => processed = BatchSize
    /\ ~loaded => formed = {}

\* The run ends, with an answer or with the exception that aborts it.
Termination == <>(pc \in {"done", "raised"})

\* The unit test of the whole run: "room group size must be between 3 and 4"
\* (src/tests/unit_tests/test_run_full_matching_algo.py:189).
EveryRoomHasThreeOrFour ==
  pc = "done" => \A g \in formed : Cardinality(g) \in 3..4
=============================================================================
