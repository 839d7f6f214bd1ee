------------------------------- MODULE Likes -------------------------------
(***************************************************************************)
(* The rows of Like under LikeView and UnlikeView                          *)
(* (users/views/like_views.py).  No request runs in a transaction: it reads*)
(* the row of a pair, changes the count of the instance and saves it with  *)
(* all its columns.  A like that is taken back leaves a row with a count of *)
(* zero; only the admin site deletes rows.                                 *)
(*                                                                         *)
(* A row is named after the request that created it.  Django's save writes *)
(* the row of that name, and inserts it anew if it is gone.                *)
(***************************************************************************)
EXTENDS Integers

CONSTANTS Users,
          Requests,  \* bound: likes and unlikes
          NoOne      \* no row

ASSUME NoOneAssumption == NoOne \notin Requests

Pairs  == {p \in Users \X Users : p[1] # p[2]}
NoPair == <<>>

VARIABLES
  row,     \* the row of each pair
  count,   \* like_count of the row of each pair, 0 without a row
  pc,      \* the next query of a request
  target,  \* its user_from and user_to
  key,     \* the row of the instance it read
  mine,    \* like_count of that instance
  likes,   \* history: likes that were made
  unlikes, \* history: likes that were taken back, or deleted with their row
  fresh,   \* history: requests that read the row after its last change
  raced    \* history: pairs whose row was saved by a request not among them

rowVars     == <<row, count>>
instance    == <<key, mine>>
requestVars == <<pc, target, instance>>
history     == <<likes, unlikes, fresh, raced>>
likeVars    == <<rowVars, requestVars, history>>

\* Pairs that have a row.
made == {p \in Pairs : row[p] # NoOne}

Init == /\ row = [p \in Pairs |-> NoOne] /\ count = [p \in Pairs |-> 0]
        /\ pc = [r \in Requests |-> "new"]
        /\ target = [r \in Requests |-> NoPair]
        /\ key = [r \in Requests |-> NoOne] /\ mine = [r \in Requests |-> 0]
        /\ likes = [p \in Pairs |-> 0] /\ unlikes = [p \in Pairs |-> 0]
        /\ fresh = {} /\ raced = {}

Goto(r, from, to) == pc[r] = from /\ pc' = [pc EXCEPT ![r] = to]

Read(r, p) == /\ key' = [key EXCEPT ![r] = row[p]]
              /\ mine' = [mine EXCEPT ![r] = count[p]]
              /\ fresh' = fresh \cup {r}

\* The request is done with its instance.
Drop(r) == /\ key' = [key EXCEPT ![r] = NoOne]
           /\ mine' = [mine EXCEPT ![r] = 0]

\* like_instance.save(): the pair is unique, so that a row that is gone cannot be
\* inserted again beside a new one.
Save(r, n) == /\ row[target[r]] \in {key[r], NoOne}
              /\ row' = [row EXCEPT ![target[r]] = key[r]]
              /\ count' = [count EXCEPT ![target[r]] = n]
              /\ raced' = IF r \in fresh THEN raced ELSE raced \cup {target[r]}
              /\ fresh' = {q \in fresh : target[q] # target[r]}
              /\ Drop(r)

\* Somebody liked himself or nobody, or took a like back that was never made or
\* is at zero: nothing is saved.
Refused(r) == /\ Goto(r, "new", "done")
              /\ UNCHANGED <<rowVars, target, instance, history>>

\* LikeView.post up to the first query of get_or_create, which finds the row ...
Like(r, p) == /\ Goto(r, "new", "like")
              /\ p \in made
              /\ target' = [target EXCEPT ![r] = p]
              /\ Read(r, p)
              /\ UNCHANGED <<rowVars, likes, unlikes, raced>>

\* ... or does not find it.
FirstLike(r, p) == /\ Goto(r, "new", "create")
                   /\ p \notin made
                   /\ target' = [target EXCEPT ![r] = p]
                   /\ UNCHANGED <<rowVars, instance, history>>

\* Mutant: isCreated is ignored, and a new row counts as one more like.
Create_Increments(r) == /\ Goto(r, "create", "like")
                        /\ target[r] \notin made
                        /\ row' = [row EXCEPT ![target[r]] = r]
                        /\ count' = [count EXCEPT ![target[r]] = 1]
                        /\ key' = [key EXCEPT ![r] = r]
                        /\ mine' = [mine EXCEPT ![r] = 1]
                        /\ fresh' = fresh \cup {r}
                        /\ UNCHANGED <<target, likes, unlikes, raced>>

\* The second query of get_or_create: like_count is 1 by default.
Create(r) == /\ Goto(r, "create", "done")
             /\ target[r] \notin made
             /\ row' = [row EXCEPT ![target[r]] = r]
             /\ count' = [count EXCEPT ![target[r]] = 1]
             /\ likes' = [likes EXCEPT ![target[r]] = @ + 1]
             /\ UNCHANGED <<target, instance, unlikes, fresh, raced>>

\* Mutant: the loser takes the row for its own.
CreateConflicts_Ends(r) == /\ Goto(r, "create", "done")
                           /\ target[r] \in made
                           /\ likes' = [likes EXCEPT ![target[r]] = @ + 1]
                           /\ UNCHANGED <<rowVars, target, instance, unlikes, fresh, raced>>

\* The pair is unique: get_or_create reads the row another request has made.
CreateConflicts(r) == /\ Goto(r, "create", "like")
                      /\ target[r] \in made
                      /\ Read(r, target[r])
                      /\ UNCHANGED <<rowVars, target, likes, unlikes, raced>>

SaveLike(r) == /\ Goto(r, "like", "done")
               /\ Save(r, mine[r] + 1)
               /\ likes' = [likes EXCEPT ![target[r]] = @ + 1]
               /\ UNCHANGED <<target, unlikes>>

\* Mutant: without the test for zero.
Unlike_Always(r, p) == /\ Goto(r, "new", "unlike")
                       /\ p \in made
                       /\ target' = [target EXCEPT ![r] = p]
                       /\ Read(r, p)
                       /\ UNCHANGED <<rowVars, likes, unlikes, raced>>

\* UnlikeView.post up to the test for zero.
Unlike(r, p) == /\ Goto(r, "new", "unlike")
                /\ p \in made /\ count[p] > 0
                /\ target' = [target EXCEPT ![r] = p]
                /\ Read(r, p)
                /\ UNCHANGED <<rowVars, likes, unlikes, raced>>

SaveUnlike(r) == /\ Goto(r, "unlike", "done")
                 /\ Save(r, mine[r] - 1)
                 /\ unlikes' = [unlikes EXCEPT ![target[r]] = @ + 1]
                 /\ UNCHANGED <<target, likes>>

\* A query fails, on a user who was deleted or a row that was, the process dies:
\* nothing more is saved.
Fails(r) == /\ pc[r] \in {"create", "like", "unlike"}
            /\ pc' = [pc EXCEPT ![r] = "done"]
            /\ Drop(r)
            /\ UNCHANGED <<rowVars, target, history>>

\* The admin site deletes a like, or a user with the likes of the user.
DeleteRow(p) == /\ p \in made
                /\ row' = [row EXCEPT ![p] = NoOne]
                /\ count' = [count EXCEPT ![p] = 0]
                /\ unlikes' = [unlikes EXCEPT ![p] = @ + count[p]]
                /\ fresh' = {q \in fresh : target[q] # p}
                /\ UNCHANGED <<requestVars, likes, raced>>

LikeStep == \/ \E r \in Requests :
                 \/ Refused(r) \/ Create(r) \/ CreateConflicts(r)
                 \/ SaveLike(r) \/ SaveUnlike(r) \/ Fails(r)
                 \/ \E p \in Pairs : Like(r, p) \/ FirstLike(r, p) \/ Unlike(r, p)
            \/ \E p \in Pairs : DeleteRow(p)

-----------------------------------------------------------------------------
(* Properties                                                              *)

\* Every variable has its type; a count is never negative, and a pair without a
\* row has none.
RowsOK == /\ row \in [Pairs -> Requests \cup {NoOne}]
          /\ count \in [Pairs -> Nat] /\ \A p \in Pairs \ made : count[p] = 0
          /\ pc \in [Requests -> {"new", "create", "like", "unlike", "done"}]
          /\ target \in [Requests -> Pairs \cup {NoPair}]
          /\ key \in [Requests -> Requests \cup {NoOne}]
          /\ mine \in [Requests -> Nat]
          /\ likes \in [Pairs -> Nat] /\ unlikes \in [Pairs -> Nat]
          /\ fresh \subseteq Requests /\ raced \subseteq Pairs

\* Whatever overlaps, fails or is deleted, a count never exceeds the likes that were made.
NoMoreThanLiked == \A p \in Pairs : count[p] <= likes[p]

\* The count is the likes made less those taken back or deleted, unless a request
\* saved its count over a newer one, or over a row that was deleted since it read it.
\* Two first likes at a time are no such case.
ExactUnlessOverlapped == \A p \in Pairs \ raced : count[p] = likes[p] - unlikes[p]
=============================================================================
