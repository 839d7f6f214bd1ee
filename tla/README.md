# LyncUp, modelled and checked

LyncUp puts people who wait in a queue into chat rooms of three or four, by what
they like. This directory holds TLA+ modules of the parts that run
concurrently or must not lose anybody, the TLC configurations that check them on
small instances, and TLAPS proofs for every instance. Paths and lines are those
of the repository (`src/`).

## The system

| component | state | operations | interacts with |
|---|---|---|---|
| `QueueConsumer` (matching/consumers.py) | Redis set `queue`, channel groups `user_queue_<id>` | connect, disconnect, send_room_id | clients; the task, through the set and the groups |
| `run_matching_algo` (matching/tasks.py) | Redis key `run_matching_algo_lock`, locals of a run | one run, started every 15 s on any worker | queue, room ids, the index, the sockets |
| `distribute_rooms` | Redis counter `last_room_id` | INCR per call and per group | called by the run |
| grouping (matching/matching.py, queue_manager.py) | two in-memory queues, groups | match_in_cluster, run_batch_matching | called by the run, reads the index files |
| `GroupConsumer` (chat/consumers.py) | Redis set per room, lock per room, channel group, the lists clients show | connect, disconnect, receive, the two list updates | clients, who bring the room id they were told |
| index building (build_graph_annoy.py) | `.ann` file and JSON map | one build a day | reads `Like`, read by the grouping |
| likes (users/views/like_views.py) | `Like` rows | like, unlike; the admin site deletes rows | feeds the index |
| accounts (users/views/auth_views.py) | `AppUser` rows, links in mails, JWTs | register, verify, resend, reset, change, log in | every consumer decodes its tokens |
| profiles (users/views/app_views.py) | `Profile`, `Country`, `Organisation` | update, completeness check; the admin site deletes countries | the client's way into the queue |
| direct messages | `Message` rows | connect, receive | none: the route and the consumer disagree on a name |

What makes each of them correct:

* **queue and task**: one run at a time; nobody told two rooms; no waiting user
  forgotten; nobody left in the queue who has gone; room ids unique; the lock
  always freed; two people who wait are matched in the end.
* **grouping**: nobody lost or placed twice; sizes three and four; new users only
  in the random groups; a user is left over only because the batch was full.
* **chat room**: one update of the list at a time; every change told to all, in order; the
  list right and shown to all once the room is quiet; nobody dropped who did not leave.
* **index**: a run sees the map and the `.ann` of one build.
* **likes**: the count is the number of likes less the number of unlikes; no
  overlap invents a like; the graph does not depend on the order of the rows.
* **accounts**: what one request saved is not undone by another; a verified address
  stays verified; a link sets one password.
* **profiles**: `required_complete` is what the row says, however updates interleave.

What is hard: every `await` of a consumer and every Redis command of a worker
lets others run; workers overlap when a run is long; processes die with a lock
in hand; calls fail between two changes that belong together; files are read
while they are written; no HTTP request runs in a transaction, and a save writes every
column of a row that was read some queries earlier. `PROJECT.json` lists these under `hazards`, each at its
line, with the property that covers it.

## The modules

```
RoomSizes ── Grouping            what a run promises     (abstract)
    │            ▲ implements
    ├────── GroupFormation       the loops of the run    (detailed)
    └────── MatchingService      sockets, queue, task, room ids
MemberList                       what a room promises   (abstract)
    ▲ implements
ChatRoom                         the member list of a room, under its lock
            AnnoyIndex           the two files of the index
Likes ───── LikeGraph            likes, and the graph a builder makes of them
            Accounts             one account and its profile
```

`MC*` modules hold the sets and symmetries of the runs, `*Proofs` modules the
theorems. `RoomSizes` is where the levels meet: GroupFormation proves that a run that ends
with an index has placed one of the `Placeable` sets of users in one of the `Outcomes`
of that set (`RunsEndWithAnOutcome`), and any such result is what MatchingService's
`FormGroups` takes a run to return. A run that raises is its `RunFails`.

### GroupFormation (and Grouping)

`global` and `leftover` are the sets of `ClusterQueueManager`, `popped`,
`neighbours` and `matched` the locals of `match_in_cluster`, `group` and `i`
those of `run_batch_matching`. The code creates no cluster but these two.

| action | code |
|---|---|
| LoadIndex, IndexMissing, LoadRaises | the try block, matching.py:14-27 |
| PopUnmapped, PopMapped | one round of the while loop up to the query, 34-53 |
| TakeNeighbour, LookupRaises | one round of the inner loop, 54-64 |
| TooFew, CloseGroup, EndCluster | 79-85, 88-93, 95 |
| DrainOne, Finish | 115-124, 126-131 |

`set.pop` is any element. The index is approximate, so `Answers` is any list of
distinct indexed users of at most `TopK + 1`, with or without the user who asks.
`Torn` allows the two files to be of different builds: the lookup may raise.

`Grouping` says only that groups are cut out of those who wait, of
at most four, a small one last. The refinement mapping takes everybody in a queue
or in hand as waiting; moves between the queues are stuttering steps.

### MatchingService

One Redis shared by sockets and workers. `phase[c]` is where socket `c` is in
`connect` or `disconnect` (Channels runs the handlers of a socket one after the
other), `pc[w]` where worker `w` is in the task. `inbox` holds what the channel
layer delivered to a socket and `received` what went down to the client. History
variables: `rooms` are the room ids handed out, each with its group, `missed` the sockets
that lost their place in the queue to a race, `shared` the users who have had two sockets
at a time, `dropped` the users whom a failing disconnect or a crash of the server has left in
the queue.

| action | code |
|---|---|
| Open … Accept, Refuse, ConnectFails | consumers.py:12-75, a step per await |
| Deliver | send_room_id, 114-123 |
| Discard, CheckQueue, Srem, DisconnectFails | 80-109 |
| TryLock, Snapshot, FormGroups | tasks.py:67-146 |
| AllocateRoom, RoomsDone | distribute_rooms.py:18-38 |
| Send, SendFails, RemoveMatched | tasks.py:172-197 |
| Release, RunFails, WorkerCrash, LockExpires | 199-203; exceptions; a killed process; the `ex` of line 90 |

A failing call takes one of `MaxFaults` failures. The check for the index files and the
SET NX are one step, and the files, once there, stay: a build that replaces the `.ann` makes
it missing for a moment (AnnoyIndex), and then a run returns as if beat had not started it, or
raises. The lock key holds `"1"`, not
its owner; `lock` records the owner only to say which expiries are a
crash's (always possible) and which an overrun (`RunsOutliveTtl`). `Release`
deletes the key whoever set it, as the code does.

### ChatRoom (and MemberList)

One room, since rooms share nothing. A socket joins under the lock
(`add_and_update_member_list`: add, read+, send+, unlock+) and leaves under it
(`remove_and_update_member_list`: remove, read-, send-, delete, unlock-).
`lock` holds the token of the redis-py lock, so a socket frees only its own; a
release after expiry raises, which closes a joining socket. `view[c]` is the last
list sent to the client. Text messages change nothing and are left out. A user may have
several sockets, as tabs or one after the other. `told`, `shared` and `overrun` are history
variables: the list last broadcast, the users who have had two sockets at a time, and that
a section has outlived the lock.

| action | code |
|---|---|
| Open … Accept, Refuse, ConnectFails | chat/consumers.py:11-85 |
| Acquire, Sadd, Smembers, Broadcast, UnlockAdd | 144-181 |
| AddFails, SendFails, ReadFails, RemoveFails | the except clauses, 167-169, 183-185, 199-229; any call of the leaving section, its release included |
| Discard, DisconnectFails | 87-105 |
| Srem, Delete, UnlockRemove | 188-229 |
| HandleMembers | 244-249 |
| LockExpires, LockOverrun, ServerCrash | `timeout=5` of redis-py's lock; a killed process |

`MemberList` knows no lock and no set: the list changes by one arrival or one departure at a
time, each change goes to every socket that listens, clients show the lists in the order of the
changes, and all of this is promised until a call fails. The refinement mapping takes the list
to be the one last broadcast (`told`), since that is what others see: a socket has arrived
when its own list is sent, and departed when the list without its user is. `Sadd`, `Srem`,
`Delete` and everything about the lock are stuttering steps.

### AnnoyIndex

A builder (the daily task) and a reader (a matching run) share two files without
a lock. `ann` and `map` are the files: absent, partial or whole, and the set of
users they were built from. The set is all that matters, because a build numbers the
users in ascending order (`Rank`).

| action | code |
|---|---|
| NewLike | the row a first like adds, like_views.py:55 |
| DeleteLikes | the admin site deletes likes, or users with theirs, users/admin.py:74-75 |
| ReadLikes | one query of the table; the users of its rows, or the dummy ones, tasks.py:31-44 |
| Unlink, CreateAnn, FillAnn | `annoy_index.save`, build_graph_annoy.py:117: Annoy removes the old file first |
| OpenMap, DumpMap | `open(..., "w")` and `json.dump`, 125-126 |
| BuildDies | an exception or a killed worker, anywhere in the build |
| Check | the test for the files, tasks.py:72 |
| LoadMap, MapUnreadable, LoadAnn, AnnMissing, AnnCut | matching.py:15-27 |
| NoItem, NoEntry | the two lookups that can fail, 51 and 59 |

This is where `Torn` of GroupFormation comes from. `dirty`, `calm`, `shrunk` and `cut`
are history variables; `shrunk` records that a build found somebody gone who was in the
graph before. What Annoy does with an unfinished file is its own
affair: it refuses it or takes it for a smaller index. Rows
of `Like` stay when their count is back at zero, so that only the admin site can make the
users of the table fewer.

### Likes and LikeGraph

`row` and `count` are the rows of `Like`, each named after the request that created it;
`key[r]` and `mine[r]` are the row and the `like_count` of the instance request `r` has read.
`save()` writes the row of that name, and inserts it anew if it was deleted, which the unique
pair prevents when there is another by then. A request is two queries (three when it has to make the row),
and any other request may run between them. `likes`, `unlikes` count what
the clients were told was done (a deletion counts as unlikes); `fresh` and `raced` record
which saves overwrote a newer row or a deletion.

| action | code |
|---|---|
| Like, FirstLike | LikeView.post and the first query of `get_or_create`, like_views.py:41-55 |
| Create, CreateConflicts | its second query; the pair is unique, models.py:106 |
| SaveLike | 57-69; `Like.save`, models.py:114 |
| Unlike, SaveUnlike | UnlikeView.post, 77-103 |
| Refused | a like of oneself, an unlike of nothing, 84-91 |
| Fails | a query that raises, on a deleted user or row, or a process that dies |
| DeleteRow | the admin site, users/admin.py:74-75 |
| ReadLikes | the query of the builder, or its dummy rows, tasks.py:28-51 |
| AddRow, Built | a round of `create_graph_from_likes` and its end, build_graph_annoy.py:30-51 |

Weights are counted in halves (`reciprocal_weight` is 0.5). The query has no ORDER BY, so
`AddRow` takes any row left.

### Accounts

One account, since accounts share nothing but countries and organisations: its
`AppUser` row (`user`), its `Profile` row, the links mailed to its address. `mine[r]` and
`own[r]` are the instances request `r` holds. Every query is a step, and every
save writes all columns, as `save()` without `update_fields` does. Hashes are salted,
so a hash is named after the request that set it, and a link after
the hash it was made of: `default_token_generator` makes a token good as long as the row has
that hash. `last_login`, its other ingredient, never changes (`UPDATE_LAST_LOGIN` is off).

| action | code |
|---|---|
| Register, Insert, AddProfile | Register.post, RegisterSerializer.create |
| AskForLink, Mail | the second half of Register.post, resend, password reset; utils.py:9-50 |
| VerifyEmail, SaveVerified | VerifyEmailView, auth_views.py:109-124 |
| ResetPassword, SaveReset | ResetPasswordView, 208-249 |
| Login, Admitted | VerifiedTokenObtainPairSerializer; JWT and IsVerified |
| ChangePassword, SaveChange | ChangePasswordAuthenticatedView, 252-265 |
| Authenticate, CheckProfile | request.user; CheckProfileCompleteView, app_views.py:32-43 |
| LoadProfile, LoadUser, SaveNames, NoNames, SaveFields, SaveFlag | UpdateProfileView, app_serializers.py:68-115 |
| DeleteCountry | the admin site; SET_NULL, models.py:78 |
| Refused, Fails | validation, rate limits and expiry; mail server, queries, processes |

`latest` holds what the last request to set each column set, `raced` and `undone` name the
two ways a save overwrites a newer row, `spent` and `twice` what became of links, `halfway`
says that an update ended between its two saves and none has been through since. An update of a
profile counts as having the row (`fresh`) from the moment it loads the profile: `request.user`,
which it holds before, is not what it may save.

## The runs

| run | instance | question | distinct states |
|---|---|---|---|
| group_formation | 5 users, batch 3, top_k 2, torn files | is every grouping a correct one, and does it end? | 461 000 |
| room_sizes | 5 users, batch 5 | does the unit test's claim on sizes hold? **no** | – |
| service_safety | 2 users, a socket each, batch of 1, 2 workers whose runs may overlap, 1 failure | is a room one group's, and who is left in the queue, whatever overlaps or fails? | 6 600 000 |
| service_tabs | 3 users, one with two sockets, 2 workers, no failures | is anybody told two rooms, stranded, or left in the queue after leaving? | 2 100 000 |
| service_faults | 2 users, 2 workers, 1 failure | do the lock and the waiting survive any single failure? | 32 000 |
| stranded_user | 2 users | is every waiting socket tracked? **no** | – |
| lock_overrun | 2 users, runs may exceed the TTL | does the lock still exclude? **no** | – |
| chat_lists | 2 users, 3 sockets, 1 failure | are the lists right, told change by change, and reached? | 266 000 |
| chat_delete | the same | is only an empty room deleted? **no** | – |
| accounts | 5 requests, 1 country, 1 failure | what do saves of whole rows, links and flags keep when requests overlap? | 97 000 |
| likes | 3 users, 4 requests, rows deleted at any time, a builder | are counts and graph what the likes say? | 1 070 000 |
| index_files | 3 users, likes made and deleted, a builder that may die once, a reader | which lookups are safe while files change? | 360 000 |

Why these bounds are enough:

* *five users, batch of three*: a full group of four and one over, two groups
  with the leftover queue (3 + 2), a starved batch, every leftover size from
  zero to five. With `TopK = 2` the index may name three others, so groups of
  three and of four both occur.
* *two users, two workers, runs that overlap, one failure*: with a batch of one a run may
  place one user, the other, or both, so that two runs at a time hand out different groups
  and both want room ids; a crashed run's users are placed again. Four users, of whom two
  groups of one run are made, are too many for TLC when everything may fail and overlap:
  for them there are the theorems, and the sizes and their groups are GroupFormation's.
  The other service runs have the code's `BatchSize = 50`, which never starves their users.
  Users and workers are interchangeable, and where invariants only are checked symmetry is sound.
  `ServiceView` leaves two history variables out that neither a step nor an invariant of this
  run reads.
  The first room id is 2: one INCR is thrown away, as in the code.
* *sockets* `<<user, n>>`: the n-th is opened after the one before, whether that
  is still open or not; two of one user are enough for tabs and for reconnection, and
  other users have one to be disturbed by them. Sockets do not come back once closed.
* *one failure*: every failing call and crash, at every step. Properties
  that hold only without failures say `faults = 0`, or name in a history variable what the
  failure may have left (`dropped`, `dirty`, `halfway`).
* *three users, one dead build*: no real graph (then the dummy three), one of two users, any
  of three, growing and shrinking; an old file of one graph beside a new one of another, in
  both orders. Builds and runs go on for ever.
* *five requests on an account*: it takes one to register and, as a rule, one to verify; three
  are left to overlap, each of any kind: a reset, an update and another. One
  country is enough to be chosen, deleted and missing.
* *three users, four requests*: two requests race for one row while others make its reverse
  or change it again, and rows go at any time. The dummy rows are those of users 1 to 3.
* Requests are interchangeable, and these two runs check invariants only, so symmetry is
  sound. The requests on an account are finite, hence `CHECK_DEADLOCK FALSE`; the builder never stops.
* No run bounds a counter by itself: sockets are finite, each user is placed a bounded
  number of times, so `last_room_id` stays finite. With failures a run may
  repeat, at most once per failure.
* ChatRoom stops when all sockets are closed, hence `CHECK_DEADLOCK FALSE` there;
  MatchingService goes on taking and freeing the lock.

### What the properties say

GroupFormation: `NobodyTwice` (a user is in one queue, hand or group only),
`NobodyLost` (no step loses one), `NewUsersOnlyInLeftover`, `ResultIsAnOutcome`
(everybody taken out is placed, one small room at most, and somebody is left only
when the batch is full), `ImplementsGrouping`, `Termination`.

MatchingService: `OneRunAtATime`, `RoomsAreUnique`, `NoGhostInQueue` (who is in the queue has a
socket that will take the user out, unless a failing disconnect or a crash left the user there),
`RoomsHoldTheirGroup` (whoever is told a room is of the one group of four at most it was
given to), `OneRoomPerSocket` (for users who never have two sockets at a time: with two the
code can tell more), `OnlyRacesStrand` (there are three ways to wait for nothing: a room
sent between sadd and group_add, the race of `stranded_user`; the srem of a run that had
placed an earlier socket of the user; the srem of another socket of the user),
`WaitersMeet`, `LockIsFreed`.

ChatRoom: `OneSectionAtATime`, `QuietRoomIsAccurate` (nobody is listed who has gone, every
client shows the list, and only a user who has had two sockets at a time can be missing: the set
holds one entry per user, so the first tab that closes takes it away),
`OnlyLeaversAreDropped`, `ImplementsMemberList`, `LockIsReached`, `TheySeeEachOther`.

AnnoyIndex: `SettledFilesAgree` (between builds the files are of one build, unless the
last one died halfway), `CalmRunsReadOneIndex` (a run that meets no writer is not
aborted), `MappedUsersHaveItems` (even a run that does meet one never asks the
`.ann` for an item it lacks, unless a deletion of likes has made a graph smaller than the one
before; the other lookup, `NoEntry`, does fail), `LikedUsersGetIndexed` (or the likes are
deleted).

Likes: `NoMoreThanLiked` (whatever overlaps or is deleted, a count never exceeds the likes),
`ExactUnlessOverlapped` (it is exact unless a save overwrote a newer count or brought a deleted
row back: two likes at a time do lose one, two *first* likes do not). LikeGraph: `GraphMatchesRows` (the edges and their
weights do not depend on the order of the rows).

Accounts: `SavesAreKept` (nothing saved is lost unless a request saves a row over one saved
since it read it, or, for the names, since it loaded the profile),
`VerificationIsKept` (even then a verified address stays verified: whoever may change or
update has read a verified row, and only a reset begun before the verification
and ended after it takes it back), `LinkSetsOnePassword` (two resets that overlap can both
use one link), `FlagIsRight` (however updates interleave, as each writes the whole
row it computed; an update that ended between its saves leaves a wrong one until the next is
through, a country deleted later leaves a set one on a row that was complete).

### Where the code and its documentation differ

1. **Room of one** (`EveryRoomHasThreeOrFour`): what is left of the leftover
   queue becomes a group of any size (matching.py:126), and its user is told a
   room and removed from the queue; the whole-run unit test asserts three or four.
2. **Stranded user** (`NobodyIsStranded`): `sadd` precedes `group_add`
   (consumers.py:52, 58). A room sent in between is lost, the user is taken out
   of the queue, and the socket waits for ever.
3. **Overrun** (`OneRunAtATime` with `RunsOutliveTtl`): the lock lasts 60 s
   whatever the run takes, and is deleted by whoever ends first.
4. **Deleted room** (`DeletesOnlyEmptyRooms`): a failing `smembers` counts as an
   empty room (chat/consumers.py:209, 228).

### Fairness

Weak fairness, in the specifications `FairSpec`:

* a handler or run that began goes on (asyncio and Celery), a message on an
  open socket's channel is handled;
* beat goes on starting runs (`TryLock` of some worker, not of each) and
  builds the index in the end;
* Redis expires keys.

* beat starts a build a day, and one that began goes on unless it dies; a
  bounded number of them die.

No client has to come or to leave, no run is bound to a given worker, nothing
has to fail. In ChatRoom the handler a socket is in is one weakly fair action (`Goes`), since
a socket is at one await at a time. Its `Acquire` is weakly fair per socket: redis-py polls, and
sockets are finite, so that a waiting socket cannot be overtaken for ever.

Accounts and LikeGraph state no fairness: nothing in them has to happen, for it is
clients who send requests, and a request waits for none.

## The proofs

TLC answers for the instances above; the theorems hold for all users,
sockets, workers, batch sizes and failure bounds, from the assumptions the
modules name (a finite set of users, `NoOne` no worker, sockets belong to users).

* **GroupFormationProofs**. `Inv` adds to the types and to `NobodyTwice`: what
  is in hand at each `pc` (`Hands`, `LoopEnd`), that matched users are indexed
  (`FromIndex`), and the sizes (`Sizes`: `i` counts `group`, cluster groups have
  three or four, leftover groups four until `done`, when one may be smaller). Neither
  `NobodyTwice` nor `ResultIsAnOutcome` is inductive without these: the size of
  a closed group follows from the counter that built it. `Popped` bounds the users
  popped by those taken out of the queue, whence a starved run has placed a whole batch. `Refinement`
  maps each action to a `Form` or a stutter.
* **MatchingServiceProofs**. `MutualExclusion` assumes `~RunsOutliveTtl`, which
  is exactly what `lock_overrun` shows to be needed, and rests on "a worker in a
  run holds the lock". `UniqueRooms` needs no such assumption: ids handed out
  never exceed the counter. `NoGhosts` assumes nothing either: a socket that put its user in
  the queue is on its way to take it out (`Present`), or its disconnect failed and the user is in `dropped`.
* **MatchingRoomsProofs** has three theorems. `OnlyRacesLeaveWaiting` and `RoomsHold` assume
  nothing: calls may fail, workers and servers crash, runs overlap, users have any number of
  sockets. The first rests on `Hearing`: who has joined is in the queue, was told a room or is
  in `missed`, and a run that sends will take out of the queue only whom it has
  told. The second rests on `HandedOut` (what is to be sent, is on its way or was received
  was handed out to a group with that user) and on `UniqueRooms`, without which a room
  could have two groups. `OneRoom` assumes `~RunsOutliveTtl`. It is far from inductive: a user
  who has been told a room stays in the queue until the srem, so `ToldOnce` says that such a
  user is in the queue only while the run that told it is sending, and in no run's hand
  (`Pending`). `PlacesOnce` says that a run sends a user one room, `Stage` what a run holds at
  each `pc`, `Unknown` that nothing reaches a socket before its group_add, `OneLive` that two live
  sockets make their user `shared`. That no other run takes its snapshot in between is `LockInv`.
* **ChatRoomProofs**. `LockInv` (a section holds the lock unless one outlived it)
  and `ListInv` (between its `smembers` and its test for an empty room a leaving
  section's list *is* the set): the second needs the first, for nobody else
  changes the set meanwhile. `NobodyElseIsDropped` follows.
* **MemberListProofs** shows that ChatRoom implements MemberList, with any number of
  sockets per user. `RoomInv` adds: the set has no user without a socket between sadd and
  srem, and only `shared` users can be missing (`Listing`); sockets outside the room
  listen to nothing and hold nothing (`Subscribing`); the set is the list last told, but
  for the arrival or departure of the one section between its change and its broadcast
  (`Accounted`, which needs `Alone`: two sections never meet); the last list on its way
  to a client is the one last told (`Telling`). `StepMaps` takes each action to its action
  of MemberList or to a stutter, and to `Break` once a call has failed. `QuietIsAccurate`
  is the same invariant read in a quiet room. Neither needs users to have one socket.
* **AnnoyIndexProofs**. `Grows` says that, until a graph has shrunk, later graphs contain earlier ones, along
  the order in which the files are written and read: the users of the map are
  among those of a whole `.ann` (the map is written last), those a run read from the
  map are among those of the map (it only grows), so they are among those of the `.ann` it
  reads later. Then the rank of a user in the smaller set is below the size of the
  larger one (`RankBelow`, from the cardinality theorems), which is
  `ItemsForMappedUsers`. `Calm` strengthens `CalmRunsReadOneIndex`: while nobody
  writes, what a run has loaded is what is on disk.
* **AccountsProofs**. The rows alone are not inductive, as a save writes what its request
  has in hand, so every part of `Inv` says what those instances are worth: a fresh
  one is the row as long as nobody raced (`Kept`); a verified one was
  read from a verified row, and those of requests that had to be admitted are
  verified (`Proven`); the hash a request is to set is in nobody's hand and on no
  spent link (`Hashes`); a row whose flag is wrong was written by an update
  that has its second save to come, or that ended before it (`Flagged`).
* **LikeGraphProofs**. `InHand`: an instance never holds more than the likes made so
  far, whatever it missed, and as long as it is fresh it is the row. `Drawn`: the graph is what the rows already added say, where the
  edge back depends on all rows, not on those already added.

Only model-checked: liveness (`Termination`, `WaitersMeet`, `LockIsFreed`,
`LockIsReached`, `TheySeeEachOther`, `LikedUsersGetIndexed`), which is out of the prover's reach. Every
safety property of a passing run is a theorem.

## Not modelled

* node2vec and Annoy themselves: a like taken back leaves an edge of weight zero, and
  whether the embedding accepts a node with only such edges is its affair. Two builds at a
  time: the schedule starts one a day, nothing else starts one.
* `last_like_date`, which nothing reads. Views that only show rows; `AddRequestView`, whose
  rows nothing else uses; organisations, which the API cannot change (they go with
  the names of an account). The age of tokens and the rate limits:
  they may refuse any request, as `Refused` does. Edits of rows on the admin site, which save a whole row as
  the views do; the deletion of an account while requests about it run.
* The overflow of `like_count` (2^31 likes of one user by another).
* Direct messages: `connect` reads `conversation_id`, the route gives `conversation`, so
  no socket gets in. Text messages of a room: they change no state.
* Queue and rooms as one system: what carries the room id from the one socket to the
  other is the client, which is not in the repository.
* The capacity and expiry of the channel layer (100 messages, 60 s): a room holds four
  people, and an open socket's messages are handled at once. Loss of
  Redis' data. Deletion of a user who is queued.
* Settings, admin, urls, migrations, plain views: no state of their own.

## Plan

1. *Done*: GroupFormation and Grouping, MatchingService, ChatRoom and MemberList, AnnoyIndex,
   Likes and LikeGraph, Accounts; their safety properties as theorems, for any number of
   sockets per user.
2. What could be added: two builds of the index at a time, and an abstract specification of
   the matching service that leaves out the lock.
