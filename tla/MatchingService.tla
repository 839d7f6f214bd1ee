-------------------------- MODULE MatchingService --------------------------
(***************************************************************************)
(* From the queue socket to the room id: QueueConsumer                     *)
(* (matching/consumers.py), the Celery task run_matching_algo              *)
(* (matching/tasks.py) and distribute_rooms (matching/distribute_rooms.py) *)
(* over one Redis: the set "queue", the key "run_matching_algo_lock", the  *)
(* counter "last_room_id" and the channel groups "user_queue_<id>".        *)
(*                                                                         *)
(* Every Redis command, channel-layer call and awaited database call is a  *)
(* step of its own, since another socket or worker may run in between.     *)
(* Channels runs the handlers of one socket one after the other, so a      *)
(* socket is in one handler at a time.                                     *)
(***************************************************************************)
EXTENDS RoomSizes, Sequences

CONSTANTS Users, Workers,
          NoOne,           \* the lock key does not exist
          Conns,           \* bound: the sockets <<user, n>> that may be opened
          BatchSize,       \* batch_size of match_in_cluster, 50 in the code
          MaxFaults,       \* bound: failing calls and crashes in a behaviour
          RunsOutliveTtl   \* a run may take longer than lock_ttl

ASSUME UsersFinite       == IsFiniteSet(Users)
ASSUME NoOneAssumption   == NoOne \notin Workers
ASSUME ConnsAssumption   == Conns \subseteq Users \X (Nat \ {0})
ASSUME BoundsAssumption  == BatchSize \in Nat /\ MaxFaults \in Nat
ASSUME TtlAssumption     == RunsOutliveTtl \in BOOLEAN

\* The user of a socket; a user may open several, one after the other or as tabs.
Owner(c) == c[1]

VARIABLES
  queue,        \* Redis set "queue"
  lock,         \* run_matching_algo_lock, with the worker that set it (the key itself holds "1")
  lastRoomId,   \* Redis counter "last_room_id"
  indexReady,   \* the Annoy directory, the .ann file and the map exist
  subs,         \* sockets in their channel group user_queue_<id>
  inbox,        \* events on a socket's channel, not yet handled
  received,     \* room ids sent down a socket
  phase,        \* where a socket is in its handlers
  pc,           \* where a worker is in run_matching_algo
  snapshot,     \* retrieved_user_ids
  groups,       \* grouped_users without a room yet
  toSend,       \* <<room id, user>> not yet sent
  sent,         \* success_matched_userIds
  faults,       \* failures so far
  rooms,        \* history: the <<room id, group>> handed out
  missed,       \* history: sockets whose place in the queue was lost to a race
  shared,       \* history: users who have had two sockets at a time
  dropped       \* history: users whom a failure has left in the queue

connVars   == <<subs, inbox, received, phase>>
workerVars == <<pc, snapshot, groups, toSend, sent>>
histVars   == <<rooms, missed, shared, dropped>>
vars == <<queue, lock, lastRoomId, indexReady, connVars, workerVars, faults, histVars>>

Init == /\ queue = {} /\ lock = NoOne /\ lastRoomId = 0 /\ indexReady = FALSE
        /\ subs = {}
        /\ inbox = [c \in Conns |-> <<>>]
        /\ received = [c \in Conns |-> <<>>]
        /\ phase = [c \in Conns |-> "none"]
        /\ pc = [w \in Workers |-> "idle"]
        /\ snapshot = [w \in Workers |-> {}]
        /\ groups = [w \in Workers |-> {}]
        /\ toSend = [w \in Workers |-> {}]
        /\ sent = [w \in Workers |-> {}]
        /\ faults = 0 /\ rooms = {} /\ missed = {} /\ shared = {} /\ dropped = {}

Fault == faults < MaxFaults /\ faults' = faults + 1

-----------------------------------------------------------------------------
(* QueueConsumer.connect                                                   *)

Goto(c, from, to) == phase[c] = from /\ phase' = [phase EXCEPT ![c] = to]

\* The server has a consumer for the socket.
Live(c) == phase[c] \notin {"none", "closed"}

Open(c) == /\ Goto(c, "none", "auth")
           /\ \A d \in Conns : Owner(d) = Owner(c) /\ d[2] < c[2] => phase[d] # "none"
           /\ shared' = IF \E d \in Conns : Owner(d) = Owner(c) /\ Live(d)
                         THEN shared \cup {Owner(c)} ELSE shared
           /\ UNCHANGED <<queue, lock, lastRoomId, indexReady, subs, inbox, received,
                          workerVars, faults, rooms, missed, dropped>>

\* No token, or one that cannot be decoded: the socket is closed, and its
\* disconnect handler fails on the missing scope["user_id"] before it does anything.
Refuse(c) == /\ Goto(c, "auth", "closed")
             /\ UNCHANGED <<queue, lock, lastRoomId, indexReady, subs, inbox,
                            received, workerVars, faults, histVars>>

Authenticate(c) == /\ Goto(c, "auth", "sadd")
                   /\ UNCHANGED <<queue, lock, lastRoomId, indexReady, subs,
                                  inbox, received, workerVars, faults, histVars>>

\* A run has sent u a room, and has not yet taken u out of the queue.
Matched(u) == \E w \in Workers : pc[w] = "send" /\ u \in sent[w]

\* Whoever comes back during such a run is in the queue until its srem only.
Sadd(c) == /\ Goto(c, "sadd", "subscribe")
           /\ queue' = queue \cup {Owner(c)}
           /\ missed' = IF Matched(Owner(c)) THEN missed \cup {c} ELSE missed
           /\ UNCHANGED <<lock, lastRoomId, indexReady, subs, inbox, received,
                          workerVars, faults, rooms, shared, dropped>>

\* Mutant: the socket is not added to its user's channel group.
GroupAdd_Nothing(c) == /\ Goto(c, "subscribe", "accept")
                       /\ UNCHANGED <<queue, lock, lastRoomId, indexReady, subs,
                                      inbox, received, workerVars, faults,
                                      histVars>>

GroupAdd(c) == /\ Goto(c, "subscribe", "accept")
               /\ subs' = subs \cup {c}
               /\ UNCHANGED <<queue, lock, lastRoomId, indexReady, inbox,
                              received, workerVars, faults, histVars>>

\* Mutant: any message that waits is dropped when the socket is accepted.
Accept_Drops(c) == /\ Goto(c, "accept", "open")
                   /\ inbox' = [inbox EXCEPT ![c] = <<>>]
                   /\ UNCHANGED <<queue, lock, lastRoomId, indexReady, subs,
                                  received, workerVars, faults, histVars>>

Accept(c) == /\ Goto(c, "accept", "open")
             /\ UNCHANGED <<queue, lock, lastRoomId, indexReady, subs, inbox,
                            received, workerVars, faults, histVars>>

\* Mutant: the exception is not caught, and the socket ends without its disconnect.
ConnectFails_Uncaught(c) == /\ Fault
                            /\ phase[c] \in {"auth", "sadd", "subscribe", "accept"}
                            /\ phase' = [phase EXCEPT ![c] = "closed"]
                            /\ UNCHANGED <<queue, lock, lastRoomId, indexReady, subs,
                                           inbox, received, workerVars, histVars>>

\* An awaited call of connect fails: close(4123), then the disconnect handler.
ConnectFails(c) == /\ Fault
                   /\ phase[c] \in {"auth", "sadd", "subscribe", "accept"}
                   /\ phase' = [phase EXCEPT ![c] = "closing"]
                   /\ UNCHANGED <<queue, lock, lastRoomId, indexReady, subs,
                                  inbox, received, workerVars, histVars>>

\* send_room_id: handled once connect has returned.
Deliver(c) == /\ phase[c] = "open"
              /\ inbox[c] # <<>>
              /\ received' = [received EXCEPT ![c] = Append(@, Head(inbox[c]))]
              /\ inbox' = [inbox EXCEPT ![c] = Tail(@)]
              /\ UNCHANGED <<queue, lock, lastRoomId, indexReady, subs, phase,
                             workerVars, faults, histVars>>

-----------------------------------------------------------------------------
(* QueueConsumer.disconnect                                                *)

\* The client may leave an open socket at any time; what its channel still
\* holds is dropped.
Discard(c) == /\ phase[c] \in {"open", "closing"}
              /\ phase' = [phase EXCEPT ![c] = "discarded"]
              /\ subs' = subs \ {c}
              /\ inbox' = [inbox EXCEPT ![c] = <<>>]
              /\ UNCHANGED <<queue, lock, lastRoomId, indexReady, received,
                             workerVars, faults, histVars>>

\* redis.exists(queue): without the key there is nothing to remove.
CheckQueue(c) == /\ Goto(c, "discarded", IF queue = {} THEN "closed" ELSE "leaving")
                 /\ UNCHANGED <<queue, lock, lastRoomId, indexReady, subs, inbox,
                                received, workerVars, faults, histVars>>

\* A socket that has put its user into the queue, and stays.
Joined(c) == phase[c] \in {"subscribe", "accept", "open"}

\* Mutant: a socket that leaves takes nobody out of the queue.
Srem_Forgets(c) == /\ Goto(c, "leaving", "closed")
                   /\ UNCHANGED <<queue, lock, lastRoomId, indexReady, subs,
                                  inbox, received, workerVars, faults, histVars>>

\* It takes the user of another socket out of the queue as well.
Srem(c) == /\ Goto(c, "leaving", "closed")
           /\ queue' = queue \ {Owner(c)}
           /\ missed' = missed \cup {d \in Conns : Owner(d) = Owner(c) /\ Joined(d)}
           /\ dropped' = dropped \ {Owner(c)}
           /\ UNCHANGED <<lock, lastRoomId, indexReady, subs, inbox, received,
                          workerVars, faults, rooms, shared>>

\* One try block holds all of disconnect: a call that fails skips the rest.
DisconnectFails(c) == /\ Fault
                      /\ phase[c] \in {"open", "closing", "discarded", "leaving"}
                      /\ phase' = [phase EXCEPT ![c] = "closed"]
                      /\ inbox' = [inbox EXCEPT ![c] = <<>>]
                      /\ dropped' = dropped \cup (queue \cap {Owner(c)})
                      /\ UNCHANGED <<queue, lock, lastRoomId, indexReady, subs, received,
                                     workerVars, rooms, missed, shared>>

\* The web server dies: no handler runs, Redis keeps what it has.
ServerCrash == /\ Fault
               /\ \E c \in Conns : phase[c] \notin {"none", "closed"}
               /\ phase' = [c \in Conns |-> IF phase[c] = "none" THEN "none"
                                                                 ELSE "closed"]
               /\ inbox' = [c \in Conns |-> <<>>]
               /\ dropped' = queue
               /\ UNCHANGED <<queue, lock, lastRoomId, indexReady, subs, received,
                              workerVars, rooms, missed, shared>>

-----------------------------------------------------------------------------
(* run_matching_algo                                                       *)

Advance(w, from, to) == pc[w] = from /\ pc' = [pc EXCEPT ![w] = to]

\* build_graph_annoy has written the index for the first time.
BuildIndex == /\ ~indexReady
              /\ indexReady' = TRUE
              /\ UNCHANGED <<queue, lock, lastRoomId, connVars, workerVars,
                             faults, histVars>>

\* Mutant: SET without NX.
TryLock_NoNX(w) == /\ Advance(w, "idle", "read")
                   /\ indexReady
                   /\ lock' = w
                   /\ UNCHANGED <<queue, lastRoomId, indexReady, connVars,
                                  snapshot, groups, toSend, sent, faults,
                                  histVars>>

\* SET NX EX.  Without the index, or while the key exists, the run returns at
\* once and changes nothing.
TryLock(w) == /\ Advance(w, "idle", "read")
              /\ indexReady
              /\ lock = NoOne
              /\ lock' = w
              /\ UNCHANGED <<queue, lastRoomId, indexReady, connVars, snapshot,
                             groups, toSend, sent, faults, histVars>>

\* smembers, and the ids that exist in the database.
Snapshot(w) == /\ Advance(w, "read", IF Cardinality(queue) < 2 THEN "release"
                                                              ELSE "group")
               /\ snapshot' = [snapshot EXCEPT ![w] = queue]
               /\ UNCHANGED <<queue, lock, lastRoomId, indexReady, connVars,
                              groups, toSend, sent, faults, histVars>>

\* run_batch_matching, in memory (GroupFormation; the index was seen before), and the
\* first INCR of distribute_rooms, whose value is not used.
FormGroups(w) == /\ Advance(w, "group", "rooms")
                 /\ \E T \in Placeable(snapshot[w], BatchSize) : \E P \in Outcomes(T) :
                      groups' = [groups EXCEPT ![w] = P]
                 /\ lastRoomId' = lastRoomId + 1
                 /\ UNCHANGED <<queue, lock, indexReady, connVars, snapshot,
                                toSend, sent, faults, histVars>>

\* Mutant: a room id is drawn at random, ids in use are not looked at.
AllocateRoom_Random(w, g) ==
  /\ pc[w] = "rooms"
  /\ g \in groups[w]
  /\ lastRoomId' = lastRoomId + 1
  /\ groups' = [groups EXCEPT ![w] = @ \ {g}]
  /\ \E r \in 1..lastRoomId' :
       /\ toSend' = [toSend EXCEPT ![w] = @ \cup ({r} \X g)]
       /\ rooms' = rooms \cup {<<r, g>>}
  /\ UNCHANGED <<queue, lock, indexReady, connVars, pc, snapshot, sent, faults,
                 missed, shared, dropped>>

\* Mutant: user and room id swapped in what is sent.
AllocateRoom_Swapped(w, g) ==
  /\ pc[w] = "rooms"
  /\ g \in groups[w]
  /\ lastRoomId' = lastRoomId + 1
  /\ groups' = [groups EXCEPT ![w] = @ \ {g}]
  /\ toSend' = [toSend EXCEPT ![w] = @ \cup (g \X {lastRoomId'})]
  /\ rooms' = rooms \cup {<<lastRoomId', g>>}
  /\ UNCHANGED <<queue, lock, indexReady, connVars, pc, snapshot, sent, faults,
                 missed, shared, dropped>>

\* One INCR per group.
AllocateRoom(w, g) ==
  /\ pc[w] = "rooms"
  /\ g \in groups[w]
  /\ lastRoomId' = lastRoomId + 1
  /\ groups' = [groups EXCEPT ![w] = @ \ {g}]
  /\ toSend' = [toSend EXCEPT ![w] = @ \cup ({lastRoomId'} \X g)]
  /\ rooms' = rooms \cup {<<lastRoomId', g>>}
  /\ UNCHANGED <<queue, lock, indexReady, connVars, pc, snapshot, sent, faults,
                 missed, shared, dropped>>

RoomsDone(w) == /\ Advance(w, "rooms", "send")
                /\ groups[w] = {}
                /\ UNCHANGED <<queue, lock, lastRoomId, indexReady, connVars,
                               snapshot, groups, toSend, sent, faults, histVars>>

\* The rooms are sent in the order of their ids, one user after the other.
NextToSend(w, m) == /\ pc[w] = "send"
                    /\ m \in toSend[w]
                    /\ \A n \in toSend[w] : m[1] <= n[1]

\* Mutant: one channel group for all users.
Reached_All(u) == {c \in subs : phase[c] # "closed"}

\* The live sockets that group_send to the channel group of u reaches.
Reached(u) == {c \in subs : Owner(c) = u /\ phase[c] # "closed"}

Send(w, m) ==
  /\ NextToSend(w, m)
  /\ inbox' = [c \in Conns |-> IF c \in Reached(m[2]) THEN Append(inbox[c], m[1])
                                                      ELSE inbox[c]]
  /\ toSend' = [toSend EXCEPT ![w] = @ \ {m}]
  /\ sent' = [sent EXCEPT ![w] = @ \cup {m[2]}]
  /\ missed' = missed \cup {c \in Conns : Owner(c) = m[2] /\ phase[c] = "subscribe"}
  /\ UNCHANGED <<queue, lock, lastRoomId, indexReady, subs, received, phase,
                 pc, snapshot, groups, faults, rooms, shared, dropped>>

\* group_send raises: logged, and the user is not counted as matched.
SendFails(w, m) == /\ Fault
                   /\ NextToSend(w, m)
                   /\ toSend' = [toSend EXCEPT ![w] = @ \ {m}]
                   /\ UNCHANGED <<queue, lock, lastRoomId, indexReady, connVars,
                                  pc, snapshot, groups, sent, histVars>>

\* Mutant: the matched users are left in the queue.
RemoveMatched_Keeps(w) == /\ Advance(w, "send", "release")
                          /\ toSend[w] = {}
                          /\ UNCHANGED <<queue, lock, lastRoomId, indexReady,
                                         connVars, snapshot, groups, toSend, sent,
                                         faults, histVars>>

\* srem of the matched users.
RemoveMatched(w) == /\ Advance(w, "send", "release")
                    /\ toSend[w] = {}
                    /\ queue' = queue \ sent[w]
                    /\ dropped' = dropped \ sent[w]
                    /\ UNCHANGED <<lock, lastRoomId, indexReady, connVars, snapshot,
                                   groups, toSend, sent, faults, rooms, missed,
                                   shared>>

Forget(w) == /\ snapshot' = [snapshot EXCEPT ![w] = {}]
             /\ groups' = [groups EXCEPT ![w] = {}]
             /\ toSend' = [toSend EXCEPT ![w] = {}]
             /\ sent' = [sent EXCEPT ![w] = {}]

\* finally: the key is deleted, whoever set it.
Release(w) == /\ Advance(w, "release", "idle")
              /\ lock' = NoOne
              /\ Forget(w)
              /\ UNCHANGED <<queue, lastRoomId, indexReady, connVars, faults,
                             histVars>>

\* An exception between the lock and the end (Redis, the database, a torn
\* index): the rest is skipped, the finally clause runs.
RunFails(w) == /\ Fault
               /\ pc[w] \in {"read", "group", "rooms", "send"}
               /\ pc' = [pc EXCEPT ![w] = "release"]
               /\ UNCHANGED <<queue, lock, lastRoomId, indexReady, connVars,
                              snapshot, groups, toSend, sent, histVars>>

\* The worker process dies, or its DEL fails: the key stays until it expires.
WorkerCrash(w) == /\ Fault
                  /\ pc[w] # "idle"
                  /\ pc' = [pc EXCEPT ![w] = "idle"]
                  /\ Forget(w)
                  /\ UNCHANGED <<queue, lock, lastRoomId, indexReady, connVars,
                                 histVars>>

\* Mutant: SET without EX, time passes and the key stays.
LockExpires_Never == /\ lock # NoOne
                     /\ RunsOutliveTtl \/ pc[lock] = "idle"
                     /\ UNCHANGED vars

\* The time to live of the key ends; unless runs may outlive it, its owner is gone.
LockExpires == /\ lock # NoOne
               /\ RunsOutliveTtl \/ pc[lock] = "idle"
               /\ lock' = NoOne
               /\ UNCHANGED <<queue, lastRoomId, indexReady, connVars, workerVars,
                              faults, histVars>>

-----------------------------------------------------------------------------
Connects(c)    == Authenticate(c) \/ Sadd(c) \/ GroupAdd(c) \/ Accept(c)
Disconnects(c) == CheckQueue(c) \/ Srem(c)
Runs(w) == \/ Snapshot(w) \/ FormGroups(w) \/ RoomsDone(w)
           \/ \E g \in groups[w] : AllocateRoom(w, g)
           \/ \E m \in toSend[w] : Send(w, m)
           \/ RemoveMatched(w) \/ Release(w)

Next == \/ \E c \in Conns : \/ Open(c) \/ Refuse(c) \/ ConnectFails(c)
                            \/ Connects(c) \/ Deliver(c)
                            \/ Discard(c) \/ Disconnects(c) \/ DisconnectFails(c)
        \/ ServerCrash
        \/ BuildIndex
        \/ \E w \in Workers : \/ TryLock(w) \/ Runs(w)
                              \/ \E m \in toSend[w] : SendFails(w, m)
                              \/ RunFails(w) \/ WorkerCrash(w)
        \/ LockExpires

Spec == Init /\ [][Next]_vars

\* The event loop goes on with a handler it began, beat keeps starting runs and
\* rebuilding the index, a run goes on, Redis expires a key.  Nothing makes a
\* client come or leave, and no failure has to happen.
Fairness == /\ \A c \in Conns : /\ WF_vars(Connects(c) \/ Refuse(c))
                                /\ WF_vars(Disconnects(c))
                                /\ WF_vars(Deliver(c))
            /\ WF_vars(BuildIndex)
            /\ WF_vars(\E w \in Workers : TryLock(w))
            /\ \A w \in Workers : WF_vars(Runs(w))
            /\ WF_vars(LockExpires)

FairSpec == Spec /\ Fairness

-----------------------------------------------------------------------------
(* Properties                                                              *)

\* Every variable has its type.
TypeOK ==
  /\ queue \subseteq Users
  /\ lock \in Workers \cup {NoOne}
  /\ lastRoomId \in Nat
  /\ indexReady \in BOOLEAN
  /\ subs \subseteq Conns
  /\ inbox \in [Conns -> Seq(Nat)]
  /\ received \in [Conns -> Seq(Nat)]
  /\ phase \in [Conns -> {"none", "auth", "sadd", "subscribe", "accept", "open",
                          "closing", "discarded", "leaving", "closed"}]
  /\ pc \in [Workers -> {"idle", "read", "group", "rooms", "send", "release"}]
  /\ snapshot \in [Workers -> SUBSET Users]
  /\ groups \in [Workers -> SUBSET SUBSET Users]
  /\ toSend \in [Workers -> SUBSET (Nat \X Users)]
  /\ sent \in [Workers -> SUBSET Users]
  /\ faults \in 0..MaxFaults
  /\ rooms \subseteq Nat \X SUBSET Users
  /\ missed \subseteq Conns
  /\ shared \subseteq Users
  /\ dropped \subseteq Users

InRun(w) == pc[w] # "idle"

\* run_matching_algo never runs twice at a time: "prevent two Celery workers
\* from running run_matching_algo() at the same time" (matching/tasks.py:81).
OneRunAtATime == \A w, x \in Workers : InRun(w) /\ InRun(x) => w = x

\* A room id is given to one group only, whatever becomes of the lock.
RoomsAreUnique == \A a, b \in rooms : a[1] = b[1] => a = b

\* The phases between the sadd and the end of the srem of a socket.
Present(c) == phase[c] \in {"subscribe", "accept", "open", "closing",
                            "discarded", "leaving"}

\* A user in the queue has a socket that put it there and is still to take it out,
\* unless a disconnect of the user has failed or the server has died since anybody
\* last took the user out: nothing else makes ghosts, who are matched with the
\* living until their room is sent.
NoGhostInQueue ==
  \A u \in queue : u \in dropped \/ \E c \in Conns : Owner(c) = u /\ Present(c)

\* The room ids a socket was told or is about to be told.
RoomsTold(c) == {inbox[c][i] : i \in DOMAIN inbox[c]}
                  \cup {received[c][i] : i \in DOMAIN received[c]}

\* Who is told a room belongs to the one group it was given to, whatever fails,
\* crashes or overlaps: no more than four people ever meet in it.
RoomsHoldTheirGroup ==
  \A c \in Conns : \A r \in RoomsTold(c) :
    \E a \in rooms : /\ a[1] = r /\ Cardinality(a[2]) <= MaxRoom
                     /\ \A d \in Conns : r \in RoomsTold(d) => Owner(d) \in a[2]

\* A socket is told one room, if its user never has two at a time: after the
\* srem of its user no run may place it again, and before it no second run may
\* read the queue.
OneRoomPerSocket ==
  faults = 0 => \A c \in Conns :
    Owner(c) \notin shared => Len(inbox[c]) + Len(received[c]) <= 1

\* An open socket that is in no queue and was told no room: its user waits for ever.
Stranded(c) == /\ phase[c] = "open"
               /\ Owner(c) \notin queue
               /\ inbox[c] = <<>> /\ received[c] = <<>>

\* Whatever fails or overlaps there are three ways to be stranded: a run sends
\* the user a room between sadd and group_add; a run has sent it before the sadd
\* and does its srem after; another socket of the user does its srem after the sadd.
OnlyRacesStrand == \A c \in Conns : Stranded(c) => c \in missed

\* QueueConsumer "tracks who is waiting in the queue" (README.md:42): a user
\* whose queue socket is open and who has been told no room is in the queue.
NobodyIsStranded == \A c \in Conns : ~Stranded(c)

Waits(c) == phase[c] = "open" /\ Owner(c) \in queue /\ c \notin missed

\* Of two users who wait on open sockets, and were sent no room too early, one
\* is told a room or leaves in the end, whatever crashes or fails in between:
\* the lock of a dead worker expires, and a run that failed before its srem
\* left its users in the queue.
WaitersMeet ==
  \A c, d \in Conns :
    Owner(c) # Owner(d) =>
      (Waits(c) /\ Waits(d)) ~> \E e \in {c, d} : phase[e] # "open" \/ received[e] # <<>>

\* The key never stays behind: every run's lock is freed in the end.
LockIsFreed == lock # NoOne ~> lock = NoOne
=============================================================================
