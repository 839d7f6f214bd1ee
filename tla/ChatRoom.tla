------------------------------ MODULE ChatRoom ------------------------------
(***************************************************************************)
(* The member list of one chat room: GroupConsumer (chat/consumers.py) over *)
(* the Redis set named after the room, the Redis lock                      *)
(* "redislock:members:<room>" and the room's channel group.                *)
(*                                                                         *)
(* A socket that joins adds its user to the set and broadcasts the set; one *)
(* that leaves takes the user out, broadcasts what is left and deletes the *)
(* key of an empty room.  Both do so under the lock, which expires after    *)
(* five seconds.  Every awaited call is a step.  Rooms share nothing.       *)
(***************************************************************************)
EXTENDS Integers, Sequences, FiniteSets

CONSTANTS Users,
          Conns,       \* bound: the sockets <<user, n>> that may join the room
          NoOne,       \* the lock is free
          MaxFaults    \* bound: failing calls, crashes and overlong sections

ASSUME ConnsAssumption  == Conns \subseteq Users \X (Nat \ {0})
ASSUME NoOneAssumption  == NoOne \notin Conns
ASSUME FaultsAssumption == MaxFaults \in Nat

\* The user of a socket; a user may open several, one after the other or as tabs.
Owner(c) == c[1]

VARIABLES
  members,   \* the Redis set of the room; the entry [id, first, last] is the user
  lock,      \* the socket whose token the lock key holds
  subs,      \* sockets in the room's channel group
  inbox,     \* member lists on a socket's channel, not yet handled
  view,      \* the last member list sent down a socket
  phase,     \* where a socket is in its handlers
  list,      \* membersSet of the section a socket is in
  faults,    \* failures so far
  overrun,   \* history: the lock expired in the middle of a section
  told,      \* history: the last list that was broadcast
  shared     \* history: users who have had two sockets at a time

histVars == <<overrun, told, shared>>
vars == <<members, lock, subs, inbox, view, phase, list, faults, histVars>>

Adding   == {"add", "read+", "send+", "unlock+"}
Removing == {"remove", "read-", "send-", "delete", "unlock-"}
Section(c) == phase[c] \in Adding \cup Removing

Init == /\ members = {} /\ lock = NoOne /\ subs = {}
        /\ inbox = [c \in Conns |-> <<>>]
        /\ view  = [c \in Conns |-> {}]
        /\ phase = [c \in Conns |-> "none"]
        /\ list  = [c \in Conns |-> {}]
        /\ faults = 0 /\ overrun = FALSE /\ told = {} /\ shared = {}

Fault == faults < MaxFaults /\ faults' = faults + 1

Goto(c, from, to) == phase[c] = from /\ phase' = [phase EXCEPT ![c] = to]

\* What a socket holds is gone with it.
Ends(C) == /\ inbox' = [c \in Conns |-> IF c \in C THEN <<>> ELSE inbox[c]]
           /\ view'  = [c \in Conns |-> IF c \in C THEN {} ELSE view[c]]
           /\ list'  = [c \in Conns |-> IF c \in C THEN {} ELSE list[c]]

-----------------------------------------------------------------------------
(* GroupConsumer.connect                                                   *)

\* The server has a consumer for the socket.
Live(c) == phase[c] \notin {"none", "closed"}

Open(c) == /\ Goto(c, "none", "auth")
           /\ \A d \in Conns : Owner(d) = Owner(c) /\ d[2] < c[2] => phase[d] # "none"
           /\ shared' = IF \E d \in Conns : Owner(d) = Owner(c) /\ Live(d)
                         THEN shared \cup {Owner(c)} ELSE shared
           /\ UNCHANGED <<members, lock, subs, inbox, view, list, faults, overrun, told>>

\* No valid user: closed, and disconnect fails on the missing groupname.
Refuse(c) == /\ Goto(c, "auth", "closed")
             /\ UNCHANGED <<members, lock, subs, inbox, view, list, faults, histVars>>

Authenticate(c) == /\ Goto(c, "auth", "join")
                   /\ UNCHANGED <<members, lock, subs, inbox, view, list,
                                  faults, histVars>>

GroupAdd(c) == /\ Goto(c, "join", "accept")
               /\ subs' = subs \cup {c}
               /\ UNCHANGED <<members, lock, inbox, view, list, faults, histVars>>

Accept(c) == /\ Goto(c, "accept", "lock+")
             /\ UNCHANGED <<members, lock, subs, inbox, view, list, faults, histVars>>

\* A call of connect outside the inner try fails: close(4123), then disconnect.
ConnectFails(c) == /\ Fault
                   /\ phase[c] \in {"join", "accept", "lock+", "unlock+"}
                   /\ phase' = [phase EXCEPT ![c] = "leaving"]
                   /\ UNCHANGED <<members, lock, subs, inbox, view, list, histVars>>

\* handle_members, once connect has returned.
HandleMembers(c) == /\ phase[c] = "open"
                    /\ inbox[c] # <<>>
                    /\ view' = [view EXCEPT ![c] = Head(inbox[c])]
                    /\ inbox' = [inbox EXCEPT ![c] = Tail(@)]
                    /\ UNCHANGED <<members, lock, subs, phase, list, faults, histVars>>

-----------------------------------------------------------------------------
(* add_and_update_member_list                                              *)

\* Mutant: the section starts without waiting for the lock.
Acquire_NoLock(c) == /\ lock' = c
                     /\ Goto(c, "lock+", "add") \/ Goto(c, "lock-", "remove")
                     /\ UNCHANGED <<members, subs, inbox, view, list, faults,
                                    histVars>>

\* The lock is taken for the joining or the leaving section; a socket that
\* finds it held tries again.
Acquire(c) == /\ lock = NoOne
              /\ lock' = c
              /\ Goto(c, "lock+", "add") \/ Goto(c, "lock-", "remove")
              /\ UNCHANGED <<members, subs, inbox, view, list, faults, histVars>>

\* Mutant: the entry is the channel and not the user.
Sadd_Channel(c) == /\ Goto(c, "add", "read+")
                   /\ members' = members \cup {c}
                   /\ UNCHANGED <<lock, subs, inbox, view, list, faults, histVars>>

Sadd(c) == /\ Goto(c, "add", "read+")
           /\ members' = members \cup {Owner(c)}
           /\ UNCHANGED <<lock, subs, inbox, view, list, faults, histVars>>

\* Mutant: the list is read before the socket's own change to it.
Smembers_Stale(c) ==
  /\ Goto(c, "read+", "send+") \/ Goto(c, "read-", "send-")
  /\ list' = [list EXCEPT ![c] = IF phase[c] = "read+" THEN members \ {Owner(c)}
                                                      ELSE members \cup {Owner(c)}]
  /\ UNCHANGED <<members, lock, subs, inbox, view, faults, histVars>>

\* smembers, of either section.
Smembers(c) == /\ Goto(c, "read+", "send+") \/ Goto(c, "read-", "send-")
               /\ list' = [list EXCEPT ![c] = members]
               /\ UNCHANGED <<members, lock, subs, inbox, view, faults, histVars>>

\* Mutant: only the sender gets the list.
Broadcast_Self(c) == /\ Goto(c, "send+", "unlock+") \/ Goto(c, "send-", "delete")
                     /\ inbox' = [inbox EXCEPT ![c] = IF c \in subs THEN Append(@, list[c])
                                                                   ELSE @]
                     /\ told' = list[c]
                     /\ UNCHANGED <<members, lock, subs, view, list, faults, overrun, shared>>

\* group_send of the list, of either section.
Broadcast(c) == /\ Goto(c, "send+", "unlock+") \/ Goto(c, "send-", "delete")
                /\ inbox' = [d \in Conns |-> IF d \in subs /\ phase[d] # "closed"
                                               THEN Append(inbox[d], list[c])
                                               ELSE inbox[d]]
                /\ told' = list[c]
                /\ UNCHANGED <<members, lock, subs, view, list, faults, overrun, shared>>

\* sadd or smembers raises: membersSet is empty and decoded_members unbound, so
\* that the group_send fails too; the socket goes on.
AddFails(c) == /\ Fault
               /\ phase[c] \in {"add", "read+"}
               /\ phase' = [phase EXCEPT ![c] = "unlock+"]
               /\ UNCHANGED <<members, lock, subs, inbox, view, list, histVars>>

\* group_send raises and is logged.
SendFails(c) == /\ Fault
                /\ Goto(c, "send+", "unlock+") \/ Goto(c, "send-", "delete")
                /\ UNCHANGED <<members, lock, subs, inbox, view, list, histVars>>

\* A lock that is still the socket's own is freed.
FreeOwn(c) == lock' = IF lock = c THEN NoOne ELSE lock

\* A lock that expired meanwhile cannot be released: connect fails and closes.
UnlockAdd(c) == /\ Goto(c, "unlock+", IF lock = c THEN "open" ELSE "leaving")
                /\ FreeOwn(c)
                /\ list' = [list EXCEPT ![c] = {}]
                /\ UNCHANGED <<members, subs, inbox, view, faults, histVars>>

-----------------------------------------------------------------------------
(* GroupConsumer.disconnect and remove_and_update_member_list              *)

Discard(c) == /\ Goto(c, "open", "lock-") \/ Goto(c, "leaving", "lock-")
              /\ subs' = subs \ {c}
              /\ Ends({c})
              /\ UNCHANGED <<members, lock, faults, histVars>>

\* One try block: without the group_discard, or the lock, the user stays in the list.
DisconnectFails(c) == /\ Fault
                      /\ phase[c] \in {"open", "leaving", "lock-"}
                      /\ phase' = [phase EXCEPT ![c] = "closed"]
                      /\ Ends({c})
                      /\ UNCHANGED <<members, lock, subs, histVars>>

\* exists and srem; exists only spares a srem from a set that is not there.
Srem(c) == /\ Goto(c, "remove", "read-")
           /\ members' = members \ {Owner(c)}
           /\ UNCHANGED <<lock, subs, inbox, view, list, faults, histVars>>

\* smembers raises: membersSet is empty, nothing is sent, and the section goes
\* on to the test for an empty room.
ReadFails(c) == /\ Fault
                /\ Goto(c, "read-", "delete")
                /\ list' = [list EXCEPT ![c] = {}]
                /\ UNCHANGED <<members, lock, subs, inbox, view, histVars>>

\* Mutant: the key is deleted whenever one member or none is left.
Delete_TooEarly(c) == /\ Goto(c, "delete", "unlock-")
                      /\ members' = IF Cardinality(list[c]) <= 1 THEN {} ELSE members
                      /\ UNCHANGED <<lock, subs, inbox, view, list, faults, histVars>>

\* "if no one is left in the group, we must delete the groupname".
Delete(c) == /\ Goto(c, "delete", "unlock-")
             /\ members' = IF list[c] = {} THEN {} ELSE members
             /\ UNCHANGED <<lock, subs, inbox, view, list, faults, histVars>>

\* srem, delete or the release raises: the section is left, with or without the lock.
RemoveFails(c) == /\ Fault
                  /\ phase[c] \in {"remove", "delete", "unlock-"}
                  /\ phase' = [phase EXCEPT ![c] = "closed"]
                  /\ FreeOwn(c) \/ UNCHANGED lock
                  /\ Ends({c})
                  /\ UNCHANGED <<members, subs, histVars>>

UnlockRemove(c) == /\ Goto(c, "unlock-", "closed")
                   /\ FreeOwn(c)
                   /\ Ends({c})
                   /\ UNCHANGED <<members, subs, faults, histVars>>

-----------------------------------------------------------------------------
\* The web server dies: no handler runs, Redis keeps the set, the lock and the group.
ServerCrash == /\ Fault
               /\ \E c \in Conns : phase[c] \notin {"none", "closed"}
               /\ phase' = [c \in Conns |-> IF phase[c] = "none" THEN "none"
                                                                 ELSE "closed"]
               /\ Ends(Conns)
               /\ UNCHANGED <<members, lock, subs, histVars>>

\* Mutant: the lock has no timeout, time passes and it stays.
LockExpires_Never == lock # NoOne /\ ~Section(lock) /\ UNCHANGED vars

\* The lock of a socket that is in no section, because it crashed or could not
\* release it, expires.
LockExpires == /\ lock # NoOne
               /\ ~Section(lock)
               /\ lock' = NoOne
               /\ UNCHANGED <<members, subs, inbox, view, phase, list, faults, histVars>>

\* A section takes longer than the five seconds of the lock.
LockOverrun == /\ Fault
               /\ lock # NoOne
               /\ Section(lock)
               /\ lock' = NoOne
               /\ overrun' = TRUE
               /\ UNCHANGED <<members, subs, inbox, view, phase, list, told, shared>>

Joins(c)  == Authenticate(c) \/ GroupAdd(c) \/ Accept(c)
Works(c)  == \/ Sadd(c) \/ Smembers(c) \/ Broadcast(c) \/ UnlockAdd(c)
             \/ Srem(c) \/ Delete(c) \/ UnlockRemove(c)
\* What the handler a socket is in does next, but for the wait for the lock.
Goes(c)   == Joins(c) \/ Refuse(c) \/ Works(c) \/ (phase[c] = "leaving" /\ Discard(c))
Fails(c)  == \/ ConnectFails(c) \/ AddFails(c) \/ SendFails(c) \/ ReadFails(c)
             \/ RemoveFails(c) \/ DisconnectFails(c)

Next == \/ \E c \in Conns : \/ Open(c) \/ Refuse(c) \/ Joins(c) \/ Acquire(c)
                            \/ Works(c) \/ HandleMembers(c) \/ Discard(c)
                            \/ Fails(c)
        \/ ServerCrash \/ LockExpires \/ LockOverrun

Spec == Init /\ [][Next]_vars

\* The event loop goes on with a handler it began and Redis expires keys;
\* nothing makes a client come or leave an open room, or a call fail.
Fairness == /\ \A c \in Conns : /\ WF_vars(Goes(c))
                                /\ WF_vars(Acquire(c))
                                /\ WF_vars(HandleMembers(c))
            /\ WF_vars(LockExpires)

FairSpec == Spec /\ Fairness

-----------------------------------------------------------------------------
(* Properties                                                              *)

\* Every variable has its type.
TypeOK == /\ members \subseteq Users
          /\ lock \in Conns \cup {NoOne}
          /\ subs \subseteq Conns
          /\ inbox \in [Conns -> Seq(SUBSET Users)]
          /\ view \in [Conns -> SUBSET Users]
          /\ phase \in [Conns -> {"none", "auth", "join", "accept", "lock+",
                                  "open", "leaving", "lock-", "closed"}
                                 \cup Adding \cup Removing]
          /\ list \in [Conns -> SUBSET Users]
          /\ faults \in 0..MaxFaults
          /\ overrun \in BOOLEAN
          /\ told \subseteq Users
          /\ shared \subseteq Users

\* Two sockets never update the list at the same time, as long as no section
\* outlives the lock, whatever crashes.
OneSectionAtATime ==
  ~overrun => \A c, d \in Conns : Section(c) /\ Section(d) => c = d

Here(c) == phase[c] = "open"

Quiet == \A c \in Conns : phase[c] \in {"none", "open", "closed"} /\ inbox[c] = <<>>

\* In a quiet room nobody is listed who is not here, nobody is missing who never
\* had two sockets at a time (of two tabs the first to close takes the user off
\* the list), and every client shows the list: the last broadcast to reach a
\* client is the one of the last section.
QuietRoomIsAccurate ==
  faults = 0 /\ Quiet =>
    /\ members \subseteq {Owner(c) : c \in {d \in Conns : Here(d)}}
    /\ \A c \in Conns : Here(c) => Owner(c) \in members \cup shared /\ view[c] = members

\* Only a socket that leaves takes its own user off the list; the deletion of
\* an empty room, above all, never catches somebody who has just joined.
OnlyLeaversAreDropped ==
  [][faults = 0 => \A u \in members \ members' :
                     \E c \in Conns : Owner(c) = u /\ phase[c] = "remove"]_vars

\* "if no one is left in the group, we must delete the groupname from Redis
\* user tracking" (chat/consumers.py:227): the key is deleted only then, as
\* long as the section has the lock to itself.
DeletesOnlyEmptyRooms ==
  ~overrun => \A c \in Conns : phase[c] = "delete" /\ list[c] = {} => members = {}

\* Nobody waits for the lock for ever, even when its holder dies.
LockIsReached ==
  \A c \in Conns : phase[c] \in {"lock+", "lock-"}
                     ~> Section(c) \/ phase[c] \in {"leaving", "closed"}

\* Two people who stay in the room come to see each other, unless a call fails or
\* the one to be seen has had two tabs.
TheySeeEachOther ==
  \A c, d \in Conns :
    Owner(c) # Owner(d) =>
      (Here(c) /\ Here(d) ~> \/ Owner(d) \in view[c] \cup shared
                             \/ ~Here(c) \/ ~Here(d) \/ faults > 0)

\* What the clients of the room are promised (MemberList): a socket has come once
\* its list is sent and is gone once the list without its user is.
Room == INSTANCE MemberList WITH
          announced <- told,
          listening <- subs,
          present   <- {c \in Conns : phase[c] \in {"unlock+", "open", "lock-", "remove",
                                                     "read-", "send-"}},
          intact    <- faults = 0

ImplementsMemberList == Room!Spec
=============================================================================
