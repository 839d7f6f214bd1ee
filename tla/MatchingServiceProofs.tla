----------------------- MODULE MatchingServiceProofs -----------------------
(***************************************************************************)
(* Theorems about MatchingService for every set of users, workers and      *)
(* sockets and every bound on failures.                                    *)
(***************************************************************************)
EXTENDS MatchingService, SequenceTheorems, TLAPS

-----------------------------------------------------------------------------
(* Type correctness                                                        *)

LEMMA InitType == Init => TypeOK
<1> SUFFICES ASSUME Init PROVE TypeOK
  OBVIOUS
<1>1. <<>> \in Seq(Nat)
  BY EmptySeq
<1>2. inbox \in [Conns -> Seq(Nat)] /\ received \in [Conns -> Seq(Nat)]
  BY <1>1 DEF Init
<1>3. faults \in 0..MaxFaults
  BY BoundsAssumption DEF Init
<1> QED
  BY <1>2, <1>3 DEF Init, TypeOK

\* What run_batch_matching returns consists of sets of users.
LEMMA GroupsAreSets ==
  ASSUME NEW S \in SUBSET Users, NEW T \in Placeable(S, BatchSize), NEW P \in Outcomes(T)
  PROVE  P \in SUBSET SUBSET Users
BY DEF Placeable, Outcomes

\* Every step preserves the types of the variables.
LEMMA TypeStep == TypeOK /\ [Next]_vars => TypeOK'
<1> SUFFICES ASSUME TypeOK, [Next]_vars PROVE TypeOK'
  OBVIOUS
<1> USE ConnsAssumption, BoundsAssumption
    DEF TypeOK, connVars, workerVars, histVars, Goto, Advance, Fault, Owner, Forget
<1>1. ASSUME NEW c \in Conns, Open(c) PROVE TypeOK'
  BY <1>1 DEF Open
<1>2. ASSUME NEW c \in Conns, Refuse(c) PROVE TypeOK'
  BY <1>2 DEF Refuse
<1>3. ASSUME NEW c \in Conns, ConnectFails(c) PROVE TypeOK'
  BY <1>3 DEF ConnectFails
<1>4. ASSUME NEW c \in Conns, Authenticate(c) PROVE TypeOK'
  BY <1>4 DEF Authenticate
<1>5. ASSUME NEW c \in Conns, Sadd(c) PROVE TypeOK'
  BY <1>5 DEF Sadd
<1>6. ASSUME NEW c \in Conns, GroupAdd(c) PROVE TypeOK'
  BY <1>6 DEF GroupAdd
<1>7. ASSUME NEW c \in Conns, Accept(c) PROVE TypeOK'
  BY <1>7 DEF Accept
<1>8. ASSUME NEW c \in Conns, Deliver(c) PROVE TypeOK'
  <2>1. Head(inbox[c]) \in Nat /\ Tail(inbox[c]) \in Seq(Nat)
    BY <1>8, HeadTailProperties DEF Deliver
  <2>2. Append(received[c], Head(inbox[c])) \in Seq(Nat)
    BY <2>1, AppendProperties
  <2> QED
    BY <1>8, <2>1, <2>2 DEF Deliver
<1>9. ASSUME NEW c \in Conns, Discard(c) PROVE TypeOK'
  <2>1. <<>> \in Seq(Nat)
    BY EmptySeq
  <2> QED
    BY <1>9, <2>1 DEF Discard
<1>10. ASSUME NEW c \in Conns, CheckQueue(c) PROVE TypeOK'
  BY <1>10 DEF CheckQueue
<1>11. ASSUME NEW c \in Conns, Srem(c) PROVE TypeOK'
  BY <1>11 DEF Srem
<1>12. ASSUME NEW c \in Conns, DisconnectFails(c) PROVE TypeOK'
  <2>1. <<>> \in Seq(Nat)
    BY EmptySeq
  <2> QED
    BY <1>12, <2>1 DEF DisconnectFails
<1>13. CASE ServerCrash
  <2>1. <<>> \in Seq(Nat)
    BY EmptySeq
  <2> QED
    BY <1>13, <2>1 DEF ServerCrash
<1>14. CASE BuildIndex
  BY <1>14 DEF BuildIndex
<1>15. CASE LockExpires
  BY <1>15 DEF LockExpires
<1>16. ASSUME NEW w \in Workers, TryLock(w) PROVE TypeOK'
  BY <1>16 DEF TryLock
<1>17. ASSUME NEW w \in Workers, Snapshot(w) PROVE TypeOK'
  BY <1>17 DEF Snapshot
<1>18. ASSUME NEW w \in Workers, RoomsDone(w) PROVE TypeOK'
  BY <1>18 DEF RoomsDone
<1>19. ASSUME NEW w \in Workers, RemoveMatched(w) PROVE TypeOK'
  BY <1>19 DEF RemoveMatched
<1>20. ASSUME NEW w \in Workers, Release(w) PROVE TypeOK'
  BY <1>20 DEF Release
<1>21. ASSUME NEW w \in Workers, RunFails(w) PROVE TypeOK'
  BY <1>21 DEF RunFails
<1>22. ASSUME NEW w \in Workers, WorkerCrash(w) PROVE TypeOK'
  BY <1>22 DEF WorkerCrash
<1>23. ASSUME NEW w \in Workers, FormGroups(w) PROVE TypeOK'
  <2>1. PICK P : /\ \E T \in Placeable(snapshot[w], BatchSize) : P \in Outcomes(T)
                 /\ groups' = [groups EXCEPT ![w] = P]
    BY <1>23 DEF FormGroups
  <2>2. P \in SUBSET SUBSET Users
    <3>1. snapshot[w] \in SUBSET Users
      OBVIOUS
    <3> QED
      BY <2>1, <3>1, GroupsAreSets
  <2> QED
    BY <1>23, <2>1, <2>2 DEF FormGroups
<1>24. ASSUME NEW w \in Workers, NEW g \in groups[w], AllocateRoom(w, g) PROVE TypeOK'
  <2>1. lastRoomId' \in Nat /\ g \subseteq Users
    BY <1>24 DEF AllocateRoom
  <2>2. {lastRoomId'} \X g \in SUBSET (Nat \X Users)
    BY <2>1
  <2>3. toSend' \in [Workers -> SUBSET (Nat \X Users)]
    BY <1>24, <2>2 DEF AllocateRoom
  <2>4. rooms' \subseteq Nat \X SUBSET Users
    BY <1>24, <2>1 DEF AllocateRoom
  <2> QED
    BY <1>24, <2>1, <2>3, <2>4 DEF AllocateRoom
<1>25. ASSUME NEW w \in Workers, NEW m \in toSend[w], Send(w, m) PROVE TypeOK'
  <2>1. m[1] \in Nat /\ m[2] \in Users
    OBVIOUS
  <2>2. \A c \in Conns : Append(inbox[c], m[1]) \in Seq(Nat)
    BY <2>1, AppendProperties
  <2>3. inbox' \in [Conns -> Seq(Nat)]
    BY <1>25, <2>2 DEF Send
  <2>4. missed' \subseteq Conns
    BY <1>25 DEF Send
  <2> QED
    BY <1>25, <2>1, <2>3, <2>4 DEF Send, NextToSend
<1>26. ASSUME NEW w \in Workers, NEW m \in toSend[w], SendFails(w, m) PROVE TypeOK'
  BY <1>26 DEF SendFails, NextToSend
<1>27. CASE UNCHANGED vars
  BY <1>27 DEF vars
<1> QED
  BY <1>1, <1>2, <1>3, <1>4, <1>5, <1>6, <1>7, <1>8, <1>9, <1>10, <1>11,
     <1>12, <1>13, <1>14, <1>15, <1>16, <1>17, <1>18, <1>19, <1>20, <1>21,
     <1>22, <1>23, <1>24, <1>25, <1>26, <1>27
     DEF Next, Connects, Disconnects, Runs

\* Every variable has its type in every state.
THEOREM TypeCorrect == Spec => []TypeOK
BY InitType, TypeStep, PTL DEF Spec

-----------------------------------------------------------------------------
(* Mutual exclusion                                                        *)

\* A worker in the middle of a run is the one that set the key: with an
\* unconditional DEL and no owner token this is all that keeps two runs apart.
LockInv == \A w \in Workers : InRun(w) => lock = w

\* No step of a socket touches the key or a worker.
LEMMA ConnSteps ==
  ASSUME NEW c \in Conns,
         \/ Open(c) \/ Refuse(c) \/ ConnectFails(c) \/ Connects(c) \/ Deliver(c)
         \/ Discard(c) \/ Disconnects(c) \/ DisconnectFails(c)
  PROVE  UNCHANGED <<lock, lastRoomId, workerVars, rooms>>
BY DEF Open, Refuse, ConnectFails, Connects, Authenticate, Sadd, GroupAdd,
       Accept, Deliver, Discard, Disconnects, CheckQueue, Srem, DisconnectFails,
       workerVars, histVars

LEMMA LockStep ==
  ASSUME ~RunsOutliveTtl, TypeOK, LockInv, [Next]_vars
  PROVE  LockInv'
<1> USE DEF TypeOK, LockInv, InRun, Advance, connVars, workerVars
<1>1. ASSUME NEW c \in Conns,
             \/ Open(c) \/ Refuse(c) \/ ConnectFails(c) \/ Connects(c) \/ Deliver(c)
             \/ Discard(c) \/ Disconnects(c) \/ DisconnectFails(c)
      PROVE  LockInv'
  BY <1>1, ConnSteps
<1>2. CASE ServerCrash \/ BuildIndex
  BY <1>2 DEF ServerCrash, BuildIndex
<1>3. ASSUME NEW w \in Workers, TryLock(w) PROVE LockInv'
  BY <1>3, NoOneAssumption DEF TryLock
<1>4. ASSUME NEW w \in Workers, Snapshot(w) \/ FormGroups(w) PROVE LockInv'
  BY <1>4 DEF Snapshot, FormGroups
<1>5. ASSUME NEW w \in Workers, RoomsDone(w) \/ RemoveMatched(w) PROVE LockInv'
  BY <1>5 DEF RoomsDone, RemoveMatched
<1>6. ASSUME NEW w \in Workers, NEW g \in groups[w], AllocateRoom(w, g) PROVE LockInv'
  BY <1>6 DEF AllocateRoom
<1>7. ASSUME NEW w \in Workers, NEW m \in toSend[w], Send(w, m) \/ SendFails(w, m)
      PROVE  LockInv'
  BY <1>7 DEF Send, SendFails
<1>8. ASSUME NEW w \in Workers, Release(w) PROVE LockInv'
  <2>1. \A x \in Workers : x # w => pc[x] = "idle"
    BY <1>8 DEF Release
  <2> QED
    BY <1>8, <2>1 DEF Release
<1>9. ASSUME NEW w \in Workers, RunFails(w) \/ WorkerCrash(w) PROVE LockInv'
  BY <1>9 DEF RunFails, WorkerCrash
<1>10. CASE LockExpires
  <2>1. \A x \in Workers : pc[x] = "idle"
    BY <1>10 DEF LockExpires
  <2> QED
    BY <1>10, <2>1 DEF LockExpires
<1>11. CASE UNCHANGED vars
  BY <1>11 DEF vars
<1> QED
  BY <1>1, <1>2, <1>3, <1>4, <1>5, <1>6, <1>7, <1>8, <1>9, <1>10, <1>11
     DEF Next, Runs

\* While no run outlives the time to live of the key, no two workers run the
\* matching at the same time, whatever crashes.
THEOREM MutualExclusion ==
  ASSUME ~RunsOutliveTtl
  PROVE  Spec => []OneRunAtATime
<1>1. Init => LockInv
  BY DEF Init, LockInv, InRun
<1>2. TypeOK /\ LockInv /\ [Next]_vars => LockInv'
  BY LockStep
<1>3. LockInv => OneRunAtATime
  BY DEF LockInv, OneRunAtATime
<1> QED
  BY <1>1, <1>2, <1>3, TypeCorrect, PTL DEF Spec

-----------------------------------------------------------------------------
(* Room ids                                                                *)

\* The counter is never behind an id it has given out.
RoomInv == RoomsAreUnique /\ \A a \in rooms : a[1] <= lastRoomId

LEMMA RoomStep == TypeOK /\ RoomInv /\ [Next]_vars => RoomInv'
<1> SUFFICES ASSUME TypeOK, RoomInv, [Next]_vars PROVE RoomInv'
  OBVIOUS
<1>1. CASE UNCHANGED <<lastRoomId, rooms>>
  BY <1>1 DEF RoomInv, RoomsAreUnique
<1>2. ASSUME NEW w \in Workers, FormGroups(w) PROVE RoomInv'
  BY <1>2 DEF FormGroups, RoomInv, RoomsAreUnique, TypeOK, histVars
<1>3. ASSUME NEW w \in Workers, NEW g \in groups[w], AllocateRoom(w, g)
      PROVE  RoomInv'
  <2> DEFINE new == <<lastRoomId', g>>
  <2>1. rooms' = rooms \cup {new} /\ lastRoomId' = lastRoomId + 1 /\ lastRoomId \in Nat
    BY <1>3 DEF AllocateRoom, TypeOK
  <2>2. \A a \in rooms : a[1] \in Nat /\ a[1] <= lastRoomId
    BY DEF RoomInv, TypeOK
  <2>3. new[1] = lastRoomId + 1
    BY <2>1
  <2>4. \A a, b \in rooms : a[1] = b[1] => a = b
    BY DEF RoomInv, RoomsAreUnique
  <2> HIDE DEF new
  <2> QED
    BY <2>1, <2>2, <2>3, <2>4 DEF RoomInv, RoomsAreUnique
<1>4. ASSUME NEW c \in Conns,
             \/ Open(c) \/ Refuse(c) \/ ConnectFails(c) \/ Connects(c) \/ Deliver(c)
             \/ Discard(c) \/ Disconnects(c) \/ DisconnectFails(c)
      PROVE  UNCHANGED <<lastRoomId, rooms>>
  BY <1>4, ConnSteps
<1>5. CASE ServerCrash \/ BuildIndex \/ LockExpires \/ UNCHANGED vars
  BY <1>1, <1>5 DEF ServerCrash, BuildIndex, LockExpires, vars, histVars
<1>6. ASSUME NEW w \in Workers,
             \/ TryLock(w) \/ Snapshot(w) \/ RoomsDone(w) \/ RemoveMatched(w)
             \/ Release(w) \/ RunFails(w) \/ WorkerCrash(w)
             \/ \E m \in toSend[w] : Send(w, m) \/ SendFails(w, m)
      PROVE  UNCHANGED <<lastRoomId, rooms>>
  BY <1>6 DEF TryLock, Snapshot, RoomsDone, RemoveMatched, Release, RunFails,
     WorkerCrash, Send, SendFails, histVars
<1> QED
  BY <1>1, <1>2, <1>3, <1>4, <1>5, <1>6 DEF Next, Runs

\* No two groups get the same room, even when runs overlap: only the INCR of
\* Redis counts, not the lock.
THEOREM UniqueRooms == Spec => []RoomsAreUnique
<1>1. Init => RoomInv
  BY DEF Init, RoomInv, RoomsAreUnique
<1>2. RoomInv => RoomsAreUnique
  BY DEF RoomInv
<1> QED
  BY <1>1, <1>2, RoomStep, TypeCorrect, PTL DEF Spec

-----------------------------------------------------------------------------
(* Ghosts                                                                  *)

\* A user of the queue who is no ghost of a failure has a socket.
Kept(u) == u \in dropped \/ \E c \in Conns : Owner(c) = u /\ Present(c)

\* The steps of a socket that leave a user of the queue with a socket.
LEMMA GhostConnStep ==
  ASSUME TypeOK, NoGhostInQueue, NEW u \in queue', NEW c \in Conns,
         \/ Open(c) \/ Refuse(c) \/ Connects(c) \/ Deliver(c) \/ ConnectFails(c)
         \/ Discard(c) \/ Disconnects(c) \/ DisconnectFails(c)
  PROVE  Kept(u)'
<1> USE DEF TypeOK, Goto, Present, Kept, histVars, Owner
<1>1. CASE Sadd(c) /\ u = Owner(c)
  BY <1>1 DEF Sadd
<1>2. CASE ~(Sadd(c) /\ u = Owner(c))
  <2>1. u \in queue
    BY <1>2 DEF Open, Refuse, Connects, Authenticate, Sadd, GroupAdd, Accept,
       Deliver, ConnectFails, Discard, Disconnects, CheckQueue, Srem, DisconnectFails
  <2>2. CASE u \in dropped
    <3>1. ~Srem(c) \/ Owner(c) # u
      BY DEF Srem
    <3> QED
      BY <2>2, <3>1 DEF Open, Refuse, Connects, Authenticate, Sadd, GroupAdd, Accept,
         Deliver, ConnectFails, Discard, Disconnects, CheckQueue, Srem, DisconnectFails
  <2>3. CASE \E d \in Conns : Owner(d) = u /\ Present(d)
    <3>1. PICK d \in Conns : Owner(d) = u /\ Present(d)
      BY <2>3
    <3>2. CASE Open(c) \/ Refuse(c) \/ Connects(c)
      BY <3>1, <3>2 DEF Open, Refuse, Connects, Authenticate, Sadd, GroupAdd, Accept
    <3>3. CASE Deliver(c) \/ Discard(c) \/ ConnectFails(c)
      BY <3>1, <3>3 DEF Deliver, Discard, ConnectFails
    <3>4. CASE CheckQueue(c)
      <4>1. queue # {}
        BY <2>1
      <4> QED
        BY <3>1, <3>4, <4>1 DEF CheckQueue
    <3>5. CASE Srem(c)
      <4>1. d # c
        BY <3>1, <3>5 DEF Srem
      <4> QED
        BY <3>1, <3>5, <4>1 DEF Srem
    <3>6. CASE DisconnectFails(c)
      <4>1. d = c => u \in dropped'
        BY <2>1, <3>1, <3>6 DEF DisconnectFails
      <4> QED
        BY <3>1, <3>6, <4>1 DEF DisconnectFails
    <3> QED
      BY <3>2, <3>3, <3>4, <3>5, <3>6 DEF Disconnects
  <2> QED
    BY <2>1, <2>2, <2>3 DEF NoGhostInQueue
<1> QED
  BY <1>1, <1>2

LEMMA GhostStep == TypeOK /\ NoGhostInQueue /\ [Next]_vars => NoGhostInQueue'
<1> SUFFICES ASSUME TypeOK, NoGhostInQueue, [Next]_vars, NEW u \in queue'
             PROVE  Kept(u)'
  BY DEF NoGhostInQueue, Kept, Owner
<1>1. ASSUME UNCHANGED <<phase, dropped>>, u \in queue PROVE Kept(u)'
  BY <1>1 DEF NoGhostInQueue, Kept, Present
<1>2. ASSUME NEW c \in Conns,
             \/ Open(c) \/ Refuse(c) \/ Connects(c) \/ Deliver(c) \/ ConnectFails(c)
             \/ Discard(c) \/ Disconnects(c) \/ DisconnectFails(c)
      PROVE  Kept(u)'
  BY <1>2, GhostConnStep
<1>3. CASE ServerCrash
  BY <1>3 DEF ServerCrash, Kept
<1>4. CASE BuildIndex \/ LockExpires \/ UNCHANGED vars
  <2>1. UNCHANGED <<queue, phase, dropped>>
    BY <1>4 DEF BuildIndex, LockExpires, vars, connVars, histVars
  <2> QED
    BY <1>1, <2>1
<1>5. ASSUME NEW w \in Workers, RemoveMatched(w) PROVE Kept(u)'
  <2>1. UNCHANGED phase /\ u \in queue /\ u \notin sent[w]
    BY <1>5 DEF RemoveMatched, connVars
  <2>2. u \in dropped => u \in dropped'
    BY <1>5, <2>1 DEF RemoveMatched
  <2> QED
    BY <2>1, <2>2 DEF NoGhostInQueue, Kept, Present
<1>6. ASSUME NEW w \in Workers,
             \/ TryLock(w) \/ (Runs(w) /\ ~RemoveMatched(w))
             \/ RunFails(w) \/ WorkerCrash(w) \/ \E m \in toSend[w] : SendFails(w, m)
      PROVE  Kept(u)'
  <2>1. UNCHANGED <<queue, phase, dropped>>
    BY <1>6 DEF TryLock, Runs, Snapshot, FormGroups, AllocateRoom, RoomsDone,
       Send, Release, RunFails, WorkerCrash, SendFails, connVars, histVars
  <2> QED
    BY <1>1, <2>1
<1> QED
  BY <1>2, <1>3, <1>4, <1>5, <1>6 DEF Next

\* Whoever is in the queue has a socket that will take it out again, or was left
\* there by a failure, whatever tabs a user opens and in whatever order they close.
THEOREM NoGhosts == Spec => []NoGhostInQueue
<1>1. Init => NoGhostInQueue
  BY DEF Init, NoGhostInQueue
<1> QED
  BY <1>1, GhostStep, TypeCorrect, PTL DEF Spec
=============================================================================
