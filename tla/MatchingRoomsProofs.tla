------------------------ MODULE MatchingRoomsProofs ------------------------
(***************************************************************************)
(* What a socket is told, for every set of users, sockets and workers.     *)
(*                                                                         *)
(* Who is stranded was lost to a race, and who is told a room belongs to   *)
(* it: both hold whatever fails, crashes or overlaps.  That a user who has *)
(* one socket at a time is told one room needs that no call fails and that *)
(* no run outlives the lock.                                               *)
(***************************************************************************)
EXTENDS MatchingServiceProofs

-----------------------------------------------------------------------------
(* Who waits in no queue                                                   *)

Heard(c) == inbox[c] # <<>> \/ received[c] # <<>>

\* Who has joined is in the queue, was told a room or lost its place to a race.
\* A run that sends takes out of the queue only whom it has told.
Hearing ==
  /\ \A w \in Workers : pc[w] \in {"idle", "read", "group", "rooms"} => sent[w] = {}
  /\ \A c \in Conns : phase[c] \in {"accept", "open"} => c \in subs
  /\ \A c \in Conns : Joined(c) =>
       /\ Owner(c) \in queue \/ Heard(c) \/ c \in missed
       /\ \A w \in Workers :
            pc[w] = "send" /\ Owner(c) \in sent[w] => Heard(c) \/ c \in missed

\* Sequences that grow are not empty, and what a handler takes from the inbox is told.
LEMMA Grows == \A q \in Seq(Nat), n \in Nat : Append(q, n) # <<>>
BY AppendProperties

LEMMA HearingConnStep ==
  ASSUME TypeOK, Hearing, NEW c \in Conns,
         \/ Open(c) \/ Refuse(c) \/ ConnectFails(c) \/ Connects(c) \/ Deliver(c)
         \/ Discard(c) \/ Disconnects(c) \/ DisconnectFails(c)
  PROVE  Hearing'
<1> USE DEF Hearing, Joined, Goto
<1>1. UNCHANGED <<pc, sent>>
  BY DEF Open, Refuse, ConnectFails, Connects, Authenticate, Sadd, GroupAdd, Accept,
         Deliver, Discard, Disconnects, CheckQueue, Srem, DisconnectFails, workerVars
<1>2. CASE Open(c) \/ Refuse(c) \/ Authenticate(c) \/ ConnectFails(c) \/ CheckQueue(c)
           \/ Accept(c)
  <2>1. /\ UNCHANGED <<queue, subs, inbox, received, missed>>
        /\ \A d \in Conns : d # c => phase'[d] = phase[d]
        /\ \/ phase'[c] \in {"auth", "closed", "sadd", "closing", "leaving"}
           \/ phase[c] = "accept" /\ phase'[c] = "open"
    BY <1>2 DEF Open, Refuse, Authenticate, ConnectFails, CheckQueue, Accept, TypeOK, histVars
  <2> QED
    BY <1>1, <2>1 DEF Heard
<1>3. CASE Sadd(c)
  <2>1. /\ queue' = queue \cup {Owner(c)} /\ UNCHANGED <<subs, inbox, received>>
        /\ missed' = IF Matched(Owner(c)) THEN missed \cup {c} ELSE missed
        /\ \A d \in Conns : d # c => phase'[d] = phase[d]
        /\ phase'[c] = "subscribe"
    BY <1>3 DEF Sadd, TypeOK
  <2>2. \A w \in Workers : pc[w] = "send" /\ Owner(c) \in sent[w] => c \in missed'
    BY <2>1 DEF Matched
  <2>3. \A d \in Conns : d # c => (Joined(d)' <=> Joined(d)) /\ (Heard(d)' <=> Heard(d))
    BY <2>1 DEF Heard
  <2> QED
    BY <1>1, <2>1, <2>2, <2>3
<1>4. CASE GroupAdd(c)
  <2>1. /\ UNCHANGED <<queue, inbox, received, missed>> /\ subs' = subs \cup {c}
        /\ \A d \in Conns : d # c => phase'[d] = phase[d]
        /\ phase[c] = "subscribe" /\ phase'[c] = "accept"
    BY <1>4 DEF GroupAdd, TypeOK, histVars
  <2> QED
    BY <1>1, <2>1 DEF Heard
<1>5. CASE Deliver(c)
  <2>1. /\ UNCHANGED <<queue, subs, missed, phase>>
        /\ \A d \in Conns : d # c => inbox'[d] = inbox[d] /\ received'[d] = received[d]
        /\ received'[c] = Append(received[c], Head(inbox[c]))
    BY <1>5 DEF Deliver, TypeOK, histVars
  <2>2. Head(inbox[c]) \in Nat /\ received[c] \in Seq(Nat)
    BY <1>5, HeadTailProperties DEF Deliver, TypeOK
  <2>3. received'[c] # <<>>
    BY <2>1, <2>2, Grows
  <2> QED
    BY <1>1, <2>1, <2>3 DEF Heard
<1>6. CASE Discard(c) \/ DisconnectFails(c)
  <2>1. /\ UNCHANGED <<queue, received, missed>> /\ subs \subseteq subs' \cup {c}
        /\ \A d \in Conns : d # c => phase'[d] = phase[d] /\ inbox'[d] = inbox[d]
        /\ phase'[c] \in {"discarded", "closed"}
    BY <1>6 DEF Discard, DisconnectFails, TypeOK, histVars
  <2> QED
    BY <1>1, <2>1 DEF Heard
<1>7. CASE Srem(c)
  <2>1. /\ queue' = queue \ {Owner(c)} /\ UNCHANGED <<subs, inbox, received>>
        /\ missed' = missed \cup {d \in Conns : Owner(d) = Owner(c) /\ Joined(d)}
        /\ \A d \in Conns : d # c => phase'[d] = phase[d]
        /\ phase'[c] = "closed"
    BY <1>7 DEF Srem, TypeOK
  <2>2. \A d \in Conns : d # c => (Joined(d)' <=> Joined(d)) /\ (Heard(d)' <=> Heard(d))
    BY <2>1 DEF Heard
  <2>3. \A d \in Conns : d # c /\ Joined(d) => Owner(d) \in queue' \/ Heard(d) \/ d \in missed'
    BY <2>1
  <2> QED
    BY <1>1, <2>1, <2>2, <2>3
<1> QED
  BY <1>2, <1>3, <1>4, <1>5, <1>6, <1>7 DEF Connects, Disconnects

LEMMA HearingRunStep ==
  ASSUME TypeOK, Hearing, NEW w \in Workers,
         TryLock(w) \/ Runs(w) \/ RunFails(w) \/ WorkerCrash(w)
           \/ \E m \in toSend[w] : SendFails(w, m)
  PROVE  Hearing'
<1> USE DEF Hearing, Joined, Advance
<1>1. CASE TryLock(w) \/ Snapshot(w) \/ FormGroups(w) \/ RoomsDone(w) \/ Release(w)
           \/ RunFails(w) \/ WorkerCrash(w) \/ (\E g \in groups[w] : AllocateRoom(w, g))
           \/ (\E m \in toSend[w] : SendFails(w, m))
  <2>1. /\ UNCHANGED <<queue, subs, inbox, received, phase, missed>>
        /\ \A x \in Workers : x # w => pc'[x] = pc[x] /\ sent'[x] = sent[x]
    BY <1>1 DEF TryLock, Snapshot, FormGroups, RoomsDone, Release, RunFails, WorkerCrash,
       AllocateRoom, SendFails, Forget, connVars, histVars, TypeOK
  <2>2. \/ sent'[w] = {}
        \/ sent'[w] = sent[w] /\ pc'[w] \in {"read", "group", "rooms"}
             /\ pc[w] \in {"idle", "read", "group", "rooms"}
        \/ sent'[w] = sent[w] /\ pc'[w] = "send" /\ pc[w] \in {"rooms", "send"}
        \/ sent'[w] = sent[w] /\ pc'[w] = "release"
    BY <1>1 DEF TryLock, Snapshot, FormGroups, RoomsDone, Release, RunFails, WorkerCrash,
       AllocateRoom, SendFails, Forget, connVars, histVars, TypeOK
  <2>3. /\ pc'[w] \in {"idle", "read", "group", "rooms"} => sent'[w] = {}
        /\ pc'[w] = "send" => sent'[w] = {} \/ (sent'[w] = sent[w] /\ pc[w] = "send")
    BY <2>2
  <2> QED
    BY <2>1, <2>3 DEF Heard
<1>2. ASSUME NEW m \in toSend[w], Send(w, m) PROVE Hearing'
  <2>1. /\ UNCHANGED <<queue, subs, received, phase, pc>> /\ pc[w] = "send"
        /\ sent'[w] = sent[w] \cup {m[2]}
        /\ \A x \in Workers : x # w => sent'[x] = sent[x]
        /\ missed' = missed \cup {c \in Conns : Owner(c) = m[2] /\ phase[c] = "subscribe"}
        /\ \A c \in Conns : inbox'[c] = IF c \in Reached(m[2]) THEN Append(inbox[c], m[1])
                                                               ELSE inbox[c]
    BY <1>2 DEF Send, NextToSend, TypeOK
  <2>2. m[1] \in Nat
    BY DEF TypeOK
  <2>3. \A c \in Reached(m[2]) : inbox'[c] # <<>>
    <3> SUFFICES ASSUME NEW c \in Reached(m[2]) PROVE inbox'[c] # <<>>
      OBVIOUS
    <3>1. c \in Conns /\ inbox[c] \in Seq(Nat)
      BY DEF Reached, TypeOK
    <3> QED
      BY <2>1, <2>2, <3>1, Grows
  <2>4. \A c \in Conns : Heard(c) => Heard(c)'
    BY <2>1, <2>3 DEF Heard
  <2>5. \A c \in Conns : Joined(c) /\ Owner(c) = m[2] => Heard(c)' \/ c \in missed'
    BY <2>1, <2>3 DEF Heard, Reached
  <2> QED
    BY <2>1, <2>4, <2>5
<1>3. CASE RemoveMatched(w)
  <2>1. /\ UNCHANGED <<subs, inbox, received, phase, missed, sent>>
        /\ pc[w] = "send" /\ pc'[w] = "release" /\ queue' = queue \ sent[w]
        /\ \A x \in Workers : x # w => pc'[x] = pc[x]
    BY <1>3 DEF RemoveMatched, connVars, histVars, TypeOK
  <2> QED
    BY <2>1 DEF Heard
<1> QED
  BY <1>1, <1>2, <1>3 DEF Runs

\* Nothing at all is assumed: calls may fail, processes crash, runs overlap, users
\* have any number of sockets.
THEOREM OnlyRacesLeaveWaiting == Spec => []OnlyRacesStrand
<1>1. Init => Hearing
  BY DEF Init, Hearing, Joined
<1>2. TypeOK /\ Hearing /\ [Next]_vars => Hearing'
  <2> SUFFICES ASSUME TypeOK, Hearing, [Next]_vars PROVE Hearing'
    OBVIOUS
  <2>1. CASE ServerCrash
    <3>1. UNCHANGED <<pc, sent>> /\ \A c \in Conns : phase'[c] \in {"none", "closed"}
      BY <2>1 DEF ServerCrash, workerVars
    <3> QED
      BY <3>1 DEF Hearing, Joined
  <2>2. CASE BuildIndex \/ LockExpires \/ UNCHANGED vars
    BY <2>2 DEF BuildIndex, LockExpires, vars, connVars, workerVars, histVars, Hearing,
       Joined, Heard
  <2> QED
    BY <2>1, <2>2, HearingConnStep, HearingRunStep DEF Next
<1>3. Hearing => OnlyRacesStrand
  BY DEF Hearing, Heard, Joined, OnlyRacesStrand, Stranded
<1> QED
  BY <1>1, <1>2, <1>3, TypeCorrect, PTL DEF Spec

-----------------------------------------------------------------------------
(* Who is told a room                                                      *)

\* Some room r was handed out to a group that u is in.
Given(r, u) == \E a \in rooms : a[1] = r /\ u \in a[2]

\* No group is larger than a room, and what is sent and told was handed out.
HandedOut ==
  /\ \A w \in Workers : \A g \in groups[w] : Cardinality(g) <= MaxRoom
  /\ \A a \in rooms : Cardinality(a[2]) <= MaxRoom
  /\ \A w \in Workers : \A m \in toSend[w] : Given(m[1], m[2])
  /\ \A c \in Conns : \A r \in RoomsTold(c) : Given(r, Owner(c))

Elements(q) == {q[i] : i \in DOMAIN q}

\* What a queue of messages holds when one is added, taken or all are dropped.
LEMMA ElementsOf ==
  /\ Elements(<<>>) = {}
  /\ \A q \in Seq(Nat), n \in Nat : Elements(Append(q, n)) = Elements(q) \cup {n}
  /\ \A q \in Seq(Nat) :
       q # <<>> => Head(q) \in Elements(q) /\ Elements(Tail(q)) \subseteq Elements(q)
<1>1. Elements(<<>>) = {}
  BY EmptySeq, LenProperties DEF Elements
<1>2. ASSUME NEW q \in Seq(Nat), NEW n \in Nat
      PROVE  Elements(Append(q, n)) = Elements(q) \cup {n}
  <2>1. /\ Append(q, n) \in Seq(Nat) /\ Len(Append(q, n)) = Len(q) + 1
        /\ \A i \in 1..Len(q) : Append(q, n)[i] = q[i]
        /\ Append(q, n)[Len(q) + 1] = n
    BY AppendProperties
  <2>2. /\ Len(q) \in Nat /\ DOMAIN q = 1..Len(q)
        /\ DOMAIN Append(q, n) = 1..(Len(q) + 1)
    BY <2>1, LenProperties
  <2>3. 1..(Len(q) + 1) = 1..Len(q) \cup {Len(q) + 1}
    BY <2>2
  <2> QED
    BY <2>1, <2>2, <2>3 DEF Elements
<1>3. ASSUME NEW q \in Seq(Nat), q # <<>>
      PROVE  Head(q) \in Elements(q) /\ Elements(Tail(q)) \subseteq Elements(q)
  <2>1. /\ Tail(q) \in Seq(Nat) /\ Len(Tail(q)) = Len(q) - 1
        /\ \A i \in 1..Len(Tail(q)) : Tail(q)[i] = q[i + 1]
    BY <1>3, HeadTailProperties
  <2>2. Len(q) \in Nat \ {0} /\ DOMAIN q = 1..Len(q) /\ DOMAIN Tail(q) = 1..(Len(q) - 1)
    BY <1>3, <2>1, EmptySeq, LenProperties
  <2>3. Head(q) = q[1]
    OBVIOUS
  <2>4. \A i \in 1..(Len(q) - 1) : i + 1 \in 1..Len(q)
    BY <2>2
  <2> QED
    BY <2>1, <2>2, <2>3, <2>4 DEF Elements
<1> QED
  BY <1>1, <1>2, <1>3

\* No step of a socket makes it a room it was not told before.
LEMMA ConnTellsNothing ==
  ASSUME TypeOK, NEW c \in Conns,
         \/ Open(c) \/ Refuse(c) \/ ConnectFails(c) \/ Connects(c) \/ Deliver(c)
         \/ Discard(c) \/ Disconnects(c) \/ DisconnectFails(c)
  PROVE  /\ UNCHANGED <<groups, toSend, rooms>>
         /\ \A d \in Conns : RoomsTold(d)' \subseteq RoomsTold(d)
<1>1. UNCHANGED <<groups, toSend, rooms>>
  BY DEF Open, Refuse, ConnectFails, Connects, Authenticate, Sadd, GroupAdd, Accept,
         Deliver, Discard, Disconnects, CheckQueue, Srem, DisconnectFails, workerVars, histVars
<1>2. \A d \in Conns : RoomsTold(d) = Elements(inbox[d]) \cup Elements(received[d])
  BY DEF RoomsTold, Elements
<1>3. \A d \in Conns : RoomsTold(d)' = Elements(inbox'[d]) \cup Elements(received'[d])
  BY DEF RoomsTold, Elements
<1>4. CASE Deliver(c)
  <2>1. /\ inbox[c] \in Seq(Nat) /\ received[c] \in Seq(Nat) /\ inbox[c] # <<>>
        /\ inbox'[c] = Tail(inbox[c])
        /\ received'[c] = Append(received[c], Head(inbox[c]))
        /\ \A d \in Conns : d # c => inbox'[d] = inbox[d] /\ received'[d] = received[d]
    BY <1>4 DEF Deliver, TypeOK
  <2>2. Head(inbox[c]) \in Nat
    BY <2>1, HeadTailProperties
  <2>3. /\ Elements(inbox'[c]) \subseteq Elements(inbox[c])
        /\ Elements(received'[c]) \subseteq Elements(received[c]) \cup Elements(inbox[c])
    BY <2>1, <2>2, ElementsOf
  <2>4. RoomsTold(c)' \subseteq RoomsTold(c)
    BY <1>2, <1>3, <2>3
  <2>5. \A d \in Conns : d # c => RoomsTold(d)' = RoomsTold(d)
    BY <1>2, <1>3, <2>1
  <2> QED
    BY <1>1, <2>4, <2>5
<1>5. CASE Discard(c) \/ DisconnectFails(c)
  <2>1. /\ received' = received /\ inbox'[c] = <<>>
        /\ \A d \in Conns : d # c => inbox'[d] = inbox[d]
    BY <1>5 DEF Discard, DisconnectFails, TypeOK
  <2> QED
    BY <1>1, <1>2, <1>3, <2>1, ElementsOf
<1>6. CASE ~(Deliver(c) \/ Discard(c) \/ DisconnectFails(c))
  <2>1. UNCHANGED <<inbox, received>>
    BY <1>6 DEF Open, Refuse, ConnectFails, Connects, Authenticate, Sadd, GroupAdd, Accept,
       Disconnects, CheckQueue, Srem
  <2> QED
    BY <1>1, <1>2, <1>3, <2>1
<1> QED
  BY <1>4, <1>5, <1>6

\* Where nobody is told anything new, and nothing new is to be sent.
LEMMA HandedOutStays ==
  ASSUME HandedOut, rooms' = rooms,
         \A w \in Workers : groups'[w] \subseteq groups[w] /\ toSend'[w] \subseteq toSend[w],
         \A c \in Conns : RoomsTold(c)' \subseteq RoomsTold(c)
  PROVE  HandedOut'
BY DEF HandedOut, Given

LEMMA HandedOutRunStep ==
  ASSUME TypeOK, HandedOut, NEW w \in Workers,
         TryLock(w) \/ Runs(w) \/ RunFails(w) \/ WorkerCrash(w)
           \/ \E m \in toSend[w] : SendFails(w, m)
  PROVE  HandedOut'
<1>1. CASE TryLock(w) \/ Snapshot(w) \/ RoomsDone(w) \/ RemoveMatched(w) \/ Release(w)
           \/ RunFails(w) \/ WorkerCrash(w) \/ (\E m \in toSend[w] : SendFails(w, m))
  <2>1. /\ UNCHANGED <<inbox, received, rooms>>
        /\ \A x \in Workers : groups'[x] \subseteq groups[x] /\ toSend'[x] \subseteq toSend[x]
    BY <1>1 DEF TryLock, Snapshot, RoomsDone, RemoveMatched, Release, RunFails, WorkerCrash,
       SendFails, Forget, connVars, histVars, TypeOK
  <2>2. \A c \in Conns : RoomsTold(c)' = RoomsTold(c)
    BY <2>1 DEF RoomsTold
  <2> QED
    BY <2>1, <2>2, HandedOutStays
<1>2. CASE FormGroups(w)
  <2>1. PICK P : /\ \E T \in Placeable(snapshot[w], BatchSize) : P \in Outcomes(T)
                 /\ groups' = [groups EXCEPT ![w] = P]
    BY <1>2 DEF FormGroups
  <2>2. \A g \in P : Cardinality(g) \in 1..MaxRoom
    BY <2>1 DEF Outcomes
  <2>3. \A g \in P : Cardinality(g) <= MaxRoom
    BY <2>2 DEF MaxRoom
  <2>4. /\ UNCHANGED <<inbox, received, rooms, toSend>>
        /\ groups'[w] = P /\ \A x \in Workers : x # w => groups'[x] = groups[x]
    BY <1>2, <2>1 DEF FormGroups, connVars, histVars, TypeOK
  <2>5. \A c \in Conns : RoomsTold(c)' = RoomsTold(c)
    BY <2>4 DEF RoomsTold
  <2> QED
    BY <2>3, <2>4, <2>5 DEF HandedOut, Given
<1>3. ASSUME NEW g \in groups[w], AllocateRoom(w, g) PROVE HandedOut'
  <2>1. PICK r \in Nat : r = lastRoomId'
    BY <1>3 DEF AllocateRoom, TypeOK
  <2>2. /\ UNCHANGED <<inbox, received>> /\ rooms' = rooms \cup {<<r, g>>}
        /\ \A x \in Workers : groups'[x] \subseteq groups[x]
        /\ toSend'[w] = toSend[w] \cup ({r} \X g)
        /\ \A x \in Workers : x # w => toSend'[x] = toSend[x]
    BY <1>3, <2>1 DEF AllocateRoom, connVars, TypeOK
  <2>3. Cardinality(g) <= MaxRoom
    BY DEF HandedOut
  <2>4. /\ \A s, u : Given(s, u) => Given(s, u)'
        /\ \A u \in g : Given(r, u)'
    <3>1. rooms \subseteq rooms'
      BY <2>2
    <3>2. <<r, g>> \in rooms' /\ <<r, g>>[1] = r /\ <<r, g>>[2] = g
      BY <2>2
    <3> QED
      BY <3>1, <3>2 DEF Given
  <2>5. \A c \in Conns : RoomsTold(c)' = RoomsTold(c)
    BY <2>2 DEF RoomsTold
  <2>6. \A a \in rooms' : Cardinality(a[2]) <= MaxRoom
    BY <2>2, <2>3 DEF HandedOut
  <2>7. \A x \in Workers : \A m \in toSend'[x] : Given(m[1], m[2])'
    <3>1. \A m \in {r} \X g : m[1] = r /\ m[2] \in g
      OBVIOUS
    <3>2. \A x \in Workers : \A m \in toSend[x] : Given(m[1], m[2])
      BY DEF HandedOut
    <3>3. \A x \in Workers : \A m \in toSend'[x] : m \in toSend[x] \/ m \in {r} \X g
      BY <2>2
    <3> QED
      BY <2>4, <3>1, <3>2, <3>3
  <2> QED
    BY <2>2, <2>4, <2>5, <2>6, <2>7 DEF HandedOut
<1>4. ASSUME NEW m \in toSend[w], Send(w, m) PROVE HandedOut'
  <2>1. /\ UNCHANGED <<received, rooms, groups>>
        /\ \A x \in Workers : toSend'[x] \subseteq toSend[x]
        /\ \A c \in Conns : inbox'[c] = IF c \in Reached(m[2]) THEN Append(inbox[c], m[1])
                                                               ELSE inbox[c]
    BY <1>4 DEF Send, TypeOK
  <2>2. m[1] \in Nat /\ \A c \in Conns : inbox[c] \in Seq(Nat)
    BY DEF TypeOK
  <2>3. Given(m[1], m[2])
    BY DEF HandedOut
  <2>4. \A c \in Conns : \/ RoomsTold(c)' = RoomsTold(c)
                         \/ Owner(c) = m[2] /\ RoomsTold(c)' = RoomsTold(c) \cup {m[1]}
    <3> SUFFICES ASSUME NEW c \in Conns
                 PROVE  \/ RoomsTold(c)' = RoomsTold(c)
                        \/ Owner(c) = m[2] /\ RoomsTold(c)' = RoomsTold(c) \cup {m[1]}
      OBVIOUS
    <3>1. /\ RoomsTold(c) = Elements(inbox[c]) \cup Elements(received[c])
          /\ RoomsTold(c)' = Elements(inbox'[c]) \cup Elements(received[c])
      BY <2>1 DEF RoomsTold, Elements
    <3>2. Elements(Append(inbox[c], m[1])) = Elements(inbox[c]) \cup {m[1]}
      BY <2>2, ElementsOf
    <3> QED
      BY <2>1, <3>1, <3>2 DEF Reached
  <2>5. \A s, u : Given(s, u)' <=> Given(s, u)
    BY <2>1 DEF Given
  <2> QED
    BY <2>1, <2>3, <2>4, <2>5 DEF HandedOut
<1> QED
  BY <1>1, <1>2, <1>3, <1>4 DEF Runs

\* Nothing is assumed here either.  That no two groups have the same id comes from
\* RoomInv, for the invariant alone would allow a room to hold two groups.
THEOREM RoomsHold == Spec => []RoomsHoldTheirGroup
<1>1. Init => RoomInv /\ HandedOut
  <2>1. Elements(<<>>) = {}
    BY ElementsOf
  <2> QED
    BY <2>1 DEF Init, RoomInv, RoomsAreUnique, HandedOut, RoomsTold, Elements
<1>2. TypeOK /\ HandedOut /\ [Next]_vars => HandedOut'
  <2> SUFFICES ASSUME TypeOK, HandedOut, [Next]_vars PROVE HandedOut'
    OBVIOUS
  <2>1. ASSUME NEW c \in Conns,
               \/ Open(c) \/ Refuse(c) \/ ConnectFails(c) \/ Connects(c) \/ Deliver(c)
               \/ Discard(c) \/ Disconnects(c) \/ DisconnectFails(c)
        PROVE  HandedOut'
    BY <2>1, ConnTellsNothing, HandedOutStays
  <2>2. CASE ServerCrash
    <3>1. /\ UNCHANGED <<groups, toSend, rooms, received>>
          /\ \A c \in Conns : inbox'[c] = <<>>
      BY <2>2 DEF ServerCrash, workerVars, histVars
    <3>2. \A c \in Conns : RoomsTold(c)' \subseteq RoomsTold(c)
      BY <3>1, ElementsOf DEF RoomsTold, Elements
    <3> QED
      BY <3>1, <3>2, HandedOutStays
  <2>3. CASE BuildIndex \/ LockExpires \/ UNCHANGED vars
    <3>1. UNCHANGED <<groups, toSend, rooms, inbox, received>>
      BY <2>3 DEF BuildIndex, LockExpires, vars, connVars, workerVars, histVars
    <3>2. \A c \in Conns : RoomsTold(c)' = RoomsTold(c)
      BY <3>1 DEF RoomsTold
    <3> QED
      BY <3>1, <3>2, HandedOutStays
  <2> QED
    BY <2>1, <2>2, <2>3, HandedOutRunStep DEF Next
<1>3. RoomInv /\ HandedOut => RoomsHoldTheirGroup
  BY DEF RoomInv, RoomsAreUnique, HandedOut, Given, RoomsHoldTheirGroup
<1> QED
  BY <1>1, <1>2, <1>3, RoomStep, TypeCorrect, PTL DEF Spec

-----------------------------------------------------------------------------
(* How many rooms a socket is told                                         *)

(* A run has a user in its snapshot, a group, a message to send or the list of *)
(* those it has sent to; until the srem the queue still has the user, and what *)
(* keeps the next run from placing the user again is that it cannot start      *)
(* before (LockInv).                                                           *)

\* How many rooms a socket was told or is about to be told.
Told(c) == Len(inbox[c]) + Len(received[c])

Receivers(w) == {m[2] : m \in toSend[w]}

\* The users a run is still to send a room.
Pending(w) == (IF pc[w] = "group" THEN snapshot[w] ELSE {})
                \cup (UNION groups[w]) \cup Receivers(w)

\* What a run has at each stage, all of it from its snapshot.
Stage(w) ==
  /\ pc[w] \in {"idle", "read"} => snapshot[w] = {}
  /\ pc[w] \in {"idle", "read", "group"} => groups[w] = {} /\ toSend[w] = {} /\ sent[w] = {}
  /\ pc[w] \in {"send", "release"} => groups[w] = {}
  /\ pc[w] = "release" => toSend[w] = {}
  /\ Pending(w) \cup sent[w] \subseteq snapshot[w]

\* A run sends a user one room.
PlacesOnce(w) ==
  /\ \A g, h \in groups[w] : g # h => g \cap h = {}
  /\ \A g \in groups[w], m \in toSend[w] : m[2] \notin g
  /\ \A m, n \in toSend[w] : m[2] = n[2] => m = n

Runners == \A w \in Workers : Stage(w) /\ PlacesOnce(w)

\* Before its group_add nothing reaches a socket.
Unknown == \A c \in Conns :
  phase[c] \in {"none", "auth", "sadd", "subscribe"} => c \notin subs /\ Told(c) = 0

OneLive == \A c, d \in Conns :
  Owner(c) = Owner(d) /\ c # d /\ Live(c) /\ Live(d) => Owner(c) \in shared

\* Who has been told a room is in no run's hand any more, and in the queue only
\* until the srem of the run that told it.
ToldOnce == \A c \in Conns : Owner(c) \notin shared =>
  /\ Told(c) <= 1
  /\ Told(c) > 0 /\ Live(c) =>
       /\ \A w \in Workers : Owner(c) \notin Pending(w)
       /\ Owner(c) \in queue => \E w \in Workers : pc[w] = "send" /\ Owner(c) \in sent[w]

Placing == Runners /\ Unknown /\ OneLive /\ ToldOnce

\* The steps of a socket and of a run in which no call fails.
Handles(c) == Open(c) \/ Refuse(c) \/ Connects(c) \/ Deliver(c) \/ Discard(c) \/ Disconnects(c)

\* The lengths of what is on its way and what was told, as messages come, are
\* handled and dropped.
LEMMA Lengths ==
  \A q, r \in Seq(Nat) :
    /\ Len(q) + Len(r) \in Nat
    /\ Len(<<>>) + Len(r) \in 0..(Len(q) + Len(r))
    /\ q # <<>> => Len(Tail(q)) + Len(Append(r, Head(q))) = Len(q) + Len(r)
    /\ \A n \in Nat : Len(Append(q, n)) + Len(r) = Len(q) + Len(r) + 1
<1> SUFFICES ASSUME NEW q \in Seq(Nat), NEW r \in Seq(Nat)
             PROVE  /\ Len(q) + Len(r) \in Nat
                    /\ Len(<<>>) + Len(r) \in 0..(Len(q) + Len(r))
                    /\ q # <<>> => Len(Tail(q)) + Len(Append(r, Head(q))) = Len(q) + Len(r)
                    /\ \A n \in Nat : Len(Append(q, n)) + Len(r) = Len(q) + Len(r) + 1
  OBVIOUS
<1>1. Len(q) \in Nat /\ Len(r) \in Nat /\ Len(<<>>) = 0
  BY LenProperties, EmptySeq
<1>2. q # <<>> => Head(q) \in Nat /\ Len(Tail(q)) = Len(q) - 1
  BY HeadTailProperties
<1>3. \A n \in Nat : Len(Append(q, n)) = Len(q) + 1 /\ Len(Append(r, n)) = Len(r) + 1
  BY AppendProperties
<1>4. \A n \in Nat : Len(Append(q, n)) + Len(r) = Len(q) + Len(r) + 1
  BY <1>1, <1>3
<1>5. ASSUME q # <<>> PROVE Len(Tail(q)) + Len(Append(r, Head(q))) = Len(q) + Len(r)
  <2>1. Len(Append(r, Head(q))) = Len(r) + 1
    BY <1>2, <1>3, <1>5
  <2> QED
    BY <1>1, <1>2, <1>5, <2>1
<1>6. Len(q) + Len(r) \in Nat /\ Len(<<>>) + Len(r) \in 0..(Len(q) + Len(r))
  <2>1. \A a, b \in Nat : a + b \in Nat /\ 0 + b \in 0..(a + b)
    OBVIOUS
  <2> QED
    BY <1>1, <2>1
<1> QED
  BY <1>4, <1>5, <1>6

LEMMA ToldIsNat == ASSUME TypeOK, NEW c \in Conns PROVE Told(c) \in Nat
<1>1. inbox[c] \in Seq(Nat) /\ received[c] \in Seq(Nat)
  BY DEF TypeOK
<1> QED
  BY <1>1, Lengths DEF Told

\* What a message on its way becomes, a message that was told.
LEMMA ToldByDeliver ==
  ASSUME TypeOK, NEW c \in Conns, Deliver(c)
  PROVE  \A d \in Conns : Told(d)' = Told(d)
<1>1. /\ inbox[c] \in Seq(Nat) /\ received[c] \in Seq(Nat) /\ inbox[c] # <<>>
      /\ inbox'[c] = Tail(inbox[c])
      /\ received'[c] = Append(received[c], Head(inbox[c]))
  BY DEF TypeOK, Deliver
<1>2. Told(c)' = Told(c)
  BY <1>1, Lengths DEF Told
<1>3. ASSUME NEW d \in Conns, d # c PROVE Told(d)' = Told(d)
  BY <1>3 DEF Told, Deliver, TypeOK
<1> QED
  BY <1>2, <1>3

LEMMA ToldByDiscard ==
  ASSUME TypeOK, NEW c \in Conns, Discard(c)
  PROVE  Told(c)' \in 0..Told(c) /\ \A d \in Conns : d # c => Told(d)' = Told(d)
<1>1. /\ inbox[c] \in Seq(Nat) /\ received[c] \in Seq(Nat)
      /\ inbox'[c] = <<>> /\ received'[c] = received[c]
  BY DEF TypeOK, Discard
<1>2. Told(c)' \in 0..Told(c)
  BY <1>1, Lengths DEF Told
<1>3. ASSUME NEW d \in Conns, d # c PROVE Told(d)' = Told(d)
  BY <1>3 DEF Told, Discard, TypeOK
<1> QED
  BY <1>2, <1>3

\* No step of a socket moves a user within a run.
LEMMA HandlesRuns ==
  ASSUME NEW c \in Conns, Handles(c)
  PROVE  /\ UNCHANGED <<pc, sent>>
         /\ \A w \in Workers : Pending(w)' = Pending(w)
         /\ Runners => Runners'
<1>1. UNCHANGED <<pc, snapshot, groups, toSend, sent>>
  BY DEF Handles, Open, Refuse, Connects, Authenticate, Sadd, GroupAdd, Accept, Deliver,
         Discard, Disconnects, CheckQueue, Srem, workerVars
<1>2. \A w \in Workers : Pending(w)' = Pending(w)
  BY <1>1 DEF Pending, Receivers
<1>3. Runners => Runners'
  BY <1>1, <1>2 DEF Runners, Stage, PlacesOnce
<1> QED
  BY <1>1, <1>2, <1>3

\* A second socket of a user makes the user shared, no other step a socket live.
LEMMA HandlesLive ==
  ASSUME TypeOK, OneLive, NEW c \in Conns, Handles(c)
  PROVE  /\ shared \subseteq shared' /\ OneLive'
         /\ \A d \in Conns : d # c => phase'[d] = phase[d]
<1>1. /\ shared \subseteq shared'
      /\ \A d \in Conns : d # c => phase'[d] = phase[d]
  BY DEF Handles, Open, Refuse, Connects, Authenticate, Sadd, GroupAdd, Accept, Deliver,
         Discard, Disconnects, CheckQueue, Srem, Goto, histVars, TypeOK
<1>2. CASE Open(c)
  <2>1. \A d \in Conns : Owner(d) = Owner(c) /\ Live(d) => Owner(c) \in shared'
    BY <1>2 DEF Open
  <2> QED
    BY <1>1, <2>1 DEF OneLive, Live
<1>3. CASE ~Open(c)
  <2>1. phase'[c] # phase[c] => Live(c)
    BY <1>3 DEF Handles, Refuse, Connects, Authenticate, Sadd, GroupAdd, Accept, Deliver,
       Discard, Disconnects, CheckQueue, Srem, Goto, Live
  <2>2. \A d \in Conns : Live(d)' => Live(d)
    BY <1>1, <2>1 DEF Live
  <2> QED
    BY <1>1, <2>2 DEF OneLive
<1> QED
  BY <1>1, <1>2, <1>3

\* The steps of a socket keep the invariant: the only one that puts a user into the
\* queue is that of a socket nothing has reached.
LEMMA HandlesStep ==
  ASSUME TypeOK, Placing, NEW c \in Conns, Handles(c)
  PROVE  Placing'
<1> USE DEF Goto, Live
<1>1. /\ UNCHANGED <<pc, sent>>
      /\ \A w \in Workers : Pending(w)' = Pending(w)
      /\ Runners'
  BY HandlesRuns DEF Placing
<1>2. /\ shared \subseteq shared' /\ OneLive'
      /\ \A d \in Conns : d # c => phase'[d] = phase[d]
  BY HandlesLive DEF Placing
<1>3. \A d \in Conns : Told(d) \in Nat
  BY ToldIsNat
<1>4. CASE Open(c) \/ Refuse(c) \/ Authenticate(c) \/ GroupAdd(c) \/ Accept(c)
           \/ CheckQueue(c)
  <2>1. /\ queue' = queue /\ subs \subseteq subs' /\ subs' \subseteq subs \cup {c}
        /\ \/ phase[c] \in {"none", "auth"} /\ subs' = subs
           \/ phase[c] \in {"subscribe", "accept", "discarded"}
                /\ phase'[c] \in {"accept", "open", "closed", "leaving"}
    BY <1>4 DEF Open, Refuse, Authenticate, GroupAdd, Accept, CheckQueue, TypeOK
  <2>2. \A d \in Conns : Told(d)' = Told(d)
    BY <1>4 DEF Told, Open, Refuse, Authenticate, GroupAdd, Accept, CheckQueue
  <2>3. Unknown'
    BY <1>1, <1>2, <2>1, <2>2 DEF Unknown, Placing
  <2>4. Told(c)' > 0 => Live(c)
    BY <1>3, <2>1, <2>2 DEF Unknown, Placing
  <2>5. ToldOnce'
    BY <1>1, <1>2, <2>1, <2>2, <2>4 DEF ToldOnce, Placing
  <2> QED
    BY <1>1, <1>2, <2>3, <2>5 DEF Placing
<1>5. CASE Sadd(c)
  <2>1. /\ queue' = queue \cup {Owner(c)} /\ subs' = subs
        /\ phase[c] = "sadd" /\ phase'[c] = "subscribe"
    BY <1>5 DEF Sadd, TypeOK
  <2>2. \A d \in Conns : Told(d)' = Told(d)
    BY <1>5 DEF Told, Sadd
  <2>3. Unknown'
    BY <1>1, <1>2, <2>1, <2>2 DEF Unknown, Placing
  <2>4. \A d \in Conns : Owner(d) = Owner(c) /\ Live(d) /\ Told(d) > 0
                           => Owner(d) \in shared
    BY <2>1 DEF Unknown, OneLive, Placing
  <2>5. ToldOnce'
    BY <1>1, <1>2, <2>1, <2>2, <2>4 DEF ToldOnce, Placing
  <2> QED
    BY <1>1, <1>2, <2>3, <2>5 DEF Placing
<1>6. CASE Deliver(c)
  <2>1. UNCHANGED <<queue, subs, phase>>
    BY <1>6 DEF Deliver
  <2>2. \A d \in Conns : Told(d)' = Told(d)
    BY <1>6, ToldByDeliver
  <2>3. Unknown' /\ ToldOnce'
    BY <1>1, <1>2, <2>1, <2>2 DEF Unknown, ToldOnce, Placing
  <2> QED
    BY <1>1, <1>2, <2>3 DEF Placing
<1>7. CASE Discard(c)
  <2>1. /\ queue' = queue /\ subs' = subs \ {c}
        /\ phase[c] \notin {"none", "closed"} /\ phase'[c] = "discarded"
    BY <1>7 DEF Discard, TypeOK
  <2>2. Told(c)' \in 0..Told(c) /\ \A d \in Conns : d # c => Told(d)' = Told(d)
    BY <1>7, ToldByDiscard
  <2>3. Unknown'
    BY <1>1, <1>2, <2>1, <2>2 DEF Unknown, Placing
  <2>4. ToldOnce'
    BY <1>1, <1>2, <1>3, <2>1, <2>2 DEF ToldOnce, Placing
  <2> QED
    BY <1>1, <1>2, <2>3, <2>4 DEF Placing
<1>8. CASE Srem(c)
  <2>1. /\ queue' = queue \ {Owner(c)} /\ subs' = subs
        /\ phase[c] = "leaving" /\ phase'[c] = "closed"
    BY <1>8 DEF Srem, TypeOK
  <2>2. \A d \in Conns : Told(d)' = Told(d)
    BY <1>8 DEF Told, Srem
  <2>3. Unknown'
    BY <1>1, <1>2, <2>1, <2>2 DEF Unknown, Placing
  <2>4. ToldOnce'
    BY <1>1, <1>2, <2>1, <2>2 DEF ToldOnce, Placing
  <2> QED
    BY <1>1, <1>2, <2>3, <2>4 DEF Placing
<1> QED
  BY <1>4, <1>5, <1>6, <1>7, <1>8 DEF Handles, Connects, Disconnects

-----------------------------------------------------------------------------
(* Runs                                                                    *)

\* A step of one run leaves the others as they are, and they are idle.
LEMMA OthersIdle ==
  ASSUME TypeOK, LockInv, Placing, NEW w \in Workers, lock = w
  PROVE  \A x \in Workers : x # w => pc[x] = "idle" /\ Pending(x) = {} /\ sent[x] = {}
<1> SUFFICES ASSUME NEW x \in Workers, x # w
             PROVE  pc[x] = "idle" /\ Pending(x) = {} /\ sent[x] = {}
  OBVIOUS
<1>1. pc[x] = "idle"
  BY DEF LockInv, InRun
<1>2. groups[x] = {} /\ toSend[x] = {} /\ sent[x] = {}
  BY <1>1 DEF Placing, Runners, Stage
<1> QED
  BY <1>1, <1>2 DEF Pending, Receivers

\* A step of one run moves nothing in the others.
LEMMA OthersStay ==
  ASSUME Placing, NEW w \in Workers,
         \A x \in Workers : x # w => /\ pc'[x] = pc[x] /\ snapshot'[x] = snapshot[x]
                                    /\ groups'[x] = groups[x] /\ toSend'[x] = toSend[x]
                                    /\ sent'[x] = sent[x],
         Stage(w)', PlacesOnce(w)'
  PROVE  Runners' /\ \A x \in Workers : x # w => Pending(x)' = Pending(x)
<1>1. \A x \in Workers : x # w => Pending(x)' = Pending(x)
  BY DEF Pending, Receivers
<1>2. ASSUME NEW x \in Workers, x # w PROVE Stage(x)' /\ PlacesOnce(x)'
  <2>1. Stage(x) /\ PlacesOnce(x)
    BY DEF Placing, Runners
  <2> QED
    BY <1>1, <1>2, <2>1 DEF Stage, PlacesOnce
<1> QED
  BY <1>1, <1>2 DEF Runners

\* The steps of a run before it sends take nobody in and tell nobody anything.
LEMMA QuietStep ==
  ASSUME Placing, NEW w \in Workers, Stage(w)', PlacesOnce(w)',
         UNCHANGED <<queue, subs, inbox, received, phase, shared, snapshot, sent>>,
         \A x \in Workers : x # w => /\ pc'[x] = pc[x] /\ groups'[x] = groups[x]
                                    /\ toSend'[x] = toSend[x],
         pc[w] # "send", Pending(w)' \subseteq Pending(w)
  PROVE  Placing'
<1>1. Runners' /\ \A x \in Workers : x # w => Pending(x)' = Pending(x)
  BY OthersStay
<1>2. \A c \in Conns : Told(c)' = Told(c)
  BY DEF Told
<1>3. Unknown' /\ OneLive'
  BY <1>2 DEF Placing, Unknown, OneLive, Live
<1>4. ToldOnce'
  <2> SUFFICES ASSUME NEW c \in Conns, Owner(c) \notin shared
               PROVE  /\ Told(c) <= 1
                      /\ Told(c) > 0 /\ Live(c) =>
                           /\ \A x \in Workers : Owner(c) \notin Pending(x)'
                           /\ Owner(c) \in queue =>
                                \E x \in Workers : pc'[x] = "send" /\ Owner(c) \in sent[x]
    BY <1>2 DEF ToldOnce, Live, Owner
  <2>1. \A x \in Workers : Pending(x)' \subseteq Pending(x)
    BY <1>1
  <2>2. \A x \in Workers : pc[x] = "send" => pc'[x] = "send"
    OBVIOUS
  <2> QED
    BY <2>1, <2>2 DEF Placing, ToldOnce, Live
<1> QED
  BY <1>1, <1>3, <1>4 DEF Placing

LEMMA TryLockStep ==
  ASSUME TypeOK, Placing, NEW w \in Workers, TryLock(w)
  PROVE  Placing'
<1>1. /\ UNCHANGED <<queue, subs, inbox, received, phase, shared, snapshot, groups,
                  toSend, sent>>
      /\ pc[w] = "idle" /\ pc'[w] = "read" /\ \A x \in Workers : x # w => pc'[x] = pc[x]
  BY DEF TryLock, Advance, connVars, histVars, TypeOK
<1>2. Pending(w)' = Pending(w)
  BY <1>1 DEF Pending, Receivers
<1>3. Stage(w) /\ PlacesOnce(w)
  BY DEF Placing, Runners
<1>4. Stage(w)' /\ PlacesOnce(w)'
  BY <1>1, <1>2, <1>3 DEF Stage, PlacesOnce
<1> QED
  BY <1>1, <1>2, <1>4, QuietStep

\* Nobody is in the queue who was told a room, for no run is sending.
LEMMA SnapshotStep ==
  ASSUME TypeOK, LockInv, Placing, NEW w \in Workers, Snapshot(w)
  PROVE  Placing'
<1>1. /\ UNCHANGED <<queue, subs, inbox, received, phase, shared, groups, toSend, sent>>
      /\ pc[w] = "read" /\ pc'[w] \in {"release", "group"} /\ snapshot'[w] = queue
      /\ \A x \in Workers : x # w => pc'[x] = pc[x] /\ snapshot'[x] = snapshot[x]
  BY DEF Snapshot, Advance, connVars, histVars, TypeOK
<1>2. lock = w
  BY <1>1 DEF LockInv, InRun
<1>3. \A x \in Workers : pc[x] # "send"
  BY <1>1, <1>2, OthersIdle
<1>4. Stage(w) /\ PlacesOnce(w)
  BY DEF Placing, Runners
<1>5. groups[w] = {} /\ toSend[w] = {} /\ sent[w] = {}
  BY <1>1, <1>4 DEF Stage
<1>6. Pending(w)' \subseteq queue
  BY <1>1, <1>5 DEF Pending, Receivers
<1>7. Stage(w)' /\ PlacesOnce(w)'
  BY <1>1, <1>5, <1>6 DEF Stage, PlacesOnce
<1>8. Runners' /\ \A x \in Workers : x # w => Pending(x)' = Pending(x)
  BY <1>1, <1>7, OthersStay
<1>9. \A c \in Conns : Told(c)' = Told(c)
  BY <1>1 DEF Told
<1>10. Unknown' /\ OneLive'
  BY <1>1, <1>9 DEF Placing, Unknown, OneLive, Live
<1>11. ToldOnce'
  <2>1. \A c \in Conns : Owner(c) \notin shared /\ Told(c) > 0 /\ Live(c)
                           => Owner(c) \notin queue
    BY <1>3 DEF Placing, ToldOnce, Live
  <2>2. \A c \in Conns : Owner(c) \notin shared /\ Told(c) > 0 /\ Live(c) =>
          \A x \in Workers : Owner(c) \notin Pending(x)'
    BY <1>6, <1>8, <2>1 DEF Placing, ToldOnce, Live
  <2> QED
    BY <1>1, <1>9, <2>1, <2>2 DEF Placing, ToldOnce, Live
<1> QED
  BY <1>8, <1>10, <1>11 DEF Placing

LEMMA FormGroupsStep ==
  ASSUME TypeOK, Placing, NEW w \in Workers, FormGroups(w)
  PROVE  Placing'
<1>1. PICK P : /\ \E T \in Placeable(snapshot[w], BatchSize) : P \in Outcomes(T)
               /\ groups' = [groups EXCEPT ![w] = P]
  BY DEF FormGroups
<1>2. /\ UNCHANGED <<queue, subs, inbox, received, phase, shared, snapshot, toSend, sent>>
      /\ pc[w] = "group" /\ pc'[w] = "rooms" /\ groups'[w] = P
      /\ \A x \in Workers : x # w => pc'[x] = pc[x] /\ groups'[x] = groups[x]
  BY <1>1 DEF FormGroups, Advance, connVars, histVars, TypeOK
<1>3. UNION P \subseteq snapshot[w] /\ \A g, h \in P : g # h => g \cap h = {}
  BY <1>1 DEF Placeable, Outcomes
<1>4. toSend[w] = {} /\ sent[w] = {}
  BY <1>2 DEF Placing, Runners, Stage
<1>5. Pending(w) = snapshot[w] \cup (UNION groups[w]) \cup Receivers(w) /\ Pending(w)' = UNION P
  BY <1>2, <1>4 DEF Pending, Receivers
<1>6. Stage(w)' /\ PlacesOnce(w)'
  BY <1>2, <1>3, <1>4, <1>5 DEF Stage, PlacesOnce
<1> QED
  BY <1>2, <1>3, <1>5, <1>6, QuietStep

LEMMA AllocateRoomStep ==
  ASSUME TypeOK, Placing, NEW w \in Workers, NEW g \in groups[w], AllocateRoom(w, g)
  PROVE  Placing'
<1> DEFINE new == {lastRoomId'} \X g
<1>1. /\ UNCHANGED <<queue, subs, inbox, received, phase, shared, snapshot, sent, pc>>
      /\ pc[w] = "rooms" /\ groups'[w] = groups[w] \ {g} /\ toSend'[w] = toSend[w] \cup new
      /\ \A x \in Workers : x # w => groups'[x] = groups[x] /\ toSend'[x] = toSend[x]
  BY DEF AllocateRoom, connVars, histVars, TypeOK
<1>2. Stage(w) /\ PlacesOnce(w)
  BY DEF Placing, Runners
<1>3. /\ \A m \in new : m[2] \in g
      /\ \A m, n \in new : m[2] = n[2] => m = n
  OBVIOUS
<1>4. Pending(w)' \subseteq Pending(w)
  <2>1. Receivers(w)' \subseteq Receivers(w) \cup g
    <3>1. Receivers(w)' = {m[2] : m \in toSend[w] \cup new}
      BY <1>1 DEF Receivers
    <3> QED
      BY <1>3, <3>1 DEF Receivers
  <2> QED
    BY <1>1, <2>1 DEF Pending
<1>5. Stage(w)'
  BY <1>1, <1>2, <1>4 DEF Stage
<1>6. PlacesOnce(w)'
  BY <1>1, <1>2, <1>3 DEF PlacesOnce
<1> QED
  BY <1>1, <1>4, <1>5, <1>6, QuietStep

LEMMA RoomsDoneStep ==
  ASSUME TypeOK, Placing, NEW w \in Workers, RoomsDone(w)
  PROVE  Placing'
<1>1. /\ UNCHANGED <<queue, subs, inbox, received, phase, shared, snapshot, groups,
                  toSend, sent>>
      /\ pc[w] = "rooms" /\ pc'[w] = "send" /\ groups[w] = {}
      /\ \A x \in Workers : x # w => pc'[x] = pc[x]
  BY DEF RoomsDone, Advance, connVars, histVars, TypeOK
<1>2. Pending(w)' = Pending(w)
  BY <1>1 DEF Pending, Receivers
<1>3. Stage(w) /\ PlacesOnce(w)
  BY DEF Placing, Runners
<1>4. Stage(w)' /\ PlacesOnce(w)'
  BY <1>1, <1>2, <1>3 DEF Stage, PlacesOnce
<1> QED
  BY <1>1, <1>2, <1>4, QuietStep

\* The srem takes out whom the run has told, and only them: nobody else is sending.
LEMMA RemoveMatchedStep ==
  ASSUME TypeOK, LockInv, Placing, NEW w \in Workers, RemoveMatched(w)
  PROVE  Placing'
<1>1. /\ UNCHANGED <<subs, inbox, received, phase, shared, snapshot, groups, toSend, sent>>
      /\ pc[w] = "send" /\ pc'[w] = "release" /\ toSend[w] = {} /\ queue' = queue \ sent[w]
      /\ \A x \in Workers : x # w => pc'[x] = pc[x]
  BY DEF RemoveMatched, Advance, connVars, histVars, TypeOK
<1>2. lock = w
  BY <1>1 DEF LockInv, InRun
<1>3. \A x \in Workers : pc[x] = "send" => x = w
  BY <1>2, OthersIdle
<1>4. Pending(w)' = Pending(w)
  BY <1>1 DEF Pending, Receivers
<1>5. Stage(w) /\ PlacesOnce(w)
  BY DEF Placing, Runners
<1>6. Stage(w)' /\ PlacesOnce(w)'
  BY <1>1, <1>4, <1>5 DEF Stage, PlacesOnce
<1>7. Runners' /\ \A x \in Workers : x # w => Pending(x)' = Pending(x)
  BY <1>1, <1>6, OthersStay
<1>8. \A c \in Conns : Told(c)' = Told(c)
  BY <1>1 DEF Told
<1>9. Unknown' /\ OneLive'
  BY <1>1, <1>8 DEF Placing, Unknown, OneLive, Live
<1>10. ToldOnce'
  <2>1. \A c \in Conns : Owner(c) \notin shared /\ Told(c) > 0 /\ Live(c)
                           => Owner(c) \notin queue'
    BY <1>1, <1>3 DEF Placing, ToldOnce, Live
  <2>2. \A x \in Workers : Pending(x)' = Pending(x)
    BY <1>4, <1>7
  <2> QED
    BY <1>1, <1>8, <2>1, <2>2 DEF Placing, ToldOnce, Live
<1> QED
  BY <1>7, <1>9, <1>10 DEF Placing

LEMMA ReleaseStep ==
  ASSUME TypeOK, LockInv, Placing, NEW w \in Workers, Release(w)
  PROVE  Placing'
<1>1. /\ UNCHANGED <<queue, subs, inbox, received, phase, shared>>
      /\ pc[w] = "release" /\ pc'[w] = "idle"
      /\ snapshot'[w] = {} /\ groups'[w] = {} /\ toSend'[w] = {} /\ sent'[w] = {}
      /\ \A x \in Workers : x # w => /\ pc'[x] = pc[x] /\ snapshot'[x] = snapshot[x]
                                    /\ groups'[x] = groups[x] /\ toSend'[x] = toSend[x]
                                    /\ sent'[x] = sent[x]
  BY DEF Release, Forget, Advance, connVars, histVars, TypeOK
<1>2. lock = w
  BY <1>1 DEF LockInv, InRun
<1>3. \A x \in Workers : pc[x] # "send"
  BY <1>1, <1>2, OthersIdle
<1>4. Pending(w)' = {}
  BY <1>1 DEF Pending, Receivers
<1>5. Stage(w)' /\ PlacesOnce(w)'
  BY <1>1, <1>4 DEF Stage, PlacesOnce
<1>6. Runners' /\ \A x \in Workers : x # w => Pending(x)' = Pending(x)
  BY <1>1, <1>5, OthersStay
<1>7. \A c \in Conns : Told(c)' = Told(c)
  BY <1>1 DEF Told
<1>8. Unknown' /\ OneLive'
  BY <1>1, <1>7 DEF Placing, Unknown, OneLive, Live
<1>9. ToldOnce'
  BY <1>1, <1>3, <1>4, <1>6, <1>7 DEF Placing, ToldOnce, Live
<1> QED
  BY <1>6, <1>8, <1>9 DEF Placing

\* Whom a message reaches was told nothing before, and is in no other message.
LEMMA SendStep ==
  ASSUME TypeOK, LockInv, Placing,
         NEW w \in Workers, NEW m \in toSend[w], Send(w, m)
  PROVE  Placing'
<1> DEFINE u == m[2]
<1>1. /\ UNCHANGED <<queue, subs, received, phase, shared, pc, snapshot, groups>>
      /\ pc[w] = "send" /\ toSend'[w] = toSend[w] \ {m} /\ sent'[w] = sent[w] \cup {u}
      /\ \A x \in Workers : x # w => toSend'[x] = toSend[x] /\ sent'[x] = sent[x]
  BY DEF Send, NextToSend, TypeOK
<1>2. lock = w
  BY <1>1 DEF LockInv, InRun
<1>3. \A x \in Workers : x # w => pc[x] = "idle" /\ Pending(x) = {}
  BY <1>2, OthersIdle
<1>4. Stage(w) /\ PlacesOnce(w)
  BY DEF Placing, Runners
<1>5. Pending(w) = Receivers(w) /\ Pending(w)' = Receivers(w)' /\ groups[w] = {}
  BY <1>1, <1>4 DEF Pending, Stage
<1>6. Receivers(w)' = Receivers(w) \ {u} /\ u \in Receivers(w)
  <2>1. \A n \in toSend[w] : n[2] = u => n = m
    BY <1>4 DEF PlacesOnce
  <2>2. Receivers(w)' = {n[2] : n \in toSend[w] \ {m}}
    BY <1>1 DEF Receivers
  <2> QED
    BY <2>1, <2>2 DEF Receivers
<1>7. Stage(w)' /\ PlacesOnce(w)'
  BY <1>1, <1>4, <1>5, <1>6 DEF Stage, PlacesOnce
<1>8. Runners' /\ \A x \in Workers : x # w => Pending(x)' = Pending(x)
  BY <1>1, <1>7, OthersStay
<1>9. \A c \in Conns : Told(c)' = IF c \in Reached(u) THEN Told(c) + 1 ELSE Told(c)
  <2>1. ASSUME NEW c \in Conns, c \in Reached(u) PROVE Told(c)' = Told(c) + 1
    <3>1. /\ inbox[c] \in Seq(Nat) /\ received[c] \in Seq(Nat) /\ m[1] \in Nat
          /\ inbox'[c] = Append(inbox[c], m[1]) /\ received'[c] = received[c]
      BY <2>1 DEF Send, TypeOK
    <3>2. Len(Append(inbox[c], m[1])) + Len(received[c])
            = Len(inbox[c]) + Len(received[c]) + 1
      BY <3>1, Lengths
    <3> QED
      BY <3>1, <3>2 DEF Told
  <2>2. ASSUME NEW c \in Conns, c \notin Reached(u) PROVE Told(c)' = Told(c)
    BY <2>2 DEF Told, Send
  <2> QED
    BY <2>1, <2>2
<1>10. \A c \in Conns : Told(c) \in Nat
  BY ToldIsNat
<1>11. \A c \in Conns : Owner(c) = u /\ u \notin shared /\ Live(c) => Told(c) = 0
  BY <1>5, <1>6, <1>10 DEF Placing, ToldOnce
<1>12. Unknown' /\ OneLive'
  BY <1>1, <1>9 DEF Placing, Unknown, OneLive, Live, Reached
<1>13. \A c \in Reached(u) : Live(c)
  BY DEF Placing, Unknown, Reached, Live, TypeOK
<1>14. ToldOnce'
  <2> SUFFICES ASSUME NEW c \in Conns, Owner(c) \notin shared
               PROVE  /\ Told(c)' <= 1
                      /\ Told(c)' > 0 /\ Live(c) =>
                           /\ \A x \in Workers : Owner(c) \notin Pending(x)'
                           /\ Owner(c) \in queue' =>
                                \E x \in Workers : pc'[x] = "send" /\ Owner(c) \in sent'[x]
    BY <1>1 DEF ToldOnce, Owner, Live
  <2>1. CASE Owner(c) = u
    <3>1. Told(c)' <= 1
      BY <1>9, <1>11, <1>13, <2>1 DEF Placing, ToldOnce
    <3>2. \A x \in Workers : u \notin Pending(x)'
      BY <1>3, <1>5, <1>6, <1>8
    <3> QED
      BY <1>1, <2>1, <3>1, <3>2
  <2>2. CASE Owner(c) # u
    <3>1. Told(c)' = Told(c)
      BY <1>9, <2>2 DEF Reached
    <3>2. \A x \in Workers : Pending(x)' \subseteq Pending(x) /\ sent[x] \subseteq sent'[x]
      BY <1>1, <1>5, <1>6, <1>8
    <3> QED
      BY <1>1, <3>1, <3>2 DEF Placing, ToldOnce
  <2> QED
    BY <2>1, <2>2
<1> QED
  BY <1>8, <1>12, <1>14 DEF Placing

\* Every step without a failure keeps the invariant.
LEMMA PlacingStep ==
  ASSUME TypeOK, LockInv, faults = 0 => Placing, [Next]_vars
  PROVE  faults' = 0 => Placing'
<1> SUFFICES ASSUME faults' = 0 PROVE Placing'
  OBVIOUS
<1>1. faults \in Nat
  BY BoundsAssumption DEF TypeOK
<1>2. ASSUME NEW c \in Conns, ConnectFails(c) \/ DisconnectFails(c) PROVE FALSE
  BY <1>1, <1>2 DEF ConnectFails, DisconnectFails, Fault
<1>3. ASSUME NEW w \in Workers,
             RunFails(w) \/ WorkerCrash(w) \/ \E m \in toSend[w] : SendFails(w, m)
      PROVE  FALSE
  BY <1>1, <1>3 DEF RunFails, WorkerCrash, SendFails, Fault
<1>4. CASE ServerCrash
  BY <1>1, <1>4 DEF ServerCrash, Fault
<1>5. ASSUME NEW c \in Conns, Handles(c) PROVE Placing'
  <2>1. faults = 0
    BY <1>5 DEF Handles, Open, Refuse, Connects, Authenticate, Sadd, GroupAdd, Accept,
       Deliver, Discard, Disconnects, CheckQueue, Srem
  <2> QED
    BY <1>5, <2>1, HandlesStep
<1>6. ASSUME NEW w \in Workers, TryLock(w) \/ Runs(w) PROVE Placing'
  <2>1. faults = 0
    BY <1>6 DEF TryLock, Runs, Snapshot, FormGroups, AllocateRoom, RoomsDone,
       Send, RemoveMatched, Release
  <2> QED
    BY <1>6, <2>1, TryLockStep, SnapshotStep, FormGroupsStep, AllocateRoomStep,
       RoomsDoneStep, SendStep, RemoveMatchedStep, ReleaseStep DEF Runs
<1>7. CASE BuildIndex \/ LockExpires \/ UNCHANGED vars
  <2>1. UNCHANGED <<queue, subs, inbox, received, phase, shared, pc, snapshot, groups,
                    toSend, sent, faults>>
    BY <1>7 DEF BuildIndex, LockExpires, vars, connVars, workerVars, histVars
  <2>2. /\ \A c \in Conns : Told(c)' = Told(c)
        /\ \A w \in Workers : Pending(w)' = Pending(w)
    BY <2>1 DEF Told, Pending, Receivers
  <2> QED
    BY <2>1, <2>2 DEF Placing, Runners, Stage, PlacesOnce, Unknown, OneLive, ToldOnce, Live
<1> QED
  BY <1>2, <1>3, <1>4, <1>5, <1>6, <1>7 DEF Next, Handles

LEMMA InitPlacing == Init => Placing
<1> SUFFICES ASSUME Init PROVE Placing
  OBVIOUS
<1>1. \A c \in Conns : Told(c) = 0
  BY EmptySeq DEF Init, Told
<1>2. \A w \in Workers : Pending(w) = {}
  BY DEF Init, Pending, Receivers
<1>3. Runners
  BY <1>2 DEF Init, Runners, Stage, PlacesOnce
<1> QED
  BY <1>1, <1>3 DEF Init, Placing, Unknown, OneLive, Live, ToldOnce

LEMMA Invariance ==
  ASSUME ~RunsOutliveTtl
  PROVE  Spec => [](TypeOK /\ LockInv /\ (faults = 0 => Placing))
<1>1. Init => TypeOK /\ LockInv /\ (faults = 0 => Placing)
  BY InitType, InitPlacing DEF Init, LockInv, InRun
<1>2. TypeOK /\ LockInv /\ (faults = 0 => Placing) /\ [Next]_vars
      => (TypeOK /\ LockInv /\ (faults = 0 => Placing))'
  BY TypeStep, LockStep, PlacingStep
<1> QED
  BY <1>1, <1>2, PTL DEF Spec

\* A user who never has two sockets at a time is told one room at each, unless a
\* call fails or a run outlives the lock, whatever the sockets of others do.
THEOREM OneRoom ==
  ASSUME ~RunsOutliveTtl
  PROVE  Spec => []OneRoomPerSocket
<1>1. (faults = 0 => Placing) => OneRoomPerSocket
  BY DEF Placing, ToldOnce, Told, OneRoomPerSocket
<1> QED
  BY <1>1, Invariance, PTL
=============================================================================
