-------------------------- MODULE MemberListProofs --------------------------
(***************************************************************************)
(* A chat room keeps what it promises its clients (MemberList), for every   *)
(* set of users and sockets, with or without tabs, as long as no call       *)
(* fails; and the list of a quiet room is accurate.                         *)
(*                                                                         *)
(* Both rest on RoomInv.  Two sections never meet (Alone), so the set       *)
(* differs from the list last told by the arrival or the departure of the   *)
(* one section that is between its change and its broadcast (Accounted);    *)
(* and the last list on its way to a client is the one last told.           *)
(***************************************************************************)
EXTENDS ChatRoomProofs

-----------------------------------------------------------------------------
(* The inductive invariant                                                 *)

\* Who has two sockets at a time is known for it.
OneLive == \A c, d \in Conns :
  Owner(c) = Owner(d) /\ c # d /\ Live(c) /\ Live(d) => Owner(c) \in shared

\* From the sadd of a socket to its srem its user is in the set, unless another
\* socket of the user takes it out.
Listed(c) == phase[c] \in {"read+", "send+", "unlock+", "open", "lock-", "remove"}

Listing == /\ members \subseteq {Owner(c) : c \in {d \in Conns : Listed(d)}}
           /\ \A c \in Conns : Listed(c) => Owner(c) \in members \cup shared

Outside(c) == phase[c] \in {"none", "auth", "join", "lock-", "closed"} \cup Removing

Subscribing == \A c \in Conns :
  /\ phase[c] \in {"accept", "lock+", "open"} \cup Adding => c \in subs
  /\ Outside(c) => c \notin subs /\ inbox[c] = <<>> /\ view[c] = {}

\* The set has changed, and the broadcast that says so is still to come.
Added(c)   == phase[c] \in {"read+", "send+"}
Removed(c) == phase[c] \in {"read-", "send-"}

Accounted == /\ (\A c \in Conns : ~Added(c) /\ ~Removed(c)) => told = members
             /\ \A c \in Conns : Added(c) => members = told \cup {Owner(c)}
             /\ \A c \in Conns : Removed(c) => members = told \ {Owner(c)}

\* The list a client shows in the end, if no other comes.
Latest(c) == IF inbox[c] = <<>> THEN view[c] ELSE inbox[c][Len(inbox[c])]

Telling == /\ \A c \in Conns : phase[c] = "send+" => list[c] = members
           /\ \A c \in Conns : phase[c] \in {"unlock+", "open"} => Latest(c) = told

Staying == \A c \in Conns : phase[c] # "leaving"

Orderly == Staying /\ Listing /\ Subscribing /\ Accounted /\ Telling

RoomInv == OneLive /\ (faults = 0 => Orderly)

\* Only a socket that opens becomes live.
LEMMA LiveStep == TypeOK /\ OneLive /\ [Next]_vars => OneLive'
<1> SUFFICES ASSUME TypeOK, OneLive, [Next]_vars PROVE OneLive'
  OBVIOUS
<1> USE DEF TypeOK, Goto, Live, histVars
<1>1. ASSUME NEW c \in Conns, Open(c) PROVE OneLive'
  <2>1. \A d \in Conns : Owner(d) = Owner(c) /\ Live(d) => Owner(c) \in shared'
    BY <1>1 DEF Open
  <2>2. shared \subseteq shared' /\ \A d \in Conns : d # c => phase'[d] = phase[d]
    BY <1>1 DEF Open
  <2> QED
    BY <2>1, <2>2 DEF OneLive
<1>2. ASSUME shared' = shared, \A c \in Conns : Live(c)' => Live(c) PROVE OneLive'
  BY <1>2 DEF OneLive
<1>3. ASSUME NEW c \in Conns,
             \/ Refuse(c) \/ Joins(c) \/ Acquire(c) \/ Works(c) \/ HandleMembers(c)
             \/ Discard(c)
      PROVE  OneLive'
  BY <1>2, <1>3 DEF Refuse, Joins, Authenticate, GroupAdd, Accept, Acquire, Works, Sadd,
     Smembers, Broadcast, UnlockAdd, Srem, Delete, UnlockRemove, HandleMembers, Discard
<1>4. ASSUME NEW c \in Conns, Fails(c) PROVE OneLive'
  BY <1>2, <1>4 DEF Fails, ConnectFails, AddFails, SendFails, ReadFails, RemoveFails,
     DisconnectFails
<1>5. CASE ServerCrash \/ LockExpires \/ LockOverrun \/ UNCHANGED vars
  BY <1>2, <1>5 DEF ServerCrash, LockExpires, LockOverrun, vars
<1> QED
  BY <1>1, <1>3, <1>4, <1>5 DEF Next

\* The last message of a sequence: its first one if it has no other, and the one
\* that was appended.
LEMMA LastOfTail ==
  ASSUME NEW S, NEW q \in Seq(S), q # <<>>
  PROVE  q[Len(q)] = IF Tail(q) = <<>> THEN Head(q) ELSE Tail(q)[Len(Tail(q))]
<1>1. /\ Len(q) \in Nat \ {0} /\ Len(Tail(q)) = Len(q) - 1 /\ Tail(q) \in Seq(S)
      /\ \A i \in 1..Len(Tail(q)) : Tail(q)[i] = q[i+1]
  BY HeadTailProperties, LenProperties, EmptySeq
<1>2. Head(q) = q[1]
  OBVIOUS
<1>3. Tail(q) = <<>> <=> Len(Tail(q)) = 0
  BY <1>1, EmptySeq
<1>4. CASE Len(q) = 1
  BY <1>1, <1>2, <1>3, <1>4
<1>5. CASE Len(q) > 1
  <2>1. Len(Tail(q)) \in 1..Len(Tail(q)) /\ Len(Tail(q)) + 1 = Len(q)
    BY <1>1, <1>5
  <2> QED
    BY <1>1, <1>3, <1>5, <2>1
<1> QED
  BY <1>1, <1>4, <1>5

LEMMA LastOfAppend ==
  ASSUME NEW S, NEW q \in Seq(S), NEW m \in S
  PROVE  Append(q, m) # <<>> /\ Append(q, m)[Len(Append(q, m))] = m
BY AppendProperties

\* A handled message is no longer on its way, and the last one stays the last.
LEMMA LatestStays ==
  ASSUME TypeOK, NEW c \in Conns, HandleMembers(c)
  PROVE  \A d \in Conns : Latest(d)' = Latest(d)
<1>1. inbox[c] \in Seq(SUBSET Users) /\ inbox[c] # <<>>
  BY DEF TypeOK, HandleMembers
<1>2. /\ inbox'[c] = Tail(inbox[c]) /\ view'[c] = Head(inbox[c])
      /\ \A d \in Conns : d # c => inbox'[d] = inbox[d] /\ view'[d] = view[d]
  BY DEF TypeOK, HandleMembers
<1>3. Latest(c)' = Latest(c)
  BY <1>1, <1>2, LastOfTail DEF Latest
<1>4. ASSUME NEW d \in Conns, d # c PROVE Latest(d)' = Latest(d)
  BY <1>2, <1>4 DEF Latest
<1> QED
  BY <1>3, <1>4

\* The steps that neither change the set nor send it, for sockets that stay in what
\* part of the room they are, and show what they showed.
LEMMA SilentStep ==
  ASSUME Orderly, Staying', Subscribing', members' = members, told' = told,
         shared \subseteq shared',
         \A c \in Conns :
           /\ Listed(c)' <=> Listed(c)
           /\ Added(c)' <=> Added(c)
           /\ Removed(c)' <=> Removed(c)
           /\ phase'[c] = "send+" => phase[c] = "send+" /\ list'[c] = list[c]
           /\ phase'[c] \in {"unlock+", "open"} =>
                phase[c] \in {"unlock+", "open"} /\ Latest(c)' = Latest(c)
  PROVE  Orderly'
<1>1. Listing'
  BY DEF Orderly, Listing
<1>2. Accounted'
  BY DEF Orderly, Accounted
<1>3. Telling'
  BY DEF Orderly, Telling
<1> QED
  BY <1>1, <1>2, <1>3 DEF Orderly

\* The same for one socket: the others stay as they are.
LEMMA SilentHandler ==
  ASSUME TypeOK, Orderly, NEW c \in Conns, members' = members, told' = told,
         shared \subseteq shared', subs' \ {c} = subs \ {c},
         \A d \in Conns : d # c => /\ phase'[d] = phase[d] /\ list'[d] = list[d]
                                   /\ inbox'[d] = inbox[d] /\ view'[d] = view[d],
         Listed(c)' <=> Listed(c), ~Added(c)', ~Removed(c)', ~Added(c), ~Removed(c),
         phase'[c] # "leaving",
         phase'[c] \in {"unlock+", "open"} =>
           phase[c] \in {"unlock+", "open"} /\ Latest(c)' = Latest(c),
         phase'[c] \in {"accept", "lock+", "open"} \cup Adding => c \in subs',
         Outside(c)' => c \notin subs' /\ inbox'[c] = <<>> /\ view'[c] = {}
  PROVE  Orderly'
<1>1. Staying' /\ Subscribing'
  BY DEF Orderly, Staying, Subscribing, Outside
<1>2. \A d \in Conns : /\ Listed(d)' <=> Listed(d)
                       /\ Added(d)' <=> Added(d)
                       /\ Removed(d)' <=> Removed(d)
  BY DEF Listed, Added, Removed
<1>3. \A d \in Conns : phase'[d] = "send+" => phase[d] = "send+" /\ list'[d] = list[d]
  BY DEF Added
<1>4. \A d \in Conns : phase'[d] \in {"unlock+", "open"} =>
                         phase[d] \in {"unlock+", "open"} /\ Latest(d)' = Latest(d)
  BY DEF Latest
<1> QED
  BY <1>1, <1>2, <1>3, <1>4, SilentStep

\* A step that leaves the failures at none is none of the failures.
LEMMA NoFailure ==
  ASSUME TypeOK, [Next]_vars, faults' = 0
  PROVE  /\ faults = 0
         /\ ~ServerCrash /\ ~LockOverrun /\ \A c \in Conns : ~Fails(c)
<1>1. faults \in Nat
  BY FaultsAssumption DEF TypeOK
<1>2. ~Fault
  BY <1>1 DEF Fault
<1>3. ~ServerCrash /\ ~LockOverrun /\ \A c \in Conns : ~Fails(c)
  BY <1>2 DEF ServerCrash, LockOverrun, Fails, ConnectFails, AddFails, SendFails, ReadFails,
     RemoveFails, DisconnectFails
<1>4. faults' = faults
  BY <1>3 DEF Next, Open, Refuse, Joins, Authenticate, GroupAdd, Accept, Acquire, Works, Sadd,
     Smembers, Broadcast, UnlockAdd, Srem, Delete, UnlockRemove, HandleMembers, Discard,
     LockExpires, vars
<1> QED
  BY <1>3, <1>4

\* Steps outside the sections.
LEMMA OutsideStep ==
  ASSUME TypeOK, Orderly, NEW c \in Conns,
         Open(c) \/ Refuse(c) \/ Joins(c) \/ Acquire(c) \/ HandleMembers(c) \/ Discard(c)
  PROVE  Orderly'
<1> USE DEF TypeOK, Goto, histVars, Listed, Added, Removed, Outside, Adding, Removing
<1>1. CASE Open(c) \/ Refuse(c) \/ Authenticate(c)
  <2>1. /\ UNCHANGED <<members, told, subs, inbox, view, list>> /\ shared \subseteq shared'
        /\ \A d \in Conns : d # c => phase'[d] = phase[d]
        /\ phase[c] \in {"none", "auth"} /\ phase'[c] \in {"auth", "join", "closed"}
    BY <1>1 DEF Open, Refuse, Authenticate
  <2>2. c \notin subs /\ inbox[c] = <<>> /\ view[c] = {}
    BY <2>1 DEF Orderly, Subscribing
  <2> QED
    BY <2>1, <2>2, SilentHandler
<1>2. CASE GroupAdd(c) \/ Accept(c)
  <2>1. /\ UNCHANGED <<members, told, inbox, view, list, shared>>
        /\ subs' \ {c} = subs \ {c} /\ c \in subs'
        /\ \A d \in Conns : d # c => phase'[d] = phase[d]
        /\ phase[c] \in {"join", "accept"} /\ phase'[c] \in {"accept", "lock+"}
    BY <1>2 DEF GroupAdd, Accept, Orderly, Subscribing
  <2> QED
    BY <2>1, SilentHandler
<1>3. CASE Acquire(c)
  <2>1. /\ UNCHANGED <<members, told, subs, inbox, view, list, shared>>
        /\ \A d \in Conns : d # c => phase'[d] = phase[d]
        /\ \/ phase[c] = "lock+" /\ phase'[c] = "add"
           \/ phase[c] = "lock-" /\ phase'[c] = "remove"
    BY <1>3 DEF Acquire
  <2>2. /\ phase[c] = "lock+" => c \in subs
        /\ phase[c] = "lock-" => c \notin subs /\ inbox[c] = <<>> /\ view[c] = {}
    BY DEF Orderly, Subscribing
  <2> QED
    BY <2>1, <2>2, SilentHandler
<1>4. CASE HandleMembers(c)
  <2>1. /\ UNCHANGED <<members, told, subs, phase, list, shared>> /\ phase[c] = "open"
        /\ \A d \in Conns : d # c => inbox'[d] = inbox[d] /\ view'[d] = view[d]
    BY <1>4 DEF HandleMembers
  <2>2. Latest(c)' = Latest(c)
    BY <1>4, LatestStays
  <2>3. c \in subs
    BY <2>1 DEF Orderly, Subscribing
  <2> QED
    BY <2>1, <2>2, <2>3, SilentHandler
<1>5. CASE Discard(c)
  <2>1. /\ UNCHANGED <<members, told, shared>> /\ subs' = subs \ {c}
        /\ phase[c] = "open" /\ phase'[c] = "lock-"
        /\ inbox'[c] = <<>> /\ view'[c] = {}
        /\ \A d \in Conns : d # c => /\ phase'[d] = phase[d] /\ list'[d] = list[d]
                                    /\ inbox'[d] = inbox[d] /\ view'[d] = view[d]
    BY <1>5 DEF Discard, Ends, Orderly, Staying
  <2> QED
    BY <2>1, SilentHandler
<1> QED
  BY <1>1, <1>2, <1>3, <1>4, <1>5 DEF Joins

\* Steps inside the sections.
LEMMA SectionStep ==
  ASSUME Inv, RoomInv, faults = 0, NEW c \in Conns, Works(c)
  PROVE  Orderly'
<1> USE DEF TypeOK, Inv, Goto, histVars
<1>1. Orderly /\ Section(c)
  BY DEF RoomInv, Works, Sadd, Smembers, Broadcast, UnlockAdd, Srem, Delete, UnlockRemove,
         Section, Adding, Removing
<1>2. \A d \in Conns : d # c => ~Section(d)
  BY <1>1, Alone
<1>3. \A d \in Conns : d # c => ~Added(d) /\ ~Removed(d)
  BY <1>2 DEF Section, Adding, Removing, Added, Removed
<1>4. CASE UnlockAdd(c) \/ UnlockRemove(c)
  <2>1. lock = c
    BY <1>1 DEF LockInv
  <2>2. \/ /\ phase[c] = "unlock+" /\ phase'[c] = "open"
           /\ inbox'[c] = inbox[c] /\ view'[c] = view[c]
        \/ /\ phase[c] = "unlock-" /\ phase'[c] = "closed"
           /\ inbox'[c] = <<>> /\ view'[c] = {}
    BY <1>4, <2>1 DEF UnlockAdd, UnlockRemove, Ends
  <2>3. /\ UNCHANGED <<members, told, subs, shared>>
        /\ \A d \in Conns : d # c => /\ phase'[d] = phase[d] /\ list'[d] = list[d]
                                    /\ inbox'[d] = inbox[d] /\ view'[d] = view[d]
    BY <1>4 DEF UnlockAdd, UnlockRemove, Ends
  <2>4. /\ phase[c] = "unlock+" => c \in subs
        /\ phase[c] = "unlock-" => c \notin subs
    BY <1>1 DEF Orderly, Subscribing, Adding, Removing, Outside
  <2>5. Latest(c)' = Latest(c) \/ phase'[c] = "closed"
    BY <2>2 DEF Latest
  <2> QED
    BY <1>1, <2>2, <2>3, <2>4, <2>5, SilentHandler
       DEF Listed, Added, Removed, Outside, Adding, Removing
<1>5. CASE Delete(c)
  <2>1. members' = members
    BY <1>5 DEF Delete, ListInv
  <2>2. /\ UNCHANGED <<told, subs, inbox, view, list, shared>>
        /\ phase[c] = "delete" /\ phase'[c] = "unlock-"
        /\ \A d \in Conns : d # c => phase'[d] = phase[d]
    BY <1>5 DEF Delete
  <2>3. c \notin subs /\ inbox[c] = <<>> /\ view[c] = {}
    BY <1>1, <2>2 DEF Orderly, Subscribing, Outside, Removing
  <2> QED
    BY <1>1, <2>1, <2>2, <2>3, SilentHandler
       DEF Listed, Added, Removed, Outside, Adding, Removing
<1>6. CASE Sadd(c)
  <2>1. /\ members' = members \cup {Owner(c)}
        /\ UNCHANGED <<told, subs, inbox, view, list, shared>>
        /\ phase[c] = "add" /\ phase'[c] = "read+"
        /\ \A d \in Conns : d # c => phase'[d] = phase[d]
    BY <1>6 DEF Sadd
  <2>2. Staying' /\ Subscribing'
    BY <1>1, <2>1 DEF Orderly, Staying, Subscribing, Outside, Adding, Removing
  <2>3. Listed(c)' /\ \A d \in Conns : Listed(d) => Listed(d)'
    BY <2>1 DEF Listed
  <2>4. Listing'
    <3>1. \A d \in Conns : Listed(d)' => Listed(d) \/ d = c
      BY <2>1 DEF Listed
    <3>2. /\ members \subseteq {Owner(d) : d \in {e \in Conns : Listed(e)}}
          /\ \A d \in Conns : Listed(d) => Owner(d) \in members \cup shared
      BY <1>1 DEF Orderly, Listing
    <3> QED
      BY <2>1, <2>3, <3>1, <3>2 DEF Listing
  <2>5. told = members
    BY <1>1, <1>3, <2>1 DEF Orderly, Accounted, Added, Removed
  <2>6. Accounted'
    BY <1>3, <2>1, <2>5 DEF Accounted, Added, Removed
  <2>7. Telling'
    BY <1>1, <1>3, <2>1 DEF Orderly, Telling, Latest, Added
  <2> QED
    BY <2>2, <2>4, <2>6, <2>7 DEF Orderly
<1>7. CASE Srem(c)
  <2>1. /\ members' = members \ {Owner(c)}
        /\ UNCHANGED <<told, subs, inbox, view, list, shared>>
        /\ phase[c] = "remove" /\ phase'[c] = "read-"
        /\ \A d \in Conns : d # c => phase'[d] = phase[d]
    BY <1>7 DEF Srem
  <2>2. Staying' /\ Subscribing'
    BY <1>1, <2>1 DEF Orderly, Staying, Subscribing, Outside, Adding, Removing
  <2>3. /\ Listed(c) /\ ~Listed(c)'
        /\ \A d \in Conns : d # c => (Listed(d)' <=> Listed(d))
    BY <2>1 DEF Listed
  <2>4. \A d \in Conns : Listed(d)' /\ Owner(d) = Owner(c) => Owner(d) \in shared
    BY <2>1, <2>3 DEF RoomInv, OneLive, Live, Listed
  <2>5. Listing'
    <3>1. /\ members \subseteq {Owner(d) : d \in {e \in Conns : Listed(e)}}
          /\ \A d \in Conns : Listed(d) => Owner(d) \in members \cup shared
      BY <1>1 DEF Orderly, Listing
    <3>2. \A u \in members' : \E d \in Conns : Listed(d)' /\ Owner(d) = u
      BY <2>1, <2>3, <3>1
    <3>3. \A d \in Conns : Listed(d)' => Owner(d) \in members' \cup shared
      BY <2>1, <2>3, <2>4, <3>1
    <3> QED
      BY <2>1, <3>2, <3>3 DEF Listing
  <2>6. told = members
    BY <1>1, <1>3, <2>1 DEF Orderly, Accounted, Added, Removed
  <2>7. Accounted'
    BY <1>3, <2>1, <2>6 DEF Accounted, Added, Removed
  <2>8. Telling'
    BY <1>1, <1>3, <2>1 DEF Orderly, Telling, Latest, Added
  <2> QED
    BY <2>2, <2>5, <2>7, <2>8 DEF Orderly
<1>8. CASE Smembers(c)
  <2>1. /\ UNCHANGED <<members, told, subs, inbox, view, shared>> /\ list'[c] = members
        /\ \/ phase[c] = "read+" /\ phase'[c] = "send+"
           \/ phase[c] = "read-" /\ phase'[c] = "send-"
        /\ \A d \in Conns : d # c => phase'[d] = phase[d] /\ list'[d] = list[d]
    BY <1>8 DEF Smembers
  <2>2. Staying' /\ Subscribing'
    BY <1>1, <2>1 DEF Orderly, Staying, Subscribing, Outside, Adding, Removing
  <2>3. \A d \in Conns : /\ Listed(d)' <=> Listed(d)
                         /\ Added(d)' <=> Added(d)
                         /\ Removed(d)' <=> Removed(d)
    BY <2>1 DEF Listed, Added, Removed
  <2>4. Listing' /\ Accounted'
    BY <1>1, <2>1, <2>3 DEF Orderly, Listing, Accounted
  <2>5. Telling'
    BY <1>1, <1>3, <2>1 DEF Orderly, Telling, Latest, Added
  <2> QED
    BY <2>2, <2>4, <2>5 DEF Orderly
<1>9. CASE Broadcast(c)
  <2>1. /\ UNCHANGED <<members, subs, view, list, shared>> /\ told' = list[c]
        /\ \/ phase[c] = "send+" /\ phase'[c] = "unlock+"
           \/ phase[c] = "send-" /\ phase'[c] = "delete"
        /\ \A d \in Conns : d # c => phase'[d] = phase[d]
        /\ \A d \in Conns : inbox'[d] = IF d \in subs /\ phase[d] # "closed"
                                          THEN Append(inbox[d], list[c]) ELSE inbox[d]
    BY <1>9 DEF Broadcast
  <2>2. Staying' /\ Subscribing'
    BY <1>1, <2>1 DEF Orderly, Staying, Subscribing, Outside, Adding, Removing
  <2>3. list[c] = members
    BY <1>1, <2>1 DEF Orderly, Telling, ListInv
  <2>4. Listing'
    <3>1. \A d \in Conns : Listed(d)' <=> Listed(d)
      BY <2>1 DEF Listed
    <3> QED
      BY <1>1, <2>1, <3>1 DEF Orderly, Listing
  <2>5. \A d \in Conns : ~Added(d)' /\ ~Removed(d)'
    BY <1>3, <2>1 DEF Added, Removed
  <2>6. Accounted'
    BY <2>1, <2>3, <2>5 DEF Accounted
  <2>7. ASSUME NEW d \in Conns, phase'[d] \in {"unlock+", "open"} PROVE Latest(d)' = told'
    <3>1. d \in subs /\ phase[d] # "closed"
      BY <1>1, <2>1, <2>7 DEF Orderly, Subscribing, Adding
    <3>2. inbox'[d] = Append(inbox[d], list[c])
      BY <2>1, <3>1
    <3>3. inbox'[d] # <<>> /\ inbox'[d][Len(inbox'[d])] = list[c]
      <4>1. \A q \in Seq(SUBSET Users), m \in SUBSET Users :
              Append(q, m) # <<>> /\ Append(q, m)[Len(Append(q, m))] = m
        BY LastOfAppend
      <4>2. inbox[d] \in Seq(SUBSET Users) /\ list[c] \in SUBSET Users
        OBVIOUS
      <4> QED
        BY <3>2, <4>1, <4>2
    <3>4. Latest(d)' = IF inbox'[d] = <<>> THEN view'[d] ELSE inbox'[d][Len(inbox'[d])]
      BY DEF Latest
    <3> QED
      BY <2>1, <3>3, <3>4
  <2>8. Telling'
    BY <2>5, <2>7 DEF Telling, Added
  <2> QED
    BY <2>2, <2>4, <2>6, <2>8 DEF Orderly
<1> QED
  BY <1>4, <1>5, <1>6, <1>7, <1>8, <1>9 DEF Works

LEMMA InitRoom == Init => RoomInv
BY DEF Init, RoomInv, OneLive, Live, Orderly, Staying, Listing, Listed, Subscribing, Outside,
       Accounted, Added, Removed, Telling, Adding, Removing

LEMMA RoomStep == Inv /\ RoomInv /\ [Next]_vars => RoomInv'
<1> SUFFICES ASSUME Inv, RoomInv, [Next]_vars PROVE RoomInv'
  OBVIOUS
<1>1. OneLive'
  BY LiveStep DEF Inv, RoomInv
<1>2. ASSUME faults' = 0 PROVE Orderly'
  <2>1. /\ faults = 0 /\ TypeOK /\ Orderly
        /\ ~ServerCrash /\ ~LockOverrun /\ \A c \in Conns : ~Fails(c)
    BY <1>2, NoFailure DEF Inv, RoomInv
  <2>2. CASE LockExpires \/ UNCHANGED vars
    <3>1. UNCHANGED <<members, told, shared, subs, inbox, view, phase, list>>
      BY <2>2 DEF LockExpires, vars, histVars
    <3> QED
      BY <2>1, <3>1 DEF Orderly, Staying, Listing, Listed, Subscribing, Outside, Accounted,
         Added, Removed, Telling, Latest
  <2> QED
    BY <2>1, <2>2, OutsideStep, SectionStep DEF Next
<1> QED
  BY <1>1, <1>2 DEF RoomInv

LEMMA RoomInvariance == Spec => [](Inv /\ RoomInv)
BY InitInv, InvStep, InitRoom, RoomStep, PTL DEF Spec

-----------------------------------------------------------------------------
(* The room implements MemberList                                          *)

Present == {c \in Conns : phase[c] \in {"unlock+", "open", "lock-", "remove", "read-", "send-"}}

\* A step that clients see nothing of.
LEMMA Unseen ==
  ASSUME UNCHANGED <<told, subs, inbox, view, faults>>, Present' = Present
  PROVE  UNCHANGED Room!vars
BY DEF Room!vars, Present

\* What a socket that has left holds is dropped already.
LEMMA NothingToDrop ==
  ASSUME TypeOK, NEW c \in Conns, Ends({c}), inbox[c] = <<>>, view[c] = {}
  PROVE  inbox' = inbox /\ view' = view
<1>1. \A d \in Conns : inbox'[d] = inbox[d] /\ view'[d] = view[d]
  BY DEF Ends
<1>2. /\ inbox = [d \in Conns |-> inbox[d]] /\ view = [d \in Conns |-> view[d]]
      /\ inbox' = [d \in Conns |-> inbox'[d]] /\ view' = [d \in Conns |-> view'[d]]
  BY DEF TypeOK, Ends
<1> QED
  BY <1>1, <1>2

LEMMA OutsideMaps ==
  ASSUME TypeOK, Orderly, faults = 0, NEW c \in Conns,
         Open(c) \/ Refuse(c) \/ Joins(c) \/ Acquire(c) \/ HandleMembers(c) \/ Discard(c)
  PROVE  [Room!Next]_(Room!vars)
<1> USE DEF TypeOK, Goto, histVars, Present
<1>1. CASE Open(c) \/ Refuse(c) \/ Authenticate(c) \/ Accept(c) \/ Acquire(c)
  <2>1. /\ UNCHANGED <<told, subs, inbox, view, faults>>
        /\ \A d \in Conns : d # c => phase'[d] = phase[d]
        /\ \/ phase[c] \in {"none", "auth", "accept", "lock+"}
                /\ phase'[c] \in {"auth", "closed", "join", "lock+", "add"}
           \/ phase[c] = "lock-" /\ phase'[c] = "remove"
    BY <1>1 DEF Open, Refuse, Authenticate, Accept, Acquire
  <2>2. Present' = Present
    BY <2>1
  <2> QED
    BY <2>1, <2>2, Unseen
<1>2. CASE GroupAdd(c)
  <2>1. /\ UNCHANGED <<told, inbox, view, faults>> /\ subs' = subs \cup {c}
        /\ \A d \in Conns : d # c => phase'[d] = phase[d]
        /\ phase[c] = "join" /\ phase'[c] = "accept"
    BY <1>2 DEF GroupAdd
  <2>2. Present' = Present
    BY <2>1
  <2>3. Room!Listen(c)
    BY <2>1, <2>2 DEF Room!Listen
  <2> QED
    BY <2>1, <2>3 DEF Room!Next
<1>3. CASE HandleMembers(c)
  <2>1. /\ UNCHANGED <<told, subs, phase, faults>> /\ phase[c] = "open" /\ inbox[c] # <<>>
        /\ view' = [view EXCEPT ![c] = Head(inbox[c])]
        /\ inbox' = [inbox EXCEPT ![c] = Tail(@)]
    BY <1>3 DEF HandleMembers
  <2>2. c \in subs \cap Present
    BY <2>1 DEF Orderly, Subscribing
  <2>3. Room!Show(c)
    BY <2>1, <2>2 DEF Room!Show
  <2> QED
    BY <2>1, <2>3 DEF Room!Next
<1>4. CASE Discard(c)
  <2>1. /\ UNCHANGED <<told, faults>> /\ subs' = subs \ {c}
        /\ phase[c] = "open" /\ phase'[c] = "lock-"
        /\ \A d \in Conns : d # c => phase'[d] = phase[d]
    BY <1>4 DEF Discard, Orderly, Staying
  <2>2. inbox' = [inbox EXCEPT ![c] = <<>>] /\ view' = [view EXCEPT ![c] = {}]
    BY <1>4 DEF Discard, Ends
  <2>3. c \in subs \cap Present /\ Present' = Present
    BY <2>1 DEF Orderly, Subscribing
  <2>4. Room!Close(c)
    BY <2>1, <2>2, <2>3 DEF Room!Close
  <2> QED
    BY <2>1, <2>4 DEF Room!Next
<1> QED
  BY <1>1, <1>2, <1>3, <1>4 DEF Joins

LEMMA SectionMaps ==
  ASSUME Inv, RoomInv, faults = 0, NEW c \in Conns, Works(c)
  PROVE  [Room!Next]_(Room!vars)
<1> USE DEF TypeOK, Inv, Goto, histVars, Present
<1>1. Orderly /\ Section(c)
  BY DEF RoomInv, Works, Sadd, Smembers, Broadcast, UnlockAdd, Srem, Delete, UnlockRemove,
         Section, Adding, Removing
<1>2. CASE Sadd(c) \/ Srem(c) \/ Smembers(c) \/ Delete(c)
  <2>1. /\ UNCHANGED <<told, subs, inbox, view, faults>>
        /\ \A d \in Conns : d # c => phase'[d] = phase[d]
        /\ \/ phase[c] = "add" /\ phase'[c] = "read+"
           \/ phase[c] = "read+" /\ phase'[c] = "send+"
           \/ phase[c] = "remove" /\ phase'[c] = "read-"
           \/ phase[c] = "read-" /\ phase'[c] = "send-"
           \/ phase[c] = "delete" /\ phase'[c] = "unlock-"
    BY <1>2 DEF Sadd, Srem, Smembers, Delete
  <2>2. Present' = Present
    BY <2>1
  <2> QED
    BY <2>1, <2>2, Unseen
<1>3. CASE UnlockAdd(c)
  <2>1. lock = c
    BY <1>1 DEF LockInv
  <2>2. /\ UNCHANGED <<told, subs, inbox, view, faults>>
        /\ \A d \in Conns : d # c => phase'[d] = phase[d]
        /\ phase[c] = "unlock+" /\ phase'[c] = "open"
    BY <1>3, <2>1 DEF UnlockAdd
  <2>3. Present' = Present
    BY <2>2
  <2> QED
    BY <2>2, <2>3, Unseen
<1>4. CASE UnlockRemove(c)
  <2>1. /\ UNCHANGED <<told, subs, faults>> /\ Ends({c})
        /\ \A d \in Conns : d # c => phase'[d] = phase[d]
        /\ phase[c] = "unlock-" /\ phase'[c] = "closed"
    BY <1>4 DEF UnlockRemove
  <2>2. inbox[c] = <<>> /\ view[c] = {}
    BY <1>1, <2>1 DEF Orderly, Subscribing, Outside, Removing
  <2>3. inbox' = inbox /\ view' = view
    BY <2>1, <2>2, NothingToDrop
  <2>4. Present' = Present
    BY <2>1
  <2> QED
    BY <2>1, <2>3, <2>4, Unseen
<1>5. CASE Broadcast(c)
  <2>1. list[c] = members
    BY <1>1, <1>5 DEF Orderly, Telling, ListInv, Broadcast
  <2>2. \A d \in subs : phase[d] # "closed"
    BY <1>1 DEF Orderly, Subscribing, Outside
  <2>3. /\ UNCHANGED <<subs, view, faults>> /\ told' = members
        /\ \A d \in Conns : d # c => phase'[d] = phase[d]
        /\ inbox' = [d \in Conns |-> IF d \in subs THEN Append(inbox[d], members)
                                                  ELSE inbox[d]]
    BY <1>5, <2>1, <2>2 DEF Broadcast
  <2>4. Room!Announce(members)
    BY <2>3 DEF Room!Announce
  <2>5. CASE phase[c] = "send+"
    <3>1. members = told \cup {Owner(c)} /\ c \in subs
      BY <1>1, <2>5 DEF Orderly, Accounted, Added, Subscribing, Adding
    <3>2. c \notin Present /\ Present' = Present \cup {c}
      BY <1>5, <2>3, <2>5 DEF Broadcast
    <3>3. Room!Arrive(c)
      BY <2>4, <3>1, <3>2 DEF Room!Arrive, Owner
    <3> QED
      BY <2>3, <3>3 DEF Room!Next
  <2>6. CASE phase[c] = "send-"
    <3>1. members = told \ {Owner(c)} /\ c \notin subs
      BY <1>1, <2>6 DEF Orderly, Accounted, Removed, Subscribing, Outside, Removing
    <3>2. c \in Present /\ Present' = Present \ {c}
      BY <1>5, <2>3, <2>6 DEF Broadcast
    <3>3. Room!Depart(c)
      BY <2>4, <3>1, <3>2 DEF Room!Depart, Owner
    <3> QED
      BY <2>3, <3>3 DEF Room!Next
  <2> QED
    BY <1>5, <2>5, <2>6 DEF Broadcast
<1> QED
  BY <1>2, <1>3, <1>4, <1>5 DEF Works

\* Each step of the room is one of MemberList's or seen by nobody.
LEMMA StepMaps ==
  ASSUME Inv, RoomInv, [Next]_vars
  PROVE  [Room!Next]_(Room!vars)
<1>1. CASE faults' # 0
  BY <1>1 DEF Room!Next, Room!Break
<1>2. CASE faults' = 0
  <2>1. /\ faults = 0 /\ TypeOK /\ Orderly
        /\ ~ServerCrash /\ ~LockOverrun /\ \A c \in Conns : ~Fails(c)
    BY <1>2, NoFailure DEF Inv, RoomInv
  <2>2. CASE LockExpires \/ UNCHANGED vars
    <3>1. UNCHANGED <<told, subs, inbox, view, phase, faults>>
      BY <2>2 DEF LockExpires, vars, histVars
    <3>2. Present' = Present
      BY <3>1 DEF Present
    <3> QED
      BY <3>1, <3>2, Unseen
  <2> QED
    BY <2>1, <2>2, OutsideMaps, SectionMaps DEF Next
<1> QED
  BY <1>1, <1>2

\* As long as no call fails the clients of a room see MemberList: each list that
\* is sent is the one before with one user more or less, and it reaches everybody.
THEOREM Refinement == Spec => ImplementsMemberList
<1>1. Init => Room!Init
  BY DEF Init, Room!Init
<1> QED
  BY <1>1, StepMaps, RoomInvariance, PTL DEF Spec, ImplementsMemberList, Room!Spec

\* The list of a quiet room is who is there, but for users who had two sockets, and
\* all see it, unless a call fails.
THEOREM QuietIsAccurate == Spec => []QuietRoomIsAccurate
<1>1. RoomInv => QuietRoomIsAccurate
  <2> SUFFICES ASSUME Orderly, Quiet
               PROVE  /\ members \subseteq {Owner(c) : c \in {d \in Conns : Here(d)}}
                      /\ \A c \in Conns :
                           Here(c) => Owner(c) \in members \cup shared /\ view[c] = members
    BY DEF RoomInv, QuietRoomIsAccurate
  <2>1. \A c \in Conns : /\ ~Added(c) /\ ~Removed(c) /\ inbox[c] = <<>>
                         /\ Listed(c) <=> Here(c)
    BY DEF Quiet, Added, Removed, Listed, Here
  <2>2. told = members
    BY <2>1 DEF Orderly, Accounted
  <2>3. ASSUME NEW c \in Conns, Here(c) PROVE view[c] = members
    BY <2>1, <2>2, <2>3 DEF Orderly, Telling, Latest, Here
  <2> QED
    BY <2>1, <2>3 DEF Orderly, Listing
<1> QED
  BY <1>1, RoomInvariance, PTL
=============================================================================
