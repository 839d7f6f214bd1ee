--------------------------- MODULE ChatRoomProofs ---------------------------
(***************************************************************************)
(* Theorems about ChatRoom for every set of users and sockets, with or     *)
(* without tabs, and every bound on failures.                              *)
(*                                                                         *)
(* Exclusion rests on LockInv: a section is entered with the lock, and only *)
(* an overrun takes it away from a section.  That a deletion catches nobody *)
(* rests on exclusion: between the smembers of a leaving section and its    *)
(* test for an empty room nobody else changes the set.                      *)
(***************************************************************************)
EXTENDS ChatRoom, SequenceTheorems, TLAPS

-----------------------------------------------------------------------------
(* The inductive invariants                                                *)

\* A section without an overrun holds the lock, and an overrun is a failure.
LockInv == /\ ~overrun => \A c \in Conns : Section(c) => lock = c
           /\ overrun => faults > 0

\* The list of a leaving section is the set, until the room is deleted.
ListInv == faults = 0 => \A c \in Conns : phase[c] \in {"send-", "delete"} => list[c] = members

Inv == TypeOK /\ LockInv /\ ListInv

-----------------------------------------------------------------------------
LEMMA InitInv == Init => Inv
<1> SUFFICES ASSUME Init PROVE Inv
  OBVIOUS
<1>1. <<>> \in Seq(SUBSET Users)
  BY EmptySeq
<1>2. inbox \in [Conns -> Seq(SUBSET Users)]
  BY <1>1 DEF Init
<1>3. /\ faults \in 0..MaxFaults
      /\ phase \in [Conns -> {"none", "auth", "join", "accept", "lock+", "open",
                              "leaving", "lock-", "closed"} \cup Adding \cup Removing]
  BY FaultsAssumption DEF Init
<1>4. TypeOK
  BY <1>2, <1>3 DEF Init, TypeOK
<1>5. LockInv /\ ListInv
  BY DEF Init, LockInv, ListInv, Section, Adding, Removing
<1> QED
  BY <1>4, <1>5 DEF Inv

\* What Ends leaves behind has the right types.
LEMMA EndsType ==
  ASSUME TypeOK, NEW C \in SUBSET Conns, Ends(C)
  PROVE  /\ inbox' \in [Conns -> Seq(SUBSET Users)]
         /\ view' \in [Conns -> SUBSET Users]
         /\ list' \in [Conns -> SUBSET Users]
<1>1. <<>> \in Seq(SUBSET Users)
  BY EmptySeq
<1> QED
  BY <1>1 DEF Ends, TypeOK

\* Every step preserves the types of the variables.
LEMMA TypeStep == TypeOK /\ [Next]_vars => TypeOK'
<1> SUFFICES ASSUME TypeOK, [Next]_vars PROVE TypeOK'
  OBVIOUS
<1>0. Fault => faults' \in 0..MaxFaults
  BY FaultsAssumption DEF Fault, TypeOK
<1> USE ConnsAssumption, <1>0 DEF TypeOK, histVars, Goto, Owner, Adding, Removing
<1>1. ASSUME NEW c \in Conns, Open(c) \/ Refuse(c) \/ Joins(c) PROVE TypeOK'
  BY <1>1 DEF Open, Refuse, Joins, Authenticate, GroupAdd, Accept
<1>2. ASSUME NEW c \in Conns, Acquire(c) \/ UnlockAdd(c) PROVE TypeOK'
  BY <1>2 DEF Acquire, UnlockAdd, FreeOwn
<1>3. ASSUME NEW c \in Conns, Sadd(c) \/ Srem(c) \/ Delete(c) PROVE TypeOK'
  BY <1>3 DEF Sadd, Srem, Delete
<1>4. ASSUME NEW c \in Conns, Smembers(c) PROVE TypeOK'
  BY <1>4 DEF Smembers
<1>5. ASSUME NEW c \in Conns, Broadcast(c) PROVE TypeOK'
  <2>1. \A d \in Conns : Append(inbox[d], list[c]) \in Seq(SUBSET Users)
    BY AppendProperties
  <2>2. inbox' \in [Conns -> Seq(SUBSET Users)]
    BY <1>5, <2>1 DEF Broadcast
  <2> QED
    BY <1>5, <2>2 DEF Broadcast
<1>6. ASSUME NEW c \in Conns, HandleMembers(c) PROVE TypeOK'
  <2>1. Head(inbox[c]) \in SUBSET Users /\ Tail(inbox[c]) \in Seq(SUBSET Users)
    BY <1>6, HeadTailProperties DEF HandleMembers
  <2> QED
    BY <1>6, <2>1 DEF HandleMembers
<1>7. ASSUME NEW c \in Conns, Discard(c) PROVE TypeOK'
  <2>1. {c} \in SUBSET Conns /\ Ends({c})
    BY <1>7 DEF Discard
  <2>2. /\ inbox' \in [Conns -> Seq(SUBSET Users)]
        /\ view' \in [Conns -> SUBSET Users]
        /\ list' \in [Conns -> SUBSET Users]
    BY <2>1, EndsType
  <2> QED
    BY <1>7, <2>2 DEF Discard
<1>8. ASSUME NEW c \in Conns, UnlockRemove(c) PROVE TypeOK'
  <2>1. {c} \in SUBSET Conns /\ Ends({c})
    BY <1>8 DEF UnlockRemove
  <2>2. /\ inbox' \in [Conns -> Seq(SUBSET Users)]
        /\ view' \in [Conns -> SUBSET Users]
        /\ list' \in [Conns -> SUBSET Users]
    BY <2>1, EndsType
  <2> QED
    BY <1>8, <2>2 DEF UnlockRemove, FreeOwn
<1>9. ASSUME NEW c \in Conns, ConnectFails(c) \/ AddFails(c) \/ SendFails(c) PROVE TypeOK'
  BY <1>9 DEF ConnectFails, AddFails, SendFails
<1>10. ASSUME NEW c \in Conns, ReadFails(c) PROVE TypeOK'
  BY <1>10 DEF ReadFails
<1>11. ASSUME NEW c \in Conns, RemoveFails(c) PROVE TypeOK'
  <2>1. {c} \in SUBSET Conns /\ Ends({c})
    BY <1>11 DEF RemoveFails
  <2>2. /\ inbox' \in [Conns -> Seq(SUBSET Users)]
        /\ view' \in [Conns -> SUBSET Users]
        /\ list' \in [Conns -> SUBSET Users]
    BY <2>1, EndsType
  <2> QED
    BY <1>11, <2>2 DEF RemoveFails, FreeOwn
<1>12. ASSUME NEW c \in Conns, DisconnectFails(c) PROVE TypeOK'
  <2>1. {c} \in SUBSET Conns /\ Ends({c})
    BY <1>12 DEF DisconnectFails
  <2>2. /\ inbox' \in [Conns -> Seq(SUBSET Users)]
        /\ view' \in [Conns -> SUBSET Users]
        /\ list' \in [Conns -> SUBSET Users]
    BY <2>1, EndsType
  <2> QED
    BY <1>12, <2>2 DEF DisconnectFails
<1>13. CASE ServerCrash
  BY <1>13, EndsType DEF ServerCrash
<1>14. CASE LockExpires \/ LockOverrun
  BY <1>14 DEF LockExpires, LockOverrun
<1>15. CASE UNCHANGED vars
  BY <1>15 DEF vars
<1> QED
  BY <1>1, <1>2, <1>3, <1>4, <1>5, <1>6, <1>7, <1>8, <1>9, <1>10, <1>11, <1>12,
     <1>13, <1>14, <1>15 DEF Next, Works, Fails

\* Every step keeps the lock with the section, or counts as an overrun.
LEMMA LockStep == Inv /\ [Next]_vars => LockInv'
<1> SUFFICES ASSUME TypeOK, LockInv, [Next]_vars PROVE LockInv'
  BY DEF Inv
<1> USE NoOneAssumption, FaultsAssumption
    DEF TypeOK, LockInv, histVars, Goto, Fault, Section, Adding, Removing
<1>1. ASSUME NEW c \in Conns, Open(c) \/ Refuse(c) \/ Joins(c) \/ HandleMembers(c)
      PROVE  LockInv'
  BY <1>1 DEF Open, Refuse, Joins, Authenticate, GroupAdd, Accept, HandleMembers
<1>2. ASSUME NEW c \in Conns, Acquire(c) PROVE LockInv'
  BY <1>2 DEF Acquire
<1>3. ASSUME NEW c \in Conns, Sadd(c) \/ Srem(c) \/ Delete(c) PROVE LockInv'
  BY <1>3 DEF Sadd, Srem, Delete
<1>4. ASSUME NEW c \in Conns, Smembers(c) \/ Broadcast(c) PROVE LockInv'
  BY <1>4 DEF Smembers, Broadcast
<1>5. ASSUME NEW c \in Conns, UnlockAdd(c) PROVE LockInv'
  BY <1>5 DEF UnlockAdd, FreeOwn
<1>6. ASSUME NEW c \in Conns, UnlockRemove(c) PROVE LockInv'
  BY <1>6 DEF UnlockRemove, FreeOwn
<1>7. ASSUME NEW c \in Conns, Discard(c) PROVE LockInv'
  BY <1>7 DEF Discard
<1>8. ASSUME NEW c \in Conns, ConnectFails(c) \/ AddFails(c) \/ SendFails(c) PROVE LockInv'
  BY <1>8 DEF ConnectFails, AddFails, SendFails
<1>9. ASSUME NEW c \in Conns, ReadFails(c) PROVE LockInv'
  BY <1>9 DEF ReadFails
<1>10. ASSUME NEW c \in Conns, RemoveFails(c) PROVE LockInv'
  BY <1>10 DEF RemoveFails, FreeOwn
<1>11. ASSUME NEW c \in Conns, DisconnectFails(c) PROVE LockInv'
  BY <1>11 DEF DisconnectFails
<1>12. CASE ServerCrash
  BY <1>12 DEF ServerCrash
<1>13. CASE LockExpires \/ LockOverrun
  BY <1>13 DEF LockExpires, LockOverrun
<1>14. CASE UNCHANGED vars
  BY <1>14 DEF vars
<1> QED
  BY <1>1, <1>2, <1>3, <1>4, <1>5, <1>6, <1>7, <1>8, <1>9, <1>10, <1>11, <1>12,
     <1>13, <1>14 DEF Next, Works, Fails

\* Without a failure two sections never meet.
LEMMA Alone ==
  ASSUME Inv, faults = 0, NEW c \in Conns, NEW d \in Conns, Section(c), Section(d)
  PROVE  c = d
BY DEF Inv, LockInv

\* Every step without a failure keeps the list of a leaving section exact.
LEMMA ListStep == Inv /\ [Next]_vars => ListInv'
<1> SUFFICES ASSUME Inv, [Next]_vars, faults' = 0 PROVE ListInv'
  BY DEF ListInv
<1> USE DEF TypeOK, Inv, ListInv, Goto
<1>0. faults \in Nat
  BY FaultsAssumption
<1>1. ASSUME NEW c \in Conns, Open(c) \/ Refuse(c) \/ Joins(c) \/ HandleMembers(c)
      PROVE  ListInv'
  BY <1>1 DEF Open, Refuse, Joins, Authenticate, GroupAdd, Accept, HandleMembers
<1>2. ASSUME NEW c \in Conns, Acquire(c) PROVE ListInv'
  BY <1>2 DEF Acquire
<1>3. ASSUME NEW c \in Conns, Sadd(c) \/ Srem(c) PROVE ListInv'
  <2>1. faults = 0 /\ Section(c) /\ phase'[c] \in {"read+", "read-"}
    BY <1>3 DEF Sadd, Srem, Section, Adding, Removing
  <2>2. \A d \in Conns : d # c => ~Section(d)
    BY <2>1, Alone
  <2>3. \A d \in Conns : d # c => phase'[d] = phase[d]
    BY <1>3 DEF Sadd, Srem
  <2> QED
    BY <2>1, <2>2, <2>3 DEF Section, Removing
<1>4. ASSUME NEW c \in Conns, Smembers(c) \/ Broadcast(c) PROVE ListInv'
  BY <1>4 DEF Smembers, Broadcast
<1>5. ASSUME NEW c \in Conns, Delete(c) PROVE ListInv'
  BY <1>5 DEF Delete
<1>6. ASSUME NEW c \in Conns, UnlockAdd(c) PROVE ListInv'
  BY <1>6 DEF UnlockAdd
<1>7. ASSUME NEW c \in Conns, Discard(c) PROVE ListInv'
  BY <1>7 DEF Discard, Ends
<1>8. ASSUME NEW c \in Conns, UnlockRemove(c) PROVE ListInv'
  BY <1>8 DEF UnlockRemove, Ends
<1>9. ASSUME NEW c \in Conns, Fails(c) PROVE FALSE
  BY <1>0, <1>9 DEF Fails, ConnectFails, AddFails, SendFails, ReadFails,
     RemoveFails, DisconnectFails, Fault
<1>10. CASE ServerCrash \/ LockOverrun
  BY <1>0, <1>10 DEF ServerCrash, LockOverrun, Fault
<1>11. CASE LockExpires
  BY <1>11 DEF LockExpires
<1>12. CASE UNCHANGED vars
  BY <1>12 DEF vars
<1> QED
  BY <1>1, <1>2, <1>3, <1>4, <1>5, <1>6, <1>7, <1>8, <1>9, <1>10, <1>11, <1>12
     DEF Next, Works

LEMMA InvStep == Inv /\ [Next]_vars => Inv'
BY TypeStep, LockStep, ListStep DEF Inv

LEMMA Invariance == Spec => []Inv
BY InitInv, InvStep, PTL DEF Spec

-----------------------------------------------------------------------------
(* Theorems                                                                *)

\* Every variable has its type in every state.
THEOREM TypeCorrect == Spec => []TypeOK
<1>1. Inv => TypeOK
  BY DEF Inv
<1> QED
  BY <1>1, Invariance, PTL

\* Until a section outlives the lock, no two sockets are in a section at the
\* same time, whatever fails or crashes.
THEOREM MutualExclusion == Spec => []OneSectionAtATime
<1>1. Inv => OneSectionAtATime
  BY DEF Inv, LockInv, OneSectionAtATime
<1> QED
  BY <1>1, Invariance, PTL

\* As long as no call fails a user leaves the list only by a socket of that
\* user that leaves: the deletion of the key removes nobody.
THEOREM NobodyElseIsDropped == Spec => OnlyLeaversAreDropped
<1> DEFINE Dropped == faults = 0 => \A u \in members \ members' :
                        \E c \in Conns : Owner(c) = u /\ phase[c] = "remove"
<1>1. Inv /\ [Next]_vars => [Dropped]_vars
  <2> SUFFICES ASSUME Inv, [Next]_vars, faults = 0, NEW u \in members \ members'
               PROVE  \E c \in Conns : Owner(c) = u /\ phase[c] = "remove"
    OBVIOUS
  <2>1. ASSUME NEW c \in Conns, Srem(c)
        PROVE  \E d \in Conns : Owner(d) = u /\ phase[d] = "remove"
    BY <2>1 DEF Srem, Goto
  <2>2. ASSUME NEW c \in Conns, Delete(c) PROVE FALSE
    BY <2>2 DEF Delete, Goto, Inv, ListInv
  <2>3. ASSUME NEW c \in Conns,
               \/ Open(c) \/ Refuse(c) \/ Joins(c) \/ Acquire(c) \/ HandleMembers(c)
               \/ Discard(c) \/ Fails(c) \/ Sadd(c) \/ Smembers(c) \/ Broadcast(c)
               \/ UnlockAdd(c) \/ UnlockRemove(c)
        PROVE  FALSE
    BY <2>3 DEF Open, Refuse, Joins, Authenticate, GroupAdd, Accept, Acquire,
       HandleMembers, Discard, Fails, ConnectFails, AddFails, SendFails,
       ReadFails, RemoveFails, DisconnectFails, Sadd, Smembers, Broadcast,
       UnlockAdd, UnlockRemove
  <2>4. CASE ServerCrash \/ LockExpires \/ LockOverrun \/ UNCHANGED vars
    BY <2>4 DEF ServerCrash, LockExpires, LockOverrun, vars
  <2> QED
    BY <2>1, <2>2, <2>3, <2>4 DEF Next, Works
<1> QED
  BY <1>1, Invariance, PTL DEF Spec, OnlyLeaversAreDropped
=============================================================================
