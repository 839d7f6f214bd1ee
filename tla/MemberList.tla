----------------------------- MODULE MemberList -----------------------------
(***************************************************************************)
(* What a chat room promises its clients as long as no call fails: a list  *)
(* that changes by one arrival or one departure at a time, each change     *)
(* told to every socket that listens, and shown in the order of the        *)
(* changes.  Where the list is kept, and who may change it when, is        *)
(* ChatRoom's.                                                             *)
(*                                                                         *)
(* The list is one of users and not of sockets: who leaves with one of two *)
(* sockets is taken off.                                                   *)
(***************************************************************************)
EXTENDS Sequences

CONSTANT Conns   \* the sockets <<user, n>>

VARIABLES
  announced,   \* the list as it was last told
  listening,   \* sockets that are told of changes
  present,     \* sockets whose arrival was announced, and not yet their departure
  inbox,       \* lists on their way to a client
  view,        \* the list a client shows
  intact       \* no call has failed

vars == <<announced, listening, present, inbox, view, intact>>

Init == /\ announced = {} /\ listening = {} /\ present = {}
        /\ inbox = [c \in Conns |-> <<>>]
        /\ view  = [c \in Conns |-> {}]
        /\ intact = TRUE

Listen(c) == /\ listening' = listening \cup {c}
             /\ UNCHANGED <<announced, present, inbox, view>>

\* The new list goes to every socket that listens.
Announce(users) ==
  /\ announced' = users
  /\ inbox' = [c \in Conns |-> IF c \in listening THEN Append(inbox[c], users) ELSE inbox[c]]
  /\ UNCHANGED <<listening, view>>

\* Who arrives is told of it as well.
Arrive(c) == /\ c \in listening \ present
             /\ present' = present \cup {c}
             /\ Announce(announced \cup {c[1]})

\* Lists are shown in the order in which they were announced.
Show(c) == /\ c \in listening \cap present
           /\ inbox[c] # <<>>
           /\ view' = [view EXCEPT ![c] = Head(inbox[c])]
           /\ inbox' = [inbox EXCEPT ![c] = Tail(@)]
           /\ UNCHANGED <<announced, listening, present>>

\* A socket that closes listens no more, and is announced to have left later on.
Close(c) == /\ c \in listening \cap present
            /\ listening' = listening \ {c}
            /\ inbox' = [inbox EXCEPT ![c] = <<>>]
            /\ view' = [view EXCEPT ![c] = {}]
            /\ UNCHANGED <<announced, present>>

Depart(c) == /\ c \in present \ listening
             /\ present' = present \ {c}
             /\ Announce(announced \ {c[1]})

\* A call that fails: nothing is promised from then on.
Break == intact' = FALSE

Next == \/ /\ UNCHANGED intact
           /\ \E c \in Conns : Listen(c) \/ Arrive(c) \/ Show(c) \/ Close(c) \/ Depart(c)
        \/ Break

Spec == Init /\ [][Next]_vars
=============================================================================
