----------------------------- MODULE MCChatRoom -----------------------------
(* Two users, one of whom has two sockets, one after the other or as tabs:   *)
(* the sections of three sockets meet at the lock.                           *)
EXTENDS ChatRoom

CONSTANTS u1, u2

OneComesBack == {<<u1, 1>>, <<u1, 2>>, <<u2, 1>>}
=============================================================================
