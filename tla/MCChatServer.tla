---------------------------- MODULE MCChatServer ----------------------------
(***************************************************************************)
(* TLC's instances of ChatServer: the clients are model values.            *)
(***************************************************************************)
EXTENDS ChatServer, TLC

CONSTANTS c1, c2

TwoClients == {c1, c2}

Sends1And1 == (c1 :> 1) @@ (c2 :> 1)
Sends0And0 == (c1 :> 0) @@ (c2 :> 0)
=============================================================================
