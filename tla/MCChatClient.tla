---------------------------- MODULE MCChatClient ----------------------------
(***************************************************************************)
(* TLC's instance of ChatClient: a program, and a client that does as it   *)
(* likes.                                                                  *)
(***************************************************************************)
EXTENDS ChatClient, TLC

CONSTANTS c1, c2

TwoClients == {c1, c2}
OneProgram == {c1}

ThreeBytes == <<FALSE, FALSE, TRUE>>

Sends6And1 == (c1 :> 6) @@ (c2 :> 1)
=============================================================================
