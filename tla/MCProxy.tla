------------------------------ MODULE MCProxy -------------------------------
(***************************************************************************)
(* TLC's instances of Proxy: the client sockets are model values.          *)
(***************************************************************************)
EXTENDS Proxy

CONSTANTS k1

OneClient == {k1}
Sends2And2 == [client |-> 2, server |-> 2]
Sends3And0 == [client |-> 3, server |-> 0]
=============================================================================
