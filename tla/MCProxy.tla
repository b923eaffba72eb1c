------------------------------ MODULE MCProxy ------------------------------
(* Instance of Proxy for TLC.  Bytes have 16 values where lengths are cut,  *)
(* so that an address of 19 characters is a long one.                       *)
EXTENDS Proxy

MCText(n) == [i \in 1 .. n |-> Char(96 + i)]

\* A plain address, one with two colons, and long ones.
MCHubs ==
  {[ip |-> MCText(1), sep |-> <<Colon>>, port |-> 40],
   [ip |-> <<Char(97), Colon, Char(98)>>, sep |-> <<Colon>>, port |-> 7],
   [ip |-> MCText(14), sep |-> <<Colon>>, port |-> 1234],
   [ip |-> MCText(15), sep |-> <<Colon>>, port |-> 80]}

\* An address without a colon.
MCBareHubs == {[ip |-> MCText(3), sep |-> <<>>, port |-> 40]}

MCProjectID == <<Char(112)>>
MCConnectionName == <<Char(99)>>

\* A project's token as long as that of a ticket, and a longer one.
MCProjectTokens == {<<Char(1), Char(2)>>, <<Char(1), Char(2), Char(3)>>}
=============================================================================
