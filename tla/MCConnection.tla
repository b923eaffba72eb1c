---------------------------- MODULE MCConnection ----------------------------
(* Instances of Connection for TLC: bytes of three values, so that a length *)
(* of 3 needs the second byte of the header, and a ring of two slots, which *)
(* three frames fill or go round.                                           *)
EXTENDS Connection
=============================================================================
