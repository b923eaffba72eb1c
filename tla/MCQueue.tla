------------------------------ MODULE MCQueue ------------------------------
(* Instances of Queue for TLC.                                             *)
EXTENDS Queue

MCRetries == {-1, 0, 1}
MCPlainRetries == {0, 1}
=============================================================================
