------------------------------ MODULE IdSource ------------------------------
(***************************************************************************)
(* What the tasks that send with retry count on: every call of             *)
(* nextWriteIndex returns the number after that of the call before, as if  *)
(* the calls came one at a time.  Counter implements this.                 *)
(***************************************************************************)
EXTENDS Integers

CONSTANT IndexSpace  \* number of values of a uint64_t

VARIABLES
  next,              \* the number the next call returns
  issued             \* number -> how often it was returned

vars == <<next, issued>>

Init == issued = [i \in 0 .. IndexSpace - 1 |-> 0]

Take ==
  /\ issued' = [issued EXCEPT ![next] = @ + 1]
  /\ next' = IF next + 1 = IndexSpace THEN 0 ELSE next + 1

Spec == Init /\ [][Take]_vars
=============================================================================
