------------------------------- MODULE Outbox -------------------------------
(***************************************************************************)
(* What a task that calls sendMessageAndRetry gets: its message is one of  *)
(* at most Capacity that are held, is attempted as often as was asked, and *)
(* is given up with its last attempt or cleared by a response.  A message  *)
(* to be sent 0 times (retry = -1) is dropped unsent or, when it came to   *)
(* an attempt, sent NumberSpace times.  Queue implements this.             *)
(***************************************************************************)
EXTENDS Integers, FiniteSets

CONSTANTS
  Ids,
  Capacity,
  Retries,      \* the retry arguments that callers use
  NumberSpace   \* number of values of the counter of attempts

VARIABLES
  budget,       \* id -> attempts asked for
  attempts,     \* id -> attempts made
  fate          \* id -> what became of the message

vars == <<budget, attempts, fate>>

Held == {i \in Ids : fate[i] = "queued"}

Accept(i) ==
  /\ fate[i] = "none"
  /\ Cardinality(Held) < Capacity
  /\ \E r \in Retries : budget' = [budget EXCEPT ![i] = r + 1]
  /\ fate' = [fate EXCEPT ![i] = "queued"]
  /\ UNCHANGED attempts

\* The attempt about to be made is the last one.
IsLast(i) == attempts[i] + 1 = IF budget[i] = 0 THEN NumberSpace ELSE budget[i]

Attempt(i) ==
  /\ fate[i] = "queued"
  /\ attempts' = [attempts EXCEPT ![i] = @ + 1]
  /\ fate' = IF IsLast(i) THEN [fate EXCEPT ![i] = "spent"] ELSE fate
  /\ UNCHANGED budget

Drop(i) ==
  /\ fate[i] = "queued"
  /\ budget[i] = 0 /\ attempts[i] = 0
  /\ fate' = [fate EXCEPT ![i] = "spent"]
  /\ UNCHANGED <<budget, attempts>>

Clear(i) ==
  /\ fate[i] = "queued"
  /\ fate' = [fate EXCEPT ![i] = "cleared"]
  /\ UNCHANGED <<budget, attempts>>

Init ==
  /\ budget = [i \in Ids |-> 0]
  /\ attempts = [i \in Ids |-> 0]
  /\ fate = [i \in Ids |-> "none"]

Next == \E i \in Ids : Accept(i) \/ Attempt(i) \/ Drop(i) \/ Clear(i)

Spec == Init /\ [][Next]_vars
=============================================================================
