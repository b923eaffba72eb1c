------------------------------ MODULE Mailbox ------------------------------
(***************************************************************************)
(* What a device and its hub promise each other about the reliable         *)
(* messages to the device: a message is handed to the callback at most     *)
(* once before the device restarts, never again once the hub knows that it *)
(* was read, and the hub believes so only of messages that were handed.    *)
(***************************************************************************)
EXTENDS Naturals

CONSTANT Tags  \* the messages' numbers, from 0

VARIABLES
  accepted,   \* messages 0 .. accepted - 1 were given to the hub
  handed,     \* message -> how often it was handed over since the device started
  everHanded, \* handed over at any time
  confirmed   \* the hub knows that they were read

vars == <<accepted, handed, everHanded, confirmed>>

Init == accepted = 0 /\ handed = [t \in Tags |-> 0] /\ everHanded = {} /\ confirmed = {}

Accept == accepted' = accepted + 1 /\ UNCHANGED <<handed, everHanded, confirmed>>

HandOver(t) ==
  /\ t < accepted
  /\ handed[t] = 0 /\ t \notin confirmed
  /\ handed' = [handed EXCEPT ![t] = @ + 1]
  /\ everHanded' = everHanded \cup {t}
  /\ UNCHANGED <<accepted, confirmed>>

Confirm(t) ==
  /\ t \in everHanded
  /\ confirmed' = confirmed \cup {t}
  /\ UNCHANGED <<accepted, handed, everHanded>>

Forget == handed' = [t \in Tags |-> 0] /\ UNCHANGED <<accepted, everHanded, confirmed>>

Next == Accept \/ Forget \/ \E t \in Tags : HandOver(t) \/ Confirm(t)

Spec == Init /\ [][Next]_vars
=============================================================================
