------------------------------ MODULE Session ------------------------------
(***************************************************************************)
(* What the two tasks of a device keep of its sessions, whatever order     *)
(* they run in: every registration is good for one connection, made after  *)
(* its key was installed, and a message is acted on only for a session not *)
(* earlier than the last one acted for and not later than the key's.       *)
(***************************************************************************)
EXTENDS Naturals

VARIABLES
  registered,  \* number of the last registration
  fresh,       \* it was neither used for a connection nor given up
  installed,   \* the registration whose key is in use
  line,        \* the registration of the open connection, or 0
  acted        \* the registration of the last message acted on

vars == <<registered, fresh, installed, line, acted>>

Init == registered = 0 /\ fresh = FALSE /\ installed = 0 /\ line = 0 /\ acted = 0

Register ==
  /\ ~fresh
  /\ registered' = registered + 1 /\ fresh' = TRUE
  /\ UNCHANGED <<installed, line, acted>>

Install ==
  /\ fresh
  /\ installed' = registered
  /\ UNCHANGED <<registered, fresh, line, acted>>

Open ==
  /\ fresh /\ installed = registered
  /\ line' = installed /\ fresh' = FALSE
  /\ UNCHANGED <<registered, installed, acted>>

GiveUp ==
  /\ fresh' = FALSE
  /\ UNCHANGED <<registered, installed, line, acted>>

Close ==
  /\ line' = 0
  /\ UNCHANGED <<registered, fresh, installed, acted>>

Act(n) ==
  /\ acted <= n /\ n <= installed
  /\ acted' = n
  /\ UNCHANGED <<registered, fresh, installed, line>>

Next == \/ Register \/ Install \/ Open \/ GiveUp \/ Close
        \/ \E n \in acted .. installed : Act(n)

Spec == Init /\ [][Next]_vars
=============================================================================
