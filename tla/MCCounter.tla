----------------------------- MODULE MCCounter -----------------------------
(* Instances of Counter for TLC: windows of 2 tags instead of 32.     *)
EXTENDS Counter

MCTags == 0 .. 6
MCTickets == { [idxWrite |-> 1, idxRead |-> 0, maskRead |-> {}],
               [idxWrite |-> 7, idxRead |-> 1, maskRead |-> {1}] }
=============================================================================
