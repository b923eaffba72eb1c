-------------------------- MODULE ConcurrencyQueue --------------------------
(***************************************************************************)
(* synchronization/concurrency_queue.h: the ring buffer between the task   *)
(* that reads the socket (Connection::loopListen, push) and the task that  *)
(* handles messages (Connector::listen, through getMessage, pop).          *)
(*                                                                         *)
(* "size" is an atomic, so each access to it is a step.  The spin lock     *)
(* guards only the two statements that read and advance an index, and no   *)
(* other code touches that index: a critical section is one step, Claim.   *)
(* The slot is written, or swapped out, after the lock is released.        *)
(* clear() has no caller and is left out.                                  *)
(*                                                                         *)
(* Values are numbered 1, 2, ... in the order the calls of push begin.     *)
(***************************************************************************)
EXTENDS Integers, Sequences, FiniteSets

CONSTANTS
  Capacity,    \* capacity of the queue
  Producers, Consumers,
  MaxPushes,   \* bound: how often push is called
  MaxPops,     \* bound: how many slots pop claims
  Raw,         \* storage never constructed
  Empty        \* a default constructed value: what pop leaves in the slot

ASSUME ConcurrencyQueueAssumption ==
  /\ Capacity \in Nat \ {0}
  /\ MaxPushes \in Nat /\ MaxPops \in Nat
  /\ IsFiniteSet(Producers) /\ IsFiniteSet(Consumers)
  /\ Producers \cap Consumers = {}
  /\ Raw \notin Nat /\ Empty \notin Nat /\ Raw # Empty

Slots == 0 .. Capacity - 1
Values == 1 .. MaxPushes
Content == Values \cup {Raw, Empty}
Processes == Producers \cup Consumers

VARIABLES
  buffer, size, index_read, index_write,
  pc, index, value,   \* per process: control, claimed slot, value to push
  \* history
  calls,              \* calls of push so far
  pushed,             \* values in the order their producers claimed a slot
  reads,              \* slots claimed by consumers
  turn,               \* consumer -> the number of its current claim
  popped,             \* what pop returned with Nil, by claim number
  refused,            \* some push found the queue full
  raced               \* a slot was read before it was written, or written
                      \* before it was read out

queueVars == <<buffer, size, index_read, index_write>>
history == <<calls, pushed, reads, turn, popped, refused, raced>>
vars == <<queueVars, pc, index, value, history>>

Goto(p, l) == pc' = [pc EXCEPT ![p] = l]

\* Below 0 a uint32_t is huge, hence full.
Full == size >= Capacity \/ size < 0

\* Mutant: the index runs off the buffer.
AdvanceNoWrap(i) == i + 1
Advance(i) == (i + 1) % Capacity

-----------------------------------------------------------------------------
(***************************************************************************)
(* push                                                                    *)
(***************************************************************************)
\* Mutant: the addition is not undone when the queue is full.
ReserveKeeps(p) ==
  /\ pc[p] = "idle" /\ calls < MaxPushes
  /\ calls' = calls + 1
  /\ value' = [value EXCEPT ![p] = calls + 1]
  /\ size' = size + 1
  /\ refused' = (refused \/ Full)
  /\ Goto(p, IF Full THEN "idle" ELSE "claim")
  /\ UNCHANGED <<buffer, index_read, index_write, index, pushed, reads, turn, popped, raced>>

\* syncPush: size.fetch_add(1) >= capacity.
Reserve(p) ==
  /\ pc[p] = "idle" /\ calls < MaxPushes
  /\ calls' = calls + 1
  /\ value' = [value EXCEPT ![p] = calls + 1]
  /\ size' = size + 1
  /\ refused' = (refused \/ Full)
  /\ Goto(p, IF Full THEN "undo" ELSE "claim")
  /\ UNCHANGED <<buffer, index_read, index_write, index, pushed, reads, turn, popped, raced>>

\* The queue is full: size.fetch_sub(1), the value is not queued.
Undo(p) ==
  /\ pc[p] = "undo"
  /\ size' = size - 1
  /\ Goto(p, "idle")
  /\ UNCHANGED <<buffer, index_read, index_write, index, value, history>>

\* The critical section of syncPush.
ClaimWrite(p) ==
  /\ pc[p] = "claim"
  /\ index' = [index EXCEPT ![p] = index_write]
  /\ index_write' = Advance(index_write)
  /\ pushed' = Append(pushed, value[p])
  /\ Goto(p, "write")
  /\ UNCHANGED <<buffer, size, index_read, value, calls, reads, turn, popped, raced, refused>>

\* A process that claimed this slot and has not come to it yet.
Claimed(slot, procs, label) == \E q \in procs : pc[q] = label /\ index[q] = slot

\* Placement new over whatever the slot holds.
Write(p) ==
  /\ pc[p] = "write"
  /\ buffer' = [buffer EXCEPT ![index[p]] = value[p]]
  /\ raced' = (raced \/ Claimed(index[p], Consumers, "swap")
                     \/ Claimed(index[p], Producers \ {p}, "write")
                     \/ buffer[index[p]] \in Values)
  /\ Goto(p, "idle")
  /\ UNCHANGED <<size, index_read, index_write, index, value, calls, pushed, reads, turn, popped, refused>>

-----------------------------------------------------------------------------
(***************************************************************************)
(* pop                                                                     *)
(***************************************************************************)
\* Mutant: pop does not look whether the queue is empty.
LoadUnchecked(c) ==
  /\ pc[c] = "idle" /\ reads < MaxPops
  /\ Goto(c, "subtract")
  /\ UNCHANGED <<queueVars, index, value, history>>

\* size.load() == 0: pop returns Empty and changes nothing.
Load(c) ==
  /\ pc[c] = "idle" /\ reads < MaxPops
  /\ size # 0
  /\ Goto(c, "subtract")
  /\ UNCHANGED <<queueVars, index, value, history>>

Subtract(c) ==
  /\ pc[c] = "subtract"
  /\ size' = size - 1
  /\ Goto(c, "claim")
  /\ UNCHANGED <<buffer, index_read, index_write, index, value, history>>

\* Mutant: the index is advanced before it is taken.
ClaimReadAdvanced(c) ==
  /\ pc[c] = "claim"
  /\ index' = [index EXCEPT ![c] = Advance(index_read)]
  /\ index_read' = Advance(index_read)
  /\ reads' = reads + 1
  /\ turn' = [turn EXCEPT ![c] = reads + 1]
  /\ Goto(c, "swap")
  /\ UNCHANGED <<buffer, size, index_write, value, calls, pushed, popped, raced, refused>>

\* The critical section of pop.
ClaimRead(c) ==
  /\ pc[c] = "claim"
  /\ index' = [index EXCEPT ![c] = index_read]
  /\ index_read' = Advance(index_read)
  /\ reads' = reads + 1
  /\ turn' = [turn EXCEPT ![c] = reads + 1]
  /\ Goto(c, "swap")
  /\ UNCHANGED <<buffer, size, index_write, value, calls, pushed, popped, raced, refused>>

\* std::swap with a default constructed value; the result is returned with Nil.
Swap(c) ==
  /\ pc[c] = "swap"
  /\ popped' = popped \cup {[turn |-> turn[c], value |-> buffer[index[c]]]}
  /\ buffer' = [buffer EXCEPT ![index[c]] = Empty]
  /\ raced' = (raced \/ buffer[index[c]] \notin Values)
  /\ Goto(c, "idle")
  /\ UNCHANGED <<size, index_read, index_write, index, value, calls, pushed, reads, turn, refused>>

-----------------------------------------------------------------------------
Init ==
  /\ buffer = [s \in Slots |-> Raw]
  /\ size = 0
  /\ index_read = 0
  /\ index_write = 0
  /\ pc = [p \in Processes |-> "idle"]
  /\ index = [p \in Processes |-> 0]
  /\ value = [p \in Producers |-> 0]
  /\ calls = 0
  /\ pushed = <<>>
  /\ reads = 0
  /\ turn = [c \in Consumers |-> 0]
  /\ popped = {}
  /\ refused = FALSE
  /\ raced = FALSE

Push(p) == Reserve(p) \/ Undo(p) \/ ClaimWrite(p) \/ Write(p)
Pop(c) == Load(c) \/ Subtract(c) \/ ClaimRead(c) \/ Swap(c)

Next == (\E p \in Producers : Push(p)) \/ (\E c \in Consumers : Pop(c))

Spec == Init /\ [][Next]_vars

-----------------------------------------------------------------------------
TypeOK ==
  /\ buffer \in [Slots -> Content]
  /\ size \in Int
  /\ index_read \in Slots
  /\ index_write \in Slots
  /\ pc \in [Processes -> {"idle", "undo", "claim", "write", "subtract", "swap"}]
  /\ index \in [Processes -> Slots]
  /\ value \in [Producers -> Values \cup {0}]
  /\ calls \in 0 .. MaxPushes
  /\ pushed \in Seq(Values)
  /\ reads \in Nat
  /\ turn \in [Consumers -> Nat]
  /\ popped \subseteq [turn : Nat, value : Content]
  /\ refused \in BOOLEAN
  /\ raced \in BOOLEAN

\* "size" never goes below 0, where it would wrap: then every push finds the
\* queue full and every pop finds it not empty, for ever.  The code keeps
\* "size" outside the lock as a mere optimisation (concurrency_queue.h:22).
NoUnderflow == size >= 0

\* With one consumer "size" cannot go below 0 before some push was refused: it
\* takes the addition that a refused push has yet to undo to make pop's test
\* (line 108) and its subtraction (line 112) disagree.
NoUnderflowBeforeFull ==
  Cardinality(Consumers) = 1 /\ ~refused => size >= 0

\* At every step "size" is the number of slots claimed by push and not yet by
\* pop, corrected by exactly the processes between their two statements; no
\* interleaving loses or repeats an update.
SizeAccounts ==
  size = Len(pushed) - reads
         + Cardinality({p \in Producers : pc[p] \in {"claim", "undo"}})
         - Cardinality({c \in Consumers : pc[c] = "claim"})

\* Until a slot access races, the one consumer of this program gets the values
\* first in first out: its k-th pop returns the k-th value queued, although slots
\* are written and swapped out after the lock (concurrency_queue.h:80-88, 117-127).
Fifo == ~raced => \A r \in popped : /\ r.turn <= Len(pushed)
                                    /\ r.value = pushed[r.turn]
=============================================================================
