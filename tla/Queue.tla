------------------------------- MODULE Queue -------------------------------
(***************************************************************************)
(* cso_queue/queue.cpp: the messages that Connector sends with retry.      *)
(*                                                                         *)
(* Senders are the tasks that call sendMessageAndRetry (connector.cpp:312  *)
(* doSendMessageRetry): takeIndex, a new id, pushMessage.  The listener is *)
(* the one task that runs Connector::listen; it calls nextMessage, sends   *)
(* what it returns, and calls clearMessage for every response.             *)
(*                                                                         *)
(* "length" is atomic; the slots are plain pointers, read and written word *)
(* by word, so each slot visited is a step.                                *)
(*                                                                         *)
(* Time: an item is due when its timestamp is 3 seconds old.  The model    *)
(* keeps ages instead of timestamps, up to 3.  nextMessage reads the clock *)
(* once and nothing else reads it, so a second that passes during a scan   *)
(* is the same as one that passes right after it: Tick waits for the scan. *)
(***************************************************************************)
EXTENDS Integers, FiniteSets

CONSTANTS
  Capacity,    \* number of slots
  Senders,
  Retries,     \* the retry arguments that callers use
  NumberSpace, \* number of values of numberRetry, a uint32_t
  MaxIds,      \* bound: how many messages are ever sent
  Null

Slots == 0 .. Capacity - 1
Ids == 0 .. MaxIds - 1
DueAge == 3

ASSUME QueueAssumption ==
  /\ Capacity \in Nat \ {0}
  /\ NumberSpace \in Nat \ {0, 1}
  /\ MaxIds \in Nat
  /\ Retries \subseteq Int
  /\ \A r \in Retries : -1 <= r /\ r + 1 < NumberSpace

Item == [id : Ids, numberRetry : 0 .. NumberSpace - 1, age : 0 .. DueAge]
ASSUME NullAssumption == Null \notin Item \cup Ids

VARIABLES
  items, length,        \* the queue
  nextId,               \* Counter::nextWriteIndex, one step here (see Counter)
  pc, retry, mine, idx, \* per sender: control, argument, new item, loop index
  lpc, lidx, chosen,    \* listener: control, loop index, item to send
  back,                 \* where the listener goes on after length.fetch_sub
  uptime,               \* seconds since boot, up to DueAge
  air,                  \* ids that went out to the hub at some time
  \* history
  budget,               \* id -> the number of sends asked for
  attempts,             \* id -> times nextMessage chose it
  fate                  \* id -> what became of the message

senderVars == <<nextId, pc, retry, mine, idx, budget>>
listenerVars == <<lpc, lidx, chosen, back, air, attempts>>
vars == <<items, length, senderVars, listenerVars, uptime, fate>>

Occupied == {s \in Slots : items[s] # Null}

-----------------------------------------------------------------------------
(***************************************************************************)
(* A sender: doSendMessageRetry.                                           *)
(***************************************************************************)
\* Mutant: one reservation too many.
TakeIndexOneMore(s, r) ==
  /\ pc[s] = "idle" /\ nextId + Cardinality({u \in Senders : pc[u] = "number"}) < MaxIds
  /\ length <= Capacity
  /\ length' = length + 1
  /\ retry' = [retry EXCEPT ![s] = r]
  /\ pc' = [pc EXCEPT ![s] = "number"]
  /\ UNCHANGED <<items, nextId, mine, idx, budget, listenerVars, uptime, fate>>

\* takeIndex, length.fetch_add(1) < capacity.
TakeIndex(s, r) ==
  /\ pc[s] = "idle" /\ nextId + Cardinality({u \in Senders : pc[u] = "number"}) < MaxIds
  /\ length < Capacity
  /\ length' = length + 1
  /\ retry' = [retry EXCEPT ![s] = r]
  /\ pc' = [pc EXCEPT ![s] = "number"]
  /\ UNCHANGED <<items, nextId, mine, idx, budget, listenerVars, uptime, fate>>

\* takeIndex when the queue is full: the addition is undone in a second step.
TakeIndexFull(s) ==
  /\ pc[s] = "idle" /\ nextId < MaxIds
  /\ length >= Capacity
  /\ length' = length + 1
  /\ pc' = [pc EXCEPT ![s] = "undo"]
  /\ UNCHANGED <<items, nextId, retry, mine, idx, budget, listenerVars, uptime, fate>>

Undo(s) ==
  /\ pc[s] = "undo"
  /\ length' = length - 1
  /\ pc' = [pc EXCEPT ![s] = "idle"]
  /\ UNCHANGED <<items, nextId, retry, mine, idx, budget, listenerVars, uptime, fate>>

\* new ItemQueue(counter->nextWriteIndex(), ..., retry + 1, 0).
NewItem(s) ==
  /\ pc[s] = "number"
  /\ mine' = [mine EXCEPT ![s] =
                [id |-> nextId,
                 numberRetry |-> (retry[s] + 1) % NumberSpace,
                 age |-> 0]]
  /\ budget' = [budget EXCEPT ![nextId] = retry[s] + 1]
  /\ nextId' = nextId + 1
  /\ idx' = [idx EXCEPT ![s] = 0]
  /\ pc' = [pc EXCEPT ![s] = "look"]
  /\ UNCHANGED <<items, length, retry, listenerVars, uptime, fate>>

\* pushMessage, one turn of its loop.  Past the last slot the item leaks.
LookAtSlot(s) ==
  /\ pc[s] = "look"
  /\ IF idx[s] \in Slots
     THEN IF items[idx[s]] = Null
          THEN pc' = [pc EXCEPT ![s] = "store"] /\ UNCHANGED <<idx, fate>>
          ELSE idx' = [idx EXCEPT ![s] = @ + 1] /\ UNCHANGED <<pc, fate>>
     ELSE /\ pc' = [pc EXCEPT ![s] = "idle"]
          /\ fate' = [fate EXCEPT ![mine[s].id] = "leaked"]
          /\ UNCHANGED idx
  /\ UNCHANGED <<items, length, nextId, retry, mine, budget, listenerVars, uptime>>

\* items[idx].reset(item).  The new item has timestamp 0, so it is as old as
\* the uptime.  An item another sender stored meanwhile is destroyed.
StoreItem(s) ==
  /\ pc[s] = "store"
  /\ LET old == items[idx[s]] IN
     fate' = [i \in Ids |-> CASE i = mine[s].id -> "queued"
                              [] old # Null /\ i = old.id -> "overwritten"
                              [] OTHER -> fate[i]]
  /\ items' = [items EXCEPT ![idx[s]] = [mine[s] EXCEPT !.age = uptime]]
  /\ pc' = [pc EXCEPT ![s] = "idle"]
  /\ UNCHANGED <<length, nextId, retry, mine, idx, budget, listenerVars, uptime>>

-----------------------------------------------------------------------------
(***************************************************************************)
(* The listener: nextMessage and the send that follows it.                 *)
(***************************************************************************)
StartScan ==
  /\ lpc = "idle"
  /\ lpc' = "scan"
  /\ lidx' = 0
  /\ chosen' = Null
  /\ UNCHANGED <<items, length, senderVars, back, air, attempts, uptime, fate>>

\* The slot's item after its turn: the first due one is chosen.
IsNext(item) == chosen = Null /\ item.age = DueAge

\* Mutants: the counter of the chosen item goes below zero; an item is freed one
\* send early.
VisitedBelowZero(item) ==
  IF IsNext(item) THEN [item EXCEPT !.age = 0, !.numberRetry = @ - 1] ELSE item
SpentEarly(item) == item.numberRetry <= 1

Visited(item) ==
  IF IsNext(item)
  THEN [item EXCEPT !.age = 0, !.numberRetry = (@ - 1 + NumberSpace) % NumberSpace]
  ELSE item

Spent(item) == item.numberRetry = 0

\* Bound: sends are counted up to one more than a wrapped counter allows.
CountUp(n) == IF n > NumberSpace THEN n ELSE n + 1

\* One turn of the loop over a slot that holds an item.
ScanItem ==
  /\ lpc = "scan" /\ lidx \in Slots
  /\ items[lidx] # Null
  /\ LET item == items[lidx]
         seen == Visited(item)
     IN /\ IF IsNext(item)
           THEN /\ chosen' = item.id
                /\ attempts' = [attempts EXCEPT ![item.id] = CountUp(@)]
           ELSE UNCHANGED <<chosen, attempts>>
        /\ IF Spent(seen)
           THEN /\ items' = [items EXCEPT ![lidx] = Null]
                /\ fate' = [fate EXCEPT ![item.id] = "spent"]
                /\ lpc' = "release" /\ back' = "scan"
           ELSE /\ items' = [items EXCEPT ![lidx] = seen]
                /\ UNCHANGED <<fate, lpc, back>>
  /\ lidx' = lidx + 1
  /\ UNCHANGED <<length, senderVars, air, uptime>>

\* Mutant: the scan ends at an empty slot.
ScanEmptyEnds ==
  /\ lpc = "scan" /\ lidx \in Slots
  /\ items[lidx] = Null
  /\ lidx' = Capacity
  /\ UNCHANGED <<items, length, senderVars, lpc, chosen, back, air, attempts, uptime, fate>>

ScanEmpty ==
  /\ lpc = "scan" /\ lidx \in Slots
  /\ items[lidx] = Null
  /\ lidx' = lidx + 1
  /\ UNCHANGED <<items, length, senderVars, lpc, chosen, back, air, attempts, uptime, fate>>

\* length.fetch_sub(1), after the slot was reset.
Release ==
  /\ lpc = "release"
  /\ length' = length - 1
  /\ lpc' = back
  /\ UNCHANGED <<items, senderVars, lidx, chosen, back, air, attempts, uptime, fate>>

EndScan ==
  /\ lpc = "scan" /\ lidx = Capacity
  /\ lpc' = IF chosen = Null THEN "idle" ELSE "send"
  /\ UNCHANGED <<items, length, senderVars, lidx, chosen, back, air, attempts, uptime, fate>>

\* connector.cpp:195-229.  The send may fail.  When the chosen item was freed
\* by the scan that chose it, the reference dangles and what is read there may
\* be any message made so far.
Transmit ==
  /\ lpc = "send"
  /\ \/ UNCHANGED air
     \/ air' = air \cup {chosen}
     \/ /\ fate[chosen] = "spent"
        /\ \E i \in 0 .. nextId - 1 : air' = air \cup {i}
  /\ lpc' = "idle"
  /\ UNCHANGED <<items, length, senderVars, lidx, chosen, back, attempts, uptime, fate>>

\* Mutant: the slot is reset but "length" keeps counting it.
ClearKeepsLength(msgID) ==
  /\ lpc = "idle"
  /\ msgID \in air /\ msgID # 0
  /\ msgID < Capacity /\ items[msgID] # Null
  /\ items' = [items EXCEPT ![msgID] = Null]
  /\ fate' = [fate EXCEPT ![items[msgID].id] = "cleared"]
  /\ UNCHANGED <<length, senderVars, listenerVars, uptime>>

\* clearMessage(msgID) for the response to a message that went out.  Responses
\* may come late and more than once; listen returns before it when the id is 0
\* (connector.cpp:131-136).  msgID is used as a slot number.
ClearMessage(msgID) ==
  /\ lpc = "idle"
  /\ msgID \in air /\ msgID # 0
  /\ msgID < Capacity /\ items[msgID] # Null
  /\ items' = [items EXCEPT ![msgID] = Null]
  /\ fate' = [fate EXCEPT ![items[msgID].id] = "cleared"]
  /\ lpc' = "release" /\ back' = "idle"
  /\ UNCHANGED <<length, senderVars, lidx, chosen, air, attempts, uptime>>

Older(item) == IF item = Null \/ item.age = DueAge
               THEN item ELSE [item EXCEPT !.age = @ + 1]

\* A second passes.
Tick ==
  /\ lpc = "idle"
  /\ uptime' = IF uptime = DueAge THEN uptime ELSE uptime + 1
  /\ items' = [s \in Slots |-> Older(items[s])]
  /\ UNCHANGED <<length, senderVars, listenerVars, fate>>

-----------------------------------------------------------------------------
Init ==
  /\ items = [s \in Slots |-> Null]
  /\ length = 0
  /\ nextId = 0
  /\ pc = [s \in Senders |-> "idle"]
  /\ retry = [s \in Senders |-> 0]
  /\ mine = [s \in Senders |-> Null]
  /\ idx = [s \in Senders |-> 0]
  /\ lpc = "idle"
  /\ lidx = 0
  /\ chosen = Null
  /\ back = "idle"
  /\ uptime = 0
  /\ air = {}
  /\ budget = [i \in Ids |-> 0]
  /\ attempts = [i \in Ids |-> 0]
  /\ fate = [i \in Ids |-> "none"]

Push(s) == \/ Undo(s) \/ NewItem(s) \/ LookAtSlot(s) \/ StoreItem(s)
Sender(s) == \/ \E r \in Retries : TakeIndex(s, r)
             \/ TakeIndexFull(s)
             \/ Push(s)
Scan == StartScan \/ ScanItem \/ ScanEmpty \/ EndScan \/ Release \/ Transmit

Next == \/ \E s \in Senders : Sender(s)
        \/ Scan
        \/ \E i \in Ids : ClearMessage(i)
        \/ Tick

Spec == Init /\ [][Next]_vars

\* loop() calls listen for ever, a push that began is finished, time passes.
\* The listener reaches nextMessage as long as the connection stays activated.
\* Tick is disabled during a scan only by the reduction above: hence SF.
Fairness == WF_vars(Scan) /\ SF_vars(Tick) /\ \A s \in Senders : WF_vars(Push(s))
FairSpec == Spec /\ Fairness

-----------------------------------------------------------------------------
TypeOK ==
  /\ items \in [Slots -> Item \cup {Null}]
  /\ length \in Nat
  /\ nextId \in 0 .. MaxIds
  /\ pc \in [Senders -> {"idle", "undo", "number", "look", "store"}]
  /\ retry \in [Senders -> Retries \cup {0}]
  /\ mine \in [Senders -> Item \cup {Null}]
  /\ idx \in [Senders -> 0 .. Capacity]
  /\ lpc \in {"idle", "scan", "release", "send"}
  /\ lidx \in 0 .. Capacity
  /\ chosen \in Ids \cup {Null}
  /\ back \in {"idle", "scan"}
  /\ uptime \in 0 .. DueAge
  /\ air \subseteq Ids
  /\ budget \in [Ids -> Int]
  /\ attempts \in [Ids -> Nat]
  /\ fate \in [Ids -> {"none", "queued", "spent", "cleared", "leaked", "overwritten"}]

\* "length" is the number of full slots plus what is under way: reservations of
\* senders, additions to be undone, and a slot freed but not yet subtracted.
\* It fails for good, and the queue shrinks, if any path frees or fills a slot
\* without its share of the counting (queue.cpp:23-29, 53-54, 67-68).
LengthAccounts ==
  length = Cardinality(Occupied) + Cardinality({s \in Senders : pc[s] # "idle"})
           + (IF lpc = "release" THEN 1 ELSE 0)

\* A sender that was granted an index always finds a free slot for its item,
\* and its item is not overwritten, while the listener frees slots behind and
\* ahead of its search (queue.cpp:31-38 has no error path).
PushFindsSlot == \A i \in Ids : fate[i] \notin {"leaked", "overwritten"}

\* A message asked to be sent n times is chosen at most n times, and it is
\* given up only after exactly n times; n = 0 (retry = -1) means it is dropped
\* unsent or sent NumberSpace times, depending on what else is due.
RetryBudget ==
  \A i \in Ids :
    /\ budget[i] > 0 => attempts[i] <= budget[i]
    /\ fate[i] = "spent" => attempts[i] % NumberSpace = budget[i]

\* Every message accepted into a slot leaves the queue in the end, answered or
\* not, once no new messages come: no item is starved or kept for ever.
Drains == \A i \in Ids : fate[i] = "queued" ~> fate[i] \in {"spent", "cleared"}

Asked == [i \in Ids |-> IF fate[i] = "none" THEN 0 ELSE budget[i]]
Outgoing == INSTANCE Outbox WITH budget <- Asked

\* The queue does what Outbox promises: no message is attempted before it is
\* accepted or after its end, given up but with its last attempt, or accepted
\* beyond the capacity, in whatever order slots are filled, scanned and cleared.
ActsAsOutbox == Outgoing!Spec

\* A response never removes a message that was not even sent yet: clearMessage
\* removes the message with the msgID it is given (cso_queue/interface.h:14).
ClearsOwn == [][\A i \in Ids : /\ fate[i] # "cleared" /\ fate'[i] = "cleared"
                               => i \in air]_vars
=============================================================================
