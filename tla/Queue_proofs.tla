---------------------------- MODULE Queue_proofs ----------------------------
(***************************************************************************)
(* Proofs about Queue with one sending task: for every number of slots, of *)
(* messages and of attempts, "length" is exact and every message that was  *)
(* granted an index finds a slot.                                          *)
(***************************************************************************)
EXTENDS Queue, FiniteSetTheorems, TLAPS

-----------------------------------------------------------------------------
(***************************************************************************)
(* The slots in use, of any content of the queue.                          *)
(***************************************************************************)
Contents == [Slots -> Item \cup {Null}]
Full(q) == {f \in Slots : q[f] # Null}

LEMMA SlotsFinite == IsFiniteSet(Slots) /\ Cardinality(Slots) = Capacity
<1>1. 0 \in Int /\ Capacity - 1 \in Int /\ 0 <= Capacity - 1
  BY QueueAssumption
<1>2. IsFiniteSet(0 .. Capacity - 1) /\ Cardinality(0 .. Capacity - 1) = Capacity - 1 - 0 + 1
  BY <1>1, FS_Interval
<1>. QED  BY <1>2, QueueAssumption DEF Slots

\* The number of full slots is a number, and when it is not Capacity a slot is free.
LEMMA FullBounded ==
  ASSUME NEW q
  PROVE  /\ IsFiniteSet(Full(q))
         /\ Cardinality(Full(q)) \in Nat
         /\ Cardinality(Full(q)) # Capacity => \E f \in Slots : q[f] = Null
<1>1. IsFiniteSet(Full(q))
  BY SlotsFinite, FS_Subset DEF Full
<1>2. Cardinality(Full(q)) \in Nat
  BY <1>1, FS_CardinalityType
<1>3. (\A f \in Slots : q[f] # Null) => Full(q) = Slots
  BY DEF Full
<1>. QED  BY <1>1, <1>2, <1>3, SlotsFinite

LEMMA FillsOne ==
  ASSUME NEW q \in Contents, NEW f \in Slots, q[f] = Null, NEW it \in Item
  PROVE  /\ [q EXCEPT ![f] = it] \in Contents
         /\ Cardinality(Full([q EXCEPT ![f] = it])) = Cardinality(Full(q)) + 1
<1>1. it # Null
  BY NullAssumption
<1>2. Full([q EXCEPT ![f] = it]) = Full(q) \cup {f} /\ f \notin Full(q)
  BY <1>1 DEF Full, Contents
<1>. QED  BY <1>2, FullBounded, FS_AddElement DEF Contents

LEMMA FreesOne ==
  ASSUME NEW q \in Contents, NEW f \in Slots, q[f] # Null
  PROVE  /\ [q EXCEPT ![f] = Null] \in Contents
         /\ Cardinality(Full([q EXCEPT ![f] = Null])) = Cardinality(Full(q)) - 1
<1>1. Full([q EXCEPT ![f] = Null]) = Full(q) \ {f} /\ f \in Full(q)
  BY DEF Full, Contents
<1>. QED  BY <1>1, FullBounded, FS_RemoveElement DEF Contents

LEMMA ChangesOne ==
  ASSUME NEW q \in Contents, NEW f \in Slots, q[f] # Null, NEW it \in Item
  PROVE  /\ [q EXCEPT ![f] = it] \in Contents
         /\ Full([q EXCEPT ![f] = it]) = Full(q)
BY NullAssumption DEF Full, Contents

\* A second does not fill or free a slot.
LEMMA OlderKeeps ==
  ASSUME NEW q \in Contents
  PROVE  /\ [f \in Slots |-> Older(q[f])] \in Contents
         /\ Full([f \in Slots |-> Older(q[f])]) = Full(q)
<1>1. ASSUME NEW it \in Item  PROVE Older(it) \in Item
  BY NullAssumption DEF Older, Item, DueAge
<1>2. Older(Null) = Null
  BY DEF Older
<1>. QED  BY <1>1, <1>2, NullAssumption DEF Full, Contents

\* An item stays an item when the scan has looked at it.
LEMMA VisitedType ==
  ASSUME NEW it \in Item  PROVE Visited(it) \in Item
<1>. DEFINE n == (it.numberRetry - 1 + NumberSpace) % NumberSpace
<1>1. n \in 0 .. NumberSpace - 1
  BY QueueAssumption DEF Item
<1>2. Visited(it) \in {it, [it EXCEPT !.age = 0, !.numberRetry = n]}
  BY DEF Visited
<1>. HIDE DEF n
<1>3. [it EXCEPT !.age = 0, !.numberRetry = n] \in Item
  <2>. DEFINE jt == [it EXCEPT !.age = 0]
  <2>1. jt \in Item
    BY DEF Item, DueAge
  <2>2. [jt EXCEPT !.numberRetry = n] = [it EXCEPT !.age = 0, !.numberRetry = n]
    OBVIOUS
  <2>. HIDE DEF jt
  <2>3. [jt EXCEPT !.numberRetry = n] \in Item
    BY <1>1, <2>1 DEF Item
  <2>. QED  BY <2>2, <2>3
<1>. QED  BY <1>2, <1>3

-----------------------------------------------------------------------------
(***************************************************************************)
(* The inductive invariant.  "s" is the one sender.                        *)
(***************************************************************************)
Claim(s) == IF pc[s] = "idle" THEN 0 ELSE 1
Leaving == IF lpc = "release" THEN 1 ELSE 0

\* The sender holds an index, so that length <= Capacity counts it.
Granted(s) == pc[s] \in {"number", "look", "store"}

CountInv(s) ==
  /\ length = Cardinality(Full(items)) + Claim(s) + Leaving
  /\ Granted(s) => length <= Capacity

\* From where the search is, there is a free slot ahead; nobody but the sender
\* fills slots.
SearchInv(s) ==
  /\ pc[s] = "number" => nextId < MaxIds
  /\ pc[s] \in {"look", "store"} => mine[s] \in Item
  /\ pc[s] = "look" => \E f \in Slots : idx[s] <= f /\ items[f] = Null
  /\ pc[s] = "store" => idx[s] \in Slots /\ items[idx[s]] = Null
  /\ lpc = "send" => chosen \in Ids

Inv(s) == TypeOK /\ CountInv(s) /\ SearchInv(s) /\ PushFindsSlot

LEMMA InitInv ==
  ASSUME NEW s, Senders = {s}, Init
  PROVE  Inv(s)
<1>1. Full(items) = {}
  BY DEF Init, Full
<1>2. Cardinality(Full(items)) = 0
  BY <1>1, FS_EmptySet
<1>3. TypeOK
  BY QueueAssumption DEF Init, TypeOK, DueAge
<1>. QED  BY <1>2, <1>3 DEF Init, Inv, CountInv, SearchInv, Claim, Leaving, Granted, PushFindsSlot

-----------------------------------------------------------------------------
(***************************************************************************)
(* The sender's steps.                                                     *)
(***************************************************************************)
LEMMA TakeIndexInv ==
  ASSUME NEW s, Senders = {s}, Inv(s), NEW r \in Retries, TakeIndex(s, r)
  PROVE  Inv(s)'
<1>. USE DEF Inv, TakeIndex
<1>1. nextId < MaxIds
  <2>. DEFINE N == {u \in Senders : pc[u] = "number"}
  <2>1. IsFiniteSet(N)
    BY FS_Singleton, FS_Subset
  <2>2. Cardinality(N) \in Nat
    BY <2>1, FS_CardinalityType
  <2>3. nextId + Cardinality(N) < MaxIds
    OBVIOUS
  <2>. HIDE DEF N
  <2>. QED  BY <2>2, <2>3, QueueAssumption DEF TypeOK
<1>2. TypeOK'
  BY DEF TypeOK, listenerVars
<1>3. CountInv(s)'
  BY QueueAssumption, FullBounded DEF CountInv, TypeOK, Claim, Leaving, Granted, listenerVars
<1>4. SearchInv(s)' /\ PushFindsSlot'
  BY <1>1 DEF SearchInv, PushFindsSlot, TypeOK, listenerVars
<1>. QED  BY <1>2, <1>3, <1>4

LEMMA FullQueueInv ==
  ASSUME NEW s, Senders = {s}, Inv(s), TakeIndexFull(s) \/ Undo(s)
  PROVE  Inv(s)'
<1>. USE DEF Inv, TakeIndexFull, Undo
<1>1. CountInv(s)' /\ length' \in Nat
  BY QueueAssumption, FullBounded DEF CountInv, TypeOK, Claim, Leaving, Granted, listenerVars
<1>2. TypeOK'
  BY <1>1 DEF TypeOK, listenerVars
<1>3. SearchInv(s)' /\ PushFindsSlot'
  BY DEF SearchInv, PushFindsSlot, TypeOK, listenerVars
<1>. QED  BY <1>1, <1>2, <1>3

LEMMA NewItemInv ==
  ASSUME NEW s, Senders = {s}, Inv(s), NewItem(s)
  PROVE  Inv(s)'
<1>. USE DEF Inv, NewItem
<1>1. nextId \in Ids /\ nextId + 1 \in 0 .. MaxIds /\ retry[s] \in Int
  <2>1. nextId < MaxIds /\ nextId \in 0 .. MaxIds
    BY DEF SearchInv, TypeOK
  <2>2. retry[s] \in Retries \cup {0}
    BY DEF TypeOK
  <2>. \A r \in Retries \cup {0} : r \in Int
    BY QueueAssumption
  <2>3. retry[s] \in Int
    BY <2>2
  <2>4. nextId \in Ids /\ nextId + 1 \in 0 .. MaxIds
    BY <2>1, QueueAssumption DEF Ids
  <2>. QED  BY <2>3, <2>4
<1>2. mine'[s] \in Item
  <2>1. (retry[s] + 1) % NumberSpace \in 0 .. NumberSpace - 1
    BY <1>1, QueueAssumption
  <2>. QED  BY <1>1, <2>1 DEF TypeOK, Item, DueAge
<1>3. TypeOK'
  BY <1>1, <1>2, QueueAssumption DEF TypeOK, listenerVars
<1>4. CountInv(s)'
  BY DEF CountInv, TypeOK, Claim, Leaving, Granted, listenerVars
<1>5. \E f \in Slots : items[f] = Null
  BY QueueAssumption, FullBounded DEF CountInv, TypeOK, Claim, Leaving, Granted
<1>6. SearchInv(s)' /\ PushFindsSlot'
  BY <1>2, <1>5 DEF SearchInv, PushFindsSlot, TypeOK, Slots, listenerVars
<1>. QED  BY <1>3, <1>4, <1>6

LEMMA LookAtSlotInv ==
  ASSUME NEW s, Senders = {s}, Inv(s), LookAtSlot(s)
  PROVE  Inv(s)'
<1>. USE DEF Inv, LookAtSlot
<1>1. PICK f \in Slots : idx[s] <= f /\ items[f] = Null
  BY DEF SearchInv
<1>2. idx[s] \in Slots /\ UNCHANGED fate
  BY <1>1, QueueAssumption DEF TypeOK, Slots
<1>3. TypeOK'
  <2>1. idx'[s] \in 0 .. Capacity
    BY <1>2, QueueAssumption DEF TypeOK, Slots
  <2>2. idx' \in [Senders -> 0 .. Capacity]
    BY <1>2, <2>1 DEF TypeOK
  <2>3. pc' \in [Senders -> {"idle", "number", "look", "store", "undo"}]
    BY <1>2 DEF TypeOK
  <2>. QED  BY <1>2, <2>2, <2>3 DEF TypeOK, listenerVars
<1>6. CountInv(s)'
  <2>1. Granted(s) /\ Granted(s)' /\ Claim(s)' = Claim(s)
    BY <1>2 DEF Granted, Claim, TypeOK
  <2>2. UNCHANGED <<length, items, lpc>>
    BY DEF listenerVars
  <2>. QED  BY <2>1, <2>2 DEF CountInv, Leaving
<1>4. items[idx[s]] # Null => idx[s] + 1 <= f
  BY <1>1, <1>2, QueueAssumption DEF Slots
<1>5. SearchInv(s)' /\ PushFindsSlot'
  BY <1>1, <1>2, <1>4 DEF SearchInv, PushFindsSlot, TypeOK, listenerVars
<1>. QED  BY <1>3, <1>5, <1>6

LEMMA StoreItemInv ==
  ASSUME NEW s, Senders = {s}, Inv(s), StoreItem(s)
  PROVE  Inv(s)'
<1>. USE DEF Inv, StoreItem
<1>. DEFINE it == [mine[s] EXCEPT !.age = uptime]
<1>1. idx[s] \in Slots /\ items[idx[s]] = Null /\ it \in Item /\ items \in Contents
  BY DEF SearchInv, TypeOK, Item, Contents
<1>2. items' \in Contents /\ Cardinality(Full(items')) = Cardinality(Full(items)) + 1
  BY <1>1, FillsOne
<1>3. \A i \in Ids : fate'[i] \in {"queued", fate[i]}
  BY <1>1
<1>4. TypeOK'
  BY <1>2, <1>3 DEF TypeOK, Contents, listenerVars
<1>5. CountInv(s)'
  BY <1>2, FullBounded DEF CountInv, TypeOK, Claim, Leaving, Granted, listenerVars
<1>6. SearchInv(s)' /\ PushFindsSlot'
  BY <1>3 DEF SearchInv, PushFindsSlot, TypeOK, listenerVars
<1>. QED  BY <1>4, <1>5, <1>6

-----------------------------------------------------------------------------
(***************************************************************************)
(* The listener's steps, and time.                                         *)
(***************************************************************************)
\* A step that fills no slot leaves the sender's search intact.
LEMMA SearchKept ==
  ASSUME NEW s, Senders = {s}, SearchInv(s), UNCHANGED senderVars,
         \A f \in Slots : items[f] = Null => items'[f] = Null,
         lpc' = "send" => chosen' \in Ids
  PROVE  SearchInv(s)'
BY DEF SearchInv, senderVars

LEMMA ScanItemInv ==
  ASSUME NEW s, Senders = {s}, Inv(s), ScanItem
  PROVE  Inv(s)'
<1>. USE DEF Inv, ScanItem
<1>. DEFINE item == items[lidx]
            seen == Visited(item)
<1>1. item \in Item /\ items \in Contents /\ item.id \in Ids /\ lidx \in Slots
  BY DEF TypeOK, Contents, Item
<1>2. seen \in Item /\ seen # Null
  BY <1>1, VisitedType, NullAssumption
<1>3. chosen' \in Ids \cup {Null} /\ attempts' \in [Ids -> Nat]
  BY <1>1 DEF TypeOK, CountUp
<1>4. lidx' \in 0 .. Capacity /\ UNCHANGED senderVars
  BY <1>1, QueueAssumption DEF Slots
<1>5. CASE Spent(seen)
  <2>1. items' = [items EXCEPT ![lidx] = Null] /\ lpc' = "release" /\ back' = "scan"
        /\ fate' = [fate EXCEPT ![item.id] = "spent"]
    BY <1>5
  <2>2. items' \in Contents /\ Cardinality(Full(items')) = Cardinality(Full(items)) - 1
    BY <1>1, <2>1, FreesOne
  <2>3. TypeOK'
    BY <1>1, <1>3, <1>4, <2>1, <2>2 DEF TypeOK, Contents, senderVars
  <2>4. CountInv(s)'
    BY <1>4, <2>1, <2>2, FullBounded DEF CountInv, TypeOK, Claim, Leaving, Granted, senderVars
  <2>5. SearchInv(s)'
    BY <1>1, <1>4, <2>1, SearchKept DEF Contents
  <2>6. PushFindsSlot'
    BY <1>1, <2>1 DEF PushFindsSlot, TypeOK
  <2>. QED  BY <2>3, <2>4, <2>5, <2>6
<1>6. CASE ~Spent(seen)
  <2>1. items' = [items EXCEPT ![lidx] = seen] /\ UNCHANGED <<fate, lpc, back>>
    BY <1>6
  <2>2. items' \in Contents /\ Full(items') = Full(items)
    BY <1>1, <1>2, <2>1, ChangesOne
  <2>3. TypeOK'
    BY <1>3, <1>4, <2>1, <2>2 DEF TypeOK, Contents, senderVars
  <2>4. CountInv(s)' /\ PushFindsSlot'
    BY <1>4, <2>1, <2>2 DEF CountInv, PushFindsSlot, Claim, Leaving, Granted, senderVars
  <2>5. SearchInv(s)'
    BY <1>1, <1>4, <2>1, SearchKept DEF Contents
  <2>. QED  BY <2>3, <2>4, <2>5
<1>. QED  BY <1>5, <1>6

LEMMA ScanRestInv ==
  ASSUME NEW s, Senders = {s}, Inv(s), StartScan \/ ScanEmpty \/ EndScan
  PROVE  Inv(s)'
<1>. USE DEF Inv, StartScan, ScanEmpty, EndScan
<1>1. UNCHANGED <<items, length, fate, senderVars>> /\ lpc # "release" /\ lpc' # "release"
  OBVIOUS
<1>2. TypeOK'
  BY QueueAssumption DEF TypeOK, Slots, senderVars
<1>3. CountInv(s)' /\ PushFindsSlot'
  BY <1>1 DEF CountInv, PushFindsSlot, Claim, Leaving, Granted, senderVars
<1>4. SearchInv(s)'
  BY <1>1, SearchKept DEF TypeOK
<1>. QED  BY <1>2, <1>3, <1>4

LEMMA ReleaseInv ==
  ASSUME NEW s, Senders = {s}, Inv(s), Release
  PROVE  Inv(s)'
<1>. USE DEF Inv, Release
<1>1. back # "send" /\ back # "release"
  BY DEF TypeOK
<1>2. CountInv(s)' /\ length' \in Nat
  <2>1. Leaving = 1 /\ Leaving' = 0 /\ Claim(s)' = Claim(s) /\ Claim(s) \in {0, 1}
    BY <1>1 DEF Leaving, Claim, senderVars
  <2>2. length' = Cardinality(Full(items)) + Claim(s) /\ items' = items
    BY <2>1, FullBounded DEF CountInv, TypeOK
  <2>3. (Granted(s))' => length' <= Capacity
    BY QueueAssumption DEF CountInv, TypeOK, Granted, senderVars
  <2>. QED  BY <2>1, <2>2, <2>3, FullBounded DEF CountInv
<1>3. TypeOK'
  BY <1>2 DEF TypeOK, senderVars
<1>4. SearchInv(s)' /\ PushFindsSlot'
  BY <1>1, SearchKept DEF PushFindsSlot
<1>. QED  BY <1>2, <1>3, <1>4

LEMMA TransmitInv ==
  ASSUME NEW s, Senders = {s}, Inv(s), Transmit
  PROVE  Inv(s)'
<1>. USE DEF Inv, Transmit
<1>1. air' \subseteq Ids
  <2>1. air \subseteq Ids /\ chosen \in Ids /\ 0 .. nextId - 1 \subseteq Ids
    BY QueueAssumption DEF SearchInv, TypeOK, Ids
  <2>. QED  BY <2>1
<1>2. TypeOK'
  BY <1>1 DEF TypeOK, senderVars
<1>3. CountInv(s)' /\ PushFindsSlot'
  BY DEF CountInv, PushFindsSlot, Claim, Leaving, Granted, senderVars
<1>4. SearchInv(s)'
  BY SearchKept
<1>. QED  BY <1>2, <1>3, <1>4

LEMMA ClearMessageInv ==
  ASSUME NEW s, Senders = {s}, Inv(s), NEW i \in Ids, ClearMessage(i)
  PROVE  Inv(s)'
<1>. USE DEF Inv, ClearMessage
<1>1. i \in Slots /\ items \in Contents /\ items[i] \in Item /\ items[i].id \in Ids
  <2>1. i \in Slots /\ items[i] # Null
    BY QueueAssumption DEF Ids, Slots
  <2>2. items \in Contents
    BY DEF TypeOK, Contents
  <2>3. items[i] \in Item
    BY <2>1, <2>2 DEF Contents
  <2>. QED  BY <2>1, <2>2, <2>3 DEF Item
<1>2. items' \in Contents /\ Cardinality(Full(items')) = Cardinality(Full(items)) - 1
  BY <1>1, FreesOne
<1>3. TypeOK'
  BY <1>1, <1>2 DEF TypeOK, Contents, senderVars
<1>4. CountInv(s)'
  BY <1>2, FullBounded DEF CountInv, TypeOK, Claim, Leaving, Granted, senderVars
<1>5. SearchInv(s)'
  BY <1>1, SearchKept DEF Contents
<1>6. PushFindsSlot'
  BY <1>1 DEF PushFindsSlot, TypeOK
<1>. QED  BY <1>3, <1>4, <1>5, <1>6

LEMMA TickInv ==
  ASSUME NEW s, Senders = {s}, Inv(s), Tick
  PROVE  Inv(s)'
<1>. USE DEF Inv, Tick
<1>1. items \in Contents
  BY DEF TypeOK, Contents
<1>2. items' \in Contents /\ Full(items') = Full(items)
  BY <1>1, OlderKeeps
<1>3. TypeOK'
  BY <1>2 DEF TypeOK, Contents, DueAge, senderVars, listenerVars
<1>4. CountInv(s)' /\ PushFindsSlot'
  BY <1>2 DEF CountInv, PushFindsSlot, Claim, Leaving, Granted, senderVars, listenerVars
<1>5. \A f \in Slots : items[f] = Null => items'[f] = Null
  BY DEF Older
<1>6. SearchInv(s)'
  BY <1>5, SearchKept DEF listenerVars
<1>. QED  BY <1>3, <1>4, <1>6

-----------------------------------------------------------------------------
LEMMA StepInv ==
  ASSUME NEW s, Senders = {s}, Inv(s), [Next]_vars
  PROVE  Inv(s)'
<1>1. CASE \E u \in Senders : Sender(u)
  <2>1. Sender(s)
    BY <1>1
  <2>. QED  BY <2>1, TakeIndexInv, FullQueueInv, NewItemInv, LookAtSlotInv, StoreItemInv
            DEF Sender, Push
<1>2. CASE Scan
  BY <1>2, ScanItemInv, ScanRestInv, ReleaseInv, TransmitInv DEF Scan
<1>3. CASE \E i \in Ids : ClearMessage(i)
  BY <1>3, ClearMessageInv
<1>4. CASE Tick
  BY <1>4, TickInv
<1>5. CASE UNCHANGED vars
  BY <1>5 DEF vars, senderVars, listenerVars, Inv, TypeOK, CountInv, SearchInv, PushFindsSlot,
              Claim, Leaving, Granted, Full
<1>. QED  BY <1>1, <1>2, <1>3, <1>4, <1>5 DEF Next

\* With one sender the queue's types hold, for any number of slots and messages.
THEOREM QueueTypeCorrect ==
  ASSUME NEW s, Senders = {s}
  PROVE  Spec => []TypeOK
<1>1. Init => Inv(s)
  BY InitInv
<1>2. Inv(s) /\ [Next]_vars => Inv(s)'
  BY StepInv
<1>3. Inv(s) => TypeOK
  BY DEF Inv
<1>. QED  BY <1>1, <1>2, <1>3, PTL DEF Spec

\* With one sender "length" is exact at every step (queue.cpp:23-29, 53-54, 67-68).
THEOREM QueueLengthAccounts ==
  ASSUME NEW s, Senders = {s}
  PROVE  Spec => []LengthAccounts
<1>1. Init => Inv(s)
  BY InitInv
<1>2. Inv(s) /\ [Next]_vars => Inv(s)'
  BY StepInv
<1>3. Inv(s) => LengthAccounts
  <2>1. Cardinality({u \in Senders : pc[u] # "idle"}) = Claim(s)
    <3>1. CASE pc[s] = "idle"
      BY <3>1, FS_EmptySet, {u \in Senders : pc[u] # "idle"} = {} DEF Claim
    <3>2. CASE pc[s] # "idle"
      BY <3>2, FS_Singleton, {u \in Senders : pc[u] # "idle"} = {s} DEF Claim
    <3>. QED  BY <3>1, <3>2
  <2>. QED  BY <2>1 DEF Inv, CountInv, LengthAccounts, Leaving, Full, Occupied
<1>. QED  BY <1>1, <1>2, <1>3, PTL DEF Spec

\* With one sender a granted index always finds a free slot and overwrites
\* nothing (queue.cpp:31-38), for any number of slots and whatever the listener
\* frees meanwhile.
THEOREM QueuePushFindsSlot ==
  ASSUME NEW s, Senders = {s}
  PROVE  Spec => []PushFindsSlot
<1>1. Init => Inv(s)
  BY InitInv
<1>2. Inv(s) /\ [Next]_vars => Inv(s)'
  BY StepInv
<1>3. Inv(s) => PushFindsSlot
  BY DEF Inv
<1>. QED  BY <1>1, <1>2, <1>3, PTL DEF Spec

-----------------------------------------------------------------------------
(***************************************************************************)
(* What becomes of each message: the second inductive invariant, relative  *)
(* to Inv.  It says that slots and the history of a message agree.         *)
(***************************************************************************)
\* A message in a slot is queued, and its counter is what is left of its budget.
Coherent(it) ==
  /\ fate[it.id] = "queued" /\ it.id < nextId
  /\ \/ it.numberRetry + attempts[it.id] = budget[it.id]
     \/ /\ budget[it.id] = 0 /\ attempts[it.id] > 0
        /\ it.numberRetry + attempts[it.id] = NumberSpace
  /\ it.numberRetry = 0 => budget[it.id] = 0 /\ attempts[it.id] = 0

\* The message being pushed is the newest and in no slot.
Fresh(it, r) ==
  /\ it.id = nextId - 1
  /\ fate[it.id] = "none" /\ attempts[it.id] = 0
  /\ it.numberRetry = r + 1 /\ budget[it.id] = r + 1

Ledger(i) ==
  /\ budget[i] \in 0 .. NumberSpace - 1
  /\ budget[i] > 0 => attempts[i] <= budget[i]
  /\ fate[i] = "spent" => \/ attempts[i] = budget[i]
                          \/ budget[i] = 0 /\ attempts[i] = NumberSpace
  /\ i >= nextId => fate[i] = "none" /\ attempts[i] = 0

SlotsInv ==
  /\ \A f \in Slots : items[f] # Null => Coherent(items[f])
  /\ \A f, g \in Slots : /\ items[f] # Null /\ items[g] # Null
                         /\ items[f].id = items[g].id
                         => f = g
  /\ \A i \in Ids : fate[i] = "queued" => \E f \in Slots : items[f] # Null /\ items[f].id = i

FateInv(s) ==
  /\ SlotsInv
  /\ \A i \in Ids : Ledger(i)
  /\ Granted(s) => retry[s] \in Retries
  /\ pc[s] \in {"look", "store"} => Fresh(mine[s], retry[s])

LEMMA RetryRange ==
  ASSUME NEW r \in Retries
  PROVE  r \in Int /\ r + 1 \in 0 .. NumberSpace - 1 /\ (r + 1) % NumberSpace = r + 1
<1>1. r \in Int /\ -1 <= r /\ r + 1 < NumberSpace
  BY QueueAssumption
<1>. QED  BY <1>1, QueueAssumption

\* The uint32_t counter goes down by one, and from 0 to its largest value.
LEMMA CountsDown ==
  ASSUME NEW n \in 0 .. NumberSpace - 1
  PROVE  (n - 1 + NumberSpace) % NumberSpace = IF n = 0 THEN NumberSpace - 1 ELSE n - 1
<1>1. CASE n = 0
  BY <1>1, QueueAssumption
<1>2. CASE n # 0
  <2>1. n - 1 \in 0 .. NumberSpace - 1
    BY <1>2, QueueAssumption
  <2>2. (n - 1 + NumberSpace) % NumberSpace = n - 1
    BY <2>1, QueueAssumption
  <2>. QED  BY <1>2, <2>2
<1>. QED  BY <1>1, <1>2

LEMMA VisitedEffect ==
  ASSUME NEW it \in Item
  PROVE  /\ Visited(it).id = it.id
         /\ ~IsNext(it) => Visited(it).numberRetry = it.numberRetry
         /\ IsNext(it) => Visited(it).numberRetry = IF it.numberRetry = 0 THEN NumberSpace - 1
                                                                       ELSE it.numberRetry - 1
<1>. DEFINE n == (it.numberRetry - 1 + NumberSpace) % NumberSpace
<1>1. n = IF it.numberRetry = 0 THEN NumberSpace - 1 ELSE it.numberRetry - 1
  BY CountsDown DEF Item
<1>2. Visited(it) = IF IsNext(it) THEN [it EXCEPT !.age = 0, !.numberRetry = n] ELSE it
  BY DEF Visited
<1>. HIDE DEF n
<1>3. /\ [it EXCEPT !.age = 0, !.numberRetry = n].id = it.id
      /\ [it EXCEPT !.age = 0, !.numberRetry = n].numberRetry = n
  BY DEF Item
<1>. QED  BY <1>1, <1>2, <1>3

LEMMA InitFateInv ==
  ASSUME NEW s, Senders = {s}, Init
  PROVE  FateInv(s)
BY QueueAssumption DEF Init, FateInv, SlotsInv, Ledger, Granted

\* The sender's steps that neither number nor store a message.
LEMMA SenderFateInv ==
  ASSUME NEW s, Senders = {s}, Inv(s), FateInv(s),
         (\E r \in Retries : TakeIndex(s, r)) \/ TakeIndexFull(s) \/ Undo(s) \/ LookAtSlot(s)
  PROVE  FateInv(s)'
<1>1. UNCHANGED <<items, attempts, budget, nextId, mine>>
  BY DEF TakeIndex, TakeIndexFull, Undo, LookAtSlot, listenerVars
<1>2. UNCHANGED fate
  <2>1. pc[s] = "look" => idx[s] \in Slots
    BY QueueAssumption DEF Inv, SearchInv, TypeOK, Slots
  <2>. QED  BY <2>1 DEF TakeIndex, TakeIndexFull, Undo, LookAtSlot
<1>3. SlotsInv' /\ \A i \in Ids : Ledger(i)'
  BY <1>1, <1>2 DEF FateInv, SlotsInv, Coherent, Ledger
<1>4. (Granted(s))' => retry'[s] \in Retries
  BY DEF FateInv, Granted, TakeIndex, TakeIndexFull, Undo, LookAtSlot, Inv, TypeOK
<1>5. pc'[s] \in {"look", "store"} => pc[s] = "look" /\ retry' = retry
  BY DEF TakeIndex, TakeIndexFull, Undo, LookAtSlot, Inv, TypeOK
<1>6. pc'[s] \in {"look", "store"} => Fresh(mine[s], retry[s])'
  BY <1>1, <1>2, <1>5 DEF FateInv, Fresh
<1>. QED  BY <1>3, <1>4, <1>6 DEF FateInv

LEMMA NewItemFateInv ==
  ASSUME NEW s, Senders = {s}, Inv(s), FateInv(s), NewItem(s)
  PROVE  FateInv(s)'
<1>. DEFINE r == retry[s]
<1>1. r \in Retries /\ nextId \in Ids /\ nextId \in Nat
  BY QueueAssumption DEF Inv, SearchInv, TypeOK, FateInv, Granted, NewItem, Ids
<1>2. r \in Int /\ r + 1 \in 0 .. NumberSpace - 1 /\ (r + 1) % NumberSpace = r + 1
  BY <1>1, RetryRange
<1>. HIDE DEF r
<1>3. /\ budget' = [budget EXCEPT ![nextId] = r + 1] /\ nextId' = nextId + 1
      /\ mine'[s].id = nextId /\ mine'[s].numberRetry = r + 1
      /\ UNCHANGED <<items, retry, attempts, fate>>
  BY <1>2 DEF NewItem, r, listenerVars, Inv, TypeOK
<1>4. fate[nextId] = "none" /\ attempts[nextId] = 0
  BY <1>1 DEF FateInv, Ledger
<1>5. budget \in [Ids -> Int] /\ \A i \in Ids : i \in Int
  BY DEF Inv, TypeOK, Ids
<1>6. \A i \in Ids : Ledger(i)'
  <2>. SUFFICES ASSUME NEW i \in Ids  PROVE Ledger(i)'
    OBVIOUS
  <2>1. CASE i = nextId
    BY <1>1, <1>2, <1>3, <1>4, <1>5, <2>1 DEF Ledger
  <2>2. CASE i # nextId
    BY <1>1, <1>3, <1>5, <2>2 DEF FateInv, Ledger
  <2>. QED  BY <2>1, <2>2
<1>7. ASSUME NEW f \in Slots, items[f] # Null  PROVE Coherent(items[f])'
  <2>1. Coherent(items[f]) /\ items[f].id \in Ids
    BY <1>7 DEF FateInv, SlotsInv, Inv, TypeOK, Item
  <2>2. items[f].id # nextId
    BY <1>4, <2>1 DEF Coherent
  <2>3. budget'[items[f].id] = budget[items[f].id]
    BY <1>3, <1>5, <2>1, <2>2
  <2>4. items[f].id < nextId
    BY <2>1 DEF Coherent
  <2>5. items[f].id < nextId + 1
    <3>1. ASSUME NEW n \in Int, NEW k \in Int, n < k  PROVE n < k + 1
      BY <3>1
    <3>2. items[f].id \in Int /\ nextId \in Int
      BY <1>1, <1>5, <2>1
    <3>. QED  BY <2>4, <3>1, <3>2
  <2>. QED  BY <1>3, <2>1, <2>3, <2>5 DEF Coherent
<1>8. SlotsInv'
  BY <1>3, <1>7 DEF FateInv, SlotsInv
<1>9. Fresh(mine[s], retry[s])'
  BY <1>1, <1>3, <1>4, <1>5 DEF Fresh, r
<1>. QED  BY <1>1, <1>3, <1>6, <1>8, <1>9 DEF FateInv, r

LEMMA StoreItemFateInv ==
  ASSUME NEW s, Senders = {s}, Inv(s), FateInv(s), StoreItem(s)
  PROVE  FateInv(s)'
<1>. DEFINE it == [mine[s] EXCEPT !.age = uptime]
            m == mine[s].id
<1>1. /\ idx[s] \in Slots /\ items[idx[s]] = Null /\ mine[s] \in Item /\ m \in Ids
      /\ Fresh(mine[s], retry[s]) /\ retry[s] \in Retries
  BY DEF Inv, SearchInv, FateInv, StoreItem, Granted, Item
<1>2. it # Null /\ it.id = m /\ it.numberRetry = mine[s].numberRetry
  <2>1. it \in Item
    BY <1>1 DEF Inv, TypeOK, Item
  <2>. QED  BY <1>1, <2>1, NullAssumption DEF Item
<1>3. /\ items' = [items EXCEPT ![idx[s]] = it]
      /\ UNCHANGED <<nextId, budget, attempts, retry, mine>>
      /\ pc' = [pc EXCEPT ![s] = "idle"]
  BY DEF StoreItem, listenerVars
<1>4. \A i \in Ids : fate'[i] = IF i = m THEN "queued" ELSE fate[i]
  BY <1>1 DEF StoreItem
<1>. HIDE DEF it
<1>5. \A f \in Slots : items'[f] = IF f = idx[s] THEN it ELSE items[f]
  BY <1>3 DEF Inv, TypeOK
<1>6. \A f \in Slots : items[f] # Null => items[f].id \in Ids /\ items[f].id # m
  BY <1>1 DEF FateInv, SlotsInv, Coherent, Fresh, Inv, TypeOK, Item
<1>7. ASSUME NEW f \in Slots, items'[f] # Null  PROVE Coherent(items[f])'
  <2>1. CASE f = idx[s]
    <3>1. items'[f] = it
      BY <1>5, <2>1
    <3>2. fate'[m] = "queued" /\ m < nextId
      BY <1>1, <1>4, QueueAssumption DEF Fresh, Inv, TypeOK
    <3>3. retry[s] \in Int /\ it.numberRetry + attempts[m] = budget[m] /\ it.numberRetry = budget[m]
          /\ attempts[m] = 0
      BY <1>1, <1>2, RetryRange DEF Fresh
    <3>. QED  BY <1>2, <1>3, <3>1, <3>2, <3>3 DEF Coherent
  <2>2. CASE f # idx[s]
    <3>1. items'[f] = items[f] /\ items[f] # Null
      BY <1>5, <1>7, <2>2
    <3>2. Coherent(items[f]) /\ fate'[items[f].id] = fate[items[f].id]
      BY <1>4, <1>6, <3>1 DEF FateInv, SlotsInv
    <3>. QED  BY <1>3, <3>1, <3>2 DEF Coherent
  <2>. QED  BY <2>1, <2>2
<1>9. SlotsInv'
  <2>1. \A f \in Slots : items'[f] # Null => Coherent(items[f])'
    BY <1>7
  <2>2. ASSUME NEW f \in Slots, NEW g \in Slots,
               items'[f] # Null, items'[g] # Null, items'[f].id = items'[g].id
        PROVE  f = g
    BY <1>2, <1>5, <1>6, <2>2 DEF FateInv, SlotsInv
  <2>3. ASSUME NEW i \in Ids, fate'[i] = "queued"
        PROVE  \E f \in Slots : items'[f] # Null /\ items'[f].id = i
    <3>1. CASE i = m
      BY <1>1, <1>2, <1>5, <3>1
    <3>2. CASE i # m
      <4>1. PICK f \in Slots : items[f] # Null /\ items[f].id = i
        BY <1>4, <2>3, <3>2 DEF FateInv, SlotsInv
      <4>. QED  BY <1>1, <1>5, <4>1
    <3>. QED  BY <3>1, <3>2
  <2>. QED  BY <2>1, <2>2, <2>3 DEF SlotsInv
<1>10. \A i \in Ids : Ledger(i)'
  <2>. SUFFICES ASSUME NEW i \in Ids  PROVE Ledger(i)'
    OBVIOUS
  <2>1. Ledger(i) /\ (i = m => ~(i >= nextId))
    BY <1>1, QueueAssumption DEF FateInv, Fresh, Inv, TypeOK, Ids
  <2>2. CASE i = m
    BY <1>3, <1>4, <2>1, <2>2 DEF Ledger
  <2>3. CASE i # m
    BY <1>3, <1>4, <2>1, <2>3 DEF Ledger
  <2>. QED  BY <2>2, <2>3
<1>11. pc'[s] = "idle"
  BY <1>3 DEF Inv, TypeOK
<1>. QED  BY <1>9, <1>10, <1>11 DEF FateInv, Granted

\* What the listener leaves alone, as far as FateInv is concerned.
LEMMA SenderKept ==
  ASSUME NEW s, FateInv(s), UNCHANGED senderVars, SlotsInv', \A i \in Ids : Ledger(i)',
         pc[s] \in {"look", "store"} => /\ fate'[mine[s].id] = fate[mine[s].id]
                                       /\ attempts'[mine[s].id] = attempts[mine[s].id]
  PROVE  FateInv(s)'
BY DEF FateInv, Granted, Fresh, senderVars

\* The message in a slot is not the one being pushed.
LEMMA PushedIsElsewhere ==
  ASSUME NEW s, Inv(s), FateInv(s), NEW f \in Slots, items[f] # Null,
         pc[s] \in {"look", "store"}
  PROVE  items[f].id # mine[s].id
BY DEF FateInv, SlotsInv, Coherent, Fresh

\* Counting a choice, as long as the bound of the count is not reached.
LEMMA CountsUp ==
  ASSUME NEW n \in 0 .. NumberSpace
  PROVE  CountUp(n) = n + 1
BY QueueAssumption DEF CountUp

LEMMA CoherentAttempts ==
  ASSUME NEW s, Inv(s), FateInv(s), NEW f \in Slots, items[f] # Null
  PROVE  /\ items[f] \in Item /\ items[f].id \in Ids
         /\ items[f].numberRetry \in 0 .. NumberSpace - 1
         /\ attempts[items[f].id] \in 0 .. NumberSpace
         /\ budget[items[f].id] \in 0 .. NumberSpace - 1
         /\ Coherent(items[f])
<1>1. items[f] \in Item /\ Coherent(items[f])
  BY DEF Inv, TypeOK, FateInv, SlotsInv
<1>2. items[f].id \in Ids /\ items[f].numberRetry \in 0 .. NumberSpace - 1
  BY <1>1 DEF Item
<1>3. attempts[items[f].id] \in Nat /\ budget[items[f].id] \in 0 .. NumberSpace - 1
  BY <1>2 DEF Inv, TypeOK, FateInv, Ledger
<1>4. attempts[items[f].id] <= NumberSpace
  BY <1>1, <1>2, <1>3, QueueAssumption DEF Coherent
<1>. QED  BY <1>1, <1>2, <1>3, <1>4, QueueAssumption

\* A message leaves slot f, and with it the queue.
LEMMA LeavesSlot ==
  ASSUME NEW s, Inv(s), FateInv(s), NEW f \in Slots, items[f] # Null,
         items' = [items EXCEPT ![f] = Null], UNCHANGED <<nextId, budget>>,
         \A i \in Ids : i # items[f].id => fate'[i] = fate[i] /\ attempts'[i] = attempts[i],
         fate'[items[f].id] # "queued"
  PROVE  SlotsInv'
<1>1. \A g \in Slots : items'[g] = IF g = f THEN Null ELSE items[g]
  BY DEF Inv, TypeOK
<1>2. ASSUME NEW g \in Slots, items'[g] # Null  PROVE Coherent(items[g])'
  <2>1. items'[g] = items[g] /\ g # f /\ items[g] # Null
    BY <1>1, <1>2
  <2>2. items[g].id \in Ids /\ items[g].id # items[f].id /\ Coherent(items[g])
    BY <2>1 DEF FateInv, SlotsInv, Inv, TypeOK, Item
  <2>. QED  BY <2>1, <2>2 DEF Coherent
<1>3. ASSUME NEW i \in Ids, fate'[i] = "queued"
      PROVE  \E g \in Slots : items'[g] # Null /\ items'[g].id = i
  <2>1. i # items[f].id /\ fate[i] = "queued"
    BY <1>3
  <2>2. PICK g \in Slots : items[g] # Null /\ items[g].id = i
    BY <2>1 DEF FateInv, SlotsInv
  <2>. QED  BY <1>1, <2>1, <2>2
<1>. QED  BY <1>1, <1>2, <1>3 DEF FateInv, SlotsInv

LEMMA ScanItemFateInv ==
  ASSUME NEW s, Senders = {s}, Inv(s), FateInv(s), ScanItem
  PROVE  FateInv(s)'
<1>. DEFINE item == items[lidx]
            seen == Visited(item)
            m == item.id
<1>1. /\ lidx \in Slots /\ item # Null /\ item \in Item /\ m \in Ids
      /\ item.numberRetry \in 0 .. NumberSpace - 1
      /\ attempts[m] \in 0 .. NumberSpace /\ budget[m] \in 0 .. NumberSpace - 1
      /\ Coherent(item) /\ nextId \in Nat
  BY CoherentAttempts, QueueAssumption DEF ScanItem, Inv, TypeOK
<1>2. UNCHANGED <<nextId, budget, senderVars>>
  BY DEF ScanItem, senderVars
<1>3. /\ seen.id = m /\ seen # Null
      /\ ~IsNext(item) => seen.numberRetry = item.numberRetry
      /\ IsNext(item) => seen.numberRetry = IF item.numberRetry = 0 THEN NumberSpace - 1
                                                                    ELSE item.numberRetry - 1
  BY <1>1, VisitedEffect, VisitedType, NullAssumption
<1>4. /\ attempts'[m] = IF IsNext(item) THEN attempts[m] + 1 ELSE attempts[m]
      /\ \A i \in Ids : i # m => attempts'[i] = attempts[i]
  BY <1>1, CountsUp DEF ScanItem, Inv, TypeOK
<1>5. \A i \in Ids : fate'[i] = IF i = m /\ Spent(seen) THEN "spent" ELSE fate[i]
  BY <1>1 DEF ScanItem, Inv, TypeOK
<1>6. items' = [items EXCEPT ![lidx] = IF Spent(seen) THEN Null ELSE seen]
  BY DEF ScanItem
<1>7. pc[s] \in {"look", "store"} => m # mine[s].id /\ mine[s].id \in Ids
  BY <1>1, PushedIsElsewhere DEF Inv, SearchInv, Item
<1>. HIDE DEF item, seen
<1>8. /\ attempts[m] \in Nat /\ m < nextId
      /\ \/ item.numberRetry + attempts[m] = budget[m]
         \/ budget[m] = 0 /\ attempts[m] > 0 /\ item.numberRetry + attempts[m] = NumberSpace
      /\ item.numberRetry = 0 => budget[m] = 0 /\ attempts[m] = 0
      /\ fate[m] = "queued"
  BY <1>1 DEF Coherent
\* The counter is what is left, after the visit too.
<1>9. \/ seen.numberRetry + attempts'[m] = budget[m]
      \/ budget[m] = 0 /\ attempts'[m] > 0 /\ seen.numberRetry + attempts'[m] = NumberSpace
  <2>1. CASE IsNext(item)
    <3>1. /\ attempts'[m] = attempts[m] + 1
          /\ seen.numberRetry = IF item.numberRetry = 0 THEN NumberSpace - 1
                                                        ELSE item.numberRetry - 1
      BY <1>3, <1>4, <2>1
    <3>2. CASE item.numberRetry = 0
      BY <1>8, <3>1, <3>2, QueueAssumption
    <3>3. CASE item.numberRetry # 0
      BY <1>1, <1>8, <3>1, <3>3, QueueAssumption
    <3>. QED  BY <3>2, <3>3
  <2>2. CASE ~IsNext(item)
    BY <1>1, <1>3, <1>4, <1>8, <2>2
  <2>. QED  BY <2>1, <2>2
<1>10. \A i \in Ids : Ledger(i)'
  <2>. SUFFICES ASSUME NEW i \in Ids  PROVE Ledger(i)'
    OBVIOUS
  <2>1. CASE i # m
    BY <1>2, <1>4, <1>5, <2>1 DEF FateInv, Ledger
  <2>2. CASE i = m
    <3>1. budget[m] > 0 => attempts'[m] <= budget[m]
      BY <1>1, <1>3, <1>4, <1>8, QueueAssumption
    <3>2. Spent(seen) => attempts'[m] = budget[m] \/ (budget[m] = 0 /\ attempts'[m] = NumberSpace)
      BY <1>1, <1>4, <1>9, QueueAssumption DEF Spent
    <3>3. ~(m >= nextId)
      BY <1>1, <1>8, QueueAssumption DEF Ids
    <3>. QED  BY <1>1, <1>2, <1>5, <1>8, <2>2, <3>1, <3>2, <3>3 DEF Ledger
  <2>. QED  BY <2>1, <2>2
<1>11. SlotsInv'
  <2>1. CASE Spent(seen)
    <3>1. items' = [items EXCEPT ![lidx] = Null] /\ fate'[m] # "queued"
      BY <1>1, <1>5, <1>6, <2>1
    <3>. QED  BY <1>1, <1>2, <1>4, <1>5, <3>1, LeavesSlot DEF item
  <2>2. CASE ~Spent(seen)
    <3>1. \A f \in Slots : items'[f] = IF f = lidx THEN seen ELSE items[f]
      BY <1>6, <2>2 DEF Inv, TypeOK
    <3>2. \A i \in Ids : fate'[i] = fate[i]
      BY <1>5, <2>2
    <3>3. ASSUME NEW f \in Slots, items'[f] # Null  PROVE Coherent(items[f])'
      <4>1. CASE f = lidx
        BY <1>1, <1>2, <1>3, <1>8, <1>9, <2>2, <3>1, <3>2, <4>1 DEF Coherent, Spent
      <4>2. CASE f # lidx
        <5>1. items'[f] = items[f] /\ items[f].id \in Ids /\ items[f].id # m /\ Coherent(items[f])
          BY <1>1, <3>1, <3>3, <4>2 DEF item, FateInv, SlotsInv, Inv, TypeOK, Item
        <5>. QED  BY <1>2, <1>4, <3>2, <5>1 DEF Coherent
      <4>. QED  BY <4>1, <4>2
    <3>4. \A f \in Slots : items[f] # Null <=> items'[f] # Null
      BY <1>1, <1>3, <3>1 DEF item
    <3>5. \A f \in Slots : items[f] # Null => items'[f].id = items[f].id
      BY <1>1, <1>3, <3>1 DEF item
    <3>. QED  BY <3>2, <3>3, <3>4, <3>5 DEF FateInv, SlotsInv
  <2>. QED  BY <2>1, <2>2
<1>. QED  BY <1>2, <1>4, <1>5, <1>7, <1>10, <1>11, SenderKept

LEMMA ClearMessageFateInv ==
  ASSUME NEW s, Senders = {s}, Inv(s), FateInv(s), NEW i \in Ids, ClearMessage(i)
  PROVE  FateInv(s)'
<1>. DEFINE m == items[i].id
<1>1. i \in Slots /\ items[i] # Null /\ m \in Ids /\ Coherent(items[i])
  BY CoherentAttempts, QueueAssumption DEF ClearMessage, Ids, Slots
<1>2. /\ items' = [items EXCEPT ![i] = Null]
      /\ UNCHANGED <<nextId, budget, attempts, senderVars>>
      /\ fate' = [fate EXCEPT ![m] = "cleared"]
  BY DEF ClearMessage, senderVars
<1>3. fate'[m] = "cleared" /\ \A j \in Ids : j # m => fate'[j] = fate[j]
  BY <1>1, <1>2 DEF Inv, TypeOK
<1>4. SlotsInv'
  BY <1>1, <1>2, <1>3, LeavesSlot
<1>5. \A j \in Ids : Ledger(j)'
  <2>. SUFFICES ASSUME NEW j \in Ids  PROVE Ledger(j)'
    OBVIOUS
  <2>1. Ledger(j) /\ (j = m => ~(j >= nextId))
    BY <1>1, QueueAssumption DEF FateInv, Coherent, Inv, TypeOK, Ids
  <2>2. CASE j = m
    BY <1>2, <1>3, <2>1, <2>2 DEF Ledger
  <2>3. CASE j # m
    BY <1>2, <1>3, <2>1, <2>3 DEF Ledger
  <2>. QED  BY <2>2, <2>3
<1>6. pc[s] \in {"look", "store"} => m # mine[s].id /\ mine[s].id \in Ids
  BY <1>1, PushedIsElsewhere DEF Inv, SearchInv, Item
<1>. QED  BY <1>2, <1>3, <1>4, <1>5, <1>6, SenderKept

LEMMA TickFateInv ==
  ASSUME NEW s, Senders = {s}, Inv(s), FateInv(s), Tick
  PROVE  FateInv(s)'
<1>1. UNCHANGED <<nextId, budget, attempts, fate, senderVars>>
  BY DEF Tick, senderVars, listenerVars
<1>2. ASSUME NEW f \in Slots
      PROVE  /\ items'[f] = Null <=> items[f] = Null
             /\ items[f] # Null => /\ items'[f].id = items[f].id
                                   /\ items'[f].numberRetry = items[f].numberRetry
  <2>1. items'[f] = Older(items[f])
    BY DEF Tick
  <2>2. items[f] # Null => Older(items[f]) \in {items[f], [items[f] EXCEPT !.age = @ + 1]}
                           /\ items[f] \in Item
    BY DEF Older, Inv, TypeOK
  <2>3. items[f] # Null => Older(items[f]) # Null
    <3>1. items[f] # Null => Older(items[f]) \in Item
      BY <2>2 DEF Older, Item, DueAge
    <3>. QED  BY <3>1, NullAssumption
  <2>4. items[f] = Null => Older(items[f]) = Null
    BY DEF Older
  <2>. QED  BY <2>1, <2>2, <2>3, <2>4 DEF Item
<1>3. \A f \in Slots : items'[f] # Null => Coherent(items[f])'
  BY <1>1, <1>2 DEF FateInv, SlotsInv, Coherent
<1>4. SlotsInv'
  BY <1>1, <1>2, <1>3 DEF FateInv, SlotsInv
<1>5. \A i \in Ids : Ledger(i)'
  BY <1>1 DEF FateInv, Ledger
<1>. QED  BY <1>1, <1>4, <1>5, SenderKept

LEMMA RestFateInv ==
  ASSUME NEW s, Inv(s), FateInv(s),
         StartScan \/ ScanEmpty \/ EndScan \/ Release \/ Transmit \/ UNCHANGED vars
  PROVE  FateInv(s)'
<1>1. UNCHANGED <<items, attempts, fate, senderVars>>
  BY DEF StartScan, ScanEmpty, EndScan, Release, Transmit, vars, listenerVars
<1>2. SlotsInv' /\ \A i \in Ids : Ledger(i)'
  BY <1>1 DEF FateInv, SlotsInv, Coherent, Ledger, senderVars
<1>. QED  BY <1>1, <1>2, SenderKept

LEMMA StepFateInv ==
  ASSUME NEW s, Senders = {s}, Inv(s), FateInv(s), [Next]_vars
  PROVE  FateInv(s)'
<1>1. CASE \E u \in Senders : Sender(u)
  <2>1. Sender(s)
    BY <1>1
  <2>. QED  BY <2>1, SenderFateInv, NewItemFateInv, StoreItemFateInv DEF Sender, Push
<1>2. CASE Scan
  BY <1>2, ScanItemFateInv, RestFateInv DEF Scan
<1>3. CASE \E i \in Ids : ClearMessage(i)
  BY <1>3, ClearMessageFateInv
<1>4. CASE Tick \/ UNCHANGED vars
  BY <1>4, TickFateInv, RestFateInv
<1>. QED  BY <1>1, <1>2, <1>3, <1>4 DEF Next

\* With one sender a message is chosen at most as often as it was asked to be
\* sent, and given up only after the last time; a message to be sent 0 times is
\* dropped unsent or after its counter went once around (queue.cpp:47-55).
THEOREM QueueRetryBudget ==
  ASSUME NEW s, Senders = {s}
  PROVE  Spec => []RetryBudget
<1>. DEFINE Both == Inv(s) /\ FateInv(s)
<1>1. Init => Both
  BY InitInv, InitFateInv
<1>2. Both /\ [Next]_vars => Both'
  BY StepInv, StepFateInv
<1>3. Both => RetryBudget
  <2>. SUFFICES ASSUME Both, NEW i \in Ids
                PROVE  /\ budget[i] > 0 => attempts[i] <= budget[i]
                       /\ fate[i] = "spent" => attempts[i] % NumberSpace = budget[i]
    BY DEF RetryBudget
  <2>1. Ledger(i)
    BY DEF FateInv
  <2>2. \A n \in 0 .. NumberSpace - 1 : n % NumberSpace = n
    BY QueueAssumption
  <2>3. NumberSpace % NumberSpace = 0
    BY QueueAssumption
  <2>. QED  BY <2>1, <2>2, <2>3 DEF Ledger
<1>. QED  BY <1>1, <1>2, <1>3, PTL DEF Spec

-----------------------------------------------------------------------------
(***************************************************************************)
(* Queue implements Outbox: every step accepts, attempts, drops or clears  *)
(* one message, or changes nothing that Outbox knows.                      *)
(***************************************************************************)
Held == {i \in Ids : fate[i] = "queued"}

\* A free slot leaves room in the outbox: each message held has its own slot.
LEMMA RoomWhenFree ==
  ASSUME NEW s, Inv(s), FateInv(s), NEW f \in Slots, items[f] = Null
  PROVE  Cardinality(Held) < Capacity
<1>. DEFINE slot == [i \in Held |-> CHOOSE g \in Slots : items[g] # Null /\ items[g].id = i]
<1>1. \A i \in Held : slot[i] \in Full(items) /\ items[slot[i]].id = i
  BY DEF FateInv, SlotsInv, Held, Full
<1>2. slot \in [Held -> Full(items)]
  BY <1>1
<1>. HIDE DEF slot
<1>3. slot \in Injection(Held, Full(items))
  BY <1>1, <1>2 DEF Injection, IsInjective
<1>4. IsFiniteSet(Full(items)) /\ Cardinality(Full(items)) \in Nat
  BY FullBounded
<1>5. Cardinality(Held) <= Cardinality(Full(items)) /\ IsFiniteSet(Held)
  BY <1>3, <1>4, FS_Injection
<1>6. Cardinality(Held) \in Nat
  BY <1>5, FS_CardinalityType
<1>7. Full(items) \in SUBSET Slots /\ Full(items) # Slots
  BY DEF Full
<1>8. Cardinality(Full(items)) <= Capacity /\ Cardinality(Full(items)) # Capacity
  BY <1>7, SlotsFinite, FS_Subset
<1>. QED  BY <1>4, <1>5, <1>6, <1>8, QueueAssumption

\* Steps that leave attempts and fates alone, except that a new message may be
\* numbered, are stuttering steps.
LEMMA AskedKept ==
  ASSUME NEW s, Inv(s), UNCHANGED <<attempts, fate>>,
         \A i \in Ids : fate[i] # "none" => budget'[i] = budget[i]
  PROVE  UNCHANGED Outgoing!vars
BY DEF Asked, Outgoing!vars

LEMMA StoreItemAccepts ==
  ASSUME NEW s, Senders = {s}, Inv(s), FateInv(s), StoreItem(s)
  PROVE  Outgoing!Accept(mine[s].id)
<1>. DEFINE m == mine[s].id
            r == retry[s]
<1>1. /\ idx[s] \in Slots /\ items[idx[s]] = Null /\ m \in Ids
      /\ Fresh(mine[s], r) /\ r \in Retries
  BY DEF Inv, SearchInv, FateInv, StoreItem, Granted, Item
<1>2. fate[m] = "none" /\ budget[m] = r + 1
  BY <1>1 DEF Fresh
<1>3. Outgoing!Cardinality(Outgoing!Held) < Capacity
  <2>1. Outgoing!Cardinality(Outgoing!Held) = Cardinality(Held)
    BY DEF Outgoing!Cardinality, Cardinality, Held, Outgoing!Held
  <2>. QED  BY <1>1, <2>1, RoomWhenFree
<1>4. UNCHANGED <<budget, attempts>>
  BY DEF StoreItem, listenerVars
<1>5. fate' = [fate EXCEPT ![m] = "queued"]
  BY <1>1 DEF StoreItem, Inv, TypeOK
<1>6. Asked' = [Asked EXCEPT ![m] = r + 1]
  BY <1>1, <1>2, <1>4, <1>5 DEF Asked, Inv, TypeOK
<1>7. \E q \in Retries : Asked' = [Asked EXCEPT ![m] = q + 1]
  BY <1>1, <1>6
<1>. HIDE DEF m
<1>. QED  BY <1>2, <1>3, <1>4, <1>5, <1>7 DEF Outgoing!Accept, m

LEMMA ScanItemAttempts ==
  ASSUME NEW s, Senders = {s}, Inv(s), FateInv(s), ScanItem
  PROVE  \/ Outgoing!Attempt(items[lidx].id)
         \/ Outgoing!Drop(items[lidx].id)
         \/ UNCHANGED Outgoing!vars
<1>. DEFINE item == items[lidx]
            seen == Visited(item)
            m == item.id
<1>1. /\ item # Null /\ item \in Item /\ m \in Ids
      /\ item.numberRetry \in 0 .. NumberSpace - 1
      /\ attempts[m] \in 0 .. NumberSpace /\ budget[m] \in 0 .. NumberSpace - 1
      /\ Coherent(item)
  BY CoherentAttempts DEF ScanItem
<1>2. /\ ~IsNext(item) => seen.numberRetry = item.numberRetry
      /\ IsNext(item) => seen.numberRetry = IF item.numberRetry = 0 THEN NumberSpace - 1
                                                                    ELSE item.numberRetry - 1
  BY <1>1, VisitedEffect
<1>3. /\ attempts' = IF IsNext(item) THEN [attempts EXCEPT ![m] = @ + 1] ELSE attempts
      /\ fate' = IF Spent(seen) THEN [fate EXCEPT ![m] = "spent"] ELSE fate
      /\ budget' = budget
  BY <1>1, CountsUp DEF ScanItem, senderVars, Inv, TypeOK
<1>. HIDE DEF item, seen
<1>4. /\ \/ item.numberRetry + attempts[m] = budget[m]
         \/ budget[m] = 0 /\ attempts[m] > 0 /\ item.numberRetry + attempts[m] = NumberSpace
      /\ item.numberRetry = 0 => budget[m] = 0 /\ attempts[m] = 0
      /\ fate[m] = "queued"
  BY <1>1 DEF Coherent
<1>5. Asked[m] = budget[m] /\ Asked' = Asked
  <2>1. \A i \in Ids : fate[i] = "none" <=> fate'[i] = "none"
    BY <1>1, <1>3, <1>4 DEF Inv, TypeOK
  <2>. QED  BY <1>1, <1>3, <1>4, <2>1 DEF Asked
<1>6. CASE IsNext(item)
  <2>1. Spent(seen) <=> Outgoing!IsLast(m)
    <3>1. Spent(seen) <=> attempts[m] + 1 = (IF budget[m] = 0 THEN NumberSpace ELSE budget[m])
      <4>1. CASE item.numberRetry = 0
        BY <1>2, <1>4, <1>6, <4>1, QueueAssumption DEF Spent
      <4>2. CASE item.numberRetry # 0
        BY <1>1, <1>2, <1>4, <1>6, <4>2, QueueAssumption DEF Spent
      <4>. QED  BY <4>1, <4>2
    <3>. QED  BY <1>5, <3>1 DEF Outgoing!IsLast
  <2>. QED  BY <1>3, <1>4, <1>5, <1>6, <2>1 DEF Outgoing!Attempt, item
<1>7. CASE ~IsNext(item) /\ Spent(seen)
  <2>1. budget[m] = 0 /\ attempts[m] = 0
    BY <1>2, <1>4, <1>7 DEF Spent
  <2>. QED  BY <1>3, <1>4, <1>5, <1>7, <2>1 DEF Outgoing!Drop, item
<1>8. CASE ~IsNext(item) /\ ~Spent(seen)
  BY <1>3, <1>5, <1>8 DEF Outgoing!vars
<1>. QED  BY <1>6, <1>7, <1>8

LEMMA ClearMessageClears ==
  ASSUME NEW s, Senders = {s}, Inv(s), FateInv(s), NEW i \in Ids, ClearMessage(i)
  PROVE  Outgoing!Clear(items[i].id)
<1>. DEFINE m == items[i].id
<1>1. i \in Slots /\ items[i] # Null /\ m \in Ids /\ fate[m] = "queued"
  BY CoherentAttempts, QueueAssumption DEF ClearMessage, Ids, Slots, Coherent
<1>2. fate' = [fate EXCEPT ![m] = "cleared"] /\ UNCHANGED <<budget, attempts>>
  BY DEF ClearMessage, senderVars
<1>3. Asked' = Asked
  BY <1>1, <1>2 DEF Asked, Inv, TypeOK
<1>. QED  BY <1>1, <1>2, <1>3 DEF Outgoing!Clear

LEMMA StepOutbox ==
  ASSUME NEW s, Senders = {s}, Inv(s), FateInv(s), [Next]_vars
  PROVE  [Outgoing!Next]_(Outgoing!vars)
<1>1. CASE StoreItem(s)
  <2>1. mine[s].id \in Ids
    BY <1>1 DEF StoreItem, Inv, SearchInv, Item
  <2>. QED  BY <1>1, <2>1, StoreItemAccepts DEF Outgoing!Next
<1>2. CASE ScanItem
  <2>1. items[lidx].id \in Ids
    BY <1>2, CoherentAttempts DEF ScanItem
  <2>. QED  BY <1>2, <2>1, ScanItemAttempts DEF Outgoing!Next
<1>3. CASE \E i \in Ids : ClearMessage(i)
  <2>1. PICK i \in Ids : ClearMessage(i)
    BY <1>3
  <2>2. items[i].id \in Ids
    BY <2>1, CoherentAttempts, QueueAssumption DEF ClearMessage, Ids, Slots
  <2>. QED  BY <2>1, <2>2, ClearMessageClears DEF Outgoing!Next
<1>4. CASE NewItem(s)
  <2>1. UNCHANGED <<attempts, fate>> /\ budget' = [budget EXCEPT ![nextId] = retry[s] + 1]
    BY <1>4 DEF NewItem, listenerVars
  <2>2. nextId \in Ids /\ fate[nextId] = "none"
    BY <1>4, QueueAssumption DEF NewItem, FateInv, Ledger, Inv, SearchInv, TypeOK, Ids
  <2>3. \A i \in Ids : fate[i] # "none" => budget'[i] = budget[i]
    BY <2>1, <2>2 DEF Inv, TypeOK
  <2>. QED  BY <2>1, <2>3, AskedKept
<1>5. CASE (\E r \in Retries : TakeIndex(s, r)) \/ TakeIndexFull(s) \/ Undo(s) \/ LookAtSlot(s)
  <2>1. pc[s] = "look" => idx[s] \in Slots
    BY QueueAssumption DEF Inv, SearchInv, TypeOK, Slots
  <2>2. UNCHANGED <<attempts, fate, budget>>
    BY <1>5, <2>1 DEF TakeIndex, TakeIndexFull, Undo, LookAtSlot, listenerVars
  <2>. QED  BY <2>2, AskedKept
<1>6. CASE StartScan \/ ScanEmpty \/ EndScan \/ Release \/ Transmit \/ Tick \/ UNCHANGED vars
  <2>1. UNCHANGED <<attempts, fate, budget>>
    BY <1>6 DEF StartScan, ScanEmpty, EndScan, Release, Transmit, Tick, vars, senderVars, listenerVars
  <2>. QED  BY <2>1, AskedKept
<1>. QED  BY <1>1, <1>2, <1>3, <1>4, <1>5, <1>6 DEF Next, Sender, Push, Scan

\* With one sender the retry queue implements Outbox, for every capacity,
\* number of messages and retry argument (queue.cpp, connector.cpp:312-336).
THEOREM QueueActsAsOutbox ==
  ASSUME NEW s, Senders = {s}
  PROVE  Spec => ActsAsOutbox
<1>. DEFINE Both == Inv(s) /\ FateInv(s)
<1>1. Init => Both
  BY InitInv, InitFateInv
<1>2. Both /\ [Next]_vars => Both'
  BY StepInv, StepFateInv
<1>3. Init => Outgoing!Init
  BY DEF Init, Outgoing!Init, Asked
<1>4. Both /\ [Next]_vars => [Outgoing!Next]_(Outgoing!vars)
  BY StepOutbox
<1>. QED  BY <1>1, <1>2, <1>3, <1>4, PTL DEF Spec, ActsAsOutbox, Outgoing!Spec
=============================================================================
