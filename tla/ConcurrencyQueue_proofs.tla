----------------------- MODULE ConcurrencyQueue_proofs -----------------------
(***************************************************************************)
(* Proofs about ConcurrencyQueue, for every capacity and any finite number *)
(* of producers and consumers.                                             *)
(***************************************************************************)
EXTENDS ConcurrencyQueue, FiniteSetTheorems, TLAPS

-----------------------------------------------------------------------------
(***************************************************************************)
(* Counting processes by where they are.                                   *)
(***************************************************************************)
Count(P, f, L) == Cardinality({q \in P : f[q] \in L})

LEMMA CountType ==
  ASSUME NEW P, IsFiniteSet(P), NEW f, NEW L
  PROVE  IsFiniteSet({q \in P : f[q] \in L}) /\ Count(P, f, L) \in Nat
BY FS_Subset, FS_CardinalityType DEF Count

\* One process moves.
LEMMA CountMoves ==
  ASSUME NEW P, IsFiniteSet(P), NEW L, NEW f, NEW g, NEW p \in P,
         \A q \in P : q # p => g[q] = f[q]
  PROVE  Count(P, g, L) = Count(P, f, L) + (IF g[p] \in L THEN 1 ELSE 0)
                                         - (IF f[p] \in L THEN 1 ELSE 0)
<1>. DEFINE A == {q \in P : f[q] \in L}
            B == {q \in P : g[q] \in L}
<1>1. IsFiniteSet(A) /\ IsFiniteSet(B)
  BY FS_Subset
<1>2. Count(P, f, L) = Cardinality(A) /\ Count(P, g, L) = Cardinality(B)
  BY DEF Count
<1>3. Cardinality(A) \in Nat /\ Cardinality(B) \in Nat
  BY <1>1, FS_CardinalityType
<1>4. CASE (f[p] \in L) <=> (g[p] \in L)
  <2>1. A = B
    BY <1>4
  <2>2. Cardinality(A) = Cardinality(B)
    BY <2>1
  <2>. HIDE DEF A, B
  <2>. QED  BY <1>2, <1>3, <1>4, <2>2
<1>5. CASE f[p] \in L /\ g[p] \notin L
  <2>1. B = A \ {p} /\ p \in A
    BY <1>5
  <2>. HIDE DEF A, B
  <2>2. Cardinality(B) = Cardinality(A) - 1
    BY <1>1, <2>1, FS_RemoveElement
  <2>. QED  BY <1>2, <1>3, <1>5, <2>2
<1>6. CASE f[p] \notin L /\ g[p] \in L
  <2>1. B = A \cup {p} /\ p \notin A
    BY <1>6
  <2>. HIDE DEF A, B
  <2>2. Cardinality(B) = Cardinality(A) + 1
    BY <1>1, <2>1, FS_AddElement
  <2>. QED  BY <1>2, <1>3, <1>6, <2>2
<1>. QED  BY <1>4, <1>5, <1>6

\* No process moves.
LEMMA CountStays ==
  ASSUME NEW P, NEW L, NEW f, NEW g, \A q \in P : g[q] = f[q]
  PROVE  Count(P, g, L) = Count(P, f, L)
BY {q \in P : g[q] \in L} = {q \in P : f[q] \in L} DEF Count

-----------------------------------------------------------------------------
(***************************************************************************)
(* Types.                                                                  *)
(***************************************************************************)
LEMMA AdvanceType == ASSUME NEW i \in Slots  PROVE Advance(i) \in Slots
BY ConcurrencyQueueAssumption DEF Advance, Slots

\* A producer that was let in has a value.
TypeInv ==
  /\ TypeOK
  /\ \A p \in Producers : pc[p] \in {"claim", "write"} => value[p] \in Values

LEMMA InitTypeInv == Init => TypeInv
<1>. SUFFICES ASSUME Init  PROVE TypeInv
  OBVIOUS
<1>1. 0 \in Slots /\ 0 \in 0 .. MaxPushes /\ <<>> \in Seq(Values)
  BY ConcurrencyQueueAssumption DEF Slots
<1>2. buffer \in [Slots -> Content]
  BY DEF Init, Content
<1>3. /\ pc \in [Processes -> {"idle", "undo", "claim", "write", "subtract", "swap"}]
      /\ index \in [Processes -> Slots]
      /\ value \in [Producers -> Values \cup {0}]
      /\ turn \in [Consumers -> Nat]
  BY <1>1 DEF Init
<1>4. \A p \in Producers : pc[p] \notin {"claim", "write"}
  BY DEF Init, Processes
<1>5. refused \in BOOLEAN /\ raced \in BOOLEAN
  BY DEF Init
<1>6. size \in Int /\ reads \in Nat
  <2>1. size = 0 /\ reads = 0
    BY DEF Init
  <2>. QED  BY <2>1
<1>7. index_read \in Slots /\ index_write \in Slots /\ calls \in 0 .. MaxPushes
  BY <1>1 DEF Init
<1>8. pushed \in Seq(Values)
  BY <1>1 DEF Init
<1>9. popped \subseteq [turn : Nat, value : Content]
  BY DEF Init
<1>10. TypeOK
  BY <1>2, <1>3, <1>5, <1>6, <1>7, <1>8, <1>9 DEF TypeOK
<1>. QED  BY <1>4, <1>10 DEF TypeInv

LEMMA PushTypeInv ==
  ASSUME TypeInv, NEW p \in Producers, Push(p)
  PROVE  TypeInv'
<1>. p \in Processes
  BY DEF Processes
<1>. USE DEF TypeInv, Goto
<1>1. CASE Reserve(p)
  <2>1. calls + 1 \in 0 .. MaxPushes /\ calls + 1 \in Values
    BY <1>1, ConcurrencyQueueAssumption DEF Reserve, TypeOK, Values
  <2>. QED  BY <1>1, <2>1 DEF Reserve, TypeOK, Processes
<1>2. CASE Undo(p)
  BY <1>2 DEF Undo, TypeOK, history, Processes
<1>3. CASE ClaimWrite(p)
  BY <1>3, AdvanceType DEF ClaimWrite, TypeOK, Processes
<1>4. CASE Write(p)
  BY <1>4 DEF Write, TypeOK, Content, Processes
<1>. QED  BY <1>1, <1>2, <1>3, <1>4 DEF Push

LEMMA PopTypeInv ==
  ASSUME TypeInv, NEW c \in Consumers, Pop(c)
  PROVE  TypeInv'
<1>. c \in Processes /\ c \notin Producers
  BY ConcurrencyQueueAssumption DEF Processes
<1>. USE DEF TypeInv, Goto
<1>1. CASE Load(c)
  BY <1>1 DEF Load, TypeOK, queueVars, history, Processes
<1>2. CASE Subtract(c)
  BY <1>2 DEF Subtract, TypeOK, history, Processes
<1>3. CASE ClaimRead(c)
  BY <1>3, AdvanceType DEF ClaimRead, TypeOK, Processes
<1>4. CASE Swap(c)
  <2>1. buffer[index[c]] \in Content /\ Empty \in Content /\ turn[c] \in Nat
    BY DEF TypeOK, Content
  <2>. QED  BY <1>4, <2>1 DEF Swap, TypeOK, Processes
<1>. QED  BY <1>1, <1>2, <1>3, <1>4 DEF Pop

LEMMA StepTypeInv == TypeInv /\ [Next]_vars => TypeInv'
<1>1. TypeInv /\ UNCHANGED vars => TypeInv'
  BY DEF TypeInv, TypeOK, vars, queueVars, history
<1>. QED  BY <1>1, PushTypeInv, PopTypeInv DEF Next

\* Every variable keeps its type, for any capacity and any processes.
THEOREM ConcurrencyQueueTypeCorrect == Spec => []TypeOK
<1>1. Init => TypeInv
  BY InitTypeInv
<1>2. TypeInv /\ [Next]_vars => TypeInv'
  BY StepTypeInv
<1>3. TypeInv => TypeOK
  BY DEF TypeInv
<1>. QED  BY <1>1, <1>2, <1>3, PTL DEF Spec

-----------------------------------------------------------------------------
(***************************************************************************)
(* The size is exact.                                                      *)
(***************************************************************************)
Adding == Count(Producers, pc, {"claim", "undo"})
Taking == Count(Consumers, pc, {"claim"})

Account == size = Len(pushed) - reads + Adding - Taking

LEMMA AccountIsSizeAccounts == Account <=> SizeAccounts
<1>1. {c \in Consumers : pc[c] \in {"claim"}} = {c \in Consumers : pc[c] = "claim"}
  OBVIOUS
<1>. QED  BY <1>1 DEF Account, Adding, Taking, Count, SizeAccounts

LEMMA CountsAreNumbers == Adding \in Nat /\ Taking \in Nat
BY CountType, ConcurrencyQueueAssumption DEF Adding, Taking

LEMMA InitAccount == Init => Account
<1>. SUFFICES ASSUME Init  PROVE Account
  OBVIOUS
<1>1. {p \in Producers : pc[p] \in {"claim", "undo"}} = {}
  BY DEF Init, Processes
<1>2. {c \in Consumers : pc[c] \in {"claim"}} = {}
  BY DEF Init, Processes
<1>3. Adding = 0 /\ Taking = 0
  BY <1>1, <1>2, FS_EmptySet DEF Adding, Taking, Count
<1>4. Len(pushed) = 0 /\ size = 0 /\ reads = 0
  BY DEF Init
<1>. QED  BY <1>3, <1>4 DEF Account

LEMMA PushAccount ==
  ASSUME TypeInv, Account, NEW p \in Producers, Push(p)
  PROVE  Account'
<1>. p \in Processes /\ p \notin Consumers
  BY ConcurrencyQueueAssumption DEF Processes
<1>1. /\ pc \in [Processes -> {"idle", "undo", "claim", "write", "subtract", "swap"}]
      /\ size \in Int /\ reads \in Nat /\ pushed \in Seq(Values) /\ Len(pushed) \in Nat
  BY DEF TypeInv, TypeOK
<1>2. /\ \A q \in Consumers : pc'[q] = pc[q]
      /\ \A q \in Producers : q # p => pc'[q] = pc[q]
  BY <1>1 DEF Push, Reserve, Undo, ClaimWrite, Write, Goto, Processes
<1>3. Taking' = Taking
  BY <1>2, CountStays DEF Taking
<1>4. Adding' = Adding + (IF pc'[p] \in {"claim", "undo"} THEN 1 ELSE 0)
                       - (IF pc[p] \in {"claim", "undo"} THEN 1 ELSE 0)
  <2>1. IsFiniteSet(Producers)
    BY ConcurrencyQueueAssumption
  <2>. HIDE DEF Count
  <2>. QED  BY ONLY <1>2, <2>1, CountMoves, p \in Producers DEF Adding
<1>5. CASE Reserve(p)
  BY <1>1, <1>3, <1>4, <1>5, CountsAreNumbers DEF Reserve, Goto, Account
<1>6. CASE Undo(p)
  BY <1>1, <1>3, <1>4, <1>6, CountsAreNumbers DEF Undo, Goto, Account, history
<1>7. CASE ClaimWrite(p)
  <2>1. value[p] \in Values
    BY <1>7 DEF TypeInv, ClaimWrite
  <2>2. Len(pushed') = Len(pushed) + 1
    BY <1>1, <1>7, <2>1 DEF ClaimWrite
  <2>. QED  BY <1>1, <1>3, <1>4, <1>7, <2>2, CountsAreNumbers DEF ClaimWrite, Goto, Account
<1>8. CASE Write(p)
  BY <1>1, <1>3, <1>4, <1>8, CountsAreNumbers DEF Write, Goto, Account
<1>. QED  BY <1>5, <1>6, <1>7, <1>8 DEF Push

LEMMA PopAccount ==
  ASSUME TypeInv, Account, NEW c \in Consumers, Pop(c)
  PROVE  Account'
<1>. c \in Processes /\ c \notin Producers
  BY ConcurrencyQueueAssumption DEF Processes
<1>1. /\ pc \in [Processes -> {"idle", "undo", "claim", "write", "subtract", "swap"}]
      /\ size \in Int /\ reads \in Nat /\ pushed \in Seq(Values) /\ Len(pushed) \in Nat
  BY DEF TypeInv, TypeOK
<1>2. /\ \A q \in Producers : pc'[q] = pc[q]
      /\ \A q \in Consumers : q # c => pc'[q] = pc[q]
  BY <1>1 DEF Pop, Load, Subtract, ClaimRead, Swap, Goto, Processes
<1>3. Adding' = Adding
  BY <1>2, CountStays DEF Adding
<1>4. Taking' = Taking + (IF pc'[c] \in {"claim"} THEN 1 ELSE 0)
                       - (IF pc[c] \in {"claim"} THEN 1 ELSE 0)
  <2>1. IsFiniteSet(Consumers)
    BY ConcurrencyQueueAssumption
  <2>. HIDE DEF Count
  <2>. QED  BY ONLY <1>2, <2>1, CountMoves, c \in Consumers DEF Taking
<1>5. CASE Load(c)
  BY <1>1, <1>3, <1>4, <1>5, CountsAreNumbers DEF Load, Goto, Account, queueVars, history
<1>6. CASE Subtract(c)
  BY <1>1, <1>3, <1>4, <1>6, CountsAreNumbers DEF Subtract, Goto, Account, history
<1>7. CASE ClaimRead(c)
  BY <1>1, <1>3, <1>4, <1>7, CountsAreNumbers DEF ClaimRead, Goto, Account
<1>8. CASE Swap(c)
  BY <1>1, <1>3, <1>4, <1>8, CountsAreNumbers DEF Swap, Goto, Account
<1>. QED  BY <1>5, <1>6, <1>7, <1>8 DEF Pop

LEMMA StepAccount == TypeInv /\ Account /\ [Next]_vars => Account'
<1>1. Account /\ UNCHANGED vars => Account'
  BY DEF Account, Adding, Taking, vars, queueVars, history
<1>. QED  BY <1>1, PushAccount, PopAccount DEF Next

\* No interleaving of any number of producers and consumers loses or repeats an
\* update of the size (concurrency_queue.h:28-41 and 105-118).
THEOREM ConcurrencyQueueSizeAccounts == Spec => []SizeAccounts
<1>1. Init => TypeInv /\ Account
  BY InitTypeInv, InitAccount
<1>2. TypeInv /\ Account /\ [Next]_vars => TypeInv' /\ Account'
  BY StepTypeInv, StepAccount
<1>3. Account => SizeAccounts
  BY AccountIsSizeAccounts
<1>. QED  BY <1>1, <1>2, <1>3, PTL DEF Spec

-----------------------------------------------------------------------------
(***************************************************************************)
(* No underflow before a refusal, with one consumer.                       *)
(***************************************************************************)
\* While nothing was refused only the consumer takes from the size, and from its
\* test to its subtraction the size is not 0.
FloorInv(c) ==
  ~refused => /\ size >= 0
              /\ pc[c] = "subtract" => size >= 1
              /\ \A p \in Producers : pc[p] # "undo"

LEMMA StepFloorInv ==
  ASSUME NEW c, Consumers = {c}, TypeInv, FloorInv(c), [Next]_vars
  PROVE  FloorInv(c)'
<1>. c \in Processes /\ c \notin Producers /\ size \in Int
  BY ConcurrencyQueueAssumption DEF Processes, TypeInv, TypeOK
<1>1. pc \in [Processes -> {"idle", "undo", "claim", "write", "subtract", "swap"}]
  BY DEF TypeInv, TypeOK
<1>2. ASSUME NEW p \in Producers, Push(p)  PROVE FloorInv(c)'
  <2>. p \in Processes /\ p # c
    BY DEF Processes
  <2>. SUFFICES ASSUME ~refused'  PROVE FloorInv(c)'
    BY DEF FloorInv
  <2>1. CASE Reserve(p)
    <3>1. ~refused /\ ~Full
      BY <2>1 DEF Reserve
    <3>. QED  BY <1>1, <2>1, <3>1 DEF Reserve, Goto, FloorInv, Processes
  <2>2. CASE Undo(p)
    BY <2>2 DEF Undo, FloorInv, history
  <2>3. CASE ClaimWrite(p)
    BY <1>1, <2>3 DEF ClaimWrite, Goto, FloorInv, Processes
  <2>4. CASE Write(p)
    BY <1>1, <2>4 DEF Write, Goto, FloorInv, Processes
  <2>. QED  BY <1>2, <2>1, <2>2, <2>3, <2>4 DEF Push
<1>3. CASE Pop(c)
  BY <1>1, <1>3 DEF Pop, Load, Subtract, ClaimRead, Swap, Goto, FloorInv,
                    queueVars, history, Processes
<1>4. CASE UNCHANGED vars
  BY <1>4 DEF FloorInv, vars, queueVars, history
<1>. QED  BY <1>2, <1>3, <1>4 DEF Next

\* With one consumer, as in this program, the size stays above 0 until a push is
\* refused, for any capacity and any number of producers.
THEOREM ConcurrencyQueueNoUnderflowBeforeFull ==
  ASSUME NEW c, Consumers = {c}
  PROVE  Spec => []NoUnderflowBeforeFull
<1>1. Init => TypeInv /\ FloorInv(c)
  BY InitTypeInv DEF Init, FloorInv, Processes
<1>2. TypeInv /\ FloorInv(c) /\ [Next]_vars => TypeInv' /\ FloorInv(c)'
  BY StepTypeInv, StepFloorInv
<1>3. FloorInv(c) => NoUnderflowBeforeFull
  BY DEF FloorInv, NoUnderflowBeforeFull
<1>. QED  BY <1>1, <1>2, <1>3, PTL DEF Spec
-----------------------------------------------------------------------------
(***************************************************************************)
(* First in, first out, with one consumer.                                 *)
(***************************************************************************)
\* The slot of the k-th claim, of push as of pop.
Slot(k) == (k - 1) % Capacity

\* After n claims the index is i.
Around(n, i) == i \in Slots /\ \E q \in Nat : n = Capacity * q + i

LEMMA AroundNext ==
  ASSUME NEW n \in Nat, NEW i, Around(n, i)
  PROVE  Slot(n + 1) = i /\ Around(n + 1, Advance(i))
<1>1. PICK q \in Nat : n = Capacity * q + i
  BY DEF Around
<1>2. i \in 0 .. Capacity - 1 /\ Capacity \in Nat \ {0}
  BY ConcurrencyQueueAssumption DEF Around, Slots
<1>3. \A m \in Int, r \in 0 .. Capacity - 1 : (Capacity * m + r) % Capacity = r
  <2>. SUFFICES ASSUME NEW m \in Int, NEW r \in 0 .. Capacity - 1
                PROVE  (Capacity * m + r) % Capacity = r
    OBVIOUS
  <2>. QED  BY <1>2, SMTT(60)
<1>4. n + 1 - 1 = Capacity * q + i /\ q \in Int
  BY <1>1, <1>2
<1>5. Slot(n + 1) = i
  BY <1>2, <1>3, <1>4 DEF Slot
<1>6. CASE i + 1 < Capacity
  <2>1. i + 1 = Capacity * 0 + (i + 1) /\ i + 1 \in 0 .. Capacity - 1
    BY <1>2, <1>6
  <2>2. Advance(i) = i + 1
    BY <1>3, <2>1 DEF Advance
  <2>3. n + 1 = Capacity * q + (i + 1)
    BY <1>1, <1>2
  <2>. QED  BY <1>5, <2>1, <2>2, <2>3 DEF Around, Slots
<1>7. CASE i + 1 = Capacity
  <2>1. i + 1 = Capacity * 1 + 0 /\ 0 \in 0 .. Capacity - 1
    BY <1>2, <1>7
  <2>2. Advance(i) = 0
    BY <1>3, <2>1 DEF Advance
  <2>3. n + 1 = Capacity * (q + 1) + 0 /\ q + 1 \in Nat
    BY <1>1, <1>2, <1>7
  <2>. QED  BY <1>5, <2>1, <2>2, <2>3 DEF Around, Slots
<1>. QED  BY <1>2, <1>6, <1>7

Position(k) == k \in 1 .. Len(pushed)
\* The k-th value is claimed for and not written yet.
Pending(k) == \E p \in Producers : pc[p] = "write" /\ value[p] = pushed[k]

\* How often pop was done with its slot.
Done(c) == reads - (IF pc[c] = "swap" THEN 1 ELSE 0)
Waiting(c, k) == Position(k) /\ k > Done(c)

\* The indices follow the claims; every value is queued once.
ClaimInv(c) ==
  /\ Around(Len(pushed), index_write) /\ Around(reads, index_read)
  /\ pc[c] = "swap" => reads >= 1 /\ turn[c] = reads /\ index[c] = Slot(reads)
  /\ \A j, k : Position(j) /\ Position(k) /\ pushed[j] = pushed[k] => j = k
  /\ \A k : Position(k) => pushed[k] <= calls
  /\ \A p \in Producers :
       /\ pc[p] \in {"claim", "write"} => value[p] <= calls
       /\ pc[p] = "claim" => \A k : Position(k) => pushed[k] # value[p]
       /\ pc[p] = "write" => \E k : Position(k) /\ pushed[k] = value[p] /\ index[p] = Slot(k)
  /\ \A p, q \in Producers :
       pc[p] \in {"claim", "write"} /\ pc[q] \in {"claim", "write"} /\ value[p] = value[q] => p = q

\* Until an access races, a slot holds the one written value that waits for it.
SlotInv(c) ==
  /\ Done(c) <= Len(pushed)
  /\ \A k : Position(k) /\ Pending(k) => k > Done(c)
  /\ \A k : Waiting(c, k) /\ ~Pending(k) => buffer[Slot(k)] = pushed[k]
  /\ \A s \in Slots : buffer[s] \in Values => \E k : Waiting(c, k) /\ ~Pending(k) /\ Slot(k) = s
  /\ \A j, k : Waiting(c, j) /\ Waiting(c, k) /\ j < k /\ Slot(j) = Slot(k) => Pending(k)
  /\ \A r \in popped : Position(r.turn) /\ r.value = pushed[r.turn]

FifoInv(c) == ClaimInv(c) /\ (~raced => SlotInv(c))

LEMMA SlotType == ASSUME NEW k \in Nat  PROVE Slot(k) \in Slots
BY ConcurrencyQueueAssumption DEF Slot, Slots

LEMMA InitFifoInv == ASSUME NEW c, Consumers = {c} PROVE Init => FifoInv(c)
<1>. SUFFICES ASSUME Init  PROVE FifoInv(c)
  OBVIOUS
<1>1. Len(pushed) = 0 /\ reads = 0 /\ \A k : ~Position(k)
  BY DEF Init, Position
<1>2. Around(0, 0)
  <2>1. 0 \in Slots /\ 0 = Capacity * 0 + 0
    BY ConcurrencyQueueAssumption DEF Slots
  <2>. QED  BY <2>1 DEF Around
<1>3. \A p \in Processes : pc[p] = "idle"
  BY DEF Init
<1>4. index_write = 0 /\ index_read = 0 /\ popped = {} /\ \A s \in Slots : buffer[s] \notin Values
  BY ConcurrencyQueueAssumption DEF Init, Values
<1>5. Done(c) <= Len(pushed)
  BY <1>1, <1>3, ConcurrencyQueueAssumption DEF Done, Processes
<1>. QED  BY <1>1, <1>2, <1>3, <1>4, <1>5 DEF FifoInv, ClaimInv, SlotInv, Waiting, Processes
\* The types that the steps below lean on.
LEMMA FifoTypes ==
  ASSUME NEW c, Consumers = {c}, TypeInv
  PROVE  /\ pc \in [Processes -> {"idle", "undo", "claim", "write", "subtract", "swap"}]
         /\ index \in [Processes -> Slots] /\ value \in [Producers -> Values \cup {0}]
         /\ buffer \in [Slots -> Content]
         /\ pushed \in Seq(Values) /\ Len(pushed) \in Nat /\ reads \in Nat /\ calls \in Nat
         /\ c \in Processes /\ c \notin Producers /\ Producers \subseteq Processes
         /\ Done(c) \in Int /\ Values \subseteq Nat
         /\ \A k : Position(k) => k \in Nat /\ pushed[k] \in Values
<1>1. c \in Processes /\ c \notin Producers /\ Producers \subseteq Processes
  BY ConcurrencyQueueAssumption DEF Processes
<1>2. pushed \in Seq(Values) /\ reads \in Nat /\ calls \in Nat /\ Values \subseteq Nat
  BY DEF TypeInv, TypeOK, Values
<1>3. Len(pushed) \in Nat /\ \A k : Position(k) => k \in Nat /\ pushed[k] \in Values
  BY <1>2 DEF Position
<1>4. Done(c) \in Int
  BY <1>2 DEF Done
<1>. QED  BY <1>1, <1>2, <1>3, <1>4 DEF TypeInv, TypeOK

\* A step that claims nothing and touches no slot.
LEMMA FifoQuiet ==
  ASSUME NEW c, Consumers = {c}, TypeInv, FifoInv(c),
         UNCHANGED <<buffer, index_read, index_write, index, pushed, reads, turn, popped, raced>>,
         pc[c] = "swap" <=> pc'[c] = "swap",
         calls' \in Nat, calls <= calls',
         \A p \in Producers : /\ pc'[p] = "write" <=> pc[p] = "write"
                              /\ pc[p] = "write" => value'[p] = value[p],
         \A p \in Producers : pc'[p] = "claim" =>
           \/ pc[p] = "claim" /\ value'[p] = value[p]
           \/ /\ value'[p] = calls' /\ calls < calls'
              /\ \A q \in Producers : q # p => value'[q] = value[q] /\ pc'[q] = pc[q]
  PROVE  FifoInv(c)'
<1>1. \A k : Position(k)' <=> Position(k)
  BY DEF Position
<1>2. \A k : Pending(k)' <=> Pending(k)
  BY DEF Pending
<1>3. Done(c)' = Done(c)
  BY DEF Done
<1>4. \A k : Waiting(c, k)' <=> Waiting(c, k)
  BY <1>1, <1>3 DEF Waiting
<1>5. SlotInv(c) => SlotInv(c)'
  BY <1>1, <1>2, <1>3, <1>4 DEF SlotInv
<1>6. ClaimInv(c)'
  <2>1. /\ Around(Len(pushed), index_write)' /\ Around(reads, index_read)'
        /\ pc'[c] = "swap" => reads' >= 1 /\ turn'[c] = reads' /\ index'[c] = Slot(reads')
    BY DEF FifoInv, ClaimInv, Around
  <2>2. \A k : Position(k) => pushed[k] \in Nat /\ pushed[k] <= calls
    BY FifoTypes DEF FifoInv, ClaimInv
  <2>3. \A p \in Producers : value[p] \in Nat
    BY FifoTypes
  <2>4. \A k : Position(k)' => pushed'[k] <= calls'
    BY <1>1, <2>2, FifoTypes
  <2>5. \A j, k : Position(j)' /\ Position(k)' /\ pushed'[j] = pushed'[k] => j = k
    BY <1>1 DEF FifoInv, ClaimInv
  <2>6. ASSUME NEW p \in Producers
        PROVE  /\ pc'[p] \in {"claim", "write"} => value'[p] <= calls'
               /\ pc'[p] = "claim" => \A k : Position(k)' => pushed'[k] # value'[p]
               /\ pc'[p] = "write" => \E k : Position(k)' /\ pushed'[k] = value'[p] /\ index'[p] = Slot(k)
    <3>1. CASE pc'[p] = "write"
      BY <3>1, <1>1, <2>3, FifoTypes DEF FifoInv, ClaimInv
    <3>2. CASE pc'[p] = "claim" /\ pc[p] = "claim" /\ value'[p] = value[p]
      BY <3>2, <1>1, <2>3, FifoTypes DEF FifoInv, ClaimInv
    <3>3. CASE pc'[p] = "claim" /\ value'[p] = calls' /\ calls < calls'
      BY <3>3, <1>1, <2>2, FifoTypes
    <3>. QED  BY <3>1, <3>2, <3>3
  <2>7. ASSUME NEW p \in Producers, NEW q \in Producers,
               pc'[p] \in {"claim", "write"}, pc'[q] \in {"claim", "write"}, value'[p] = value'[q]
        PROVE  p = q
    <3>1. CASE pc[p] \in {"claim", "write"} /\ value'[p] = value[p]
               /\ pc[q] \in {"claim", "write"} /\ value'[q] = value[q]
      BY <3>1, <2>7 DEF FifoInv, ClaimInv
    <3>2. ASSUME NEW x \in Producers, NEW y \in Producers, x # y,
                 value'[x] = calls', calls < calls',
                 \A z \in Producers : z # x => value'[z] = value[z] /\ pc'[z] = pc[z],
                 pc'[y] \in {"claim", "write"}
          PROVE  value'[x] # value'[y]
      <4>1. pc[y] \in {"claim", "write"} /\ value'[y] = value[y]
        BY <3>2
      <4>2. value[y] <= calls
        BY <4>1 DEF FifoInv, ClaimInv
      <4>. QED  BY <3>2, <4>1, <4>2, <2>3, FifoTypes
    <3>. QED  BY <2>7, <3>1, <3>2
  <2>. QED  BY <2>1, <2>4, <2>5, <2>6, <2>7 DEF ClaimInv
<1>. QED  BY <1>5, <1>6 DEF FifoInv

LEMMA ReserveFifo ==
  ASSUME NEW c, Consumers = {c}, TypeInv, FifoInv(c), NEW p \in Producers, Reserve(p)
  PROVE  FifoInv(c)'
<1>1. /\ pc[p] = "idle" /\ pc'[p] \in {"undo", "claim"}
      /\ calls' = calls + 1 /\ value'[p] = calls'
      /\ \A q \in Processes : q # p => pc'[q] = pc[q]
      /\ \A q \in Producers : q # p => value'[q] = value[q]
  BY FifoTypes DEF Reserve, Goto
<1>2. calls' \in Nat /\ calls <= calls' /\ calls < calls' /\ c # p
  BY <1>1, FifoTypes
<1>. QED  BY <1>1, <1>2, FifoTypes, FifoQuiet DEF Reserve

LEMMA IdleFifo ==
  ASSUME NEW c, Consumers = {c}, TypeInv, FifoInv(c),
         (\E p \in Producers : Undo(p)) \/ Load(c) \/ Subtract(c)
  PROVE  FifoInv(c)'
<1>1. /\ UNCHANGED <<buffer, index_read, index_write, index, value, calls, pushed, reads, turn, popped, raced>>
      /\ pc[c] = "swap" <=> pc'[c] = "swap"
      /\ \A q \in Producers : /\ pc'[q] = "write" <=> pc[q] = "write"
                              /\ pc'[q] = "claim" <=> pc[q] = "claim"
  BY FifoTypes DEF Undo, Load, Subtract, Goto, queueVars, history
<1>2. calls' \in Nat /\ calls <= calls'
  BY <1>1, FifoTypes
<1>. QED  BY <1>1, <1>2, FifoQuiet

LEMMA ClaimWriteFifo ==
  ASSUME NEW c, Consumers = {c}, TypeInv, FifoInv(c), NEW p \in Producers, ClaimWrite(p)
  PROVE  FifoInv(c)'
<1>0. PICK n \in Nat : n = Len(pushed)
  BY FifoTypes
<1>1. /\ pc[p] = "claim" /\ pc'[p] = "write" /\ index'[p] = index_write
      /\ \A q \in Processes : q # p => pc'[q] = pc[q] /\ index'[q] = index[q]
      /\ c # p /\ value[p] \in Values
      /\ index_write' = Advance(index_write)
      /\ UNCHANGED <<buffer, index_read, value, calls, reads, turn, popped, raced>>
  BY FifoTypes DEF ClaimWrite, Goto, TypeInv
<1>2. /\ Len(pushed') = n + 1
      /\ pushed'[n + 1] = value[p]
      /\ \A k \in 1 .. n : pushed'[k] = pushed[k]
  BY <1>0, <1>1, FifoTypes DEF ClaimWrite
<1>3. \A k : Position(k)' <=> Position(k) \/ k = n + 1
  BY <1>0, <1>2 DEF Position
<1>4. ~Position(n + 1) /\ \A k : Position(k) => k \in Nat /\ k < n + 1 /\ pushed'[k] = pushed[k]
  BY <1>0, <1>2 DEF Position
<1>5. Slot(n + 1) = index_write /\ Around(n + 1, index_write')
  BY <1>0, <1>1, <1>2, AroundNext DEF FifoInv, ClaimInv
<1>6. \A k : Position(k) => pushed[k] # value[p]
  BY <1>1 DEF FifoInv, ClaimInv
<1>7. Pending(n + 1)' /\ \A k : Position(k) => (Pending(k)' <=> Pending(k))
  <2>1. Pending(n + 1)'
    BY <1>1, <1>2 DEF Pending
  <2>2. ASSUME NEW k, Position(k) PROVE Pending(k)' <=> Pending(k)
    <3>1. pushed'[k] = pushed[k] /\ pushed[k] # value[p]
      BY <2>2, <1>4, <1>6
    <3>2. \A q \in Producers : q # p => pc'[q] = pc[q]
      BY <1>1, FifoTypes
    <3>. QED  BY <1>1, <3>1, <3>2 DEF Pending
  <2>. QED  BY <2>1, <2>2
<1>8. Done(c)' = Done(c)
  BY <1>1, FifoTypes DEF Done
<1>9. ClaimInv(c)'
  <2>1. Around(Len(pushed), index_write)' /\ Around(reads, index_read)'
    BY <1>1, <1>2, <1>5 DEF FifoInv, ClaimInv, Around
  <2>2. pc'[c] = "swap" => reads' >= 1 /\ turn'[c] = reads' /\ index'[c] = Slot(reads')
    BY <1>1, FifoTypes DEF FifoInv, ClaimInv
  <2>3. \A j, k : Position(j)' /\ Position(k)' /\ pushed'[j] = pushed'[k] => j = k
    BY <1>2, <1>3, <1>4, <1>6 DEF FifoInv, ClaimInv
  <2>4. \A k : Position(k)' => pushed'[k] <= calls'
    BY <1>1, <1>2, <1>3, <1>4 DEF FifoInv, ClaimInv
  <2>5. ASSUME NEW q \in Producers
        PROVE  /\ pc'[q] \in {"claim", "write"} => value'[q] <= calls'
               /\ pc'[q] = "claim" => \A k : Position(k)' => pushed'[k] # value'[q]
               /\ pc'[q] = "write" => \E k : Position(k)' /\ pushed'[k] = value'[q] /\ index'[q] = Slot(k)
    <3>1. CASE q = p
      BY <3>1, <1>1, <1>2, <1>3, <1>5 DEF FifoInv, ClaimInv
    <3>2. CASE q # p
      <4>1. pc'[q] = pc[q] /\ index'[q] = index[q] /\ value'[q] = value[q]
        BY <3>2, <1>1, FifoTypes
      <4>2. pc[q] = "claim" => value[q] # value[p]
        BY <3>2, <1>1 DEF FifoInv, ClaimInv
      <4>. QED  BY <4>1, <4>2, <1>1, <1>2, <1>3, <1>4 DEF FifoInv, ClaimInv
    <3>. QED  BY <3>1, <3>2
  <2>6. \A q, r \in Producers :
          pc'[q] \in {"claim", "write"} /\ pc'[r] \in {"claim", "write"} /\ value'[q] = value'[r] => q = r
    <3>1. \A q \in Producers : pc'[q] \in {"claim", "write"} => pc[q] \in {"claim", "write"}
      BY <1>1, FifoTypes
    <3>. QED  BY <1>1, <3>1 DEF FifoInv, ClaimInv
  <2>. QED  BY <2>1, <2>2, <2>3, <2>4, <2>5, <2>6 DEF ClaimInv
<1>10. ASSUME SlotInv(c) PROVE SlotInv(c)'
  <2>1. \A k : Waiting(c, k)' => Waiting(c, k) \/ k = n + 1
    BY <1>3, <1>8 DEF Waiting
  <2>2. \A k : Waiting(c, k) => Waiting(c, k)' /\ Position(k)
    BY <1>3, <1>8 DEF Waiting
  <2>3. n + 1 > Done(c)
    BY <1>0, <1>10, <1>2, FifoTypes DEF SlotInv
  <2>4. \A k : Position(k)' /\ Pending(k)' => k > Done(c)'
    BY <1>3, <1>7, <1>8, <1>10, <2>3 DEF SlotInv
  <2>5. \A k : Waiting(c, k)' /\ ~Pending(k)' => buffer'[Slot(k)] = pushed'[k]
    BY <1>1, <1>4, <1>7, <1>10, <2>1, <2>2 DEF SlotInv
  <2>6. \A s \in Slots : buffer'[s] \in Values => \E k : Waiting(c, k)' /\ ~Pending(k)' /\ Slot(k) = s
    BY <1>1, <1>7, <1>10, <2>2 DEF SlotInv
  <2>7. \A j, k : Waiting(c, j)' /\ Waiting(c, k)' /\ j < k /\ Slot(j) = Slot(k) => Pending(k)'
    BY <1>2, <1>4, <1>7, <1>10, <2>1, <2>2 DEF SlotInv
  <2>8. \A r \in popped' : Position(r.turn)' /\ r.value = pushed'[r.turn]
    BY <1>1, <1>3, <1>4, <1>10 DEF SlotInv
  <2>9. Done(c)' <= Len(pushed')
    BY <1>0, <1>2, <1>8, <1>10, FifoTypes DEF SlotInv
  <2>. QED  BY <2>4, <2>5, <2>6, <2>7, <2>8, <2>9 DEF SlotInv
<1>. QED  BY <1>1, <1>9, <1>10 DEF FifoInv
LEMMA WriteFifo ==
  ASSUME NEW c, Consumers = {c}, TypeInv, FifoInv(c), NEW p \in Producers, Write(p)
  PROVE  FifoInv(c)'
<1>1. /\ pc[p] = "write" /\ pc'[p] = "idle" /\ c # p
      /\ \A q \in Processes : q # p => pc'[q] = pc[q]
      /\ UNCHANGED <<index_read, index_write, index, value, calls, pushed, reads, turn, popped>>
      /\ \A s \in Slots : buffer'[s] = IF s = index[p] THEN value[p] ELSE buffer[s]
      /\ index[p] \in Slots
  BY FifoTypes DEF Write, Goto
<1>2. PICK k : Position(k) /\ pushed[k] = value[p] /\ index[p] = Slot(k)
  BY <1>1 DEF FifoInv, ClaimInv
<1>3. (\A j : Position(j)' <=> Position(j)) /\ Done(c)' = Done(c)
  BY <1>1, FifoTypes DEF Position, Done
<1>4. \A j : Waiting(c, j)' <=> Waiting(c, j)
  BY <1>3 DEF Waiting
<1>5. /\ ~Pending(k)' /\ Pending(k)
      /\ \A j : Position(j) /\ j # k => (Pending(j)' <=> Pending(j))
  <2>1. \A q \in Producers : q # p /\ pc[q] = "write" => value[q] # value[p]
    BY <1>1 DEF FifoInv, ClaimInv
  <2>2. \A q \in Producers : pc'[q] = "write" <=> pc[q] = "write" /\ q # p
    BY <1>1, FifoTypes
  <2>3. Pending(k) /\ ~Pending(k)'
    BY <1>1, <1>2, <2>1, <2>2 DEF Pending
  <2>4. \A j : Position(j) /\ j # k => pushed[j] # value[p]
    BY <1>2 DEF FifoInv, ClaimInv
  <2>. QED  BY <1>1, <2>2, <2>3, <2>4 DEF Pending
<1>6. ClaimInv(c)'
  <2>1. \A q \in Producers : pc'[q] \in {"claim", "write"} => pc'[q] = pc[q]
    BY <1>1, FifoTypes
  <2>2. pc'[c] = pc[c]
    BY <1>1, FifoTypes
  <2>3. \A q \in Producers :
          /\ pc'[q] \in {"claim", "write"} => value'[q] <= calls'
          /\ pc'[q] = "claim" => \A j : Position(j)' => pushed'[j] # value'[q]
          /\ pc'[q] = "write" => \E j : Position(j)' /\ pushed'[j] = value'[q] /\ index'[q] = Slot(j)
    BY <1>1, <1>3, <2>1 DEF FifoInv, ClaimInv
  <2>4. \A q, r \in Producers :
          pc'[q] \in {"claim", "write"} /\ pc'[r] \in {"claim", "write"} /\ value'[q] = value'[r] => q = r
    BY <1>1, <2>1 DEF FifoInv, ClaimInv
  <2>. QED  BY <1>1, <1>3, <2>2, <2>3, <2>4 DEF FifoInv, ClaimInv, Around
<1>7. ASSUME ~raced' PROVE SlotInv(c)'
  <2>1. /\ SlotInv(c)
        /\ buffer[index[p]] \notin Values
        /\ \A q \in Producers : q # p /\ pc[q] = "write" => index[q] # index[p]
    BY <1>7 DEF Write, Claimed, FifoInv
  <2>2. Waiting(c, k)
    BY <1>2, <1>5, <2>1 DEF SlotInv, Waiting
  <2>3. \A j : Waiting(c, j) /\ ~Pending(j) => Slot(j) # Slot(k)
    <3>. SUFFICES ASSUME NEW j, Waiting(c, j), ~Pending(j), Slot(j) = Slot(k)  PROVE FALSE
      OBVIOUS
    <3>1. buffer[index[p]] = pushed[j] /\ Position(j)
      BY <1>2, <2>1 DEF SlotInv, Waiting
    <3>. QED  BY <2>1, <3>1, FifoTypes
  <2>4. \A j : Waiting(c, j) /\ j # k /\ Pending(j) => Slot(j) # Slot(k)
    <3>. SUFFICES ASSUME NEW j, Waiting(c, j), j # k, Pending(j), Slot(j) = Slot(k)  PROVE FALSE
      OBVIOUS
    <3>1. PICK q \in Producers : pc[q] = "write" /\ value[q] = pushed[j]
      BY DEF Pending
    <3>2. Position(j) /\ pushed[j] # pushed[k]
      BY <1>2 DEF Waiting, FifoInv, ClaimInv
    <3>3. PICK i : Position(i) /\ pushed[i] = value[q] /\ index[q] = Slot(i)
      BY <3>1 DEF FifoInv, ClaimInv
    <3>4. i = j
      BY <3>1, <3>2, <3>3 DEF FifoInv, ClaimInv
    <3>. QED  BY <1>2, <2>1, <3>1, <3>2, <3>3, <3>4
  <2>5. \A j : Position(j)' /\ Pending(j)' => j > Done(c)'
    BY <1>3, <1>5, <2>1 DEF SlotInv
  <2>6. \A j : Waiting(c, j)' /\ ~Pending(j)' => buffer'[Slot(j)] = pushed'[j]
    <3>. SUFFICES ASSUME NEW j, Waiting(c, j), ~Pending(j)'  PROVE buffer'[Slot(j)] = pushed[j]
      BY <1>1, <1>4
    <3>1. CASE j = k
      BY <3>1, <1>1, <1>2
    <3>2. CASE j # k
      <4>1. ~Pending(j) /\ Position(j)
        BY <3>2, <1>5 DEF Waiting
      <4>2. Slot(j) # index[p] /\ buffer[Slot(j)] = pushed[j] /\ Slot(j) \in Slots
        BY <4>1, <1>2, <2>1, <2>3, SlotType, FifoTypes DEF SlotInv
      <4>. QED  BY <4>2, <1>1
    <3>. QED  BY <3>1, <3>2
  <2>7. \A s \in Slots : buffer'[s] \in Values => \E j : Waiting(c, j)' /\ ~Pending(j)' /\ Slot(j) = s
    <3>. SUFFICES ASSUME NEW s \in Slots, buffer'[s] \in Values
                  PROVE  \E j : Waiting(c, j) /\ ~Pending(j)' /\ Slot(j) = s
      BY <1>4
    <3>1. CASE s = Slot(k)
      BY <3>1, <1>5, <2>2
    <3>2. CASE s # Slot(k)
      <4>1. buffer[s] \in Values
        BY <3>2, <1>1, <1>2
      <4>2. PICK j : Waiting(c, j) /\ ~Pending(j) /\ Slot(j) = s
        BY <4>1, <2>1 DEF SlotInv
      <4>. QED  BY <4>2, <3>2, <1>5 DEF Waiting
    <3>. QED  BY <3>1, <3>2
  <2>8. \A i, j : Waiting(c, i)' /\ Waiting(c, j)' /\ i < j /\ Slot(i) = Slot(j) => Pending(j)'
    <3>. SUFFICES ASSUME NEW i, NEW j, Waiting(c, i), Waiting(c, j), i < j, Slot(i) = Slot(j)
                  PROVE  Pending(j)'
      BY <1>4
    <3>1. i \in Nat /\ j \in Nat /\ i # j
      BY FifoTypes DEF Waiting
    <3>2. Pending(j)
      BY <2>1 DEF SlotInv
    <3>3. j # k
      BY <2>3, <2>4, <3>1
    <3>. QED  BY <3>2, <3>3, <1>5 DEF Waiting
  <2>9. (\A r \in popped' : Position(r.turn)' /\ r.value = pushed'[r.turn]) /\ Done(c)' <= Len(pushed')
    BY <1>1, <1>3, <2>1 DEF SlotInv
  <2>. QED  BY <2>5, <2>6, <2>7, <2>8, <2>9 DEF SlotInv
<1>. QED  BY <1>6, <1>7 DEF FifoInv

LEMMA ClaimReadFifo ==
  ASSUME NEW c, Consumers = {c}, TypeInv, FifoInv(c), ClaimRead(c)
  PROVE  FifoInv(c)'
<1>1. /\ pc[c] = "claim" /\ pc'[c] = "swap" /\ index'[c] = index_read
      /\ reads' = reads + 1 /\ turn'[c] = reads' /\ index_read' = Advance(index_read)
      /\ UNCHANGED <<buffer, index_write, value, calls, pushed, popped, raced>>
      /\ \A p \in Producers : pc'[p] = pc[p] /\ index'[p] = index[p]
  BY FifoTypes DEF ClaimRead, Goto, TypeInv, TypeOK
<1>2. (\A k : Position(k)' <=> Position(k)) /\ (\A k : Pending(k)' <=> Pending(k)) /\ Done(c)' = Done(c)
  BY <1>1, FifoTypes DEF Position, Pending, Done
<1>3. \A k : Waiting(c, k)' <=> Waiting(c, k)
  BY <1>2 DEF Waiting
<1>4. PICK n \in Nat : n = reads
  BY FifoTypes
<1>5. Slot(n + 1) = index_read /\ Around(n + 1, Advance(index_read))
  BY <1>4, AroundNext DEF FifoInv, ClaimInv
<1>6. ClaimInv(c)'
  <2>1. Around(reads, index_read)' /\ reads' >= 1 /\ index'[c] = Slot(reads')
    BY <1>1, <1>4, <1>5 DEF Around
  <2>2. \A q \in Producers :
          /\ pc'[q] \in {"claim", "write"} => value'[q] <= calls'
          /\ pc'[q] = "claim" => \A j : Position(j)' => pushed'[j] # value'[q]
          /\ pc'[q] = "write" => \E j : Position(j)' /\ pushed'[j] = value'[q] /\ index'[q] = Slot(j)
    BY <1>1, <1>2 DEF FifoInv, ClaimInv
  <2>. QED  BY <1>1, <1>2, <2>1, <2>2 DEF FifoInv, ClaimInv, Around
<1>7. SlotInv(c) => SlotInv(c)'
  BY <1>1, <1>2, <1>3 DEF SlotInv
<1>. QED  BY <1>1, <1>6, <1>7 DEF FifoInv

LEMMA SwapFifo ==
  ASSUME NEW c, Consumers = {c}, TypeInv, FifoInv(c), Swap(c)
  PROVE  FifoInv(c)'
<1>1. PICK t \in Nat : t = reads
  BY FifoTypes
<1>2. /\ pc[c] = "swap" /\ pc'[c] = "idle" /\ turn[c] = t /\ index[c] = Slot(t)
      /\ popped' = popped \cup {[turn |-> t, value |-> buffer[Slot(t)]]}
      /\ UNCHANGED <<index_read, index_write, index, value, calls, pushed, reads, turn>>
      /\ \A p \in Producers : pc'[p] = pc[p]
      /\ \A s \in Slots : buffer'[s] = IF s = Slot(t) THEN Empty ELSE buffer[s]
      /\ Slot(t) \in Slots
  BY <1>1, FifoTypes DEF Swap, Goto, FifoInv, ClaimInv
<1>3. /\ \A k : Position(k)' <=> Position(k)
      /\ \A k : Pending(k)' <=> Pending(k)
  BY <1>2 DEF Position, Pending
<1>4. Done(c) = t - 1 /\ Done(c)' = t
  BY <1>1, <1>2 DEF Done
<1>5. ClaimInv(c)'
  <2>1. \A q \in Producers :
          /\ pc'[q] \in {"claim", "write"} => value'[q] <= calls'
          /\ pc'[q] = "claim" => \A j : Position(j)' => pushed'[j] # value'[q]
          /\ pc'[q] = "write" => \E j : Position(j)' /\ pushed'[j] = value'[q] /\ index'[q] = Slot(j)
    BY <1>2, <1>3 DEF FifoInv, ClaimInv
  <2>. QED  BY <1>2, <1>3, <2>1 DEF FifoInv, ClaimInv, Around
<1>6. ASSUME ~raced' PROVE SlotInv(c)'
  <2>1. SlotInv(c) /\ buffer[Slot(t)] \in Values
    BY <1>2, <1>6 DEF Swap, FifoInv
  <2>2. PICK k : Waiting(c, k) /\ ~Pending(k) /\ Slot(k) = Slot(t)
    BY <1>2, <2>1 DEF SlotInv
  <2>3. k \in Nat /\ k >= t /\ k <= Len(pushed) /\ t >= 1
    <3>1. t >= 1
      BY <1>1, <1>2 DEF FifoInv, ClaimInv
    <3>2. k \in Nat /\ k > t - 1 /\ k <= Len(pushed)
      BY <1>4, <2>2, FifoTypes DEF Waiting, Position
    <3>. QED  BY <3>1, <3>2
  <2>4. Waiting(c, t)
    BY <1>4, <2>3, FifoTypes DEF Waiting, Position
  <2>5. k = t
    <3>1. ~(t < k)
      BY <2>1, <2>2, <2>4 DEF SlotInv
    <3>. QED  BY <2>3, <3>1
  <2>6. Position(t) /\ ~Pending(t) /\ buffer[Slot(t)] = pushed[t]
    BY <2>1, <2>2, <2>4, <2>5 DEF SlotInv, Waiting
  <2>7. \A j : Waiting(c, j)' <=> Waiting(c, j) /\ j # t
    BY <1>3, <1>4, FifoTypes DEF Waiting
  <2>8. \A j : Position(j)' /\ Pending(j)' => j > Done(c)'
    <3>. SUFFICES ASSUME NEW j, Position(j), Pending(j)  PROVE j > t
      BY <1>3, <1>4
    <3>1. j > t - 1 /\ j # t /\ j \in Nat
      BY <1>4, <2>1, <2>6, FifoTypes DEF SlotInv
    <3>. QED  BY <3>1
  <2>9. \A j : Waiting(c, j)' /\ ~Pending(j)' => Slot(j) # Slot(t) /\ buffer'[Slot(j)] = pushed'[j]
    <3>. SUFFICES ASSUME NEW j, Waiting(c, j), j # t, ~Pending(j)
                  PROVE  Slot(j) # Slot(t) /\ buffer'[Slot(j)] = pushed[j]
      BY <1>2, <1>3, <2>7
    <3>1. t < j /\ Position(j)
      BY <1>4, FifoTypes DEF Waiting
    <3>2. Slot(j) # Slot(t)
      BY <2>1, <2>4, <3>1 DEF SlotInv
    <3>3. buffer[Slot(j)] = pushed[j] /\ Slot(j) \in Slots
      BY <2>1, <3>1, SlotType, FifoTypes DEF SlotInv
    <3>. QED  BY <3>2, <3>3, <1>2
  <2>10. \A s \in Slots : buffer'[s] \in Values => \E j : Waiting(c, j)' /\ ~Pending(j)' /\ Slot(j) = s
    <3>. SUFFICES ASSUME NEW s \in Slots, buffer'[s] \in Values
                  PROVE  \E j : Waiting(c, j) /\ j # t /\ ~Pending(j) /\ Slot(j) = s
      BY <1>3, <2>7
    <3>1. s # Slot(t) /\ buffer[s] \in Values
      BY <1>2, ConcurrencyQueueAssumption, FifoTypes
    <3>. QED  BY <2>1, <3>1 DEF SlotInv
  <2>11. \A i, j : Waiting(c, i)' /\ Waiting(c, j)' /\ i < j /\ Slot(i) = Slot(j) => Pending(j)'
    BY <1>3, <2>1, <2>7 DEF SlotInv
  <2>12. \A r \in popped' : Position(r.turn)' /\ r.value = pushed'[r.turn]
    BY <1>2, <1>3, <2>1, <2>6 DEF SlotInv
  <2>13. Done(c)' <= Len(pushed')
    BY <1>2, <1>4, <2>6, FifoTypes DEF Position
  <2>. QED  BY <2>8, <2>9, <2>10, <2>11, <2>12, <2>13 DEF SlotInv
<1>. QED  BY <1>5, <1>6 DEF FifoInv

LEMMA StepFifo ==
  ASSUME NEW c, Consumers = {c}
  PROVE  TypeInv /\ FifoInv(c) /\ [Next]_vars => FifoInv(c)'
<1>. SUFFICES ASSUME TypeInv, FifoInv(c), Next \/ UNCHANGED vars  PROVE FifoInv(c)'
  OBVIOUS
<1>0. calls \in Nat
  BY DEF TypeInv, TypeOK
<1>1. CASE UNCHANGED vars
  <2>1. UNCHANGED <<buffer, index_read, index_write, pc, index, value, calls, pushed, reads, turn, popped, raced>>
    BY <1>1 DEF vars, queueVars, history
  <2>2. calls' \in Nat /\ calls <= calls'
    BY <1>0, <2>1
  <2>3. /\ pc[c] = "swap" <=> pc'[c] = "swap"
        /\ \A p \in Producers : /\ pc'[p] = "write" <=> pc[p] = "write"
                               /\ pc[p] = "write" => value'[p] = value[p]
        /\ \A p \in Producers : pc'[p] = "claim" => pc[p] = "claim" /\ value'[p] = value[p]
    BY <2>1
  <2>. QED  BY <2>1, <2>2, <2>3, FifoQuiet
<1>2. ASSUME NEW p \in Producers, Push(p)  PROVE FifoInv(c)'
  BY <1>2, ReserveFifo, IdleFifo, ClaimWriteFifo, WriteFifo DEF Push
<1>3. ASSUME Pop(c)  PROVE FifoInv(c)'
  BY <1>3, IdleFifo, ClaimReadFifo, SwapFifo DEF Pop
<1>4. Next => (\E p \in Producers : Push(p)) \/ Pop(c)
  BY DEF Next
<1>5. CASE Next
  BY <1>2, <1>3, <1>4, <1>5
<1>. QED  BY <1>1, <1>5

\* One consumer, any number of producers and any capacity: until a slot is read
\* before it was written, or written before it was read out, the values come
\* out whole, once, and in the order they were claimed for (concurrency_queue.h:80-88,
\* 117-127).  Two consumers that claim the same slot could tell it apart.
THEOREM ConcurrencyQueueFifo ==
  ASSUME NEW c, Consumers = {c}
  PROVE  Spec => []Fifo
<1>1. Init => TypeInv /\ FifoInv(c)
  BY InitTypeInv, InitFifoInv
<1>2. TypeInv /\ FifoInv(c) /\ [Next]_vars => TypeInv' /\ FifoInv(c)'
  BY StepTypeInv, StepFifo
<1>3. FifoInv(c) => Fifo
  BY DEF FifoInv, SlotInv, Position, Fifo
<1>. QED  BY <1>1, <1>2, <1>3, PTL DEF Spec
=============================================================================
