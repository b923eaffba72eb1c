--------------------------- MODULE Counter_proofs ---------------------------
(***************************************************************************)
(* Proofs about Counter, for every width of the window, every set of tags, *)
(* of tickets and of threads.                                              *)
(***************************************************************************)
EXTENDS Counter, TLAPS

(***************************************************************************)
(* The inductive invariant, in three parts.                                *)
(***************************************************************************)

\* The window does not come near the end of the index space, and what was
\* read is behind the window or marked in it.
WindowInv ==
  /\ minReadIndex + NumberBits < IndexSpace
  /\ AtMostOnce
  /\ \A t \in Tags \ jumped : Readings(t) > 0 =>
       \/ t < minReadIndex
       \/ t < minReadIndex + NumberBits /\ t - minReadIndex \in maskReadBits

\* While the hub is orderly: everything behind the window is done with, and every
\* mark in the window stands for a message that was consumed.
OrderInv ==
  orderly =>
    /\ ticket.idxRead <= minReadIndex
    /\ AckedWasDelivered
    /\ \A t \in Tags : t < minReadIndex => t \in acked \cup AlreadyRead
    /\ \A t \in Tags : t >= minReadIndex /\ t - minReadIndex \in maskReadBits
                         => consumed[t] >= 1 \/ t \in AlreadyRead

\* The id that call number k, counted from 0, returns.
IdOf(k) == Add(FirstIndex(ticket), k)

\* One thread is in the critical section, and the ids returned so far are
\* those of the calls before it.
IdsInv ==
  /\ \A t \in Threads : pc[t] # "idle" => holder = t /\ calls >= 1
  /\ holder = None => writeIndex = IdOf(calls)
  /\ \A t \in Threads :
       /\ pc[t] \in {"read", "increment"} => writeIndex = IdOf(calls - 1)
       /\ pc[t] = "unlock" => writeIndex = IdOf(calls)
       /\ pc[t] \in {"increment", "unlock"} => ret[t] = IdOf(calls - 1)
       /\ pc[t] # "idle" => issued[IdOf(calls - 1)] = 0
  /\ \A i \in Indices : issued[i] > 0 => \E k \in 0 .. calls - 1 : i = IdOf(k)
  /\ IdsDistinct

-----------------------------------------------------------------------------
(***************************************************************************)
(* uint64_t arithmetic.                                                    *)
(***************************************************************************)
LEMMA AddSubType ==
  ASSUME NEW a \in Indices, NEW k \in 0 .. IndexSpace
  PROVE  Add(a, k) \in Indices /\ Sub(a, k) \in Indices
BY WindowAssumption, CounterAssumption DEF Add, Sub, Indices

LEMMA AddInjective ==
  ASSUME NEW a \in Indices, NEW j \in 0 .. IndexSpace - 1,
         NEW k \in 0 .. IndexSpace - 1, Add(a, j) = Add(a, k)
  PROVE  j = k
BY WindowAssumption, CounterAssumption DEF Add, Indices

LEMMA AddSuccessor ==
  ASSUME NEW a \in Indices, NEW k \in 0 .. IndexSpace - 1
  PROVE  Add(Add(a, k), 1) = Add(a, k + 1)
BY WindowAssumption, CounterAssumption DEF Add, Indices

LEMMA FirstIndexType ==
  ASSUME NEW k \in Tickets
  PROVE  FirstIndex(k) \in Indices
<1>1. k.idxWrite \in Indices
  BY FarFromWrap DEF Ticket
<1> QED
  BY <1>1, WindowAssumption, CounterAssumption DEF FirstIndex, Sub, Indices

\* What markReadDone may do to the window, and its answer.  The bit of a tag
\* less than two windows ahead is its own; of others nothing is known.
Behind(tag, w) ==
  /\ tag < minReadIndex
  /\ ~w.done /\ w.min = minReadIndex /\ w.mask = maskReadBits
Inside(tag, w) ==
  /\ minReadIndex <= tag /\ tag < minReadIndex + NumberBits
  /\ w.min = minReadIndex
  /\ w.mask = maskReadBits \cup {tag - minReadIndex}
  /\ w.done <=> tag - minReadIndex \notin maskReadBits
Ahead(tag, w) ==
  /\ minReadIndex + NumberBits <= tag /\ tag < minReadIndex + 2 * NumberBits
  /\ w.min = minReadIndex + NumberBits
  /\ w.mask = {tag - w.min}
  /\ w.done
FarAhead(tag, w) ==
  /\ minReadIndex + 2 * NumberBits <= tag
  /\ w.min = minReadIndex + NumberBits

Effect(tag, w) ==
  /\ w.min \in Nat /\ w.min + NumberBits < IndexSpace
  /\ w.mask \subseteq Positions
  /\ Behind(tag, w) \/ Inside(tag, w) \/ Ahead(tag, w) \/ FarAhead(tag, w)

LEMMA MarkReadDoneEffect ==
  ASSUME NEW tag \in Tags, TypeOK, minReadIndex + NumberBits < IndexSpace,
         NEW w \in MarkReadDone(tag)
  PROVE  Effect(tag, w)
<1> USE DEF Effect, Behind, Inside, Ahead, FarAhead
<1> USE WindowAssumption, CounterAssumption
<1>1. /\ tag \in Nat /\ tag + NumberBits < IndexSpace
      /\ minReadIndex \in Nat
      /\ maskReadBits \subseteq 0 .. NumberBits - 1
  BY FarFromWrap DEF TypeOK, Indices, Positions
<1>2. Add(minReadIndex, NumberBits) = minReadIndex + NumberBits
  BY <1>1 DEF Add
<1>3. CASE tag < minReadIndex
  <2>1. w = [done |-> FALSE, min |-> minReadIndex, mask |-> maskReadBits]
    BY <1>3 DEF MarkReadDone
  <2> QED
    BY <1>1, <1>3, <2>1 DEF Positions
<1>4. CASE minReadIndex <= tag /\ tag < minReadIndex + NumberBits
  <2>1. Slid(tag) = [min |-> minReadIndex, mask |-> maskReadBits]
    BY <1>1, <1>2, <1>4 DEF Slid, Beyond
  <2>2. Sub(tag, minReadIndex) = tag - minReadIndex
    BY <1>1, <1>4 DEF Sub
  <2>3. ShiftOne(tag - minReadIndex) = {{tag - minReadIndex}}
    BY <1>1, <1>4 DEF ShiftOne
  <2>4. w = [done |-> {tag - minReadIndex} \cap maskReadBits = {},
             min |-> minReadIndex,
             mask |-> maskReadBits \cup {tag - minReadIndex}]
    <3>1. MarkReadDone(tag) =
            {[done |-> bits \cap maskReadBits = {}, min |-> minReadIndex,
              mask |-> maskReadBits \cup bits] : bits \in {{tag - minReadIndex}}}
      BY <1>1, <1>4, <2>1, <2>2, <2>3 DEF MarkReadDone
    <3> QED
      BY <3>1
  <2>5. {tag - minReadIndex} \cap maskReadBits = {} <=> tag - minReadIndex \notin maskReadBits
    OBVIOUS
  <2>6. /\ w.done <=> tag - minReadIndex \notin maskReadBits
        /\ w.min = minReadIndex
        /\ w.mask = maskReadBits \cup {tag - minReadIndex}
    BY <2>4, <2>5
  <2>7. w.mask \subseteq Positions
    BY <1>1, <1>4, <2>6 DEF Positions
  <2> QED
    BY <1>1, <1>4, <2>6, <2>7
<1>5. CASE minReadIndex + NumberBits <= tag
  <2> DEFINE d == tag - (minReadIndex + NumberBits)
  <2>1. Slid(tag) = [min |-> minReadIndex + NumberBits, mask |-> {}]
    BY <1>1, <1>2, <1>5 DEF Slid, Beyond
  <2>2. d \in Nat /\ Sub(tag, minReadIndex + NumberBits) = d
    BY <1>1, <1>5 DEF Sub
  <2>3. MarkReadDone(tag) =
          {[done |-> bits \cap {} = {}, min |-> minReadIndex + NumberBits,
            mask |-> {} \cup bits] : bits \in ShiftOne(d)}
    BY <1>1, <1>5, <2>1, <2>2 DEF MarkReadDone
  <2>4. PICK bits \in ShiftOne(d) :
          w = [done |-> bits \cap {} = {}, min |-> minReadIndex + NumberBits,
               mask |-> {} \cup bits]
    BY <2>3
  <2>5. w.done /\ w.mask = bits /\ w.min = minReadIndex + NumberBits
    BY <2>4
  <2>6. w.min \in Nat /\ w.min + NumberBits < IndexSpace
    BY <1>1, <1>5, <2>5
  <2>7. bits \subseteq Positions
    <3> HIDE DEF d
    <3>1. d % NumberBits \in 0 .. NumberBits - 1
      BY <2>2
    <3>2. CASE d < NumberBits
      BY <2>2, <3>2 DEF ShiftOne, Positions
    <3>3. CASE ~(d < NumberBits)
      BY <3>1, <3>3 DEF ShiftOne, Positions
    <3> QED
      BY <3>2, <3>3
  <2>8. CASE tag < minReadIndex + 2 * NumberBits
    <3>1. d < NumberBits
      BY <1>1, <2>8
    <3>2. bits = {d}
      BY <3>1 DEF ShiftOne
    <3> QED
      BY <1>1, <1>5, <2>5, <2>6, <2>7, <2>8, <3>2
  <2>9. CASE ~(tag < minReadIndex + 2 * NumberBits)
    BY <1>1, <1>5, <2>5, <2>6, <2>7, <2>9
  <2> QED
    BY <2>8, <2>9
<1> QED
  BY <1>1, <1>3, <1>4, <1>5

LEMMA MarkReadUnusedEffect ==
  ASSUME NEW tag \in Tags, NEW w, Effect(tag, w)
  PROVE  MarkReadUnused(tag, w) = IF tag < w.min \/ tag >= w.min + NumberBits
                                  THEN w.mask ELSE w.mask \ {tag - w.min}
<1> USE WindowAssumption, CounterAssumption
<1>1. w.min \in Nat /\ w.min + NumberBits < IndexSpace /\ tag \in Nat
  BY FarFromWrap DEF Effect
<1>2. Add(w.min, NumberBits) = w.min + NumberBits
  BY <1>1 DEF Add
<1>3. tag >= w.min => Sub(tag, w.min) = tag - w.min
  BY <1>1 DEF Sub
<1>4. CASE tag < w.min
  BY <1>4 DEF MarkReadUnused
<1>5. CASE tag >= w.min
  BY <1>1, <1>2, <1>3, <1>5 DEF MarkReadUnused
<1> QED
  BY <1>1, <1>4, <1>5

-----------------------------------------------------------------------------
(***************************************************************************)
(* Type correctness, with the window away from the end of the index space. *)
(***************************************************************************)
TypeInv == TypeOK /\ minReadIndex + NumberBits < IndexSpace

LEMMA InitTypeInv == Init => TypeInv
<1> SUFFICES ASSUME Init PROVE TypeInv
  OBVIOUS
<1> USE WindowAssumption, CounterAssumption
<1>1. /\ ticket.idxRead \in Indices /\ ticket.maskRead \subseteq Positions
      /\ ticket.idxRead + NumberBits < IndexSpace
  BY FarFromWrap DEF Init, Ticket
<1>2. FirstIndex(ticket) \in Indices
  BY FirstIndexType DEF Init
<1>3. 0 \in Indices
  BY DEF Indices
<1> QED
  BY <1>1, <1>2, <1>3 DEF Init, TypeInv, TypeOK

LEMMA StepTypeInv == TypeInv /\ [Next]_vars => TypeInv'
<1> SUFFICES ASSUME TypeInv, [Next]_vars PROVE TypeInv'
  OBVIOUS
<1> USE WindowAssumption, CounterAssumption
<1>1. TypeOK /\ minReadIndex + NumberBits < IndexSpace
  BY DEF TypeInv
<1>2. ASSUME NEW tag \in Tags, Receive(tag) PROVE TypeInv'
  <2>1. PICK w \in MarkReadDone(tag) :
          /\ minReadIndex' = w.min
          /\ maskReadBits' = w.mask \/ maskReadBits' = MarkReadUnused(tag, w)
    BY <1>2 DEF Receive, Deliver, Reject, Refuse
  <2>2. w.min \in Nat /\ w.min + NumberBits < IndexSpace /\ w.mask \subseteq Positions
    BY <1>1, MarkReadDoneEffect DEF Effect
  <2>3. minReadIndex' \in Indices /\ minReadIndex' + NumberBits < IndexSpace
    BY <2>1, <2>2 DEF Indices
  <2>4. maskReadBits' \subseteq Positions
    BY <2>1, <2>2 DEF MarkReadUnused
  <2>5. consumed' \in [Tags -> Nat] /\ acked' \subseteq Tags
    BY <1>1, <1>2 DEF TypeOK, Receive, Deliver, Reject, Refuse
  <2>6. jumped' \subseteq Tags
    BY <1>1, <1>2 DEF TypeOK, Receive, Deliver, Reject, Refuse, NoteOrder
  <2>7. UNCHANGED <<ticket, writeVars>>
    BY <1>2 DEF Receive, Deliver, Reject, Refuse
  <2>8. orderly' \in BOOLEAN
    BY <1>2 DEF Receive, Deliver, Reject, Refuse, NoteOrder
  <2> QED
    BY <1>1, <2>3, <2>4, <2>5, <2>6, <2>7, <2>8 DEF TypeInv, TypeOK, writeVars
<1>3. ASSUME NEW t \in Threads, NextWriteIndex(t) PROVE TypeInv'
  <2>1. UNCHANGED <<ticket, readVars>>
    BY <1>3 DEF NextWriteIndex, Lock, ReadIndex, Increment, Unlock
  <2>2. CASE Lock(t)
    BY <1>1, <2>1, <2>2 DEF Lock, TypeInv, TypeOK, readVars
  <2>3. CASE ReadIndex(t)
    BY <1>1, <2>1, <2>3 DEF ReadIndex, TypeInv, TypeOK, readVars
  <2>4. CASE Increment(t)
    <3>1. Add(writeIndex, 1) \in Indices
      BY <1>1, AddSubType DEF TypeOK
    <3> QED
      BY <1>1, <2>1, <2>4, <3>1 DEF Increment, TypeInv, TypeOK, readVars
  <2>5. CASE Unlock(t)
    BY <1>1, <2>1, <2>5 DEF Unlock, TypeInv, TypeOK, readVars
  <2> QED
    BY <1>3, <2>2, <2>3, <2>4, <2>5 DEF NextWriteIndex
<1>4. CASE UNCHANGED vars
  BY <1>1, <1>4 DEF vars, readVars, writeVars, TypeInv, TypeOK
<1> QED
  BY <1>2, <1>3, <1>4 DEF Next

\* Every variable stays in its range (strengthened by: the window ends
\* inside the index space).
THEOREM CounterTypeCorrect == Spec => []TypeOK
<1>1. TypeInv => TypeOK
  BY DEF TypeInv
<1> QED
  BY InitTypeInv, StepTypeInv, <1>1, PTL DEF Spec

-----------------------------------------------------------------------------
(***************************************************************************)
(* The callback accepts a message at most once.                            *)
(***************************************************************************)
LEMMA InitWindowInv == Init => WindowInv
<1> SUFFICES ASSUME Init PROVE WindowInv
  OBVIOUS
<1> USE WindowAssumption, CounterAssumption
<1>1. minReadIndex + NumberBits < IndexSpace /\ ticket \in Ticket
  BY FarFromWrap DEF Init
<1>2. /\ minReadIndex = ticket.idxRead /\ maskReadBits = ticket.maskRead
      /\ minReadIndex \in Nat /\ maskReadBits \subseteq 0 .. NumberBits - 1
  BY <1>1 DEF Init, Ticket, Indices, Positions
<1>3. \A t \in Tags : t \in Nat /\ consumed[t] = 0
  BY FarFromWrap DEF Init
<1>4. \A t \in Tags : Readings(t) <= 1
  BY <1>3 DEF Readings
<1>5. \A t \in Tags : Readings(t) > 0 =>
        t < minReadIndex \/ (t < minReadIndex + NumberBits /\ t - minReadIndex \in maskReadBits)
  BY <1>2, <1>3 DEF Readings, AlreadyRead
<1> QED
  BY <1>1, <1>4, <1>5 DEF WindowInv, AtMostOnce

LEMMA StepWindowInv == TypeInv /\ WindowInv /\ [Next]_vars => WindowInv'
<1> SUFFICES ASSUME TypeInv, WindowInv, [Next]_vars PROVE WindowInv'
  OBVIOUS
<1> USE WindowAssumption, CounterAssumption
<1>1. /\ TypeOK /\ minReadIndex + NumberBits < IndexSpace
      /\ minReadIndex \in Nat /\ consumed \in [Tags -> Nat]
      /\ \A t \in Tags : t \in Nat
  BY FarFromWrap DEF TypeInv, TypeOK, Indices
<1>a. \A t \in Tags : Readings(t) \in Nat
  BY <1>1 DEF Readings
<1>b. ASSUME ticket' = ticket, consumed' = consumed
      PROVE  \A t \in Tags : Readings(t)' = Readings(t)
  BY <1>b DEF Readings, AlreadyRead
<1>2. (minReadIndex + NumberBits < IndexSpace)'
  BY StepTypeInv DEF TypeInv
<1>3. ASSUME NEW tag \in Tags, Deliver(tag) PROVE WindowInv'
  <2>1. PICK w \in MarkReadDone(tag) :
          w.done /\ minReadIndex' = w.min /\ maskReadBits' = w.mask
    BY <1>3 DEF Deliver
  <2>2. Effect(tag, w)
    BY <1>1, MarkReadDoneEffect
  <2>c. /\ consumed' = [consumed EXCEPT ![tag] = @ + 1] /\ ticket' = ticket
    BY <1>3 DEF Deliver
  <2>3. /\ \A t \in Tags : Readings(t)' = IF t = tag THEN Readings(t) + 1 ELSE Readings(t)
        /\ jumped' = IF tag >= minReadIndex + 2 * NumberBits THEN jumped \cup {tag}
                                                             ELSE jumped
    BY <1>1, <1>3, <2>c DEF Deliver, NoteOrder, Readings, AlreadyRead
  <2>4. tag \in jumped' \/ (tag >= minReadIndex /\ Readings(tag) = 0)
    <3>1. CASE Behind(tag, w)
      BY <2>1, <3>1 DEF Behind
    <3>2. CASE Inside(tag, w)
      <4>1. tag - minReadIndex \notin maskReadBits /\ tag >= minReadIndex
        BY <2>1, <3>2 DEF Inside
      <4> QED
        BY <1>1, <1>a, <2>3, <4>1 DEF WindowInv
    <3>3. CASE Ahead(tag, w)
      <4>1. minReadIndex + NumberBits <= tag
        BY <3>3 DEF Ahead
      <4> QED
        BY <1>1, <1>a, <2>3, <4>1 DEF WindowInv
    <3>4. CASE FarAhead(tag, w)
      BY <1>1, <2>3, <3>4 DEF FarAhead
    <3> QED
      BY <2>2, <3>1, <3>2, <3>3, <3>4 DEF Effect
  <2>5. AtMostOnce'
    BY <1>1, <1>a, <2>3, <2>4 DEF WindowInv, AtMostOnce
  <2>6. ASSUME NEW t \in Tags \ jumped', Readings(t)' > 0
        PROVE  \/ t < minReadIndex'
               \/ t < minReadIndex' + NumberBits /\ t - minReadIndex' \in maskReadBits'
    <3>1. t \notin jumped
      BY <2>3, <2>6
    <3>2. CASE t = tag
      BY <1>1, <2>1, <2>2, <2>3, <2>6, <3>2 DEF Effect, Behind, Inside, Ahead, FarAhead
    <3>3. CASE t # tag
      <4>1. Readings(t) > 0
        BY <1>1, <2>3, <2>6, <3>3
      <4> QED
        BY <1>1, <2>1, <2>2, <3>1, <4>1 DEF WindowInv, Effect, Behind, Inside, Ahead, FarAhead
    <3> QED
      BY <3>2, <3>3
  <2> QED
    BY <1>2, <2>5, <2>6 DEF WindowInv
<1>4. ASSUME NEW tag \in Tags, Reject(tag) PROVE WindowInv'
  <2>1. PICK w \in MarkReadDone(tag) :
          w.done /\ minReadIndex' = w.min /\ maskReadBits' = MarkReadUnused(tag, w)
    BY <1>4 DEF Reject
  <2>2. Effect(tag, w)
    BY <1>1, MarkReadDoneEffect
  <2>3. /\ \A t \in Tags : Readings(t)' = Readings(t)
        /\ jumped \subseteq jumped'
        /\ tag >= minReadIndex + 2 * NumberBits => tag \in jumped'
    BY <1>4, <1>b DEF Reject, NoteOrder
  <2>4. maskReadBits' = IF tag < w.min \/ tag >= w.min + NumberBits
                        THEN w.mask ELSE w.mask \ {tag - w.min}
    BY <2>1, <2>2, MarkReadUnusedEffect
  <2>5. ASSUME NEW t \in Tags \ jumped', Readings(t)' > 0
        PROVE  \/ t < minReadIndex'
               \/ t < minReadIndex' + NumberBits /\ t - minReadIndex' \in maskReadBits'
    <3>1. \/ t < minReadIndex
          \/ t < minReadIndex + NumberBits /\ t - minReadIndex \in maskReadBits
      BY <2>3, <2>5 DEF WindowInv
    <3> QED
      BY <1>1, <2>1, <2>2, <2>3, <2>4, <3>1 DEF Effect, Behind, Inside, Ahead, FarAhead
  <2> QED
    BY <1>2, <2>3, <2>5 DEF WindowInv, AtMostOnce
<1>5. ASSUME NEW tag \in Tags, Refuse(tag) PROVE WindowInv'
  <2>1. PICK w \in MarkReadDone(tag) :
          ~w.done /\ minReadIndex' = w.min /\ maskReadBits' = w.mask
    BY <1>5 DEF Refuse
  <2>2. Effect(tag, w)
    BY <1>1, MarkReadDoneEffect
  <2>3. (\A t \in Tags : Readings(t)' = Readings(t)) /\ jumped \subseteq jumped'
    BY <1>5, <1>b DEF Refuse, NoteOrder
  <2>4. ASSUME NEW t \in Tags \ jumped', Readings(t)' > 0
        PROVE  \/ t < minReadIndex'
               \/ t < minReadIndex' + NumberBits /\ t - minReadIndex' \in maskReadBits'
    <3>1. \/ t < minReadIndex
          \/ t < minReadIndex + NumberBits /\ t - minReadIndex \in maskReadBits
      BY <2>3, <2>4 DEF WindowInv
    <3> QED
      BY <1>1, <2>1, <2>2, <3>1 DEF Effect, Behind, Inside, Ahead, FarAhead
  <2> QED
    BY <1>2, <2>3, <2>4 DEF WindowInv, AtMostOnce
<1>6. ASSUME NEW t \in Threads, NextWriteIndex(t) PROVE WindowInv'
  <2>1. UNCHANGED <<readVars, ticket>>
    BY <1>6 DEF NextWriteIndex, Lock, ReadIndex, Increment, Unlock
  <2> QED
    BY <2>1 DEF readVars, WindowInv, AtMostOnce, Readings, AlreadyRead
<1>7. CASE UNCHANGED vars
  BY <1>7 DEF vars, readVars, WindowInv, AtMostOnce, Readings, AlreadyRead
<1> QED
  BY <1>3, <1>4, <1>5, <1>6, <1>7 DEF Next, Receive

\* However often tags are repeated and callbacks fail, no message whose tag
\* came less than two windows ahead reaches the callback's Nil twice.
THEOREM CounterAtMostOnce == Spec => []AtMostOnce
<1>1. TypeInv /\ WindowInv /\ [Next]_vars => (TypeInv /\ WindowInv)'
  BY StepTypeInv, StepWindowInv
<1>2. WindowInv => AtMostOnce
  BY DEF WindowInv
<1> QED
  BY InitTypeInv, InitWindowInv, <1>1, <1>2, PTL DEF Spec

-----------------------------------------------------------------------------
(***************************************************************************)
(* With an ordered hub, nothing that is acknowledged is lost.              *)
(***************************************************************************)
LEMMA InitOrderInv == Init => OrderInv
<1> SUFFICES ASSUME Init PROVE OrderInv
  OBVIOUS
<1>1. /\ ticket.idxRead \in Nat
      /\ minReadIndex = ticket.idxRead /\ maskReadBits = ticket.maskRead
      /\ acked = {}
  BY WindowAssumption, CounterAssumption, FarFromWrap DEF Init, Ticket, Indices
<1>2. \A t \in Tags : t < minReadIndex => t \in AlreadyRead
  BY <1>1 DEF AlreadyRead
<1>3. \A t \in Tags : t - minReadIndex \in maskReadBits => t \in AlreadyRead
  BY <1>1 DEF AlreadyRead
<1>4. AckedWasDelivered
  BY <1>1 DEF AckedWasDelivered
<1> QED
  BY <1>1, <1>2, <1>3, <1>4 DEF OrderInv

LEMMA StepOrderInv == TypeInv /\ OrderInv /\ [Next]_vars => OrderInv'
<1> SUFFICES ASSUME TypeInv, OrderInv, [Next]_vars, orderly' PROVE OrderInv'
  BY DEF OrderInv
<1> USE WindowAssumption, CounterAssumption
<1>0. orderly
  BY DEF Next, Receive, Deliver, Reject, Refuse, NoteOrder,
         NextWriteIndex, Lock, ReadIndex, Increment, Unlock, readVars, vars
<1>a. ticket \in Ticket
  BY FarFromWrap DEF TypeInv, TypeOK
<1>b. ticket.idxRead \in Nat
  BY <1>a DEF Ticket, Indices
<1>1. /\ TypeOK /\ minReadIndex + NumberBits < IndexSpace
      /\ minReadIndex \in Nat /\ consumed \in [Tags -> Nat]
      /\ \A t \in Tags : t \in Nat
      /\ ticket.idxRead \in Nat
  BY <1>b, FarFromWrap DEF TypeInv, TypeOK, Indices
<1>2. /\ ticket.idxRead <= minReadIndex
      /\ \A t \in acked : consumed[t] >= 1 \/ t \in AlreadyRead
      /\ \A t \in Tags : t < minReadIndex => t \in acked \cup AlreadyRead
      /\ \A t \in Tags : t >= minReadIndex /\ t - minReadIndex \in maskReadBits
                           => consumed[t] >= 1 \/ t \in AlreadyRead
  BY <1>0 DEF OrderInv, AckedWasDelivered
<1>3. ASSUME NEW tag \in Tags, InOrder(tag), NEW w \in MarkReadDone(tag)
      PROVE  /\ Effect(tag, w)
             /\ w.min >= minReadIndex
             /\ \A t \in Tags : t < w.min => t \in acked \cup AlreadyRead
             /\ \A t \in Tags : /\ t >= w.min
                                 /\ t - w.min \in w.mask
                                 /\ t # tag
                                 => consumed[t] >= 1 \/ t \in AlreadyRead
             /\ ~w.done => tag \in acked \cup AlreadyRead \/ consumed[tag] >= 1
  <2>1. Effect(tag, w)
    BY <1>1, MarkReadDoneEffect
  <2>2. CASE Behind(tag, w)
    BY <1>1, <1>2, <2>1, <2>2 DEF Behind
  <2>3. CASE Inside(tag, w)
    <3>1. w.min = minReadIndex /\ w.mask = maskReadBits \cup {tag - minReadIndex}
      BY <2>3 DEF Inside
    <3>2. ~w.done => tag >= minReadIndex /\ tag - minReadIndex \in maskReadBits
      BY <2>3 DEF Inside
    <3> QED
      BY <1>1, <1>2, <2>1, <3>1, <3>2
  <2>4. CASE Ahead(tag, w)
    <3>1. /\ w.min = minReadIndex + NumberBits /\ w.mask = {tag - w.min} /\ w.done
          /\ tag >= minReadIndex + NumberBits
      BY <2>4 DEF Ahead
    <3>2. WindowTags \subseteq acked \cup AlreadyRead
      BY <1>1, <1>3, <3>1 DEF InOrder
    <3>3. \A t \in Tags : t < w.min => t \in acked \cup AlreadyRead
      BY <1>1, <1>2, <3>1, <3>2 DEF WindowTags
    <3> QED
      BY <1>1, <2>1, <3>1, <3>3
  <2>5. CASE FarAhead(tag, w)
    BY <1>1, <1>3, <2>5 DEF FarAhead, InOrder
  <2> QED
    BY <2>1, <2>2, <2>3, <2>4, <2>5 DEF Effect
<1>4. ASSUME NEW tag \in Tags, Deliver(tag) PROVE OrderInv'
  <2>1. PICK w \in MarkReadDone(tag) :
          w.done /\ minReadIndex' = w.min /\ maskReadBits' = w.mask
    BY <1>4 DEF Deliver
  <2>2. /\ InOrder(tag) /\ ticket' = ticket
        /\ consumed' = [consumed EXCEPT ![tag] = @ + 1] /\ acked' = acked \cup {tag}
    BY <1>4 DEF Deliver, NoteOrder
  <2>3. AlreadyRead' = AlreadyRead
    BY <2>2 DEF AlreadyRead
  <2>4. /\ consumed'[tag] >= 1
        /\ \A t \in Tags : consumed[t] >= 1 => consumed'[t] >= 1
        /\ acked \subseteq Tags
    BY <1>1, <2>2 DEF TypeOK
  <2>5. AckedWasDelivered'
    BY <1>2, <2>2, <2>3, <2>4 DEF AckedWasDelivered
  <2> QED
    BY <1>1, <1>2, <1>3, <2>1, <2>2, <2>3, <2>4, <2>5 DEF OrderInv, Effect
<1>5. ASSUME NEW tag \in Tags, Reject(tag) PROVE OrderInv'
  <2>1. PICK w \in MarkReadDone(tag) :
          w.done /\ minReadIndex' = w.min /\ maskReadBits' = MarkReadUnused(tag, w)
    BY <1>5 DEF Reject
  <2>2. /\ InOrder(tag) /\ ticket' = ticket /\ consumed' = consumed /\ acked' = acked
    BY <1>5 DEF Reject, NoteOrder
  <2>3. AlreadyRead' = AlreadyRead
    BY <2>2 DEF AlreadyRead
  <2>4. Effect(tag, w)
    BY <1>3, <2>2
  <2>5. /\ maskReadBits' \subseteq w.mask
        /\ tag >= w.min => tag - w.min \notin maskReadBits'
    <3>1. maskReadBits' = IF tag < w.min \/ tag >= w.min + NumberBits
                          THEN w.mask ELSE w.mask \ {tag - w.min}
      BY <2>1, <2>4, MarkReadUnusedEffect
    <3>2. w.min \in Nat /\ w.mask \subseteq 0 .. NumberBits - 1
      BY <2>4 DEF Effect, Positions
    <3> QED
      BY <1>1, <3>1, <3>2
  <2>6. AckedWasDelivered'
    BY <1>2, <2>2, <2>3 DEF AckedWasDelivered
  <2> QED
    BY <1>1, <1>2, <1>3, <2>1, <2>2, <2>3, <2>4, <2>5, <2>6 DEF OrderInv, Effect
<1>6. ASSUME NEW tag \in Tags, Refuse(tag) PROVE OrderInv'
  <2>1. PICK w \in MarkReadDone(tag) :
          ~w.done /\ minReadIndex' = w.min /\ maskReadBits' = w.mask
    BY <1>6 DEF Refuse
  <2>2. /\ InOrder(tag) /\ ticket' = ticket
        /\ consumed' = consumed /\ acked' = acked \cup {tag}
    BY <1>6 DEF Refuse, NoteOrder
  <2>3. AlreadyRead' = AlreadyRead
    BY <2>2 DEF AlreadyRead
  <2>4. consumed[tag] >= 1 \/ tag \in AlreadyRead
    BY <1>2, <1>3, <2>1, <2>2
  <2>5. AckedWasDelivered'
    BY <1>2, <2>2, <2>3, <2>4 DEF AckedWasDelivered
  <2> QED
    BY <1>1, <1>2, <1>3, <2>1, <2>2, <2>3, <2>4, <2>5 DEF OrderInv, Effect
<1>7. ASSUME NEW t \in Threads, NextWriteIndex(t) PROVE OrderInv'
  <2>1. UNCHANGED <<ticket, readVars>>
    BY <1>7 DEF NextWriteIndex, Lock, ReadIndex, Increment, Unlock
  <2> QED
    BY <2>1 DEF readVars, OrderInv, AckedWasDelivered, AlreadyRead
<1>8. CASE UNCHANGED vars
  BY <1>8 DEF vars, readVars, OrderInv, AckedWasDelivered, AlreadyRead
<1> QED
  BY <1>4, <1>5, <1>6, <1>7, <1>8 DEF Next, Receive

\* When the hub starts a window only after the one before it is acknowledged,
\* every message that the client acknowledges was accepted by the callback or
\* had been read before the counter was built.
THEOREM CounterAckedWasDelivered == Spec => []AckedWasDelivered
<1>1. TypeInv /\ OrderInv /\ [Next]_vars => (TypeInv /\ OrderInv)'
  BY StepTypeInv, StepOrderInv
<1>2. OrderInv => AckedWasDelivered
  BY DEF OrderInv, AckedWasDelivered
<1> QED
  BY InitTypeInv, InitOrderInv, <1>1, <1>2, PTL DEF Spec

-----------------------------------------------------------------------------
(***************************************************************************)
(* Message ids are never given out twice.                                  *)
(***************************************************************************)
LEMMA InitIdsInv == Init => IdsInv
<1> SUFFICES ASSUME Init PROVE IdsInv
  OBVIOUS
<1>1. FirstIndex(ticket) \in Indices
  BY FirstIndexType DEF Init
<1>2. writeIndex = IdOf(calls)
  BY <1>1, WindowAssumption, CounterAssumption DEF Init, IdOf, Add, Indices
<1> QED
  BY <1>2 DEF Init, IdsInv, IdsDistinct

LEMMA StepIdsInv == TypeInv /\ IdsInv /\ [Next]_vars => IdsInv'
<1> SUFFICES ASSUME TypeInv, IdsInv, [Next]_vars PROVE IdsInv'
  OBVIOUS
<1> USE WindowAssumption, CounterAssumption
<1>1. /\ calls \in 0 .. MaxIds /\ issued \in [Indices -> Nat]
      /\ pc \in [Threads -> {"idle", "read", "increment", "unlock"}]
      /\ ret \in [Threads -> Indices]
      /\ FirstIndex(ticket) \in Indices
  BY FirstIndexType DEF TypeInv, TypeOK
<1>2. ticket' = ticket
  BY DEF Next, Receive, Deliver, Reject, Refuse, NextWriteIndex, Lock, ReadIndex,
         Increment, Unlock, vars
<1>3. \A k : IdOf(k)' = IdOf(k)
  BY <1>2 DEF IdOf
<1>4. CASE UNCHANGED writeVars
  BY <1>2, <1>4 DEF writeVars, IdsInv, IdsDistinct, IdOf
<1>5. ASSUME NEW t \in Threads, Lock(t) PROVE IdsInv'
  <2>1. /\ pc' = [pc EXCEPT ![t] = "read"] /\ holder = None /\ holder' = t
        /\ calls < MaxIds /\ calls' = calls + 1
        /\ UNCHANGED <<writeIndex, ret, issued>>
    BY <1>5 DEF Lock
  <2>2. \A u \in Threads : pc[u] = "idle"
    BY <2>1 DEF IdsInv
  <2>3. \A u \in Threads : pc'[u] # "idle" => u = t /\ pc'[u] = "read"
    BY <1>1, <2>1, <2>2
  <2>4. calls' - 1 = calls /\ calls' >= 1
    BY <1>1, <2>1
  <2>5. writeIndex' = IdOf(calls' - 1)
    BY <2>1, <2>4 DEF IdsInv
  <2>6. issued'[IdOf(calls' - 1)] = 0
    <3>1. IdOf(calls) \in Indices
      BY <1>1, AddSubType DEF IdOf
    <3>2. ASSUME NEW k \in 0 .. calls - 1 PROVE IdOf(calls) # IdOf(k)
      <4>1. calls \in 0 .. IndexSpace - 1 /\ k \in 0 .. IndexSpace - 1 /\ k # calls
        BY <1>1, <2>1
      <4> QED
        BY <1>1, <4>1, AddInjective DEF IdOf
    <3>3. ~(issued[IdOf(calls)] > 0)
      BY <3>1, <3>2 DEF IdsInv
    <3> QED
      BY <1>1, <2>1, <2>4, <3>1, <3>3
  <2>7. \A i \in Indices : issued'[i] > 0 => \E k \in 0 .. calls' - 1 : i = IdOf(k)
    BY <1>1, <2>1, <2>4 DEF IdsInv
  <2>8. IdsDistinct'
    BY <2>1 DEF IdsInv, IdsDistinct
  <2> QED
    BY <1>3, <2>1, <2>3, <2>4, <2>5, <2>6, <2>7, <2>8 DEF IdsInv, IdOf
<1>6. ASSUME NEW t \in Threads, ReadIndex(t) PROVE IdsInv'
  <2>1. /\ pc[t] = "read" /\ pc' = [pc EXCEPT ![t] = "increment"]
        /\ ret' = [ret EXCEPT ![t] = writeIndex]
        /\ UNCHANGED <<writeIndex, holder, calls, issued>>
    BY <1>6 DEF ReadIndex
  <2>2. \A u \in Threads : pc[u] # "idle" => u = t
    BY <2>1 DEF IdsInv
  <2>3. \A u \in Threads : pc'[u] # "idle" => u = t /\ pc'[u] = "increment"
    BY <1>1, <2>1, <2>2
  <2>4. ret'[t] = IdOf(calls - 1) /\ writeIndex = IdOf(calls - 1)
    BY <1>1, <2>1 DEF IdsInv
  <2> QED
    BY <1>2, <2>1, <2>3, <2>4 DEF IdsInv, IdsDistinct, IdOf
<1>7. ASSUME NEW t \in Threads, Increment(t) PROVE IdsInv'
  <2>1. /\ pc[t] = "increment" /\ pc' = [pc EXCEPT ![t] = "unlock"]
        /\ writeIndex' = Add(writeIndex, 1)
        /\ UNCHANGED <<ret, holder, calls, issued>>
    BY <1>7 DEF Increment
  <2>2. \A u \in Threads : pc[u] # "idle" => u = t
    BY <2>1 DEF IdsInv
  <2>3. \A u \in Threads : pc'[u] # "idle" => u = t /\ pc'[u] = "unlock"
    BY <1>1, <2>1, <2>2
  <2>4. writeIndex' = IdOf(calls)
    <3>1. calls - 1 \in 0 .. IndexSpace - 1 /\ calls - 1 + 1 = calls
      BY <1>1, <2>1 DEF IdsInv
    <3>2. writeIndex = IdOf(calls - 1)
      BY <2>1 DEF IdsInv
    <3>3. Add(IdOf(calls - 1), 1) = IdOf(calls - 1 + 1)
      BY <1>1, <3>1, AddSuccessor DEF IdOf
    <3> QED
      BY <2>1, <3>1, <3>2, <3>3
  <2>5. ret[t] = IdOf(calls - 1)
    BY <2>1 DEF IdsInv
  <2> QED
    BY <1>2, <2>1, <2>3, <2>4, <2>5 DEF IdsInv, IdsDistinct, IdOf
<1>8. ASSUME NEW t \in Threads, Unlock(t) PROVE IdsInv'
  <2>1. /\ pc[t] = "unlock" /\ pc' = [pc EXCEPT ![t] = "idle"] /\ holder' = None
        /\ issued' = [issued EXCEPT ![ret[t]] = @ + 1]
        /\ UNCHANGED <<writeIndex, ret, calls>>
    BY <1>8 DEF Unlock
  <2>2. \A u \in Threads : pc'[u] = "idle"
    BY <1>1, <2>1 DEF IdsInv
  <2>3. /\ writeIndex = IdOf(calls) /\ ret[t] = IdOf(calls - 1)
        /\ issued[ret[t]] = 0 /\ calls >= 1 /\ ret[t] \in Indices
    BY <1>1, <2>1 DEF IdsInv
  <2>4. \A i \in Indices : issued'[i] = IF i = ret[t] THEN 1 ELSE issued[i]
    BY <1>1, <2>1, <2>3
  <2>5. \A i \in Indices : issued'[i] > 0 => \E k \in 0 .. calls - 1 : i = IdOf(k)
    <3>1. calls - 1 \in 0 .. calls - 1
      BY <1>1, <2>3
    <3> QED
      BY <2>3, <2>4, <3>1 DEF IdsInv
  <2>6. IdsDistinct'
    BY <2>4 DEF IdsInv, IdsDistinct
  <2> QED
    BY <1>2, <2>1, <2>2, <2>3, <2>5, <2>6 DEF IdsInv, IdOf
<1>9. (\E tag \in Tags : Receive(tag)) \/ UNCHANGED vars => UNCHANGED writeVars
  BY DEF Receive, Deliver, Reject, Refuse, vars
<1> QED
  BY <1>4, <1>5, <1>6, <1>7, <1>8, <1>9 DEF Next, NextWriteIndex

\* No two calls of nextWriteIndex, by whichever tasks and however interleaved,
\* return the same id, as long as fewer than 2^64 are taken.
THEOREM CounterIdsDistinct == Spec => []IdsDistinct
<1>1. TypeInv /\ IdsInv /\ [Next]_vars => (TypeInv /\ IdsInv)'
  BY StepTypeInv, StepIdsInv
<1>2. IdsInv => IdsDistinct
  BY DEF IdsInv
<1> QED
  BY InitTypeInv, InitIdsInv, <1>1, <1>2, PTL DEF Spec

-----------------------------------------------------------------------------
(***************************************************************************)
(* nextWriteIndex is as if it were one step: Counter implements IdSource.  *)
(***************************************************************************)
LEMMA StepNumbers == TypeInv /\ IdsInv /\ [Next]_vars => [Numbers!Take]_(Numbers!vars)
<1> SUFFICES ASSUME TypeInv, IdsInv, [Next]_vars PROVE [Numbers!Take]_(Numbers!vars)
  OBVIOUS
<1> USE WindowAssumption, CounterAssumption DEF NextToIssue
<1>1. /\ pc \in [Threads -> {"idle", "read", "increment", "unlock"}]
      /\ ret \in [Threads -> Indices] /\ calls \in 0 .. MaxIds
      /\ FirstIndex(ticket) \in Indices
  BY FirstIndexType DEF TypeInv, TypeOK
<1>2. \A t \in Threads : pc[t] # "idle" => holder = t
  BY DEF IdsInv
<1>3. CASE UNCHANGED writeVars
  BY <1>3 DEF writeVars, Numbers!vars
<1>4. ASSUME NEW t \in Threads, Lock(t) PROVE UNCHANGED Numbers!vars
  <2>1. NextToIssue = writeIndex
    BY <1>4 DEF Lock
  <2>2. holder' = t /\ pc'[t] = "read" /\ UNCHANGED <<writeIndex, issued>>
    BY <1>1, <1>4 DEF Lock
  <2> QED
    BY <2>1, <2>2 DEF Numbers!vars
<1>5. ASSUME NEW t \in Threads, ReadIndex(t) PROVE UNCHANGED Numbers!vars
  <2>1. holder = t /\ pc[t] = "read" /\ holder' = t
    BY <1>2, <1>5 DEF ReadIndex
  <2>2. pc'[t] = "increment" /\ UNCHANGED <<writeIndex, issued>>
    BY <1>1, <1>5 DEF ReadIndex
  <2> QED
    BY <2>1, <2>2 DEF Numbers!vars
<1>6. ASSUME NEW t \in Threads, Increment(t) PROVE UNCHANGED Numbers!vars
  <2>1. holder = t /\ pc[t] = "increment" /\ holder' = t
    BY <1>2, <1>6 DEF Increment
  <2>2. pc'[t] = "unlock" /\ UNCHANGED <<ret, issued>>
    BY <1>1, <1>6 DEF Increment
  <2>3. writeIndex = ret[t]
    BY <2>1 DEF IdsInv
  <2> QED
    BY <2>1, <2>2, <2>3 DEF Numbers!vars
<1>7. ASSUME NEW t \in Threads, Unlock(t) PROVE Numbers!Take
  <2>1. holder = t /\ pc[t] = "unlock" /\ t # None
    BY <1>2, <1>7 DEF Unlock
  <2>2. holder' = None /\ writeIndex' = writeIndex
        /\ issued' = [issued EXCEPT ![ret[t]] = @ + 1]
    BY <1>7 DEF Unlock
  <2>3. writeIndex = IdOf(calls) /\ ret[t] = IdOf(calls - 1) /\ calls >= 1
    BY <2>1 DEF IdsInv
  <2>4. IdOf(calls) = Add(IdOf(calls - 1), 1) /\ IdOf(calls - 1) \in Indices
    <3>1. calls - 1 \in 0 .. IndexSpace - 1 /\ calls - 1 + 1 = calls
      BY <1>1, <2>3
    <3>2. Add(IdOf(calls - 1), 1) = IdOf(calls - 1 + 1)
      BY <1>1, <3>1, AddSuccessor DEF IdOf
    <3>3. IdOf(calls - 1) \in Indices
      BY <1>1, <3>1, AddSubType DEF IdOf
    <3> QED
      BY <3>1, <3>2, <3>3
  <2>5. writeIndex = IF ret[t] + 1 = IndexSpace THEN 0 ELSE ret[t] + 1
    BY <2>3, <2>4 DEF Add, Indices
  <2>6. NextToIssue = ret[t] /\ NextToIssue' = writeIndex
    BY <2>1, <2>2
  <2> HIDE DEF NextToIssue
  <2> QED
    BY <2>2, <2>5, <2>6 DEF Numbers!Take
<1>8. (\E tag \in Tags : Receive(tag)) \/ UNCHANGED vars => UNCHANGED writeVars
  BY DEF Receive, Deliver, Reject, Refuse, vars
<1> QED
  BY <1>3, <1>4, <1>5, <1>6, <1>7, <1>8 DEF Next, NextWriteIndex

\* For any number of tasks the calls of nextWriteIndex return consecutive
\* numbers, as if each call were one step (counter.cpp:18-24).
THEOREM CounterNumbersInOrder == Spec => NumbersInOrder
<1>1. Init => Numbers!Init
  BY DEF Init, Numbers!Init, Indices
<1>2. TypeInv /\ IdsInv /\ [Next]_vars => (TypeInv /\ IdsInv)'
  BY StepTypeInv, StepIdsInv
<1> QED
  BY InitTypeInv, InitIdsInv, <1>1, <1>2, StepNumbers, PTL
     DEF Spec, NumbersInOrder, Numbers!Spec
=============================================================================
