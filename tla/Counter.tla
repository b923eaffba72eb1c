------------------------------ MODULE Counter ------------------------------
(***************************************************************************)
(* cso_counter/counter.cpp: the numbers of reliable messages.              *)
(*                                                                         *)
(* Receiving side.  The window is the matter of module Window.  Only the   *)
(* task that runs listen touches it, and it calls markReadDone, the user's *)
(* callback and, when the callback fails, markReadUnused in one go, so the *)
(* reception of one tag is one action here: Deliver, Reject or Refuse.     *)
(*                                                                         *)
(* Sending side.  nextWriteIndex is called by any task that sends with     *)
(* retry, so it is split at the steps of its critical section.             *)
(*                                                                         *)
(* The hub is not part of the repository.  It may send any tag at any      *)
(* time, again and in any order.  InOrder says when a tag keeps to the     *)
(* windows; the history variable orderly, that all tags so far did.        *)
(***************************************************************************)
EXTENDS Window, FiniteSets

CONSTANTS
  Tags,         \* tags the hub uses in messages
  Tickets,      \* ready tickets the hub may answer with
  Threads,      \* tasks that call sendMessageAndRetry
  MaxIds,       \* bound: how many message ids are taken
  None

(* readyticket.cpp: what a ready ticket carries for the counter.           *)
Ticket == [idxWrite : Indices, idxRead : Indices, maskRead : SUBSET Positions]

ASSUME CounterAssumption ==
  /\ MaxIds \in Nat
  /\ MaxIds <= IndexSpace          \* no task ever takes 2^64 ids
  /\ None \notin Threads

\* Neither tags nor windows get near 2^64, where minReadIndex + 32 wraps.
ASSUME FarFromWrap ==
  /\ Tags \subseteq Nat
  /\ \A t \in Tags : t + NumberBits < IndexSpace
  /\ Tickets \subseteq Ticket
  /\ \A k \in Tickets : k.idxRead + NumberBits < IndexSpace

VARIABLES
  writeIndex,                  \* next id
  holder, pc, ret,             \* spin lock, control and local of nextWriteIndex
  \* history
  ticket,                      \* the ready ticket the counter was built from
  consumed,                    \* tag -> how often the callback accepted it
  acked,                       \* tags the client has acknowledged
  jumped,                      \* tags that came two windows or more ahead
  orderly,                     \* every tag so far was in order
  calls, issued                \* calls of nextWriteIndex; id -> times returned

readVars == <<minReadIndex, maskReadBits, consumed, acked, jumped, orderly>>
writeVars == <<writeIndex, holder, pc, ret, calls, issued>>
vars == <<ticket, readVars, writeVars>>

-----------------------------------------------------------------------------
(***************************************************************************)
(* Reception of one tag: connector.cpp, listen, lines 143 to 166.          *)
(***************************************************************************)
AlreadyRead == {t \in Tags : \/ t < ticket.idxRead
                             \/ t - ticket.idxRead \in ticket.maskRead}

WindowTags == {t \in Tags : /\ minReadIndex <= t
                            /\ t < minReadIndex + NumberBits}

\* An orderly hub starts the next window only when every tag of this one is
\* acknowledged (or was read before this session's ticket).
InOrder(tag) ==
  \/ tag < minReadIndex + NumberBits
  \/ /\ tag < minReadIndex + 2 * NumberBits
     /\ WindowTags \subseteq acked \cup AlreadyRead

NoteOrder(tag) ==
  /\ jumped' = IF tag >= minReadIndex + 2 * NumberBits THEN jumped \cup {tag}
                                                      ELSE jumped
  /\ orderly' = (orderly /\ InOrder(tag))

\* The tag is new and the callback returns Nil: the message is acknowledged.
Deliver(tag) ==
  /\ \E w \in MarkReadDone(tag) :
       /\ w.done
       /\ minReadIndex' = w.min
       /\ maskReadBits' = w.mask
  /\ consumed' = [consumed EXCEPT ![tag] = @ + 1]
  /\ acked' = acked \cup {tag}
  /\ NoteOrder(tag)
  /\ UNCHANGED <<ticket, writeVars>>

\* The tag is new but the callback fails: the mark is taken back, no ack.
Reject(tag) ==
  /\ \E w \in MarkReadDone(tag) :
       /\ w.done
       /\ minReadIndex' = w.min
       /\ maskReadBits' = MarkReadUnused(tag, w)
  /\ NoteOrder(tag)
  /\ UNCHANGED <<ticket, consumed, acked, writeVars>>

\* markReadDone says no: the message is acknowledged without the callback.
Refuse(tag) ==
  /\ \E w \in MarkReadDone(tag) :
       /\ ~w.done
       /\ minReadIndex' = w.min
       /\ maskReadBits' = w.mask
  /\ acked' = acked \cup {tag}
  /\ NoteOrder(tag)
  /\ UNCHANGED <<ticket, consumed, writeVars>>

-----------------------------------------------------------------------------
(***************************************************************************)
(* nextWriteIndex, step by step.                                           *)
(***************************************************************************)
\* Mutant: no critical section.
LockIgnoresHolder(t) ==
  /\ pc[t] = "idle" /\ calls < MaxIds
  /\ holder' = t
  /\ pc' = [pc EXCEPT ![t] = "read"]
  /\ calls' = calls + 1
  /\ UNCHANGED <<ticket, readVars, writeIndex, ret, issued>>

Lock(t) ==
  /\ pc[t] = "idle" /\ calls < MaxIds
  /\ holder = None
  /\ holder' = t
  /\ pc' = [pc EXCEPT ![t] = "read"]
  /\ calls' = calls + 1
  /\ UNCHANGED <<ticket, readVars, writeIndex, ret, issued>>

\* Mutant: the lock is released before the index is advanced.
ReadIndexUnlocks(t) ==
  /\ pc[t] = "read"
  /\ ret' = [ret EXCEPT ![t] = writeIndex]
  /\ pc' = [pc EXCEPT ![t] = "increment"]
  /\ holder' = None
  /\ UNCHANGED <<ticket, readVars, writeIndex, calls, issued>>

ReadIndex(t) ==
  /\ pc[t] = "read"
  /\ ret' = [ret EXCEPT ![t] = writeIndex]
  /\ pc' = [pc EXCEPT ![t] = "increment"]
  /\ UNCHANGED <<ticket, readVars, writeIndex, holder, calls, issued>>

Increment(t) ==
  /\ pc[t] = "increment"
  /\ writeIndex' = Add(writeIndex, 1)
  /\ pc' = [pc EXCEPT ![t] = "unlock"]
  /\ UNCHANGED <<ticket, readVars, holder, ret, calls, issued>>

Unlock(t) ==
  /\ pc[t] = "unlock"
  /\ holder' = None
  /\ pc' = [pc EXCEPT ![t] = "idle"]
  /\ issued' = [issued EXCEPT ![ret[t]] = @ + 1]
  /\ UNCHANGED <<ticket, readVars, writeIndex, ret, calls>>

-----------------------------------------------------------------------------
\* Counter::build passes idxWrite - 1 and the constructor subtracts 1 again.
FirstIndex(k) == Sub(Sub(k.idxWrite, 1), 1)

Init ==
  /\ ticket \in Tickets
  /\ minReadIndex = ticket.idxRead
  /\ maskReadBits = ticket.maskRead
  /\ writeIndex = FirstIndex(ticket)
  /\ holder = None
  /\ pc = [t \in Threads |-> "idle"]
  /\ ret = [t \in Threads |-> 0]
  /\ consumed = [t \in Tags |-> 0]
  /\ acked = {}
  /\ jumped = {}
  /\ orderly = TRUE
  /\ calls = 0
  /\ issued = [i \in Indices |-> 0]

Receive(tag) == Deliver(tag) \/ Reject(tag) \/ Refuse(tag)
NextWriteIndex(t) == Lock(t) \/ ReadIndex(t) \/ Increment(t) \/ Unlock(t)

Next == \/ \E tag \in Tags : Receive(tag)
        \/ \E t \in Threads : NextWriteIndex(t)

Spec == Init /\ [][Next]_vars

-----------------------------------------------------------------------------
TypeOK ==
  /\ ticket \in Tickets
  /\ minReadIndex \in Indices
  /\ maskReadBits \subseteq Positions
  /\ writeIndex \in Indices
  /\ holder \in Threads \cup {None}
  /\ pc \in [Threads -> {"idle", "read", "increment", "unlock"}]
  /\ ret \in [Threads -> Indices]
  /\ consumed \in [Tags -> Nat]
  /\ acked \subseteq Tags
  /\ jumped \subseteq Tags
  /\ orderly \in BOOLEAN
  /\ calls \in 0 .. MaxIds
  /\ issued \in [Indices -> Nat]

\* How often the user got the message: by the callback, or before this boot.
Readings(t) == consumed[t] + IF t \in AlreadyRead THEN 1 ELSE 0

\* The callback accepts a message at most once, and not at all when the ticket
\* says it was read before, however often and in whatever order the hub repeats
\* tags and however often the callback fails in between; the exception are tags
\* two windows or more ahead, which markReadDone cannot place (counter.cpp:41-46
\* slides once and shifts by what is left).
AtMostOnce == \A t \in Tags : Readings(t) <= 1 \/ t \in jumped

\* While the hub keeps to the windows no message is lost: what the client acknowledges was
\* accepted by the callback, or was already read when the ticket was issued.
AckedWasDelivered ==
  orderly => \A t \in acked : consumed[t] >= 1 \/ t \in AlreadyRead

\* Two calls of nextWriteIndex never return the same id (counter.cpp:18-24).
IdsDistinct == \A i \in Indices : issued[i] <= 1

NextToIssue == IF holder # None /\ pc[holder] = "unlock" THEN ret[holder] ELSE writeIndex
Numbers == INSTANCE IdSource WITH next <- NextToIssue

\* However the calls of nextWriteIndex overlap, they return consecutive numbers
\* as if each were one step, taken when the lock is released.
NumbersInOrder == Numbers!Spec
=============================================================================
