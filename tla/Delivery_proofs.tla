-------------------------- MODULE Delivery_proofs --------------------------
(***************************************************************************)
(* Delivery implements Mailbox, and its window knows exactly what was      *)
(* read, for any width of the window, capacity of the queue and bounds.    *)
(***************************************************************************)
EXTENDS Delivery, TLAPS

Contents == {inbox[i] : i \in 1 .. Len(inbox)}
Handed == {t \in Tags : handed[t] > 0}

\* A window that starts at min tells of S that it was read, and is the hub's or
\* the one before.
Tells(min, mask, S) ==
  /\ min \in Nat /\ mask \subseteq Positions
  /\ min = hubMin \/ min + NumberBits = hubMin
  /\ \A t \in Tags : (t < min \/ t - min \in mask) <=> t \in S

\* Only a device with a counter is activated, hands over and acknowledges.
DeviceInv ==
  /\ activated => built
  /\ online => listening /\ session >= 1
  /\ ~built => \A t \in Tags : handed[t] = 0
  /\ ~built /\ online => acks = {}

\* What the hub knows.
HubInv ==
  /\ hubMin <= MaxMessages
  /\ confirmed \subseteq everHanded /\ acks \subseteq everHanded /\ Handed \subseteq everHanded
  /\ \A t \in everHanded : t < accepted /\ t < hubMin + NumberBits
  /\ \A t \in Tags : t < hubMin => t \in confirmed

\* What waits in the receive queue is not newer than what the hub knows; the
\* ready ticket from which the counter will be built is not older either.
InboxInv ==
  \A m \in Contents :
    /\ m.session <= session
    /\ m.kind = "data" => m.tag < accepted /\ m.tag < hubMin + NumberBits
    /\ m.kind = "ready" /\ m.session = session /\ ~built =>
         acks = {} /\ Tells(m.min, m.mask, confirmed)

\* The window knows what was read, and only what was read is acknowledged.
WindowInv ==
  built => /\ Tells(minReadIndex, maskReadBits, Handed \cup confirmed)
           /\ acks \subseteq Handed \cup confirmed

IInv == TypeOK /\ DeviceInv /\ HubInv /\ InboxInv /\ WindowInv

-----------------------------------------------------------------------------
(***************************************************************************)
(* The receive queue as a set.                                             *)
(***************************************************************************)
LEMMA TakeContents ==
  ASSUME inbox \in Seq(Messages), Take
  PROVE  /\ inbox' \in Seq(Messages) /\ Len(inbox') <= Len(inbox)
         /\ Contents' \subseteq Contents
         /\ Head(inbox) \in Contents
<1>1. Len(inbox) \in Nat /\ Len(inbox) >= 1 /\ inbox' = Tail(inbox)
  BY DEF Take
<1>2. inbox' \in Seq(Messages) /\ Len(inbox') = Len(inbox) - 1
  BY <1>1
<1>3. \A i \in 1 .. Len(inbox') : inbox'[i] = inbox[i + 1] /\ i + 1 \in 1 .. Len(inbox)
  BY <1>1, <1>2
<1>4. Head(inbox) = inbox[1]
  BY <1>1
<1>. QED
  BY <1>1, <1>2, <1>3, <1>4 DEF Contents

LEMMA StoreContents ==
  ASSUME inbox \in Seq(Messages), Len(inbox) <= InboxSize, NEW m \in Messages, inbox' = Stored(m)
  PROVE  /\ inbox' \in Seq(Messages) /\ Len(inbox') <= InboxSize
         /\ Contents' \subseteq Contents \cup {m}
<1>1. CASE inbox' = inbox
  BY <1>1 DEF Contents
<1>2. CASE inbox' = Append(inbox, m) /\ Len(inbox) < InboxSize
  <2>1. inbox' \in Seq(Messages) /\ Len(inbox') = Len(inbox) + 1
    BY <1>2
  <2>2. \A i \in 1 .. Len(inbox') : inbox'[i] = m \/ (i \in 1 .. Len(inbox) /\ inbox'[i] = inbox[i])
    BY <1>2, <2>1
  <2>. QED
    BY <1>2, <2>1, <2>2, DeliveryAssumption DEF Contents
<1>. QED
  BY <1>1, <1>2 DEF Stored

-----------------------------------------------------------------------------
(***************************************************************************)
(* The window.                                                             *)
(***************************************************************************)
\* Next to the hub's window no sum wraps.
LEMMA NoWrap ==
  ASSUME hubMin \in Nat, hubMin <= MaxMessages, NEW min \in Nat, min <= hubMin
  PROVE  Add(min, NumberBits) = min + NumberBits /\ min \in Indices
BY WindowAssumption, DeliveryAssumption DEF Add, Indices

LEMMA TellsMin ==
  ASSUME hubMin \in Nat, NEW min, NEW mask, NEW S, Tells(min, mask, S)
  PROVE  min \in Nat /\ min <= hubMin /\ mask \subseteq Positions
<1>1. min \in Nat /\ mask \subseteq Positions /\ (min = hubMin \/ min + NumberBits = hubMin)
  BY DEF Tells
<1>. QED
  BY <1>1, WindowAssumption

\* markReadDone finds out whether a tag in the hub's window was read, notes it,
\* and markReadUnused takes that back.
LEMMA MarkTells ==
  ASSUME NEW S, NEW t \in Tags, NEW w \in MarkReadDone(t),
         hubMin \in Nat, hubMin <= MaxMessages,
         \A u \in Tags : u < hubMin => u \in S,
         Tells(minReadIndex, maskReadBits, S),
         t < hubMin + NumberBits
  PROVE  /\ w.done \in BOOLEAN
         /\ w.done <=> t \notin S
         /\ Tells(w.min, w.mask, S \cup {t})
         /\ w.done => Tells(w.min, MarkReadUnused(t, w), S)
<1>. DEFINE min == minReadIndex
            next == minReadIndex + NumberBits
<1>a. /\ NumberBits \in Nat \ {0} /\ MaxMessages \in Nat
      /\ Tags \subseteq Nat /\ t \in Nat
      /\ min \in Nat /\ maskReadBits \subseteq Positions
      /\ min = hubMin \/ next = hubMin
      /\ \A u \in Tags : (u < min \/ u - min \in maskReadBits) <=> u \in S
  BY WindowAssumption, DeliveryAssumption DEF Tags, Tells
<1>b. Add(min, NumberBits) = next
  BY <1>a, NoWrap
<1>1. CASE t < min
  <2>1. w = [done |-> FALSE, min |-> min, mask |-> maskReadBits]
    BY <1>1 DEF MarkReadDone
  <2>2. t \in S /\ S \cup {t} = S
    BY <1>1, <1>a
  <2>. QED
    BY <2>1, <2>2
<1>2. CASE ~(t < min) /\ t < next
  <2>. DEFINE d == t - min
  <2>1. d \in Positions /\ Sub(t, min) = d /\ ~Beyond(t) /\ d < NumberBits
    BY <1>2, <1>a, <1>b DEF Positions, Sub, Beyond
  <2>2. Slid(t) = [min |-> min, mask |-> maskReadBits]
    BY <2>1 DEF Slid
  <2>3. ShiftOne(Sub(t, min)) = {{d}}
    BY <2>1 DEF ShiftOne
  <2>4. w = [done |-> {d} \cap maskReadBits = {}, min |-> min, mask |-> maskReadBits \cup {d}]
    BY <1>2, <2>2, <2>3 DEF MarkReadDone
  <2>5. (d \in maskReadBits) <=> t \in S
    BY <1>2, <1>a
  <2>6. w.done <=> t \notin S
    BY <2>4, <2>5
  <2>7. Tells(w.min, w.mask, S \cup {t})
    <3>1. \A u \in Tags : (u - min = d) <=> u = t
      BY <1>a
    <3>. QED
      BY <2>1, <2>4, <3>1, <1>a DEF Tells
  <2>8. ASSUME w.done PROVE Tells(w.min, MarkReadUnused(t, w), S)
    <3>1. MarkReadUnused(t, w) = (maskReadBits \cup {d}) \ {d}
      BY <1>2, <1>a, <1>b, <2>1, <2>4 DEF MarkReadUnused
    <3>2. d \notin maskReadBits
      BY <2>8, <2>5, <2>6
    <3>3. MarkReadUnused(t, w) = maskReadBits
      BY <3>1, <3>2
    <3>. QED
      BY <3>3, <2>4
  <2>. QED
    BY <2>4, <2>6, <2>7, <2>8
<1>3. CASE ~(t < next)
  <2>. DEFINE d == t - next
  <2>1. hubMin = next /\ ~(t < min)
    BY <1>3, <1>a
  <2>2. d \in Positions /\ Sub(t, next) = d /\ Beyond(t) /\ d < NumberBits
    BY <1>3, <2>1, <1>a, <1>b DEF Positions, Sub, Beyond
  <2>3. Slid(t) = [min |-> next, mask |-> {}]
    BY <2>2, <1>b DEF Slid
  <2>4. ShiftOne(Sub(t, next)) = {{d}}
    BY <2>2 DEF ShiftOne
  <2>5. w = [done |-> {d} \cap {} = {}, min |-> next, mask |-> {} \cup {d}]
    BY <2>1, <2>3, <2>4 DEF MarkReadDone
  <2>6. \A u \in Tags : u < next <=> u \in S
    <3>1. \A u \in Tags : u - min \in maskReadBits => u < next
      BY <1>a DEF Positions
    <3>. QED
      BY <3>1, <2>1, <1>a
  <2>7. t \notin S /\ w.done
    BY <1>3, <1>a, <2>5, <2>6
  <2>8. Tells(w.min, w.mask, S \cup {t})
    <3>1. \A u \in Tags : (u - next = d) <=> u = t
      BY <1>a
    <3>. QED
      BY <2>1, <2>2, <2>5, <2>6, <3>1, <1>a DEF Tells
  <2>9. Tells(w.min, MarkReadUnused(t, w), S)
    <3>0. Add(next, NumberBits) = next + NumberBits
      BY <2>1, <1>a, NoWrap
    <3>1. MarkReadUnused(t, w) = {}
      BY <2>1, <2>2, <2>5, <3>0, <1>a, <1>3 DEF MarkReadUnused
    <3>. QED
      BY <2>1, <2>5, <2>6, <3>1, <1>a DEF Tells
  <2>. QED
    BY <2>5, <2>7, <2>8, <2>9
<1>. QED
  BY <1>1, <1>2, <1>3, <1>a
-----------------------------------------------------------------------------
(***************************************************************************)
(* The invariant.                                                          *)
(***************************************************************************)
LEMMA InitInv == Init => IInv
<1>. SUFFICES ASSUME Init PROVE IInv
  OBVIOUS
<1>1. Contents = {} /\ Handed = {}
  BY DEF Init, Contents, Handed
<1>2. TypeOK
  <2>1. 0 \in Indices /\ 0 \in 0 .. MaxSessions /\ 0 \in 0 .. MaxMessages /\ 1 \in 1 .. MaxBoots
    BY WindowAssumption, DeliveryAssumption DEF Indices
  <2>2. inbox \in Seq(Messages) /\ Len(inbox) <= InboxSize
    BY DeliveryAssumption DEF Init
  <2>. QED
    BY <2>1, <2>2 DEF Init, TypeOK
<1>. QED
  BY <1>1, <1>2, DeliveryAssumption DEF Init, IInv, DeviceInv, HubInv, InboxInv, WindowInv, Tags

\* Of a step that leaves the window and what the hub knows alone, and whose
\* receive queue holds nothing new, only the device's part needs a look.
LEMMA QuietStep ==
  ASSUME IInv, TypeOK', DeviceInv',
         UNCHANGED <<built, minReadIndex, maskReadBits, session, hubMin, accepted, confirmed, handed, everHanded>>,
         acks' \subseteq acks,
         Contents' \subseteq Contents
  PROVE  IInv'
<1>1. HubInv'
  BY DEF IInv, HubInv, Handed
<1>2. InboxInv'
  BY DEF IInv, InboxInv, Tells
<1>3. WindowInv'
  BY DEF IInv, WindowInv, Tells, Handed
<1>. QED
  BY <1>1, <1>2, <1>3 DEF IInv

LEMMA SameContents ==
  ASSUME UNCHANGED inbox
  PROVE  Contents' = Contents
BY DEF Contents

LEMMA RegisterInv ==
  ASSUME IInv, Register
  PROVE  IInv'
<1>1. TypeOK'
  <2>1. session' \in 0 .. MaxSessions
    BY DeliveryAssumption DEF IInv, TypeOK, Register
  <2>. QED
    BY <2>1 DEF IInv, TypeOK, Register, window, history
<1>2. DeviceInv'
  BY DEF IInv, TypeOK, DeviceInv, Register, window, history
<1>3. HubInv'
  BY DEF IInv, HubInv, Register, Handed, history
<1>4. InboxInv'
  <2>1. \A m \in Contents : m.session <= session /\ m.session # session'
    <3>1. Contents \subseteq Messages
      BY DEF IInv, TypeOK, Contents
    <3>2. \A m \in Messages : m.session \in Nat
      BY DeliveryAssumption DEF Messages
    <3>. QED
      BY <3>1, <3>2 DEF IInv, InboxInv, TypeOK, Register
  <2>2. Contents' = Contents
    BY SameContents DEF Register
  <2>. QED
    BY <2>1, <2>2 DEF IInv, InboxInv, TypeOK, Register, Contents, Messages
<1>5. WindowInv'
  BY DEF IInv, WindowInv, Tells, Handed, Register, window, history
<1>. QED
  BY <1>1, <1>2, <1>3, <1>4, <1>5 DEF IInv

LEMMA RestartInv ==
  ASSUME IInv, Restart
  PROVE  IInv'
<1>1. Contents' = {} /\ Handed' = {}
  BY DEF Restart, Contents, Handed
<1>2. TypeOK'
  <2>1. boots' \in 1 .. MaxBoots /\ 0 \in Indices
    BY WindowAssumption, DeliveryAssumption DEF IInv, TypeOK, Restart, Indices
  <2>2. inbox' \in Seq(Messages) /\ Len(inbox') <= InboxSize
    BY DeliveryAssumption DEF Restart
  <2>. QED
    BY <2>1, <2>2 DEF IInv, TypeOK, Restart, hub
<1>3. DeviceInv'
  BY DEF DeviceInv, Restart
<1>4. HubInv'
  BY <1>1 DEF IInv, HubInv, Restart, hub
<1>. QED
  BY <1>1, <1>2, <1>3, <1>4 DEF IInv, InboxInv, WindowInv, Restart

\* The ends of sessions, the request for an activation, what is discarded.
LEMMA QuietInv ==
  ASSUME IInv, SessionEnds \/ LeaveSession \/ Ask \/ Discard
  PROVE  IInv'
<1>1. CASE SessionEnds
  BY <1>1, QuietStep, SameContents DEF SessionEnds, window, hub, history, IInv, TypeOK, DeviceInv
<1>2. CASE LeaveSession
  BY <1>2, QuietStep, SameContents DEF LeaveSession, window, hub, history, IInv, TypeOK, DeviceInv
<1>3. CASE Ask
  BY <1>3, QuietStep, SameContents DEF Ask, window, hub, history, IInv, TypeOK, DeviceInv
<1>4. CASE Discard
  <2>1. inbox' \in Seq(Messages) /\ Len(inbox') <= Len(inbox) /\ Contents' \subseteq Contents
    BY <1>4, TakeContents DEF Discard, IInv, TypeOK
  <2>2. Len(inbox') <= InboxSize
    BY <2>1, DeliveryAssumption DEF IInv, TypeOK
  <2>. QED
    BY <1>4, <2>1, <2>2, QuietStep DEF Discard, window, hub, history, IInv, TypeOK, DeviceInv
<1>. QED
  BY <1>1, <1>2, <1>3, <1>4

LEMMA TakeReadyInv ==
  ASSUME IInv, TakeReady
  PROVE  IInv'
<1>. DEFINE m == Head(inbox)
<1>1. /\ inbox' \in Seq(Messages) /\ Len(inbox') <= Len(inbox) /\ Contents' \subseteq Contents
      /\ m \in Contents
  BY TakeContents DEF TakeReady, IInv, TypeOK
<1>2. CASE built
  <2>1. Len(inbox') <= InboxSize
    BY <1>1, DeliveryAssumption DEF IInv, TypeOK
  <2>. QED
    BY <1>1, <1>2, <2>1, QuietStep DEF TakeReady, Build, window, hub, IInv, TypeOK, DeviceInv
<1>3. CASE ~built
  <2>1. built' /\ minReadIndex' = m.min /\ maskReadBits' = m.mask /\ activated'
    BY <1>3 DEF TakeReady, Build
  <2>2. Tells(m.min, m.mask, confirmed) /\ acks = {}
    BY <1>1, <1>3 DEF TakeReady, IInv, InboxInv
  <2>3. m.min \in Indices
    BY <2>2, NoWrap, WindowAssumption DEF Tells, IInv, TypeOK, HubInv
  <2>4. Len(inbox') <= InboxSize
    BY <1>1, DeliveryAssumption DEF IInv, TypeOK
  <2>5. TypeOK'
    BY <1>1, <2>1, <2>2, <2>3, <2>4 DEF TakeReady, IInv, TypeOK, hub, Tells
  <2>6. DeviceInv'
    BY <2>1 DEF TakeReady, IInv, DeviceInv
  <2>7. HubInv'
    BY DEF TakeReady, IInv, HubInv, hub, Handed
  <2>8. InboxInv'
    BY <1>1, <2>1 DEF TakeReady, IInv, InboxInv, hub
  <2>9. WindowInv'
    <3>1. Handed = {} /\ Handed' = Handed
      BY <1>3 DEF TakeReady, IInv, DeviceInv, Handed, TypeOK
    <3>2. Handed' \cup confirmed' = confirmed
      BY <3>1 DEF TakeReady, hub
    <3>. QED
      BY <2>1, <2>2, <3>2 DEF WindowInv, Tells, TakeReady, hub
  <2>. QED
    BY <2>5, <2>6, <2>7, <2>8, <2>9 DEF IInv
<1>. QED
  BY <1>2, <1>3
-----------------------------------------------------------------------------
(***************************************************************************)
(* A message that listen looks at.                                         *)
(***************************************************************************)
LEMMA ReceiveFacts ==
  ASSUME IInv, NEW t \in Tags, Receive(t)
  PROVE  /\ built /\ t < accepted /\ t < hubMin + NumberBits
         /\ inbox' \in Seq(Messages) /\ Len(inbox') <= InboxSize /\ Contents' \subseteq Contents
<1>1. /\ inbox' \in Seq(Messages) /\ Len(inbox') <= Len(inbox) /\ Contents' \subseteq Contents
      /\ Data(t) \in Contents
  BY TakeContents DEF Receive, IInv, TypeOK
<1>2. Len(inbox') <= InboxSize
  BY <1>1, DeliveryAssumption DEF IInv, TypeOK
<1>. QED
  BY <1>1, <1>2 DEF Data, IInv, InboxInv, DeviceInv, Receive

\* What markReadDone finds out and leaves behind.
LEMMA MarkFacts ==
  ASSUME IInv, NEW t \in Tags, Receive(t), NEW w \in MarkReadDone(t)
  PROVE  /\ w.done <=> t \notin Handed \cup confirmed
         /\ Tells(w.min, w.mask, Handed \cup confirmed \cup {t})
         /\ w.done => Tells(w.min, MarkReadUnused(t, w), Handed \cup confirmed)
<1>1. built /\ t < hubMin + NumberBits
  BY ReceiveFacts
<1>2. Tells(minReadIndex, maskReadBits, Handed \cup confirmed)
  BY <1>1 DEF IInv, WindowInv
<1>3. hubMin \in Nat /\ hubMin <= MaxMessages /\ \A u \in Tags : u < hubMin => u \in Handed \cup confirmed
  BY DEF IInv, TypeOK, HubInv
<1>. QED
  BY <1>1, <1>2, <1>3, MarkTells

LEMMA ReadStep ==
  ASSUME IInv, NEW t \in Tags, Receive(t),
         handed' \in [Tags -> Nat],
         everHanded \subseteq everHanded', everHanded' \subseteq everHanded \cup {t},
         acks' \subseteq Handed' \cup confirmed, Handed' \subseteq everHanded',
         Tells(minReadIndex', maskReadBits', Handed' \cup confirmed)
  PROVE  IInv'
<1>1. /\ built /\ built' /\ t < accepted /\ t < hubMin + NumberBits
      /\ inbox' \in Seq(Messages) /\ Len(inbox') <= InboxSize /\ Contents' \subseteq Contents
      /\ UNCHANGED <<session, listening, online, activated, boots, asked, mistaken>>
      /\ UNCHANGED <<serving, hubMin, accepted, confirmed>>
  BY ReceiveFacts DEF Receive, hub
<1>2. minReadIndex' \in Indices /\ maskReadBits' \subseteq Positions
  <2>1. hubMin \in Nat /\ hubMin <= MaxMessages
    BY DEF IInv, TypeOK, HubInv
  <2>2. minReadIndex' \in Nat /\ minReadIndex' <= hubMin /\ maskReadBits' \subseteq Positions
    BY <2>1, TellsMin
  <2>. QED
    BY <2>1, <2>2, NoWrap
<1>3. acks' \subseteq everHanded' /\ acks' \subseteq Tags /\ everHanded' \subseteq Tags
  BY DEF IInv, TypeOK, HubInv
<1>4. TypeOK'
  BY <1>1, <1>2, <1>3 DEF IInv, TypeOK
<1>5. DeviceInv'
  BY <1>1 DEF IInv, DeviceInv
<1>6. HubInv'
  BY <1>1, <1>3 DEF IInv, HubInv
<1>7. InboxInv'
  BY <1>1 DEF IInv, InboxInv
<1>8. WindowInv'
  BY <1>1 DEF WindowInv, Tells
<1>. QED
  BY <1>4, <1>5, <1>6, <1>7, <1>8 DEF IInv

LEMMA DeliverFacts ==
  ASSUME IInv, NEW t \in Tags, Deliver(t)
  PROVE  /\ Receive(t) /\ t \notin Handed /\ t \notin confirmed
         /\ handed' \in [Tags -> Nat] /\ Handed' = Handed \cup {t}
         /\ everHanded' = everHanded \cup {t}
         /\ Tells(minReadIndex', maskReadBits', Handed' \cup confirmed)
<1>1. PICK w \in MarkReadDone(t) : w.done /\ minReadIndex' = w.min /\ maskReadBits' = w.mask
  BY DEF Deliver
<1>2. Receive(t)
  BY DEF Deliver
<1>3. t \notin Handed \cup confirmed /\ Tells(w.min, w.mask, Handed \cup confirmed \cup {t})
  BY <1>1, <1>2, MarkFacts
<1>4. handed' \in [Tags -> Nat] /\ Handed' = Handed \cup {t}
  BY DEF Deliver, Handed, IInv, TypeOK
<1>5. Handed \cup confirmed \cup {t} = Handed' \cup confirmed
  BY <1>4
<1>. QED
  BY <1>1, <1>2, <1>3, <1>4, <1>5 DEF Deliver

LEMMA RefuseFacts ==
  ASSUME IInv, NEW t \in Tags, Refuse(t)
  PROVE  /\ Receive(t) /\ t \in Handed \cup confirmed
         /\ UNCHANGED <<handed, everHanded>> /\ Handed' = Handed
         /\ Tells(minReadIndex', maskReadBits', Handed' \cup confirmed)
<1>1. PICK w \in MarkReadDone(t) : ~w.done /\ minReadIndex' = w.min /\ maskReadBits' = w.mask
  BY DEF Refuse
<1>2. Receive(t) /\ UNCHANGED <<handed, everHanded>> /\ Handed' = Handed
  BY DEF Refuse, Handed
<1>3. t \in Handed \cup confirmed /\ Tells(w.min, w.mask, Handed \cup confirmed \cup {t})
  BY <1>1, <1>2, MarkFacts
<1>4. Handed \cup confirmed \cup {t} = Handed' \cup confirmed
  BY <1>2, <1>3
<1>. QED
  BY <1>1, <1>2, <1>3, <1>4 DEF IInv, HubInv

LEMMA RejectFacts ==
  ASSUME IInv, NEW t \in Tags, Reject(t)
  PROVE  /\ Receive(t)
         /\ UNCHANGED <<acks, handed, everHanded>> /\ Handed' = Handed
         /\ Tells(minReadIndex', maskReadBits', Handed' \cup confirmed)
<1>1. PICK w \in MarkReadDone(t) :
        w.done /\ minReadIndex' = w.min /\ maskReadBits' = MarkReadUnused(t, w)
  BY DEF Reject
<1>2. Receive(t) /\ UNCHANGED <<acks, handed, everHanded>> /\ Handed' = Handed
  BY DEF Reject, Handed
<1>. QED
  BY <1>1, <1>2, MarkFacts

LEMMA MessageInv ==
  ASSUME IInv, NEW t \in Tags, Answered(t) \/ Unanswered(t) \/ Reject(t)
  PROVE  IInv'
<1>1. Handed \subseteq everHanded /\ handed \in [Tags -> Nat]
  BY DEF IInv, TypeOK, HubInv
<1>a. Receive(t) => acks \subseteq Handed \cup confirmed
  BY ReceiveFacts DEF IInv, WindowInv
<1>2. CASE Reject(t)
  BY <1>1, <1>a, <1>2, RejectFacts, ReadStep
<1>3. CASE Deliver(t) /\ (AckSent(t) \/ AckLost)
  <2>1. acks' \subseteq acks \cup {t}
    BY <1>3 DEF AckSent, AckLost
  <2>. QED
    BY <1>1, <1>a, <1>3, <2>1, DeliverFacts, ReadStep
<1>4. CASE Refuse(t) /\ (AckSent(t) \/ AckLost)
  <2>1. acks' \subseteq acks \cup {t}
    BY <1>4 DEF AckSent, AckLost
  <2>. QED
    BY <1>1, <1>a, <1>4, <2>1, RefuseFacts, ReadStep
<1>. QED
  BY <1>2, <1>3, <1>4 DEF Answered, Unanswered

-----------------------------------------------------------------------------
(***************************************************************************)
(* The hub.                                                                *)
(***************************************************************************)
LEMMA HubAcceptsInv ==
  ASSUME IInv, HubAccepts
  PROVE  IInv'
<1>1. Contents' = Contents /\ Handed' = Handed
  BY DEF HubAccepts, history, Contents, Handed
<1>2. accepted \in Nat /\ accepted' = accepted + 1 /\ accepted' \in 0 .. MaxMessages
  BY DeliveryAssumption DEF HubAccepts, IInv, TypeOK
<1>3. TypeOK'
  BY <1>2 DEF HubAccepts, window, history, IInv, TypeOK
<1>4. DeviceInv'
  BY DEF HubAccepts, window, history, IInv, DeviceInv
<1>5. HubInv'
  <2>1. \A u \in Nat : u < accepted => u < accepted'
    BY <1>2
  <2>. QED
    BY <1>1, <2>1 DEF HubAccepts, history, IInv, HubInv, TypeOK, Tags
<1>6. InboxInv'
  <2>1. \A m \in Contents : m.kind = "data" => m.tag \in Nat
    BY DEF IInv, TypeOK, Contents, Messages, Tags
  <2>2. \A u \in Nat : u < accepted => u < accepted'
    BY <1>2
  <2>. QED
    BY <1>1, <2>1, <2>2 DEF HubAccepts, window, IInv, InboxInv, Tells
<1>7. WindowInv'
  BY <1>1 DEF HubAccepts, window, IInv, WindowInv, Tells
<1>. QED
  BY <1>3, <1>4, <1>5, <1>6, <1>7 DEF IInv

\* The window that a counter or a ticket tells of is never two behind.
LEMMA TellsSlides ==
  ASSUME IInv, HubSlides, NEW min, NEW mask, NEW S, confirmed \subseteq S, Tells(min, mask, S)
  PROVE  Tells(min, mask, S)'
<1>1. hubMin \in confirmed /\ hubMin' = hubMin + NumberBits /\ hubMin \in Nat /\ hubMin \in Tags
  BY WindowAssumption DEF HubSlides, IInv, TypeOK
<1>2. hubMin < min \/ hubMin - min \in mask
  BY <1>1 DEF Tells
<1>3. min = hubMin
  BY <1>1, <1>2, WindowAssumption DEF Tells, Positions
<1>. QED
  BY <1>1, <1>3 DEF Tells

LEMMA HubSlidesInv ==
  ASSUME IInv, HubSlides
  PROVE  IInv'
<1>1. Contents' = Contents /\ Handed' = Handed /\ UNCHANGED <<confirmed, acks, accepted, session, built>>
  BY DEF HubSlides, window, history, Contents, Handed
<1>2. hubMin \in Nat /\ NumberBits \in Nat \ {0} /\ hubMin' = hubMin + NumberBits /\ hubMin' \in Nat
  BY WindowAssumption DEF HubSlides, IInv, TypeOK
<1>3. hubMin' <= MaxMessages
  <2>1. hubMin + NumberBits - 1 \in Tags
    BY <1>2 DEF HubSlides, IInv, TypeOK
  <2>. QED
    BY <1>2, <2>1, DeliveryAssumption DEF Tags
<1>4. TypeOK'
  BY <1>2 DEF HubSlides, window, history, IInv, TypeOK
<1>5. DeviceInv'
  BY DEF HubSlides, window, history, IInv, DeviceInv
<1>6. HubInv'
  <2>1. \A u \in Tags : u < hubMin' => u \in confirmed
    BY <1>2 DEF HubSlides, IInv, HubInv, Tags
  <2>2. \A u \in everHanded : u < accepted /\ u < hubMin' + NumberBits
    BY <1>2 DEF IInv, HubInv, TypeOK, Tags
  <2>. QED
    BY <1>1, <1>3, <2>1, <2>2 DEF HubSlides, history, IInv, HubInv
<1>7. InboxInv'
  <2>1. \A m \in Contents : m.kind = "data" => m.tag \in Nat
    BY DEF IInv, TypeOK, Contents, Messages, Tags
  <2>2. ASSUME NEW m \in Contents, m.kind = "ready", m.session = session, ~built
        PROVE  acks = {} /\ Tells(m.min, m.mask, confirmed)'
    <3>1. acks = {} /\ Tells(m.min, m.mask, confirmed)
      BY <2>2 DEF IInv, InboxInv
    <3>2. \A min, mask : Tells(min, mask, confirmed) => Tells(min, mask, confirmed)'
      BY TellsSlides, <1>1
    <3>. QED
      BY <3>1, <3>2 DEF Tells
  <2>3. ASSUME NEW m \in Contents, m.kind = "data"
        PROVE  m.tag < accepted /\ m.tag < hubMin' + NumberBits
    BY <1>2, <2>1, <2>3 DEF IInv, InboxInv
  <2>. QED
    BY <1>1, <2>2, <2>3 DEF IInv, InboxInv, Tells
<1>8. WindowInv'
  <2>1. UNCHANGED <<built, minReadIndex, maskReadBits>>
    BY DEF HubSlides, window
  <2>. DEFINE S == Handed \cup confirmed
  <2>2. Tells(minReadIndex, maskReadBits, S) => minReadIndex = hubMin
    <3>1. hubMin \in S /\ hubMin \in Tags
      BY <1>2 DEF HubSlides, IInv, TypeOK
    <3>. QED
      BY <1>2, <3>1 DEF Tells, Positions
  <2>. QED
    BY <1>1, <1>2, <2>1, <2>2 DEF IInv, WindowInv, Tells
<1>. QED
  BY <1>4, <1>5, <1>6, <1>7, <1>8 DEF IInv

LEMMA AnswerInv ==
  ASSUME IInv, Answer
  PROVE  IInv'
<1>. DEFINE mask == {d \in Positions : hubMin + d \in confirmed}
            m == Ready(hubMin, mask)
<1>1. m \in Messages /\ m.kind = "ready" /\ m.session = session /\ m.min = hubMin /\ m.mask = mask
  BY DEF Ready, Messages, Answer, IInv, TypeOK, DeviceInv
<1>2. inbox' \in Seq(Messages) /\ Len(inbox') <= InboxSize /\ Contents' \subseteq Contents \cup {m}
  BY <1>1, StoreContents DEF Answer, IInv, TypeOK
<1>3. Tells(hubMin, mask, confirmed)
  <2>1. \A u \in Tags : u < hubMin => u \in confirmed
    BY DEF IInv, HubInv
  <2>2. \A u \in confirmed : u < hubMin + NumberBits
    BY DEF IInv, HubInv
  <2>3. ASSUME NEW u \in Tags PROVE (u < hubMin \/ u - hubMin \in mask) <=> u \in confirmed
    <3>1. u \in Nat /\ hubMin \in Nat /\ NumberBits \in Nat
      BY WindowAssumption DEF IInv, TypeOK, Tags
    <3>2. hubMin + (u - hubMin) = u
      BY <3>1
    <3>3. u \in confirmed /\ ~(u < hubMin) => u - hubMin \in Positions
      BY <3>1, <2>2 DEF Positions
    <3>. QED
      BY <2>1, <3>2, <3>3
  <2>. QED
    BY <2>3 DEF Tells, IInv, TypeOK
<1>4. TypeOK'
  BY <1>2 DEF Answer, window, history, IInv, TypeOK
<1>5. DeviceInv'
  BY DEF Answer, window, history, IInv, DeviceInv
<1>6. HubInv'
  BY DEF Answer, history, IInv, HubInv, Handed
<1>7. InboxInv'
  <2>1. UNCHANGED <<built, session, acks, hubMin, accepted, confirmed>>
    BY DEF Answer, window
  <2>2. ~built => acks = {}
    BY DEF Answer, IInv, DeviceInv
  <2>3. session <= session
    BY DEF IInv, TypeOK
  <2>. QED
    BY <1>1, <1>2, <1>3, <2>1, <2>2, <2>3 DEF IInv, InboxInv, Tells
<1>8. WindowInv'
  BY DEF Answer, window, history, IInv, WindowInv, Tells, Handed
<1>. QED
  BY <1>4, <1>5, <1>6, <1>7, <1>8 DEF IInv

LEMMA HubSendsInv ==
  ASSUME IInv, NEW t \in Tags, HubSends(t)
  PROVE  IInv'
<1>1. Data(t) \in Messages /\ Data(t).kind = "data" /\ Data(t).session = session /\ Data(t).tag = t
  BY DEF Data, Messages, HubSends, IInv, TypeOK, DeviceInv
<1>2. inbox' \in Seq(Messages) /\ Len(inbox') <= InboxSize /\ Contents' \subseteq Contents \cup {Data(t)}
  BY <1>1, StoreContents DEF HubSends, IInv, TypeOK
<1>3. TypeOK'
  BY <1>2 DEF HubSends, window, hub, history, IInv, TypeOK
<1>4. DeviceInv'
  BY DEF HubSends, window, history, IInv, DeviceInv
<1>5. HubInv'
  BY DEF HubSends, hub, history, IInv, HubInv, Handed
<1>6. InboxInv'
  <2>1. UNCHANGED <<built, session, acks, hubMin, accepted, confirmed>>
    BY DEF HubSends, window, hub
  <2>2. session <= session
    BY DEF IInv, TypeOK
  <2>. QED
    BY <1>1, <1>2, <2>1, <2>2 DEF HubSends, IInv, InboxInv, Tells
<1>7. WindowInv'
  BY DEF HubSends, window, hub, history, IInv, WindowInv, Tells, Handed
<1>. QED
  BY <1>3, <1>4, <1>5, <1>6, <1>7 DEF IInv

LEMMA AckArrivesInv ==
  ASSUME IInv, NEW t \in Tags, AckArrives(t)
  PROVE  IInv'
<1>1. /\ t \in acks /\ t \in everHanded /\ acks' = acks \ {t} /\ confirmed' = confirmed \cup {t}
      /\ Contents' = Contents /\ Handed' = Handed
      /\ UNCHANGED <<built, minReadIndex, maskReadBits, session, hubMin, accepted, everHanded>>
  BY DEF AckArrives, window, history, IInv, HubInv, Contents, Handed
<1>2. TypeOK'
  BY DEF AckArrives, window, history, IInv, TypeOK
<1>3. DeviceInv'
  BY DEF AckArrives, window, history, IInv, DeviceInv
<1>4. HubInv'
  BY <1>1 DEF IInv, HubInv
<1>5. InboxInv'
  BY <1>1 DEF IInv, InboxInv
<1>6. WindowInv'
  BY <1>1 DEF IInv, WindowInv, Tells
<1>. QED
  BY <1>2, <1>3, <1>4, <1>5, <1>6 DEF IInv
LEMMA NextInv == IInv /\ [Next]_vars => IInv'
<1>. SUFFICES ASSUME IInv, [Next]_vars PROVE IInv'
  OBVIOUS
<1>1. CASE Register
  BY <1>1, RegisterInv
<1>2. CASE SessionEnds \/ LeaveSession \/ Ask \/ Discard
  BY <1>2, QuietInv
<1>3. CASE Restart
  BY <1>3, RestartInv
<1>4. CASE TakeReady
  BY <1>4, TakeReadyInv
<1>5. CASE \E t \in Tags : Answered(t) \/ Unanswered(t) \/ Reject(t)
  BY <1>5, MessageInv
<1>6. CASE HubAccepts
  BY <1>6, HubAcceptsInv
<1>7. CASE HubSlides
  BY <1>7, HubSlidesInv
<1>8. CASE Answer
  BY <1>8, AnswerInv
<1>9. CASE \E t \in Tags : HubSends(t)
  BY <1>9, HubSendsInv
<1>10. CASE \E t \in Tags : AckArrives(t)
  BY <1>10, AckArrivesInv
<1>11. CASE UNCHANGED vars
  <2>1. Contents' = Contents
    BY <1>11, SameContents DEF vars
  <2>. QED
    BY <1>11, <2>1, QuietStep DEF vars, window, hub, history, IInv, TypeOK, DeviceInv
<1>. QED
  BY <1>1, <1>2, <1>3, <1>4, <1>5, <1>6, <1>7, <1>8, <1>9, <1>10, <1>11 DEF Next, Device, HubSide

LEMMA Invariant == Spec => []IInv
<1>1. Init => IInv
  BY InitInv
<1>2. IInv /\ [Next]_vars => IInv'
  BY NextInv
<1>. QED
  BY <1>1, <1>2, PTL DEF Spec

\* Every variable keeps its type, and the window is never near the point where
\* its sums wrap, for any number of sessions and starts (counter.cpp:36-51).
THEOREM DeliveryTypeCorrect == Spec => []TypeOK
<1>1. IInv => TypeOK
  BY DEF IInv
<1>. QED
  BY <1>1, Invariant, PTL

\* The counter of the first ready ticket, kept over later ones, knows exactly
\* what was read (connector.cpp:110, counter.cpp:26-51).
THEOREM DeliveryWindowKnows == Spec => []WindowKnows
<1>1. IInv => WindowKnows
  <2>. SUFFICES ASSUME IInv, built PROVE Read = Handed \cup confirmed
    BY DEF WindowKnows, Handed
  <2>1. \A t \in Tags : (t < minReadIndex \/ t - minReadIndex \in maskReadBits) <=> t \in Handed \cup confirmed
    BY DEF IInv, WindowInv, Tells
  <2>2. Handed \cup confirmed \subseteq Tags
    BY DEF Handed, IInv, TypeOK
  <2>. QED
    BY <2>1, <2>2 DEF Read
<1>. QED
  BY <1>1, Invariant, PTL

-----------------------------------------------------------------------------
(***************************************************************************)
(* The refinement.                                                         *)
(***************************************************************************)
LEMMA DeliverHandsOver ==
  ASSUME IInv, NEW t \in Tags, Deliver(t)
  PROVE  Promise!HandOver(t)
<1>1. t < accepted /\ t \notin Handed /\ t \notin confirmed
  BY ReceiveFacts, DeliverFacts
<1>2. handed[t] = 0
  BY <1>1 DEF Handed, IInv, TypeOK
<1>. QED
  BY <1>1, <1>2 DEF Promise!HandOver, Deliver, Receive, hub

LEMMA StepKeepsPromise == IInv /\ [Next]_vars => [Promise!Next]_Promise!vars
<1>. SUFFICES ASSUME IInv, [Next]_vars PROVE Promise!Next \/ UNCHANGED Promise!vars
  OBVIOUS
<1>. USE DEF Promise!vars, Promise!Next, hub, history
<1>1. CASE Register \/ SessionEnds \/ LeaveSession \/ Ask \/ Discard
  BY <1>1 DEF Register, SessionEnds, LeaveSession, Ask, Discard
<1>2. CASE Restart
  BY <1>2 DEF Restart, Promise!Forget
<1>3. CASE TakeReady
  BY <1>3 DEF TakeReady
<1>4. ASSUME NEW t \in Tags, Answered(t) \/ Unanswered(t) \/ Reject(t)
      PROVE  Promise!Next \/ UNCHANGED Promise!vars
  <2>1. CASE Deliver(t)
    BY <2>1, DeliverHandsOver
  <2>2. CASE Refuse(t) \/ Reject(t)
    BY <2>2 DEF Refuse, Reject, Receive
  <2>. QED
    BY <1>4, <2>1, <2>2 DEF Answered, Unanswered
<1>5. CASE HubAccepts
  BY <1>5 DEF HubAccepts, Promise!Accept
<1>6. CASE HubSlides \/ Answer
  BY <1>6 DEF HubSlides, Answer
<1>7. ASSUME NEW t \in Tags, HubSends(t) PROVE UNCHANGED Promise!vars
  BY <1>7 DEF HubSends
<1>8. ASSUME NEW t \in Tags, AckArrives(t) PROVE Promise!Next
  <2>1. t \in everHanded
    BY <1>8 DEF AckArrives, IInv, HubInv
  <2>. QED
    BY <1>8, <2>1 DEF AckArrives, Promise!Confirm
<1>9. CASE UNCHANGED vars
  BY <1>9 DEF vars
<1>. QED
  BY <1>1, <1>2, <1>3, <1>4, <1>5, <1>6, <1>7, <1>8, <1>9 DEF Next, Device, HubSide

\* Device and hub keep the promises of a mailbox: no message is handed over
\* twice since a start, or once the hub knows that it was read, and the hub does
\* not believe what did not happen, for any bounds and any failures.
THEOREM DeliveryActsAsMailbox == Spec => ActsAsMailbox
<1>1. Init => Promise!Init
  BY DEF Init, Promise!Init
<1>2. IInv /\ [Next]_vars => [Promise!Next]_Promise!vars
  BY StepKeepsPromise
<1>. QED
  BY <1>1, <1>2, Invariant, PTL DEF Spec, Promise!Spec, ActsAsMailbox
=============================================================================
