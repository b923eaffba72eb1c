------------------------------ MODULE Delivery ------------------------------
(***************************************************************************)
(* The reliable messages from the hub to the callback, through sessions,   *)
(* restarts and a receive queue that drops what it cannot hold.            *)
(*                                                                         *)
(* Parts of three components meet here: the reconnect task and listen of   *)
(* Connector (sessions, activation, handling of a message), the window of  *)
(* Counter, built from the first ready ticket and kept until a restart,    *)
(* and the receive queue of Connection.  Connector, Counter and Connection *)
(* have the finer steps of each.                                           *)
(*                                                                         *)
(* The hub is not part of the repository.  The one assumed here repeats a  *)
(* message until it is acknowledged, starts a window when every message of *)
(* the one before is acknowledged, and answers an activation with what it  *)
(* knows then.  A frame on its way is one the hub has not sent yet or one  *)
(* that waits in the receive queue.                                        *)
(***************************************************************************)
EXTENDS Window, Sequences

CONSTANTS
  InboxSize,    \* capacity of the receive queue
  MaxMessages,  \* bound: messages given to the hub
  MaxSessions,  \* bound: connections; the last one lasts
  MaxBoots      \* bound: starts of the device

ASSUME DeliveryAssumption ==
  /\ InboxSize \in Nat \ {0}
  /\ MaxMessages \in Nat /\ MaxSessions \in Nat /\ MaxBoots \in Nat \ {0}
  /\ MaxMessages + 2 * NumberBits < IndexSpace  \* tags stay far from 2^64

VARIABLES
  built,        \* counter # nullptr
  session,      \* the session whose key the parser has
  listening,    \* the reconnect task is in loopListen
  online,       \* the socket is connected
  activated,    \* isActivated
  inbox,        \* the receive queue
  boots,
  \* the hub and what is on its way to it
  asked,        \* an activation message
  acks,         \* acknowledgements
  serving,      \* the hub answered the activation of this session
  hubMin,       \* start of the hub's window
  accepted, confirmed,
  \* history
  handed, everHanded,  \* message -> calls of the callback since the start; those ever handed
  mistaken      \* activated by the answer of a connection that was left

window == <<built, minReadIndex, maskReadBits>>
hub == <<serving, hubMin, accepted, confirmed>>
history == <<handed, everHanded, mistaken>>
vars == <<window, session, listening, online, activated, inbox, boots, asked, acks, hub, history>>

Tags == 0 .. MaxMessages - 1
Ready(min, mask) == [kind |-> "ready", session |-> session, min |-> min, mask |-> mask]
Data(t) == [kind |-> "data", session |-> session, tag |-> t]

\* Mutant: a message that finds the queue full is stored all the same.
StoredAlways(m) == Append(inbox, m)

\* The receive queue after a push: nobody hears of a message that was dropped.
Stored(m) == IF Len(inbox) < InboxSize THEN Append(inbox, m) ELSE inbox

-----------------------------------------------------------------------------
(***************************************************************************)
(* Sessions.                                                               *)
(***************************************************************************)
\* prepare, setSecretKey, connect, isDisconnected.store(false).  The hub drops
\* what is left of the connection before.
Register ==
  /\ ~listening /\ session < MaxSessions
  /\ session' = session + 1
  /\ listening' = TRUE /\ online' = TRUE
  /\ serving' = FALSE /\ asked' = FALSE /\ acks' = {}
  /\ UNCHANGED <<window, activated, inbox, boots, hubMin, accepted, confirmed, history>>

SessionEnds ==
  /\ online /\ session < MaxSessions
  /\ online' = FALSE
  /\ UNCHANGED <<window, session, listening, activated, inbox, boots, asked, acks, hub, history>>

\* Mutant: the device stays activated.
LeaveActivated ==
  /\ listening /\ ~online
  /\ listening' = FALSE
  /\ UNCHANGED <<window, session, online, activated, inbox, boots, asked, acks, hub, history>>

\* loopListen returned: isActivated.store(false).
LeaveSession ==
  /\ listening /\ ~online
  /\ listening' = FALSE /\ activated' = FALSE
  /\ UNCHANGED <<window, session, online, inbox, boots, asked, acks, hub, history>>

\* Everything the device knows is in memory.
Restart ==
  /\ boots < MaxBoots /\ session < MaxSessions
  /\ boots' = boots + 1
  /\ built' = FALSE /\ minReadIndex' = 0 /\ maskReadBits' = {}
  /\ listening' = FALSE /\ online' = FALSE /\ activated' = FALSE
  /\ inbox' = <<>>
  /\ handed' = [t \in Tags |-> 0] /\ mistaken' = FALSE
  /\ UNCHANGED <<session, asked, acks, hub, everHanded>>

-----------------------------------------------------------------------------
(***************************************************************************)
(* Connector::listen                                                       *)
(***************************************************************************)
\* Every 3 seconds while it is not activated.
Ask ==
  /\ listening /\ online /\ ~activated
  /\ asked' = TRUE
  /\ UNCHANGED <<window, session, listening, online, activated, inbox, boots, acks, hub, history>>

Take == inbox # <<>> /\ inbox' = Tail(inbox)

\* The parser has another key, or messages are not taken yet.
Discard ==
  /\ Take
  /\ LET m == Head(inbox) IN m.session # session \/ (m.kind = "data" /\ ~activated)
  /\ UNCHANGED <<window, session, listening, online, activated, boots, asked, acks, hub, history>>

\* Mutant: every ready ticket replaces the counter.
BuildAlways(m) ==
  built' = TRUE /\ minReadIndex' = m.min /\ maskReadBits' = m.mask

\* "if (counter == nullptr)": the counter of an earlier session is kept.
Build(m) ==
  IF built
  THEN UNCHANGED window
  ELSE built' = TRUE /\ minReadIndex' = m.min /\ maskReadBits' = m.mask

TakeReady ==
  /\ Take
  /\ LET m == Head(inbox) IN m.session = session /\ m.kind = "ready" /\ Build(m)
  /\ activated' = TRUE
  /\ mistaken' = (mistaken \/ ~listening)
  /\ UNCHANGED <<session, listening, online, boots, asked, acks, hub, handed, everHanded>>

\* A message that listen looks at.
Receive(t) ==
  /\ activated
  /\ Take /\ Head(inbox) = Data(t)
  /\ UNCHANGED <<built, session, listening, online, activated, boots, asked, hub, mistaken>>

\* The acknowledgement cannot be built, or the socket is closed.
AckLost == UNCHANGED acks
AckSent(t) == online /\ acks' = acks \cup {t}

\* The message is new and the callback returns Nil.
Deliver(t) ==
  /\ Receive(t)
  /\ \E w \in MarkReadDone(t) :
       w.done /\ minReadIndex' = w.min /\ maskReadBits' = w.mask
  /\ handed' = [handed EXCEPT ![t] = @ + 1] /\ everHanded' = everHanded \cup {t}

\* The message is new and the callback fails.
Reject(t) ==
  /\ Receive(t)
  /\ \E w \in MarkReadDone(t) :
       w.done /\ minReadIndex' = w.min /\ maskReadBits' = MarkReadUnused(t, w)
  /\ UNCHANGED <<acks, handed, everHanded>>

\* The message was read before.
Refuse(t) ==
  /\ Receive(t)
  /\ \E w \in MarkReadDone(t) :
       ~w.done /\ minReadIndex' = w.min /\ maskReadBits' = w.mask
  /\ UNCHANGED <<handed, everHanded>>

Answered(t) == (Deliver(t) \/ Refuse(t)) /\ AckSent(t)
Unanswered(t) == (Deliver(t) \/ Refuse(t)) /\ AckLost

-----------------------------------------------------------------------------
(***************************************************************************)
(* The hub.                                                                *)
(***************************************************************************)
HubAccepts ==
  /\ accepted < MaxMessages
  /\ accepted' = accepted + 1
  /\ UNCHANGED <<window, session, listening, online, activated, inbox, boots, asked, acks,
                 serving, hubMin, confirmed, history>>

HubSlides ==
  /\ \A t \in hubMin .. hubMin + NumberBits - 1 : t \in confirmed
  /\ hubMin' = hubMin + NumberBits
  /\ UNCHANGED <<window, session, listening, online, activated, inbox, boots, asked, acks,
                 serving, accepted, confirmed, history>>

\* The answer to an activation: a ready ticket.
Answer ==
  /\ online /\ asked
  /\ asked' = FALSE /\ serving' = TRUE
  /\ inbox' = Stored(Ready(hubMin, {d \in Positions : hubMin + d \in confirmed}))
  /\ UNCHANGED <<window, session, listening, online, activated, boots, acks,
                 hubMin, accepted, confirmed, history>>

HubSends(t) ==
  /\ online /\ serving
  /\ t < accepted /\ t < hubMin + NumberBits /\ t \notin confirmed
  /\ inbox' = Stored(Data(t))
  /\ UNCHANGED <<window, session, listening, online, activated, boots, asked, acks, hub, history>>

AckArrives(t) ==
  /\ t \in acks
  /\ acks' = acks \ {t}
  /\ confirmed' = confirmed \cup {t}
  /\ UNCHANGED <<window, session, listening, online, activated, inbox, boots, asked,
                 serving, hubMin, accepted, history>>

-----------------------------------------------------------------------------
Init ==
  /\ built = FALSE /\ minReadIndex = 0 /\ maskReadBits = {}
  /\ session = 0 /\ listening = FALSE /\ online = FALSE /\ activated = FALSE
  /\ inbox = <<>> /\ boots = 1
  /\ asked = FALSE /\ acks = {} /\ serving = FALSE
  /\ hubMin = 0 /\ accepted = 0 /\ confirmed = {}
  /\ handed = [t \in Tags |-> 0] /\ everHanded = {} /\ mistaken = FALSE

Device ==
  \/ Register \/ LeaveSession \/ Restart \/ Ask \/ Discard \/ TakeReady
  \/ \E t \in Tags : Answered(t) \/ Unanswered(t) \/ Reject(t)

HubSide ==
  \/ HubAccepts \/ HubSlides \/ Answer
  \/ \E t \in Tags : HubSends(t) \/ AckArrives(t)

Next == Device \/ HubSide \/ SessionEnds
Spec == Init /\ [][Next]_vars

\* Both tasks of the device go on.  The hub goes on and repeats; its answer and
\* any message find room in the queue, a callback succeeds and an
\* acknowledgement gets out, each when it is tried again and again.
HasRoom == Len(inbox) < InboxSize
Fairness ==
  /\ WF_vars(Register) /\ WF_vars(LeaveSession) /\ WF_vars(Ask)
  /\ WF_vars(Discard \/ TakeReady \/ \E t \in Tags : Answered(t) \/ Unanswered(t) \/ Reject(t))
  /\ WF_vars(HubSlides) /\ WF_vars(Answer)
  /\ []<><<Answer>>_vars => []<><<Answer /\ HasRoom>>_vars
  /\ \A t \in Tags :
       SF_vars(HubSends(t) /\ HasRoom) /\ SF_vars(Answered(t)) /\ WF_vars(AckArrives(t))
FairSpec == Spec /\ Fairness

-----------------------------------------------------------------------------
Messages ==
  [kind : {"data"}, session : 1 .. MaxSessions, tag : Tags]
    \cup [kind : {"ready"}, session : 1 .. MaxSessions, min : Nat, mask : SUBSET Positions]

TypeOK ==
  /\ built \in BOOLEAN /\ minReadIndex \in Indices /\ maskReadBits \subseteq Positions
  /\ session \in 0 .. MaxSessions
  /\ listening \in BOOLEAN /\ online \in BOOLEAN /\ activated \in BOOLEAN
  /\ inbox \in Seq(Messages)
  /\ Len(inbox) <= InboxSize
  /\ boots \in 1 .. MaxBoots
  /\ asked \in BOOLEAN /\ acks \subseteq Tags /\ serving \in BOOLEAN
  /\ hubMin \in Nat /\ accepted \in 0 .. MaxMessages /\ confirmed \subseteq Tags
  /\ handed \in [Tags -> Nat] /\ everHanded \subseteq Tags
  /\ mistaken \in BOOLEAN

\* The tags that the device takes for read.
Read == {t \in Tags : t < minReadIndex \/ t - minReadIndex \in maskReadBits}

\* However sessions end, messages are dropped and the counter of the first
\* ready ticket is kept over later ones (connector.cpp:110): the window says of
\* exactly the messages that were handed over since the start, or confirmed,
\* that they were read.
WindowKnows == built => Read = {t \in Tags : handed[t] > 0} \cup confirmed

Promise == INSTANCE Mailbox

\* Device and hub together keep the promises of a mailbox, through restarts and
\* repetitions.
ActsAsMailbox == Promise!Spec

\* Every message given to the hub is handed over and the hub gets to know, when
\* connections last long enough in the end; not when the device takes itself for
\* activated by the answer of a connection that it has left: then it never asks
\* for the activation of the next one (connector.cpp:174).
EventuallyDelivered ==
  \A t \in Tags : t < accepted ~> t \in everHanded \cap confirmed \/ mistaken
=============================================================================
