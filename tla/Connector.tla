----------------------------- MODULE Connector -----------------------------
(***************************************************************************)
(* connector/connector.cpp and cso_connection/connection.cpp: the life of  *)
(* a connection to the hub.  Two tasks on two cores share the Connector    *)
(* and its Connection without a lock:                                      *)
(*   - the reconnect task runs Connector::loopReconnect and, inside it,    *)
(*     Connection::connect and Connection::loopListen;                     *)
(*   - the application task runs main.cpp's loop(): Connector::listen,     *)
(*     then Connector::sendMessage.                                        *)
(* Tasks that only call sendMessageAndRetry touch the retry queue, which   *)
(* Queue models; here they would be readers of isActivated and counter.    *)
(*                                                                         *)
(* Every write to a shared variable is a step, and so is every read whose  *)
(* value is used later.  Sessions are numbered: a                          *)
(* registration at the proxy yields ticket and secret key number n, and a  *)
(* socket has the number of the ticket it was opened with.  A message is a *)
(* kind, the key it is encrypted with and the socket it came by; framing   *)
(* and ciphers are not modelled here.  The WiFi, the TCP peer and the hub  *)
(* are the environment.                                                    *)
(***************************************************************************)
EXTENDS Integers, Sequences

CONSTANTS
  MaxTickets,     \* bound: registrations at the proxy
  QueueSize,      \* capacity of Connection::nextMessage
  MaxWire,        \* bound: messages in the socket's receive buffer
  HubKinds        \* kinds of the messages the hub passes on

Sessions == 1 .. MaxTickets
None == 0
DataKinds == {"oneway", "response", "request"}
Kinds == {"ready", "notReady"} \cup DataKinds
Message == [kind : Kinds, key : Sessions, sock : Sessions]

ASSUME ConnectorAssumption ==
  /\ MaxTickets \in Nat
  /\ QueueSize \in Nat \ {0}
  /\ MaxWire \in Nat \ {0}
  /\ HubKinds \subseteq DataKinds

VARIABLES
  \* Connection
  status, sock, inbox,            \* status, client, nextMessage
  \* Connector
  isActivated, isDisconnected, ticket, key, counter,
  \* control: the reconnect task; the application task with the message it
  \* handles or sends and where sendMessage returns to
  rc, app, msg, out, after,
  \* environment
  wifi, peerOpen, wire, hubSession,
  \* history
  starved,                        \* loopListen has returned for want of memory
  activatedBy,                    \* socket by which the last ready came
  lastKey                         \* key of the last message acted on, either way

connVars == <<status, sock, inbox>>
flagVars == <<isActivated, isDisconnected, counter>>
sessionVars == <<ticket, key>>
appVars == <<app, msg, out, after>>
envVars == <<wifi, peerOpen, wire, hubSession>>
history == <<starved, activatedBy, lastKey>>
vars == <<connVars, flagVars, sessionVars, rc, appVars, envVars, history>>

\* No message; a message to the hub that is not an activation.
Nothing == [kind |-> "none", key |-> None, sock |-> None]
Data == [kind |-> "data", ticket |-> None, key |-> None]

-----------------------------------------------------------------------------
(***************************************************************************)
(* The reconnect task: Connector::loopReconnect.                           *)
(***************************************************************************)
RcOnly(from, to) == rc = from /\ rc' = to

\* Line 55: WiFi.status() == WL_CONNECTED, otherwise wait.
RcWifi ==
  /\ RcOnly("wifi", "prepare")
  /\ wifi
  /\ UNCHANGED <<connVars, flagVars, sessionVars, appVars, envVars, history>>

\* prepare: exchangeKey and registerConnection, then the ticket is replaced.
Prepare ==
  /\ RcOnly("prepare", "setKey")
  /\ wifi
  /\ ticket < MaxTickets
  /\ ticket' = ticket + 1
  /\ UNCHANGED <<connVars, flagVars, key, appVars, envVars, history>>

PrepareFails ==
  /\ RcOnly("prepare", "wifi")
  /\ UNCHANGED <<connVars, flagVars, sessionVars, appVars, envVars, history>>

\* Mutant: the key is installed once, the way the counter is built once.
SetSecretKeyOnce ==
  /\ RcOnly("setKey", "connect")
  /\ key' = IF key = None THEN ticket ELSE key
  /\ UNCHANGED <<connVars, flagVars, ticket, appVars, envVars, history>>

SetSecretKey ==
  /\ RcOnly("setKey", "connect")
  /\ key' = ticket
  /\ UNCHANGED <<connVars, flagVars, ticket, appVars, envVars, history>>

\* Connection::connect with the status still Connected: Nil, no new socket.
ConnectKept ==
  /\ RcOnly("connect", "clearFlag")
  /\ status = "Connected"
  /\ UNCHANGED <<connVars, flagVars, sessionVars, appVars, envVars, history>>

\* client.connect succeeds: a new socket, the hub knows nothing of it yet.
Dial ==
  /\ RcOnly("connect", "setup")
  /\ status # "Connected"
  /\ wifi
  /\ sock' = ticket /\ peerOpen' = TRUE
  /\ wire' = <<>> /\ hubSession' = None
  /\ UNCHANGED <<status, inbox, flagVars, sessionVars, appVars, wifi, history>>

\* Both attempts of client.connect fail.
DialFails ==
  /\ RcOnly("connect", "wifi")
  /\ status # "Connected"
  /\ UNCHANGED <<connVars, flagVars, sessionVars, appVars, envVars, history>>

\* Mutant: the connection is tried again with the ticket it was refused with.
SetupFailsDialAgain ==
  /\ RcOnly("setup", "connect")
  /\ UNCHANGED <<connVars, flagVars, sessionVars, appVars, envVars, history>>

\* setup() fails: the socket stays open, the status is not Connected.
SetupFails ==
  /\ RcOnly("setup", "wifi")
  /\ UNCHANGED <<connVars, flagVars, sessionVars, appVars, envVars, history>>

SetConnected ==
  /\ RcOnly("setup", "clearFlag")
  /\ status' = "Connected"
  /\ UNCHANGED <<sock, inbox, flagVars, sessionVars, appVars, envVars, history>>

\* Line 80: isDisconnected.store(false).
ClearFlag ==
  /\ RcOnly("clearFlag", "alloc")
  /\ isDisconnected' = FALSE
  /\ UNCHANGED <<connVars, isActivated, counter, sessionVars, appVars, envVars, history>>

\* loopListen: the read buffer.
Alloc ==
  /\ RcOnly("alloc", "listening")
  /\ UNCHANGED <<connVars, flagVars, sessionVars, appVars, envVars, history>>

\* NotEnoughMemory leaves loopListen without closing anything, before or in
\* the loop; loopReconnect acts only on CSOConnection_Disconnected (line 84).
AllocFails ==
  /\ RcOnly("alloc", "wifi")
  /\ starved' = TRUE
  /\ UNCHANGED <<connVars, flagVars, sessionVars, appVars, envVars, activatedBy, lastKey>>

MessageAllocFails ==
  /\ RcOnly("reading", "wifi")
  /\ sock # None /\ wire # <<>>
  /\ wire' = Tail(wire)
  /\ starved' = TRUE
  /\ UNCHANGED <<connVars, flagVars, sessionVars, appVars, wifi, peerOpen, hubSession, activatedBy, lastKey>>

\* Line 52: the condition of the loop holds.
EnterTurn ==
  /\ RcOnly("listening", "reading")
  /\ wifi /\ status = "Connected"
  /\ UNCHANGED <<connVars, flagVars, sessionVars, appVars, envVars, history>>

NothingToRead ==
  /\ RcOnly("reading", "listening")
  /\ sock = None \/ wire = <<>>
  /\ UNCHANGED <<connVars, flagVars, sessionVars, appVars, envVars, history>>

\* A complete message is pushed; when the queue is full it is lost.
Receive ==
  /\ RcOnly("reading", "listening")
  /\ sock # None /\ wire # <<>>
  /\ wire' = Tail(wire)
  /\ inbox' = IF Len(inbox) < QueueSize THEN Append(inbox, Head(wire)) ELSE inbox
  /\ UNCHANGED <<status, sock, flagVars, sessionVars, appVars, wifi, peerOpen, hubSession, history>>

\* Mutant: only the WiFi ends the loop.
LeaveLoopOnWifi ==
  /\ RcOnly("listening", "stop")
  /\ ~wifi
  /\ UNCHANGED <<connVars, flagVars, sessionVars, appVars, envVars, history>>

LeaveLoop ==
  /\ RcOnly("listening", "stop")
  /\ ~wifi \/ status # "Connected"
  /\ UNCHANGED <<connVars, flagVars, sessionVars, appVars, envVars, history>>

\* Mutant: the handle is dropped but the connection stays open.
CloseSocketLeaks == sock' = None /\ UNCHANGED <<peerOpen, wire, hubSession>>

\* client.stop(): what was received and not read is gone.
CloseSocket == sock' = None /\ peerOpen' = FALSE /\ wire' = <<>> /\ hubSession' = None

Stop ==
  /\ RcOnly("stop", "markDown")
  /\ CloseSocket
  /\ UNCHANGED <<status, inbox, flagVars, sessionVars, appVars, wifi, history>>

MarkDown ==
  /\ RcOnly("markDown", "deactivate")
  /\ status' = "Disconnected"
  /\ UNCHANGED <<sock, inbox, flagVars, sessionVars, appVars, envVars, history>>

\* Lines 85 and 86.
Deactivate ==
  /\ RcOnly("deactivate", "setFlag")
  /\ isActivated' = FALSE
  /\ UNCHANGED <<connVars, isDisconnected, counter, sessionVars, appVars, envVars, history>>

SetFlag ==
  /\ RcOnly("setFlag", "wifi")
  /\ isDisconnected' = TRUE
  /\ UNCHANGED <<connVars, isActivated, counter, sessionVars, appVars, envVars, history>>

-----------------------------------------------------------------------------
(***************************************************************************)
(* The application task: Connector::listen.                                *)
(***************************************************************************)
AppOnly(from, to) == app = from /\ app' = to

\* getMessage: nextMessage.pop().
GetMessage ==
  /\ AppOnly("listen", "parse")
  /\ inbox # <<>>
  /\ msg' = Head(inbox) /\ inbox' = Tail(inbox)
  /\ UNCHANGED <<status, sock, flagVars, sessionVars, rc, out, after, envVars, history>>

GetNothing ==
  /\ AppOnly("listen", "check")
  /\ inbox = <<>>
  /\ UNCHANGED <<connVars, flagVars, sessionVars, rc, msg, out, after, envVars, history>>

\* Mutant: a message is taken whatever key it is encrypted with.
ParseAny ==
  /\ AppOnly("parse", IF msg.kind = "ready" THEN "activate"
                      ELSE IF msg.kind \in DataKinds THEN "dispatch" ELSE "send")
  /\ UNCHANGED <<connVars, flagVars, sessionVars, rc, msg, out, after, envVars, history>>

\* parseReceivedMessage, validation or decryption with the present key, and
\* the first dispatch.  Returns, when the message is no good, to loop().
Parse ==
  /\ AppOnly("parse", CASE msg.key = key /\ msg.kind = "ready" -> "activate"
                        [] msg.key = key /\ msg.kind \in DataKinds -> "dispatch"
                        [] OTHER -> "send")
  /\ UNCHANGED <<connVars, flagVars, sessionVars, rc, msg, out, after, envVars, history>>

\* Line 109.
Activate ==
  /\ AppOnly("activate", "buildCounter")
  /\ isActivated' = TRUE
  /\ activatedBy' = msg.sock
  /\ lastKey' = msg.key
  /\ UNCHANGED starved
  /\ UNCHANGED <<connVars, isDisconnected, counter, sessionVars, rc, msg, out, after, envVars>>

\* Mutant: Counter::build with new (std::nothrow), as the rest of the code has it.
BuildCounterNothrow ==
  /\ AppOnly("buildCounter", "send")
  /\ counter' \in {counter, IF counter = None THEN msg.key ELSE counter}
  /\ UNCHANGED <<connVars, isActivated, isDisconnected, sessionVars, rc, msg, out, after, envVars, history>>

\* Lines 110 to 115: once, from the first ready ticket ever received.
BuildCounter ==
  /\ AppOnly("buildCounter", "send")
  /\ counter' = IF counter = None THEN msg.key ELSE counter
  /\ UNCHANGED <<connVars, isActivated, isDisconnected, sessionVars, rc, msg, out, after, envVars, history>>

\* Lines 119 to 148.  A request with an id whose callback succeeds, or that was
\* read before, is acknowledged.
Accept == lastKey' = msg.key

Dispatch ==
  /\ app = "dispatch"
  /\ \/ /\ ~isActivated
        /\ app' = "send"
        /\ UNCHANGED <<out, after, lastKey>>
     \/ /\ isActivated          \* no id, a response, or cb fails
        /\ app' = "send"
        /\ Accept
        /\ UNCHANGED <<out, after>>
     \/ /\ isActivated /\ msg.kind = "request"
        /\ app' = "sCheck" /\ after' = "check"
        /\ out' = Data
        /\ lastKey' \in {lastKey, msg.key}            \* read before; cb succeeds
  /\ UNCHANGED <<connVars, flagVars, sessionVars, rc, msg, envVars, starved, activatedBy>>

\* Line 169.
CheckDisconnected ==
  /\ app = "check"
  /\ app' = IF isDisconnected THEN "send" ELSE "decide"
  /\ UNCHANGED <<connVars, flagVars, sessionVars, rc, msg, out, after, envVars, history>>

\* Line 174, three seconds or more since the last attempt: the arguments of
\* activateConnection read the ticket.
StartActivation ==
  /\ AppOnly("decide", "buildActive")
  /\ ~isActivated
  /\ out' = [kind |-> "activation", ticket |-> ticket, key |-> None]
  /\ UNCHANGED <<connVars, flagVars, sessionVars, rc, msg, after, envVars, history>>

\* buildActiveMessage reads the key.
BuildActive ==
  /\ AppOnly("buildActive", "sCheck")
  /\ out' = [out EXCEPT !.key = key]
  /\ after' = "send"
  /\ lastKey' = key
  /\ UNCHANGED <<connVars, flagVars, sessionVars, rc, msg, envVars, starved, activatedBy>>

\* Line 188: a message of the retry queue is due.
SendQueued ==
  /\ AppOnly("decide", "sCheck")
  /\ isActivated
  /\ out' = Data
  /\ after' = "send"
  /\ UNCHANGED <<connVars, flagVars, sessionVars, rc, msg, envVars, history>>

\* Neither timer has elapsed, or the queue has nothing due.
NothingDue ==
  /\ AppOnly("decide", "send")
  /\ UNCHANGED <<connVars, flagVars, sessionVars, rc, msg, out, after, envVars, history>>

\* loop() after listen: doSendMessageNotRetry.
SendMessage ==
  /\ app = "send"
  /\ IF isActivated
     THEN /\ app' = "sCheck" /\ after' = "listen"
          /\ out' = Data
     ELSE app' = "listen" /\ UNCHANGED <<out, after>>
  /\ UNCHANGED <<connVars, flagVars, sessionVars, rc, msg, envVars, history>>

-----------------------------------------------------------------------------
(***************************************************************************)
(* The application task: Connection::sendMessage.                          *)
(***************************************************************************)
\* Line 115.  When memory is short the message is given up (line 125).
SendCheck ==
  /\ app = "sCheck"
  /\ app' \in IF wifi /\ status = "Connected"
              THEN {"sWrite", after}
              ELSE {"sDown"}
  /\ UNCHANGED <<connVars, flagVars, sessionVars, rc, msg, out, after, envVars, history>>

\* Line 116, a step after the check.
SendDown ==
  /\ AppOnly("sDown", after)
  /\ status' = "Disconnected"
  /\ UNCHANGED <<sock, inbox, flagVars, sessionVars, rc, msg, out, after, envVars, history>>

\* The hub takes an activation message when ticket and key belong together,
\* and answers; anything else it ignores.  A write to a dead peer may succeed.
HubAnswers ==
  \/ UNCHANGED <<wire, hubSession>>
  \/ /\ peerOpen /\ wifi /\ Len(wire) < MaxWire
     /\ out.kind = "activation" /\ out.ticket = out.key
     /\ \E answer \in {"ready", "notReady"} :
          /\ wire' = Append(wire, [kind |-> answer, key |-> out.key, sock |-> sock])
          /\ hubSession' = IF answer = "ready" THEN out.key ELSE hubSession

Write ==
  /\ AppOnly("sWrite", after)
  /\ sock # None
  /\ HubAnswers
  /\ UNCHANGED <<connVars, flagVars, sessionVars, rc, msg, out, after, wifi, peerOpen, history>>

\* client.write returns 0; on a closed client it always does.
WriteFails ==
  /\ AppOnly("sWrite", "sStop")
  /\ UNCHANGED <<connVars, flagVars, sessionVars, rc, msg, out, after, envVars, history>>

\* Lines 137 and 138: by now it may be another socket.
SendStop ==
  /\ AppOnly("sStop", "sMark")
  /\ CloseSocket
  /\ UNCHANGED <<status, inbox, flagVars, sessionVars, rc, msg, out, after, wifi, history>>

\* Mutant: a failed write closes the socket but not the status.
SendMarkForgotten ==
  /\ AppOnly("sMark", after)
  /\ UNCHANGED <<connVars, flagVars, sessionVars, rc, msg, out, after, envVars, history>>

SendMark ==
  /\ AppOnly("sMark", after)
  /\ status' = "Disconnected"
  /\ UNCHANGED <<sock, inbox, flagVars, sessionVars, rc, msg, out, after, envVars, history>>

-----------------------------------------------------------------------------
(***************************************************************************)
(* The environment.                                                        *)
(***************************************************************************)
WifiChanges ==
  /\ wifi' = ~wifi
  /\ UNCHANGED <<connVars, flagVars, sessionVars, rc, appVars, peerOpen, wire, hubSession, history>>

\* The peer goes away; what it sent before can still be read.
PeerCloses ==
  /\ peerOpen
  /\ peerOpen' = FALSE /\ hubSession' = None
  /\ UNCHANGED <<connVars, flagVars, sessionVars, rc, appVars, wifi, wire, history>>

\* The hub passes messages on to a connection it has activated.
HubSends(kind) ==
  /\ peerOpen /\ wifi /\ hubSession # None
  /\ Len(wire) < MaxWire
  /\ wire' = Append(wire, [kind |-> kind, key |-> hubSession, sock |-> sock])
  /\ UNCHANGED <<connVars, flagVars, sessionVars, rc, appVars, wifi, peerOpen, hubSession, history>>

-----------------------------------------------------------------------------
Init ==
  /\ status = "Prepare" /\ sock = None /\ inbox = <<>>
  /\ isActivated = FALSE /\ isDisconnected = TRUE
  /\ ticket = None /\ key = None /\ counter = None
  /\ rc = "wifi"
  /\ app = "listen" /\ msg = Nothing /\ after = "listen"
  /\ out = Data
  /\ wifi = TRUE
  /\ peerOpen = FALSE /\ wire = <<>> /\ hubSession = None
  /\ starved = FALSE /\ activatedBy = None /\ lastKey = None

Reconnect == \/ RcWifi \/ Prepare \/ PrepareFails \/ SetSecretKey
             \/ ConnectKept \/ Dial \/ DialFails \/ SetupFails \/ SetConnected
             \/ ClearFlag \/ Alloc \/ AllocFails \/ MessageAllocFails
             \/ EnterTurn \/ NothingToRead \/ Receive \/ LeaveLoop \/ Stop \/ MarkDown \/ Deactivate \/ SetFlag

Listen == \/ GetMessage \/ GetNothing \/ Parse \/ Activate \/ BuildCounter
          \/ Dispatch \/ CheckDisconnected \/ StartActivation \/ BuildActive
          \/ SendQueued \/ NothingDue

Send == SendCheck \/ SendDown \/ Write \/ WriteFails \/ SendStop \/ SendMark

Application == Listen \/ SendMessage \/ Send

Environment == WifiChanges \/ PeerCloses \/ \E k \in HubKinds : HubSends(k)

Next == \/ Reconnect
        \/ Application
        \/ Environment

Spec == Init /\ [][Next]_vars

\* Both tasks are scheduled for ever.  The activation timer does elapse again
\* and again, memory for a message is found again and again, and a peer that is
\* gone makes some write fail in the end.
Fairness ==
  /\ WF_vars(Reconnect)
  /\ WF_vars(Application)
  /\ SF_vars(StartActivation)
  /\ SF_vars(SendCheck /\ app' # after)
  /\ SF_vars(WriteFails /\ ~peerOpen)
FairSpec == Spec /\ Fairness

-----------------------------------------------------------------------------
TypeOK ==
  /\ status \in {"Prepare", "Connected", "Disconnected"}
  /\ sock \in Sessions \cup {None}
  /\ inbox \in Seq(Message)
  /\ isActivated \in BOOLEAN /\ isDisconnected \in BOOLEAN
  /\ ticket \in Sessions \cup {None}
  /\ key \in Sessions \cup {None}
  /\ counter \in Sessions \cup {None}
  /\ rc \in {"wifi", "prepare", "setKey", "connect", "setup", "clearFlag", "alloc",
             "listening", "reading", "stop", "markDown", "deactivate", "setFlag"}
  /\ app \in {"listen", "parse", "activate", "buildCounter", "dispatch", "check",
              "decide", "buildActive", "send", "sCheck", "sDown", "sWrite", "sStop", "sMark"}
  /\ msg \in Message \cup {Nothing}
  /\ out \in [kind : {"activation", "data"}, ticket : Sessions \cup {None},
              key : Sessions \cup {None}]
  /\ after \in {"check", "send", "listen"}
  /\ wifi \in BOOLEAN /\ peerOpen \in BOOLEAN
  /\ wire \in Seq(Message)
  /\ hubSession \in Sessions \cup {None}
  /\ starved \in BOOLEAN
  /\ activatedBy \in Sessions \cup {None}
  /\ lastKey \in Sessions \cup {None}

Listening == rc \in {"listening", "reading"}

\* While the reconnect task is in a connection, the parser's key is the key of
\* the session the open socket was made for (connector.cpp:67-72); until a first
\* allocation fails in loopListen, which leaves the socket open for the next key.
KeyFitsSocket ==
  ~starved /\ (Listening \/ rc \in {"clearFlag", "alloc"}) => sock \in {None, key}

\* A connection counts as activated only if the hub said so by that connection
\* (connector.cpp:103 and 173, "activate the connection").
ActivatedByThisConnection ==
  Listening /\ sock # None /\ isActivated => activatedBy = sock

\* Outside the two statements of an activation (connector.cpp:109 publishes the
\* flag before line 111 builds the counter), whoever sees the flag finds a
\* counter: listen itself never calls markReadDone on a null pointer (line 143),
\* however sessions end and start in between, and another task can do so only
\* during the very first activation.
CounterBuilt == isActivated /\ app # "buildCounter" => counter # None

\* A connection that is given up by either task is torn down.
LossEndsListening ==
  (Listening /\ status # "Connected") ~> ~Listening

\* A socket that is closed or whose peer is gone is noticed in the end, also
\* when the late stop() of a send has closed a socket just opened.
DeadSocketNoticed ==
  (Listening /\ ~peerOpen) ~> ~Listening

\* A ticket waits for its connection between prepare and the end of dialling.
Held == INSTANCE Session WITH
          registered <- ticket, installed <- key, line <- sock, acted <- lastKey,
          fresh <- rc \in {"setKey", "connect"}

\* The tasks keep what Session promises, also when memory fails and a send that
\* fails late closes another connection than its own: no ticket serves two
\* connections, none is dialled with the key of another registration, and no
\* message is acted on for a session whose key was not installed yet, nor for one
\* earlier than the last session acted for
\* (connector.cpp:60-90, connection.cpp:20-37, 103-105 and 137).
ActsAsSession == Held!Spec

\* In particular: once the client has begun to activate a session, or has acted on a
\* message of it, it acts on no message of an earlier one: no late ready ticket activates,
\* no late data reaches the callback or the queue, however long it waited in the
\* receive queue while the key was replaced (connector.cpp:68, 94-148, 174-185).
SessionsInOrder == [][lastKey' >= lastKey]_vars
=============================================================================
