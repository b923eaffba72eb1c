-------------------------- MODULE Connector_proofs --------------------------
(***************************************************************************)
(* Proofs about Connector, for any number of sessions, any queue and any   *)
(* messages from the hub.                                                  *)
(***************************************************************************)
EXTENDS Connector, TLAPS

(***************************************************************************)
(* The sessions as numbers.  Only the reconnect task advances ticket and   *)
(* key, and a message that passed Parse has a key not newer than the       *)
(* parser's and not older than the last one acted on.                      *)
(***************************************************************************)
OrderInv ==
  /\ ticket \in Nat /\ key \in Nat /\ lastKey \in Nat
  /\ key <= ticket
  /\ lastKey <= key
  /\ after \notin {"dispatch", "activate"}
  /\ app \in {"dispatch", "activate"} => msg.key \in Nat /\ lastKey <= msg.key /\ msg.key <= key

LEMMA InitOrderInv == Init => OrderInv
BY DEF Init, OrderInv, None

\* The steps that leave everything in OrderInv alone.
LEMMA OrderInvFrame ==
  OrderInv /\ UNCHANGED <<ticket, key, lastKey, app, msg, after>> => OrderInv'
BY DEF OrderInv

LEMMA ReconnectOrderInv == OrderInv /\ Reconnect => OrderInv'
<1> SUFFICES ASSUME OrderInv, Reconnect PROVE OrderInv'
  OBVIOUS
<1>1. CASE Prepare
  BY <1>1 DEF Prepare, OrderInv, appVars, history
<1>2. CASE SetSecretKey
  BY <1>2 DEF SetSecretKey, OrderInv, appVars, history
<1>3. CASE ~Prepare /\ ~SetSecretKey
  <2>1. UNCHANGED <<ticket, key, lastKey, app, msg, after>>
    BY <1>3 DEF Reconnect, RcWifi, PrepareFails, ConnectKept, Dial, DialFails, SetupFails,
       SetConnected, ClearFlag, Alloc, AllocFails, MessageAllocFails, EnterTurn,
       NothingToRead, Receive, LeaveLoop, Stop, MarkDown, Deactivate, SetFlag,
       sessionVars, appVars, history
  <2> QED
    BY <2>1, OrderInvFrame
<1> QED
  BY <1>1, <1>2, <1>3

LEMMA ApplicationOrderInv == OrderInv /\ Application => OrderInv'
<1> SUFFICES ASSUME OrderInv, Application PROVE OrderInv'
  OBVIOUS
<1>1. CASE Parse
  <2>1. UNCHANGED <<ticket, key, lastKey, msg, after>>
    BY <1>1 DEF Parse, sessionVars, history
  <2>2. app' \in {"dispatch", "activate"} => msg.key = key
    BY <1>1 DEF Parse, AppOnly
  <2> QED
    BY <2>1, <2>2 DEF OrderInv
<1>2. CASE Dispatch
  <2>1. UNCHANGED <<ticket, key, msg>> /\ app' \in {"send", "sCheck"} /\ after' \in {after, "check"}
    BY <1>2 DEF Dispatch, sessionVars
  <2>2. app = "dispatch" /\ (lastKey' = lastKey \/ lastKey' = msg.key)
    BY <1>2 DEF Dispatch, Accept
  <2> QED
    BY <2>1, <2>2 DEF OrderInv
<1>3. CASE Activate
  BY <1>3 DEF Activate, AppOnly, OrderInv, sessionVars
<1>4. CASE BuildActive
  BY <1>4 DEF BuildActive, AppOnly, OrderInv, sessionVars
<1>5. CASE ~Parse /\ ~Dispatch /\ ~Activate /\ ~BuildActive
  <2>1. /\ UNCHANGED <<ticket, key, lastKey>>
        /\ app' \notin {"dispatch", "activate"} /\ after' \in {after, "send", "listen"}
    <3>1. CASE Listen
      BY <1>5, <3>1 DEF Listen, GetMessage, GetNothing, BuildCounter,
         CheckDisconnected, StartActivation, SendQueued, NothingDue,
         AppOnly, sessionVars, history
    <3>2. CASE SendMessage
      BY <3>2 DEF SendMessage, sessionVars, history
    <3>3. CASE Send
      <4>1. UNCHANGED <<ticket, key, lastKey, after>>
        BY <3>3 DEF Send, SendCheck, SendDown, Write, WriteFails, SendStop, SendMark,
           sessionVars, history
      <4>2. app' \in {after, "sWrite", "sDown", "sStop", "sMark"}
        BY <3>3 DEF Send, SendCheck, SendDown, Write, WriteFails, SendStop, SendMark, AppOnly
      <4> QED
        BY <4>1, <4>2 DEF OrderInv
    <3> QED
      BY <3>1, <3>2, <3>3 DEF Application
  <2> QED
    BY <2>1 DEF OrderInv
<1> QED
  BY <1>1, <1>2, <1>3, <1>4, <1>5

\* The environment touches none of it.
LEMMA EnvironmentFrame ==
  Environment \/ UNCHANGED vars
    => UNCHANGED <<ticket, key, lastKey, app, msg, after, rc, status, sock, starved>>
BY DEF Environment, WifiChanges, PeerCloses, HubSends,
   vars, connVars, sessionVars, appVars, history

LEMMA StepOrderInv == OrderInv /\ [Next]_vars => OrderInv'
BY ReconnectOrderInv, ApplicationOrderInv, EnvironmentFrame, OrderInvFrame DEF Next

-----------------------------------------------------------------------------
(***************************************************************************)
(* The key and the socket.  Connected is the status only while the         *)
(* reconnect task is in a connection it opened with the present key; this  *)
(* is what makes the early return of Connection::connect unreachable, as   *)
(* long as memory suffices.                                                *)
(***************************************************************************)
InConnection == {"clearFlag", "alloc", "listening", "reading"}

KeyInv == ~starved =>
  /\ status = "Connected" => rc \in InConnection \cup {"stop", "markDown"}
  /\ rc \in {"connect", "setup"} => key = ticket
  /\ rc \in InConnection \cup {"setup"} => sock \in {None, key}

LEMMA InitKeyInv == Init => KeyInv
BY DEF Init, KeyInv, InConnection

LEMMA ReconnectKeyInv ==
  ASSUME KeyInv, Reconnect PROVE KeyInv'
<1> USE DEF KeyInv, InConnection, RcOnly, connVars, sessionVars, history
<1>1. CASE RcWifi BY <1>1 DEF RcWifi
<1>2. CASE Prepare BY <1>2 DEF Prepare
<1>3. CASE PrepareFails BY <1>3 DEF PrepareFails
<1>4. CASE SetSecretKey BY <1>4 DEF SetSecretKey
<1>5. CASE ConnectKept BY <1>5 DEF ConnectKept
<1>6. CASE Dial BY <1>6 DEF Dial
<1>7. CASE DialFails BY <1>7 DEF DialFails
<1>8. CASE SetupFails BY <1>8 DEF SetupFails
<1>9. CASE SetConnected BY <1>9 DEF SetConnected
<1>10. CASE ClearFlag BY <1>10 DEF ClearFlag
<1>11. CASE Alloc BY <1>11 DEF Alloc
<1>12. CASE AllocFails \/ MessageAllocFails BY <1>12 DEF AllocFails, MessageAllocFails
<1>13. CASE EnterTurn BY <1>13 DEF EnterTurn
<1>14. CASE NothingToRead BY <1>14 DEF NothingToRead
<1>15. CASE Receive BY <1>15 DEF Receive
<1>16. CASE LeaveLoop BY <1>16 DEF LeaveLoop
<1>17. CASE Stop BY <1>17 DEF Stop, CloseSocket
<1>18. CASE MarkDown BY <1>18 DEF MarkDown
<1>19. CASE Deactivate BY <1>19 DEF Deactivate
<1>20. CASE SetFlag BY <1>20 DEF SetFlag
<1> QED
  BY <1>1, <1>2, <1>3, <1>4, <1>5, <1>6, <1>7, <1>8, <1>9, <1>10, <1>11, <1>12, <1>13,
     <1>14, <1>15, <1>16, <1>17, <1>18, <1>19, <1>20 DEF Reconnect

\* The application only ever closes the socket and takes the status down.
LEMMA ApplicationKeyInv == ASSUME KeyInv, Application PROVE KeyInv'
<1>1. UNCHANGED <<rc, key, ticket>>
  BY DEF Application, Listen, GetMessage, GetNothing, Parse, Activate, BuildCounter,
     Dispatch, CheckDisconnected, StartActivation, BuildActive, SendQueued, NothingDue,
     SendMessage, Send, SendCheck, SendDown, Write, WriteFails, SendStop, SendMark,
     sessionVars
<1>2. status' = status \/ status' = "Disconnected"
  BY DEF Application, Listen, GetMessage, GetNothing, Parse, Activate, BuildCounter,
     Dispatch, CheckDisconnected, StartActivation, BuildActive, SendQueued, NothingDue,
     SendMessage, Send, SendCheck, SendDown, Write, WriteFails, SendStop, SendMark,
     connVars
<1>3. sock' = sock \/ sock' = None
  BY DEF Application, Listen, GetMessage, GetNothing, Parse, Activate, BuildCounter,
     Dispatch, CheckDisconnected, StartActivation, BuildActive, SendQueued, NothingDue,
     SendMessage, Send, SendCheck, SendDown, Write, WriteFails, SendStop, SendMark,
     CloseSocket, connVars
<1>4. starved' = starved
  BY DEF Application, Listen, GetMessage, GetNothing, Parse, Activate, BuildCounter,
     Dispatch, CheckDisconnected, StartActivation, BuildActive, SendQueued, NothingDue,
     SendMessage, Send, SendCheck, SendDown, Write, WriteFails, SendStop, SendMark,
     history
<1> QED
  BY <1>1, <1>2, <1>3, <1>4 DEF KeyInv, InConnection

LEMMA StepKeyInv == KeyInv /\ [Next]_vars => KeyInv'
<1> SUFFICES ASSUME KeyInv, [Next]_vars PROVE KeyInv'
  OBVIOUS
<1>1. CASE Reconnect
  BY <1>1, ReconnectKeyInv
<1>2. CASE Application
  BY <1>2, ApplicationKeyInv
<1>3. CASE Environment \/ UNCHANGED vars
  BY <1>3, EnvironmentFrame DEF KeyInv
<1> QED
  BY <1>1, <1>2, <1>3 DEF Next

\* Until loopListen first runs out of memory, the open socket always belongs to
\* the session whose key the parser uses, whatever sends that fail late do to
\* the socket and the status.
THEOREM ConnectorKeyFitsSocket == Spec => []KeyFitsSocket
<1>1. KeyInv /\ [Next]_vars => KeyInv'
  BY StepKeyInv
<1>2. KeyInv => KeyFitsSocket
  BY DEF KeyInv, KeyFitsSocket, Listening, InConnection
<1> QED
  BY InitKeyInv, <1>1, <1>2, PTL DEF Spec

-----------------------------------------------------------------------------
(***************************************************************************)
(* Types, and the counter.  That the hub only ever gets numbers of real    *)
(* sessions, and with them whoever reads its messages, rests on the order  *)
(* of loopReconnect: a key is set before isDisconnected is cleared, and    *)
(* only then is an activation message built.                               *)
(***************************************************************************)
KeyKnown == {"connect", "setup", "clearFlag", "alloc", "listening", "reading",
             "stop", "markDown", "deactivate", "setFlag"}

TypeInv ==
  /\ TypeOK
  /\ rc = "setKey" => ticket # None
  /\ rc \in KeyKnown => key # None /\ ticket # None
  /\ ~isDisconnected => key # None
  /\ app \in {"decide", "buildActive"} => key # None
  /\ out.kind = "activation" /\ app # "buildActive" => out.key # None
  /\ app \in {"parse", "activate", "buildCounter", "dispatch"} => msg \in Message
  /\ peerOpen => sock # None
  /\ CounterBuilt

LEMMA InitTypeInv == Init => TypeInv
<1> SUFFICES ASSUME Init PROVE TypeInv
  OBVIOUS
<1>1. inbox \in Seq(Message) /\ wire \in Seq(Message)
  BY DEF Init
<1>2. /\ isActivated \in BOOLEAN /\ isDisconnected \in BOOLEAN
      /\ wifi \in BOOLEAN /\ peerOpen \in BOOLEAN
  BY DEF Init
<1>4. /\ msg \in Message \cup {Nothing}
      /\ out \in [kind : {"activation", "data"}, ticket : Sessions \cup {None},
                 key : Sessions \cup {None}]
      /\ out.kind = "data"
  BY DEF Init, Data
<1>5. TypeOK
  BY <1>1, <1>2, <1>4 DEF Init, TypeOK
<1>6. ~isActivated /\ isDisconnected /\ ~peerOpen
  BY DEF Init
<1> QED
  BY <1>4, <1>5, <1>6 DEF Init, TypeInv, KeyKnown, CounterBuilt

LEMMA ReconnectTypeInv == ASSUME TypeInv, Reconnect PROVE TypeInv'
<1> USE ConnectorAssumption DEF TypeInv, TypeOK, CounterBuilt, KeyKnown, RcOnly, connVars, flagVars,
            sessionVars, appVars, envVars, history
<1>1. CASE RcWifi
  BY <1>1 DEF RcWifi
<1>2. CASE Prepare
  BY <1>2 DEF Prepare, Sessions, None
<1>3. CASE PrepareFails
  BY <1>3 DEF PrepareFails
<1>4. CASE SetSecretKey
  BY <1>4 DEF SetSecretKey
<1>5. CASE ConnectKept
  BY <1>5 DEF ConnectKept
<1>6. CASE Dial
  BY <1>6 DEF Dial
<1>7. CASE DialFails
  BY <1>7 DEF DialFails
<1>8. CASE SetupFails
  BY <1>8 DEF SetupFails
<1>9. CASE SetConnected
  BY <1>9 DEF SetConnected
<1>10. CASE ClearFlag
  <2>1. isDisconnected' \in BOOLEAN
    BY <1>10 DEF ClearFlag
  <2>2. TypeOK'
    BY <1>10, <2>1 DEF ClearFlag
  <2> QED
    BY <1>10, <2>2 DEF ClearFlag
<1>11. CASE Alloc
  BY <1>11 DEF Alloc
<1>12. CASE AllocFails
  BY <1>12 DEF AllocFails
<1>13. CASE MessageAllocFails
  BY <1>13 DEF MessageAllocFails
<1>14. CASE EnterTurn
  BY <1>14 DEF EnterTurn
<1>15. CASE NothingToRead
  BY <1>15 DEF NothingToRead
<1>16. CASE Receive
  BY <1>16 DEF Receive
<1>17. CASE LeaveLoop
  BY <1>17 DEF LeaveLoop
<1>18. CASE Stop
  <2>1. peerOpen' \in BOOLEAN /\ ~peerOpen'
    BY <1>18 DEF Stop, CloseSocket
  <2>2. wire' \in Seq(Message)
    BY <1>18 DEF Stop, CloseSocket
  <2>3. TypeOK'
    BY <1>18, <2>1, <2>2 DEF Stop, CloseSocket
  <2> QED
    BY <1>18, <2>1, <2>3 DEF Stop
<1>19. CASE MarkDown
  BY <1>19 DEF MarkDown
<1>20. CASE Deactivate
  <2>1. isActivated' \in BOOLEAN
    BY <1>20 DEF Deactivate
  <2>2. TypeOK'
    BY <1>20, <2>1 DEF Deactivate
  <2> QED
    BY <1>20, <2>2 DEF Deactivate
<1>21. CASE SetFlag
  BY <1>21 DEF SetFlag
<1> QED
  BY <1>1, <1>2, <1>3, <1>4, <1>5, <1>6, <1>7, <1>8, <1>9, <1>10, <1>11, <1>12,
     <1>13, <1>14, <1>15, <1>16, <1>17, <1>18, <1>19, <1>20, <1>21 DEF Reconnect

LEMMA MessageFields == ASSUME NEW m \in Message PROVE m.key \in Sessions /\ m.sock \in Sessions
BY DEF Message

LEMMA ListenTypeInv == ASSUME TypeInv, Listen PROVE TypeInv'
<1> USE ConnectorAssumption DEF TypeInv, TypeOK, CounterBuilt, KeyKnown, AppOnly, connVars, flagVars,
            sessionVars, appVars, envVars, history
<1>1. CASE GetMessage
  BY <1>1 DEF GetMessage
<1>2. CASE GetNothing
  BY <1>2 DEF GetNothing
<1>3. CASE Parse
  BY <1>3 DEF Parse, DataKinds
<1>4. CASE Activate
  <2>0. msg.key \in Sessions /\ msg.sock \in Sessions
    BY <1>4, MessageFields DEF Activate
  <2>1. isActivated' \in BOOLEAN
    BY <1>4 DEF Activate
  <2>2. TypeOK'
    BY <1>4, <2>0, <2>1 DEF Activate
  <2> QED
    BY <1>4, <2>2 DEF Activate
<1>5. CASE BuildCounter
  <2>1. msg.key \in Sessions /\ msg.key # None
    BY <1>5, MessageFields DEF BuildCounter, Sessions, None
  <2> QED
    BY <1>5, <2>1 DEF BuildCounter
<1>6. CASE Dispatch
  <2>1. msg.key \in Sessions
    BY <1>6, MessageFields DEF Dispatch
  <2>2. lastKey' \in Sessions \cup {None}
    BY <1>6, <2>1 DEF Dispatch, Accept
  <2>3. app' \in {"send", "sCheck"} /\ after' \in {"check", "send", "listen"}
    BY <1>6 DEF Dispatch
  <2>4. out' \in {out, Data}
    BY <1>6 DEF Dispatch
  <2>5. /\ out' \in [kind : {"activation", "data"}, ticket : Sessions \cup {None},
                    key : Sessions \cup {None}]
        /\ out'.kind = "activation" => out' = out
    BY <2>4 DEF Data
  <2>6. UNCHANGED <<status, sock, inbox, isActivated, isDisconnected, counter, ticket, key,
                    rc, msg, wifi, peerOpen, wire, hubSession, starved, activatedBy>>
    BY <1>6 DEF Dispatch
  <2>7. TypeOK'
    BY <2>2, <2>3, <2>5, <2>6
  <2>8. app = "dispatch"
    BY <1>6 DEF Dispatch
  <2> QED
    BY <2>3, <2>5, <2>6, <2>7, <2>8
<1>7. CASE CheckDisconnected
  BY <1>7 DEF CheckDisconnected
<1>8. CASE StartActivation
  BY <1>8 DEF StartActivation
<1>9. CASE BuildActive
  BY <1>9 DEF BuildActive
<1>10. CASE SendQueued
  BY <1>10 DEF SendQueued, Data
<1>11. CASE NothingDue
  BY <1>11 DEF NothingDue
<1> QED
  BY <1>1, <1>2, <1>3, <1>4, <1>5, <1>6, <1>7, <1>8, <1>9, <1>10, <1>11 DEF Listen

LEMMA SendTypeInv == ASSUME TypeInv, SendMessage \/ Send PROVE TypeInv'
<1> USE ConnectorAssumption DEF TypeInv, TypeOK, CounterBuilt, KeyKnown, AppOnly, connVars, flagVars,
            sessionVars, appVars, envVars, history
<1>1. CASE SendMessage
  BY <1>1 DEF SendMessage, Data
<1>2. CASE SendCheck
  BY <1>2 DEF SendCheck
<1>3. CASE SendDown
  BY <1>3 DEF SendDown
<1>4. CASE Write
  <2>1. /\ UNCHANGED <<status, sock, inbox, isActivated, isDisconnected, counter, ticket, key,
                       rc, msg, out, after, wifi, peerOpen, starved, activatedBy, lastKey>>
        /\ app = "sWrite" /\ app' = after /\ sock # None
    BY <1>4 DEF Write
  <2>2. wire' \in Seq(Message) /\ hubSession' \in Sessions \cup {None}
    <3>1. CASE UNCHANGED <<wire, hubSession>>
      BY <3>1
    <3>2. CASE ~UNCHANGED <<wire, hubSession>>
      <4>1. /\ out.kind = "activation"
            /\ \E answer \in {"ready", "notReady"} :
                 /\ wire' = Append(wire, [kind |-> answer, key |-> out.key, sock |-> sock])
                 /\ hubSession' = IF answer = "ready" THEN out.key ELSE hubSession
        BY <1>4, <3>2 DEF Write, HubAnswers
      <4>2. out.key \in Sessions /\ sock \in Sessions
        BY <2>1, <4>1
      <4> QED
        BY <4>1, <4>2 DEF Message, Kinds
    <3> QED
      BY <3>1, <3>2
  <2> QED
    BY <2>1, <2>2
<1>5. CASE WriteFails
  BY <1>5 DEF WriteFails
<1>6. CASE SendStop
  <2>1. peerOpen' \in BOOLEAN /\ ~peerOpen'
    BY <1>6 DEF SendStop, CloseSocket
  <2>2. wire' \in Seq(Message)
    BY <1>6 DEF SendStop, CloseSocket
  <2>3. TypeOK'
    BY <1>6, <2>1, <2>2 DEF SendStop, CloseSocket
  <2> QED
    BY <1>6, <2>1, <2>3 DEF SendStop
<1>7. CASE SendMark
  BY <1>7 DEF SendMark
<1> QED
  BY <1>1, <1>2, <1>3, <1>4, <1>5, <1>6, <1>7 DEF Send

LEMMA EnvironmentTypeInv ==
  ASSUME TypeInv, Environment  PROVE TypeInv'
<1> USE ConnectorAssumption DEF TypeInv, TypeOK, CounterBuilt, KeyKnown, connVars, flagVars,
            sessionVars, appVars, envVars, history
<1>1. CASE WifiChanges
  BY <1>1 DEF WifiChanges
<1>2. CASE PeerCloses
  <2>1. peerOpen' \in BOOLEAN
    BY <1>2 DEF PeerCloses
  <2>2. TypeOK'
    BY <1>2, <2>1 DEF PeerCloses
  <2> QED
    BY <1>2, <2>2 DEF PeerCloses
<1>3. CASE \E k \in HubKinds : HubSends(k)
  BY <1>3 DEF HubSends, Message, Kinds
<1> QED
  BY <1>1, <1>2, <1>3 DEF Environment

LEMMA StepTypeInv == TypeInv /\ [Next]_vars => TypeInv'
<1>1. TypeInv /\ UNCHANGED vars => TypeInv'
  BY DEF TypeInv, TypeOK, CounterBuilt, vars, connVars, flagVars, sessionVars, appVars,
     envVars, history
<1> QED
  BY <1>1, ReconnectTypeInv, ListenTypeInv, SendTypeInv, EnvironmentTypeInv DEF Next, Application

\* Every variable keeps its type; no message is ever of session 0.
THEOREM ConnectorTypeCorrect == Spec => []TypeOK
<1>1. TypeInv => TypeOK
  BY DEF TypeInv
<1> QED
  BY InitTypeInv, StepTypeInv, <1>1, PTL DEF Spec

\* Whoever finds the connection activated finds a counter, except while the
\* listener is between the two statements that publish the one and the other.
THEOREM ConnectorCounterBuilt == Spec => []CounterBuilt
<1>1. TypeInv => CounterBuilt
  BY DEF TypeInv
<1> QED
  BY InitTypeInv, StepTypeInv, <1>1, PTL DEF Spec

-----------------------------------------------------------------------------
(***************************************************************************)
(* Connector implements Session.  With OrderInv it is enough to know that  *)
(* a connection is only dialled with the key of the last registration.     *)
(***************************************************************************)
DialInv == rc = "connect" => key = ticket

LEMMA InitDialInv == Init => DialInv
BY DEF Init, DialInv

\* No step of the other task reaches the reconnect task's own variables.
LEMMA ApplicationKeepsDial == Application => UNCHANGED <<rc, ticket, key>>
BY DEF Application, Listen, GetMessage, GetNothing, Parse, Activate, BuildCounter,
   Dispatch, CheckDisconnected, StartActivation, BuildActive, SendQueued, NothingDue,
   SendMessage, Send, SendCheck, SendDown, Write, WriteFails, SendStop, SendMark,
   sessionVars

LEMMA StepDialInv == DialInv /\ [Next]_vars => DialInv'
<1> SUFFICES ASSUME DialInv, [Next]_vars PROVE DialInv'
  OBVIOUS
<1>1. CASE SetSecretKey
  BY <1>1 DEF SetSecretKey, DialInv
<1>2. CASE Reconnect /\ ~SetSecretKey
  BY <1>2 DEF DialInv, RcOnly, Reconnect, RcWifi, Prepare, PrepareFails, ConnectKept,
     Dial, DialFails, SetupFails, SetConnected, ClearFlag, Alloc, AllocFails,
     MessageAllocFails, EnterTurn, NothingToRead, Receive, LeaveLoop, Stop, MarkDown,
     Deactivate, SetFlag
<1>3. CASE Application
  BY <1>3, ApplicationKeepsDial DEF DialInv
<1>4. CASE Environment \/ UNCHANGED vars
  BY <1>4, EnvironmentFrame DEF DialInv
<1> QED
  BY <1>1, <1>2, <1>3, <1>4 DEF Next

\* The reconnect task registers, installs the key, dials, and closes.
LEMMA ReconnectSession ==
  ASSUME OrderInv, DialInv, Reconnect
  PROVE  [Held!Next]_(Held!vars)
<1>1. CASE Prepare
  <2>1. Held!Register
    BY <1>1 DEF Prepare, RcOnly, Held!Register, connVars, history
  <2> QED
    BY <2>1 DEF Held!Next
<1>2. CASE SetSecretKey
  <2>1. Held!Install
    BY <1>2 DEF SetSecretKey, RcOnly, Held!Install, connVars, history
  <2> QED
    BY <2>1 DEF Held!Next
<1>3. CASE Dial
  <2>1. Held!Open
    BY <1>3 DEF Dial, RcOnly, DialInv, Held!Open, sessionVars, history
  <2> QED
    BY <2>1 DEF Held!Next
<1>4. CASE ConnectKept \/ DialFails
  <2>1. Held!GiveUp
    BY <1>4 DEF ConnectKept, DialFails, RcOnly, Held!GiveUp, connVars, sessionVars, history
  <2> QED
    BY <2>1 DEF Held!Next
<1>5. CASE Stop
  <2>1. Held!Close
    BY <1>5 DEF Stop, CloseSocket, RcOnly, None, Held!Close, sessionVars, history
  <2> QED
    BY <2>1 DEF Held!Next
<1>6. CASE ~Prepare /\ ~SetSecretKey /\ ~Dial /\ ~ConnectKept /\ ~DialFails /\ ~Stop
  <2>1. /\ UNCHANGED <<ticket, key, sock, lastKey>>
        /\ rc \notin {"setKey", "connect"} /\ rc' \notin {"setKey", "connect"}
    BY <1>6 DEF RcOnly, Reconnect, RcWifi, PrepareFails, SetupFails, SetConnected,
       ClearFlag, Alloc, AllocFails, MessageAllocFails, EnterTurn, NothingToRead, Receive,
       LeaveLoop, MarkDown, Deactivate, SetFlag, connVars, sessionVars, history
  <2> QED
    BY <2>1 DEF Held!vars
<1> QED
  BY <1>1, <1>2, <1>3, <1>4, <1>5, <1>6

\* A step that acts on a message: its session lies where Session wants it.
LEMMA ActsInSession ==
  ASSUME OrderInv, NEW n \in Nat, lastKey <= n, n <= key, lastKey' = n,
         UNCHANGED <<ticket, key, sock, rc>>
  PROVE  [Held!Next]_(Held!vars)
<1>1. Held!Act(n)
  BY DEF Held!Act
<1>2. n \in lastKey .. key
  BY DEF OrderInv
<1> QED
  BY <1>1, <1>2 DEF Held!Next

\* The application task acts on messages and closes.
LEMMA ApplicationSession ==
  ASSUME OrderInv, Application
  PROVE  [Held!Next]_(Held!vars)
<1>1. CASE Activate
  <2>1. msg.key \in Nat /\ lastKey <= msg.key /\ msg.key <= key
    BY <1>1 DEF Activate, AppOnly, OrderInv
  <2>2. lastKey' = msg.key /\ UNCHANGED <<ticket, key, sock, rc>>
    BY <1>1 DEF Activate, connVars, sessionVars
  <2> QED
    BY <2>1, <2>2, ActsInSession
<1>2. CASE Dispatch
  <2>1. msg.key \in Nat /\ lastKey <= msg.key /\ msg.key <= key
    BY <1>2 DEF Dispatch, OrderInv
  <2>2. /\ lastKey' \in {lastKey, msg.key}
        /\ UNCHANGED <<ticket, key, sock, rc>>
    BY <1>2 DEF Dispatch, Accept, connVars, sessionVars
  <2>3. CASE lastKey' = msg.key
    BY <2>1, <2>2, <2>3, ActsInSession
  <2>4. CASE lastKey' = lastKey
    BY <2>2, <2>4 DEF Held!vars
  <2> QED
    BY <2>2, <2>3, <2>4
<1>3. CASE BuildActive
  <2>1. lastKey' = key /\ UNCHANGED <<ticket, key, sock, rc>>
    BY <1>3 DEF BuildActive, connVars, sessionVars
  <2> QED
    BY <2>1, ActsInSession DEF OrderInv
<1>4. CASE SendStop
  <2>1. Held!Close
    BY <1>4 DEF SendStop, CloseSocket, None, Held!Close, sessionVars, history
  <2> QED
    BY <2>1 DEF Held!Next
<1>5. CASE ~Activate /\ ~Dispatch /\ ~BuildActive /\ ~SendStop
  <2>1. UNCHANGED <<ticket, key, sock, lastKey, rc>>
    BY <1>5 DEF Application, Listen, GetMessage, GetNothing, Parse, BuildCounter,
       CheckDisconnected, StartActivation, SendQueued, NothingDue, SendMessage, Send,
       SendCheck, SendDown, Write, WriteFails, SendMark, connVars, sessionVars, history
  <2> QED
    BY <2>1 DEF Held!vars
<1> QED
  BY <1>1, <1>2, <1>3, <1>4, <1>5

LEMMA StepSession ==
  ASSUME OrderInv, DialInv, [Next]_vars
  PROVE  [Held!Next]_(Held!vars)
<1>1. CASE Environment \/ UNCHANGED vars
  BY <1>1, EnvironmentFrame DEF Held!vars
<1> QED
  BY <1>1, ReconnectSession, ApplicationSession DEF Next

\* Whatever the tasks, the network and the memory do, a registration serves one
\* connection, which is dialled with its key, and what is acted on lies between
\* the last session acted for and the key's (connector.cpp, connection.cpp).
THEOREM ConnectorActsAsSession == Spec => ActsAsSession
<1>1. Init => Held!Init
  BY DEF Init, Held!Init, None
<1>2. OrderInv /\ DialInv /\ [Next]_vars => [Held!Next]_(Held!vars)
  BY StepSession
<1> QED
  BY InitOrderInv, StepOrderInv, InitDialInv, StepDialInv, <1>1, <1>2, PTL
     DEF Spec, ActsAsSession, Held!Spec

LEMMA StepInOrder == OrderInv /\ DialInv /\ [Next]_vars => [lastKey' >= lastKey]_vars
<1> SUFFICES ASSUME OrderInv, DialInv, [Next]_vars PROVE lastKey' >= lastKey
  OBVIOUS
<1>1. lastKey \in Nat
  BY DEF OrderInv
<1>2. lastKey' = lastKey \/ \E n \in lastKey .. key : Held!Act(n)
  BY StepSession DEF Held!Next, Held!vars, Held!Register, Held!Install, Held!Open,
     Held!GiveUp, Held!Close
<1> QED
  BY <1>1, <1>2 DEF Held!Act

\* So the client never goes back: however messages wait in the receive queue while
\* connections come and go, none of an earlier session is acted on after one of a
\* later session.
THEOREM ConnectorSessionsInOrder == Spec => SessionsInOrder
<1> QED
  BY InitOrderInv, StepOrderInv, InitDialInv, StepDialInv, StepInOrder, PTL
     DEF Spec, SessionsInOrder
=============================================================================
