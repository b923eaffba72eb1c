----------------------------- MODULE Connection -----------------------------
(***************************************************************************)
(* cso_connection/connection.cpp: frames over the socket.                  *)
(*                                                                         *)
(* The reconnect task runs loopListen: it gathers a header of two bytes    *)
(* and then as many bytes as the header says, in whatever chunks readBytes *)
(* returns, and pushes a copy to the receive queue (ConcurrencyQueue, of   *)
(* which this task is the one producer).  The application task takes       *)
(* messages out (getMessage) and writes its own frames (sendMessage), one  *)
(* after the other.                                                        *)
(*                                                                         *)
(* When a connection is made or kept, and which task notices its end, is   *)
(* the matter of module Connector: here one may end at any step, and the   *)
(* next begins when loopListen was left.  The hub keeps its frames within  *)
(* the buffer.                                                             *)
(***************************************************************************)
EXTENDS ConcurrencyQueue, SequencesExt

CONSTANTS
  reader, app,     \* the two tasks
  Base,            \* number of values of a byte
  BufferSize,      \* BUFFER_SIZE, 1024 in the code
  FrameLengths,    \* lengths of the hub's frames
  SendLengths,     \* lengths of the messages given to sendMessage
  MaxFrames,       \* bound: frames of the hub
  MaxSends,        \* bound: calls of sendMessage
  MaxSessions      \* bound: connections

HeaderSize == 2
LengthSpace == Base * Base  \* number of values of a uint16_t
Offsets == 0 .. BufferSize - 1

ASSUME ConnectionAssumption ==
  /\ Producers = {reader} /\ Consumers = {app}
  /\ Base \in Nat \ {0, 1}
  /\ BufferSize \in Nat /\ BufferSize >= HeaderSize
  /\ FrameLengths \subseteq 0 .. BufferSize
  /\ SendLengths \subseteq 0 .. LengthSpace - 1
  /\ MaxFrames \in Nat /\ MaxSends \in Nat /\ MaxSessions \in Nat
  /\ MaxPushes >= MaxFrames

VARIABLES
  open, rx,                     \* the socket and the bytes it has to read
  listening,                    \* the reader is in loopListen
  bytes, header, seek, length,  \* its locals
  nBytes, wseek,                \* the sender's locals, 0 when it does not send
  \* history
  session,
  sent,                         \* the hub's frames: session and length
  taken,                        \* what was pushed, by number of the call
  unstored,                     \* frames dropped for want of memory
  sends,                        \* messages sent: session and length
  reported,                     \* messages of this session for which Nil was returned
  wire                          \* bytes the hub got in this session

readVars == <<listening, bytes, header, seek, length, taken, unstored>>
sendVars == <<nBytes, wseek, sends, reported, wire>>
connVars == <<open, rx, session, sent, readVars, sendVars>>
allVars == <<vars, connVars>>

\* Byte number "at" of frame f with a body of n bytes; what a body holds does
\* not matter until it is taken for a header.
Byte(f, at, n) ==
  [of |-> f, at |-> at,
   value |-> CASE at = 1 -> n % Base [] at = 2 -> n \div Base [] OTHER -> 1]
Frame(f, n) == [at \in 1 .. n + HeaderSize |-> Byte(f, at, n)]
Garbage == [of |-> 0, at |-> 0, value |-> 1]  \* never written
Body(f, n) == SubSeq(Frame(f, n), HeaderSize + 1, n + HeaderSize)

-----------------------------------------------------------------------------
(***************************************************************************)
(* loopListen                                                              *)
(***************************************************************************)
FreshLocals ==
  /\ bytes' = [o \in Offsets |-> Garbage]
  /\ header' = TRUE
  /\ seek' = 0
  /\ length' = HeaderSize

\* A new connection, and loopListen begins.
Connect ==
  /\ ~listening /\ ~open
  /\ session < MaxSessions
  /\ open' = TRUE /\ rx' = <<>>
  /\ session' = session + 1
  /\ listening' = TRUE
  /\ FreshLocals
  /\ reported' = <<>> /\ wire' = <<>>
  /\ UNCHANGED <<vars, sent, taken, unstored, nBytes, wseek, sends>>

\* loopListen begins again on a connection it left for want of memory.
Resume ==
  /\ ~listening /\ open
  /\ listening' = TRUE
  /\ FreshLocals
  /\ UNCHANGED <<vars, open, rx, session, sent, taken, unstored, sendVars>>

Ready == listening /\ pc[reader] = "idle"

\* Mutant: the second chunk is put where the first was.
GatheredAtStart(k) == [o \in Offsets |-> IF o < k THEN rx[o + 1] ELSE bytes[o]]

\* The buffer after readBytes(buffer + seek, length - seek) returned k.
Gathered(k) == [o \in Offsets |-> IF seek <= o /\ o < seek + k THEN rx[o - seek + 1] ELSE bytes[o]]

\* readBytes returned k bytes.  Of a frame of length 0 none are ever asked for.
ReadBytes(k) ==
  /\ Ready
  /\ k <= Len(rx) /\ k <= length - seek
  /\ rx' = SubSeq(rx, k + 1, Len(rx))
  /\ bytes' = Gathered(k)
  /\ UNCHANGED <<open, session, sent, sendVars>>

ReadPart(k) ==
  /\ ReadBytes(k)
  /\ seek + k < length
  /\ seek' = seek + k
  /\ UNCHANGED <<vars, listening, header, length, taken, unstored>>

\* Mutant: the length is read high byte first.
LengthHighFirst == bytes'[0].value * Base + bytes'[1].value

LengthRead == bytes'[1].value * Base + bytes'[0].value

\* The header is complete: "data length".
ReadHeader(k) ==
  /\ header
  /\ ReadBytes(k)
  /\ seek + k = length
  /\ length' = LengthRead
  /\ header' = (length' = 0)
  /\ seek' = 0
  /\ UNCHANGED <<vars, listening, taken, unstored>>

\* Mutant: after a message the header is not reset.
ResetKeepsLength == header' = TRUE /\ seek' = 0 /\ UNCHANGED length

Reset == header' = TRUE /\ seek' = 0 /\ length' = HeaderSize

\* The body is complete: a copy is made and push begins.
ReadBody(k) ==
  /\ ~header
  /\ ReadBytes(k)
  /\ seek + k = length
  /\ taken' = Append(taken, [i \in 1 .. length |-> bytes'[i - 1]])
  /\ Reset
  /\ Reserve(reader)
  /\ UNCHANGED <<listening, unstored>>

\* No memory for the copy: loopListen returns, the connection stays.
CopyFails(k) ==
  /\ ~header
  /\ ReadBytes(k)
  /\ seek + k = length
  /\ listening' = FALSE
  /\ unstored' = unstored \cup {bytes'[0].of}
  /\ UNCHANGED <<vars, header, seek, length, taken>>

Read == \E k \in 1 .. BufferSize : ReadPart(k) \/ ReadHeader(k) \/ ReadBody(k) \/ CopyFails(k)

\* WiFi or status says that the connection is down.
LeaveLoop ==
  /\ Ready
  /\ listening' = FALSE
  /\ open' = FALSE /\ rx' = <<>>
  /\ UNCHANGED <<vars, session, sent, bytes, header, seek, length, taken, unstored, sendVars>>

-----------------------------------------------------------------------------
(***************************************************************************)
(* sendMessage, and getMessage by the same task.                           *)
(***************************************************************************)
Idle == pc[app] = "idle" /\ nBytes = 0

\* nBytes += HEADER_SIZE, a uint16_t.  Nothing is written when that wraps to 0.
SendMessage(n) ==
  /\ Idle /\ session > 0
  /\ Len(sends) < MaxSends
  /\ sends' = Append(sends, [session |-> session, length |-> n])
  /\ nBytes' = (n + HeaderSize) % LengthSpace
  /\ wseek' = 0
  /\ reported' = IF nBytes' = 0 THEN Append(reported, Len(sends')) ELSE reported
  /\ UNCHANGED <<vars, open, rx, session, sent, readVars, wire>>

\* Mutant: only the last write counts.
SoughtLast(k) == k
Sought(k) == wseek + k

\* client.write took k bytes; after the last of them Nil is returned.
WriteBytes(k) ==
  /\ nBytes > 0 /\ open
  /\ k <= nBytes - wseek
  /\ LET m == Len(sends) IN
     /\ wire' = wire \o SubSeq(Frame(m, sends[m].length), wseek + 1, wseek + k)
     /\ IF Sought(k) < nBytes
        THEN wseek' = Sought(k) /\ UNCHANGED <<nBytes, reported>>
        ELSE wseek' = 0 /\ nBytes' = 0 /\ reported' = Append(reported, m)
  /\ UNCHANGED <<vars, open, rx, session, sent, readVars, sends>>

\* client.write returned 0: the socket is closed.
WriteFails ==
  /\ nBytes > 0
  /\ open' = FALSE /\ rx' = <<>>
  /\ nBytes' = 0 /\ wseek' = 0
  /\ UNCHANGED <<vars, session, sent, readVars, sends, reported, wire>>

GetMessage == nBytes = 0 /\ Pop(app) /\ UNCHANGED connVars

-----------------------------------------------------------------------------
(***************************************************************************)
(* The other side of the socket.                                           *)
(***************************************************************************)
HubSends(n) ==
  /\ open /\ Len(sent) < MaxFrames
  /\ sent' = Append(sent, [session |-> session, length |-> n])
  /\ rx' = rx \o Frame(Len(sent'), n)
  /\ UNCHANGED <<vars, open, session, readVars, sendVars>>

\* The peer or the network closes the connection; what was not read is lost.
SocketLost ==
  /\ open
  /\ open' = FALSE /\ rx' = <<>>
  /\ UNCHANGED <<vars, session, sent, readVars, sendVars>>

-----------------------------------------------------------------------------
ConnectionInit ==
  /\ Init
  /\ open = FALSE /\ rx = <<>>
  /\ listening = FALSE
  /\ bytes = [o \in Offsets |-> Garbage]
  /\ header = TRUE /\ seek = 0 /\ length = HeaderSize
  /\ nBytes = 0 /\ wseek = 0
  /\ session = 0
  /\ sent = <<>> /\ taken = <<>> /\ unstored = {}
  /\ sends = <<>> /\ reported = <<>> /\ wire = <<>>

LoopListen == Connect \/ Resume \/ Read \/ LeaveLoop
PushRest == (Undo(reader) \/ ClaimWrite(reader) \/ Write(reader)) /\ UNCHANGED connVars
Writing == WriteFails \/ \E k \in 1 .. LengthSpace : WriteBytes(k)

ConnectionNext ==
  \/ LoopListen
  \/ PushRest
  \/ GetMessage
  \/ \E n \in SendLengths : SendMessage(n)
  \/ Writing
  \/ \E n \in FrameLengths : HubSends(n)
  \/ SocketLost

ConnectionSpec == ConnectionInit /\ [][ConnectionNext]_allVars

\* Both tasks go on: readBytes returns when there is something to read, write
\* within its timeout, and the reconnect task comes back to loopListen once the
\* proxy answers.
ConnectionFairness ==
  /\ WF_allVars(Read) /\ WF_allVars(Resume) /\ WF_allVars(PushRest)
  /\ WF_allVars(GetMessage) /\ WF_allVars(Writing)
FairConnectionSpec == ConnectionSpec /\ ConnectionFairness

-----------------------------------------------------------------------------
Cells == [of : Nat, at : Nat, value : Nat]

\* The types; the reader never asks for more than the buffer holds.
ConnectionTypeOK ==
  /\ open \in BOOLEAN /\ listening \in BOOLEAN /\ header \in BOOLEAN
  /\ rx \in Seq(Cells)
  /\ bytes \in [Offsets -> Cells]
  /\ length \in 0 .. BufferSize /\ seek \in 0 .. length
  /\ nBytes \in 0 .. LengthSpace - 1 /\ wseek \in 0 .. nBytes
  /\ session \in 0 .. MaxSessions
  /\ sent \in Seq([session : 1 .. MaxSessions, length : FrameLengths])
  /\ taken \in Seq(Seq(Cells)) /\ Len(taken) = calls
  /\ unstored \subseteq 1 .. MaxFrames
  /\ sends \in Seq([session : 1 .. MaxSessions, length : SendLengths])
  /\ reported \in Seq(1 .. MaxSends)
  /\ wire \in Seq(Cells)

IsBody(m, f) == m = Body(f, sent[f].length)

\* Whatever the chunks and however sessions ended or copies failed, what is
\* pushed are whole frames of the hub, each once and in order: a new session
\* never completes the frame of an old one (connection.cpp:45-50, 60-101).
FramesWhole ==
  \A k \in 1 .. Len(taken) : \E f \in 1 .. Len(sent) :
    /\ IsBody(taken[k], f)
    /\ \A j \in 1 .. k - 1 : taken[j][1].of < f

\* The messages of which bytes went out on this connection, in order.
OnWire == IF nBytes > 0 THEN Append(reported, Len(sends)) ELSE reported
Wraps(m) == sends[m].length + HeaderSize >= LengthSpace
Plain == \A i \in 1 .. Len(OnWire) :
           ~Wraps(OnWire[i]) /\ sends[OnWire[i]].session = session
Whole(ms) == FlattenSeq([i \in 1 .. Len(ms) |-> Frame(ms[i], sends[ms[i]].length)])

\* Nil is returned, and other bytes follow, only when the hub was given a whole
\* frame, however the writes were cut (connection.cpp:133-142).  This excepts
\* lengths that wrap with their header in 16 bits and frames begun on the
\* connection before, whose rest the loop writes to the new one.
SentWhole ==
  open /\ Plain =>
    wire = IF nBytes = 0 THEN Whole(reported)
           ELSE Whole(reported) \o SubSeq(Frame(Len(sends), sends[Len(sends)].length), 1, wseek)

Sent(f) == f <= Len(sent)
\* A frame of length 0 leaves the reader waiting for 0 bytes, for the rest of
\* the session.
Stalled(f) == \E g \in 1 .. f : sent[g].length = 0 /\ sent[g].session = sent[f].session

Taken(f) == Sent(f) /\ \E k \in 1 .. Len(taken) : IsBody(taken[k], f)
Excused(f) ==
  Sent(f) /\ (Stalled(f) \/ f \in unstored \/ ~open \/ sent[f].session # session)
Got(f) == Sent(f) /\ \E r \in popped : r.value \in Values /\ IsBody(taken[r.value], f)

\* What the hub sends is read and pushed, unless its connection ends first, and
\* what was pushed reaches getMessage, also after its connection ended.  The
\* latter ends with the first push that finds the queue full, or the first access to a
\* slot that races: push counts and claims a slot (concurrency_queue.h:30-38)
\* before it writes it (:87), and even a single consumer can take it in between.
FramesArrive ==
  \A f \in 1 .. MaxFrames :
    Sent(f) ~> IF Taken(f) THEN Got(f) \/ refused \/ raced ELSE Excused(f)
=============================================================================
