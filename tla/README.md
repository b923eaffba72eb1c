# cso-client-arduino: formal models

TLA+ models, TLC runs and TLAPS proofs for the Arduino/ESP32 client of the
Cloud Socket system.  File and line references are to the repository's own
`src/` and `include/`.

## The system

| part | state | operations | talks to |
|---|---|---|---|
| `Connector` (`src/connector/connector.cpp`) | `isActivated`, `isDisconnected`, `serverTicket`, `counter`, `time` | `loopReconnect` (reconnect task), `listen`, `sendMessage*`, `sendMessageAndRetry*` (application tasks) | all parts below |
| `Connection` (`src/cso_connection`) | `status`, `client` (a `WiFiClient`), `nextMessage` | `connect`, `loopListen` (reconnect task), `sendMessage`, `getMessage` (application task) | TCP peer, `ConcurrencyQueue` |
| `ConcurrencyQueue`, `SpinLock` (`include/synchronization`) | ring buffer, atomic `size`, two indices under the lock | `push`, `pop`, `clear` | between the two tasks |
| `Queue` (`src/cso_queue`) | slots of `ItemQueue`, atomic `length` | `takeIndex`, `pushMessage` (senders), `nextMessage`, `clearMessage` (listener) | `Connector` |
| `Counter` (`src/cso_counter`) | `minReadIndex`, `maskReadBits`, `writeIndex` | `markReadDone`, `markReadUnused`, `nextWriteIndex` | `Connector` |
| `Parser`, `Cipher`, `Ticket`, `ReadyTicket` (`src/cso_parser`, `src/message`) | the secret key | build, parse, sign, encrypt messages | `Connector`, crypto helpers |
| `Proxy`, `ServerKey`, `ServerTicket` (`src/cso_proxy`) | none | `exchangeKey`, `registerConnection` over HTTP | the proxy service |
| `BigNum`, crypto helpers, `Base64` (`src/utils`) | none | wrappers over mbedtls | `Proxy`, `Parser` |
| `Config`, `Error`, `Result`, `Array` | none that changes | value holders | everything |
| `main.cpp` | two tasks | `setup`, `loop` | `Connector` |

Two tasks on two cores share the `Connector` and its `Connection` without a
lock.  The reconnect task registers at the proxy, dials the hub, and reads
frames into `nextMessage`.  The application task takes messages from there,
activates the connection, acknowledges, repeats and sends.  They meet in the
atomics `status`, `isActivated`, `isDisconnected`, in the socket, the parser's
key, the ticket and the receive queue.  What is hard:

* either task may close the socket and set the status, several statements after
  it looked at them, and the other may have opened a new one in between;
* messages of an ended session wait in the receive queue;
* the retry queue is filled by any task and drained by one;
* the hub may repeat and reorder messages, acknowledgements get lost;
* the WiFi and the peer come and go; allocations fail.

The hazards with their lines are in `PROJECT.json`.

## Modules

One module per component, one for each abstract specification, and one,
`Delivery`, that composes parts of three components with a hub; `MC*` modules
give TLC its instances, `*_proofs` modules hold the theorems.  No module reaches
a RECURSIVE operator from a theorem.

| module | models | granularity |
|---|---|---|
| `Connector` | `connector.cpp`, the status and the socket of `connection.cpp`, what `main.cpp` calls, the parser's key as shared state | every write to a shared variable, and every read whose value is used later, is a step of the reconnect task (`rc`) or the application task (`app`) |
| `ConcurrencyQueue` | `concurrency_queue.h`, `spin_lock.cpp` | every access to the atomic `size`, every critical section, every slot access |
| `Connection` | the bytes of `connection.cpp`: `loopListen`, `sendMessage`, `getMessage`; extends `ConcurrencyQueue` | each return of `readBytes` and `write`, with every step of the queue between |
| `Queue` | `queue.cpp`, `item.cpp`, the retry path of `connector.cpp` | every slot visited, every access to the atomic `length` |
| `Window` | the read window of `counter.cpp` | operators, no behaviour of its own |
| `Counter` | `counter.cpp`, `readyticket.cpp`, the handler of requests in `Connector::listen`; extends `Window` | one action per received tag (only one task receives); `nextWriteIndex` at the steps of its critical section |
| `Delivery` | sessions, activation and requests of `Connector`, the window of `Counter`, a receive queue that drops, and a hub; extends `Window` | one action per message handled, sent, acknowledged; sessions that end and restarts at any step |
| `Message` | `cipher.cpp`, `parser.cpp`, `type.h`, `utils_hmac.cpp`, the acknowledgement built by `Connector::listen` | a message is built, damaged or not, parsed, acknowledged |
| `Proxy` | `Connector::prepare`, `proxy.cpp`, `server_ticket.cpp`, `utils_dh.cpp`, `utils_aes.cpp` | each HTTP request, each round of the search for the port, the decryption |
| `Outbox`, `IdSource`, `Mailbox`, `Session` | what callers of `Queue`, callers of `nextWriteIndex`, the two ends of a delivery, and proxy and hub count on | abstract specifications |

How state and actions correspond to the code:

* **Connector.**  `status`, `sock`, `inbox` are the members of `Connection`
  (`sock` is the number of the session whose socket `client` holds, `None` when
  closed); `isActivated`, `isDisconnected`, `ticket`, `key`, `counter` those of
  `Connector` and its parser.  `rc` walks through `loopReconnect` (lines 51-90)
  and, inside it, `connect` and `loopListen`; `app` walks through `listen` and
  `sendMessage`, with `after` as the place to return to.  `wifi`, `peerOpen`,
  `wire`, `hubSession` are the environment.  A session is a number: the
  registration yields ticket and key number *n*, and a message can be parsed
  only with the key it was made with.  `starved` remembers that `loopListen`
  returned for want of memory.
* **ConcurrencyQueue.**  `Reserve`, `Undo`, `ClaimWrite`, `Write` are `push`;
  `Load`, `Subtract`, `ClaimRead`, `Swap` are `pop`.  Because no code touches an
  index outside the lock, a critical section is one step.
* **Connection.**  `bytes`, `header`, `seek`, `length` are the locals of
  `loopListen`, `nBytes` and `wseek` those of `sendMessage`; `rx` is what the
  socket has to read.  A byte carries, besides its value, which frame it belongs
  to and where, so that a mixed frame can be told from a whole one.  `ReadPart`,
  `ReadHeader`, `ReadBody`, `CopyFails` are the outcomes of one `readBytes`;
  `ReadBody` begins a `push`, and the reader goes on when that is done.  When a
  connection is made, and who notices its end, is `Connector`'s matter: here one
  may end at any step.
* **Queue.**  `TakeIndex` is the atomic addition of `takeIndex` with its test,
  `Undo` the subtraction after a refusal; `NewItem`, `LookAtSlot`, `StoreItem` are
  the rest of `doSendMessageRetry` with `pushMessage`; `ScanItem` and `ScanEmpty`
  visit one slot of `nextMessage`, `Release` is `length.fetch_sub`, `Transmit` the
  sending in `listen`, `ClearMessage` what a response does.
* **Counter.**  `Receive` is the whole treatment of a request with a tag:
  `markReadDone`, the callback, `markReadUnused` when it fails, the
  acknowledgement.  `MarkReadDone` of `Window` yields the new window and whether
  the message is new.
* **Delivery.**  `Register` and `LeaveSession` are the two ends of a round of
  `loopReconnect`, `Ask`, `Discard`, `TakeReady` and the three outcomes of a
  request (`Deliver`, `Reject`, `Refuse`) are `listen`; `Build` keeps the counter
  that exists.  The hub is not in the repository: the one assumed repeats a message
  until it is acknowledged, moves on by whole windows, and answers an activation
  with the window it has.  `Restart` loses all that is in memory.
* **Message.**  A buffer is a sequence of cells: a byte, or a byte of something
  mbedtls made, which is a term that fits only its key and the bytes it was
  made for.  Builder and parser are the code's own positions and checks.
* **Proxy.**  `StartExchange`, `TakeKeys`, `TakeAnswer`, `Search`, `Finish`
  follow `prepare`, with `Refused`, `HttpFails` and `NoMemory` for its returns with an
  error; `AnswerKey` and `AnswerTicket` are the proxy and the network.  Powers of the
  key agreement are terms with their exponents.

The abstract specifications are what a caller may rely on.  `Outbox`: a message is
one of at most `Capacity` held, is attempted as often as asked, and leaves with its
last attempt or a response.  `IdSource`: numbers one after the other, as if calls
never overlapped.  `Mailbox`: a message is handed over at most once between two
starts and never after the hub knows of it, and the hub knows only of messages that
were handed over.  `Session`: a registration serves at most one connection, dialled
with its key, and no message is acted on for a session before that of the last one or
after that of the key.  `Queue`, `Counter`, `Delivery` and `Connector` implement them under
the mappings next to `ActsAsOutbox`, `NumbersInOrder`, `ActsAsMailbox` and `ActsAsSession`.

Definitions whose comment begins with "Mutant" are plausible mistakes, kept next
to what they change; no specification uses them.  For each property there is one
that breaks it, so that a property which holds says something about the code.

## Runs

| run | instance | checks | shows |
|---|---|---|---|
| `counter` | windows of 2 tags, 7 tags, 2 tickets, 2 tasks, 3 ids | `TypeOK AtMostOnce AckedWasDelivered IdsDistinct`, `NumbersInOrder` | repeated and reordered tags, failing callbacks and concurrent id requests |
| `delivery` | windows of 2 tags, 3 messages, receive queue of 2, 3 sessions, 2 starts, fair | `TypeOK WindowKnows`, `ActsAsMailbox EventuallyDelivered` | sessions, restarts, dropped frames and lost acknowledgements with the counter of the first ticket |
| `queue` | 2 slots, 1 sender, 3 messages, retry -1, 0, 1, counters of 2 bits, fair | `TypeOK LengthAccounts PushFindsSlot RetryBudget`, `Drains ActsAsOutbox` | the queue in every interleaving of one sending task and the listener |
| `queue_many` | 2 senders | `PushFindsSlot` is violated | two tasks destroy each other's message |
| `queue_ack` | 1 sender | `ClearsOwn` is violated | a response removes another message |
| `connection` | receive queue of 2, frames of 0 and 3 bytes, buffer of 3, 3 frames, 2 sends, 2 connections, bytes of 3 values, fair | `TypeOK SizeAccounts NoUnderflowBeforeFull Fifo ConnectionTypeOK FramesWhole SentWhole`, `FramesArrive` | chunks, partial writes, lost connections, failed copies, a ring that fills, refuses and is gone round |
| `cq_underflow` | 1 slot, 1 producer, 1 consumer | `NoUnderflow` is violated | a refused push lets `size` wrap |
| `connector` | 2 sessions, receive queue and socket buffer of 1, failing memory, fair | `TypeOK CounterBuilt KeyFitsSocket`, `ActsAsSession LossEndsListening DeadSocketNoticed` | two sessions after each other, with every late message and late close; a ticket serves one connection; a lost connection is always given up |
| `connector_stale` | the same, all kinds of messages | `ActivatedByThisConnection` is violated | an old ready ticket activates a new connection |
| `message` | ids of 2 bytes, 2 keys, every combination of encrypted, first, last, request and tag for 2 types, and the activation; names of 0, 1, 3, 4 bytes, of 258 in two messages | `TypeOK RoundTrip OnlyGenuine InBounds AckAnswers` | the layout, its checks and every damage of one byte, one flag or the length |
| `proxy` | 3 calls, bytes of 4 bits, 4 addresses, 2 project tokens, fair | `TypeOK TicketWhole TicketOfThisCall GenuineAccepted AddressSplit`, `PrepareReturns` | lost, damaged, mixed and repeated answers |
| `proxy_address` | 1 call, an address without a colon, fair | `PrepareReturns` is violated | the search never ends |

**Bounds and why they are enough.**  `counter`: a window of 2 with 7 tags lets a
tag fall behind, inside, in the next window and beyond it, several times; the
width and the number of tags are arbitrary in the theorems.  `delivery`: 3 messages
make the hub start a second window; 3 sessions give one that ends before the
device was activated, one that ends after, and the one that lasts; a receive queue
of 2 fills with a ready ticket and a message; the theorems have none of these bounds.
`queue`: 2 slots and
3 messages are the least with which the queue is full, a third message is refused,
and slots are reused out of order; 2-bit retry counters wrap within the run.
`connection`: a header of two bytes and bodies of three are cut at every place;
a queue of two slots holds two messages at a time, refuses the third, or, once one was
taken, puts it into the first slot again; larger queues and more producers are the
theorems' matter.  Bytes of three
values let a length of 3 need the second byte of the header, and the order of the two.  The messages of this run are too
short to wrap with their header; the theorems have those too.  `connector`: what goes
wrong between sessions goes wrong between two successive ones, and a receive queue
of one keeps a message of the old session for as long as the new one likes; the
theorems have no bound on sessions, queue or buffer.  `message`: lengths and flags
keep their 8 bits, so the long name is cut as in the code; the fixed parts are only
shorter.  `proxy`: bytes of 4 bits make an address of 19 characters as long for the
index as one of 256 and more; three calls give an answer of a call before the last
one a chance to be repeated.  `MaxIds`, `MaxPushes`, `MaxPops`, `MaxTickets`,
`MaxWire`, `MaxCalls`, `MaxFrames`, `MaxSends`, `MaxSessions`, `MaxMessages`, `MaxBoots`
are bounds that the code does not have; each stands in one guard, except
`MaxSessions` of `Delivery`, which also says that the last session lasts.

**Fairness.**  `main.cpp` starts both tasks in endless loops on two cores.
`Queue`: weak fairness of the listener's `Scan` and of a `push` that began; strong
fairness of `Tick`, since seconds pass between two scans and not only during one;
new messages are not assumed, so that `Drains` says what happens once none come.
`Connector`: weak fairness of each task; strong fairness of `StartActivation`,
because the timer elapses again and again (its differences are unsigned, so a
timestamp left in the other unit makes it elapse at once), and of a failing write
when the peer is gone, because TCP reports it in the end, though not at the first write.  A WiFi
that returns, a proxy that answers or a hub that sends are not assumed.
`Connection`: weak fairness of both tasks: `readBytes` returns when there is something
to read, `write` within its timeout, and `listen` takes messages out.  That a hub
sends or a connection lasts is not assumed.  `Delivery`: weak fairness of the device's
two tasks and of the hub; strong fairness for what must succeed when tried again and
again: a message finds room in the receive queue, a callback succeeds and its
acknowledgement gets out; likewise the hub's answer to an activation finds room in the
end if it is given infinitely often (the device asks every 3 seconds,
`connector.cpp:174`).  `Proxy`:
weak fairness of `prepare`'s own steps and of the timeout of a request
(`proxy.cpp:380`).

**Deadlock** is checked except where the model itself stops: the runs of `Connection` and
`ConcurrencyQueue`, `delivery` and those of `Proxy` after their bounded numbers of calls, those
of `Message` after its one message.

## What disagrees with the code's own words

* `queue_many`: `queue.cpp:21-22` lets many threads call `takeIndex`; each of them
  goes on to `pushMessage`, where test and store of a slot are two steps.
* `queue_ack`: `clearMessage(msgID)` (`cso_queue/interface.h:14`) treats the id of a
  message as the number of a slot.
* `cq_underflow`: the atomic `size` outside the lock is no mere optimisation
  (`concurrency_queue.h:22`): a refused push raises it for a moment.
* `connector_stale`: a flag that belongs to no connection is set by an old ready
  ticket (`connector.cpp:103-111`), and the new connection is never activated.
* `proxy_address`: the text for an invalid hub address (`error_code.cpp:79-80`) can
  never be reported, the search at `proxy.cpp:295` does not end.

Met on the way and kept as a condition of a property, named in its comment; unless one is
named, no run shows them, and the property does not catch them:

* After an allocation failed at the start of `loopListen`, the old socket stays open
  while the next session's key is set: `KeyFitsSocket` holds until then.
* With two consumers `size` goes below 0 without any refusal:
  `NoUnderflowBeforeFull` asks for one.
* `push` counts a slot (`concurrency_queue.h:30`) and claims it (`:33-38`) before it writes it
  (`:87`).  Even with one producer and one consumer, `pop` can claim the slot in between and
  swap out what was there before: an empty message, and the real one stays behind in
  a slot that the indices have passed.  `Fifo` and `FramesArrive` hold until such a race,
  which is the state variable `raced`.
* A frame of length 0 leaves the reader asking for 0 bytes for the rest of the
  session (`connection.cpp:77-82`): the header is read again at `seek` 0 with
  `length` 0.  `FramesArrive` excepts the frames behind it.
* A `sendMessage` that is writing while the reconnect task dials again goes on with the
  rest of its frame on the new connection (`connection.cpp:134`), and the longest
  lengths wrap with their header (`:133`).  `SentWhole` excepts both.
* A name of 257 bytes passes the test of its length as one of 1 byte (`parser.cpp:206`,
  `cipher.cpp:375`) and is not refused, as `error_code.cpp:114-115` has a text for, but
  shortened.  `RoundTrip` excepts names of 256 bytes and more.
* `mistaken` in `Delivery`: the answer to the activation of a connection that was
  left, handled late, makes the device take the next connection for activated; it
  never asks for its activation, and nothing arrives until the next session.
  `EventuallyDelivered` excepts it; it is the same disagreement as `connector_stale`.
* During the very first activation another task can find the flag set and no counter,
  which `CounterBuilt` excepts by the application task's place.

## Theorems

| module | theorem | for |
|---|---|---|
| `Counter_proofs` | `CounterTypeCorrect`, `CounterAtMostOnce`, `CounterAckedWasDelivered`, `CounterIdsDistinct`, `CounterNumbersInOrder` | any width of the window, tags, tickets, number of tasks |
| `Queue_proofs` | `QueueTypeCorrect`, `QueueLengthAccounts`, `QueuePushFindsSlot`, `QueueRetryBudget`, `QueueActsAsOutbox` | any capacity, retry arguments and width of their counter, one sender |
| `ConcurrencyQueue_proofs` | `ConcurrencyQueueTypeCorrect`, `ConcurrencyQueueSizeAccounts` | any capacity and finitely many producers and consumers |
| | `ConcurrencyQueueNoUnderflowBeforeFull`, `ConcurrencyQueueFifo` | any capacity and producers, one consumer |
| `Connection_proofs` | `ConnectionTypeCorrect`, `ConnectionFramesWhole`, `ConnectionSentWhole`, `ConnectionImplementsQueue`, `ConnectionFifo` | any buffer, base, lengths, chunks, sessions and failing copies |
| `Connector_proofs` | `ConnectorTypeCorrect`, `ConnectorSessionsInOrder`, `ConnectorCounterBuilt`, `ConnectorKeyFitsSocket`, `ConnectorActsAsSession` | any bounds and kinds of messages, failing memory too |
| `Delivery_proofs` | `DeliveryTypeCorrect`, `DeliveryWindowKnows`, `DeliveryActsAsMailbox` | any window, receive queue, messages, sessions and restarts |
| `Message_proofs` | `ParseOfBuilt`, `Genuine`, `MessageTypeCorrect`, `MessageRoundTrip`, `MessageOnlyGenuine`, `MessageInBounds`, `MessageAckAnswers` | any messages and keys, every layout that fits 8 and 16 bits |
| `Proxy_proofs` | `ProxyTypeCorrect`, `ProxyTicketOfThisCall`, `ProxyGenuineAccepted` | any project, tokens, addresses, calls and width of a byte |
| | `ProxyAddressSplit`, `ProxyTicketWhole` | the same, if the search can find the colon of every address (`Splittable`) |

Assumptions are those of the modules' ASSUMEs (TLC evaluates them in the runs):
capacities and widths are positive, sets of processes finite and disjoint, tags stay
away from the end of the 64-bit range (`FarFromWrap`, `DeliveryAssumption`), no task takes
2^64 ids, retry arguments are at least -1 and fit their counter, the positions inside a
message fit their 8 bits and its length 16 (`MessageAssumption`), a power has more than one
digit and no project token is shorter than a ticket's (`ProxyAssumption`).  Two theorems have a
hypothesis of their own, `Splittable` of every hub: its address has a colon before the port,
within the 8 bits of the index, and if the whole text is longer than those, no other colon.
The instance of `proxy` satisfies it; that of `proxy_address`, which does not, is the one whose
search never ends.

* **Counter.**  `AtMostOnce` is not inductive: that a tag was consumed must keep
  it from being taken again, so `WindowInv` adds that a consumed tag which did not
  jump lies behind the window or is marked in it.  `OrderInv` is its converse for
  `AckedWasDelivered`: everything behind the window and every mark stands for a
  message that was delivered or read before the ticket.  A tag has four places
  (`Behind`, `Inside`, `Ahead`, `FarAhead`); lemmas say what the code does in each.
  `IdsInv` ties `writeIndex` to the number of calls and to the phase of the
  holder of the lock; distinctness modulo the index space is a lemma of its own.
  For the refinement to `IdSource`, a call happens when the lock is given back: the
  holder's place tells whether `writeIndex` is already one ahead of what the next call to
  end returns (`NextToIssue`).
* **Queue.**  `CountInv` is `LengthAccounts` with the bound that a granted index
  brings.  `SearchInv` is why it is inductive: from where the sender's search
  stands, a free slot lies ahead, as only the sender fills slots.  It is this
  conjunct that two senders break.  `FateInv` carries `RetryBudget`: the counter
  of an item in a slot fits its budget and the attempts made (`Coherent`), the messages
  that are held are those in the slots, one in each (`SlotsInv`), and the numbers of a
  message that has left are final (`Ledger`).  With it every step of the
  queue maps to one of `Outbox` or changes nothing that `Outbox` knows; that there is room
  for an accepted message comes from the free slot of `SearchInv`.
* **ConcurrencyQueue.**  `Account` is `SizeAccounts` with the two cardinalities
  named; two lemmas say how a count changes when one process moves.  `FloorInv`
  adds to the floor that before a refusal the one consumer, between its test and its
  subtraction, sees a size of at least 1.  For `Fifo` the history is indexed by claims:
  the *k*-th claim, of `push` as of `pop`, is of slot (*k* - 1) modulo the capacity
  (`ClaimInv`).  `SlotInv` says what a slot holds until an access races: exactly the one
  value that was claimed for it, written and not yet taken, and of two claims that wait for
  the same slot only the first can be written.  So the value in the
  consumer's slot can be none but that of its own claim.
* **Connection.**  `FramesWhole` needs to know what the reader has before it and what it
  holds.  `StreamInv`: the bytes in the socket are the rest of a frame and whole frames
  after it, newer ones.  `ReaderInv`: the next byte is the one the reader expects, the
  bytes it gathered are those before it, and the length is two, or that of the frame whose
  byte comes next; so a chunk never reaches past its frame, the header's two bytes give
  the body's length back (by quotient and remainder of the base), and an ended session
  takes the half read frame with it.  `TakenInv` adds to `FramesWhole` that what was pushed is
  older than what is read.  Every step of the connection is one of `ConcurrencyQueue` or
  leaves its variables alone, so `Fifo` holds here by that module's theorem.
  `SentWhole` becomes inductive with the length that `WriteBytes` counts to, which is that of
  the frame unless it wrapped, and with the session of each message, which is no later than
  this one (`SentInv`).  That the frames written are the concatenation of those reported needs
  what `FlattenSeq` makes of a longer sequence: an induction, for which `Induction` gives the
  principle for sets of numbers.
* **Connector.**  `OrderInv`: key and ticket never decrease, and a message in hand
  carries a key between that of the last one acted on and the current one; so the
  moment between parsing and acting, in which the key may be replaced, does no harm.
  `KeyInv` follows the reconnect task from the registration to the open socket, and
  shows that `Connected` is only ever seen while it is in a connection.  `TypeInv`
  carries the types: that no message has session 0 rests on the order of
  `loopReconnect`, where the key is set before `isDisconnected` is cleared, without
  which no activation message is built; `CounterBuilt` is one of its conjuncts.
  For the refinement to `Session`, a registration waits for its connection while `rc` is
  between `prepare` and the end of dialling.  `OrderInv` bounds what is acted on, and
  `DialInv`, that a connection is dialled with the key of the last registration, is all it
  needs besides: unlike `KeyInv` it does not depend on memory, since every way back to
  dialling leads through `prepare`.  `SessionsInOrder`, which no run checks by itself, follows from
  the same steps.
* **Delivery.**  `WindowKnows` relates two windows that move on their own, the hub's and
  the device's.  `Tells` says of a window that it starts where the hub's does or one width
  earlier, and marks exactly a given set as read; the alignment is what makes
  `markReadDone`'s single slide enough.  `WindowInv` claims it of the device's window for
  what was handed over or confirmed, and that nothing else is being acknowledged;
  `InboxInv` of the ready ticket of this session from which a device without a counter
  will build one, for what is confirmed; `HubInv` that the hub knows only of messages that
  were handed over and has moved past none that it does not know of.  The
  refinement follows: a message that `markReadDone` takes for new was
  neither handed over since the start nor confirmed.
* **Message.**  `ParseOfBuilt` follows the builder's positions: header, seals, name and data
  are where the parser looks for them, and the bits of the flags come out of their sum again.
  For what may have been damaged, `Carried` says of a buffer that each cell of a
  signature, a tag or a ciphertext lies where it was put and all others are bytes or noise, which
  every damage preserves.  Such a cell is what makes `Genuine` true: the first one of the
  seal tells where the parser must have looked for it, so the flags say the same about tag and
  encryption as those of the message; what was signed is then the bytes read, and as the
  header has the same length on both sides it is the same header, hence the same name and data.
  The invariant of the run is one statement for each stage of the message.
* **Proxy.**  `AnswerInv` says what each step of `prepare` works with: one of the two keys
  whose signature fits (the proxy's, and one with a digit moved from the modulus to the public
  key, as the signature does not cover where the fields end: no request made with that one gets
  through), and an answer that carries the tag of some registration.  `TicketWhole` then rests on
  the additional data (`AadApart`): two bytes hold the number, and the digits of the public key
  say where the address ends, so that one such string is the beginning of another
  only if number and address agree, although its length is cut to 8 bits.  A digit moved from key to
  address changes the key that both ends agree on (`ShiftedRefused`).  `TicketOfThisCall` needs only that
  the private key is a new one: a key that opens a registration's token has its exponents (`OpensOwnCall`).  `AddressInv` keeps the search
  at or above the colon in a text that 8 bits can count; in a longer one, wherever it starts, the
  only colon it can meet is the right one.  `Text` and `Atoi` are inverse
  by induction over the digits.  `FaultInv` carries `GenuineAccepted` from step to step, by `KeysAgree`.

**Only model-checked:** all liveness (`Drains`, `LossEndsListening`,
`DeadSocketNoticed`, `FramesArrive`, `EventuallyDelivered`, `PrepareReturns`), which is
beyond the prover.  Every invariant and every safety action property of a passing run is stated by a
theorem.

## What is left out

* Names of 256 bytes and more (`RoundTrip` excepts them), additional data of 256
  bytes and more (`GenuineAccepted` excepts it), messages whose length exceeds 16
  bits, hub frames longer than the buffer, and project tokens shorter than the token of a
  ticket: named at the assumption or property that excludes each.
* Failing allocations in the parser and the builder; they return an error before
  anything changes.  Unchecked allocations in `proxy.cpp`.
* Ownership and lifetime of memory (`item.cpp:35`, the item freed inside
  `nextMessage`, the ticket replaced while a message is built from it).  What a stale
  read may yield is a choice where it changes what happens, such as which message
  `Queue` transmits.
* Two tasks that write frames at the same time: `main.cpp` sends from one.
* The pace of the two loops.  The one timer variable holds seconds for one branch of
  `listen` and microseconds for the other (`connector.cpp:174-188`); its differences are
  unsigned, so that a timestamp of the other unit only makes a branch come early, which
  the models allow anyway.
* A hub that is not the one assumed in `Delivery`: one that moves its window by less than a
  window's width, or that sends tags two windows ahead, as in `AtMostOnce`'s exception.
* `BigNum`, `Config`, `Error`, `Result`, `Array` and serial output keep no
  state that a property could be about.
* Strengths of ciphers: a seal, a signature or a power is a term.

## Plan

Done, in this order: `Counter`, `Queue`, `ConcurrencyQueue`, `Connector`,
`Message`, `Proxy`, their runs and proofs; then the frames (`Connection`), the
composition with a hub (`Delivery`), the abstract specifications with
their refinements, and the proofs of `Fifo`, `RetryBudget`, `Delivery` and `FramesWhole`; then
the proofs of `SentWhole`, `Message` and `Proxy`.  What could follow:

1. The other direction of `Delivery`: the retry queue with a hub that responds, once
   `clearMessage` knows its messages.
