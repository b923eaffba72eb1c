------------------------------ MODULE Message ------------------------------
(***************************************************************************)
(* message/cipher.cpp and cso_parser/parser.cpp: the layout of a message   *)
(* and how it is built, signed or encrypted, taken apart and checked, and  *)
(* the acknowledgement that Connector::listen makes of it.                 *)
(*                                                                         *)
(* A buffer is a sequence of cells.  A cell holds a byte or one piece of   *)
(* what mbedtls made: the i-th byte of a signature, of an authentication   *)
(* tag, of a ciphertext or of an iv.  Those are taken as terms that fit    *)
(* only the key and the bytes they were made for.  An id or tag is the     *)
(* sequence of its bytes, low byte first.                                  *)
(*                                                                         *)
(* One message travels at a time, from a builder that uses this format     *)
(* with some key, through a transport that may damage it, to a parser that *)
(* has this or another key.                                                *)
(***************************************************************************)
EXTENDS Integers, Sequences

CONSTANTS
  WordSize,    \* bytes of an id or a tag, 8 in the code
  LenIV, LenAuthenTag, LenSign,
  MaxName,     \* MAX_CONNECTION_NAME_LENGTH
  Messages,    \* arguments that createMessage is called with
  Keys

\* Number of values of a uint8_t and of a uint16_t.
ByteSpace == 256
SizeSpace == 65536

ByteCell == [byte : 0 .. ByteSpace - 1]
Word == [1 .. WordSize -> ByteCell]

\* The parameters of createMessage, by their types; 3 bits of the flags are left
\* for the type.
MessageSpace ==
  [id : Word, tag : Word, type : 0 .. 7, encrypted : BOOLEAN, first : BOOLEAN,
   last : BOOLEAN, request : BOOLEAN, name : Seq(ByteCell), data : Seq(ByteCell)]

\* Id of message, flags, length of name.
FixedLen == WordSize + 2

\* The positions of parseBytes and buildBytes fit their 8 bits, and the messages
\* their 16 bits: what happens to longer ones is not modelled here.
ASSUME MessageAssumption ==
  /\ {WordSize, LenIV, LenAuthenTag, LenSign, MaxName} \subseteq Nat \ {0}
  /\ FixedLen + WordSize + LenSign + MaxName < ByteSpace
  /\ FixedLen + WordSize + LenIV + LenAuthenTag + MaxName < ByteSpace
  /\ Messages \subseteq MessageSpace
  /\ \A m \in Messages : Len(m.data) + ByteSpace < SizeSpace

VARIABLES
  stage,            \* where the message is
  asked, builtWith, \* the message and the key it was built with
  buffer, damage,   \* the bytes on their way, and what happened to them
  checkedWith, got  \* the key of the parser, and what it returned
vars == <<stage, asked, builtWith, buffer, damage, checkedWith, got>>

\* Mutant: a number is not cut to its byte.
ByteWide(n) == [byte |-> n]
Byte(n) == [byte |-> n % ByteSpace]
Bytes(n) ==
  LET rest[i \in 1 .. WordSize] == IF i = 1 THEN n ELSE rest[i - 1] \div ByteSpace
  IN  [i \in 1 .. WordSize |-> Byte(rest[i])]
Zero == Bytes(0)

\* The bit of weight w.
Bit(n, w) == (n \div w) % 2 = 1
If(b, n) == IF b THEN n ELSE 0

-----------------------------------------------------------------------------
(***************************************************************************)
(* What mbedtls promises of HMAC-SHA256 and AES-GCM.                       *)
(***************************************************************************)
Hmac(key, raw) == [i \in 1 .. LenSign |-> [mac |-> key, of |-> raw, at |-> i]]

Seal(key, iv, aad, plain) == [key |-> key, iv |-> iv, aad |-> aad, plain |-> plain]
AuthenTag(seal) == [i \in 1 .. LenAuthenTag |-> [tag |-> seal, at |-> i]]
CipherText(seal) == [i \in 1 .. Len(seal.plain) |-> [part |-> seal, at |-> i]]

\* The plain text, or nothing.
Decrypt(key, data, aad, iv, tag) ==
  LET seals == {cell.tag : cell \in {c \in {tag[i] : i \in DOMAIN tag} : "tag" \in DOMAIN c}}
  IN  {s.plain : s \in {s \in seals : /\ s.key = key /\ s.aad = aad /\ s.iv = iv
                                      /\ tag = AuthenTag(s)
                                      /\ data = CipherText(s)}}

RandomIV == [i \in 1 .. LenIV |-> [random |-> i]]

-----------------------------------------------------------------------------
(***************************************************************************)
(* Building.                                                               *)
(***************************************************************************)
\* The length of a name is passed on in 8 bits.
LenName(name) == Len(name) % ByteSpace
NameFits(name) == LenName(name) \in 1 .. MaxName
NameBytes(name) == SubSeq(name, 1, LenName(name))

Activation == 2
GetMessageType(isGroup, isCached) ==
  IF isGroup THEN (IF isCached THEN 6 ELSE 4) ELSE (IF isCached THEN 5 ELSE 3)

Flags(m) == If(m.encrypted, 128) + If(m.first, 64) + If(m.last, 32)
            + If(m.request, 16) + If(m.tag # Zero, 8) + m.type

\* Mutant: the tag is left out of what is signed or authenticated.
HeaderNoTag(m) ==
  m.id \o <<Byte(Flags(m)), Byte(LenName(m.name))>>
Header(m) ==
  m.id \o <<Byte(Flags(m)), Byte(LenName(m.name))>>
       \o (IF m.tag # Zero THEN m.tag ELSE <<>>)

RawBytesNoTag(m) == HeaderNoTag(m) \o NameBytes(m.name) \o m.data
RawBytes(m) == Header(m) \o NameBytes(m.name) \o m.data
Aad(m) == Header(m) \o NameBytes(m.name)

\* buildCipherBytes and buildNoCipherBytes.
BuildBytes(m, seals, data) == Header(m) \o seals \o NameBytes(m.name) \o data

\* createMessage, of a message whose name fits.
CreateMessage(m, key) ==
  IF m.encrypted
  THEN LET seal == Seal(key, RandomIV, Aad(m), m.data)
       IN  BuildBytes(m, AuthenTag(seal) \o seal.iv, CipherText(seal))
  ELSE BuildBytes(m, Hmac(key, RawBytes(m)), m.data)

\* buildActiveMessage: its name is the number of the ticket.
ActiveMessage(name, ticket) ==
  [id |-> Zero, tag |-> Zero, type |-> Activation, encrypted |-> TRUE,
   first |-> TRUE, last |-> TRUE, request |-> TRUE, name |-> name, data |-> ticket]

-----------------------------------------------------------------------------
(***************************************************************************)
(* Taking apart.                                                           *)
(***************************************************************************)
\* Memory that does not belong to the buffer.
Outside == [outside |-> 0]
Cells(buf, from, n) ==
  [i \in 1 .. n |-> IF from + i <= Len(buf) THEN buf[from + i] ELSE Outside]

FlagsOf(buf) == buf[WordSize + 1].byte
LenNameOf(buf) == buf[WordSize + 2].byte
IsEncrypted(buf) == Bit(FlagsOf(buf), 128)

\* Mutant: the tag is skipped, but not when the seals are located.
PosSealsNoTag(buf) == FixedLen
PosSeals(buf) == FixedLen + If(Bit(FlagsOf(buf), 8), WordSize)
PosName(buf) == PosSeals(buf)
                + (IF IsEncrypted(buf) THEN LenAuthenTag + LenIV ELSE LenSign)
PosData(buf) == PosName(buf) + LenNameOf(buf)

\* Mutant: the length is not checked again for the signature (line 319).
WellFormedNoSign(buf) ==
  /\ Len(buf) >= FixedLen
  /\ Len(buf) >= PosSeals(buf)
  /\ LenNameOf(buf) \in 1 .. MaxName
  /\ Len(buf) >= PosSeals(buf) + If(IsEncrypted(buf), LenAuthenTag + LenIV) + LenNameOf(buf)

\* The checks of parseBytes.
WellFormed(buf) ==
  /\ Len(buf) >= FixedLen
  /\ Len(buf) >= PosSeals(buf)
  /\ LenNameOf(buf) \in 1 .. MaxName
  /\ Len(buf) >= PosData(buf)

\* What parseBytes reads from the buffer.
Fields(buf) ==
  LET flags == FlagsOf(buf)
      pos == PosSeals(buf)
  IN [id |-> Cells(buf, 0, WordSize),
      tag |-> IF Bit(flags, 8) THEN Cells(buf, FixedLen, WordSize) ELSE Zero,
      type |-> flags % 8,
      encrypted |-> Bit(flags, 128), first |-> Bit(flags, 64),
      last |-> Bit(flags, 32), request |-> Bit(flags, 16),
      authenTag |-> IF Bit(flags, 128) THEN Cells(buf, pos, LenAuthenTag) ELSE <<>>,
      iv |-> IF Bit(flags, 128) THEN Cells(buf, pos + LenAuthenTag, LenIV) ELSE <<>>,
      sign |-> IF Bit(flags, 128) THEN <<>> ELSE Cells(buf, pos, LenSign),
      name |-> Cells(buf, PosName(buf), LenNameOf(buf)),
      data |-> Cells(buf, PosData(buf), (Len(buf) - PosData(buf) + SizeSpace) % SizeSpace)]

Refused == [ok |-> FALSE]

\* parseReceivedMessage.  A decrypted message is no longer marked encrypted.
ParseReceivedMessage(buf, key) ==
  IF ~WellFormed(buf) THEN Refused
  ELSE LET m == Fields(buf)
           plain == Decrypt(key, m.data, Aad(m), m.iv, m.authenTag)
       IN  IF m.encrypted
           THEN IF plain = {} THEN Refused
                ELSE [ok |-> TRUE,
                      msg |-> [m EXCEPT !.data = CHOOSE p \in plain : TRUE,
                                        !.encrypted = FALSE]]
           ELSE IF m.sign = Hmac(key, RawBytes(m)) THEN [ok |-> TRUE, msg |-> m]
                ELSE Refused

-----------------------------------------------------------------------------
Init ==
  /\ stage = "idle"
  /\ asked \in Messages /\ builtWith \in Keys
  /\ buffer = <<>> /\ damage = "none"
  /\ checkedWith \in Keys /\ got = Refused

\* buildMessage, buildGroupMessage, buildActiveMessage.
Build ==
  /\ stage = "idle"
  /\ IF NameFits(asked.name)
     THEN stage' = "built" /\ buffer' = CreateMessage(asked, builtWith)
     ELSE stage' = "refused" /\ UNCHANGED buffer
  /\ UNCHANGED <<asked, builtWith, damage, checkedWith, got>>

\* The transport changes one byte, or one bit of the flags, or cuts the end
\* off, or goes on after it.
Weights == {1, 2, 4, 8, 16, 32, 64, 128}
Changed(cell) == IF "byte" \in DOMAIN cell THEN Byte(cell.byte + 1) ELSE [noise |-> 0]
Flipped(n, w) == IF Bit(n, w) THEN n - w ELSE n + w

Damage ==
  /\ stage = "built" /\ damage = "none"
  /\ \/ /\ damage' = "change"
        /\ \E i \in DOMAIN buffer : buffer' = [buffer EXCEPT ![i] = Changed(@)]
     \/ /\ damage' = "flip"
        /\ \E w \in Weights :
             buffer' = [buffer EXCEPT ![WordSize + 1].byte = Flipped(@, w)]
     \/ /\ damage' = "cut"
        /\ \E n \in 0 .. Len(buffer) - 1 : buffer' = SubSeq(buffer, 1, n)
     \/ /\ damage' = "more"
        /\ buffer' = Append(buffer, Byte(0))
  /\ UNCHANGED <<stage, asked, builtWith, checkedWith, got>>

Receive ==
  /\ stage = "built"
  /\ stage' = "received"
  /\ got' = ParseReceivedMessage(buffer, checkedWith)
  /\ UNCHANGED <<asked, builtWith, buffer, damage, checkedWith>>

\* Mutant: the tag of the request is not repeated.
AckOfNoTag(m) ==
  [id |-> m.id, tag |-> Zero, type |-> GetMessageType(FALSE, FALSE),
   encrypted |-> m.encrypted, first |-> TRUE, last |-> TRUE, request |-> FALSE,
   name |-> m.name, data |-> <<>>]

\* connector.cpp:150-161.
AckOf(m) ==
  [id |-> m.id, tag |-> m.tag, type |-> GetMessageType(FALSE, FALSE),
   encrypted |-> m.encrypted, first |-> TRUE, last |-> TRUE, request |-> FALSE,
   name |-> m.name, data |-> <<>>]

Acknowledge ==
  /\ stage = "received"
  /\ got.ok /\ got.msg.type # Activation
  /\ got.msg.request /\ got.msg.id # Zero
  /\ stage' = "acknowledged"
  /\ buffer' = CreateMessage(AckOf(got.msg), checkedWith)
  /\ UNCHANGED <<asked, builtWith, damage, checkedWith, got>>

\* The hub takes the acknowledgement apart.
HubReceives ==
  /\ stage = "acknowledged"
  /\ stage' = "answered"
  /\ got' = ParseReceivedMessage(buffer, builtWith)
  /\ UNCHANGED <<asked, builtWith, buffer, damage, checkedWith>>

Next == Build \/ Damage \/ Receive \/ Acknowledge \/ HubReceives

Spec == Init /\ [][Next]_vars

-----------------------------------------------------------------------------
TypeOK ==
  /\ stage \in {"idle", "refused", "built", "received", "acknowledged", "answered"}
  /\ asked \in Messages
  /\ builtWith \in Keys /\ checkedWith \in Keys
  /\ Len(buffer) < SizeSpace
  /\ \A i \in DOMAIN buffer :
       "byte" \in DOMAIN buffer[i] => buffer[i].byte \in 0 .. ByteSpace - 1
  /\ damage \in {"none", "change", "flip", "cut", "more"}
  /\ got.ok \in BOOLEAN

Same(m, n) ==
  /\ m.id = n.id /\ m.tag = n.tag /\ m.type = n.type
  /\ m.first = n.first /\ m.last = n.last /\ m.request = n.request
  /\ m.name = n.name /\ m.data = n.data

\* A message that arrives as it was sent, at a parser with the right key, is
\* taken apart into what it was built from, for every combination of flags,
\* with and without tag, encrypted or signed, down to no data at all; a name too
\* short or too long is refused when building.  Names of 256 bytes and more are
\* excepted: their length is cut to 8 bits (parser.cpp:206, cipher.cpp:373).
RoundTrip ==
  Len(asked.name) < ByteSpace =>
    /\ stage = "refused" => Len(asked.name) \notin 1 .. MaxName
    /\ stage = "received" /\ damage = "none" /\ checkedWith = builtWith
         => got.ok /\ Same(got.msg, asked)

\* What the parser accepts is what somebody with its key built, to the last bit:
\* the signature and the additional data cover every field (cipher.cpp:373-476),
\* also after a damaged flag or length moved all the others.
OnlyGenuine ==
  stage = "received" /\ got.ok => damage = "none" /\ checkedWith = builtWith

\* parseBytes never reads past the end of what it was given, whatever was cut
\* off and whatever the flags and the length of the name now say.
InBounds ==
  WellFormed(buffer) =>
    LET m == Fields(buffer) IN
    \A cells \in {m.id, m.tag, m.authenTag, m.iv, m.sign, m.name, m.data} :
      Outside \notin {cells[i] : i \in DOMAIN cells}

\* The acknowledgement of a request is accepted by the hub, carries the id and
\* the tag of the request, and is never encrypted: parseReceivedMessage has
\* cleared the mark that connector.cpp:156 passes on.
AckAnswers ==
  /\ stage = "acknowledged" => ~IsEncrypted(buffer)
  /\ stage = "answered" =>
       /\ got.ok /\ ~got.msg.request
       /\ got.msg.id = asked.id /\ got.msg.tag = asked.tag
       /\ got.msg.data = <<>>
=============================================================================
