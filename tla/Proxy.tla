------------------------------- MODULE Proxy -------------------------------
(***************************************************************************)
(* Connector::prepare and cso_proxy/proxy.cpp: how the reconnect task gets *)
(* a ticket for the hub from the proxy, in two HTTP requests:              *)
(*   exchangeKey         the proxy's Diffie-Hellman key, signed            *)
(*   registerConnection  the project's token, encrypted, for a ticket,     *)
(*                       encrypted with a key agreed on for it             *)
(* Either request may fail, and an answer may be lost, damaged or an older *)
(* one.                                                                    *)
(*                                                                         *)
(* Texts and byte strings are sequences of cells.  A cell is a byte or one *)
(* digit or byte of a result of mbedtls: of a power, of a ciphertext.      *)
(* Powers are terms that know their exponents; a signature and an          *)
(* authentication tag fit only what they were made for.                    *)
(***************************************************************************)
EXTENDS Integers, SequencesExt

CONSTANTS
  ByteSpace, PortSpace,        \* number of values of a uint8_t, a uint16_t
  KeyLen,                      \* digits of a power
  TokenSize,                   \* bytes of a ticket's token, 32 in the code
  ProjectID, ConnectionName,   \* texts of the configuration
  ProjectTokens,               \* decoded tokens the configuration may hold
  Hubs,                        \* what the proxy may send as hub address
  MaxCalls                     \* bound on the calls of prepare

Char(n) == [byte |-> n]
Bytes == [byte : Nat]
Colon == Char(58)
Digits == {Char(n) : n \in 48 .. 57}

\* An address and a port, with a colon between them or without one.
Addresses == [ip : Seq(Bytes), sep : {<<Colon>>, <<>>}, port : 0 .. PortSpace - 1]

\* A project token shorter than the token of a ticket makes a buffer that is too
\* short for the latter (proxy.cpp:467-468 and 336); that is not modelled.
ASSUME ProxyAssumption ==
  /\ ByteSpace \in Nat \ {0} /\ PortSpace \in Nat \ {0}
  /\ KeyLen \in Nat \ {0, 1} /\ TokenSize \in Nat \ {0} /\ MaxCalls \in Nat
  /\ ProjectID \in Seq(Bytes) /\ ConnectionName \in Seq(Bytes)
  /\ ProjectTokens \subseteq Seq(Bytes) /\ Hubs \subseteq Addresses
  /\ \A token \in ProjectTokens : Len(token) >= TokenSize

VARIABLES
  step,                   \* where prepare is
  calls, result,          \* calls of prepare so far, and how the last one ended
  projectToken,           \* Config::projectToken, decoded
  serverKey, privKey,     \* of registerConnection
  token,                  \* the buffer that holds first the one token, then the other
  request, answer,        \* HTTP
  idx, index,             \* of the search for the port
  serverTicket,           \* Connector::serverTicket
  issued,                 \* what the proxy has registered
  faults                  \* whether anything failed since prepare was called
vars == <<step, calls, result, projectToken, serverKey, privKey, token,
          request, answer, idx, index, serverTicket, issued, faults>>

NoTicket == [id |-> 0]
None == [none |-> TRUE]
Errors == {"HTTP", "ResponseEmpty", "ArduinoJSON", "Server"}

-----------------------------------------------------------------------------
(***************************************************************************)
(* Numbers, keys and seals.                                                *)
(***************************************************************************)
Power(base, exps, mod) ==
  [i \in 1 .. KeyLen |-> [digit |-> i, base |-> base, exps |-> exps, mod |-> mod]]

\* BigNum::powMod, and the digits of the result.
PowMod(base, x, mod) ==
  LET d == Head(base) IN
  IF "digit" \in DOMAIN d /\ d.mod = mod /\ base = Power(d.base, d.exps, mod)
  THEN Power(d.base, d.exps \cup {x}, mod)
  ELSE Power(base, {x}, mod)

CalcPublicKey(key, priv) == PowMod(key.g, priv, key.n)

\* A hash of the digits, taken as the digits.
CalcSecretKey(n, priv, pub) == PowMod(pub, priv, n)

\* The length of the additional data is passed on in 8 bits.
Cut(aad) == SubSeq(aad, 1, Len(aad) % ByteSpace)

Seal(key, aad, plain) == [key |-> key, aad |-> aad, plain |-> plain]
CipherText(seal) == [i \in 1 .. Len(seal.plain) |-> [part |-> seal, at |-> i]]

\* Mutant: the tag is not compared with the additional data.
DecryptsNoAad(key, data, aad, tag) ==
  key = tag.key /\ data = CipherText(tag)

\* UtilsAES::decrypt succeeds, and then the plain text is the one of the tag.
Decrypts(key, data, aad, tag) ==
  key = tag.key /\ data = CipherText(tag) /\ Cut(aad) = tag.aad

ClientAad(pub) == ProjectID \o ConnectionName \o pub
ServerAad(a) == <<Char(a.id % ByteSpace), Char(a.id \div ByteSpace)>> \o a.hub \o a.pub

VerifyDHKeys(a) == a.sign = [signed |-> a.g \o a.n \o a.pub]

\* registerConnection up to its request, and buildEncyptToken.
Request(key, priv) ==
  LET pub == CalcPublicKey(key, priv)
      seal == Seal(CalcSecretKey(key.n, priv, key.pub), Cut(ClientAad(pub)), projectToken)
  IN  [pub |-> pub, token |-> CipherText(seal), tag |-> seal]

-----------------------------------------------------------------------------
(***************************************************************************)
(* The proxy and the network.                                              *)
(***************************************************************************)
GKey == <<Char(50)>>
NKey == <<Char(57), Char(55)>>
ProxyKey == 0                 \* the private key behind exchangeKey
TicketKey(id) == -id          \* the private key of a registration

Text(n) == LET s[k \in 0 .. n] == IF k < 10 THEN <<Char(48 + k)>>
                                   ELSE s[k \div 10] \o <<Char(48 + (k % 10))>>
           IN  s[n]
HubText(hub) == hub.ip \o hub.sep \o Text(hub.port)

KeyAnswer ==
  LET pub == Power(GKey, {ProxyKey}, NKey)
  IN  [g |-> GKey, n |-> NKey, pub |-> pub, sign |-> [signed |-> GKey \o NKey \o pub]]

\* Another public key, or a digit on the other side of a boundary.
BadKeyAnswers ==
  {[KeyAnswer EXCEPT !.pub = Power(GKey, {ProxyKey + 1}, NKey)],
   [KeyAnswer EXCEPT !.n = Front(@), !.pub = <<Last(NKey)>> \o @]}

TicketToken(id) == [i \in 1 .. TokenSize |-> [ticket |-> id, at |-> i]]

TicketAnswer(id, hub, clientPub) ==
  LET pub == Power(GKey, {TicketKey(id)}, NKey)
      a == [id |-> id, hub |-> HubText(hub), pub |-> pub]
      seal == Seal(PowMod(clientPub, TicketKey(id), NKey), ServerAad(a), TicketToken(id))
  IN  [id |-> id, hub |-> a.hub, pub |-> pub, token |-> CipherText(seal), tag |-> seal]

\* One field of another answer, or a digit on the other side of a boundary.
BadTicketAnswers(a) ==
  {[a EXCEPT !.id = @ + 1], [a EXCEPT !.pub = Power(GKey, {1}, NKey)],
   [a EXCEPT !.hub = Append(@, Head(a.pub)), !.pub = Tail(@)],
   [a EXCEPT !.token = Front(@)]}
  \cup {[a EXCEPT !.hub = HubText(hub)] : hub \in Hubs}
  \cup {[a EXCEPT !.token = r.answer.token, !.tag = r.answer.tag] : r \in issued}
  \cup {r.answer : r \in issued}

\* exchangeKey is answered, whatever arrives of it.
AnswerKey ==
  /\ step = "exchange" /\ answer = None
  /\ \/ answer' = KeyAnswer /\ UNCHANGED faults
     \/ answer' \in BadKeyAnswers \cup [error : Errors] /\ faults' = TRUE
  /\ UNCHANGED <<step, calls, result, projectToken, serverKey, privKey, token,
                 request, idx, index, serverTicket, issued>>

\* The proxy finds the token of the project in the request.
TokenArrives ==
  /\ request.token = CipherText(request.tag)
  /\ request.tag = Seal(PowMod(request.pub, ProxyKey, NKey),
                        ClientAad(request.pub), projectToken)

\* registerConnection is answered.  The ticket exists, whether or not the answer
\* arrives.
AnswerTicket ==
  /\ step = "register" /\ request # None
  /\ request' = None
  /\ IF TokenArrives
     THEN \E hub \in Hubs :
            LET a == TicketAnswer(calls, hub, request.pub) IN
            /\ issued' = issued \cup {[answer |-> a, hub |-> hub, clientPub |-> request.pub]}
            /\ \/ answer' = a /\ UNCHANGED faults
               \/ answer' \in BadTicketAnswers(a) \cup [error : Errors] /\ faults' = TRUE
               \/ UNCHANGED answer /\ faults' = TRUE
     ELSE answer' = [error |-> "Server"] /\ UNCHANGED <<issued, faults>>
  /\ UNCHANGED <<step, calls, result, projectToken, serverKey, privKey, token,
                 idx, index, serverTicket>>

-----------------------------------------------------------------------------
(***************************************************************************)
(* prepare, from one HTTP request to the next.                             *)
(***************************************************************************)
Return(code) ==
  /\ step' = "idle" /\ result' = code
  /\ request' = None /\ answer' = None
  /\ serverKey' = None /\ privKey' = 0 /\ token' = <<>>
  /\ idx' = 0 /\ index' = 0

\* exchangeKey up to its request.
StartExchange ==
  /\ step = "idle" /\ calls < MaxCalls
  /\ step' = "exchange" /\ calls' = calls + 1 /\ result' = "none" /\ faults' = FALSE
  /\ UNCHANGED <<projectToken, serverKey, privKey, token, request, answer,
                 idx, index, serverTicket, issued>>

\* Mutant: a request never times out.
HttpWaits == FALSE

\* sendPOST without an answer: no server, or the 20 seconds are over.
HttpFails ==
  /\ step \in {"exchange", "register"} /\ answer = None
  /\ Return("HTTP") /\ faults' = TRUE
  /\ UNCHANGED <<calls, projectToken, serverTicket, issued>>

\* sendPOST with another status than 200, nothing or no JSON in the answer, or
\* another returncode than 1.
Refused ==
  /\ answer \in [error : Errors]
  /\ Return(answer.error)
  /\ UNCHANGED <<calls, projectToken, serverTicket, issued, faults>>

\* Mutant: the private key is kept from call to call.
PrivateKeyOnce == 1
\* Of esp_random: a new one.
PrivateKey == calls

\* exchangeKey from its answer, and registerConnection up to its request.
TakeKeys ==
  /\ step = "exchange" /\ "g" \in DOMAIN answer
  /\ IF VerifyDHKeys(answer)
     THEN LET key == [g |-> answer.g, n |-> answer.n, pub |-> answer.pub] IN
          /\ step' = "register"
          /\ serverKey' = key /\ privKey' = PrivateKey
          /\ request' = Request(key, PrivateKey) /\ token' = request'.token
          /\ answer' = None
          /\ UNCHANGED <<result, idx, index>>
     ELSE Return("VerifyRSAFailed")
  /\ UNCHANGED <<calls, projectToken, serverTicket, issued, faults>>

\* registerConnection from its answer to the search for the colon.
TakeAnswer ==
  /\ step = "register" /\ "hub" \in DOMAIN answer
  /\ step' = "search" /\ idx' = (Len(answer.hub) - 1) % ByteSpace
  /\ UNCHANGED <<calls, result, projectToken, serverKey, privKey, token,
                 request, answer, index, serverTicket, issued, faults>>

\* Mutant: the index of the loop has more than 8 bits.
DownWide(i) == i - 1
Down(i) == (i - 1 + ByteSpace) % ByteSpace

\* proxy.cpp:295-300.  The index wraps, so the loop goes on below 0; and what lies
\* after the address is memory of the JSON document.
Search ==
  /\ step = "search"
  /\ \E cell \in IF idx < Len(answer.hub) THEN {answer.hub[idx + 1]}
                ELSE {Char(0), Colon} :
       IF cell = Colon
       THEN step' = "decrypt" /\ index' = idx /\ UNCHANGED idx
       ELSE idx' = Down(idx) /\ UNCHANGED <<step, index>>
  /\ UNCHANGED <<calls, result, projectToken, serverKey, privKey, token,
                 request, answer, serverTicket, issued, faults>>

\* atoi, into 16 bits.
Atoi(text) ==
  LET value[i \in 0 .. Len(text)] ==
        IF i = 0 THEN 0 ELSE 10 * value[i - 1] + text[i].byte - 48
      isNumber(i) == \A j \in 1 .. i : text[j] \in Digits
  IN  value[CHOOSE i \in 0 .. Len(text) :
              isNumber(i) /\ (i < Len(text) => ~isNumber(i + 1))] % PortSpace

\* Mutant: the colon stays with the address.
HubIPWithColon(hub, i) == SubSeq(hub, 1, i + 1)
HubIP(hub, i) == [k \in 1 .. i |-> IF k <= Len(hub) THEN hub[k] ELSE Char(0)]
HubPort(hub, i) == Atoi(SubSeq(hub, i + 2, Len(hub)))

\* Mutant: the key of the token is made with the other public key of the proxy.
TicketSecretExchanged(a) == CalcSecretKey(serverKey.n, privKey, serverKey.pub)
TicketSecret(a) == CalcSecretKey(serverKey.n, privKey, a.pub)

\* Ticket::buildBytes: the first bytes of the buffer, which has the size of the
\* project's token.
BuildBytes(id, buf) ==
  <<Char(id % ByteSpace), Char(id \div ByteSpace)>> \o SubSeq(buf, 1, TokenSize)

\* registerConnection after the search, and the end of prepare.
Finish ==
  /\ step = "decrypt"
  /\ LET key == TicketSecret(answer)
         plain == answer.tag.plain
     IN  IF Decrypts(key, answer.token, ServerAad(answer), answer.tag)
         THEN /\ serverTicket' = [id |-> answer.id,
                                  ip |-> HubIP(answer.hub, index),
                                  port |-> HubPort(answer.hub, index),
                                  key |-> key,
                                  bytes |-> BuildBytes(answer.id,
                                              plain \o SubSeq(token, Len(plain) + 1, Len(token)))]
              /\ Return("Nil")
         ELSE Return("MbedTLS") /\ UNCHANGED serverTicket
  /\ UNCHANGED <<calls, projectToken, issued, faults>>

\* Any checked allocation fails; result and answer are lost.
NoMemory ==
  /\ step \in {"exchange", "register", "decrypt"}
  /\ step = "register" => answer # None
  /\ answer \notin [error : Errors]
  /\ Return("NotEnoughMemory") /\ faults' = TRUE
  /\ UNCHANGED <<calls, projectToken, serverTicket, issued>>

Init ==
  /\ step = "idle" /\ calls = 0 /\ result = "none" /\ faults = FALSE
  /\ projectToken \in ProjectTokens
  /\ serverKey = None /\ privKey = 0 /\ token = <<>>
  /\ request = None /\ answer = None /\ idx = 0 /\ index = 0
  /\ serverTicket = NoTicket /\ issued = {}

Prepare == Refused \/ TakeKeys \/ TakeAnswer \/ Search \/ Finish

Next == StartExchange \/ Prepare \/ HttpFails \/ NoMemory \/ AnswerKey \/ AnswerTicket

Spec == Init /\ [][Next]_vars
FairSpec == Spec /\ WF_vars(Prepare) /\ WF_vars(HttpFails)

-----------------------------------------------------------------------------
TypeOK ==
  /\ step \in {"idle", "exchange", "register", "search", "decrypt"}
  /\ calls \in 0 .. MaxCalls /\ privKey \in 0 .. MaxCalls
  /\ result \in {"none", "Nil", "NotEnoughMemory", "VerifyRSAFailed", "MbedTLS"} \cup Errors
  /\ projectToken \in ProjectTokens
  /\ idx \in 0 .. ByteSpace - 1 /\ index \in 0 .. ByteSpace - 1
  /\ Len(token) \in {0, Len(projectToken)}
  /\ faults \in BOOLEAN

\* A ticket that prepare accepted is one the proxy registered in answer to this
\* device, complete: address, port, number, token and key are those of one
\* registration, with the proxy's own key at both ends.  No answer that was
\* damaged, mixed from two or repeated from an earlier call gets through
\* (proxy.cpp:277-345).
TicketWhole ==
  serverTicket # NoTicket =>
    \E r \in issued :
      /\ serverTicket.id = r.answer.id
      /\ serverTicket.ip = r.hub.ip /\ serverTicket.port = r.hub.port
      /\ serverTicket.key = PowMod(r.clientPub, TicketKey(r.answer.id), NKey)
      /\ serverTicket.bytes =
           <<Char(r.answer.id % ByteSpace), Char(r.answer.id \div ByteSpace)>>
           \o TicketToken(r.answer.id)

\* When prepare succeeds, the ticket is the one that this call registered, not one
\* of an earlier call whose answer was repeated, as a whole or in the seal of its
\* token: what the proxy encrypted for one request cannot be read by the next, which
\* has another private key (proxy.cpp:132, 323, utils_dh.cpp:11).
TicketOfThisCall == result = "Nil" => serverTicket.id = calls

\* What was asked for is obtained: if both requests are answered as the proxy
\* meant it and memory suffices, prepare ends with a ticket of this call.
\* Excepted are texts so long that the additional data needs more than 8 bits
\* (utils_aes.cpp:9 and 41), which no peer can then verify.
GenuineAccepted ==
  /\ step = "idle" /\ calls > 0 /\ ~faults
  /\ Len(ProjectID) + Len(ConnectionName) + KeyLen < ByteSpace
  /\ \A r \in issued :
       r.answer.id = calls => 2 + Len(r.answer.hub) + KeyLen < ByteSpace
  => result = "Nil" /\ serverTicket.id = calls

\* The search finds the last colon, also in an address longer than the 8 bits of
\* its index, where it starts in the middle and wraps: as long as the colon
\* itself is within them and no other one comes first.
AddressSplit ==
  step = "decrypt" =>
    \A r \in issued :
      answer = r.answer => /\ HubIP(answer.hub, index) = r.hub.ip
                           /\ HubPort(answer.hub, index) = r.hub.port

\* Every call of prepare returns, so that loopReconnect goes on to connect or to
\* try again, whatever the network does.
PrepareReturns == (step # "idle") ~> (step = "idle")
=============================================================================
