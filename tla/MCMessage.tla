----------------------------- MODULE MCMessage -----------------------------
(* Instance of Message for TLC.  The layout is scaled down (2 bytes for an  *)
(* id, 1 for an iv, ...); flags and lengths keep their 8 bits.              *)
EXTENDS Message

\* Names that are empty, of one byte, as long as allowed, and too long.
MCName(n) == [i \in 1 .. n |-> Byte(97 + (i % 26))]
MCNames == {MCName(n) : n \in {0, 1, MaxName, MaxName + 1}}

MCWord(low, next) ==
  [i \in 1 .. WordSize |-> Byte(IF i = 1 THEN low ELSE IF i = 2 THEN next ELSE 0)]

MCData == <<Byte(0), Byte(7), Byte(255)>>
MCIdsAndData ==
  {<<Zero, MCData>>, <<MCWord(2, 1), MCData>>, <<MCWord(1, 0), <<>>>>}

MCMessage(x, tag, group, encrypted, first, last, request, name) ==
  [id |-> x[1], tag |-> tag, type |-> GetMessageType(group, group),
   encrypted |-> encrypted, first |-> first, last |-> last, request |-> request,
   name |-> name, data |-> x[2]]

\* Every combination of the flags for the names above; a name too long for the 8
\* bits of its length, signed and encrypted.
MCMessages ==
  {ActiveMessage(MCName(2), MCData)} \cup
  {MCMessage(x, tag, group, encrypted, first, last, request, name) :
      x \in MCIdsAndData, tag \in {Zero, MCWord(0, 1)},
      group \in BOOLEAN, encrypted \in BOOLEAN,
      first \in BOOLEAN, last \in BOOLEAN, request \in BOOLEAN, name \in MCNames} \cup
  {MCMessage(<<MCWord(2, 1), MCData>>, Zero, FALSE, encrypted, TRUE, TRUE, TRUE, MCName(258)) :
      encrypted \in BOOLEAN}
=============================================================================
