---------------------------- MODULE Proxy_proofs ----------------------------
(***************************************************************************)
(* Proofs about Proxy: which tickets prepare accepts, where it splits the  *)
(* address of the hub, and that without a fault it gets its ticket.        *)
(***************************************************************************)
EXTENDS Proxy, WellFoundedInduction, TLAPS

LEMMA LeastNumber ==
  ASSUME NEW T, T \subseteq Nat, T # {}
  PROVE  \E x \in T : \A y \in T : x <= y
<1>. DEFINE R == OpToRel(<, Nat)
<1>1. IsWellFoundedOn(R, Nat)
  BY NatLessThanWellFounded
<1>2. \A y, x \in Nat : <<y, x>> \in R <=> y < x
  BY DEF OpToRel
<1>. HIDE DEF R
<1>3. PICK x \in T : \A y \in T : ~ (<<y, x>> \in R)
  BY <1>1, WFMin
<1>4. ASSUME NEW y \in T  PROVE x <= y
  <2>1. x \in Nat /\ y \in Nat
    OBVIOUS
  <2>2. ~ (y < x)
    BY <1>2, <1>3, <2>1, Zenon
  <2>. QED  BY <2>1, <2>2
<1>. QED  BY <1>4

LEMMA Induction ==
  ASSUME NEW S, 0 \in S, \A n \in Nat : n \in S => n + 1 \in S
  PROVE  Nat \subseteq S
<1>. SUFFICES ASSUME Nat \ S # {}  PROVE FALSE
  OBVIOUS
<1>1. PICK x \in Nat \ S : \A y \in Nat \ S : x <= y
  BY LeastNumber
<1>2. x - 1 \in Nat /\ x - 1 < x /\ (x - 1) + 1 = x
  OBVIOUS
<1>. QED  BY <1>1, <1>2

-----------------------------------------------------------------------------
(***************************************************************************)
(* The number that a text stands for: Atoi reads what Text writes.         *)
(***************************************************************************)
\* v gives the number that the first i characters stand for.
Reads(v, text) ==
  v = [i \in 0 .. Len(text) |-> IF i = 0 THEN 0 ELSE 10 * v[i - 1] + text[i].byte - 48]

\* A text of at least one digit that stands for n, and for nothing else.
Stands(text, n) ==
  /\ text \in Seq(Digits) /\ Len(text) > 0
  /\ \A v : Reads(v, text) => v[Len(text)] = n

LEMMA CharFields == \A n : Char(n).byte = n
BY DEF Char

LEMMA CharsDiffer == \A n, m : Char(n) = Char(m) => n = m
<1>. SUFFICES ASSUME NEW n, NEW m, Char(n) = Char(m)  PROVE n = m
  OBVIOUS
<1>1. Char(n).byte = n /\ Char(m).byte = m
  BY CharFields
<1>. QED  BY <1>1

LEMMA DigitFields ==
  /\ \A d \in Digits : d \in Bytes /\ d # Colon /\ d.byte \in Nat
  /\ \A n \in 0 .. 9 : Char(48 + n) \in Digits
<1>1. ASSUME NEW d \in Digits  PROVE d \in Bytes /\ d # Colon /\ d.byte \in Nat
  <2>1. PICK n \in 48 .. 57 : d = Char(n)
    BY DEF Digits
  <2>2. d.byte = n /\ Colon.byte = 58
    BY <2>1, CharFields DEF Colon
  <2>3. d \in Bytes
    BY <2>1 DEF Char, Bytes
  <2>. QED  BY <2>2, <2>3
<1>2. ASSUME NEW n \in 0 .. 9  PROVE Char(48 + n) \in Digits
  <2>1. 48 + n \in 48 .. 57
    OBVIOUS
  <2>. QED  BY <2>1 DEF Digits
<1>. QED  BY <1>1, <1>2

LEMMA ReadsAt ==
  ASSUME NEW v, NEW text, Reads(v, text), NEW i \in 0 .. Len(text)
  PROVE  v[i] = IF i = 0 THEN 0 ELSE 10 * v[i - 1] + text[i].byte - 48
BY Zenon DEF Reads

LEMMA ReadsExist ==
  ASSUME NEW text, Len(text) \in Nat
  PROVE  \E v : Reads(v, text)
<1>. DEFINE IsUpTo(v, n) ==
       v = [i \in 0 .. n |-> IF i = 0 THEN 0 ELSE 10 * v[i - 1] + text[i].byte - 48]
<1>. DEFINE S == {n \in Nat : \E v : IsUpTo(v, n)}
<1>1. 0 \in S
  <2>1. IsUpTo([i \in 0 .. 0 |-> 0], 0)
    OBVIOUS
  <2>. QED  BY <2>1
<1>2. ASSUME NEW n \in Nat, n \in S  PROVE n + 1 \in S
  <2>1. PICK v : IsUpTo(v, n)
    BY <1>2
  <2>. DEFINE w == [i \in 0 .. n + 1 |->
                      IF i <= n THEN v[i] ELSE 10 * v[i - 1] + text[i].byte - 48]
  <2>2. ASSUME NEW i \in 0 .. n + 1
        PROVE  w[i] = IF i = 0 THEN 0 ELSE 10 * w[i - 1] + text[i].byte - 48
    <3>1. CASE i = 0
      <4>1. v[0] = 0
        <5>1. 0 \in 0 .. n
          OBVIOUS
        <5>. QED  BY <2>1, <5>1, Zenon
      <4>. QED  BY <3>1, <4>1
    <3>2. CASE i # 0 /\ i <= n
      <4>1. v[i] = 10 * v[i - 1] + text[i].byte - 48
        BY <2>1, <3>2
      <4>2. w[i] = v[i] /\ w[i - 1] = v[i - 1]
        BY <3>2
      <4>. QED  BY <3>2, <4>1, <4>2
    <3>3. CASE i = n + 1
      <4>1. w[i] = 10 * v[i - 1] + text[i].byte - 48 /\ w[i - 1] = v[i - 1] /\ i # 0
        BY <3>3
      <4>. QED  BY <4>1
    <3>. QED  BY <3>1, <3>2, <3>3
  <2>3. w = [i \in 0 .. n + 1 |-> w[i]]
    OBVIOUS
  <2>. HIDE DEF w
  <2>4. IsUpTo(w, n + 1)
    BY <2>2, <2>3
  <2>5. n + 1 \in Nat
    OBVIOUS
  <2>. QED  BY <2>4, <2>5
<1>. HIDE DEF S
<1>3. Len(text) \in S
  BY <1>1, <1>2, Induction
<1>. QED  BY <1>3 DEF S, Reads

\* One more digit.
LEMMA StandsMore ==
  ASSUME NEW text, NEW n \in Nat, Stands(text, n), NEW d \in 0 .. 9
  PROVE  Stands(text \o <<Char(48 + d)>>, 10 * n + d)
<1>. DEFINE c == Char(48 + d)
            longer == text \o <<c>>
            L == Len(text)
<1>0. c \in Digits /\ c.byte = 48 + d
  BY DigitFields, CharFields
<1>. HIDE DEF c
<1>1. /\ L \in Nat /\ L > 0 /\ longer \in Seq(Digits) /\ Len(longer) = L + 1
      /\ longer[L + 1] = c /\ \A i \in 1 .. L : longer[i] = text[i]
  BY <1>0 DEF Stands
<1>. HIDE DEF longer
<1>2. ASSUME NEW v, Reads(v, longer)  PROVE v[L + 1] = 10 * n + d
  <2>. DEFINE w == [i \in 0 .. L |-> v[i]]
  <2>1. Reads(w, text)
    <3>1. ASSUME NEW i \in 0 .. L
          PROVE  w[i] = IF i = 0 THEN 0 ELSE 10 * w[i - 1] + text[i].byte - 48
      <4>1. v[i] = IF i = 0 THEN 0 ELSE 10 * v[i - 1] + longer[i].byte - 48
        BY <1>1, <1>2, ReadsAt
      <4>2. i # 0 => longer[i] = text[i] /\ w[i - 1] = v[i - 1]
        BY <1>1
      <4>. QED  BY <4>1, <4>2
    <3>2. w = [i \in 0 .. L |-> w[i]]
      OBVIOUS
    <3>. HIDE DEF w
    <3>. QED  BY <3>1, <3>2 DEF Reads
  <2>2. w[L] = n
    BY <2>1 DEF Stands
  <2>3. v[L] = n
    BY <1>1, <2>2
  <2>4. v[L + 1] = 10 * v[L] + c.byte - 48
    <3>1. L + 1 \in 0 .. Len(longer) /\ L + 1 # 0 /\ (L + 1) - 1 = L
      BY <1>1
    <3>. QED  BY <1>1, <1>2, <3>1, ReadsAt
  <2>. QED  BY <1>0, <2>3, <2>4
<1>3. Stands(longer, 10 * n + d)
  BY <1>1, <1>2 DEF Stands
<1>. QED  BY <1>3 DEF longer, c

LEMMA StandsOne ==
  ASSUME NEW d \in 0 .. 9
  PROVE  Stands(<<Char(48 + d)>>, d)
<1>. DEFINE c == Char(48 + d)
            one == <<c>>
<1>0. c \in Digits /\ c.byte = 48 + d
  BY DigitFields, CharFields
<1>. HIDE DEF c
<1>1. one \in Seq(Digits) /\ Len(one) = 1 /\ one[1] = c
  BY <1>0
<1>. HIDE DEF one
<1>2. ASSUME NEW v, Reads(v, one)  PROVE v[1] = d
  <2>1. v[0] = 0
    BY <1>1, <1>2, ReadsAt
  <2>2. v[1] = 10 * v[0] + c.byte - 48
    <3>1. 1 \in 0 .. Len(one) /\ 1 # 0 /\ 1 - 1 = 0
      BY <1>1
    <3>2. v[1] = 10 * v[1 - 1] + one[1].byte - 48
      BY <1>2, <3>1, ReadsAt
    <3>. QED  BY <1>1, <3>1, <3>2
  <2>. QED  BY <1>0, <2>1, <2>2
<1>3. Stands(one, d)
  BY <1>1, <1>2 DEF Stands
<1>. QED  BY <1>3 DEF one, c

\* s writes the numbers up to n.
Writes(s, n) ==
  s = [k \in 0 .. n |-> IF k < 10 THEN <<Char(48 + k)>>
                        ELSE s[k \div 10] \o <<Char(48 + (k % 10))>>]

LEMMA Tenth ==
  ASSUME NEW k \in Nat
  PROVE  /\ k \div 10 \in Nat /\ k % 10 \in 0 .. 9 /\ 10 * (k \div 10) + (k % 10) = k
         /\ k >= 10 => k \div 10 < k
OBVIOUS

LEMMA WritesExist ==
  ASSUME NEW m \in Nat
  PROVE  \E s : Writes(s, m)
<1>. DEFINE S == {n \in Nat : \E s : Writes(s, n)}
<1>1. 0 \in S
  <2>1. Writes([k \in 0 .. 0 |-> <<Char(48 + k)>>], 0)
    BY DEF Writes
  <2>. QED  BY <2>1
<1>2. ASSUME NEW n \in Nat, n \in S  PROVE n + 1 \in S
  <2>1. PICK s : Writes(s, n)
    BY <1>2
  <2>2. \A k \in 0 .. n : s[k] = IF k < 10 THEN <<Char(48 + k)>>
                                 ELSE s[k \div 10] \o <<Char(48 + (k % 10))>>
    BY <2>1, Zenon DEF Writes
  <2>. DEFINE t == [k \in 0 .. n + 1 |->
                      IF k <= n THEN s[k]
                      ELSE IF k < 10 THEN <<Char(48 + k)>>
                           ELSE s[k \div 10] \o <<Char(48 + (k % 10))>>]
  <2>3. ASSUME NEW k \in 0 .. n + 1
        PROVE  t[k] = IF k < 10 THEN <<Char(48 + k)>>
                      ELSE t[k \div 10] \o <<Char(48 + (k % 10))>>
    <3>1. k >= 10 => t[k \div 10] = s[k \div 10]
      <4>1. k >= 10 => k \div 10 \in 0 .. n + 1 /\ k \div 10 <= n
        BY Tenth
      <4>. QED  BY <4>1
    <3>2. CASE k <= n
      <4>1. t[k] = s[k] /\ k \in 0 .. n
        BY <3>2
      <4>. QED  BY <2>2, <3>1, <4>1
    <3>3. CASE ~ (k <= n)
      BY <3>1, <3>3
    <3>. QED  BY <3>2, <3>3
  <2>4. t = [k \in 0 .. n + 1 |-> t[k]]
    OBVIOUS
  <2>. HIDE DEF t
  <2>5. t = [k \in 0 .. n + 1 |-> IF k < 10 THEN <<Char(48 + k)>>
                                  ELSE t[k \div 10] \o <<Char(48 + (k % 10))>>]
    BY <2>3, <2>4
  <2>6. Writes(t, n + 1)
    BY <2>5, Zenon DEF Writes
  <2>7. n + 1 \in Nat
    OBVIOUS
  <2>. QED  BY <2>6, <2>7
<1>. HIDE DEF S
<1>3. m \in S
  BY <1>1, <1>2, Induction
<1>. QED  BY <1>3 DEF S

LEMMA WritesStand ==
  ASSUME NEW m \in Nat, NEW s, Writes(s, m)
  PROVE  \A k \in 0 .. m : Stands(s[k], k)
<1>1. \A k \in 0 .. m : s[k] = IF k < 10 THEN <<Char(48 + k)>>
                               ELSE s[k \div 10] \o <<Char(48 + (k % 10))>>
  BY Zenon DEF Writes
<1>. DEFINE S == {n \in Nat : \A k \in 0 .. m : k <= n => Stands(s[k], k)}
<1>2. ASSUME NEW k \in 0 .. m, \A j \in 0 .. m : j < k => Stands(s[j], j)
      PROVE  Stands(s[k], k)
  <2>1. CASE k < 10
    <3>1. k \in 0 .. 9
      BY <2>1
    <3>2. s[k] = <<Char(48 + k)>>
      BY <1>1, <2>1, Zenon
    <3>. QED  BY <3>1, <3>2, StandsOne
  <2>2. CASE ~ (k < 10)
    <3>. DEFINE q == k \div 10
                d == k % 10
    <3>1. q \in Nat /\ d \in 0 .. 9 /\ 10 * q + d = k /\ q < k
      BY <2>2, Tenth
    <3>2. s[k] = s[q] \o <<Char(48 + d)>>
      BY <1>1, <2>2, Zenon
    <3>. HIDE DEF q, d
    <3>3. Stands(s[q], q)
      BY <1>2, <3>1
    <3>4. Stands(s[q] \o <<Char(48 + d)>>, 10 * q + d)
      BY <3>1, <3>3, StandsMore
    <3>. QED  BY <3>1, <3>2, <3>4
  <2>. QED  BY <2>1, <2>2
<1>3. 0 \in S
  <2>1. ASSUME NEW k \in 0 .. m, k <= 0  PROVE Stands(s[k], k)
    BY <1>2, <2>1
  <2>. QED  BY <2>1
<1>4. ASSUME NEW n \in Nat, n \in S  PROVE n + 1 \in S
  <2>1. ASSUME NEW k \in 0 .. m, k <= n + 1  PROVE Stands(s[k], k)
    <3>1. \A j \in 0 .. m : j < k => Stands(s[j], j)
      BY <1>4, <2>1
    <3>. QED  BY <1>2, <3>1
  <2>. QED  BY <2>1
<1>. HIDE DEF S
<1>5. m \in S
  BY <1>3, <1>4, Induction
<1>. QED  BY <1>5 DEF S

LEMMA TextStands ==
  ASSUME NEW n \in Nat
  PROVE  Stands(Text(n), n)
<1>. DEFINE s[k \in 0 .. n] == IF k < 10 THEN <<Char(48 + k)>>
                               ELSE s[k \div 10] \o <<Char(48 + (k % 10))>>
<1>1. Text(n) = s[n]
  BY Zenon DEF Text
<1>2. \E f : Writes(f, n)
  BY WritesExist, Zenon
<1>3. s = [k \in 0 .. n |-> IF k < 10 THEN <<Char(48 + k)>>
                            ELSE s[k \div 10] \o <<Char(48 + (k % 10))>>]
  BY <1>2 DEF Writes
<1>. HIDE DEF s
<1>4. Writes(s, n)
  BY <1>3, Zenon DEF Writes
<1>5. n \in 0 .. n
  OBVIOUS
<1>. QED  BY <1>1, <1>4, <1>5, WritesStand

\* The search for the end of the number finds the end of the text.
LEMMA AtoiOfDigits ==
  ASSUME NEW text, NEW n \in Nat, Stands(text, n)
  PROVE  Atoi(text) = n % PortSpace
<1>. DEFINE v[i \in 0 .. Len(text)] ==
       IF i = 0 THEN 0 ELSE 10 * v[i - 1] + text[i].byte - 48
<1>. DEFINE isNumber(i) == \A j \in 1 .. i : text[j] \in Digits
            isEnd(i) == isNumber(i) /\ (i < Len(text) => ~ isNumber(i + 1))
<1>1. text \in Seq(Digits) /\ Len(text) \in Nat
  BY DEF Stands
<1>2. \A i \in 0 .. Len(text) : isEnd(i) <=> i = Len(text)
  <2>. SUFFICES ASSUME NEW i \in 0 .. Len(text)  PROVE isEnd(i) <=> i = Len(text)
    OBVIOUS
  <2>1. isNumber(i)
    BY <1>1
  <2>2. i < Len(text) => isNumber(i + 1)
    BY <1>1
  <2>. QED  BY <1>1, <2>1, <2>2
<1>3. (CHOOSE i \in 0 .. Len(text) : isEnd(i)) = Len(text)
  <2>. HIDE DEF isEnd
  <2>1. Len(text) \in 0 .. Len(text)
    BY <1>1
  <2>. QED  BY <1>2, <2>1
<1>4. Atoi(text) = v[CHOOSE i \in 0 .. Len(text) : isEnd(i)] % PortSpace
  BY DEF Atoi
<1>5. \E f : Reads(f, text)
  BY <1>1, ReadsExist
<1>6. v = [i \in 0 .. Len(text) |-> IF i = 0 THEN 0 ELSE 10 * v[i - 1] + text[i].byte - 48]
  BY <1>5 DEF Reads
<1>. HIDE DEF v, isEnd
<1>7. Reads(v, text)
  BY <1>6, Zenon DEF Reads
<1>8. v[Len(text)] = n
  BY <1>7 DEF Stands
<1>. QED  BY <1>3, <1>4, <1>8

\* atoi reads the port that the proxy wrote, if it has 16 bits.
LEMMA AtoiOfText ==
  ASSUME NEW n \in 0 .. PortSpace - 1
  PROVE  Atoi(Text(n)) = n
<1>1. PortSpace \in Nat /\ PortSpace > 0 /\ n \in Nat /\ n < PortSpace
  BY ProxyAssumption
<1>2. \A a \in Nat : \A b \in Nat : b > 0 /\ a < b => a % b = a
  BY Z3
<1>. QED  BY <1>1, <1>2, TextStands, AtoiOfDigits

-----------------------------------------------------------------------------
(***************************************************************************)
(* Addresses.                                                              *)
(***************************************************************************)
\* The search of proxy.cpp:295-300 can find the colon before the port: it lies
\* within the 8 bits of the index, and where the index starts below it and
\* wraps, no other one comes first.
Splittable(hub) ==
  /\ hub.sep = <<Colon>> /\ Len(hub.ip) < ByteSpace
  /\ Len(HubText(hub)) <= ByteSpace \/ \A i \in 1 .. Len(hub.ip) : hub.ip[i] # Colon

LEMMA HubFields ==
  ASSUME NEW hub \in Hubs
  PROVE  /\ hub.ip \in Seq(Bytes) /\ Len(hub.ip) \in Nat
         /\ hub.port \in 0 .. PortSpace - 1 /\ hub.port \in Nat
BY ProxyAssumption DEF Addresses

LEMMA Joined ==
  ASSUME NEW C, NEW P \in Seq(C), NEW Q \in Seq(C)
  PROVE  /\ P \o Q \in Seq(C) /\ Len(P \o Q) = Len(P) + Len(Q)
         /\ Len(P) \in Nat /\ Len(Q) \in Nat /\ Len(P \o Q) \in Nat
         /\ \A i \in 1 .. Len(P) : (P \o Q)[i] = P[i]
         /\ \A i \in 1 .. Len(Q) : (P \o Q)[Len(P) + i] = Q[i]
<1>1. P \o Q \in Seq(C) /\ Len(P \o Q) = Len(P) + Len(Q) /\ Len(P \o Q) \in Nat
  OBVIOUS
<1>2. \A i \in 1 .. Len(P) : (P \o Q)[i] = P[i]
  OBVIOUS
<1>3. \A i \in 1 .. Len(Q) : (P \o Q)[Len(P) + i] = Q[i]
  OBVIOUS
<1>. QED  BY <1>1, <1>2, <1>3

LEMMA Cut2 ==
  ASSUME NEW C, NEW P \in Seq(C), NEW a \in Nat, a <= Len(P)
  PROVE  /\ SubSeq(P, a + 1, Len(P)) \in Seq(C) /\ Len(SubSeq(P, a + 1, Len(P))) = Len(P) - a
         /\ \A i \in 1 .. Len(P) - a : SubSeq(P, a + 1, Len(P))[i] = P[a + i]
OBVIOUS

\* The text of an address, character by character.
LEMMA HubCells ==
  ASSUME NEW hub \in Hubs, Splittable(hub)
  PROVE  /\ HubText(hub) \in Seq(Bytes) /\ Len(HubText(hub)) \in Nat
         /\ Len(HubText(hub)) = Len(hub.ip) + 1 + Len(Text(hub.port))
         /\ Text(hub.port) \in Seq(Digits) /\ Len(Text(hub.port)) \in Nat /\ Len(Text(hub.port)) > 0
         /\ \A i \in 1 .. Len(hub.ip) : HubText(hub)[i] = hub.ip[i]
         /\ HubText(hub)[Len(hub.ip) + 1] = Colon
         /\ \A i \in 1 .. Len(Text(hub.port)) :
              HubText(hub)[Len(hub.ip) + 1 + i] = Text(hub.port)[i]
<1>. PICK ip \in Seq(Bytes), t \in Seq(Digits) :
       ip = hub.ip /\ t = Text(hub.port) /\ Len(t) > 0
  <2>1. Stands(Text(hub.port), hub.port)
    BY HubFields, TextStands
  <2>. QED  BY <2>1, HubFields DEF Stands
<1>. DEFINE sep == <<Colon>>
            left == ip \o sep
            whole == left \o t
<1>1. HubText(hub) = whole
  BY DEF HubText, Splittable
<1>2. t \in Seq(Bytes)
  <2>1. \A i \in 1 .. Len(t) : t[i] \in Bytes
    BY DigitFields
  <2>. QED  BY <2>1
<1>3. sep \in Seq(Bytes) /\ Len(sep) = 1 /\ sep[1] = Colon
  BY DEF Colon, Char, Bytes
<1>. HIDE DEF sep
<1>4. /\ left \in Seq(Bytes) /\ Len(left) = Len(ip) + 1 /\ left[Len(ip) + 1] = Colon
      /\ Len(ip) \in Nat /\ \A i \in 1 .. Len(ip) : left[i] = ip[i]
  <2>1. sep \in Seq(Bytes)
    BY <1>3
  <2>2. /\ left \in Seq(Bytes) /\ Len(left) = Len(ip) + Len(sep) /\ Len(ip) \in Nat
        /\ \A i \in 1 .. Len(ip) : left[i] = ip[i]
        /\ \A i \in 1 .. Len(sep) : left[Len(ip) + i] = sep[i]
    BY <2>1, Joined
  <2>. HIDE DEF left
  <2>3. 1 \in 1 .. Len(sep)
    BY <1>3
  <2>. QED  BY <1>3, <2>2, <2>3
<1>. HIDE DEF left
<1>5. /\ whole \in Seq(Bytes) /\ Len(whole) = Len(left) + Len(t) /\ Len(whole) \in Nat
      /\ Len(t) \in Nat
      /\ \A i \in 1 .. Len(left) : whole[i] = left[i]
      /\ \A i \in 1 .. Len(t) : whole[Len(left) + i] = t[i]
  <2>1. left \in Seq(Bytes)
    BY <1>4
  <2>. QED  BY <1>2, <2>1, Joined
<1>. HIDE DEF whole
<1>8. /\ whole[Len(ip) + 1] = Colon
      /\ \A i \in 1 .. Len(ip) : whole[i] = ip[i]
      /\ \A i \in 1 .. Len(t) : whole[Len(ip) + 1 + i] = t[i]
  <2>1. \A i \in 1 .. Len(ip) : i \in 1 .. Len(left)
    BY <1>4
  <2>2. Len(ip) + 1 \in 1 .. Len(left)
    BY <1>4
  <2>. QED  BY <1>4, <1>5, <2>1, <2>2
<1>9. Len(whole) = Len(ip) + 1 + Len(t) /\ Len(ip) \in Nat /\ Len(t) \in Nat /\ Len(whole) \in Nat
  BY <1>4, <1>5
<1>. QED  BY <1>1, <1>5, <1>8, <1>9

LEMMA SplitCells ==
  ASSUME NEW ip \in Seq(Bytes), NEW t \in Seq(Bytes), NEW whole \in Seq(Bytes),
         Len(whole) = Len(ip) + 1 + Len(t),
         \A i \in 1 .. Len(ip) : whole[i] = ip[i],
         \A i \in 1 .. Len(t) : whole[Len(ip) + 1 + i] = t[i]
  PROVE  HubIP(whole, Len(ip)) = ip /\ SubSeq(whole, Len(ip) + 2, Len(whole)) = t
<1>1. HubIP(whole, Len(ip)) = ip
  <2>1. \A k \in 1 .. Len(ip) : k <= Len(whole) /\ whole[k] = ip[k]
    <3>1. Len(ip) \in Nat /\ Len(t) \in Nat
      OBVIOUS
    <3>. QED  BY <3>1
  <2>2. ip = [k \in 1 .. Len(ip) |-> ip[k]]
    OBVIOUS
  <2>. QED  BY <2>1, <2>2 DEF HubIP
<1>2. SubSeq(whole, Len(ip) + 2, Len(whole)) = t
  <2>. DEFINE a == Len(ip) + 1
              sub == SubSeq(whole, a + 1, Len(whole))
  <2>1. a \in Nat /\ a + 1 = Len(ip) + 2 /\ a <= Len(whole) /\ Len(whole) - a = Len(t)
    OBVIOUS
  <2>2. sub \in Seq(Bytes) /\ Len(sub) = Len(t) /\ \A i \in 1 .. Len(t) : sub[i] = whole[a + i]
    BY <2>1, Cut2
  <2>. HIDE DEF sub
  <2>3. \A i \in 1 .. Len(t) : sub[i] = t[i]
    BY <2>2
  <2>4. sub = t
    BY <2>2, <2>3
  <2>. QED  BY <2>1, <2>4 DEF sub
<1>. QED  BY <1>1, <1>2

\* Split at the right colon, the text gives the address and the port back.
LEMMA SplitText ==
  ASSUME NEW hub \in Hubs, Splittable(hub)
  PROVE  /\ HubIP(HubText(hub), Len(hub.ip)) = hub.ip
         /\ HubPort(HubText(hub), Len(hub.ip)) = hub.port
<1>. DEFINE t == Text(hub.port)
            whole == HubText(hub)
<1>1. t \in Seq(Bytes)
  <2>1. t \in Seq(Digits)
    BY HubCells
  <2>2. \A i \in 1 .. Len(t) : t[i] \in Bytes
    BY <2>1, DigitFields
  <2>. HIDE DEF t
  <2>. QED  BY <2>1, <2>2
<1>2. HubIP(whole, Len(hub.ip)) = hub.ip /\ SubSeq(whole, Len(hub.ip) + 2, Len(whole)) = t
  BY <1>1, HubCells, HubFields, SplitCells
<1>3. Atoi(t) = hub.port
  BY HubFields, AtoiOfText
<1>. QED  BY <1>2, <1>3 DEF HubPort

-----------------------------------------------------------------------------
(***************************************************************************)
(* Powers know their exponents, and a power cannot be taken for bytes.     *)
(***************************************************************************)
PubOf(x) == Power(GKey, {x}, NKey)
ProxyPub == PubOf(ProxyKey)

LEMMA PowerFields ==
  ASSUME NEW b, NEW e, NEW m
  PROVE  /\ Len(Power(b, e, m)) = KeyLen /\ KeyLen \in Nat /\ KeyLen > 1
         /\ \A i \in 1 .. KeyLen : Power(b, e, m)[i] = [digit |-> i, base |-> b, exps |-> e, mod |-> m]
         /\ \E C : Power(b, e, m) \in Seq(C)
<1>1. KeyLen \in Nat /\ KeyLen > 1
  BY ProxyAssumption
<1>2. Power(b, e, m) \in Seq({[digit |-> i, base |-> b, exps |-> e, mod |-> m] : i \in 1 .. KeyLen})
  BY <1>1 DEF Power
<1>3. \A i \in 1 .. KeyLen : Power(b, e, m)[i] = [digit |-> i, base |-> b, exps |-> e, mod |-> m]
  BY DEF Power
<1>4. Len(Power(b, e, m)) = KeyLen
  BY <1>1 DEF Power
<1>. QED  BY <1>1, <1>2, <1>3, <1>4, Zenon

IsDigit(c) == "digit" \in DOMAIN c

LEMMA DigitOfPower ==
  ASSUME NEW b, NEW e, NEW m, NEW i \in 1 .. KeyLen
  PROVE  /\ IsDigit(Power(b, e, m)[i])
         /\ Power(b, e, m)[i].base = b /\ Power(b, e, m)[i].exps = e /\ Power(b, e, m)[i].mod = m
         /\ Power(b, e, m)[i].digit = i
<1>1. Power(b, e, m)[i] = [digit |-> i, base |-> b, exps |-> e, mod |-> m]
  BY PowerFields
<1>. QED  BY <1>1 DEF IsDigit

LEMMA BytesAreNoDigits == \A c \in Bytes : ~ IsDigit(c)
BY DEF Bytes, IsDigit

LEMMA PowersDiffer ==
  ASSUME NEW b, NEW e, NEW m, NEW c, NEW f, NEW n, Power(b, e, m) = Power(c, f, n)
  PROVE  b = c /\ e = f /\ m = n
<1>1. 1 \in 1 .. KeyLen
  BY PowerFields
<1>. QED  BY <1>1, DigitOfPower

LEMMA KeyBytes ==
  /\ GKey \in Seq(Bytes) /\ NKey \in Seq(Bytes) /\ Len(GKey) = 1 /\ Len(NKey) = 2
  /\ Head(GKey) \in Bytes /\ Last(NKey) \in Bytes
  /\ Front(NKey) \in Seq(Bytes) /\ Len(Front(NKey)) = 1
  /\ Front(NKey) = <<NKey[1]>> /\ Last(NKey) = NKey[2]
<1>1. \A n \in Nat : Char(n) \in Bytes
  BY DEF Char, Bytes
<1>. PICK c \in Bytes, d \in Bytes, e \in Bytes : GKey = <<c>> /\ NKey = <<d, e>>
  BY <1>1 DEF GKey, NKey
<1>2. Last(<<d, e>>) = e
  BY DEF Last
<1>3. Front(<<d, e>>) = <<d>>
  <2>. DEFINE f == SubSeq(<<d, e>>, 1, 1)
  <2>1. Len(<<d, e>>) - 1 = 1
    OBVIOUS
  <2>2. Front(<<d, e>>) = f
    BY <2>1 DEF Front
  <2>3. f \in Seq(Bytes) /\ Len(f) = 1 /\ f[1] = d
    OBVIOUS
  <2>. HIDE DEF f
  <2>4. f = <<d>>
    BY <2>3
  <2>. QED  BY <2>2, <2>4
<1>. QED  BY <1>2, <1>3

LEMMA PowModOf ==
  ASSUME NEW p, NEW x, NEW n
  PROVE  PowMod(p, x, n) =
           IF IsDigit(Head(p)) /\ Head(p).mod = n /\ p = Power(Head(p).base, Head(p).exps, n)
           THEN Power(Head(p).base, Head(p).exps \cup {x}, n)
           ELSE Power(p, {x}, n)
BY DEF PowMod, IsDigit

\* A power of the generator, and of a power to the same modulus.
LEMMA PowModOfBytes ==
  ASSUME NEW b, NEW x, NEW m, ~ IsDigit(Head(b))
  PROVE  PowMod(b, x, m) = Power(b, {x}, m)
BY PowModOf

LEMMA HeadOfPower ==
  ASSUME NEW b, NEW e, NEW m
  PROVE  /\ IsDigit(Head(Power(b, e, m)))
         /\ Head(Power(b, e, m)).base = b /\ Head(Power(b, e, m)).exps = e
         /\ Head(Power(b, e, m)).mod = m
<1>1. 1 \in 1 .. KeyLen
  BY PowerFields
<1>2. Head(Power(b, e, m)) = Power(b, e, m)[1]
  <2>1. PICK C : Power(b, e, m) \in Seq(C)
    BY PowerFields
  <2>2. \A s \in Seq(C) : Head(s) = s[1]
    OBVIOUS
  <2>. QED  BY <2>1, <2>2, Zenon
<1>. QED  BY <1>1, <1>2, DigitOfPower

LEMMA PowModOfPower ==
  ASSUME NEW b, NEW e, NEW x, NEW m
  PROVE  PowMod(Power(b, e, m), x, m) = Power(b, e \cup {x}, m)
<1>. DEFINE p == Power(b, e, m)
            h == Head(p)
<1>1. IsDigit(h) /\ h.base = b /\ h.exps = e /\ h.mod = m
  BY HeadOfPower
<1>2. PowMod(p, x, m) =
        IF IsDigit(h) /\ h.mod = m /\ p = Power(h.base, h.exps, m)
        THEN Power(h.base, h.exps \cup {x}, m) ELSE Power(p, {x}, m)
  BY PowModOf, Zenon
<1>3. p = Power(b, e, m)
  OBVIOUS
<1>. HIDE DEF p, h
<1>4. PowMod(p, x, m) = Power(b, e \cup {x}, m)
  BY <1>1, <1>2, <1>3
<1>. QED  BY <1>4 DEF p

LEMMA PowModOfOther ==
  ASSUME NEW b, NEW e, NEW x, NEW m, NEW n, m # n
  PROVE  PowMod(Power(b, e, m), x, n) = Power(Power(b, e, m), {x}, n)
<1>. DEFINE p == Power(b, e, m)
            h == Head(p)
<1>1. h.mod # n
  BY HeadOfPower
<1>2. PowMod(p, x, n) =
        IF IsDigit(h) /\ h.mod = n /\ p = Power(h.base, h.exps, n)
        THEN Power(h.base, h.exps \cup {x}, n) ELSE Power(p, {x}, n)
  BY PowModOf, Zenon
<1>. HIDE DEF p, h
<1>3. PowMod(p, x, n) = Power(p, {x}, n)
  BY <1>1, <1>2
<1>. QED  BY <1>3 DEF p

\* What is left of a power without its first digit is none.
LEMMA PowModOfTail ==
  ASSUME NEW b, NEW e, NEW m, NEW x, NEW n
  PROVE  PowMod(Tail(Power(b, e, m)), x, n) = Power(Tail(Power(b, e, m)), {x}, n)
<1>. DEFINE t == Tail(Power(b, e, m))
<1>1. Len(t) # KeyLen
  <2>1. PICK C : Power(b, e, m) \in Seq(C)
    BY PowerFields
  <2>2. Len(Power(b, e, m)) = KeyLen /\ KeyLen \in Nat /\ KeyLen > 1
    BY PowerFields
  <2>3. \A s \in Seq(C) : Len(s) > 1 => Len(Tail(s)) = Len(s) - 1
    OBVIOUS
  <2>4. Len(t) = KeyLen - 1
    BY <2>1, <2>2, <2>3
  <2>. QED  BY <2>2, <2>4
<1>2. \A c, f, k : t # Power(c, f, k)
  BY <1>1, PowerFields
<1>. HIDE DEF t
<1>3. PowMod(t, x, n) = Power(t, {x}, n)
  BY <1>2, Zenon DEF PowMod
<1>. QED  BY <1>3 DEF t

\* The keys of registerConnection and of the proxy agree.
LEMMA KeysAgree ==
  ASSUME NEW x, NEW y
  PROVE  /\ PowMod(GKey, x, NKey) = PubOf(x)
         /\ PowMod(PubOf(x), y, NKey) = Power(GKey, {x, y}, NKey)
         /\ PowMod(PubOf(x), y, NKey) = PowMod(PubOf(y), x, NKey)
<1>1. ~ IsDigit(Head(GKey))
  BY KeyBytes, BytesAreNoDigits
<1>2. {x} \cup {y} = {x, y} /\ {y} \cup {x} = {x, y}
  OBVIOUS
<1>3. \A z : PowMod(GKey, z, NKey) = PubOf(z)
  BY <1>1, PowModOfBytes DEF PubOf
<1>4. \A u, z : PowMod(PubOf(u), z, NKey) = Power(GKey, {u} \cup {z}, NKey)
  BY PowModOfPower DEF PubOf
<1>5. /\ PowMod(PubOf(x), y, NKey) = Power(GKey, {x} \cup {y}, NKey)
      /\ PowMod(PubOf(y), x, NKey) = Power(GKey, {y} \cup {x}, NKey)
  BY <1>4, Zenon
<1>6. /\ PowMod(PubOf(x), y, NKey) = Power(GKey, {x, y}, NKey)
      /\ PowMod(PubOf(y), x, NKey) = Power(GKey, {x, y}, NKey)
  BY <1>2, <1>5
<1>. QED  BY <1>3, <1>6

-----------------------------------------------------------------------------
(***************************************************************************)
(* The additional data of a ticket: its number, the address and the public *)
(* key.  The digits of the key say where the address ends.                 *)
(***************************************************************************)
IsAad(s, id, hub) ==
  /\ Len(s) = 2 + Len(hub) + KeyLen
  /\ s[1] = Char(id % ByteSpace) /\ s[2] = Char(id \div ByteSpace)
  /\ \A i \in 1 .. Len(hub) : s[2 + i] = hub[i]
  /\ \A i \in 1 .. KeyLen : IsDigit(s[2 + Len(hub) + i])

LEMMA Remainder ==
  ASSUME NEW n \in Nat
  PROVE  /\ n % ByteSpace \in Nat /\ n % ByteSpace <= n /\ n % ByteSpace < ByteSpace
         /\ n \div ByteSpace \in Nat /\ (n \div ByteSpace) * ByteSpace + (n % ByteSpace) = n
<1>1. \A b \in Nat \ {0} : n \div b \in Nat /\ n % b \in Nat /\ n % b = n - b * (n \div b)
  BY Z3
<1>2. ByteSpace \in Nat \ {0}
  BY ProxyAssumption
<1>3. \A b \in Nat \ {0} : n % b <= n /\ n % b < b
  BY Z3
<1>4. \A q \in Nat : \A r \in Nat : r = n - ByteSpace * q => q * ByteSpace + r = n
  BY <1>2
<1>. QED  BY <1>1, <1>2, <1>3, <1>4, Zenon

\* Two bytes hold one number.
LEMMA SameNumber ==
  ASSUME NEW n \in Nat, NEW m \in Nat,
         Char(n % ByteSpace) = Char(m % ByteSpace), Char(n \div ByteSpace) = Char(m \div ByteSpace)
  PROVE  n = m
<1>1. n % ByteSpace = m % ByteSpace /\ n \div ByteSpace = m \div ByteSpace
  BY CharsDiffer
<1>2. /\ (n \div ByteSpace) * ByteSpace + (n % ByteSpace) = n
      /\ (m \div ByteSpace) * ByteSpace + (m % ByteSpace) = m
  BY Remainder
<1>. QED  BY <1>1, <1>2, Zenon

LEMMA AadCells ==
  ASSUME NEW a, a.id \in Nat, a.hub \in Seq(Bytes), NEW b, NEW e, NEW m, a.pub = Power(b, e, m)
  PROVE  /\ IsAad(ServerAad(a), a.id, a.hub)
         /\ \E C : ServerAad(a) \in Seq(C)
<1>. DEFINE c == Char(a.id % ByteSpace)
            d == Char(a.id \div ByteSpace)
            number == <<c, d>>
            left == number \o a.hub
            p == Power(b, e, m)
            whole == left \o p
            hub == a.hub
<1>0. a.id % ByteSpace \in Nat /\ a.id \div ByteSpace \in Nat
  BY Remainder
<1>1. c \in Bytes /\ d \in Bytes
  BY <1>0 DEF Char, Bytes
<1>2. ServerAad(a) = whole
  BY Zenon DEF ServerAad
<1>. HIDE DEF c, d
<1>3. number \in Seq(Bytes) /\ Len(number) = 2 /\ number[1] = c /\ number[2] = d
  BY <1>1
<1>. HIDE DEF number
<1>4. hub \in Seq(Bytes)
  OBVIOUS
<1>. HIDE DEF hub
<1>5. /\ left \in Seq(Bytes) /\ Len(left) = Len(number) + Len(hub) /\ Len(hub) \in Nat
      /\ \A i \in 1 .. Len(number) : left[i] = number[i]
      /\ \A i \in 1 .. Len(hub) : left[Len(number) + i] = hub[i]
  <2>1. number \in Seq(Bytes)
    BY <1>3
  <2>. QED  BY <1>4, <2>1, Joined DEF hub
<1>. HIDE DEF left
<1>6. PICK C : p \in Seq(C)
  BY PowerFields
<1>7. Len(p) = KeyLen /\ KeyLen \in Nat /\ \A i \in 1 .. KeyLen : IsDigit(p[i])
  BY PowerFields, DigitOfPower
<1>. HIDE DEF p
<1>. DEFINE D == Bytes \cup C
<1>8. left \in Seq(D) /\ p \in Seq(D)
  BY <1>5, <1>6
<1>. HIDE DEF D
<1>9. /\ whole \in Seq(D) /\ Len(whole) = Len(left) + Len(p)
      /\ \A i \in 1 .. Len(left) : whole[i] = left[i]
      /\ \A i \in 1 .. Len(p) : whole[Len(left) + i] = p[i]
  BY <1>8, Joined
<1>. HIDE DEF whole
<1>10. Len(left) = 2 + Len(hub)
  BY <1>3, <1>5
<1>11. whole[1] = c /\ whole[2] = d
  <2>1. 1 \in 1 .. Len(left) /\ 2 \in 1 .. Len(left) /\ 1 \in 1 .. Len(number) /\ 2 \in 1 .. Len(number)
    BY <1>3, <1>5, <1>10
  <2>. QED  BY <1>3, <1>5, <1>9, <2>1
<1>12. \A i \in 1 .. Len(hub) : whole[2 + i] = hub[i]
  <2>. SUFFICES ASSUME NEW i \in 1 .. Len(hub)  PROVE whole[2 + i] = hub[i]
    OBVIOUS
  <2>1. left[2 + i] = hub[i]
    BY <1>3, <1>5
  <2>2. 2 + i \in 1 .. Len(left)
    BY <1>5, <1>10
  <2>. QED  BY <1>9, <2>1, <2>2
<1>13. Len(whole) = 2 + Len(hub) + KeyLen
  BY <1>7, <1>9, <1>10
<1>14. \A i \in 1 .. KeyLen : IsDigit(whole[2 + Len(hub) + i])
  BY <1>7, <1>9, <1>10
<1>15. IsAad(whole, a.id, hub)
  BY <1>11, <1>12, <1>13, <1>14 DEF IsAad, c, d
<1>. QED  BY <1>2, <1>9, <1>15 DEF hub

LEMMA CutFields ==
  ASSUME NEW C, NEW s \in Seq(C)
  PROVE  /\ Len(Cut(s)) \in Nat /\ Len(Cut(s)) <= Len(s)
         /\ \A i \in 1 .. Len(Cut(s)) : Cut(s)[i] = s[i]
         /\ Len(s) < ByteSpace => Cut(s) = s
<1>. DEFINE n == Len(s) % ByteSpace
<1>1. n \in Nat /\ n <= Len(s) /\ Len(s) \in Nat
  BY Remainder
<1>2. Len(s) < ByteSpace => n = Len(s)
  <2>1. ByteSpace \in Nat
    BY ProxyAssumption
  <2>2. \A k \in Nat : \A b \in Nat : k < b => k % b = k
    BY Z3
  <2>. QED  BY <1>1, <2>1, <2>2
<1>3. Cut(s) = SubSeq(s, 1, n)
  BY DEF Cut
<1>. HIDE DEF n
<1>4. Len(SubSeq(s, 1, n)) = n /\ \A i \in 1 .. n : SubSeq(s, 1, n)[i] = s[i]
  BY <1>1
<1>5. SubSeq(s, 1, Len(s)) = s
  OBVIOUS
<1>. QED  BY <1>1, <1>2, <1>3, <1>4, <1>5

\* Of one additional data, no beginning is another's.
LEMMA AadApart ==
  ASSUME NEW s, NEW t, NEW n \in Nat, NEW m \in Nat, NEW hub \in Seq(Bytes), NEW other \in Seq(Bytes),
         IsAad(s, n, hub), IsAad(t, m, other),
         \A i \in 1 .. Len(t) : t[i] = s[i], Len(t) <= Len(s)
  PROVE  n = m /\ hub = other
<1>1. /\ Len(s) = 2 + Len(hub) + KeyLen /\ Len(t) = 2 + Len(other) + KeyLen
      /\ KeyLen \in Nat /\ KeyLen > 1 /\ Len(hub) \in Nat /\ Len(other) \in Nat
  BY ProxyAssumption DEF IsAad
<1>2. n = m
  <2>1. t[1] = s[1] /\ t[2] = s[2]
    BY <1>1
  <2>. QED  BY <2>1, SameNumber DEF IsAad
<1>3. ~ (Len(other) < Len(hub))
  <2>. SUFFICES ASSUME Len(other) < Len(hub)  PROVE FALSE
    OBVIOUS
  <2>1. /\ 1 \in 1 .. KeyLen /\ 2 + Len(other) + 1 \in 1 .. Len(t)
        /\ Len(other) + 1 \in 1 .. Len(hub) /\ 2 + (Len(other) + 1) = 2 + Len(other) + 1
    BY <1>1
  <2>2. IsDigit(t[2 + Len(other) + 1]) /\ s[2 + (Len(other) + 1)] = hub[Len(other) + 1]
    BY <2>1 DEF IsAad
  <2>3. hub[Len(other) + 1] \in Bytes
    BY <2>1
  <2>. QED  BY <2>1, <2>2, <2>3, BytesAreNoDigits
<1>4. ~ (Len(hub) < Len(other))
  <2>. SUFFICES ASSUME Len(hub) < Len(other)  PROVE FALSE
    OBVIOUS
  <2>1. /\ 1 \in 1 .. KeyLen /\ 2 + Len(hub) + 1 \in 1 .. Len(t)
        /\ Len(hub) + 1 \in 1 .. Len(other) /\ 2 + (Len(hub) + 1) = 2 + Len(hub) + 1
    BY <1>1
  <2>2. IsDigit(s[2 + Len(hub) + 1]) /\ t[2 + (Len(hub) + 1)] = other[Len(hub) + 1]
    BY <2>1 DEF IsAad
  <2>3. other[Len(hub) + 1] \in Bytes
    BY <2>1
  <2>. QED  BY <2>1, <2>2, <2>3, BytesAreNoDigits
<1>5. Len(hub) = Len(other)
  BY <1>1, <1>3, <1>4
<1>6. \A i \in 1 .. Len(hub) : hub[i] = other[i]
  <2>. SUFFICES ASSUME NEW i \in 1 .. Len(hub)  PROVE hub[i] = other[i]
    OBVIOUS
  <2>1. i \in 1 .. Len(other) /\ 2 + i \in 1 .. Len(t)
    BY <1>1, <1>5
  <2>. QED  BY <2>1 DEF IsAad
<1>7. hub = other
  BY <1>5, <1>6
<1>. QED  BY <1>2, <1>7

-----------------------------------------------------------------------------
(***************************************************************************)
(* What the proxy registers, and what can arrive of it.                    *)
(***************************************************************************)
LEMMA HubTextType ==
  ASSUME NEW hub \in Hubs
  PROVE  HubText(hub) \in Seq(Bytes)
<1>. DEFINE t == Text(hub.port)
            left == hub.ip \o hub.sep
<1>1. t \in Seq(Bytes)
  <2>1. t \in Seq(Digits)
    BY HubFields, TextStands DEF Stands
  <2>2. \A i \in 1 .. Len(t) : t[i] \in Bytes
    BY <2>1, DigitFields
  <2>. HIDE DEF t
  <2>. QED  BY <2>1, <2>2
<1>2. hub.sep \in Seq(Bytes)
  <2>1. <<Colon>> \in Seq(Bytes) /\ <<>> \in Seq(Bytes)
    BY DEF Colon, Char, Bytes
  <2>2. hub.sep \in {<<Colon>>, <<>>}
    BY ProxyAssumption DEF Addresses
  <2>. QED  BY <2>1, <2>2
<1>3. left \in Seq(Bytes)
  BY <1>2, HubFields, Joined
<1>4. HubText(hub) = left \o t
  BY Zenon DEF HubText
<1>. HIDE DEF t, left
<1>. QED  BY <1>1, <1>3, <1>4, Joined

Registration(id, hub) ==
  [answer |-> TicketAnswer(id, hub, PubOf(id)), hub |-> hub, clientPub |-> PubOf(id)]

LEMMA RegistrationFields ==
  ASSUME NEW id, NEW hub, NEW a, a = Registration(id, hub).answer
  PROVE  /\ a.id = id /\ a.hub = HubText(hub) /\ a.pub = PubOf(-id)
         /\ a.tag.key = PowMod(PubOf(id), TicketKey(id), NKey)
         /\ a.tag.aad = ServerAad(a)
         /\ a.tag.plain = TicketToken(id) /\ a.token = CipherText(a.tag)
         /\ DOMAIN a = {"id", "hub", "pub", "token", "tag"}
         /\ Registration(id, hub).hub = hub /\ Registration(id, hub).clientPub = PubOf(id)
<1>. DEFINE s == [id |-> id, hub |-> HubText(hub), pub |-> PubOf(-id)]
            seal == Seal(PowMod(PubOf(id), TicketKey(id), NKey), ServerAad(s), TicketToken(id))
<1>1. a = TicketAnswer(id, hub, PubOf(id))
      /\ Registration(id, hub).hub = hub /\ Registration(id, hub).clientPub = PubOf(id)
  BY DEF Registration
<1>2. TicketAnswer(id, hub, PubOf(id)) =
        [id |-> id, hub |-> HubText(hub), pub |-> PubOf(-id), token |-> CipherText(seal), tag |-> seal]
  BY DEF TicketAnswer, PubOf, TicketKey
<1>3. /\ seal.key = PowMod(PubOf(id), TicketKey(id), NKey)
      /\ seal.aad = ServerAad(s) /\ seal.plain = TicketToken(id)
  BY DEF Seal
<1>. HIDE DEF seal
<1>4. /\ a.id = id /\ a.hub = HubText(hub) /\ a.pub = PubOf(-id)
      /\ a.token = CipherText(seal) /\ a.tag = seal
      /\ DOMAIN a = {"id", "hub", "pub", "token", "tag"}
  BY <1>1, <1>2
<1>5. ServerAad(s) = ServerAad(a)
  BY <1>4 DEF ServerAad
<1>. QED  BY <1>1, <1>3, <1>4, <1>5

\* Every registration answers a request of this device: one per call.
IssuedInv ==
  \A r \in issued : \E id \in 1 .. calls : \E hub \in Hubs : r = Registration(id, hub)

\* A number, the text of an address and a public key, if not of one answer.
Fresh(a) ==
  /\ a.id \in Nat
  /\ \E hub \in Hubs : a.hub = HubText(hub)
  /\ \E x \in Int : a.pub = PubOf(x)

\* A digit on the other side of a boundary.
Shifted(a, of) ==
  a.id = of.id /\ a.hub = Append(of.hub, Head(of.pub)) /\ a.pub = Tail(of.pub)

Arrived(a, registered) ==
  \E r \in registered : a.tag = r.answer.tag /\ (Fresh(a) \/ Shifted(a, r.answer))

LEMMA IssuedFields ==
  ASSUME calls \in Nat, IssuedInv, NEW r \in issued
  PROVE  \E id \in 1 .. calls : \E hub \in Hubs :
           /\ r = Registration(id, hub) /\ r.hub = hub /\ r.clientPub = PubOf(id)
           /\ r.answer.id = id /\ id \in Nat
           /\ r.answer.hub = HubText(hub) /\ r.answer.pub = PubOf(-id)
           /\ r.answer.tag.key = PowMod(PubOf(id), TicketKey(id), NKey)
           /\ r.answer.tag.aad = ServerAad(r.answer)
           /\ r.answer.tag.plain = TicketToken(id) /\ r.answer.token = CipherText(r.answer.tag)
           /\ DOMAIN r.answer = {"id", "hub", "pub", "token", "tag"}
           /\ Fresh(r.answer)
<1>1. PICK id \in 1 .. calls, hub \in Hubs : r = Registration(id, hub)
  BY DEF IssuedInv
<1>2. id \in Nat /\ -id \in Int
  OBVIOUS
<1>3. /\ r.answer.id = id /\ r.answer.hub = HubText(hub) /\ r.answer.pub = PubOf(-id)
      /\ r.answer.tag.key = PowMod(PubOf(id), TicketKey(id), NKey)
      /\ r.answer.tag.aad = ServerAad(r.answer)
      /\ r.answer.tag.plain = TicketToken(id) /\ r.answer.token = CipherText(r.answer.tag)
      /\ DOMAIN r.answer = {"id", "hub", "pub", "token", "tag"}
      /\ r.hub = hub /\ r.clientPub = PubOf(id)
  <2>. DEFINE a == r.answer
  <2>1. a = Registration(id, hub).answer
    BY <1>1
  <2>. HIDE DEF a
  <2>2. /\ a.id = id /\ a.hub = HubText(hub) /\ a.pub = PubOf(-id)
        /\ a.tag.key = PowMod(PubOf(id), TicketKey(id), NKey)
        /\ a.tag.aad = ServerAad(a)
        /\ a.tag.plain = TicketToken(id) /\ a.token = CipherText(a.tag)
        /\ DOMAIN a = {"id", "hub", "pub", "token", "tag"}
        /\ Registration(id, hub).hub = hub /\ Registration(id, hub).clientPub = PubOf(id)
    BY <2>1, RegistrationFields
  <2>. QED  BY <1>1, <2>2 DEF a
<1>4. Fresh(r.answer)
  BY <1>2, <1>3 DEF Fresh
<1>. QED  BY <1>1, <1>2, <1>3, <1>4

LEMMA ArrivedHub ==
  ASSUME calls \in Nat, IssuedInv, NEW a, Arrived(a, issued)
  PROVE  Len(a.hub) \in Nat
<1>1. CASE Fresh(a)
  <2>1. a.hub \in Seq(Bytes)
    BY <1>1, HubTextType DEF Fresh
  <2>. QED  BY <2>1
<1>2. ASSUME NEW r \in issued, Shifted(a, r.answer)  PROVE Len(a.hub) \in Nat
  <2>1. PICK hub \in Hubs : r.answer.hub = HubText(hub)
    BY IssuedFields
  <2>2. r.answer.hub \in Seq(Bytes)
    BY <2>1, HubTextType
  <2>3. \A s \in Seq(Bytes) : \A x : Len(Append(s, x)) = Len(s) + 1 /\ Len(s) \in Nat
    OBVIOUS
  <2>. QED  BY <1>2, <2>2, <2>3 DEF Shifted
<1>. QED  BY <1>1, <1>2 DEF Arrived

-----------------------------------------------------------------------------
(***************************************************************************)
(* The keys that prepare can work with: the proxy's, and, as the signature *)
(* covers the fields without their boundaries, one with a digit moved from *)
(* the modulus to the public key.  With that one, no request gets through. *)
(***************************************************************************)
GoodKey == [g |-> GKey, n |-> NKey, pub |-> ProxyPub]
ShiftedKey == [g |-> GKey, n |-> Front(NKey), pub |-> <<Last(NKey)>> \o ProxyPub]

LEMMA KeyAnswerFields ==
  /\ KeyAnswer.g = GKey /\ KeyAnswer.n = NKey /\ KeyAnswer.pub = ProxyPub
  /\ KeyAnswer.sign = [signed |-> GKey \o NKey \o ProxyPub]
  /\ DOMAIN KeyAnswer = {"g", "n", "pub", "sign"}
BY DEF KeyAnswer, ProxyPub, PubOf

LEMMA OtherPubRefused ==
  ASSUME NEW a, a = [KeyAnswer EXCEPT !.pub = Power(GKey, {ProxyKey + 1}, NKey)]
  PROVE  ~ VerifyDHKeys(a)
<1>. DEFINE left == GKey \o NKey
            p == ProxyPub
            q == PubOf(1)
<1>1. p # q
  <2>1. {ProxyKey} # {1}
    BY DEF ProxyKey
  <2>. QED  BY <2>1, PowersDiffer DEF ProxyPub, PubOf
<1>2. left \in Seq(Bytes)
  BY KeyBytes, Joined
<1>3. PICK C : p \in Seq(C)
  BY PowerFields DEF ProxyPub, PubOf
<1>4. PICK D : q \in Seq(D)
  BY PowerFields DEF PubOf
<1>5. a.g = GKey /\ a.n = NKey /\ a.pub = q /\ a.sign = [signed |-> left \o p]
  <2>1. ProxyKey + 1 = 1
    BY DEF ProxyKey
  <2>. QED  BY <2>1, KeyAnswerFields DEF KeyAnswer, PubOf
<1>. HIDE DEF left, p, q
<1>. DEFINE E == Bytes \cup C \cup D
<1>6. left \in Seq(E) /\ p \in Seq(E) /\ q \in Seq(E)
  BY <1>2, <1>3, <1>4
<1>. HIDE DEF E
<1>7. ASSUME left \o p = left \o q  PROVE p = q
  <2>1. Len(left \o p) = Len(left) + Len(p) /\ Len(left \o q) = Len(left) + Len(q)
        /\ Len(left) \in Nat /\ Len(p) \in Nat /\ Len(q) \in Nat
    BY <1>6, Joined
  <2>2. Len(p) = Len(q)
    BY <1>7, <2>1
  <2>3. \A i \in 1 .. Len(p) : (left \o p)[Len(left) + i] = p[i]
    BY <1>6, Joined
  <2>4. \A i \in 1 .. Len(q) : (left \o q)[Len(left) + i] = q[i]
    BY <1>6, Joined
  <2>5. \A i \in 1 .. Len(p) : p[i] = q[i]
    BY <1>7, <2>2, <2>3, <2>4
  <2>. QED  BY <1>6, <2>2, <2>5
<1>8. VerifyDHKeys(a) => left \o p = left \o q
  <2>1. VerifyDHKeys(a) => a.sign = [signed |-> left \o q]
    BY <1>5 DEF VerifyDHKeys, left
  <2>2. \A u, v : [signed |-> u] = [signed |-> v] => u = v
    <3>1. ASSUME NEW u, NEW v, [signed |-> u] = [signed |-> v]  PROVE u = v
      <4>1. [signed |-> u].signed = u /\ [signed |-> v].signed = v
        OBVIOUS
      <4>. QED  BY <3>1, <4>1
    <3>. QED  BY <3>1
  <2>. QED  BY <1>5, <2>1, <2>2, Zenon
<1>. QED  BY <1>1, <1>7, <1>8

LEMMA SealFields ==
  ASSUME NEW k, NEW a, NEW p
  PROVE  Seal(k, a, p).key = k /\ Seal(k, a, p).aad = a /\ Seal(k, a, p).plain = p
BY DEF Seal

LEMMA RequestFields ==
  ASSUME NEW key, NEW priv
  PROVE  /\ Request(key, priv).pub = PowMod(key.g, priv, key.n)
         /\ Request(key, priv).tag =
              Seal(PowMod(key.pub, priv, key.n),
                   Cut(ClientAad(PowMod(key.g, priv, key.n))), projectToken)
         /\ Request(key, priv).token = CipherText(Request(key, priv).tag)
BY DEF Request, CalcPublicKey, CalcSecretKey

LEMMA GoodRequest ==
  ASSUME NEW c
  PROVE  /\ Request(GoodKey, c).pub = PubOf(c)
         /\ Request(GoodKey, c).tag =
              Seal(PowMod(PubOf(c), ProxyKey, NKey), Cut(ClientAad(PubOf(c))), projectToken)
         /\ Request(GoodKey, c).token = CipherText(Request(GoodKey, c).tag)
<1>1. GoodKey.g = GKey /\ GoodKey.n = NKey /\ GoodKey.pub = PubOf(ProxyKey)
  BY DEF GoodKey, ProxyPub
<1>2. PowMod(GKey, c, NKey) = PubOf(c)
  BY KeysAgree
<1>3. PowMod(PubOf(ProxyKey), c, NKey) = PowMod(PubOf(c), ProxyKey, NKey)
  BY KeysAgree
<1>. QED  BY <1>1, <1>2, <1>3, RequestFields, Zenon

LEMMA ShiftedRequestRefused ==
  ASSUME request = Request(ShiftedKey, privKey)
  PROVE  ~ TokenArrives
<1>. DEFINE n == Front(NKey)
            b == <<Last(NKey)>> \o ProxyPub
            p == Power(GKey, {privKey}, n)
<1>1. ShiftedKey.g = GKey /\ ShiftedKey.n = n /\ ShiftedKey.pub = b
  BY DEF ShiftedKey
<1>2. n # NKey
  BY KeyBytes
<1>3. ~ IsDigit(Head(b))
  <2>. DEFINE one == <<Last(NKey)>>
  <2>1. one \in Seq(Bytes) /\ Len(one) = 1 /\ one[1] \in Bytes
    BY KeyBytes
  <2>. HIDE DEF one
  <2>2. PICK C : ProxyPub \in Seq(C)
    BY PowerFields DEF ProxyPub, PubOf
  <2>. DEFINE D == Bytes \cup C
  <2>3. one \in Seq(D) /\ ProxyPub \in Seq(D)
    BY <2>1, <2>2
  <2>. HIDE DEF D
  <2>4. one \o ProxyPub \in Seq(D) /\ (one \o ProxyPub)[1] = one[1]
    <3>1. 1 \in 1 .. Len(one)
      BY <2>1
    <3>. QED  BY <2>3, <3>1, Joined
  <2>5. \A s \in Seq(D) : Head(s) = s[1]
    OBVIOUS
  <2>6. Head(one \o ProxyPub) \in Bytes
    BY <2>1, <2>4, <2>5, Zenon
  <2>. QED  BY <2>6, BytesAreNoDigits DEF one
<1>4. ~ IsDigit(Head(GKey))
  BY KeyBytes, BytesAreNoDigits
<1>5. request.pub = p
  <2>1. PowMod(GKey, privKey, n) = p
    BY <1>4, PowModOfBytes
  <2>. QED  BY <1>1, <2>1, RequestFields, Zenon
<1>6. request.tag.key = Power(b, {privKey}, n)
  <2>1. PowMod(b, privKey, n) = Power(b, {privKey}, n)
    BY <1>3, PowModOfBytes
  <2>. DEFINE k == PowMod(ShiftedKey.pub, privKey, ShiftedKey.n)
              aad == Cut(ClientAad(PowMod(ShiftedKey.g, privKey, ShiftedKey.n)))
  <2>2. request.tag = Seal(k, aad, projectToken)
    BY RequestFields
  <2>3. k = PowMod(b, privKey, n)
    BY <1>1, Zenon
  <2>. HIDE DEF k, aad
  <2>4. Seal(k, aad, projectToken).key = k
    BY SealFields
  <2>. QED  BY <2>1, <2>2, <2>3, <2>4, Zenon
<1>7. TokenArrives => request.tag.key = PowMod(p, ProxyKey, NKey)
  <2>. DEFINE k == PowMod(request.pub, ProxyKey, NKey)
              aad == ClientAad(request.pub)
  <2>1. TokenArrives => request.tag = Seal(k, aad, projectToken)
    BY DEF TokenArrives
  <2>2. k = PowMod(p, ProxyKey, NKey)
    BY <1>5, Zenon
  <2>. HIDE DEF k, aad
  <2>3. Seal(k, aad, projectToken).key = k
    BY SealFields
  <2>. QED  BY <2>1, <2>2, <2>3, Zenon
<1>8. PowMod(p, ProxyKey, NKey) = Power(p, {ProxyKey}, NKey)
  BY <1>2, PowModOfOther
<1>. HIDE DEF n, b, p
<1>9. Power(b, {privKey}, n) # Power(p, {ProxyKey}, NKey)
  BY <1>2, PowersDiffer
<1>. QED  BY <1>6, <1>7, <1>8, <1>9

-----------------------------------------------------------------------------
(***************************************************************************)
(* What each step works with.                                              *)
(***************************************************************************)
KeyAnswers == {KeyAnswer} \cup BadKeyAnswers
Refusals == [error : Errors]

StepInv ==
  /\ step # "idle" => calls > 0
  /\ step = "idle" => answer = None /\ request = None
  /\ step = "exchange" =>
       request = None /\ (answer = None \/ answer \in KeyAnswers \/ answer \in Refusals)
  /\ step = "register" =>
       /\ serverKey \in {GoodKey, ShiftedKey} /\ privKey = calls
       /\ request = None \/ (request = Request(serverKey, privKey) /\ answer = None)
       /\ answer = None \/ answer \in Refusals \/ Arrived(answer, issued)
  /\ step \in {"search", "decrypt"} => Arrived(answer, issued)

Steps == {"idle", "exchange", "register", "search", "decrypt"}

LEMMA AnswerKinds ==
  /\ DOMAIN None = {"none"}
  /\ \A a \in Refusals : DOMAIN a = {"error"} /\ a.error \in Errors
  /\ \A a \in KeyAnswers : DOMAIN a = {"g", "n", "pub", "sign"}
<1>1. DOMAIN None = {"none"}
  BY DEF None
<1>2. \A a \in Refusals : DOMAIN a = {"error"} /\ a.error \in Errors
  BY DEF Refusals
<1>3. \A a \in KeyAnswers : DOMAIN a = {"g", "n", "pub", "sign"}
  BY KeyAnswerFields DEF KeyAnswers, BadKeyAnswers
<1>. QED  BY <1>1, <1>2, <1>3

\* Of the answers to exchangeKey, the verified ones give one of two keys.
LEMMA VerifiedKeys ==
  ASSUME NEW a \in KeyAnswers, VerifyDHKeys(a)
  PROVE  [g |-> a.g, n |-> a.n, pub |-> a.pub] \in {GoodKey, ShiftedKey}
<1>1. CASE a = KeyAnswer
  BY <1>1, KeyAnswerFields DEF GoodKey
<1>2. CASE a = [KeyAnswer EXCEPT !.pub = Power(GKey, {ProxyKey + 1}, NKey)]
  BY <1>2, OtherPubRefused
<1>3. CASE a = [KeyAnswer EXCEPT !.n = Front(@), !.pub = <<Last(NKey)>> \o @]
  <2>1. a.g = GKey /\ a.n = Front(NKey) /\ a.pub = <<Last(NKey)>> \o ProxyPub
    BY <1>3, KeyAnswerFields
  <2>. QED  BY <2>1 DEF ShiftedKey
<1>. QED  BY <1>1, <1>2, <1>3 DEF KeyAnswers, BadKeyAnswers

\* What the network makes of an answer still carries the seal of a registered one.
LEMMA DamagedArrives ==
  ASSUME calls \in Nat, IssuedInv, calls > 0, NEW hub \in Hubs, NEW r, r = Registration(calls, hub),
         NEW b \in {r.answer} \cup BadTicketAnswers(r.answer)
  PROVE  Arrived(b, issued \cup {r})
<1>. DEFINE a == r.answer
<1>1. a = Registration(calls, hub).answer
  OBVIOUS
<1>. HIDE DEF a
<1>2. /\ a.id = calls /\ a.hub = HubText(hub) /\ a.pub = PubOf(-calls)
      /\ DOMAIN a = {"id", "hub", "pub", "token", "tag"}
  BY <1>1, RegistrationFields
<1>3. /\ a.id \in Nat /\ a.id + 1 \in Nat /\ -calls \in Int /\ 1 \in Int
      /\ \A h \in Hubs : \E g \in Hubs : HubText(h) = HubText(g)
  BY <1>2
<1>4. Fresh(a)
  BY <1>2, <1>3 DEF Fresh
<1>5. ASSUME b.tag = a.tag, Fresh(b) \/ Shifted(b, a)
      PROVE  Arrived(b, issued \cup {r})
  BY <1>5 DEF Arrived, a
<1>6. CASE b = a
  BY <1>4, <1>5, <1>6
<1>7. CASE b = [a EXCEPT !.id = @ + 1]
  <2>1. b.id = a.id + 1 /\ b.hub = a.hub /\ b.pub = a.pub /\ b.tag = a.tag
    BY <1>2, <1>7
  <2>. QED  BY <1>3, <1>4, <1>5, <2>1 DEF Fresh
<1>8. CASE b = [a EXCEPT !.pub = Power(GKey, {1}, NKey)]
  <2>1. b.id = a.id /\ b.hub = a.hub /\ b.pub = PubOf(1) /\ b.tag = a.tag
    BY <1>2, <1>8 DEF PubOf
  <2>. QED  BY <1>3, <1>4, <1>5, <2>1 DEF Fresh
<1>9. CASE b = [a EXCEPT !.hub = Append(@, Head(a.pub)), !.pub = Tail(@)]
  <2>1. b.id = a.id /\ b.hub = Append(a.hub, Head(a.pub)) /\ b.pub = Tail(a.pub) /\ b.tag = a.tag
    BY <1>2, <1>9
  <2>. QED  BY <1>5, <2>1 DEF Shifted
<1>10. CASE b = [a EXCEPT !.token = Front(@)]
  <2>1. b.id = a.id /\ b.hub = a.hub /\ b.pub = a.pub /\ b.tag = a.tag
    BY <1>2, <1>10
  <2>. QED  BY <1>4, <1>5, <2>1 DEF Fresh
<1>11. ASSUME NEW h \in Hubs, b = [a EXCEPT !.hub = HubText(h)]
       PROVE  Arrived(b, issued \cup {r})
  <2>1. b.id = a.id /\ b.hub = HubText(h) /\ b.pub = a.pub /\ b.tag = a.tag
    BY <1>2, <1>11
  <2>. QED  BY <1>4, <1>5, <2>1 DEF Fresh
<1>12. ASSUME NEW q \in issued, b = [a EXCEPT !.token = q.answer.token, !.tag = q.answer.tag]
       PROVE  Arrived(b, issued \cup {r})
  <2>1. b.id = a.id /\ b.hub = a.hub /\ b.pub = a.pub /\ b.tag = q.answer.tag
    BY <1>2, <1>12
  <2>2. Fresh(b)
    BY <1>4, <2>1 DEF Fresh
  <2>. QED  BY <2>1, <2>2 DEF Arrived
<1>13. ASSUME NEW q \in issued, b = q.answer
       PROVE  Arrived(b, issued \cup {r})
  <2>1. Fresh(q.answer)
    BY IssuedFields
  <2>. QED  BY <1>13, <2>1 DEF Arrived
<1>14. b \in {a} \cup BadTicketAnswers(a)
  BY DEF a
<1>. QED  BY <1>6, <1>7, <1>8, <1>9, <1>10, <1>11, <1>12, <1>13, <1>14 DEF BadTicketAnswers

-----------------------------------------------------------------------------
(***************************************************************************)
(* The steps, and the types.                                               *)
(***************************************************************************)
AnswerInv == TypeOK /\ IssuedInv /\ StepInv

LEMMA TypeFacts ==
  ASSUME TypeOK
  PROVE  /\ calls \in Nat /\ calls <= MaxCalls /\ MaxCalls \in Nat /\ ByteSpace \in Nat /\ ByteSpace > 0
         /\ idx \in Nat /\ idx < ByteSpace /\ index \in Nat
         /\ projectToken \in Seq(Bytes) /\ Len(projectToken) \in Nat
BY ProxyAssumption DEF TypeOK

Codes == {"none", "Nil", "NotEnoughMemory", "VerifyRSAFailed", "MbedTLS"} \cup Errors

LEMMA ReturnTypes ==
  ASSUME TypeOK, NEW code \in Codes, Return(code),
         UNCHANGED <<calls, projectToken>>, faults' \in BOOLEAN
  PROVE  TypeOK'
<1>1. 0 \in 0 .. ByteSpace - 1 /\ 0 \in 0 .. MaxCalls
  BY TypeFacts
<1>2. Len(<<>>) = 0
  OBVIOUS
<1>. QED  BY <1>1, <1>2 DEF TypeOK, Return, Codes

LEMMA ReturnSteps ==
  ASSUME NEW code, Return(code), IssuedInv, UNCHANGED <<calls, issued>>
  PROVE  StepInv' /\ IssuedInv'
BY DEF Return, StepInv, IssuedInv

LEMMA RefusedSteps ==
  ASSUME AnswerInv, Refused
  PROVE  AnswerInv'
<1>1. answer.error \in Codes
  BY AnswerKinds DEF Refused, Refusals, Codes
<1>2. faults' \in BOOLEAN
  BY DEF Refused, AnswerInv, TypeOK
<1>. QED  BY <1>1, <1>2, ReturnTypes, ReturnSteps DEF Refused, AnswerInv

LEMMA HttpFailsSteps ==
  ASSUME AnswerInv, HttpFails
  PROVE  AnswerInv'
<1>1. "HTTP" \in Codes
  BY DEF Codes, Errors
<1>. QED  BY <1>1, ReturnTypes, ReturnSteps DEF HttpFails, AnswerInv

LEMMA NoMemorySteps ==
  ASSUME AnswerInv, NoMemory
  PROVE  AnswerInv'
<1>1. "NotEnoughMemory" \in Codes
  BY DEF Codes
<1>. QED  BY <1>1, ReturnTypes, ReturnSteps DEF NoMemory, AnswerInv

LEMMA FinishSteps ==
  ASSUME AnswerInv, Finish
  PROVE  AnswerInv'
<1>1. Return("Nil") \/ Return("MbedTLS")
  BY DEF Finish
<1>2. "Nil" \in Codes /\ "MbedTLS" \in Codes
  BY DEF Codes
<1>3. UNCHANGED <<calls, projectToken, issued>> /\ faults' \in BOOLEAN
  BY DEF Finish, AnswerInv, TypeOK
<1>. QED  BY <1>1, <1>2, <1>3, ReturnTypes, ReturnSteps DEF AnswerInv

LEMMA StartExchangeSteps ==
  ASSUME AnswerInv, StartExchange
  PROVE  AnswerInv'
<1>1. /\ step' = "exchange" /\ calls' = calls + 1 /\ calls < MaxCalls /\ result' = "none"
      /\ faults' = FALSE
      /\ UNCHANGED <<projectToken, privKey, token, request, answer, idx, index, issued>>
      /\ answer = None /\ request = None
  BY DEF StartExchange, AnswerInv, StepInv
<1>2. calls \in Nat /\ calls + 1 \in 0 .. MaxCalls
  BY <1>1, TypeFacts DEF AnswerInv
<1>3. TypeOK'
  BY <1>1, <1>2 DEF AnswerInv, TypeOK
<1>4. IssuedInv'
  <2>1. \A id \in 1 .. calls : id \in 1 .. calls + 1
    BY <1>2
  <2>. QED  BY <1>1, <2>1 DEF AnswerInv, IssuedInv
<1>5. calls' > 0
  BY <1>1, <1>2
<1>. QED  BY <1>1, <1>3, <1>4, <1>5 DEF AnswerInv, StepInv

LEMMA AnswerKeySteps ==
  ASSUME AnswerInv, AnswerKey
  PROVE  AnswerInv'
<1>1. /\ step = "exchange" /\ request = None /\ faults' \in BOOLEAN
      /\ answer' \in KeyAnswers \/ answer' \in Refusals
      /\ UNCHANGED <<step, calls, result, projectToken, privKey, token, request, idx, index, issued>>
  BY DEF AnswerKey, AnswerInv, StepInv, TypeOK, KeyAnswers, Refusals
<1>2. TypeOK'
  BY <1>1 DEF AnswerInv, TypeOK
<1>. QED  BY <1>1, <1>2 DEF AnswerInv, StepInv, IssuedInv

LEMMA TakeKeysSteps ==
  ASSUME AnswerInv, TakeKeys
  PROVE  AnswerInv'
<1>1. step = "exchange" /\ answer \in KeyAnswers /\ UNCHANGED <<calls, projectToken, issued, faults>>
  BY AnswerKinds DEF TakeKeys, AnswerInv, StepInv
<1>2. CASE ~ VerifyDHKeys(answer)
  <2>1. Return("VerifyRSAFailed") /\ "VerifyRSAFailed" \in Codes
    BY <1>2 DEF TakeKeys, Codes
  <2>2. faults' \in BOOLEAN
    BY <1>1 DEF AnswerInv, TypeOK
  <2>. QED  BY <1>1, <2>1, <2>2, ReturnTypes, ReturnSteps DEF AnswerInv
<1>3. CASE VerifyDHKeys(answer)
  <2>1. /\ step' = "register" /\ serverKey' = [g |-> answer.g, n |-> answer.n, pub |-> answer.pub]
        /\ privKey' = calls /\ request' = Request(serverKey', calls) /\ token' = request'.token
        /\ answer' = None /\ UNCHANGED <<result, idx, index>>
    BY <1>3 DEF TakeKeys, PrivateKey
  <2>2. serverKey' \in {GoodKey, ShiftedKey}
    BY <1>1, <1>3, <2>1, VerifiedKeys
  <2>3. Len(token') = Len(projectToken)
    <3>1. token' = CipherText(Request(serverKey', calls).tag)
      BY <2>1, RequestFields
    <3>2. Request(serverKey', calls).tag.plain = projectToken
      BY RequestFields, SealFields
    <3>3. Len(projectToken) \in Nat
      BY TypeFacts DEF AnswerInv
    <3>. QED  BY <3>1, <3>2, <3>3 DEF CipherText
  <2>4. TypeOK'
    BY <1>1, <2>1, <2>3 DEF AnswerInv, TypeOK
  <2>5. IssuedInv'
    BY <1>1 DEF AnswerInv, IssuedInv
  <2>6. StepInv'
    <3>1. request' = Request(serverKey, privKey)'
      BY <2>1, <1>1 DEF Request, CalcPublicKey, CalcSecretKey
    <3>2. calls' > 0
      BY <1>1 DEF AnswerInv, StepInv
    <3>. QED  BY <1>1, <2>1, <2>2, <3>1, <3>2 DEF StepInv
  <2>. QED  BY <2>4, <2>5, <2>6 DEF AnswerInv
<1>. QED  BY <1>2, <1>3

LEMMA TakeAnswerSteps ==
  ASSUME AnswerInv, TakeAnswer
  PROVE  AnswerInv' /\ Len(answer.hub) \in Nat
<1>1. /\ step = "register" /\ step' = "search" /\ idx' = (Len(answer.hub) - 1) % ByteSpace
      /\ UNCHANGED <<calls, result, projectToken, serverKey, privKey, token, request, answer,
                     index, issued, faults>>
  BY DEF TakeAnswer
<1>2. Arrived(answer, issued)
  <2>1. "hub" \in DOMAIN answer
    BY DEF TakeAnswer
  <2>. QED  BY <1>1, <2>1, AnswerKinds DEF AnswerInv, StepInv
<1>3. Len(answer.hub) \in Nat
  BY <1>2, TypeFacts, ArrivedHub DEF AnswerInv
<1>4. idx' \in 0 .. ByteSpace - 1
  <2>1. Len(answer.hub) - 1 \in Int /\ ByteSpace \in Nat /\ ByteSpace > 0
    BY <1>3, TypeFacts DEF AnswerInv
  <2>2. \A n \in Int : \A b \in Nat : b > 0 => n % b \in 0 .. b - 1
    BY Z3
  <2>. QED  BY <1>1, <2>1, <2>2
<1>5. TypeOK'
  BY <1>1, <1>4 DEF AnswerInv, TypeOK
<1>. QED  BY <1>1, <1>2, <1>3, <1>5 DEF AnswerInv, StepInv, IssuedInv

LEMMA SearchSteps ==
  ASSUME AnswerInv, Search
  PROVE  AnswerInv'
<1>1. /\ step = "search" /\ step' \in {"search", "decrypt"}
      /\ UNCHANGED <<calls, result, projectToken, serverKey, privKey, token, request, answer,
                     issued, faults>>
      /\ idx' = idx \/ idx' = Down(idx)
      /\ index' = index \/ index' = idx
  BY DEF Search
<1>2. Down(idx) \in 0 .. ByteSpace - 1
  <2>1. ByteSpace \in Nat /\ ByteSpace > 0 /\ idx \in Nat
    BY TypeFacts DEF AnswerInv
  <2>2. \A n \in Int : \A b \in Nat : b > 0 => n % b \in 0 .. b - 1
    BY Z3
  <2>3. idx - 1 + ByteSpace \in Int
    BY <2>1
  <2>. QED  BY <2>1, <2>2, <2>3 DEF Down
<1>3. TypeOK'
  BY <1>1, <1>2 DEF AnswerInv, TypeOK
<1>. QED  BY <1>1, <1>3 DEF AnswerInv, StepInv, IssuedInv

LEMMA AnswerTicketSteps ==
  ASSUME AnswerInv, AnswerTicket
  PROVE  AnswerInv'
<1>1. /\ step = "register" /\ request # None /\ request' = None
      /\ UNCHANGED <<step, calls, result, projectToken, serverKey, privKey, token, idx, index>>
  BY DEF AnswerTicket
<1>2. /\ request = Request(serverKey, privKey) /\ answer = None /\ privKey = calls
      /\ serverKey \in {GoodKey, ShiftedKey}
  BY <1>1 DEF AnswerInv, StepInv
<1>3. TypeOK'
  <2>1. faults' \in BOOLEAN
    BY DEF AnswerTicket, AnswerInv, TypeOK
  <2>. QED  BY <1>1, <2>1 DEF AnswerInv, TypeOK
<1>4. CASE ~ TokenArrives
  <2>1. answer' = [error |-> "Server"] /\ UNCHANGED issued
    BY <1>4 DEF AnswerTicket
  <2>2. answer' \in Refusals
    BY <2>1 DEF Refusals, Errors
  <2>. QED  BY <1>1, <1>2, <1>3, <2>1, <2>2 DEF AnswerInv, StepInv, IssuedInv
<1>5. CASE TokenArrives
  <2>1. serverKey = GoodKey
    BY <1>2, <1>5, ShiftedRequestRefused
  <2>2. request.pub = PubOf(calls)
    BY <1>2, <2>1, GoodRequest
  <2>3. PICK hub \in Hubs :
          LET a == TicketAnswer(calls, hub, request.pub) IN
          /\ issued' = issued \cup {[answer |-> a, hub |-> hub, clientPub |-> request.pub]}
          /\ \/ answer' = a
             \/ answer' \in BadTicketAnswers(a) \cup [error : Errors]
             \/ UNCHANGED answer
    BY <1>5, Zenon DEF AnswerTicket
  <2>. DEFINE r == Registration(calls, hub)
  <2>4. /\ issued' = issued \cup {r}
        /\ \/ answer' = r.answer
           \/ answer' \in BadTicketAnswers(r.answer) \/ answer' \in Refusals
           \/ answer' = None
    <3>1. r.answer = TicketAnswer(calls, hub, request.pub)
          /\ r = [answer |-> r.answer, hub |-> hub, clientPub |-> request.pub]
      BY <2>2 DEF Registration
    <3>. HIDE DEF r
    <3>. QED  BY <1>2, <2>3, <3>1 DEF Refusals
  <2>. HIDE DEF r
  <2>5. calls \in Nat /\ calls > 0
    <3>1. calls \in Nat
      BY TypeFacts DEF AnswerInv
    <3>. QED  BY <1>1, <3>1 DEF AnswerInv, StepInv
  <2>6. answer' = None \/ answer' \in Refusals \/ Arrived(answer', issued')
    BY <2>4, <2>5, DamagedArrives DEF AnswerInv, r
  <2>7. IssuedInv'
    BY <1>1, <2>4, <2>5 DEF AnswerInv, IssuedInv, r
  <2>. QED  BY <1>1, <1>2, <1>3, <2>6, <2>7 DEF AnswerInv, StepInv
<1>. QED  BY <1>4, <1>5

LEMMA InitAnswerInv == Init => AnswerInv
<1>. SUFFICES ASSUME Init  PROVE AnswerInv
  OBVIOUS
<1>1. ByteSpace \in Nat /\ ByteSpace > 0 /\ MaxCalls \in Nat
  BY ProxyAssumption
<1>2. 0 \in 0 .. ByteSpace - 1 /\ 0 \in 0 .. MaxCalls /\ Len(<<>>) = 0
  BY <1>1
<1>3. TypeOK
  BY <1>2 DEF Init, TypeOK
<1>. QED  BY <1>3 DEF Init, AnswerInv, StepInv, IssuedInv

LEMMA StepAnswerInv == AnswerInv /\ [Next]_vars => AnswerInv'
<1>. SUFFICES ASSUME AnswerInv, [Next]_vars  PROVE AnswerInv'
  OBVIOUS
<1>1. CASE StartExchange
  BY <1>1, StartExchangeSteps
<1>2. CASE Prepare
  BY <1>2, RefusedSteps, TakeKeysSteps, TakeAnswerSteps, SearchSteps, FinishSteps DEF Prepare
<1>3. CASE HttpFails \/ NoMemory
  BY <1>3, HttpFailsSteps, NoMemorySteps
<1>4. CASE AnswerKey \/ AnswerTicket
  BY <1>4, AnswerKeySteps, AnswerTicketSteps
<1>5. CASE UNCHANGED vars
  <2>1. TypeOK'
    BY <1>5 DEF vars, AnswerInv, TypeOK
  <2>2. StepInv'
    BY <1>5 DEF vars, AnswerInv, StepInv, Request, CalcPublicKey, CalcSecretKey
  <2>. QED  BY <1>5, <2>1, <2>2 DEF vars, AnswerInv, IssuedInv
<1>. QED  BY <1>1, <1>2, <1>3, <1>4, <1>5 DEF Next

\* The variables keep their types: in particular the index of the search stays
\* within the 8 bits of proxy.cpp:295, and the buffer of the token is as long as
\* the project's token.
THEOREM ProxyTypeCorrect == Spec => []TypeOK
<1>1. AnswerInv => TypeOK
  BY DEF AnswerInv
<1>. QED  BY <1>1, InitAnswerInv, StepAnswerInv, PTL DEF Spec

-----------------------------------------------------------------------------
(***************************************************************************)
(* The search for the port.                                                *)
(***************************************************************************)
\* The search is not past the colon, and it ends at the one before the port.
AddressInv ==
  \A hub \in Hubs :
    /\ step = "search" /\ answer.hub = HubText(hub) /\ Len(answer.hub) <= ByteSpace =>
         Len(hub.ip) <= idx /\ idx < Len(answer.hub)
    /\ step = "decrypt" /\ answer.hub = HubText(hub) => index = Len(hub.ip)

LEMMA HubLength ==
  ASSUME NEW hub \in Hubs, Splittable(hub)
  PROVE  Len(HubText(hub)) \in Nat /\ Len(hub.ip) \in Nat /\ Len(HubText(hub)) > Len(hub.ip)
<1>1. \A m, a, b \in Nat : m = a + 1 + b => m > a
  BY Z3
<1>2. /\ Len(HubText(hub)) \in Nat /\ Len(hub.ip) \in Nat /\ Len(Text(hub.port)) \in Nat
      /\ Len(HubText(hub)) = Len(hub.ip) + 1 + Len(Text(hub.port))
  BY HubCells, HubFields
<1>. QED  BY <1>1, <1>2

LEMMA TakeAnswerAddress ==
  ASSUME AnswerInv, TakeAnswer, \A hub \in Hubs : Splittable(hub)
  PROVE  AddressInv'
<1>. SUFFICES ASSUME NEW hub \in Hubs, answer.hub = HubText(hub), Len(answer.hub) <= ByteSpace
              PROVE  Len(hub.ip) <= idx' /\ idx' < Len(answer.hub)
  BY DEF AddressInv, TakeAnswer
<1>. DEFINE n == Len(answer.hub)
<1>1. idx' = (n - 1) % ByteSpace
  BY DEF TakeAnswer
<1>2. n \in Nat /\ Len(hub.ip) \in Nat /\ n > Len(hub.ip)
  BY HubLength
<1>3. n - 1 \in Nat /\ n - 1 < ByteSpace /\ ByteSpace \in Nat
  BY <1>2, TypeFacts DEF AnswerInv
<1>. HIDE DEF n
<1>4. \A k \in Nat : \A b \in Nat : k < b => k % b = k
  BY Z3
<1>5. idx' = n - 1
  BY <1>1, <1>3, <1>4
<1>. QED  BY <1>2, <1>5 DEF n

\* Where the search can be, the text of an address has a colon at its end only.
LEMMA ColonFound ==
  ASSUME NEW hub \in Hubs, Splittable(hub), NEW i \in 0 .. ByteSpace - 1,
         Len(HubText(hub)) <= ByteSpace => Len(hub.ip) <= i /\ i < Len(HubText(hub))
  PROVE  /\ i < Len(HubText(hub))
         /\ HubText(hub)[i + 1] = Colon <=> i = Len(hub.ip)
<1>. DEFINE t == Text(hub.port)
            whole == HubText(hub)
            L == Len(hub.ip)
<1>1. /\ L \in Nat /\ Len(t) \in Nat /\ Len(whole) = L + 1 + Len(t) /\ whole[L + 1] = Colon
      /\ \A k \in 1 .. L : whole[k] = hub.ip[k]
      /\ \A k \in 1 .. Len(t) : whole[L + 1 + k] = t[k]
      /\ t \in Seq(Digits)
  BY HubCells, HubFields
<1>2. ByteSpace \in Nat /\ Len(whole) <= ByteSpace => L <= i /\ i < Len(whole)
  OBVIOUS
<1>3. ByteSpace \in Nat
  BY ProxyAssumption
<1>4. Len(whole) <= ByteSpace \/ \A k \in 1 .. L : hub.ip[k] # Colon
  BY DEF Splittable
<1>. HIDE DEF whole, t
<1>5. i < Len(whole)
  <2>1. i \in Nat /\ i < ByteSpace /\ Len(whole) \in Nat
    BY <1>1, <1>3
  <2>. QED  BY <1>2, <1>3, <2>1
<1>6. CASE i < L
  <2>1. i + 1 \in 1 .. L
    BY <1>1, <1>6
  <2>2. ~ (Len(whole) <= ByteSpace)
    BY <1>1, <1>2, <1>3, <1>6
  <2>3. whole[i + 1] # Colon
    BY <1>1, <1>4, <2>1, <2>2
  <2>. QED  BY <1>1, <1>5, <1>6, <2>3 DEF whole
<1>7. CASE i = L
  BY <1>1, <1>5, <1>7 DEF whole
<1>8. CASE i > L
  <2>1. \A m, a, b, j \in Nat : m = a + 1 + b /\ j < m /\ j > a =>
          j - a \in 1 .. b /\ a + 1 + (j - a) = j + 1
    BY Z3
  <2>2. i - L \in 1 .. Len(t) /\ L + 1 + (i - L) = i + 1
    <3>1. i \in Nat /\ Len(whole) \in Nat /\ L \in Nat /\ Len(t) \in Nat
      BY <1>1, <1>3
    <3>2. Len(whole) = L + 1 + Len(t) /\ i < Len(whole) /\ i > L
      BY <1>1, <1>5, <1>8
    <3>. HIDE DEF L
    <3>. QED  BY <2>1, <3>1, <3>2
  <2>. DEFINE k == i - L
  <2>3. k \in 1 .. Len(t) /\ L + 1 + k = i + 1
    BY <2>2
  <2>. HIDE DEF k
  <2>4. whole[i + 1] = t[k] /\ t[k] \in Digits
    BY <1>1, <2>3
  <2>5. whole[i + 1] # Colon
    BY <2>4, DigitFields
  <2>. QED  BY <1>1, <1>5, <1>8, <2>5 DEF whole
<1>. QED  BY <1>1, <1>6, <1>7, <1>8

LEMMA SearchAddress ==
  ASSUME AnswerInv, AddressInv, Search, \A hub \in Hubs : Splittable(hub)
  PROVE  AddressInv'
<1>1. step = "search" /\ answer' = answer
  BY DEF Search
<1>. SUFFICES ASSUME NEW hub \in Hubs, answer.hub = HubText(hub)
              PROVE  /\ step' = "search" /\ Len(answer.hub) <= ByteSpace =>
                          Len(hub.ip) <= idx' /\ idx' < Len(answer.hub)
                     /\ step' = "decrypt" => index' = Len(hub.ip)
  BY <1>1 DEF AddressInv
<1>. DEFINE n == Len(answer.hub)
            L == Len(hub.ip)
<1>2. idx \in 0 .. ByteSpace - 1 /\ idx \in Nat /\ ByteSpace \in Nat /\ L \in Nat
  BY TypeFacts, HubFields DEF AnswerInv
<1>3. n <= ByteSpace => L <= idx /\ idx < n
  BY <1>1 DEF AddressInv
<1>4. idx < n /\ (answer.hub[idx + 1] = Colon <=> idx = L)
  BY <1>2, <1>3, ColonFound
<1>5. IF idx = L THEN step' = "decrypt" /\ index' = idx
      ELSE step' = step /\ idx' = Down(idx)
  BY <1>4 DEF Search
<1>6. n \in Nat /\ n > L
  BY HubLength
<1>. HIDE DEF n, L
<1>7. CASE idx = L
  BY <1>5, <1>7 DEF L
<1>8. CASE idx # L
  <2>1. n <= ByteSpace => Down(idx) = idx - 1
    <3>. SUFFICES ASSUME n <= ByteSpace  PROVE Down(idx) = idx - 1
      OBVIOUS
    <3>1. idx - 1 \in Nat /\ idx - 1 < ByteSpace
      BY <1>2, <1>3, <1>8
    <3>2. \A k \in Nat : \A b \in Nat : k < b => (k + b) % b = k
      BY Z3
    <3>. QED  BY <1>2, <3>1, <3>2 DEF Down
  <2>. QED  BY <1>1, <1>2, <1>3, <1>4, <1>5, <1>6, <1>8, <2>1 DEF n, L
<1>. QED  BY <1>7, <1>8

LEMMA StepAddressInv ==
  ASSUME \A hub \in Hubs : Splittable(hub)
  PROVE  AnswerInv /\ AddressInv /\ [Next]_vars => AddressInv'
<1>. SUFFICES ASSUME AnswerInv, AddressInv, [Next]_vars  PROVE AddressInv'
  OBVIOUS
<1>1. CASE TakeAnswer
  BY <1>1, TakeAnswerAddress
<1>2. CASE Search
  BY <1>2, SearchAddress
<1>3. CASE UNCHANGED vars
  BY <1>3 DEF vars, AddressInv
<1>4. CASE Refused \/ TakeKeys \/ Finish \/ HttpFails \/ NoMemory
  <2>1. step' \in {"idle", "register"}
    BY <1>4 DEF Refused, TakeKeys, Finish, HttpFails, NoMemory, Return
  <2>. QED  BY <2>1 DEF AddressInv
<1>5. CASE StartExchange \/ AnswerKey \/ AnswerTicket
  <2>1. step' \in {"exchange", "register"}
    BY <1>5 DEF StartExchange, AnswerKey, AnswerTicket
  <2>. QED  BY <2>1 DEF AddressInv
<1>. QED  BY <1>1, <1>2, <1>3, <1>4, <1>5 DEF Next, Prepare

\* The text that the proxy sends is split into the address and the port that it
\* means, however long it is, if its colon is where the index can reach it before
\* any other (proxy.cpp:295-306).
THEOREM ProxyAddressSplit ==
  ASSUME \A hub \in Hubs : Splittable(hub)
  PROVE  Spec => []AddressSplit
<1>. DEFINE Inv == AnswerInv /\ AddressInv
<1>1. Init => Inv
  BY InitAnswerInv DEF Init, AddressInv
<1>2. Inv /\ [Next]_vars => Inv'
  BY StepAnswerInv, StepAddressInv
<1>3. Inv => AddressSplit
  <2>. SUFFICES ASSUME AnswerInv, AddressInv, step = "decrypt", NEW r \in issued, answer = r.answer
                PROVE  /\ HubIP(answer.hub, index) = r.hub.ip
                       /\ HubPort(answer.hub, index) = r.hub.port
    BY DEF AddressSplit
  <2>1. PICK hub \in Hubs : r.hub = hub /\ r.answer.hub = HubText(hub)
    BY TypeFacts, IssuedFields DEF AnswerInv
  <2>2. index = Len(hub.ip)
    BY <2>1 DEF AddressInv
  <2>. QED  BY <2>1, <2>2, SplitText
<1>. QED  BY <1>1, <1>2, <1>3, PTL DEF Spec

-----------------------------------------------------------------------------
(***************************************************************************)
(* A ticket is whole: the tag of an answer that decrypts is a registered    *)
(* one, and says what the other fields were.                               *)
(***************************************************************************)
\* The buffer of the token is a string of cells.
TokenInv == \E C : token \in Seq(C)

LEMMA CipherTextCells ==
  ASSUME NEW seal, Len(seal.plain) \in Nat
  PROVE  \E C : CipherText(seal) \in Seq(C)
<1>. DEFINE C == {[part |-> seal, at |-> i] : i \in 1 .. Len(seal.plain)}
<1>1. CipherText(seal) \in Seq(C)
  BY DEF CipherText
<1>. HIDE DEF C
<1>. QED  BY <1>1

LEMMA StepTokenInv == AnswerInv /\ TokenInv /\ [Next]_vars => TokenInv'
<1>. SUFFICES ASSUME AnswerInv, TokenInv, [Next]_vars  PROVE TokenInv'
  OBVIOUS
<1>1. CASE token' = token
  BY <1>1 DEF TokenInv
<1>2. CASE token' = <<>>
  <2>1. <<>> \in Seq(Bytes)
    OBVIOUS
  <2>. QED  BY <1>2, <2>1 DEF TokenInv
<1>3. CASE TakeKeys
  <2>1. CASE VerifyDHKeys(answer)
    <3>. DEFINE q == Request([g |-> answer.g, n |-> answer.n, pub |-> answer.pub], calls)
    <3>1. token' = q.token
      BY <1>3, <2>1 DEF TakeKeys, PrivateKey
    <3>2. q.token = CipherText(q.tag) /\ q.tag.plain = projectToken
      BY RequestFields, SealFields
    <3>3. Len(projectToken) \in Nat
      BY TypeFacts DEF AnswerInv
    <3>. HIDE DEF q
    <3>4. \E C : CipherText(q.tag) \in Seq(C)
      BY <3>2, <3>3, CipherTextCells
    <3>. QED  BY <3>1, <3>2, <3>4 DEF TokenInv
  <2>2. CASE ~ VerifyDHKeys(answer)
    BY <1>2, <1>3, <2>2 DEF TakeKeys, Return
  <2>. QED  BY <2>1, <2>2
<1>4. CASE StartExchange \/ TakeAnswer \/ Search \/ AnswerKey \/ AnswerTicket \/ UNCHANGED vars
  BY <1>1, <1>4 DEF StartExchange, TakeAnswer, Search, AnswerKey, AnswerTicket, vars
<1>5. CASE Refused \/ Finish \/ HttpFails \/ NoMemory
  BY <1>2, <1>5 DEF Refused, Finish, HttpFails, NoMemory, Return
<1>. QED  BY <1>3, <1>4, <1>5 DEF Next, Prepare

\* The head of what is left of a power is a digit.
LEMMA TailIsNoKey ==
  ASSUME NEW b, NEW e, NEW m
  PROVE  Tail(Power(b, e, m)) # GKey
<1>. DEFINE p == Power(b, e, m)
<1>1. PICK C : p \in Seq(C)
  BY PowerFields
<1>2. Len(p) > 1 /\ 2 \in 1 .. KeyLen
  BY PowerFields
<1>3. IsDigit(p[2])
  BY <1>2, DigitOfPower
<1>. HIDE DEF p
<1>4. \A s \in Seq(C) : Len(s) > 1 => Tail(s)[1] = s[2]
  OBVIOUS
<1>5. IsDigit(Tail(p)[1])
  BY <1>1, <1>2, <1>3, <1>4
<1>6. ~ IsDigit(GKey[1])
  <2>1. GKey[1] \in Bytes
    BY KeyBytes
  <2>. QED  BY <2>1, BytesAreNoDigits
<1>7. Tail(p) # GKey
  BY <1>5, <1>6
<1>. QED  BY <1>7 DEF p

\* An answer with a shifted boundary gives no key that fits.
LEMMA ShiftedRefused ==
  ASSUME calls \in Nat, IssuedInv, NEW a, NEW r \in issued, a.tag = r.answer.tag, Shifted(a, r.answer)
  PROVE  TicketSecret(a) # a.tag.key
<1>. PICK id \in 1 .. calls, hub \in Hubs :
       /\ r.answer.pub = PubOf(-id)
       /\ r.answer.tag.key = PowMod(PubOf(id), TicketKey(id), NKey)
  BY IssuedFields
<1>. DEFINE t == Tail(PubOf(-id))
            k == TicketKey(id)
<1>1. a.pub = t
  BY DEF Shifted
<1>2. TicketSecret(a) = PowMod(a.pub, privKey, serverKey.n)
  BY DEF TicketSecret, CalcSecretKey
<1>3. PowMod(t, privKey, serverKey.n) = Power(t, {privKey}, serverKey.n)
  BY PowModOfTail DEF PubOf
<1>4. PowMod(PubOf(id), k, NKey) = Power(GKey, {id, k}, NKey)
  BY KeysAgree
<1>5. t # GKey
  BY TailIsNoKey DEF PubOf
<1>6. r.answer.tag.key = PowMod(PubOf(id), k, NKey)
  OBVIOUS
<1>. HIDE DEF t, k
<1>7. Power(t, {privKey}, serverKey.n) # Power(GKey, {id, k}, NKey)
  BY <1>5, PowersDiffer
<1>8. TicketSecret(a) = Power(t, {privKey}, serverKey.n)
  BY <1>1, <1>2, <1>3, Zenon
<1>. QED  BY <1>4, <1>6, <1>7, <1>8

\* What decrypts is what was registered.
LEMMA DecryptedWhole ==
  ASSUME calls \in Nat, IssuedInv, NEW a, Arrived(a, issued),
         Decrypts(TicketSecret(a), a.token, ServerAad(a), a.tag)
  PROVE  \E r \in issued : a.id = r.answer.id /\ a.hub = r.answer.hub /\ a.tag = r.answer.tag
                           /\ TicketSecret(a) = r.answer.tag.key
<1>1. TicketSecret(a) = a.tag.key /\ Cut(ServerAad(a)) = a.tag.aad
  BY DEF Decrypts
<1>2. PICK r \in issued : a.tag = r.answer.tag /\ Fresh(a)
  BY <1>1, ShiftedRefused DEF Arrived
<1>3. /\ r.answer.tag.aad = ServerAad(r.answer) /\ r.answer.id \in Nat
      /\ \E x : r.answer.pub = PubOf(x)
      /\ \E hub \in Hubs : r.answer.hub = HubText(hub)
  BY IssuedFields
<1>4. a.id \in Nat /\ a.hub \in Seq(Bytes) /\ \E x : a.pub = PubOf(x)
  BY <1>2, HubTextType DEF Fresh
<1>5. r.answer.hub \in Seq(Bytes)
  BY <1>3, HubTextType
<1>. DEFINE s == ServerAad(a)
            t == ServerAad(r.answer)
<1>6. IsAad(s, a.id, a.hub) /\ \E C : s \in Seq(C)
  BY <1>4, AadCells DEF PubOf
<1>7. IsAad(t, r.answer.id, r.answer.hub)
  BY <1>3, <1>5, AadCells DEF PubOf
<1>8. t = Cut(s)
  BY <1>1, <1>2, <1>3
<1>. HIDE DEF s, t
<1>9. Len(t) <= Len(s) /\ \A i \in 1 .. Len(t) : t[i] = s[i]
  BY <1>6, <1>8, CutFields
<1>10. a.id = r.answer.id /\ a.hub = r.answer.hub
  BY <1>3, <1>4, <1>5, <1>6, <1>7, <1>9, AadApart
<1>. QED  BY <1>1, <1>2, <1>10

\* The first bytes of the buffer are the token of the ticket.
LEMMA TokenFirst ==
  ASSUME NEW id, NEW C, NEW buf \in Seq(C), Len(buf) \in Nat
  PROVE  SubSeq(TicketToken(id) \o SubSeq(buf, Len(TicketToken(id)) + 1, Len(buf)), 1, TokenSize)
           = TicketToken(id)
<1>. DEFINE p == TicketToken(id)
            A == {[ticket |-> id, at |-> i] : i \in 1 .. TokenSize}
            rest == SubSeq(buf, Len(p) + 1, Len(buf))
            D == A \cup C
<1>1. TokenSize \in Nat
  BY ProxyAssumption
<1>2. p \in Seq(A) /\ Len(p) = TokenSize
  <2>1. \A i \in 1 .. TokenSize : [ticket |-> id, at |-> i] \in A
    OBVIOUS
  <2>. HIDE DEF A
  <2>2. p \in [1 .. TokenSize -> A]
    BY <2>1 DEF TicketToken
  <2>. HIDE DEF p
  <2>. QED  BY <1>1, <2>2
<1>. HIDE DEF p, A
<1>3. rest \in Seq(C)
  <2>1. \A n \in Nat : SubSeq(buf, n + 1, Len(buf)) \in Seq(C)
    OBVIOUS
  <2>. QED  BY <1>1, <1>2, <2>1
<1>. HIDE DEF rest
<1>4. p \in Seq(D) /\ rest \in Seq(D)
  BY <1>2, <1>3
<1>. HIDE DEF D
<1>. DEFINE whole == p \o rest
<1>5. /\ whole \in Seq(D) /\ Len(whole) = Len(p) + Len(rest) /\ Len(rest) \in Nat
      /\ \A i \in 1 .. Len(p) : whole[i] = p[i]
  BY <1>4, Joined
<1>. HIDE DEF whole
<1>6. \A w \in Seq(D) : \A n \in Nat : n <= Len(w) =>
        /\ SubSeq(w, 1, n) \in Seq(D) /\ Len(SubSeq(w, 1, n)) = n
        /\ \A i \in 1 .. n : SubSeq(w, 1, n)[i] = w[i]
  OBVIOUS
<1>. DEFINE first == SubSeq(whole, 1, TokenSize)
<1>7. first \in Seq(D) /\ Len(first) = TokenSize /\ \A i \in 1 .. TokenSize : first[i] = whole[i]
  <2>1. TokenSize <= Len(whole)
    BY <1>1, <1>2, <1>5
  <2>. QED  BY <1>1, <1>5, <1>6, <2>1
<1>. HIDE DEF first
<1>8. first = p
  BY <1>1, <1>2, <1>4, <1>5, <1>7
<1>. QED  BY <1>8 DEF first, whole, rest, p

LEMMA FinishWhole ==
  ASSUME AnswerInv, AddressInv, TokenInv, TicketWhole, Finish, \A hub \in Hubs : Splittable(hub)
  PROVE  TicketWhole'
<1>. DEFINE key == TicketSecret(answer)
            opens == Decrypts(key, answer.token, ServerAad(answer), answer.tag)
<1>1. issued' = issued /\ step = "decrypt"
  BY DEF Finish
<1>2. CASE ~ opens
  <2>1. serverTicket' = serverTicket
    BY <1>2 DEF Finish
  <2>. QED  BY <1>1, <2>1 DEF TicketWhole
<1>3. CASE opens
  <2>. DEFINE plain == answer.tag.plain
              buf == plain \o SubSeq(token, Len(plain) + 1, Len(token))
  <2>1. serverTicket' = [id |-> answer.id,
                         ip |-> HubIP(answer.hub, index),
                         port |-> HubPort(answer.hub, index),
                         key |-> key,
                         bytes |-> BuildBytes(answer.id, buf)]
    BY <1>3, Zenon DEF Finish
  <2>2. PICK r \in issued : answer.id = r.answer.id /\ answer.hub = r.answer.hub
                            /\ answer.tag = r.answer.tag /\ key = r.answer.tag.key
    <3>1. Arrived(answer, issued) /\ calls \in Nat /\ IssuedInv
      BY <1>1, TypeFacts DEF AnswerInv, StepInv
    <3>. QED  BY <1>3, <3>1, DecryptedWhole
  <2>3. PICK id \in 1 .. calls, hub \in Hubs :
          /\ r.hub = hub /\ r.clientPub = PubOf(id) /\ r.answer.id = id
          /\ r.answer.hub = HubText(hub)
          /\ r.answer.tag.key = PowMod(PubOf(id), TicketKey(id), NKey)
          /\ r.answer.tag.plain = TicketToken(id)
    BY TypeFacts, IssuedFields DEF AnswerInv
  <2>4. index = Len(hub.ip)
    BY <1>1, <2>2, <2>3 DEF AddressInv
  <2>5. HubIP(answer.hub, index) = hub.ip /\ HubPort(answer.hub, index) = hub.port
    BY <2>2, <2>3, <2>4, SplitText
  <2>6. SubSeq(buf, 1, TokenSize) = TicketToken(id)
    <3>1. PICK C : token \in Seq(C)
      BY DEF TokenInv
    <3>2. Len(token) \in Nat /\ plain = TicketToken(id)
      BY <2>2, <2>3, <3>1
    <3>. QED  BY <3>1, <3>2, TokenFirst
  <2>7. BuildBytes(answer.id, buf) =
          <<Char(id % ByteSpace), Char(id \div ByteSpace)>> \o TicketToken(id)
    BY <2>2, <2>3, <2>6, Zenon DEF BuildBytes
  <2>. DEFINE ticket == serverTicket'
  <2>8. /\ ticket.id = answer.id /\ ticket.ip = HubIP(answer.hub, index)
        /\ ticket.port = HubPort(answer.hub, index) /\ ticket.key = key
        /\ ticket.bytes = BuildBytes(answer.id, buf)
    BY <2>1
  <2>. HIDE DEF ticket, key, opens, plain, buf
  <2>9. /\ ticket.id = r.answer.id /\ ticket.ip = r.hub.ip /\ ticket.port = r.hub.port
        /\ ticket.key = PowMod(r.clientPub, TicketKey(r.answer.id), NKey)
        /\ ticket.bytes =
             <<Char(r.answer.id % ByteSpace), Char(r.answer.id \div ByteSpace)>>
             \o TicketToken(r.answer.id)
    BY <2>2, <2>3, <2>5, <2>7, <2>8, Zenon
  <2>. QED  BY <1>1, <2>9 DEF TicketWhole, ticket
<1>. QED  BY <1>2, <1>3

LEMMA StepTicketWhole ==
  ASSUME \A hub \in Hubs : Splittable(hub)
  PROVE  AnswerInv /\ AddressInv /\ TokenInv /\ TicketWhole /\ [Next]_vars => TicketWhole'
<1>. SUFFICES ASSUME AnswerInv, AddressInv, TokenInv, TicketWhole, [Next]_vars  PROVE TicketWhole'
  OBVIOUS
<1>1. CASE Finish
  BY <1>1, FinishWhole
<1>2. ASSUME serverTicket' = serverTicket, issued \subseteq issued'  PROVE TicketWhole'
  BY <1>2 DEF TicketWhole
<1>3. CASE AnswerTicket
  <2>1. serverTicket' = serverTicket /\ issued \subseteq issued'
    BY <1>3 DEF AnswerTicket
  <2>. QED  BY <1>2, <2>1
<1>4. CASE StartExchange \/ Refused \/ TakeKeys \/ TakeAnswer \/ Search
           \/ HttpFails \/ NoMemory \/ AnswerKey \/ UNCHANGED vars
  <2>1. serverTicket' = serverTicket /\ issued' = issued
    BY <1>4 DEF StartExchange, Refused, TakeKeys, TakeAnswer, Search, HttpFails, NoMemory, AnswerKey, vars
  <2>. QED  BY <1>2, <2>1
<1>. QED  BY <1>1, <1>3, <1>4 DEF Next, Prepare

\* A ticket that prepare accepted is the one of a registration, whole: whatever
\* was damaged, mixed or repeated on the way, its number, address, port, key and
\* token belong together (proxy.cpp:277-345).
THEOREM ProxyTicketWhole ==
  ASSUME \A hub \in Hubs : Splittable(hub)
  PROVE  Spec => []TicketWhole
<1>. DEFINE Inv == AnswerInv /\ AddressInv /\ TokenInv /\ TicketWhole
<1>1. Init => Inv
  <2>1. Init => TokenInv
    <3>1. <<>> \in Seq(Bytes)
      OBVIOUS
    <3>. QED  BY <3>1 DEF Init, TokenInv
  <2>. QED  BY <2>1, InitAnswerInv DEF Init, AddressInv, TicketWhole
<1>2. Inv /\ [Next]_vars => Inv'
  BY StepAnswerInv, StepAddressInv, StepTokenInv, StepTicketWhole
<1>3. Inv => TicketWhole
  OBVIOUS
<1>. QED  BY <1>1, <1>2, <1>3, PTL DEF Spec

-----------------------------------------------------------------------------
(***************************************************************************)
(* Without a fault, prepare succeeds: both ends make the same keys of each *)
(* other's public ones, and the same additional data if 8 bits hold its    *)
(* length.                                                                 *)
(***************************************************************************)
ClientFits == Len(ProjectID) + Len(ConnectionName) + KeyLen < ByteSpace
AnswerFits == \A r \in issued : r.answer.id = calls => 2 + Len(r.answer.hub) + KeyLen < ByteSpace
OfThisCall(a) == \E r \in issued : a = r.answer /\ r.answer.id = calls

FaultInv ==
  ~ faults /\ ClientFits =>
    /\ step = "exchange" => answer \in {None, KeyAnswer}
    /\ step \in {"register", "search", "decrypt"} => serverKey = GoodKey /\ privKey = calls
    /\ step = "register" => request # None \/ OfThisCall(answer)
    /\ step \in {"search", "decrypt"} => OfThisCall(answer)
    /\ step = "idle" /\ calls > 0 /\ AnswerFits => result = "Nil" /\ serverTicket.id = calls

LEMMA ClientAadWhole ==
  ASSUME ClientFits, NEW x
  PROVE  Cut(ClientAad(PubOf(x))) = ClientAad(PubOf(x))
<1>. DEFINE left == ProjectID \o ConnectionName
            p == PubOf(x)
<1>1. PICK C : p \in Seq(C) /\ Len(p) = KeyLen
  BY PowerFields DEF PubOf
<1>2. left \in Seq(Bytes) /\ Len(left) = Len(ProjectID) + Len(ConnectionName)
  BY ProxyAssumption, Joined
<1>3. ClientAad(p) = left \o p
  BY Zenon DEF ClientAad
<1>. HIDE DEF left, p
<1>. DEFINE D == Bytes \cup C
<1>4. left \in Seq(D) /\ p \in Seq(D)
  BY <1>1, <1>2
<1>. HIDE DEF D
<1>5. left \o p \in Seq(D) /\ Len(left \o p) = Len(left) + Len(p)
  BY <1>4, Joined
<1>6. Len(left \o p) < ByteSpace
  <2>1. Len(left) + Len(p) < ByteSpace
    BY <1>1, <1>2 DEF ClientFits
  <2>. QED  BY <1>5, <2>1
<1>7. Cut(left \o p) = left \o p
  BY <1>5, <1>6, CutFields
<1>. QED  BY <1>3, <1>7 DEF p

\* The proxy can read the request of a call that got its key.
LEMMA GoodRequestArrives ==
  ASSUME ClientFits, NEW c, request = Request(GoodKey, c)
  PROVE  TokenArrives
<1>1. /\ request.pub = PubOf(c) /\ request.token = CipherText(request.tag)
      /\ request.tag = Seal(PowMod(PubOf(c), ProxyKey, NKey), Cut(ClientAad(PubOf(c))), projectToken)
  BY GoodRequest
<1>2. Cut(ClientAad(PubOf(c))) = ClientAad(PubOf(c))
  BY ClientAadWhole
<1>3. request.tag = Seal(PowMod(request.pub, ProxyKey, NKey), ClientAad(request.pub), projectToken)
  BY <1>1, <1>2, Zenon
<1>. QED  BY <1>1, <1>3 DEF TokenArrives

\* And prepare the answer to it.
LEMMA OwnAnswerOpens ==
  ASSUME calls \in Nat, IssuedInv, NEW r \in issued, r.answer.id = calls,
         2 + Len(r.answer.hub) + KeyLen < ByteSpace,
         serverKey = GoodKey, privKey = calls, NEW a, a = r.answer
  PROVE  Decrypts(TicketSecret(a), a.token, ServerAad(a), a.tag)
<1>. PICK id \in 1 .. calls, hub \in Hubs :
       /\ r.answer.id = id /\ id \in Nat
       /\ r.answer.hub = HubText(hub) /\ r.answer.pub = PubOf(-id)
       /\ r.answer.tag.key = PowMod(PubOf(id), TicketKey(id), NKey)
       /\ r.answer.tag.aad = ServerAad(r.answer)
       /\ r.answer.token = CipherText(r.answer.tag)
  BY IssuedFields
<1>1. TicketSecret(a) = PowMod(PubOf(TicketKey(id)), id, NKey)
  <2>1. TicketSecret(a) = PowMod(a.pub, privKey, serverKey.n)
    BY DEF TicketSecret, CalcSecretKey
  <2>2. a.pub = PubOf(TicketKey(id)) /\ privKey = id /\ serverKey.n = NKey
    BY DEF TicketKey, GoodKey
  <2>. QED  BY <2>1, <2>2, Zenon
<1>2. TicketSecret(a) = a.tag.key
  BY <1>1, KeysAgree
<1>3. Cut(ServerAad(a)) = ServerAad(a)
  <2>1. a.hub \in Seq(Bytes) /\ a.id \in Nat
    BY HubTextType
  <2>2. IsAad(ServerAad(a), a.id, a.hub) /\ \E C : ServerAad(a) \in Seq(C)
    BY <2>1, AadCells DEF PubOf
  <2>3. Len(ServerAad(a)) < ByteSpace
    BY <2>2 DEF IsAad
  <2>. QED  BY <2>2, <2>3, CutFields
<1>. QED  BY <1>2, <1>3 DEF Decrypts

LEMMA StepFaultInv == AnswerInv /\ FaultInv /\ [Next]_vars => FaultInv'
<1>. SUFFICES ASSUME AnswerInv, FaultInv, [Next]_vars, ~ faults', ClientFits
              PROVE  /\ step' = "exchange" => answer' \in {None, KeyAnswer}
                     /\ step' \in {"register", "search", "decrypt"} =>
                          serverKey' = GoodKey /\ privKey' = calls'
                     /\ step' = "register" => request' # None \/ OfThisCall(answer)'
                     /\ step' \in {"search", "decrypt"} => OfThisCall(answer)'
                     /\ step' = "idle" /\ calls' > 0 /\ AnswerFits' =>
                          result' = "Nil" /\ serverTicket'.id = calls'
  BY DEF FaultInv, ClientFits
<1>1. CASE StartExchange
  <2>1. step' = "exchange" /\ answer' = None
    BY <1>1 DEF StartExchange, AnswerInv, StepInv
  <2>. QED  BY <2>1
<1>2. CASE HttpFails \/ NoMemory
  BY <1>2 DEF HttpFails, NoMemory
<1>3. ~ StartExchange => ~ faults
  BY DEF Next, Prepare, AnswerKey, AnswerTicket, Refused, TakeKeys, TakeAnswer, Search, Finish,
         HttpFails, NoMemory, vars
<1>4. CASE Refused /\ ~ faults
  <2>1. answer \in Refusals
    BY <1>4 DEF Refused, Refusals
  <2>2. answer # None /\ answer # KeyAnswer
    BY <2>1, AnswerKinds, KeyAnswerFields
  <2>3. ~ OfThisCall(answer)
    <3>1. \A r \in issued : DOMAIN r.answer = {"id", "hub", "pub", "token", "tag"}
      BY TypeFacts, IssuedFields DEF AnswerInv
    <3>. QED  BY <2>1, <3>1, AnswerKinds DEF OfThisCall
  <2>4. step # "idle" /\ (step = "register" => request = None)
    BY <2>2 DEF AnswerInv, StepInv
  <2>. QED  BY <1>4, <2>2, <2>3, <2>4 DEF FaultInv, AnswerInv, TypeOK
<1>5. CASE TakeKeys /\ ~ faults
  <2>1. step = "exchange" /\ answer = KeyAnswer
    <3>1. answer # None
      BY <1>5, AnswerKinds DEF TakeKeys
    <3>. QED  BY <1>5, <3>1 DEF TakeKeys, FaultInv
  <2>2. VerifyDHKeys(answer)
    BY <2>1, KeyAnswerFields DEF VerifyDHKeys
  <2>3. [g |-> answer.g, n |-> answer.n, pub |-> answer.pub] = GoodKey
    BY <2>1, KeyAnswerFields DEF GoodKey
  <2>4. /\ step' = "register" /\ serverKey' = GoodKey /\ privKey' = calls /\ calls' = calls
        /\ request' = Request(GoodKey, calls)
    BY <1>5, <2>2, <2>3 DEF TakeKeys, PrivateKey
  <2>5. Request(GoodKey, calls) # None
    <3>1. DOMAIN Request(GoodKey, calls) = {"pub", "token", "tag"}
      BY DEF Request
    <3>. QED  BY <3>1, AnswerKinds
  <2>. QED  BY <2>4, <2>5
<1>6. CASE TakeAnswer /\ ~ faults
  <2>1. /\ step = "register" /\ step' = "search" /\ answer # None
        /\ UNCHANGED <<calls, serverKey, privKey, answer, issued>>
    BY <1>6, AnswerKinds DEF TakeAnswer
  <2>2. request = None
    BY <2>1 DEF AnswerInv, StepInv
  <2>. QED  BY <1>6, <2>1, <2>2 DEF FaultInv, OfThisCall
<1>7. CASE Search /\ ~ faults
  <2>1. /\ step = "search" /\ step' \in {"search", "decrypt"}
        /\ UNCHANGED <<calls, serverKey, privKey, answer, issued>>
    BY <1>7 DEF Search
  <2>. QED  BY <1>7, <2>1 DEF FaultInv, OfThisCall
<1>8. CASE Finish /\ ~ faults
  <2>1. step = "decrypt" /\ step' = "idle" /\ UNCHANGED <<calls, issued>>
    BY <1>8 DEF Finish, Return
  <2>. SUFFICES ASSUME AnswerFits  PROVE result' = "Nil" /\ serverTicket'.id = calls
    BY <2>1 DEF AnswerFits
  <2>2. PICK r \in issued : answer = r.answer /\ r.answer.id = calls
    BY <1>8, <2>1 DEF FaultInv, OfThisCall
  <2>3. serverKey = GoodKey /\ privKey = calls
    BY <1>8, <2>1 DEF FaultInv
  <2>4. Decrypts(TicketSecret(answer), answer.token, ServerAad(answer), answer.tag)
    BY <2>2, <2>3, TypeFacts, OwnAnswerOpens DEF AnswerInv, AnswerFits
  <2>5. serverTicket'.id = answer.id /\ Return("Nil")
    BY <1>8, <2>4 DEF Finish
  <2>. QED  BY <2>2, <2>5 DEF Return
<1>9. CASE AnswerKey /\ ~ faults
  <2>1. step' = "exchange" /\ answer' = KeyAnswer
    BY <1>9 DEF AnswerKey
  <2>. QED  BY <2>1
<1>10. CASE AnswerTicket /\ ~ faults
  <2>1. /\ step = "register" /\ step' = "register" /\ request # None
        /\ UNCHANGED <<calls, serverKey, privKey>>
    BY <1>10 DEF AnswerTicket
  <2>2. serverKey = GoodKey /\ privKey = calls
    BY <1>10, <2>1 DEF FaultInv
  <2>3. request = Request(GoodKey, calls)
    BY <2>1, <2>2 DEF AnswerInv, StepInv
  <2>4. TokenArrives
    BY <2>3, GoodRequestArrives
  <2>5. PICK hub \in Hubs :
          LET a == TicketAnswer(calls, hub, request.pub) IN
          /\ issued' = issued \cup {[answer |-> a, hub |-> hub, clientPub |-> request.pub]}
          /\ answer' = a
    BY <1>10, <2>4 DEF AnswerTicket
  <2>6. OfThisCall(answer)'
    <3>. DEFINE a == TicketAnswer(calls, hub, request.pub)
                r == [answer |-> a, hub |-> hub, clientPub |-> request.pub]
    <3>1. a.id = calls
      BY DEF TicketAnswer
    <3>2. answer' = a /\ r \in issued' /\ r.answer = a
      BY <2>5
    <3>. HIDE DEF a, r
    <3>. QED  BY <2>1, <3>1, <3>2 DEF OfThisCall
  <2>. QED  BY <2>1, <2>2, <2>6
<1>11. CASE UNCHANGED vars
  BY <1>11 DEF vars, FaultInv, OfThisCall, AnswerFits
<1>. QED  BY <1>1, <1>2, <1>3, <1>4, <1>5, <1>6, <1>7, <1>8, <1>9, <1>10, <1>11 DEF Next, Prepare

\* If nothing fails between the two ends, the device gets the ticket of this call:
\* key agreement, additional data and search work for every number, address and
\* project, as long as the additional data fits the 8 bits of its length
\* (proxy.cpp:231-345, utils_aes.cpp:9 and 41).
THEOREM ProxyGenuineAccepted == Spec => []GenuineAccepted
<1>. DEFINE Inv == AnswerInv /\ FaultInv
<1>1. Init => Inv
  <2>1. Init => step = "idle" /\ calls = 0
    BY DEF Init
  <2>. QED  BY <2>1, InitAnswerInv DEF FaultInv
<1>2. Inv /\ [Next]_vars => Inv'
  BY StepAnswerInv, StepFaultInv
<1>3. Inv => GenuineAccepted
  BY DEF FaultInv, GenuineAccepted, ClientFits, AnswerFits
<1>. QED  BY <1>1, <1>2, <1>3, PTL DEF Spec

-----------------------------------------------------------------------------
(***************************************************************************)
(* A ticket is of this call: the two exponents of a key are the private    *)
(* keys of both ends, and the device's is new.                             *)
(***************************************************************************)
FreshInv ==
  /\ step \in {"register", "search", "decrypt"} =>
       serverKey \in {GoodKey, ShiftedKey} /\ privKey = calls
  /\ TicketOfThisCall

\* The key that opens the seal of a registration is made with its private key.
LEMMA OpensOwnCall ==
  ASSUME calls \in Nat, calls > 0, IssuedInv, serverKey \in {GoodKey, ShiftedKey}, privKey = calls,
         NEW a, NEW r \in issued, NEW x, a.pub = PubOf(x), TicketSecret(a) = r.answer.tag.key
  PROVE  r.answer.id = calls
<1>. PICK id \in 1 .. calls, hub \in Hubs :
       /\ r.answer.id = id /\ id \in Nat
       /\ r.answer.tag.key = PowMod(PubOf(id), TicketKey(id), NKey)
  BY IssuedFields
<1>. DEFINE n == serverKey.n
<1>1. TicketSecret(a) = PowMod(PubOf(x), calls, n)
  <2>1. TicketSecret(a) = PowMod(a.pub, privKey, serverKey.n)
    BY DEF TicketSecret, CalcSecretKey
  <2>. QED  BY <2>1, Zenon
<1>2. PowMod(PubOf(id), TicketKey(id), NKey) = Power(GKey, {id, TicketKey(id)}, NKey)
  BY KeysAgree
<1>3. n \in {NKey, Front(NKey)}
  BY DEF GoodKey, ShiftedKey
<1>. HIDE DEF n
<1>4. CASE n # NKey
  <2>. DEFINE p == PubOf(x)
  <2>1. PowMod(p, calls, n) = Power(p, {calls}, n)
    BY <1>4, PowModOfOther DEF PubOf
  <2>. HIDE DEF p
  <2>2. Power(p, {calls}, n) # Power(GKey, {id, TicketKey(id)}, NKey)
    BY <1>4, PowersDiffer
  <2>3. Power(p, {calls}, n) = Power(GKey, {id, TicketKey(id)}, NKey)
    BY <1>1, <1>2, <2>1, Zenon DEF p
  <2>. QED  BY <2>2, <2>3
<1>5. CASE n = NKey
  <2>1. PowMod(PubOf(x), calls, NKey) = Power(GKey, {x, calls}, NKey)
    BY KeysAgree
  <2>2. Power(GKey, {x, calls}, NKey) = Power(GKey, {id, TicketKey(id)}, NKey)
    BY <1>1, <1>2, <1>5, <2>1, Zenon
  <2>3. {x, calls} = {id, TicketKey(id)}
    BY <2>2, PowersDiffer
  <2>4. calls \in {id, TicketKey(id)} /\ calls # TicketKey(id)
    BY <2>3 DEF TicketKey
  <2>. QED  BY <2>4
<1>. QED  BY <1>4, <1>5

LEMMA FinishFresh ==
  ASSUME AnswerInv, FreshInv, Finish
  PROVE  TicketOfThisCall'
<1>. DEFINE key == TicketSecret(answer)
            opens == Decrypts(key, answer.token, ServerAad(answer), answer.tag)
<1>1. /\ step = "decrypt" /\ calls' = calls /\ Arrived(answer, issued)
      /\ calls \in Nat /\ calls > 0 /\ IssuedInv
      /\ serverKey \in {GoodKey, ShiftedKey} /\ privKey = calls
  BY TypeFacts DEF Finish, AnswerInv, StepInv, FreshInv
<1>2. CASE ~ opens
  <2>1. result' = "MbedTLS"
    BY <1>2 DEF Finish, Return
  <2>. QED  BY <2>1 DEF TicketOfThisCall
<1>3. CASE opens
  <2>1. PICK x \in Int : answer.pub = PubOf(x)
    BY <1>1, <1>3, ShiftedRefused DEF Arrived, Decrypts, Fresh
  <2>2. PICK r \in issued : answer.id = r.answer.id /\ TicketSecret(answer) = r.answer.tag.key
    BY <1>1, <1>3, DecryptedWhole
  <2>3. r.answer.id = calls
    BY <1>1, <2>1, <2>2, OpensOwnCall
  <2>4. serverTicket'.id = answer.id
    BY <1>3 DEF Finish
  <2>. QED  BY <1>1, <2>2, <2>3, <2>4 DEF TicketOfThisCall
<1>. QED  BY <1>2, <1>3

LEMMA StepFreshInv == AnswerInv /\ FreshInv /\ [Next]_vars => FreshInv'
<1>. SUFFICES ASSUME AnswerInv, FreshInv, [Next]_vars  PROVE FreshInv'
  OBVIOUS
<1>1. CASE StartExchange
  BY <1>1 DEF StartExchange, FreshInv, TicketOfThisCall
<1>2. CASE TakeKeys
  <2>1. step = "exchange" /\ answer \in KeyAnswers /\ UNCHANGED <<calls, serverTicket>>
    BY <1>2, AnswerKinds DEF TakeKeys, AnswerInv, StepInv
  <2>2. CASE VerifyDHKeys(answer)
    BY <1>2, <2>1, <2>2, VerifiedKeys DEF TakeKeys, PrivateKey, FreshInv, TicketOfThisCall
  <2>3. CASE ~ VerifyDHKeys(answer)
    BY <1>2, <2>3 DEF TakeKeys, Return, FreshInv, TicketOfThisCall
  <2>. QED  BY <2>2, <2>3
<1>3. CASE Finish
  <2>1. step' = "idle"
    BY <1>3 DEF Finish, Return
  <2>. QED  BY <1>3, <2>1, FinishFresh DEF FreshInv
<1>4. CASE TakeAnswer \/ Search \/ AnswerKey \/ AnswerTicket \/ UNCHANGED vars
  <2>1. /\ UNCHANGED <<calls, result, serverTicket, serverKey, privKey>>
        /\ step' = step \/ step \in {"register", "search"}
    BY <1>4 DEF TakeAnswer, Search, AnswerKey, AnswerTicket, vars
  <2>. QED  BY <2>1 DEF FreshInv, TicketOfThisCall
<1>5. CASE Refused \/ HttpFails \/ NoMemory
  <2>1. result' \in Errors \cup {"HTTP", "NotEnoughMemory"} /\ step' = "idle"
    <3>1. answer \in Refusals => answer.error \in Errors
      BY AnswerKinds
    <3>. QED  BY <1>5, <3>1 DEF Refused, HttpFails, NoMemory, Return, Refusals
  <2>2. result' # "Nil"
    BY <2>1 DEF Errors
  <2>. QED  BY <2>1, <2>2 DEF FreshInv, TicketOfThisCall
<1>. QED  BY <1>1, <1>2, <1>3, <1>4, <1>5 DEF Next, Prepare

\* An answer to an earlier call, repeated or mixed into a later one, is not
\* accepted, for any addresses: only the registration that used the private key
\* of this call gives the key that its token was encrypted with (proxy.cpp:309-328).
THEOREM ProxyTicketOfThisCall == Spec => []TicketOfThisCall
<1>. DEFINE Inv == AnswerInv /\ FreshInv
<1>1. Init => Inv
  <2>1. Init => step = "idle" /\ result = "none"
    BY DEF Init
  <2>. QED  BY <2>1, InitAnswerInv DEF FreshInv, TicketOfThisCall
<1>2. Inv /\ [Next]_vars => Inv'
  BY StepAnswerInv, StepFreshInv
<1>3. Inv => TicketOfThisCall
  BY DEF FreshInv
<1>. QED  BY <1>1, <1>2, <1>3, PTL DEF Spec
=============================================================================
