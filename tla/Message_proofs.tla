--------------------------- MODULE Message_proofs ---------------------------
(***************************************************************************)
(* Proofs about Message, for every layout that MessageAssumption allows,   *)
(* every set of messages and of keys.                                      *)
(***************************************************************************)
EXTENDS Message, SequenceTheorems, TLAPS

(***************************************************************************)
(* What createMessage is called with, and the parts of what it returns.    *)
(***************************************************************************)
Buildable(m) ==
  m \in MessageSpace /\ NameFits(m.name) /\ Len(m.data) + ByteSpace < SizeSpace

SealOf(m, key) == Seal(key, RandomIV, Aad(m), m.data)
Seals(m, key) ==
  IF m.encrypted THEN AuthenTag(SealOf(m, key)) \o RandomIV ELSE Hmac(key, RawBytes(m))
Body(m, key) == IF m.encrypted THEN CipherText(SealOf(m, key)) ELSE m.data

LenHeader(m) == FixedLen + If(m.tag # Zero, WordSize)
LenSeals(encrypted) == IF encrypted THEN LenAuthenTag + LenIV ELSE LenSign

\* The cells of a message built from m, and of what the transport makes of it.
MacCells(m, key) == {[mac |-> key, of |-> RawBytes(m), at |-> i] : i \in 1 .. LenSign}
TagCells(m, key) == {[tag |-> SealOf(m, key), at |-> i] : i \in 1 .. LenAuthenTag}
PartCells(m, key) == {[part |-> SealOf(m, key), at |-> i] : i \in 1 .. Len(m.data)}
IVCells == {[random |-> i] : i \in 1 .. LenIV}
BuiltCells(m, key) ==
  ByteCell \cup MacCells(m, key) \cup TagCells(m, key) \cup PartCells(m, key) \cup IVCells
LooseCells == ByteCell \cup {[noise |-> 0]}
SentCells(m, key) == BuiltCells(m, key) \cup LooseCells

-----------------------------------------------------------------------------
(***************************************************************************)
(* Flags.                                                                  *)
(***************************************************************************)
LEMMA FlagsProperties ==
  ASSUME NEW m, m.encrypted \in BOOLEAN, m.first \in BOOLEAN, m.last \in BOOLEAN,
         m.request \in BOOLEAN, m.type \in 0 .. 7
  PROVE  /\ Flags(m) \in 0 .. ByteSpace - 1
         /\ Bit(Flags(m), 128) <=> m.encrypted
         /\ Bit(Flags(m), 64) <=> m.first
         /\ Bit(Flags(m), 32) <=> m.last
         /\ Bit(Flags(m), 16) <=> m.request
         /\ Bit(Flags(m), 8) <=> m.tag # Zero
         /\ Flags(m) % 8 = m.type
<1>2. PICK e \in BOOLEAN, f \in BOOLEAN, l \in BOOLEAN, r \in BOOLEAN, t \in BOOLEAN,
           k \in 0 .. 7 :
        /\ e = m.encrypted /\ f = m.first /\ l = m.last /\ r = m.request
        /\ t = (m.tag # Zero) /\ k = m.type
  OBVIOUS
<1>3. PICK n : n = Flags(m)
  OBVIOUS
<1>4. n = If(e, 128) + If(f, 64) + If(l, 32) + If(r, 16) + If(t, 8) + k
  BY <1>2, <1>3 DEF Flags
<1>5. n \in 0 .. ByteSpace - 1 /\ n % 8 = k
  BY <1>4 DEF If, ByteSpace
<1>6. Bit(n, 128) <=> e
  BY <1>4 DEF If, Bit
<1>7. Bit(n, 64) <=> f
  BY <1>4 DEF If, Bit
<1>8. Bit(n, 32) <=> l
  BY <1>4 DEF If, Bit
<1>9. Bit(n, 16) <=> r
  BY <1>4 DEF If, Bit
<1>10. Bit(n, 8) <=> t
  BY <1>4 DEF If, Bit
<1> QED
  BY <1>2, <1>3, <1>5, <1>6, <1>7, <1>8, <1>9, <1>10

LEMMA FlagsOfMessage ==
  ASSUME NEW m \in MessageSpace
  PROVE  /\ Flags(m) \in 0 .. ByteSpace - 1
         /\ Bit(Flags(m), 128) <=> m.encrypted
         /\ Bit(Flags(m), 64) <=> m.first
         /\ Bit(Flags(m), 32) <=> m.last
         /\ Bit(Flags(m), 16) <=> m.request
         /\ Bit(Flags(m), 8) <=> m.tag # Zero
         /\ Flags(m) % 8 = m.type
<1>1. /\ m.encrypted \in BOOLEAN /\ m.first \in BOOLEAN /\ m.last \in BOOLEAN
      /\ m.request \in BOOLEAN /\ m.type \in 0 .. 7
  BY DEF MessageSpace
<1> QED
  BY <1>1, FlagsProperties

LEMMA SumOfBits ==
  ASSUME NEW n \in 0 .. ByteSpace - 1
  PROVE  n = If(Bit(n, 128), 128) + If(Bit(n, 64), 64) + If(Bit(n, 32), 32)
             + If(Bit(n, 16), 16) + If(Bit(n, 8), 8) + (n % 8)
<1>1. PICK a \in {0, 1}, b \in {0, 1}, c \in {0, 1}, d \in {0, 1}, e \in {0, 1}, k \in 0 .. 7 :
        n = 128 * a + 64 * b + 32 * c + 16 * d + 8 * e + k
  <2>1. n \in 0 .. 255
    BY DEF ByteSpace
  <2> DEFINE w(x) == (n \div x) % 2
  <2>2. w(128) \in {0, 1} /\ w(64) \in {0, 1} /\ w(32) \in {0, 1}
    BY <2>1
  <2>3. w(16) \in {0, 1} /\ w(8) \in {0, 1} /\ n % 8 \in 0 .. 7
    BY <2>1
  <2>4. n = 128 * w(128) + 64 * w(64) + 32 * w(32) + 16 * w(16) + 8 * w(8) + (n % 8)
    BY <2>1
  <2> HIDE DEF w
  <2> QED
    BY <2>2, <2>3, <2>4
<1>2. n % 8 = k
  BY <1>1
<1>3. (Bit(n, 128) <=> a = 1) /\ (Bit(n, 64) <=> b = 1)
  BY <1>1 DEF Bit
<1>4. (Bit(n, 32) <=> c = 1) /\ (Bit(n, 16) <=> d = 1)
  BY <1>1 DEF Bit
<1>5. Bit(n, 8) <=> e = 1
  BY <1>1 DEF Bit
<1> QED
  BY <1>1, <1>2, <1>3, <1>4, <1>5 DEF If

-----------------------------------------------------------------------------
(***************************************************************************)
(* Sequences.                                                              *)
(***************************************************************************)
\* q is a function on 1 .. n.
Listed(q, n) == q = [i \in 1 .. n |-> q[i]]

\* From position from of buf on, q is what is there.
Holds(buf, from, n, q) ==
  /\ Listed(q, n) /\ from + n <= Len(buf)
  /\ \A i \in 1 .. n : buf[from + i] = q[i]

LEMMA Cancel ==
  ASSUME NEW S, NEW a \in Seq(S), NEW b \in Seq(S), NEW c \in Seq(S), NEW d \in Seq(S),
         Len(a) = Len(c), a \o b = c \o d
  PROVE  a = c /\ b = d
<1>1. \A i \in 1 .. Len(a) : a[i] = c[i]
  BY ConcatProperties
<1>2. a = c
  BY <1>1, SeqEqual
<1>3. b = d
  BY <1>2, ConcatSimplifications, Zenon
<1> QED
  BY <1>2, <1>3

LEMMA Join ==
  ASSUME NEW S, NEW a \in Seq(S), NEW b \in Seq(S)
  PROVE  /\ a \o b \in Seq(S) /\ Len(a \o b) = Len(a) + Len(b)
         /\ \A i \in 1 .. Len(a) : (a \o b)[i] = a[i]
         /\ \A i \in 1 .. Len(b) : (a \o b)[Len(a) + i] = b[i]
OBVIOUS

LEMMA JoinFour ==
  ASSUME NEW S, NEW a \in Seq(S), NEW b \in Seq(S), NEW c \in Seq(S), NEW d \in Seq(S),
         NEW y, y = a \o b \o c \o d
  PROVE  /\ y \in Seq(S) /\ Len(y) = Len(a) + Len(b) + Len(c) + Len(d)
         /\ \A i \in 1 .. Len(a) : y[i] = a[i]
         /\ \A i \in 1 .. Len(b) : y[Len(a) + i] = b[i]
         /\ \A i \in 1 .. Len(c) : y[Len(a) + Len(b) + i] = c[i]
         /\ \A i \in 1 .. Len(d) : y[Len(a) + Len(b) + Len(c) + i] = d[i]
<1>1. PICK n \in Nat, k \in Nat, l \in Nat, e \in Nat :
        n = Len(a) /\ k = Len(b) /\ l = Len(c) /\ e = Len(d)
  OBVIOUS
<1>2. PICK ab \in Seq(S) :
        /\ ab = a \o b /\ Len(ab) = n + k
        /\ \A i \in 1 .. n : ab[i] = a[i]
        /\ \A i \in 1 .. k : ab[n + i] = b[i]
  <2>1. /\ a \o b \in Seq(S) /\ Len(a \o b) = Len(a) + Len(b)
        /\ \A i \in 1 .. Len(a) : (a \o b)[i] = a[i]
        /\ \A i \in 1 .. Len(b) : (a \o b)[Len(a) + i] = b[i]
    BY Join
  <2> QED
    BY <1>1, <2>1
<1>3. PICK abc \in Seq(S) :
        /\ abc = ab \o c /\ Len(abc) = n + k + l
        /\ \A i \in 1 .. n + k : abc[i] = ab[i]
        /\ \A i \in 1 .. l : abc[n + k + i] = c[i]
  <2>1. /\ ab \o c \in Seq(S) /\ Len(ab \o c) = Len(ab) + Len(c)
        /\ \A i \in 1 .. Len(ab) : (ab \o c)[i] = ab[i]
        /\ \A i \in 1 .. Len(c) : (ab \o c)[Len(ab) + i] = c[i]
    BY Join
  <2>2. /\ ab \o c \in Seq(S) /\ Len(ab \o c) = n + k + l
        /\ \A i \in 1 .. n + k : (ab \o c)[i] = ab[i]
        /\ \A i \in 1 .. l : (ab \o c)[n + k + i] = c[i]
    BY <1>1, <1>2, <2>1, Zenon
  <2> QED
    BY <2>2
<1>4. PICK x \in Seq(S) :
        /\ x = abc \o d /\ Len(x) = n + k + l + e
        /\ \A i \in 1 .. n + k + l : x[i] = abc[i]
        /\ \A i \in 1 .. e : x[n + k + l + i] = d[i]
  <2>1. /\ abc \o d \in Seq(S) /\ Len(abc \o d) = Len(abc) + Len(d)
        /\ \A i \in 1 .. Len(abc) : (abc \o d)[i] = abc[i]
        /\ \A i \in 1 .. Len(d) : (abc \o d)[Len(abc) + i] = d[i]
    BY Join
  <2>2. /\ abc \o d \in Seq(S) /\ Len(abc \o d) = n + k + l + e
        /\ \A i \in 1 .. n + k + l : (abc \o d)[i] = abc[i]
        /\ \A i \in 1 .. e : (abc \o d)[n + k + l + i] = d[i]
    BY <1>1, <1>3, <2>1, Zenon
  <2> QED
    BY <2>2
<1>5. /\ \A i \in 1 .. n : i \in 1 .. n + k /\ i \in 1 .. n + k + l
      /\ \A i \in 1 .. k : n + i \in 1 .. n + k /\ n + i \in 1 .. n + k + l
      /\ \A i \in 1 .. l : n + k + i \in 1 .. n + k + l
  OBVIOUS
<1>6. x = y
  BY <1>2, <1>3, <1>4
<1>7. /\ \A i \in 1 .. n : x[i] = a[i]
      /\ \A i \in 1 .. k : x[n + i] = b[i]
      /\ \A i \in 1 .. l : x[n + k + i] = c[i]
  BY <1>2, <1>3, <1>4, <1>5, Zenon
<1> QED
  BY <1>1, <1>4, <1>6, <1>7, Zenon

\* What Cells reads within the buffer.
LEMMA CellsWithin ==
  ASSUME NEW S, NEW buf \in Seq(S), NEW from \in Nat, NEW n \in Nat, from + n <= Len(buf)
  PROVE  /\ Cells(buf, from, n) = SubSeq(buf, from + 1, from + n)
         /\ Cells(buf, from, n) \in Seq(S)
         /\ Len(Cells(buf, from, n)) = n
         /\ \A i \in 1 .. n : Cells(buf, from, n)[i] = buf[from + i]
<1>1. \A i \in 1 .. n : from + i <= Len(buf) /\ buf[from + i] \in S
  OBVIOUS
<1>2. Cells(buf, from, n) = [i \in 1 .. n |-> buf[from + i]]
  BY <1>1 DEF Cells
<1>3. SubSeq(buf, from + 1, from + n) = [i \in 1 .. n |-> buf[from + i]]
  OBVIOUS
<1>4. [i \in 1 .. n |-> buf[from + i]] \in Seq(S)
  BY <1>1
<1> QED
  BY <1>2, <1>3, <1>4

LEMMA SeqIsListed ==
  ASSUME NEW S, NEW q \in Seq(S)
  PROVE  Listed(q, Len(q))
BY DEF Listed

LEMMA CellsAre ==
  ASSUME NEW buf, Len(buf) \in Nat, NEW from \in Nat, NEW n \in Nat, NEW q,
         Holds(buf, from, n, q)
  PROVE  Cells(buf, from, n) = q
<1>1. \A i \in 1 .. n : from + i <= Len(buf)
  BY DEF Holds
<1>2. Cells(buf, from, n) = [i \in 1 .. n |-> q[i]]
  BY <1>1 DEF Cells, Holds
<1> QED
  BY <1>2 DEF Listed, Holds

-----------------------------------------------------------------------------
(***************************************************************************)
(* The parts of a message.                                                 *)
(***************************************************************************)
LEMMA ByteRange == 0 .. ByteSpace - 1 \subseteq Nat
BY DEF ByteSpace

LEMMA ByteProperties ==
  ASSUME NEW n \in Int
  PROVE  /\ Byte(n) \in ByteCell
         /\ n \in 0 .. ByteSpace - 1 => Byte(n) = [byte |-> n] /\ Byte(n).byte = n
<1>1. n % ByteSpace \in 0 .. ByteSpace - 1
  BY DEF ByteSpace
<1>2. n \in 0 .. ByteSpace - 1 => n % ByteSpace = n
  BY DEF ByteSpace
<1> QED
  BY <1>1, <1>2 DEF Byte, ByteCell

LEMMA WordProperties ==
  ASSUME NEW w \in Word
  PROVE  w \in Seq(ByteCell) /\ Len(w) = WordSize
BY MessageAssumption DEF Word

LEMMA NameProperties ==
  ASSUME NEW S, NEW name \in Seq(S)
  PROVE  /\ LenName(name) \in 0 .. ByteSpace - 1
         /\ NameBytes(name) \in Seq(S)
         /\ Len(NameBytes(name)) = LenName(name)
         /\ LenName(NameBytes(name)) = LenName(name)
         /\ NameBytes(NameBytes(name)) = NameBytes(name)
         /\ Len(name) < ByteSpace => LenName(name) = Len(name) /\ NameBytes(name) = name
<1>0. PICK n \in Nat : n = Len(name)
  OBVIOUS
<1>1. /\ LenName(name) \in 0 .. ByteSpace - 1 /\ LenName(name) <= n
      /\ n < ByteSpace => LenName(name) = n
  <2>1. n % 256 \in 0 .. 255 /\ n % 256 <= n /\ (n < 256 => n % 256 = n)
    OBVIOUS
  <2>2. LenName(name) = n % 256
    BY <1>0 DEF LenName, ByteSpace
  <2> QED
    BY <2>1, <2>2 DEF ByteSpace
<1>2. PICK k \in Nat : k = LenName(name) /\ k <= n
  BY <1>1
<1>22. NameBytes(name) \in Seq(S) /\ Len(NameBytes(name)) = LenName(name)
  <2>1. SubSeq(name, 1, k) = [i \in 1 .. k |-> name[i]]
    BY <1>0, <1>2
  <2>2. \A i \in 1 .. k : name[i] \in S
    BY <1>0, <1>2
  <2>3. [i \in 1 .. k |-> name[i]] \in Seq(S) /\ Len([i \in 1 .. k |-> name[i]]) = k
    BY <2>2
  <2> QED
    BY <1>2, <2>1, <2>3 DEF NameBytes
<1>3. LenName(NameBytes(name)) = LenName(name)
  BY <1>1, <1>22 DEF LenName, ByteSpace
<1>4. NameBytes(NameBytes(name)) = NameBytes(name)
  BY <1>22, <1>3, SubSeqFull DEF NameBytes
<1>5. Len(name) < ByteSpace => NameBytes(name) = name
  BY <1>0, <1>1, SubSeqFull DEF NameBytes
<1> QED
  BY <1>0, <1>1, <1>22, <1>3, <1>4, <1>5

LEMMA HeaderProperties ==
  ASSUME NEW S, ByteCell \subseteq S, NEW m,
         m.id \in Seq(S), Len(m.id) = WordSize,
         m.tag # Zero => m.tag \in Seq(S) /\ Len(m.tag) = WordSize,
         Flags(m) \in Int, LenName(m.name) \in Int
  PROVE  /\ Header(m) \in Seq(S)
         /\ Len(Header(m)) = LenHeader(m)
         /\ LenHeader(m) \in Nat
         /\ \A i \in 1 .. WordSize : Header(m)[i] = m.id[i]
         /\ Header(m)[WordSize + 1] = Byte(Flags(m))
         /\ Header(m)[WordSize + 2] = Byte(LenName(m.name))
         /\ m.tag # Zero =>
              \A i \in 1 .. WordSize : Header(m)[FixedLen + i] = m.tag[i]
<1>1. PICK f \in S, l \in S : f = Byte(Flags(m)) /\ l = Byte(LenName(m.name))
  BY ByteProperties
<1>2. PICK id \in Seq(S), two \in Seq(S) : id = m.id /\ two = <<f, l>>
  <2>1. <<f, l>> \in Seq(S)
    OBVIOUS
  <2> QED
    BY <2>1
<1>3. PICK tag \in Seq(S) : tag = IF m.tag # Zero THEN m.tag ELSE <<>>
  BY EmptySeq
<1>4. PICK w \in Nat, n \in Nat : w = WordSize /\ n = FixedLen + Len(tag)
  BY MessageAssumption DEF FixedLen
<1>5. Len(id) = w /\ Len(two) = 2 /\ two[1] = f /\ two[2] = l
  BY <1>2, <1>4
<1>6. PICK front \in Seq(S) :
        /\ front = id \o two /\ Len(front) = w + 2
        /\ \A i \in 1 .. w : front[i] = id[i]
        /\ front[w + 1] = f /\ front[w + 2] = l
  <2>1. /\ id \o two \in Seq(S) /\ Len(id \o two) = w + 2
        /\ \A i \in 1 .. w : (id \o two)[i] = id[i]
        /\ \A i \in 1 .. 2 : (id \o two)[w + i] = two[i]
    <3>1. /\ id \o two \in Seq(S) /\ Len(id \o two) = Len(id) + Len(two)
          /\ \A i \in 1 .. Len(id) : (id \o two)[i] = id[i]
          /\ \A i \in 1 .. Len(two) : (id \o two)[Len(id) + i] = two[i]
      BY Join
    <3> QED
      BY <1>5, <3>1
  <2>2. (id \o two)[w + 1] = two[1] /\ (id \o two)[w + 2] = two[2]
    BY <2>1
  <2> QED
    BY <1>5, <2>1, <2>2
<1>7. Header(m) = front \o tag
  BY <1>1, <1>2, <1>3, <1>6 DEF Header
<1>8. /\ Header(m) \in Seq(S) /\ Len(Header(m)) = n
      /\ \A i \in 1 .. w + 2 : Header(m)[i] = front[i]
      /\ \A i \in 1 .. Len(tag) : Header(m)[w + 2 + i] = tag[i]
  <2>1. PICK k \in Nat : k = Len(tag) /\ n = w + 2 + k
    BY <1>4 DEF FixedLen
  <2>2. /\ front \o tag \in Seq(S) /\ Len(front \o tag) = Len(front) + Len(tag)
        /\ \A i \in 1 .. Len(front) : (front \o tag)[i] = front[i]
        /\ \A i \in 1 .. Len(tag) : (front \o tag)[Len(front) + i] = tag[i]
    BY Join
  <2> QED
    BY <1>6, <1>7, <2>1, <2>2
<1>9. m.tag # Zero => tag = m.tag /\ Len(tag) = w
  BY <1>3, <1>4
<1>10. LenHeader(m) = n
  BY <1>3, <1>4, <1>9 DEF LenHeader, If
<1>11. \A i \in 1 .. w : Header(m)[i] = m.id[i]
  <2>1. \A i \in 1 .. w : i \in 1 .. w + 2
    OBVIOUS
  <2> QED
    BY <1>2, <1>6, <1>8, <2>1, Zenon
<1>12. Header(m)[w + 1] = f /\ Header(m)[w + 2] = l
  <2>1. w + 1 \in 1 .. w + 2 /\ w + 2 \in 1 .. w + 2
    OBVIOUS
  <2> QED
    BY <1>6, <1>8, <2>1, Zenon
<1> QED
  BY <1>1, <1>4, <1>8, <1>9, <1>10, <1>11, <1>12 DEF FixedLen

LEMMA SealsProperties ==
  ASSUME NEW m \in MessageSpace, NEW key
  PROVE  /\ Seals(m, key) \in Seq(BuiltCells(m, key))
         /\ Len(Seals(m, key)) = LenSeals(m.encrypted)
         /\ LenSeals(m.encrypted) \in Nat \ {0}
         /\ Body(m, key) \in Seq(BuiltCells(m, key))
         /\ Len(Body(m, key)) = Len(m.data)
         /\ ~m.encrypted =>
              \A i \in 1 .. LenSign :
                Seals(m, key)[i] = [mac |-> key, of |-> RawBytes(m), at |-> i]
         /\ m.encrypted =>
              /\ \A i \in 1 .. LenAuthenTag :
                   Seals(m, key)[i] = [tag |-> SealOf(m, key), at |-> i]
              /\ \A i \in 1 .. LenIV : Seals(m, key)[LenAuthenTag + i] = [random |-> i]
<1> DEFINE S == BuiltCells(m, key)
<1>1. PICK t \in Nat \ {0}, v \in Nat \ {0}, s \in Nat \ {0}, d \in Nat :
        t = LenAuthenTag /\ v = LenIV /\ s = LenSign /\ d = Len(m.data)
  BY MessageAssumption DEF MessageSpace
<1>2. m.data \in Seq(ByteCell)
  BY DEF MessageSpace
<1>3. /\ Hmac(key, RawBytes(m)) \in Seq(S) /\ Len(Hmac(key, RawBytes(m))) = s
      /\ \A i \in 1 .. s :
           Hmac(key, RawBytes(m))[i] = [mac |-> key, of |-> RawBytes(m), at |-> i]
  <2>1. \A i \in 1 .. s : [mac |-> key, of |-> RawBytes(m), at |-> i] \in S
    BY <1>1 DEF BuiltCells, MacCells
  <2> QED
    BY <1>1, <2>1 DEF Hmac
<1>4. /\ AuthenTag(SealOf(m, key)) \in Seq(S) /\ Len(AuthenTag(SealOf(m, key))) = t
      /\ \A i \in 1 .. t :
           AuthenTag(SealOf(m, key))[i] = [tag |-> SealOf(m, key), at |-> i]
  <2>1. \A i \in 1 .. t : [tag |-> SealOf(m, key), at |-> i] \in S
    BY <1>1 DEF BuiltCells, TagCells
  <2> QED
    BY <1>1, <2>1 DEF AuthenTag
<1>5. /\ RandomIV \in Seq(S) /\ Len(RandomIV) = v
      /\ \A i \in 1 .. v : RandomIV[i] = [random |-> i]
  <2>1. \A i \in 1 .. v : [random |-> i] \in S
    BY <1>1 DEF BuiltCells, IVCells
  <2> QED
    BY <1>1, <2>1 DEF RandomIV
<1>6. CipherText(SealOf(m, key)) \in Seq(S) /\ Len(CipherText(SealOf(m, key))) = d
  <2>1. \A i \in 1 .. d : [part |-> SealOf(m, key), at |-> i] \in S
    BY <1>1 DEF BuiltCells, PartCells
  <2>2. SealOf(m, key).plain = m.data
    BY DEF SealOf, Seal
  <2>3. CipherText(SealOf(m, key)) = [i \in 1 .. d |-> [part |-> SealOf(m, key), at |-> i]]
    BY <1>1, <2>2 DEF CipherText
  <2> QED
    BY <2>1, <2>3
<1>7. m.data \in Seq(S)
  <2>1. ByteCell \subseteq S
    BY DEF BuiltCells
  <2> QED
    BY <1>2, <2>1, SeqMonotonic
<1>8. CASE m.encrypted
  <2>1. PICK a \in Seq(S), b \in Seq(S) : a = AuthenTag(SealOf(m, key)) /\ b = RandomIV
    BY <1>4, <1>5
  <2>2. /\ a \o b \in Seq(S) /\ Len(a \o b) = t + v
        /\ \A i \in 1 .. t : (a \o b)[i] = a[i]
        /\ \A i \in 1 .. v : (a \o b)[t + i] = b[i]
    <3>1. /\ a \o b \in Seq(S) /\ Len(a \o b) = Len(a) + Len(b)
          /\ \A i \in 1 .. Len(a) : (a \o b)[i] = a[i]
          /\ \A i \in 1 .. Len(b) : (a \o b)[Len(a) + i] = b[i]
      BY Join
    <3> QED
      BY <1>4, <1>5, <2>1, <3>1
  <2>3. Seals(m, key) = a \o b /\ Body(m, key) = CipherText(SealOf(m, key))
    BY <1>8, <2>1 DEF Seals, Body
  <2>4. LenSeals(m.encrypted) = t + v /\ t + v \in Nat \ {0}
    BY <1>1, <1>8 DEF LenSeals
  <2>5. /\ \A i \in 1 .. t : Seals(m, key)[i] = [tag |-> SealOf(m, key), at |-> i]
        /\ \A i \in 1 .. v : Seals(m, key)[t + i] = [random |-> i]
    BY <1>4, <1>5, <2>1, <2>2, <2>3, ZenonT(60)
  <2>6. /\ Seals(m, key) \in Seq(S) /\ Len(Seals(m, key)) = LenSeals(m.encrypted)
        /\ Body(m, key) \in Seq(S) /\ Len(Body(m, key)) = Len(m.data)
    BY <1>1, <1>6, <2>2, <2>3, <2>4
  <2> QED
    BY <1>1, <1>8, <2>4, <2>5, <2>6
<1>9. CASE ~m.encrypted
  <2>1. Seals(m, key) = Hmac(key, RawBytes(m)) /\ Body(m, key) = m.data
    BY <1>9 DEF Seals, Body
  <2>2. LenSeals(m.encrypted) = s /\ s \in Nat \ {0}
    BY <1>1, <1>9 DEF LenSeals
  <2> QED
    BY <1>1, <1>3, <1>7, <1>9, <2>1, <2>2, Zenon
<1> QED
  BY <1>8, <1>9

\* The message as a whole.
LEMMA HeaderOfMessage ==
  ASSUME NEW m \in MessageSpace
  PROVE  /\ Header(m) \in Seq(ByteCell)
         /\ Len(Header(m)) = LenHeader(m)
         /\ LenHeader(m) \in FixedLen .. FixedLen + WordSize
         /\ \A i \in 1 .. WordSize : Header(m)[i] = m.id[i]
         /\ Header(m)[WordSize + 1] = Byte(Flags(m))
         /\ Header(m)[WordSize + 2] = Byte(LenName(m.name))
         /\ m.tag # Zero =>
              \A i \in 1 .. WordSize : Header(m)[FixedLen + i] = m.tag[i]
<1>1. /\ m.id \in Seq(ByteCell) /\ Len(m.id) = WordSize
      /\ m.tag \in Seq(ByteCell) /\ Len(m.tag) = WordSize
  BY WordProperties DEF MessageSpace
<1>2. Flags(m) \in Int /\ LenName(m.name) \in Int
  <2>1. Flags(m) \in 0 .. ByteSpace - 1
    BY FlagsOfMessage
  <2>2. m.name \in Seq(ByteCell)
    BY DEF MessageSpace
  <2>3. LenName(m.name) \in 0 .. ByteSpace - 1
    BY <2>2, NameProperties
  <2> QED
    BY <2>1, <2>3 DEF ByteSpace
<1>3. LenHeader(m) \in FixedLen .. FixedLen + WordSize
  BY MessageAssumption DEF LenHeader, If, FixedLen
<1> QED
  BY <1>1, <1>2, <1>3, HeaderProperties

LEMMA SizesOfMessage ==
  ASSUME NEW m \in MessageSpace
  PROVE  /\ LenHeader(m) \in Nat /\ LenSeals(m.encrypted) \in Nat
         /\ LenName(m.name) \in Nat /\ Len(m.data) \in Nat
<1>1. LenHeader(m) \in Nat
  BY HeaderOfMessage, MessageAssumption DEF FixedLen
<1>2. LenSeals(m.encrypted) \in Nat
  BY SealsProperties
<1>3. m.name \in Seq(ByteCell) /\ Len(m.data) \in Nat
  BY DEF MessageSpace
<1>4. LenName(m.name) \in Nat
  <2>1. LenName(m.name) \in 0 .. ByteSpace - 1
    BY <1>3, NameProperties
  <2> QED
    BY <2>1 DEF ByteSpace
<1> QED
  BY <1>1, <1>2, <1>3, <1>4

LEMMA CreateMessageIs ==
  ASSUME NEW m, NEW key
  PROVE  CreateMessage(m, key) =
           Header(m) \o Seals(m, key) \o NameBytes(m.name) \o Body(m, key)
<1>1. CASE m.encrypted
  BY <1>1 DEF CreateMessage, BuildBytes, Seals, Body, SealOf, Seal
<1>2. CASE ~m.encrypted
  BY <1>2 DEF CreateMessage, BuildBytes, Seals, Body
<1> QED
  BY <1>1, <1>2

LEMMA CreateMessageProperties ==
  ASSUME NEW m \in MessageSpace, NEW key
  PROVE  LET x == CreateMessage(m, key)
             h == LenHeader(m)
             s == LenSeals(m.encrypted)
             k == LenName(m.name)
         IN  /\ x \in Seq(BuiltCells(m, key))
             /\ Len(x) = h + s + k + Len(m.data)
             /\ \A i \in 1 .. h : x[i] = Header(m)[i]
             /\ \A i \in 1 .. s : x[h + i] = Seals(m, key)[i]
             /\ \A i \in 1 .. k : x[h + s + i] = NameBytes(m.name)[i]
             /\ \A i \in 1 .. Len(m.data) : x[h + s + k + i] = Body(m, key)[i]
<1> DEFINE S == BuiltCells(m, key)
<1>1. PICK a \in Seq(S), b \in Seq(S), c \in Seq(S), d \in Seq(S) :
        /\ a = Header(m) /\ b = Seals(m, key) /\ c = NameBytes(m.name)
        /\ d = Body(m, key) /\ Len(a) = LenHeader(m) /\ Len(b) = LenSeals(m.encrypted)
        /\ Len(c) = LenName(m.name) /\ Len(d) = Len(m.data)
  <2>1. ByteCell \subseteq S
    BY DEF BuiltCells
  <2>2. Header(m) \in Seq(S) /\ Len(Header(m)) = LenHeader(m)
    BY <2>1, HeaderOfMessage, SeqMonotonic
  <2>3. m.name \in Seq(ByteCell)
    BY DEF MessageSpace
  <2>4. NameBytes(m.name) \in Seq(S) /\ Len(NameBytes(m.name)) = LenName(m.name)
    BY <2>1, <2>3, NameProperties, SeqMonotonic
  <2>5. /\ Seals(m, key) \in Seq(S) /\ Len(Seals(m, key)) = LenSeals(m.encrypted)
        /\ Body(m, key) \in Seq(S) /\ Len(Body(m, key)) = Len(m.data)
    BY SealsProperties
  <2> HIDE DEF S
  <2> QED
    BY <2>2, <2>4, <2>5
<1>2. PICK y : y = CreateMessage(m, key) /\ y = a \o b \o c \o d
  BY <1>1, CreateMessageIs
<1> HIDE DEF S
<1>3. /\ y \in Seq(S) /\ Len(y) = Len(a) + Len(b) + Len(c) + Len(d)
      /\ \A i \in 1 .. Len(a) : y[i] = a[i]
      /\ \A i \in 1 .. Len(b) : y[Len(a) + i] = b[i]
      /\ \A i \in 1 .. Len(c) : y[Len(a) + Len(b) + i] = c[i]
      /\ \A i \in 1 .. Len(d) : y[Len(a) + Len(b) + Len(c) + i] = d[i]
  BY <1>2, JoinFour
<1> QED
  BY <1>1, <1>2, <1>3, Zenon DEF S

\* What was built fits the 8 bits of a position and the 16 bits of a length.
LEMMA CreateMessageFits ==
  ASSUME NEW m, Buildable(m), NEW key
  PROVE  /\ LenHeader(m) \in Nat /\ LenSeals(m.encrypted) \in Nat
         /\ LenName(m.name) \in 1 .. MaxName /\ Len(m.data) \in Nat
         /\ LenHeader(m) + LenSeals(m.encrypted) + LenName(m.name) < ByteSpace
         /\ Len(CreateMessage(m, key)) + 1 < SizeSpace
<1>1. m \in MessageSpace /\ LenName(m.name) \in 1 .. MaxName
      /\ Len(m.data) + ByteSpace < SizeSpace
  BY DEF Buildable, NameFits
<1>2. PICK w \in Nat, t \in Nat, v \in Nat, s \in Nat, n \in Nat, h \in Nat, k \in Nat, d \in Nat :
        /\ w = WordSize /\ t = LenAuthenTag /\ v = LenIV /\ s = LenSign /\ n = MaxName
        /\ h = LenHeader(m) /\ k = LenName(m.name) /\ d = Len(m.data)
  <2>1. {WordSize, LenAuthenTag, LenIV, LenSign, MaxName} \subseteq Nat
    BY MessageAssumption
  <2>2. LenHeader(m) \in Nat
    BY <1>1, <2>1, HeaderOfMessage DEF FixedLen
  <2>3. LenName(m.name) \in Nat
    BY <1>1, <2>1
  <2>4. Len(m.data) \in Nat
    BY <1>1 DEF MessageSpace
  <2> QED
    BY <2>1, <2>2, <2>3, <2>4
<1>3. /\ h <= w + 2 + w /\ k <= n /\ d + ByteSpace < SizeSpace
      /\ w + 2 + w + s + n < ByteSpace /\ w + 2 + w + v + t + n < ByteSpace
  BY <1>1, <1>2, HeaderOfMessage, MessageAssumption DEF FixedLen
<1>4. LenSeals(m.encrypted) \in {t + v, s}
  BY <1>2 DEF LenSeals
<1>5. PICK q \in Nat : q = LenSeals(m.encrypted) /\ q \in {t + v, s}
  BY <1>4
<1>6. Len(CreateMessage(m, key)) = h + q + k + d
  <2>1. Len(CreateMessage(m, key)) =
          LenHeader(m) + LenSeals(m.encrypted) + LenName(m.name) + Len(m.data)
    BY <1>1, CreateMessageProperties, Zenon
  <2> QED
    BY <1>2, <1>5, <2>1
<1>7. h + q + k < ByteSpace
  BY <1>3, <1>5 DEF ByteSpace
<1>8. h + q + k + d + 1 < SizeSpace
  BY <1>3, <1>7 DEF ByteSpace, SizeSpace
<1> QED
  BY <1>1, <1>2, <1>5, <1>6, <1>7, <1>8, Zenon

-----------------------------------------------------------------------------
(***************************************************************************)
(* What was built is taken apart into what it was built from.              *)
(***************************************************************************)
LEMMA PositionsOfBuilt ==
  ASSUME NEW m, Buildable(m), NEW key, NEW x, x = CreateMessage(m, key)
  PROVE  /\ FlagsOf(x) = Flags(m) /\ LenNameOf(x) = LenName(m.name)
         /\ IsEncrypted(x) <=> m.encrypted
         /\ PosSeals(x) = LenHeader(m)
         /\ PosName(x) = LenHeader(m) + LenSeals(m.encrypted)
         /\ PosData(x) = LenHeader(m) + LenSeals(m.encrypted) + LenName(m.name)
         /\ WellFormed(x)
<1>1. m \in MessageSpace
  BY DEF Buildable
<1>2. PICK w \in Nat, h \in Nat, s \in Nat, k \in Nat, d \in Nat :
        /\ w = WordSize /\ h = LenHeader(m) /\ s = LenSeals(m.encrypted)
        /\ k = LenName(m.name) /\ d = Len(m.data)
  <2>1. WordSize \in Nat
    BY MessageAssumption
  <2> QED
    BY <1>1, <2>1, SizesOfMessage
<1>3. h >= w + 2 /\ FixedLen = w + 2
  BY <1>1, <1>2, HeaderOfMessage DEF FixedLen
<1>4. /\ Len(x) = h + s + k + d
      /\ \A i \in 1 .. h : x[i] = Header(m)[i]
  BY <1>1, <1>2, CreateMessageProperties, Zenon
<1>5. FlagsOf(x) = Flags(m)
  <2>0. x[w + 1] = Header(m)[w + 1]
    BY <1>3, <1>4
  <2>1. x[w + 1] = Byte(Flags(m))
    BY <1>1, <1>2, <2>0, HeaderOfMessage
  <2>2. Flags(m) \in 0 .. ByteSpace - 1
    BY <1>1, FlagsOfMessage
  <2>3. Byte(Flags(m)).byte = Flags(m)
    BY <2>2, ByteProperties, SMTT(30) DEF ByteSpace
  <2> QED
    BY <1>2, <2>1, <2>3 DEF FlagsOf
<1>6. LenNameOf(x) = k
  <2>0. x[w + 2] = Header(m)[w + 2]
    BY <1>3, <1>4
  <2>1. x[w + 2] = Byte(k)
    BY <1>1, <1>2, <2>0, HeaderOfMessage
  <2>2. m.name \in Seq(ByteCell)
    BY <1>1 DEF MessageSpace
  <2>3. k \in 0 .. ByteSpace - 1
    BY <1>2, <2>2, NameProperties
  <2>4. Byte(k).byte = k
    BY <2>3, ByteProperties DEF ByteSpace
  <2> QED
    BY <1>2, <2>1, <2>4 DEF LenNameOf
<1>7. IsEncrypted(x) <=> m.encrypted
  BY <1>1, <1>5, FlagsOfMessage DEF IsEncrypted
<1>8. PosSeals(x) = h
  <2>1. Bit(FlagsOf(x), 8) <=> m.tag # Zero
    BY <1>1, <1>5, FlagsOfMessage
  <2> QED
    BY <1>2, <2>1 DEF PosSeals, LenHeader, If
<1>9. PosName(x) = h + s
  BY <1>2, <1>7, <1>8 DEF PosName, LenSeals
<1>10. PosData(x) = h + s + k
  BY <1>6, <1>9 DEF PosData
<1>11. k \in 1 .. MaxName
  BY <1>2, CreateMessageFits
<1>12. WellFormed(x)
  BY <1>3, <1>4, <1>6, <1>8, <1>10, <1>11 DEF WellFormed
<1> QED
  BY <1>2, <1>5, <1>6, <1>7, <1>8, <1>9, <1>10, <1>12

LEMMA FieldsOfBuilt ==
  ASSUME NEW m, Buildable(m), NEW key, NEW x, x = CreateMessage(m, key),
         NEW f, f = Fields(x)
  PROVE  /\ f.id = m.id /\ f.tag = m.tag /\ f.type = m.type
         /\ f.encrypted = m.encrypted /\ f.first = m.first
         /\ f.last = m.last /\ f.request = m.request
         /\ f.name = NameBytes(m.name) /\ f.data = Body(m, key)
         /\ m.encrypted => f.authenTag = AuthenTag(SealOf(m, key)) /\ f.iv = RandomIV
         /\ ~m.encrypted => f.sign = Hmac(key, RawBytes(m))
<1>1. m \in MessageSpace
  BY DEF Buildable
<1>2. PICK w \in Nat, h \in Nat, s \in Nat, k \in Nat, d \in Nat :
        /\ w = WordSize /\ h = LenHeader(m) /\ s = LenSeals(m.encrypted)
        /\ k = LenName(m.name) /\ d = Len(m.data)
  <2>1. WordSize \in Nat
    BY MessageAssumption
  <2> QED
    BY <1>1, <2>1, SizesOfMessage
<1>4. /\ Len(x) = h + s + k + d
      /\ \A i \in 1 .. h : x[i] = Header(m)[i]
      /\ \A i \in 1 .. s : x[h + i] = Seals(m, key)[i]
      /\ \A i \in 1 .. k : x[h + s + i] = NameBytes(m.name)[i]
      /\ \A i \in 1 .. d : x[h + s + k + i] = Body(m, key)[i]
  <2>1. /\ Len(x) = LenHeader(m) + LenSeals(m.encrypted) + LenName(m.name) + Len(m.data)
        /\ \A i \in 1 .. LenHeader(m) : x[i] = Header(m)[i]
        /\ \A i \in 1 .. LenSeals(m.encrypted) : x[LenHeader(m) + i] = Seals(m, key)[i]
        /\ \A i \in 1 .. LenName(m.name) :
             x[LenHeader(m) + LenSeals(m.encrypted) + i] = NameBytes(m.name)[i]
        /\ \A i \in 1 .. Len(m.data) :
             x[LenHeader(m) + LenSeals(m.encrypted) + LenName(m.name) + i]
               = Body(m, key)[i]
    BY <1>1, CreateMessageProperties, ZenonT(60)
  <2> QED
    BY <1>2, <2>1, Zenon
<1>5. /\ FlagsOf(x) = Flags(m) /\ LenNameOf(x) = k /\ (IsEncrypted(x) <=> m.encrypted)
      /\ PosSeals(x) = h /\ PosName(x) = h + s /\ PosData(x) = h + s + k
  BY <1>2, PositionsOfBuilt
<1>3. Len(x) \in Nat
  BY <1>4
<1>6. f.id = m.id
  <2>1. m.id \in Seq(ByteCell) /\ Len(m.id) = w
    BY <1>1, <1>2, WordProperties DEF MessageSpace
  <2>3. w <= h /\ h <= Len(x)
    BY <1>1, <1>2, <1>4, HeaderOfMessage DEF FixedLen
  <2>4. \A i \in 1 .. w : Header(m)[i] = m.id[i]
    BY <1>1, <1>2, HeaderOfMessage
  <2>5. \A i \in 1 .. w : x[0 + i] = m.id[i]
    BY <1>4, <2>3, <2>4
  <2>6. 0 \in Nat /\ 0 + w <= Len(x)
    BY <1>4, <2>3
  <2>7. Cells(x, 0, w) = m.id
    <3>1. Listed(m.id, w)
      BY <2>1, SeqIsListed
    <3> QED
      BY <1>3, <2>5, <2>6, <3>1, CellsAre DEF Holds
  <2> QED
    BY <1>2, <2>7 DEF Fields
<1>7. f.tag = m.tag
  <2>1. Bit(FlagsOf(x), 8) <=> m.tag # Zero
    BY <1>1, <1>5, FlagsOfMessage
  <2>2. CASE m.tag = Zero
    BY <2>1, <2>2 DEF Fields
  <2>3. CASE m.tag # Zero
    <3>1. m.tag \in Seq(ByteCell) /\ Len(m.tag) = w
      BY <1>1, <1>2, WordProperties DEF MessageSpace
    <3>3. h = w + 2 + w /\ h <= Len(x) /\ FixedLen = w + 2
      BY <1>2, <1>4, <2>3 DEF FixedLen, LenHeader, If
    <3>2. PICK q : q = m.tag /\ Listed(q, w)
      BY <3>1, SeqIsListed
    <3>4. PICK a \in Nat : a = w + 2 /\ a + w <= Len(x) /\ \A i \in 1 .. w : a + i \in 1 .. h
      BY <3>3
    <3>5. \A i \in 1 .. w : x[a + i] = m.tag[i]
      <4>1. \A i \in 1 .. w : Header(m)[a + i] = m.tag[i]
        BY <1>1, <1>2, <2>3, <3>3, <3>4, HeaderOfMessage, Zenon
      <4> QED
        BY <1>4, <3>4, <4>1, Zenon
    <3>7. Cells(x, w + 2, w) = m.tag
      <4>1. \A i \in 1 .. w : x[a + i] = q[i]
        BY <3>2, <3>5
      <4>2. Cells(x, a, w) = q
        <5>1. Holds(x, a, w, q)
          BY <3>2, <3>4, <4>1 DEF Holds
        <5> QED
          BY <1>3, <3>4, <5>1, CellsAre
      <4> QED
        BY <3>2, <3>4, <4>2
    <3> QED
      BY <1>2, <2>1, <2>3, <3>3, <3>7 DEF Fields
  <2> QED
    BY <2>2, <2>3
<1>8. /\ f.encrypted = m.encrypted /\ f.first = m.first /\ f.last = m.last
      /\ f.request = m.request /\ f.type = m.type
  <2>1. PICK n : n = FlagsOf(x)
    OBVIOUS
  <2>2. /\ f.encrypted = Bit(n, 128) /\ f.first = Bit(n, 64) /\ f.last = Bit(n, 32)
        /\ f.request = Bit(n, 16) /\ f.type = n % 8
    BY <2>1 DEF Fields
  <2>3. /\ f.encrypted \in BOOLEAN /\ f.first \in BOOLEAN /\ f.last \in BOOLEAN
        /\ f.request \in BOOLEAN
    BY <2>2 DEF Bit
  <2>4. /\ m.encrypted \in BOOLEAN /\ m.first \in BOOLEAN /\ m.last \in BOOLEAN
        /\ m.request \in BOOLEAN
    BY <1>1 DEF MessageSpace
  <2>5. /\ (Bit(n, 128) <=> m.encrypted) /\ (Bit(n, 64) <=> m.first)
        /\ (Bit(n, 32) <=> m.last) /\ (Bit(n, 16) <=> m.request) /\ n % 8 = m.type
    BY <1>1, <1>5, <2>1, FlagsOfMessage
  <2> QED
    BY <2>2, <2>3, <2>4, <2>5
<1>9. f.name = NameBytes(m.name)
  <2>1. NameBytes(m.name) \in Seq(ByteCell) /\ Len(NameBytes(m.name)) = k
    BY <1>1, <1>2, NameProperties DEF MessageSpace
  <2>3. Cells(x, h + s, k) = NameBytes(m.name)
    <3>1. PICK a \in Nat : a = h + s /\ a + k <= Len(x)
      BY <1>4
    <3>2. PICK q : q = NameBytes(m.name) /\ Listed(q, k)
      BY <2>1, SeqIsListed
    <3>3. \A i \in 1 .. k : x[a + i] = q[i]
      BY <1>4, <3>1, <3>2, Zenon
    <3>4. Cells(x, a, k) = q
      <4>1. Holds(x, a, k, q)
        BY <3>1, <3>2, <3>3 DEF Holds
      <4> QED
        BY <1>3, <4>1, CellsAre
    <3> QED
      BY <3>1, <3>2, <3>4
  <2> QED
    BY <1>5, <2>3 DEF Fields
<1>10. f.data = Body(m, key)
  <2>1. Body(m, key) \in Seq(BuiltCells(m, key)) /\ Len(Body(m, key)) = d
    BY <1>1, <1>2, SealsProperties
  <2>3. Cells(x, h + s + k, d) = Body(m, key)
    <3>1. PICK a \in Nat : a = h + s + k /\ a + d <= Len(x)
      BY <1>4
    <3>2. \A i \in 1 .. d : x[a + i] = Body(m, key)[i]
      BY <1>4, <3>1, Zenon
    <3>3. Listed(Body(m, key), d)
      BY <2>1, SeqIsListed
    <3>4. Cells(x, a, d) = Body(m, key)
      <4>1. Holds(x, a, d, Body(m, key))
        BY <3>1, <3>2, <3>3 DEF Holds
      <4> QED
        BY <1>3, <4>1, CellsAre
    <3> QED
      BY <3>1, <3>4
  <2>4. (Len(x) - PosData(x) + SizeSpace) % SizeSpace = d
    <3>1. d < SizeSpace
      BY <1>2 DEF Buildable, ByteSpace, SizeSpace
    <3>2. Len(x) - PosData(x) = d
      BY <1>4, <1>5
    <3>3. (d + SizeSpace) % SizeSpace = d
      BY <3>1 DEF SizeSpace
    <3> QED
      BY <3>2, <3>3
  <2> QED
    BY <1>5, <2>3, <2>4 DEF Fields
<1>11. ASSUME m.encrypted
       PROVE  f.authenTag = AuthenTag(SealOf(m, key)) /\ f.iv = RandomIV
  <2>1. PICK t \in Nat, v \in Nat : t = LenAuthenTag /\ v = LenIV
    BY MessageAssumption
  <2>2. s = t + v
    BY <1>2, <1>11, <2>1 DEF LenSeals
  <2>3. /\ \A i \in 1 .. t : Seals(m, key)[i] = [tag |-> SealOf(m, key), at |-> i]
        /\ \A i \in 1 .. v : Seals(m, key)[t + i] = [random |-> i]
    BY <1>1, <1>11, <2>1, SealsProperties
  <2>4. /\ \A i \in 1 .. t : x[h + i] = [tag |-> SealOf(m, key), at |-> i]
        /\ \A i \in 1 .. v : x[h + t + i] = [random |-> i]
    <3>1. /\ \A i \in 1 .. t : i \in 1 .. s
          /\ \A i \in 1 .. v : t + i \in 1 .. s /\ h + (t + i) = h + t + i
      BY <2>2
    <3>2. \A i \in 1 .. v : x[h + (t + i)] = Seals(m, key)[t + i]
      BY <1>4, <3>1, Zenon
    <3> QED
      BY <1>4, <2>3, <3>1, <3>2, Zenon
  <2>5. Cells(x, h, t) = AuthenTag(SealOf(m, key))
    <3>1. AuthenTag(SealOf(m, key)) = [i \in 1 .. t |-> [tag |-> SealOf(m, key), at |-> i]]
      BY <2>1 DEF AuthenTag
    <3>2. AuthenTag(SealOf(m, key)) = [i \in 1 .. t |-> AuthenTag(SealOf(m, key))[i]]
      BY <3>1
    <3>3. PICK q : q = AuthenTag(SealOf(m, key)) /\ Listed(q, t)
      BY <3>2 DEF Listed
    <3>4. \A i \in 1 .. t : q[i] = [tag |-> SealOf(m, key), at |-> i]
      BY <3>1, <3>3
    <3>5. PICK a \in Nat : a = h /\ a + t <= Len(x)
      BY <1>4, <2>2
    <3>6. \A i \in 1 .. t : x[a + i] = q[i]
      BY <2>4, <3>4, <3>5, Zenon
    <3>7. Cells(x, a, t) = q
      <4>1. Holds(x, a, t, q)
        BY <3>3, <3>5, <3>6 DEF Holds
      <4> QED
        BY <1>3, <4>1, CellsAre
    <3> QED
      BY <3>3, <3>5, <3>7
  <2>6. Cells(x, h + t, v) = RandomIV
    <3>1. RandomIV = [i \in 1 .. v |-> [random |-> i]]
      BY <2>1 DEF RandomIV
    <3>2. RandomIV = [i \in 1 .. v |-> RandomIV[i]]
      BY <3>1
    <3>3. PICK q : q = RandomIV /\ Listed(q, v)
      BY <3>2 DEF Listed
    <3>4. \A i \in 1 .. v : q[i] = [random |-> i]
      BY <3>1, <3>3
    <3>5. PICK a \in Nat : a = h + t /\ a + v <= Len(x)
      BY <1>4, <2>2
    <3>6. \A i \in 1 .. v : x[a + i] = q[i]
      BY <2>4, <3>4, <3>5, Zenon
    <3>7. Cells(x, a, v) = q
      <4>1. Holds(x, a, v, q)
        BY <3>3, <3>5, <3>6 DEF Holds
      <4> QED
        BY <1>3, <4>1, CellsAre
    <3> QED
      BY <3>3, <3>5, <3>7
  <2>7. Bit(FlagsOf(x), 128)
    BY <1>5, <1>11 DEF IsEncrypted
  <2> QED
    BY <1>5, <2>1, <2>5, <2>6, <2>7 DEF Fields
<1>12. ASSUME ~m.encrypted
       PROVE  f.sign = Hmac(key, RawBytes(m))
  <2>1. s = LenSign
    BY <1>2, <1>12 DEF LenSeals
  <2>2. \A i \in 1 .. s : x[h + i] = [mac |-> key, of |-> RawBytes(m), at |-> i]
    BY <1>1, <1>4, <1>12, <2>1, SealsProperties
  <2>3. Cells(x, h, s) = Hmac(key, RawBytes(m))
    <3>1. Hmac(key, RawBytes(m)) = [i \in 1 .. s |-> [mac |-> key, of |-> RawBytes(m), at |-> i]]
      BY <2>1 DEF Hmac
    <3>2. Hmac(key, RawBytes(m)) = [i \in 1 .. s |-> Hmac(key, RawBytes(m))[i]]
      BY <3>1
    <3>3. PICK q : q = Hmac(key, RawBytes(m)) /\ Listed(q, s)
      BY <3>2 DEF Listed
    <3>4. \A i \in 1 .. s : q[i] = [mac |-> key, of |-> RawBytes(m), at |-> i]
      BY <3>1, <3>3
    <3>5. PICK a \in Nat : a = h /\ a + s <= Len(x)
      BY <1>4
    <3>6. \A i \in 1 .. s : x[a + i] = q[i]
      BY <2>2, <3>4, <3>5, Zenon
    <3>7. Cells(x, a, s) = q
      <4>1. Holds(x, a, s, q)
        BY <3>3, <3>5, <3>6 DEF Holds
      <4> QED
        BY <1>3, <4>1, CellsAre
    <3> QED
      BY <3>3, <3>5, <3>7
  <2>4. ~Bit(FlagsOf(x), 128)
    BY <1>5, <1>12 DEF IsEncrypted
  <2> QED
    BY <1>5, <2>1, <2>3, <2>4 DEF Fields
<1> QED
  BY <1>6, <1>7, <1>8, <1>9, <1>10, <1>11, <1>12

\* The fields that a header, and what is signed or authenticated, is made of.
LEMMA SameHeader ==
  ASSUME NEW m, NEW f, f.id = m.id, f.tag = m.tag, f.type = m.type,
         f.encrypted <=> m.encrypted, f.first <=> m.first, f.last <=> m.last,
         f.request <=> m.request, LenName(f.name) = LenName(m.name)
  PROVE  Header(f) = Header(m)
<1>1. Flags(f) = Flags(m)
  BY DEF Flags, If
<1> QED
  BY <1>1 DEF Header

LEMMA DecryptOwn ==
  ASSUME NEW key, NEW iv, NEW aad, NEW plain, NEW s, s = Seal(key, iv, aad, plain)
  PROVE  Decrypt(key, CipherText(s), aad, iv, AuthenTag(s)) = {plain}
<1> DEFINE t == AuthenTag(s)
           cells == {c \in {t[i] : i \in DOMAIN t} : "tag" \in DOMAIN c}
<1>1. {cell.tag : cell \in cells} = {s}
  <2>1. DOMAIN t = 1 .. LenAuthenTag /\ 1 \in 1 .. LenAuthenTag
    BY MessageAssumption DEF AuthenTag
  <2>2. \A i \in DOMAIN t : t[i] = [tag |-> s, at |-> i]
    BY DEF AuthenTag
  <2> HIDE DEF t
  <2>3. \A i \in DOMAIN t : "tag" \in DOMAIN t[i] /\ t[i].tag = s
    BY <2>2
  <2>4. t[1] \in cells
    BY <2>1, <2>3
  <2>5. \A c \in cells : c.tag = s
    BY <2>3
  <2> HIDE DEF cells
  <2> QED
    BY <2>1, <2>3, <2>4, <2>5
<1>2. s.key = key /\ s.aad = aad /\ s.iv = iv /\ s.plain = plain
  BY DEF Seal
<1>3. {q \in {s} : /\ q.key = key /\ q.aad = aad /\ q.iv = iv
                   /\ t = AuthenTag(q) /\ CipherText(s) = CipherText(q)} = {s}
  BY <1>2
<1>4. Decrypt(key, CipherText(s), aad, iv, t)
        = {q.plain : q \in {q \in {cell.tag : cell \in cells} :
             /\ q.key = key /\ q.aad = aad /\ q.iv = iv
             /\ t = AuthenTag(q) /\ CipherText(s) = CipherText(q)}}
  BY DEF Decrypt
<1> HIDE DEF t, cells
<1>5. Decrypt(key, CipherText(s), aad, iv, t) = {q.plain : q \in {s}}
  BY <1>1, <1>3, <1>4
<1>6. {q.plain : q \in {s}} = {plain}
  BY <1>2
<1> QED
  BY <1>5, <1>6 DEF t

\* What parseReceivedMessage returns of a message.
ReadBack(r, m) ==
  /\ r.ok = TRUE
  /\ r.msg.id = m.id /\ r.msg.tag = m.tag /\ r.msg.type = m.type
  /\ r.msg.encrypted = FALSE
  /\ r.msg.first = m.first /\ r.msg.last = m.last
  /\ r.msg.request = m.request
  /\ r.msg.name = NameBytes(m.name) /\ r.msg.data = m.data

\* Whatever createMessage built, parseReceivedMessage with the same key gives back:
\* for every layout, message and combination of flags, encrypted or signed.
THEOREM ParseOfBuilt ==
  ASSUME NEW m, Buildable(m), NEW key, NEW r,
         r = ParseReceivedMessage(CreateMessage(m, key), key)
  PROVE  ReadBack(r, m)
<1>1. m \in MessageSpace
  BY DEF Buildable
<1>2. PICK x : x = CreateMessage(m, key)
  OBVIOUS
<1>3. PICK f : f = Fields(x)
  OBVIOUS
<1>4. WellFormed(x)
  BY <1>2, PositionsOfBuilt
<1>5. /\ f.id = m.id /\ f.tag = m.tag /\ f.type = m.type
      /\ f.encrypted = m.encrypted /\ f.first = m.first
      /\ f.last = m.last /\ f.request = m.request
      /\ f.name = NameBytes(m.name) /\ f.data = Body(m, key)
      /\ m.encrypted => f.authenTag = AuthenTag(SealOf(m, key)) /\ f.iv = RandomIV
      /\ ~m.encrypted => f.sign = Hmac(key, RawBytes(m))
  BY <1>2, <1>3, FieldsOfBuilt
<1>6. Header(f) = Header(m) /\ NameBytes(f.name) = NameBytes(m.name)
  <2>1. /\ LenName(NameBytes(m.name)) = LenName(m.name)
        /\ NameBytes(NameBytes(m.name)) = NameBytes(m.name)
    BY <1>1, NameProperties DEF MessageSpace
  <2> QED
    BY <1>5, <2>1, SameHeader
<1>7. Aad(f) = Aad(m)
  BY <1>6 DEF Aad
<1>8. CASE m.encrypted
  <2>1. PICK plain : plain = Decrypt(key, f.data, Aad(f), f.iv, f.authenTag)
    OBVIOUS
  <2>2. plain = {m.data}
    <3>1. f.data = CipherText(SealOf(m, key))
      BY <1>5, <1>8 DEF Body
    <3>2. SealOf(m, key) = Seal(key, RandomIV, Aad(m), m.data)
      BY DEF SealOf
    <3> QED
      BY <1>5, <1>7, <1>8, <2>1, <3>1, <3>2, DecryptOwn
  <2>3. (CHOOSE p \in plain : TRUE) = m.data /\ plain # {}
    BY <2>2
  <2>4. r = [ok |-> TRUE, msg |-> [f EXCEPT !.data = CHOOSE p \in plain : TRUE,
                                            !.encrypted = FALSE]]
    BY <1>2, <1>3, <1>4, <1>5, <1>8, <2>1, <2>3 DEF ParseReceivedMessage
  <2>5. r = [ok |-> TRUE, msg |-> [f EXCEPT !.data = m.data, !.encrypted = FALSE]]
    BY <2>3, <2>4
  <2>6. r.ok = TRUE /\ r.msg = [f EXCEPT !.data = m.data, !.encrypted = FALSE]
    BY <2>5
  <2>7. /\ r.msg.id = f.id /\ r.msg.tag = f.tag /\ r.msg.type = f.type
        /\ r.msg.encrypted = FALSE /\ r.msg.first = f.first /\ r.msg.last = f.last
        /\ r.msg.request = f.request /\ r.msg.name = f.name /\ r.msg.data = m.data
    BY <1>3, <2>6 DEF Fields
  <2> QED
    BY <1>5, <2>6, <2>7 DEF ReadBack
<1>9. CASE ~m.encrypted
  <2>1. f.data = m.data
    BY <1>5, <1>9 DEF Body
  <2>2. RawBytes(f) = RawBytes(m)
    BY <1>6, <2>1 DEF RawBytes
  <2>3. r = [ok |-> TRUE, msg |-> f]
    BY <1>2, <1>3, <1>4, <1>5, <1>9, <2>2 DEF ParseReceivedMessage
  <2> QED
    BY <1>5, <1>9, <2>1, <2>3 DEF ReadBack
<1> QED
  BY <1>8, <1>9

-----------------------------------------------------------------------------
(***************************************************************************)
(* What is taken for genuine is what was built.                            *)
(***************************************************************************)
LEMMA LooseProperties ==
  ASSUME NEW c \in LooseCells
  PROVE  "mac" \notin DOMAIN c /\ "tag" \notin DOMAIN c /\ c # Outside
BY DEF LooseCells, ByteCell, Outside

LEMMA BuiltProperties ==
  ASSUME NEW m, NEW key, NEW c \in BuiltCells(m, key)
  PROVE  /\ c # Outside /\ c # [noise |-> 0]
         /\ "byte" \in DOMAIN c => c \in ByteCell
BY SMTT(30) DEF BuiltCells, ByteCell, MacCells, TagCells, PartCells, IVCells, Outside

LEMMA SentProperties ==
  ASSUME NEW m, NEW key, NEW c \in SentCells(m, key)
  PROVE  c # Outside /\ ("byte" \in DOMAIN c => c \in ByteCell)
BY BuiltProperties DEF SentCells, LooseCells, ByteCell, Outside

\* A byte of a signature or of a tag says where it was put.
LEMMA SealPlace ==
  ASSUME NEW m \in MessageSpace, NEW key, NEW x, x = CreateMessage(m, key),
         NEW p \in 1 .. Len(x)
  PROVE  /\ "mac" \in DOMAIN x[p] =>
              /\ ~m.encrypted
              /\ x[p] = [mac |-> key, of |-> RawBytes(m), at |-> p - LenHeader(m)]
         /\ "tag" \in DOMAIN x[p] =>
              /\ m.encrypted
              /\ x[p] = [tag |-> SealOf(m, key), at |-> p - LenHeader(m)]
<1>1. PICK h \in Nat, s \in Nat, k \in Nat, d \in Nat :
        /\ h = LenHeader(m) /\ s = LenSeals(m.encrypted)
        /\ k = LenName(m.name) /\ d = Len(m.data)
  BY SizesOfMessage
<1>2. /\ Len(x) = h + s + k + d
      /\ \A i \in 1 .. h : x[i] = Header(m)[i]
      /\ \A i \in 1 .. s : x[h + i] = Seals(m, key)[i]
      /\ \A i \in 1 .. k : x[h + s + i] = NameBytes(m.name)[i]
      /\ \A i \in 1 .. d : x[h + s + k + i] = Body(m, key)[i]
  <2>1. /\ Len(x) = LenHeader(m) + LenSeals(m.encrypted) + LenName(m.name) + Len(m.data)
        /\ \A i \in 1 .. LenHeader(m) : x[i] = Header(m)[i]
        /\ \A i \in 1 .. LenSeals(m.encrypted) : x[LenHeader(m) + i] = Seals(m, key)[i]
        /\ \A i \in 1 .. LenName(m.name) :
             x[LenHeader(m) + LenSeals(m.encrypted) + i] = NameBytes(m.name)[i]
        /\ \A i \in 1 .. Len(m.data) :
             x[LenHeader(m) + LenSeals(m.encrypted) + LenName(m.name) + i]
               = Body(m, key)[i]
    BY CreateMessageProperties, ZenonT(60)
  <2> QED
    BY <1>1, <2>1, Zenon
<1>3. ByteCell \subseteq LooseCells
  BY DEF LooseCells
<1>8. \A i \in 1 .. d : m.data[i] \in ByteCell
  BY <1>1 DEF MessageSpace
<1>4. CASE p \in 1 .. h
  <2>1. Header(m)[p] \in ByteCell
    BY <1>1, <1>4, HeaderOfMessage
  <2> QED
    BY <1>2, <1>3, <1>4, <2>1, LooseProperties
<1>5. CASE p - h \in 1 .. s
  <2>1. PICK i \in 1 .. s : i = p - h /\ x[p] = Seals(m, key)[i]
    BY <1>2, <1>5
  <2>2. CASE m.encrypted
    <3>1. PICK t \in Nat, v \in Nat : t = LenAuthenTag /\ v = LenIV /\ s = t + v
      BY <1>1, <2>2, MessageAssumption DEF LenSeals
    <3>2. /\ \A j \in 1 .. t : Seals(m, key)[j] = [tag |-> SealOf(m, key), at |-> j]
          /\ \A j \in 1 .. v : Seals(m, key)[t + j] = [random |-> j]
      BY <2>2, <3>1, SealsProperties
    <3>3. CASE i \in 1 .. t
      <4>1. x[p] = [tag |-> SealOf(m, key), at |-> i]
        BY <2>1, <3>2, <3>3
      <4> QED
        BY <1>1, <2>1, <2>2, <4>1
    <3>4. CASE i - t \in 1 .. v
      <4>1. t + (i - t) = i
        BY <3>1
      <4>2. x[p] = [random |-> i - t]
        BY <2>1, <3>2, <3>4, <4>1
      <4> QED
        BY <4>2
    <3> QED
      BY <3>1, <3>3, <3>4
  <2>3. CASE ~m.encrypted
    <3>1. s = LenSign
      BY <1>1, <2>3 DEF LenSeals
    <3>2. x[p] = [mac |-> key, of |-> RawBytes(m), at |-> i]
      BY <2>1, <2>3, <3>1, SealsProperties
    <3> QED
      BY <1>1, <2>1, <2>3, <3>2
  <2> QED
    BY <2>2, <2>3
<1>6. CASE p - (h + s) \in 1 .. k
  <2>1. PICK i \in 1 .. k : i = p - (h + s) /\ x[p] = NameBytes(m.name)[i]
    BY <1>2, <1>6
  <2>2. NameBytes(m.name) \in Seq(ByteCell) /\ Len(NameBytes(m.name)) = k
    BY <1>1, NameProperties DEF MessageSpace
  <2>3. x[p] \in ByteCell
    BY <2>1, <2>2
  <2> QED
    BY <1>3, <2>3, LooseProperties
<1>7. CASE p - (h + s + k) \in 1 .. d
  <2>1. PICK i \in 1 .. d : i = p - (h + s + k) /\ x[p] = Body(m, key)[i]
    BY <1>2, <1>7
  <2>2. CASE m.encrypted
    <3>1. SealOf(m, key).plain = m.data
      BY DEF SealOf, Seal
    <3>2. x[p] = [part |-> SealOf(m, key), at |-> i]
      BY <1>1, <2>1, <2>2, <3>1 DEF Body, CipherText
    <3> QED
      BY <3>2
  <2>3. CASE ~m.encrypted
    <3>1. x[p] \in ByteCell
      BY <1>8, <2>1, <2>3 DEF Body
    <3> QED
      BY <1>3, <3>1, LooseProperties
  <2> QED
    BY <2>2, <2>3
<1> QED
  BY <1>2, <1>4, <1>5, <1>6, <1>7

LEMMA CellsBetween ==
  ASSUME NEW S, NEW buf \in Seq(S), NEW a \in Nat, NEW b \in Nat, a <= b, b <= Len(buf)
  PROVE  Cells(buf, a, b - a) \in Seq(S) /\ Cells(buf, a, b - a) = SubSeq(buf, a + 1, b)
<1>1. PICK n \in Nat : n = b - a /\ a + n = b
  OBVIOUS
<1>2. /\ Cells(buf, a, n) = SubSeq(buf, a + 1, a + n)
      /\ Cells(buf, a, n) \in Seq(S)
  BY <1>1, CellsWithin
<1> QED
  BY <1>1, <1>2

LEMMA Adjacent ==
  ASSUME NEW S, NEW buf \in Seq(S), NEW a \in Nat, NEW b \in Nat, a <= b, b <= Len(buf)
  PROVE  SubSeq(buf, 1, a) \o SubSeq(buf, a + 1, b) = SubSeq(buf, 1, b)
<1>1. /\ 1 \in 1 .. Len(buf) + 1 /\ a \in 1 - 1 .. Len(buf) /\ b \in a .. Len(buf)
  OBVIOUS
<1> QED
  BY <1>1, ConcatAdjacentSubSeq, Zenon

\* A buffer in four parts.
InFour(buf, a, b, c) ==
  Cells(buf, 0, a) \o Cells(buf, a, b - a) \o Cells(buf, b, c - b)
    \o Cells(buf, c, Len(buf) - c)

LEMMA CutInFour ==
  ASSUME NEW S, NEW buf \in Seq(S), NEW a \in Nat, NEW b \in Nat, NEW c \in Nat,
         a <= b, b <= c, c <= Len(buf)
  PROVE  InFour(buf, a, b, c) = buf
<1>1. PICK n \in Nat : n = Len(buf) /\ n <= Len(buf) /\ b <= n
  OBVIOUS
<1>2. Cells(buf, 0, a) = SubSeq(buf, 1, a)
  <2>1. 0 \in Nat /\ 0 <= a /\ a <= Len(buf) /\ a - 0 = a /\ 0 + 1 = 1
    BY <1>1
  <2> QED
    BY <2>1, CellsBetween
<1>3. Cells(buf, a, b - a) = SubSeq(buf, a + 1, b)
  BY <1>1, CellsBetween
<1>4. Cells(buf, b, c - b) = SubSeq(buf, b + 1, c)
  BY CellsBetween
<1>5. Cells(buf, c, n - c) = SubSeq(buf, c + 1, n)
  BY <1>1, CellsBetween
<1>6. SubSeq(buf, 1, a) \o SubSeq(buf, a + 1, b) = SubSeq(buf, 1, b)
  BY <1>1, Adjacent
<1>7. SubSeq(buf, 1, b) \o SubSeq(buf, b + 1, c) = SubSeq(buf, 1, c)
  BY Adjacent
<1>8. SubSeq(buf, 1, c) \o SubSeq(buf, c + 1, n) = buf
  BY <1>1, Adjacent, SubSeqFull
<1> QED
  BY <1>1, <1>2, <1>3, <1>4, <1>5, <1>6, <1>7, <1>8 DEF InFour

\* A buffer that passes the checks of parseBytes, its flags and length bytes.
Readable(buf) ==
  /\ WellFormed(buf) /\ Len(buf) < SizeSpace
  /\ buf[WordSize + 1] \in ByteCell /\ buf[WordSize + 2] \in ByteCell

LEMMA Geometry ==
  ASSUME NEW S, NEW buf \in Seq(S), Readable(buf)
  PROVE  /\ FlagsOf(buf) \in 0 .. ByteSpace - 1
         /\ LenNameOf(buf) \in 1 .. MaxName /\ LenNameOf(buf) \in 0 .. ByteSpace - 1
         /\ PosSeals(buf) = FixedLen + If(Bit(FlagsOf(buf), 8), WordSize)
         /\ PosName(buf) = PosSeals(buf) + LenSeals(IsEncrypted(buf))
         /\ PosData(buf) = PosName(buf) + LenNameOf(buf)
         /\ LenSeals(IsEncrypted(buf)) \in Nat
         /\ PosSeals(buf) \in Nat /\ PosName(buf) \in Nat /\ PosData(buf) \in Nat
         /\ PosData(buf) <= Len(buf)
         /\ (Len(buf) - PosData(buf) + SizeSpace) % SizeSpace = Len(buf) - PosData(buf)
<1>1. PICK w \in Nat, t \in Nat, v \in Nat, s \in Nat, x \in Nat, n \in Nat :
        /\ w = WordSize /\ t = LenAuthenTag /\ v = LenIV /\ s = LenSign /\ x = MaxName
        /\ n = Len(buf)
  BY MessageAssumption
<1>2. FlagsOf(buf) \in 0 .. ByteSpace - 1
  BY DEF Readable, FlagsOf, ByteCell
<1>3. PICK k \in Nat : k = LenNameOf(buf) /\ 1 <= k /\ k <= x
  BY <1>1 DEF Readable, WellFormed
<1>4. PICK p \in Nat : p = PosSeals(buf) /\ p = FixedLen + If(Bit(FlagsOf(buf), 8), WordSize)
  BY <1>1 DEF PosSeals, FixedLen, If
<1>5. PICK q \in Nat : q = LenSeals(IsEncrypted(buf)) /\ PosName(buf) = p + q
  BY <1>1, <1>4 DEF PosName, LenSeals
<1>6. PosData(buf) = p + q + k
  BY <1>3, <1>5 DEF PosData
<1>7. p + q + k <= n /\ n < SizeSpace
  BY <1>1, <1>6 DEF Readable, WellFormed
<1>8. PICK d \in Nat : d = n - (p + q + k) /\ d < SizeSpace
  BY <1>7 DEF SizeSpace
<1>9. (d + SizeSpace) % SizeSpace = d
  BY <1>8 DEF SizeSpace
<1>10. (Len(buf) - PosData(buf) + SizeSpace) % SizeSpace = Len(buf) - PosData(buf)
  BY <1>1, <1>6, <1>8, <1>9
<1>11. /\ LenSeals(IsEncrypted(buf)) \in Nat
       /\ PosSeals(buf) \in Nat /\ PosName(buf) \in Nat /\ PosData(buf) \in Nat
       /\ PosData(buf) <= Len(buf)
  BY <1>1, <1>4, <1>5, <1>6, <1>7
<1>13. k \in 0 .. ByteSpace - 1
  <2>1. x < ByteSpace
    BY <1>1, MessageAssumption DEF FixedLen, ByteSpace
  <2>2. k <= x
    BY <1>3
  <2> QED
    BY <2>1, <2>2 DEF ByteSpace
<1>12. /\ LenNameOf(buf) \in 1 .. MaxName /\ LenNameOf(buf) \in 0 .. ByteSpace - 1
       /\ PosSeals(buf) = FixedLen + If(Bit(FlagsOf(buf), 8), WordSize)
       /\ PosName(buf) = PosSeals(buf) + LenSeals(IsEncrypted(buf))
       /\ PosData(buf) = PosName(buf) + LenNameOf(buf)
  BY <1>1, <1>3, <1>4, <1>5, <1>6, <1>13
<1> QED
  BY <1>2, <1>10, <1>11, <1>12

\* The fields of a buffer, put together again around its seals.
Rejoined(buf, seals, f) == Cells(buf, 0, PosSeals(buf)) \o seals \o f.name \o f.data

LEMMA ReadFields ==
  ASSUME NEW S, NEW buf \in Seq(S), Readable(buf), NEW f, f = Fields(buf)
  PROVE  /\ f.id \in Seq(S) /\ Len(f.id) = WordSize
         /\ \A i \in 1 .. WordSize : f.id[i] = buf[i]
         /\ Bit(FlagsOf(buf), 8) =>
              /\ f.tag \in Seq(S) /\ Len(f.tag) = WordSize
              /\ \A i \in 1 .. WordSize : f.tag[i] = buf[FixedLen + i]
         /\ ~Bit(FlagsOf(buf), 8) => f.tag = Zero
         /\ f.name \in Seq(S) /\ Len(f.name) = LenNameOf(buf)
         /\ LenName(f.name) = LenNameOf(buf) /\ NameBytes(f.name) = f.name
         /\ f.data \in Seq(S)
         /\ (f.encrypted <=> IsEncrypted(buf))
         /\ ~f.encrypted =>
              /\ Rejoined(buf, f.sign, f) = buf
              /\ f.sign \in Seq(S) /\ Len(f.sign) = LenSign
              /\ \A i \in 1 .. LenSign : f.sign[i] = buf[PosSeals(buf) + i]
         /\ f.encrypted =>
              /\ Rejoined(buf, f.authenTag \o f.iv, f) = buf
              /\ f.authenTag \in Seq(S) /\ Len(f.authenTag) = LenAuthenTag
              /\ \A i \in 1 .. LenAuthenTag : f.authenTag[i] = buf[PosSeals(buf) + i]
              /\ f.iv \in Seq(S)
<1>1. PICK w \in Nat, t \in Nat, v \in Nat, g \in Nat, x \in Nat, n \in Nat :
        /\ w = WordSize /\ t = LenAuthenTag /\ v = LenIV /\ g = LenSign /\ x = MaxName
        /\ n = Len(buf)
  BY MessageAssumption
<1>2. PICK p \in Nat, s \in Nat, k \in Nat :
        /\ p = PosSeals(buf) /\ s = LenSeals(IsEncrypted(buf)) /\ k = LenNameOf(buf)
        /\ PosName(buf) = p + s /\ PosData(buf) = p + s + k /\ p + s + k <= n
        /\ p = FixedLen + If(Bit(FlagsOf(buf), 8), WordSize)
        /\ k \in 1 .. MaxName
  <2>1. LenNameOf(buf) \in 1 .. MaxName
    BY Geometry
  <2>2. LenNameOf(buf) \in Nat
    BY <1>1, <2>1
  <2> QED
    BY <1>1, <2>1, <2>2, Geometry
<1>16. n = Len(buf) /\ p + s + k <= n
  BY <1>1, <1>2
<1>17. (Len(buf) - PosData(buf) + SizeSpace) % SizeSpace = n - (p + s + k)
  BY <1>1, <1>2, Geometry
<1>3. w + 2 <= p /\ FixedLen = w + 2 /\ (Bit(FlagsOf(buf), 8) => p = w + 2 + w)
  BY <1>1, <1>2 DEF FixedLen, If
<1>4. f.id = Cells(buf, 0, w)
  BY <1>1 DEF Fields
<1>5. f.name = Cells(buf, p + s, k) /\ f.data = Cells(buf, p + s + k, n - (p + s + k))
  BY <1>2, <1>17 DEF Fields
<1>6. f.encrypted <=> IsEncrypted(buf)
  BY DEF Fields, IsEncrypted
<1>7. f.id \in Seq(S) /\ Len(f.id) = w /\ \A i \in 1 .. w : f.id[i] = buf[i]
  <2>1. 0 \in Nat /\ 0 + w <= Len(buf) /\ \A i \in 1 .. w : 0 + i = i
    BY <1>3, <1>16
  <2>2. /\ Cells(buf, 0, w) \in Seq(S) /\ Len(Cells(buf, 0, w)) = w
        /\ \A i \in 1 .. w : Cells(buf, 0, w)[i] = buf[0 + i]
    BY <2>1, CellsWithin
  <2> QED
    BY <1>4, <2>1, <2>2
<1>8. ASSUME Bit(FlagsOf(buf), 8)
      PROVE  /\ f.tag \in Seq(S) /\ Len(f.tag) = w
             /\ \A i \in 1 .. w : f.tag[i] = buf[FixedLen + i]
  <2>1. FixedLen \in Nat /\ FixedLen + w <= Len(buf)
    BY <1>3, <1>8, <1>16
  <2>2. f.tag = Cells(buf, FixedLen, w)
    BY <1>1, <1>8 DEF Fields
  <2>3. /\ Cells(buf, FixedLen, w) \in Seq(S) /\ Len(Cells(buf, FixedLen, w)) = w
        /\ \A i \in 1 .. w : Cells(buf, FixedLen, w)[i] = buf[FixedLen + i]
    BY <2>1, CellsWithin
  <2> QED
    BY <2>2, <2>3
<1>9. ~Bit(FlagsOf(buf), 8) => f.tag = Zero
  BY DEF Fields
<1>10. f.name \in Seq(S) /\ Len(f.name) = k
  <2>1. PICK a \in Nat, b \in Nat : a = p + s /\ b = k
    OBVIOUS
  <2>2. a + b <= Len(buf)
    BY <1>16, <2>1
  <2>3. Cells(buf, a, b) \in Seq(S) /\ Len(Cells(buf, a, b)) = b
    BY <2>2, CellsWithin
  <2> QED
    BY <1>5, <2>1, <2>3
<1>11. LenName(f.name) = k /\ NameBytes(f.name) = f.name
  <2>1. k < ByteSpace
    BY <1>1, <1>2, MessageAssumption DEF FixedLen, ByteSpace
  <2> QED
    BY <1>10, <2>1, NameProperties
<1>12. f.data \in Seq(S)
  <2>1. /\ p + s + k \in Nat /\ n - (p + s + k) \in Nat
        /\ p + s + k + (n - (p + s + k)) <= Len(buf)
    BY <1>16
  <2>2. PICK a \in Nat, b \in Nat :
          a = p + s + k /\ b = n - (p + s + k) /\ a + b <= Len(buf)
    BY <2>1
  <2>3. Cells(buf, a, b) \in Seq(S)
    BY <2>2, CellsWithin
  <2> QED
    BY <1>5, <2>2, <2>3
<1>13. Rejoined(buf, Cells(buf, p, s), f) = buf
  <2>1. PICK a \in Nat, b \in Nat : a = p + s /\ b = p + s + k
    OBVIOUS
  <2>2. p <= a /\ a <= b /\ b <= Len(buf) /\ a - p = s /\ b - a = k
    BY <1>16, <2>1
  <2>3. InFour(buf, p, a, b) = buf
    BY <2>2, CutInFour
  <2>4. InFour(buf, p, a, b) = Cells(buf, 0, p) \o Cells(buf, p, s) \o f.name \o f.data
    BY <1>1, <1>5, <2>1, <2>2 DEF InFour
  <2> QED
    BY <1>2, <2>3, <2>4 DEF Rejoined
<1>14. ASSUME ~f.encrypted
       PROVE  /\ Cells(buf, p, s) = f.sign /\ f.sign \in Seq(S) /\ Len(f.sign) = g
              /\ \A i \in 1 .. g : f.sign[i] = buf[p + i]
  <2>1. ~Bit(FlagsOf(buf), 128) /\ s = g
    BY <1>1, <1>2, <1>6, <1>14 DEF IsEncrypted, LenSeals
  <2>2. f.sign = Cells(buf, p, g)
    BY <1>1, <1>2, <2>1 DEF Fields
  <2>3. p + g <= Len(buf)
    BY <1>16, <2>1
  <2>4. /\ Cells(buf, p, g) \in Seq(S) /\ Len(Cells(buf, p, g)) = g
        /\ \A i \in 1 .. g : Cells(buf, p, g)[i] = buf[p + i]
    BY <2>3, CellsWithin
  <2> QED
    BY <2>1, <2>2, <2>4
<1>15. ASSUME f.encrypted
       PROVE  /\ Cells(buf, p, s) = f.authenTag \o f.iv
              /\ f.authenTag \in Seq(S) /\ Len(f.authenTag) = t
              /\ \A i \in 1 .. t : f.authenTag[i] = buf[p + i]
              /\ f.iv \in Seq(S)
  <2>1. Bit(FlagsOf(buf), 128) /\ s = t + v
    BY <1>1, <1>2, <1>6, <1>15 DEF IsEncrypted, LenSeals
  <2>2. f.authenTag = Cells(buf, p, t) /\ f.iv = Cells(buf, p + t, v)
    BY <1>1, <1>2, <2>1 DEF Fields
  <2>3. p + t <= Len(buf) /\ p + t \in Nat /\ p + t + v <= Len(buf)
    BY <1>16, <2>1
  <2>4. /\ f.authenTag \in Seq(S) /\ Len(f.authenTag) = t
        /\ \A i \in 1 .. t : f.authenTag[i] = buf[p + i]
        /\ f.authenTag = SubSeq(buf, p + 1, p + t)
    BY <2>2, <2>3, CellsWithin, SMTT(30)
  <2>5. f.iv \in Seq(S) /\ f.iv = SubSeq(buf, p + t + 1, p + t + v)
    BY <2>2, <2>3, CellsWithin
  <2>6. Cells(buf, p, s) = SubSeq(buf, p + 1, p + t + v)
    <3>1. p + s <= Len(buf) /\ p + s = p + t + v
      BY <2>1, <2>3
    <3> QED
      BY <3>1, CellsWithin, SMTT(30)
  <2>7. f.authenTag \o f.iv = SubSeq(buf, p + 1, p + t + v)
    <3>1. PICK a \in Nat, b \in Nat, c \in Nat : a = p + 1 /\ b = p + t /\ c = p + t + v
      OBVIOUS
    <3>2. a \in 1 .. Len(buf) + 1 /\ b \in a - 1 .. Len(buf) /\ c \in b .. Len(buf)
      BY <2>3, <3>1
    <3>3. SubSeq(buf, a, b) \o SubSeq(buf, b + 1, c) = SubSeq(buf, a, c)
      BY <3>2, ConcatAdjacentSubSeq, Zenon
    <3> QED
      BY <2>4, <2>5, <3>1, <3>3
  <2> QED
    BY <2>4, <2>5, <2>6, <2>7
<1> QED
  BY <1>1, <1>2, <1>6, <1>7, <1>8, <1>9, <1>10, <1>11, <1>12, <1>13, <1>14, <1>15

LEMMA ReadFlags ==
  ASSUME NEW S, NEW buf \in Seq(S), Readable(buf), NEW f, f = Fields(buf)
  PROVE  /\ Flags(f) \in 0 .. ByteSpace - 1
         /\ Bit(Flags(f), 8) <=> f.tag # Zero
         /\ (Bit(FlagsOf(buf), 8) <=> f.tag # Zero) => Flags(f) = FlagsOf(buf)
<1>1. PICK n \in 0 .. ByteSpace - 1 : n = FlagsOf(buf)
  BY Geometry
<1>2. n % 8 \in 0 .. 7
  BY DEF ByteSpace
<1>3. /\ f.encrypted = Bit(n, 128) /\ f.first = Bit(n, 64) /\ f.last = Bit(n, 32)
      /\ f.request = Bit(n, 16) /\ f.type = n % 8
  BY <1>1 DEF Fields
<1>4. /\ f.encrypted \in BOOLEAN /\ f.first \in BOOLEAN /\ f.last \in BOOLEAN
      /\ f.request \in BOOLEAN /\ f.type \in 0 .. 7
  BY <1>2, <1>3 DEF Bit
<1>5. Flags(f) \in 0 .. ByteSpace - 1 /\ (Bit(Flags(f), 8) <=> f.tag # Zero)
  BY <1>4, FlagsProperties
<1>6. (Bit(n, 8) <=> f.tag # Zero) => Flags(f) = n
  <2> SUFFICES ASSUME Bit(n, 8) <=> f.tag # Zero
               PROVE  Flags(f) = n
    OBVIOUS
  <2>1. Flags(f) = If(Bit(n, 128), 128) + If(Bit(n, 64), 64) + If(Bit(n, 32), 32)
                   + If(Bit(n, 16), 16) + If(Bit(n, 8), 8) + (n % 8)
    BY <1>3 DEF Flags, If
  <2> QED
    BY <2>1, SumOfBits
<1> QED
  BY <1>1, <1>5, <1>6

LEMMA ReadHeader ==
  ASSUME NEW S, ByteCell \subseteq S, NEW buf \in Seq(S), Readable(buf),
         NEW f, f = Fields(buf)
  PROVE  /\ Header(f) \in Seq(S)
         /\ Len(Header(f)) = LenHeader(f)
         /\ Header(f)[WordSize + 1] = Byte(Flags(f))
         /\ (Bit(FlagsOf(buf), 8) <=> f.tag # Zero)
              => Header(f) = Cells(buf, 0, PosSeals(buf))
<1>1. PICK w \in Nat, p \in Nat, k \in 0 .. ByteSpace - 1 :
        /\ w = WordSize /\ FixedLen = w + 2 /\ p = PosSeals(buf) /\ k = LenNameOf(buf)
        /\ p = w + 2 + If(Bit(FlagsOf(buf), 8), w) /\ p <= Len(buf)
  <2>1. WordSize \in Nat /\ MaxName \in Nat /\ MaxName < ByteSpace
    BY MessageAssumption DEF FixedLen, ByteSpace
  <2>2. LenNameOf(buf) \in 0 .. ByteSpace - 1
    BY Geometry
  <2>3. PosSeals(buf) <= Len(buf)
    BY DEF Readable, WellFormed
  <2> QED
    BY <2>1, <2>2, <2>3, Geometry DEF FixedLen
<1>2. /\ f.id \in Seq(S) /\ Len(f.id) = w
      /\ \A i \in 1 .. w : f.id[i] = buf[i]
      /\ Bit(FlagsOf(buf), 8) =>
           /\ f.tag \in Seq(S) /\ Len(f.tag) = w
           /\ \A i \in 1 .. w : f.tag[i] = buf[w + 2 + i]
      /\ ~Bit(FlagsOf(buf), 8) => f.tag = Zero
      /\ LenName(f.name) = k
  <2>1. /\ f.id \in Seq(S) /\ Len(f.id) = WordSize
        /\ \A i \in 1 .. WordSize : f.id[i] = buf[i]
        /\ Bit(FlagsOf(buf), 8) =>
             /\ f.tag \in Seq(S) /\ Len(f.tag) = WordSize
             /\ \A i \in 1 .. WordSize : f.tag[i] = buf[FixedLen + i]
        /\ ~Bit(FlagsOf(buf), 8) => f.tag = Zero
        /\ LenName(f.name) = LenNameOf(buf)
    BY ReadFields, SMTT(30)
  <2> QED
    BY <1>1, <2>1
<1>8. f.id \in Seq(S) /\ Len(f.id) = WordSize
  BY <1>1, <1>2
<1>3. Flags(f) \in 0 .. ByteSpace - 1
  BY ReadFlags
<1>4. Flags(f) \in Int /\ LenName(f.name) \in Int
  BY <1>2, <1>3, ByteRange
<1>5. f.tag # Zero => f.tag \in Seq(S) /\ Len(f.tag) = WordSize
  BY <1>1, <1>2
<1>6. /\ Header(f) \in Seq(S) /\ Len(Header(f)) = LenHeader(f)
      /\ \A i \in 1 .. w : Header(f)[i] = f.id[i]
      /\ Header(f)[w + 1] = Byte(Flags(f)) /\ Header(f)[w + 2] = Byte(k)
      /\ f.tag # Zero => \A i \in 1 .. w : Header(f)[w + 2 + i] = f.tag[i]
  <2>1. /\ Header(f) \in Seq(S) /\ Len(Header(f)) = LenHeader(f)
        /\ \A i \in 1 .. WordSize : Header(f)[i] = f.id[i]
        /\ Header(f)[WordSize + 1] = Byte(Flags(f))
        /\ Header(f)[WordSize + 2] = Byte(LenName(f.name))
        /\ f.tag # Zero => \A i \in 1 .. WordSize : Header(f)[FixedLen + i] = f.tag[i]
    BY <1>4, <1>5, <1>8, HeaderProperties, SMTT(30)
  <2> QED
    BY <1>1, <1>2, <2>1
<1>7. ASSUME Bit(FlagsOf(buf), 8) <=> f.tag # Zero
      PROVE  Header(f) = Cells(buf, 0, p)
  <2>1. Flags(f) = FlagsOf(buf)
    BY <1>7, ReadFlags
  <2>2. Byte(Flags(f)) = buf[w + 1]
    <3>1. PICK n \in 0 .. ByteSpace - 1 : buf[w + 1] = [byte |-> n]
      BY <1>1 DEF Readable, ByteCell
    <3>2. Flags(f) = n
      BY <1>1, <2>1, <3>1 DEF FlagsOf
    <3> QED
      BY <3>1, <3>2, ByteRange, ByteProperties
  <2>3. Byte(k) = buf[w + 2]
    <3>1. PICK n \in 0 .. ByteSpace - 1 : buf[w + 2] = [byte |-> n]
      BY <1>1 DEF Readable, ByteCell
    <3>2. k = n
      BY <1>1, <3>1 DEF LenNameOf
    <3> QED
      BY <3>1, <3>2, ByteRange, ByteProperties
  <2>4. LenHeader(f) = p
    BY <1>1, <1>7 DEF LenHeader, If
  <2>5. /\ Cells(buf, 0, p) \in Seq(S) /\ Len(Cells(buf, 0, p)) = p
        /\ \A i \in 1 .. p : Cells(buf, 0, p)[i] = buf[i]
    <3>1. 0 \in Nat /\ 0 + p <= Len(buf) /\ \A i \in 1 .. p : 0 + i = i
      BY <1>1
    <3>2. /\ Cells(buf, 0, p) \in Seq(S) /\ Len(Cells(buf, 0, p)) = p
          /\ \A i \in 1 .. p : Cells(buf, 0, p)[i] = buf[0 + i]
      BY <3>1, CellsWithin
    <3> QED
      BY <3>1, <3>2
  <2>6. \A i \in 1 .. p : Header(f)[i] = buf[i]
    <3>1. CASE f.tag # Zero
      <4>1. p = w + 2 + w
        BY <1>1, <1>7, <3>1 DEF If
      <4>2. \A i \in 1 .. p : \/ i \in 1 .. w \/ i = w + 1 \/ i = w + 2
                               \/ (i - (w + 2) \in 1 .. w /\ w + 2 + (i - (w + 2)) = i)
        BY <4>1
      <4>3. \A i \in 1 .. w : Header(f)[w + 2 + i] = buf[w + 2 + i]
        BY <1>2, <1>6, <1>7, <3>1
      <4> QED
        BY <1>2, <1>6, <2>2, <2>3, <4>2, <4>3, ZenonT(60)
    <3>2. CASE f.tag = Zero
      <4>1. p = w + 2
        BY <1>1, <1>7, <3>2 DEF If
      <4>2. \A i \in 1 .. p : i \in 1 .. w \/ i = w + 1 \/ i = w + 2
        BY <4>1
      <4> QED
        BY <1>2, <1>6, <2>2, <2>3, <4>2
    <3> QED
      BY <3>1, <3>2
  <2> QED
    BY <1>6, <2>4, <2>5, <2>6, SeqEqual
<1> QED
  BY <1>1, <1>6, <1>7

\* Names for concatenations, which the provers shall not take apart.
Two(a, b) == a \o b
Three(a, b, c) == a \o b \o c
Four(a, b, c, d) == a \o b \o c \o d

\* The flags fix the length of the header.
LEMMA SameStart ==
  ASSUME NEW S, ByteCell \subseteq S, NEW m \in MessageSpace,
         NEW buf \in Seq(S), Readable(buf), NEW f, f = Fields(buf),
         PosSeals(buf) = LenHeader(m),
         NEW u \in Seq(S), NEW v \in Seq(S), Two(Header(f), u) = Two(Header(m), v)
  PROVE  Header(f) = Header(m) /\ u = v /\ Cells(buf, 0, PosSeals(buf)) = Header(m)
<1>1. PICK w \in Nat : w = WordSize /\ w > 0 /\ FixedLen = w + 2
  BY MessageAssumption DEF FixedLen
<1>2. PICK a \in Seq(S) :
        a = Header(f) /\ Len(a) = LenHeader(f) /\ a[w + 1] = Byte(Flags(f))
  BY <1>1, ReadHeader
<1>3. PICK b \in Seq(S) :
        b = Header(m) /\ Len(b) = LenHeader(m) /\ b[w + 1] = Byte(Flags(m))
  <2>1. /\ Header(m) \in Seq(ByteCell) /\ Len(Header(m)) = LenHeader(m)
        /\ Header(m)[w + 1] = Byte(Flags(m))
    BY <1>1, HeaderOfMessage
  <2>2. Header(m) \in Seq(S)
    BY <2>1, SeqMonotonic
  <2> QED
    BY <2>1, <2>2
<1>4. Flags(f) = Flags(m)
  <2>1. w + 1 \in 1 .. Len(a) /\ w + 1 \in 1 .. Len(b)
    <3>1. /\ LenHeader(f) = w + 2 \/ LenHeader(f) = w + 2 + w
          /\ LenHeader(m) = w + 2 \/ LenHeader(m) = w + 2 + w
      BY <1>1 DEF LenHeader, If
    <3>2. /\ Len(a) = w + 2 \/ Len(a) = w + 2 + w
          /\ Len(b) = w + 2 \/ Len(b) = w + 2 + w
      BY <1>2, <1>3, <3>1
    <3> QED
      BY <3>2
  <2>2. (a \o u)[w + 1] = a[w + 1] /\ (b \o v)[w + 1] = b[w + 1]
    BY <2>1, Join
  <2>3. Byte(Flags(f)) = Byte(Flags(m))
    BY <1>2, <1>3, <2>2 DEF Two
  <2>4. Flags(f) \in 0 .. ByteSpace - 1 /\ Flags(m) \in 0 .. ByteSpace - 1
    BY ReadFlags, FlagsOfMessage
  <2>5. Byte(Flags(f)).byte = Flags(f) /\ Byte(Flags(m)).byte = Flags(m)
    BY <2>4, ByteRange, ByteProperties
  <2> QED
    BY <2>3, <2>5
<1>5. f.tag # Zero <=> m.tag # Zero
  BY <1>4, ReadFlags, FlagsOfMessage
<1>6. LenHeader(f) = LenHeader(m)
  BY <1>5 DEF LenHeader, If
<1>7. a = b /\ u = v
  <2>1. a \o u = b \o v
    BY <1>2, <1>3 DEF Two
  <2>2. Len(a) = Len(b)
    BY <1>2, <1>3, <1>6
  <2> QED
    BY <2>1, <2>2, Cancel
<1>8. Bit(FlagsOf(buf), 8) <=> m.tag # Zero
  <2>1. FixedLen + If(Bit(FlagsOf(buf), 8), WordSize) = FixedLen + If(m.tag # Zero, WordSize)
    BY Geometry DEF LenHeader
  <2> QED
    BY <1>1, <2>1 DEF If
<1>9. Cells(buf, 0, PosSeals(buf)) = Header(f)
  BY <1>5, <1>8, ReadHeader
<1> QED
  BY <1>2, <1>3, <1>7, <1>9

LEMMA Regroup ==
  ASSUME NEW S, NEW a \in Seq(S), NEW b \in Seq(S), NEW c \in Seq(S)
  PROVE  a \o b \o c = a \o (b \o c)
BY ConcatAssociative

LEMMA RegroupFour ==
  ASSUME NEW S, NEW a \in Seq(S), NEW b \in Seq(S), NEW c \in Seq(S), NEW d \in Seq(S)
  PROVE  a \o b \o c \o d = (a \o b) \o (c \o d)
<1>1. PICK e \in Seq(S) : e = a \o b
  BY ConcatProperties
<1>2. e \o c \o d = e \o (c \o d)
  BY Regroup, SMTT(30)
<1> QED
  BY <1>1, <1>2

LEMMA ThreeIs ==
  ASSUME NEW S, NEW a \in Seq(S), NEW b \in Seq(S), NEW c \in Seq(S)
  PROVE  Three(a, b, c) = Two(a, Two(b, c)) /\ Two(a, b) \in Seq(S)
BY Regroup, ConcatProperties, SMTT(30) DEF Two, Three

LEMMA FourIs ==
  ASSUME NEW S, NEW a \in Seq(S), NEW b \in Seq(S), NEW c \in Seq(S), NEW d \in Seq(S)
  PROVE  Four(a, b, c, d) = Two(Two(a, b), Two(c, d))
<1>1. a \o b \o c \o d = (a \o b) \o (c \o d)
  BY RegroupFour, SMTT(30)
<1> QED
  BY <1>1 DEF Two, Four

\* The same bytes signed: the same header, name and data.
LEMMA SameSigned ==
  ASSUME NEW S, ByteCell \subseteq S, NEW m \in MessageSpace,
         NEW buf \in Seq(S), Readable(buf), NEW f, f = Fields(buf),
         PosSeals(buf) = LenHeader(m),
         NEW a \in Seq(S), NEW b \in Seq(S), NEW c \in Seq(S), NEW d \in Seq(S),
         Three(Header(f), a, b) = Three(Header(m), c, d)
  PROVE  Cells(buf, 0, PosSeals(buf)) = Header(m) /\ Two(a, b) = Two(c, d)
<1>1. Header(f) \in Seq(S)
  BY ReadHeader
<1>2. Header(m) \in Seq(S)
  BY HeaderOfMessage, SeqMonotonic
<1>3. Two(a, b) \in Seq(S) /\ Two(c, d) \in Seq(S)
  BY ThreeIs
<1>4. Two(Header(f), Two(a, b)) = Two(Header(m), Two(c, d))
  BY <1>1, <1>2, ThreeIs
<1> QED
  BY <1>3, <1>4, SameStart, SMTT(30)

\* What the transport makes of a message: its cells in their places, but for
\* some bytes and noise.
Carried(buf, m, key) ==
  /\ buf \in Seq(SentCells(m, key)) /\ Len(buf) < SizeSpace
  /\ \A i \in 1 .. Len(buf) :
       \/ buf[i] \in LooseCells
       \/ i <= Len(CreateMessage(m, key)) /\ buf[i] = CreateMessage(m, key)[i]
  /\ \A i \in {WordSize + 1, WordSize + 2} : i <= Len(buf) => buf[i] \in ByteCell

LEMMA CarriedReadable ==
  ASSUME NEW m, NEW key, NEW buf, Carried(buf, m, key), WellFormed(buf)
  PROVE  Readable(buf)
<1>1. PICK w \in Nat : w = WordSize
  BY MessageAssumption
<1>2. Len(buf) \in Nat /\ w + 2 <= Len(buf)
  BY <1>1 DEF Carried, WellFormed, FixedLen
<1>3. w + 1 <= Len(buf)
  BY <1>2
<1> QED
  BY <1>1, <1>2, <1>3 DEF Carried, Readable

LEMMA CarriedSeal ==
  ASSUME NEW m \in MessageSpace, NEW key, NEW buf, Carried(buf, m, key),
         NEW p \in 1 .. Len(buf)
  PROVE  /\ "mac" \in DOMAIN buf[p] =>
              /\ ~m.encrypted
              /\ buf[p] = [mac |-> key, of |-> RawBytes(m), at |-> p - LenHeader(m)]
         /\ "tag" \in DOMAIN buf[p] =>
              /\ m.encrypted
              /\ buf[p] = [tag |-> SealOf(m, key), at |-> p - LenHeader(m)]
<1>1. PICK x : x = CreateMessage(m, key)
  OBVIOUS
<1>2. buf[p] \in LooseCells \/ (p <= Len(x) /\ buf[p] = x[p])
  BY <1>1 DEF Carried
<1>3. CASE buf[p] \in LooseCells
  BY <1>3, LooseProperties
<1>4. CASE p <= Len(x) /\ buf[p] = x[p]
  <2>1. Len(buf) \in Nat
    BY DEF Carried
  <2>2. Len(x) \in Nat
    BY <1>1, CreateMessageProperties
  <2>3. p \in 1 .. Len(x)
    BY <1>4, <2>1, <2>2
  <2> QED
    BY <1>1, <1>4, <2>3, SealPlace
<1> QED
  BY <1>2, <1>3, <1>4

\* Where the seals of a readable buffer begin.
LEMMA FirstSeal ==
  ASSUME NEW S, NEW buf \in Seq(S), Readable(buf)
  PROVE  PosSeals(buf) \in Nat /\ PosSeals(buf) + 1 \in 1 .. Len(buf)
<1>1. PICK a \in Nat, s \in Nat, k \in Nat, n \in Nat :
        /\ a = PosSeals(buf) /\ s = LenSeals(IsEncrypted(buf)) /\ k = LenNameOf(buf)
        /\ n = Len(buf) /\ a + s + k <= n
  <2>1. LenNameOf(buf) \in Nat
    BY Geometry, ByteRange
  <2> QED
    BY <2>1, Geometry
<1>2. s > 0
  BY <1>1, MessageAssumption DEF LenSeals
<1>3. a + 1 \in 1 .. n
  <2>1. a + s + k <= n
    BY <1>1
  <2> QED
    BY <1>2, <2>1
<1> QED
  BY <1>1, <1>3

LEMMA GenuineSign ==
  ASSUME NEW m \in MessageSpace, NEW key, NEW buf, Carried(buf, m, key), WellFormed(buf),
         NEW f, f = Fields(buf), NEW ck, ~f.encrypted, f.sign = Hmac(ck, RawBytes(f))
  PROVE  buf = CreateMessage(m, key) /\ ck = key
<1>1. PICK S : buf \in Seq(S) /\ ByteCell \subseteq S
  BY DEF Carried, SentCells, LooseCells
<1>2. Readable(buf)
  BY CarriedReadable
<1>3. PICK p \in Nat, j \in 1 .. Len(buf) : p = PosSeals(buf) /\ j = p + 1
  BY <1>1, <1>2, FirstSeal
<1>4. /\ Rejoined(buf, f.sign, f) = buf /\ f.sign \in Seq(S)
      /\ f.name \in Seq(S) /\ f.data \in Seq(S) /\ NameBytes(f.name) = f.name
      /\ f.sign[1] = buf[j]
  <2>1. 1 \in 1 .. LenSign
    BY MessageAssumption
  <2>2. /\ Rejoined(buf, f.sign, f) = buf /\ f.sign \in Seq(S)
        /\ f.name \in Seq(S) /\ f.data \in Seq(S) /\ NameBytes(f.name) = f.name
        /\ \A i \in 1 .. LenSign : f.sign[i] = buf[PosSeals(buf) + i]
    BY <1>1, <1>2, ReadFields
  <2> QED
    BY <1>3, <2>1, <2>2
<1>5. buf[j] = [mac |-> ck, of |-> RawBytes(f), at |-> 1]
  BY <1>4, MessageAssumption DEF Hmac
<1>6. /\ ~m.encrypted
      /\ buf[j] = [mac |-> key, of |-> RawBytes(m), at |-> j - LenHeader(m)]
  <2>1. "mac" \in DOMAIN buf[j]
    BY <1>5
  <2> QED
    BY <2>1, CarriedSeal
<1>7. ck = key /\ RawBytes(f) = RawBytes(m) /\ j - LenHeader(m) = 1
  BY <1>5, <1>6
<1>8. p = LenHeader(m)
  BY <1>3, <1>7, SizesOfMessage
<1>9. NameBytes(m.name) \in Seq(S) /\ m.data \in Seq(S)
  <2>1. m.name \in Seq(ByteCell) /\ m.data \in Seq(S)
    BY <1>1, SeqMonotonic DEF MessageSpace
  <2> QED
    BY <1>1, <2>1, NameProperties, SeqMonotonic
<1>10. Three(Header(f), f.name, f.data) = Three(Header(m), NameBytes(m.name), m.data)
  BY <1>4, <1>7 DEF RawBytes, Three
<1>11. PosSeals(buf) = LenHeader(m)
  BY <1>3, <1>8
<1>12. Cells(buf, 0, PosSeals(buf)) = Header(m)
       /\ Two(f.name, f.data) = Two(NameBytes(m.name), m.data)
  BY <1>1, <1>2, <1>4, <1>9, <1>10, <1>11, SameSigned, SMTT(30)
<1>13. Four(Header(m), f.sign, f.name, f.data)
         = Four(Header(m), f.sign, NameBytes(m.name), m.data)
  <2>1. Header(m) \in Seq(S)
    BY <1>1, HeaderOfMessage, SeqMonotonic
  <2> QED
    BY <1>4, <1>9, <1>12, <2>1, FourIs
<1>14. CreateMessage(m, key) = Four(Header(m), f.sign, NameBytes(m.name), m.data)
  <2>1. Seals(m, key) = f.sign /\ Body(m, key) = m.data
    BY <1>6, <1>7 DEF Seals, Body
  <2> QED
    BY <2>1, CreateMessageIs DEF Four
<1>15. buf = Four(Header(m), f.sign, f.name, f.data)
  BY <1>4, <1>12 DEF Rejoined, Four
<1> QED
  BY <1>7, <1>13, <1>14, <1>15

\* What was decrypted was sealed with that key.
LEMMA DecryptGenuine ==
  ASSUME NEW key, NEW data, NEW aad, NEW iv, NEW tag,
         Decrypt(key, data, aad, iv, tag) # {}
  PROVE  \E s : /\ s.key = key /\ s.aad = aad /\ s.iv = iv
                /\ tag = AuthenTag(s) /\ data = CipherText(s)
BY DEF Decrypt

LEMMA GenuineSealed ==
  ASSUME NEW m \in MessageSpace, NEW key, NEW buf, Carried(buf, m, key), WellFormed(buf),
         NEW f, f = Fields(buf), NEW ck, f.encrypted,
         Decrypt(ck, f.data, Aad(f), f.iv, f.authenTag) # {}
  PROVE  buf = CreateMessage(m, key) /\ ck = key
<1>1. PICK S : buf \in Seq(S) /\ ByteCell \subseteq S
  BY DEF Carried, SentCells, LooseCells
<1>2. Readable(buf)
  BY CarriedReadable
<1>3. PICK p \in Nat, j \in 1 .. Len(buf) : p = PosSeals(buf) /\ j = p + 1
  BY <1>1, <1>2, FirstSeal
<1>4. /\ Rejoined(buf, f.authenTag \o f.iv, f) = buf /\ f.name \in Seq(S)
      /\ NameBytes(f.name) = f.name /\ f.authenTag[1] = buf[j]
  <2>1. 1 \in 1 .. LenAuthenTag
    BY MessageAssumption
  <2>2. /\ Rejoined(buf, f.authenTag \o f.iv, f) = buf
        /\ f.name \in Seq(S) /\ NameBytes(f.name) = f.name
        /\ \A i \in 1 .. LenAuthenTag : f.authenTag[i] = buf[PosSeals(buf) + i]
    BY <1>1, <1>2, ReadFields
  <2> QED
    BY <1>3, <2>1, <2>2
<1>5. PICK s : /\ s.key = ck /\ s.aad = Aad(f) /\ s.iv = f.iv
               /\ f.authenTag = AuthenTag(s) /\ f.data = CipherText(s)
  BY DecryptGenuine
<1>6. buf[j] = [tag |-> s, at |-> 1]
  BY <1>4, <1>5, MessageAssumption DEF AuthenTag
<1>7. /\ m.encrypted
      /\ buf[j] = [tag |-> SealOf(m, key), at |-> j - LenHeader(m)]
  <2>1. "tag" \in DOMAIN buf[j]
    BY <1>6
  <2> QED
    BY <2>1, CarriedSeal
<1>8. s = SealOf(m, key) /\ j - LenHeader(m) = 1
  BY <1>6, <1>7
<1>9. PosSeals(buf) = LenHeader(m)
  BY <1>3, <1>8, SizesOfMessage
<1>10. /\ s.key = key /\ s.aad = Aad(m) /\ s.iv = RandomIV
  BY <1>8 DEF SealOf, Seal
<1>11. NameBytes(m.name) \in Seq(S)
  <2>1. m.name \in Seq(ByteCell)
    BY DEF MessageSpace
  <2> QED
    BY <1>1, <2>1, NameProperties, SeqMonotonic
<1>12. Two(Header(f), f.name) = Two(Header(m), NameBytes(m.name))
  BY <1>4, <1>5, <1>10 DEF Aad, Two
<1>13. Cells(buf, 0, PosSeals(buf)) = Header(m) /\ f.name = NameBytes(m.name)
  BY <1>1, <1>2, <1>4, <1>9, <1>11, <1>12, SameStart
<1>14. Seals(m, key) = f.authenTag \o f.iv /\ Body(m, key) = f.data
  BY <1>5, <1>7, <1>8, <1>10 DEF Seals, Body
<1> QED
  BY <1>4, <1>5, <1>10, <1>13, <1>14, CreateMessageIs DEF Rejoined

\* What the parser accepts, of a message and of noise in the places of any of its
\* cells, is the message itself, and the parser has the builder's key.
THEOREM Genuine ==
  ASSUME NEW m \in MessageSpace, NEW key, NEW buf, Carried(buf, m, key), NEW ck,
         ParseReceivedMessage(buf, ck) # Refused
  PROVE  buf = CreateMessage(m, key) /\ ck = key
<1>1. WellFormed(buf)
  BY DEF ParseReceivedMessage
<1>2. PICK f : f = Fields(buf)
  OBVIOUS
<1>3. CASE f.encrypted
  <2>1. Decrypt(ck, f.data, Aad(f), f.iv, f.authenTag) # {}
    BY <1>1, <1>2, <1>3 DEF ParseReceivedMessage
  <2> QED
    BY <1>1, <1>2, <1>3, <2>1, GenuineSealed
<1>4. CASE ~f.encrypted
  <2>1. f.sign = Hmac(ck, RawBytes(f))
    BY <1>1, <1>2, <1>4 DEF ParseReceivedMessage
  <2> QED
    BY <1>1, <1>2, <1>4, <2>1, GenuineSign
<1> QED
  BY <1>3, <1>4

-----------------------------------------------------------------------------
(***************************************************************************)
(* What the transport does to a message.                                   *)
(***************************************************************************)
LEMMA CarriedBuilt ==
  ASSUME NEW m, Buildable(m), NEW key, NEW x, x = CreateMessage(m, key)
  PROVE  /\ x \in Seq(BuiltCells(m, key)) /\ Len(x) + 1 < SizeSpace
         /\ WordSize + 2 <= Len(x)
         /\ \A i \in {WordSize + 1, WordSize + 2} : x[i] \in ByteCell
         /\ Carried(x, m, key)
<1>1. m \in MessageSpace
  BY DEF Buildable
<1>2. x \in Seq(BuiltCells(m, key))
  BY <1>1, CreateMessageProperties
<1>3. PICK n \in Nat : n = Len(x) /\ n + 1 < SizeSpace
  BY <1>2, CreateMessageFits
<1>4. PICK w \in Nat, h \in Nat : w = WordSize /\ h = LenHeader(m) /\ w + 2 <= h
  <2>1. WordSize \in Nat
    BY MessageAssumption
  <2>2. LenHeader(m) \in FixedLen .. FixedLen + WordSize
    BY <1>1, HeaderOfMessage
  <2> QED
    BY <2>1, <2>2 DEF FixedLen
<1>5. /\ h <= n
      /\ \A i \in 1 .. h : x[i] = Header(m)[i]
  <2>1. PICK s \in Nat, k \in Nat, d \in Nat :
          s = LenSeals(m.encrypted) /\ k = LenName(m.name) /\ d = Len(m.data)
    BY <1>1, SizesOfMessage
  <2>2. /\ Len(x) = LenHeader(m) + LenSeals(m.encrypted) + LenName(m.name) + Len(m.data)
        /\ \A i \in 1 .. LenHeader(m) : x[i] = Header(m)[i]
    BY <1>1, CreateMessageProperties, ZenonT(60)
  <2>3. n = h + s + k + d
    BY <1>3, <1>4, <2>1, <2>2
  <2>4. h <= n
    BY <2>3
  <2> QED
    BY <1>4, <2>2, <2>4
<1>6. Header(m) \in Seq(ByteCell) /\ Len(Header(m)) = h
  BY <1>1, <1>4, HeaderOfMessage
<1>7. \A i \in 1 .. h : x[i] \in ByteCell
  BY <1>5, <1>6
<1>8. w + 2 <= n /\ w + 1 \in 1 .. h /\ w + 2 \in 1 .. h
  BY <1>4, <1>5
<1>9. \A i \in {WordSize + 1, WordSize + 2} : x[i] \in ByteCell
  BY <1>4, <1>7, <1>8
<1>10. x \in Seq(SentCells(m, key))
  BY <1>2, SeqMonotonic DEF SentCells
<1>11. Carried(x, m, key)
  BY <1>3, <1>9, <1>10 DEF Carried, SizeSpace
<1> QED
  BY <1>2, <1>3, <1>4, <1>8, <1>9, <1>11

\* One cell is replaced by another.
Replaced(x, i, c) == [x EXCEPT ![i] = c]

LEMMA CarriedReplaced ==
  ASSUME NEW m, Buildable(m), NEW key, NEW x, x = CreateMessage(m, key),
         NEW i \in 1 .. Len(x), NEW c \in LooseCells, c # x[i],
         x[i] \in ByteCell => c \in ByteCell, NEW buf, buf = Replaced(x, i, c)
  PROVE  Carried(buf, m, key) /\ buf # x
<1>1. PICK S : S = SentCells(m, key) /\ x \in Seq(S) /\ c \in S
  <2>1. x \in Seq(SentCells(m, key))
    BY CarriedBuilt DEF Carried
  <2>2. c \in SentCells(m, key)
    BY DEF SentCells
  <2> QED
    BY <2>1, <2>2
<1>2. PICK n \in Nat : n = Len(x) /\ n < SizeSpace
  BY <1>1, CarriedBuilt DEF Carried
<1>3. buf \in Seq(S) /\ Len(buf) = n /\ \A j \in 1 .. n : buf[j] = IF j = i THEN c ELSE x[j]
  BY <1>1, <1>2 DEF Replaced
<1>4. buf # x
  BY <1>2, <1>3
<1>5. \A j \in 1 .. n : buf[j] \in LooseCells \/ (j <= n /\ buf[j] = x[j])
  BY <1>3
<1>6. \A j \in {WordSize + 1, WordSize + 2} : j <= n => buf[j] \in ByteCell
  <2>1. \A j \in {WordSize + 1, WordSize + 2} : j \in Nat /\ 1 <= j
    BY MessageAssumption
  <2>2. \A j \in {WordSize + 1, WordSize + 2} : x[j] \in ByteCell
    BY CarriedBuilt
  <2>3. ASSUME NEW j \in {WordSize + 1, WordSize + 2}, j <= n
        PROVE  buf[j] \in ByteCell
    <3>1. j \in 1 .. n
      BY <2>1, <2>3
    <3> QED
      BY <1>3, <2>2, <3>1
  <2> QED
    BY <2>3
<1> QED
  BY <1>1, <1>2, <1>3, <1>4, <1>5, <1>6 DEF Carried

LEMMA ChangedProperties ==
  ASSUME NEW m, NEW key, NEW c \in BuiltCells(m, key)
  PROVE  /\ Changed(c) \in LooseCells /\ Changed(c) # c
         /\ c \in ByteCell => Changed(c) \in ByteCell
<1>1. CASE "byte" \in DOMAIN c
  <2>1. PICK n \in 0 .. ByteSpace - 1 : c = [byte |-> n]
    BY <1>1, BuiltProperties DEF ByteCell
  <2>2. Changed(c) = [byte |-> (n + 1) % ByteSpace]
    BY <2>1 DEF Changed, Byte
  <2>3. (n + 1) % ByteSpace \in 0 .. ByteSpace - 1 /\ (n + 1) % ByteSpace # n
    BY DEF ByteSpace
  <2>4. Changed(c) \in ByteCell
    BY <2>2, <2>3 DEF ByteCell
  <2>5. Changed(c).byte # c.byte
    BY <2>1, <2>2, <2>3
  <2> QED
    BY <2>4, <2>5 DEF LooseCells
<1>2. CASE "byte" \notin DOMAIN c
  <2>1. Changed(c) = [noise |-> 0] /\ c \notin ByteCell
    BY <1>2 DEF Changed, ByteCell
  <2> QED
    BY <2>1, BuiltProperties DEF LooseCells
<1> QED
  BY <1>1, <1>2

LEMMA FlippedProperties ==
  ASSUME NEW n \in 0 .. ByteSpace - 1, NEW w \in Weights
  PROVE  Flipped(n, w) \in 0 .. ByteSpace - 1 /\ Flipped(n, w) # n
<1> DEFINE P(v) == Flipped(n, v) \in 0 .. ByteSpace - 1 /\ Flipped(n, v) # n
<1>1. P(1) /\ P(2)
  BY DEF Flipped, Bit, ByteSpace
<1>2. P(4) /\ P(8)
  BY DEF Flipped, Bit, ByteSpace
<1>3. P(16) /\ P(32)
  BY DEF Flipped, Bit, ByteSpace
<1>4. P(64) /\ P(128)
  BY DEF Flipped, Bit, ByteSpace
<1> HIDE DEF P
<1>5. P(w)
  BY <1>1, <1>2, <1>3, <1>4 DEF Weights
<1> QED
  BY <1>5 DEF P

\* Whatever happens, the message is another one.
WithChange(x, i) == [x EXCEPT ![i] = Changed(@)]

LEMMA CarriedChanged ==
  ASSUME NEW m, Buildable(m), NEW key, NEW x, x = CreateMessage(m, key),
         NEW i \in DOMAIN x, NEW buf, buf = WithChange(x, i)
  PROVE  Carried(buf, m, key) /\ buf # x
<1>1. x \in Seq(BuiltCells(m, key))
  BY CarriedBuilt
<1>2. i \in 1 .. Len(x) /\ x[i] \in BuiltCells(m, key)
  BY <1>1
<1>3. /\ Changed(x[i]) \in LooseCells /\ Changed(x[i]) # x[i]
      /\ x[i] \in ByteCell => Changed(x[i]) \in ByteCell
  BY <1>2, ChangedProperties
<1>4. buf = Replaced(x, i, Changed(x[i]))
  BY DEF Replaced, WithChange
<1> QED
  BY <1>2, <1>3, <1>4, CarriedReplaced

LEMMA CarriedFlags ==
  ASSUME NEW m, Buildable(m), NEW key, NEW x, x = CreateMessage(m, key),
         NEW c \in ByteCell, c # x[WordSize + 1],
         NEW buf, buf = Replaced(x, WordSize + 1, c)
  PROVE  Carried(buf, m, key) /\ buf # x
<1>1. PICK k \in Nat, l \in Nat : k = WordSize /\ l = Len(x) /\ k + 2 <= l
  <2>1. x \in Seq(BuiltCells(m, key)) /\ WordSize + 2 <= Len(x)
    BY CarriedBuilt
  <2>2. Len(x) \in Nat
    BY <2>1
  <2>3. WordSize \in Nat
    BY MessageAssumption
  <2> QED
    BY <2>1, <2>2, <2>3
<1>2. PICK j \in 1 .. Len(x) : j = WordSize + 1
  <2>1. k + 1 \in 1 .. l
    BY <1>1
  <2> QED
    BY <1>1, <2>1
<1>3. c \in LooseCells /\ c # x[j] /\ (x[j] \in ByteCell => c \in ByteCell)
  BY <1>2 DEF LooseCells
<1>4. buf = Replaced(x, j, c)
  BY <1>2
<1> QED
  BY <1>3, <1>4, CarriedReplaced

WithFlip(x, w) == [x EXCEPT ![WordSize + 1].byte = Flipped(@, w)]

LEMMA CarriedFlipped ==
  ASSUME NEW m, Buildable(m), NEW key, NEW x, x = CreateMessage(m, key),
         NEW w \in Weights, NEW buf, buf = WithFlip(x, w)
  PROVE  Carried(buf, m, key) /\ buf # x
<1>1. PICK n \in 0 .. ByteSpace - 1 : x[WordSize + 1] = [byte |-> n]
  <2>1. x[WordSize + 1] \in ByteCell
    BY CarriedBuilt
  <2> QED
    BY <2>1 DEF ByteCell
<1>2. PICK c \in ByteCell : c = [byte |-> Flipped(n, w)] /\ c # x[WordSize + 1]
  <2>1. Flipped(n, w) \in 0 .. ByteSpace - 1 /\ Flipped(n, w) # n
    BY FlippedProperties
  <2>2. [byte |-> Flipped(n, w)] \in ByteCell
    BY <2>1 DEF ByteCell
  <2>3. [byte |-> Flipped(n, w)].byte # x[WordSize + 1].byte
    BY <1>1, <2>1
  <2> QED
    BY <2>2, <2>3
<1>3. buf = Replaced(x, WordSize + 1, c)
  <2>1. buf = [x EXCEPT ![WordSize + 1] =
                 [x[WordSize + 1] EXCEPT !.byte = Flipped(x[WordSize + 1].byte, w)]]
    BY DEF WithFlip
  <2>2. [x[WordSize + 1] EXCEPT !.byte = Flipped(x[WordSize + 1].byte, w)] = c
    BY <1>1, <1>2
  <2> QED
    BY <2>1, <2>2 DEF Replaced
<1> QED
  BY <1>2, <1>3, CarriedFlags

LEMMA CarriedCut ==
  ASSUME NEW m, Buildable(m), NEW key, NEW x, x = CreateMessage(m, key),
         NEW n \in 0 .. Len(x) - 1, NEW buf, buf = SubSeq(x, 1, n)
  PROVE  Carried(buf, m, key) /\ buf # x
<1>1. PICK S : S = SentCells(m, key) /\ x \in Seq(S) /\ Len(x) < SizeSpace
  BY CarriedBuilt DEF Carried
<1>2. PICK l \in Nat : l = Len(x) /\ l < SizeSpace
  BY <1>1
<1>3. n \in Nat /\ n < l
  BY <1>2
<1>4. buf \in Seq(S) /\ Len(buf) = n /\ \A j \in 1 .. n : buf[j] = x[j]
  BY <1>1, <1>2, <1>3
<1>5. n < SizeSpace /\ \A j \in 1 .. n : j <= l
  BY <1>2, <1>3 DEF SizeSpace
<1>6. \A j \in {WordSize + 1, WordSize + 2} : j <= n => buf[j] \in ByteCell
  <2>1. \A j \in {WordSize + 1, WordSize + 2} : j \in Nat /\ 1 <= j
    BY MessageAssumption
  <2>2. \A j \in {WordSize + 1, WordSize + 2} : x[j] \in ByteCell
    BY CarriedBuilt
  <2>3. \A j \in {WordSize + 1, WordSize + 2} : j <= n => j \in 1 .. n
    BY <1>3, <2>1
  <2> QED
    BY <1>4, <2>2, <2>3
<1>7. buf # x
  BY <1>2, <1>3, <1>4
<1> QED
  BY <1>1, <1>2, <1>4, <1>5, <1>6, <1>7 DEF Carried

LEMMA CarriedMore ==
  ASSUME NEW m, Buildable(m), NEW key, NEW x, x = CreateMessage(m, key),
         NEW buf, buf = Append(x, Byte(0))
  PROVE  Carried(buf, m, key) /\ buf # x
<1>1. PICK c \in ByteCell : c = Byte(0)
  BY ByteProperties
<1>2. PICK S : S = SentCells(m, key) /\ x \in Seq(S) /\ c \in S
  <2>1. c \in SentCells(m, key)
    BY DEF SentCells, LooseCells
  <2>2. x \in Seq(SentCells(m, key))
    BY CarriedBuilt DEF Carried
  <2> QED
    BY <2>1, <2>2
<1>3. PICK l \in Nat : l = Len(x) /\ l + 1 < SizeSpace
  BY <1>2, CarriedBuilt
<1>4. buf = Append(x, c)
  BY <1>1
<1>5. /\ buf \in Seq(S) /\ Len(buf) = l + 1 /\ buf[l + 1] = c
      /\ \A j \in 1 .. l : buf[j] = x[j]
  BY <1>2, <1>3, <1>4
<1>6. buf # x
  BY <1>3, <1>5
<1>7. \A j \in 1 .. l + 1 : buf[j] \in LooseCells \/ (j <= l /\ buf[j] = x[j])
  BY <1>5 DEF LooseCells
<1>8. \A j \in {WordSize + 1, WordSize + 2} : buf[j] \in ByteCell
  <2>1. \A j \in {WordSize + 1, WordSize + 2} : x[j] \in ByteCell
    BY CarriedBuilt
  <2>2. \A j \in {WordSize + 1, WordSize + 2} : j \in 1 .. l
    BY <1>3, CarriedBuilt, MessageAssumption
  <2> QED
    BY <1>5, <2>1, <2>2
<1> QED
  BY <1>2, <1>3, <1>5, <1>6, <1>7, <1>8 DEF Carried

LEMMA Inside ==
  ASSUME NEW S, Outside \notin S, NEW q \in Seq(S)
  PROVE  Outside \notin {q[i] : i \in DOMAIN q}
OBVIOUS

LEMMA ZeroInside == Outside \notin {Zero[i] : i \in DOMAIN Zero}
<1> DEFINE rest[i \in 1 .. WordSize] == IF i = 1 THEN 0 ELSE rest[i - 1] \div ByteSpace
<1>1. Zero = [i \in 1 .. WordSize |-> Byte(rest[i])]
  BY DEF Zero, Bytes
<1> HIDE DEF rest
<1>2. \A i \in 1 .. WordSize : "byte" \in DOMAIN Zero[i]
  BY <1>1 DEF Byte
<1> QED
  BY <1>1, <1>2 DEF Outside

\* What is read of a message that was carried lies in it.
LEMMA CarriedInBounds ==
  ASSUME NEW m, NEW key, NEW buf, Carried(buf, m, key), WellFormed(buf), NEW f,
         f = Fields(buf)
  PROVE  \A cells \in {f.id, f.tag, f.authenTag, f.iv, f.sign, f.name, f.data} :
           Outside \notin {cells[i] : i \in DOMAIN cells}
<1>1. PICK S : buf \in Seq(S) /\ ByteCell \subseteq S /\ Outside \notin S
  <2>1. ByteCell \subseteq SentCells(m, key)
    BY DEF SentCells, LooseCells
  <2>2. Outside \notin SentCells(m, key)
    BY SentProperties
  <2> QED
    BY <2>1, <2>2 DEF Carried
<1>2. Readable(buf)
  BY CarriedReadable
<1>3. <<>> \in Seq(S)
  OBVIOUS
<1>4. f.tag \in Seq(S) \/ f.tag = Zero
  BY <1>1, <1>2, ReadFields
<1>5. f.id \in Seq(S) /\ f.name \in Seq(S) /\ f.data \in Seq(S)
  BY <1>1, <1>2, ReadFields
<1>6. f.authenTag \in Seq(S) /\ f.iv \in Seq(S) /\ f.sign \in Seq(S)
  <2>1. CASE f.encrypted
    <3>1. f.sign = <<>>
      BY <2>1 DEF Fields
    <3> QED
      BY <1>1, <1>2, <1>3, <2>1, <3>1, ReadFields
  <2>2. CASE ~f.encrypted
    <3>1. f.authenTag = <<>> /\ f.iv = <<>>
      BY <2>2 DEF Fields
    <3> QED
      BY <1>1, <1>2, <1>3, <2>2, <3>1, ReadFields
  <2> QED
    BY <2>1, <2>2
<1>7. SUFFICES ASSUME NEW q \in {f.id, f.tag, f.authenTag, f.iv, f.sign, f.name, f.data}
               PROVE  Outside \notin {q[i] : i \in DOMAIN q}
  OBVIOUS
<1>8. q \in Seq(S) \/ q = Zero
  BY <1>4, <1>5, <1>6
<1> QED
  BY <1>1, <1>8, Inside, ZeroInside

-----------------------------------------------------------------------------
(***************************************************************************)
(* The specification.                                                      *)
(***************************************************************************)
\* What Connector::listen makes of a genuine request.
AckFor(m) ==
  [id |-> m.id, tag |-> m.tag, type |-> 3, encrypted |-> FALSE, first |-> TRUE,
   last |-> TRUE, request |-> FALSE, name |-> NameBytes(m.name), data |-> <<>>]

Constants ==
  /\ asked \in Messages /\ builtWith \in Keys /\ checkedWith \in Keys
  /\ stage \in {"idle", "refused", "built", "received", "acknowledged", "answered"}
  /\ damage \in {"none", "change", "flip", "cut", "more"}

\* Nothing was sent yet.
AtRest ==
  stage \in {"idle", "refused"} => buffer = <<>> /\ damage = "none" /\ got = Refused

TooLong == stage = "refused" => ~NameFits(asked.name)

\* The message on its way: it is what was built until it is damaged.
OnItsWay ==
  stage \in {"built", "received"} =>
    /\ NameFits(asked.name)
    /\ Carried(buffer, asked, builtWith)
    /\ damage = "none" <=> buffer = CreateMessage(asked, builtWith)

Answering ==
  stage \in {"acknowledged", "answered"} =>
    /\ NameFits(asked.name)
    /\ buffer = CreateMessage(AckFor(asked), builtWith)

\* What the parser last returned.
Parsed ==
  /\ stage = "built" => got = Refused
  /\ stage = "received" => got = ParseReceivedMessage(buffer, checkedWith)
  /\ stage = "acknowledged" => got.ok = TRUE
  /\ stage = "answered" => got = ParseReceivedMessage(buffer, builtWith)

Inv == Constants /\ AtRest /\ TooLong /\ OnItsWay /\ Answering /\ Parsed

LEMMA AskedIsBuildable ==
  ASSUME asked \in Messages, NameFits(asked.name)
  PROVE  Buildable(asked) /\ Buildable(AckFor(asked))
<1>1. asked \in MessageSpace /\ Len(asked.data) + ByteSpace < SizeSpace
  BY MessageAssumption
<1>2. PICK name \in Seq(ByteCell) : name = asked.name
  BY <1>1 DEF MessageSpace
<1>3. NameBytes(name) \in Seq(ByteCell) /\ LenName(NameBytes(name)) = LenName(name)
  BY NameProperties
<1>4. asked.id \in Word /\ asked.tag \in Word
  BY <1>1 DEF MessageSpace
<1>5. AckFor(asked) \in MessageSpace
  BY <1>2, <1>3, <1>4 DEF AckFor, MessageSpace
<1>6. NameFits(AckFor(asked).name)
  BY <1>2, <1>3 DEF AckFor, NameFits
<1>7. Len(AckFor(asked).data) + ByteSpace < SizeSpace
  BY DEF AckFor, ByteSpace, SizeSpace
<1> QED
  BY <1>1, <1>5, <1>6, <1>7 DEF Buildable

LEMMA ParseResult ==
  ASSUME NEW buf, NEW key, NEW r, r = ParseReceivedMessage(buf, key)
  PROVE  r.ok \in BOOLEAN /\ (r.ok => r # Refused)
BY DEF ParseReceivedMessage, Refused

LEMMA InvInit == Init => Inv
BY DEF Init, Inv, Constants, AtRest, TooLong, OnItsWay, Answering, Parsed

LEMMA AcknowledgesGenuine ==
  ASSUME Inv, stage = "received", got.ok
  PROVE  /\ NameFits(asked.name) /\ asked \in Messages
         /\ buffer = CreateMessage(asked, builtWith) /\ checkedWith = builtWith
         /\ damage = "none"
         /\ got = ParseReceivedMessage(CreateMessage(asked, builtWith), builtWith)
<1>1. /\ asked \in Messages /\ NameFits(asked.name)
      /\ Carried(buffer, asked, builtWith)
      /\ damage = "none" <=> buffer = CreateMessage(asked, builtWith)
      /\ got = ParseReceivedMessage(buffer, checkedWith)
  BY DEF Inv, Constants, OnItsWay, Parsed
<1>2. asked \in MessageSpace
  BY <1>1, MessageAssumption
<1>3. ParseReceivedMessage(buffer, checkedWith) # Refused
  BY <1>1, ParseResult
<1>4. buffer = CreateMessage(asked, builtWith) /\ checkedWith = builtWith
  BY <1>1, <1>2, <1>3, Genuine
<1> QED
  BY <1>1, <1>4

LEMMA InvBuild == Inv /\ Build => Inv'
<1> SUFFICES ASSUME Inv, Build
             PROVE  Inv'
  OBVIOUS
<1>1. /\ stage = "idle" /\ asked' = asked /\ builtWith' = builtWith
      /\ damage' = damage /\ checkedWith' = checkedWith /\ got' = got
      /\ asked \in Messages /\ damage = "none" /\ got = Refused /\ buffer = <<>>
  BY DEF Inv, Constants, AtRest, Build
<1>2. Constants'
  BY <1>1 DEF Inv, Constants, Build
<1>3. CASE NameFits(asked.name)
  <2>1. stage' = "built" /\ buffer' = CreateMessage(asked, builtWith)
    BY <1>3 DEF Build
  <2>2. Carried(CreateMessage(asked, builtWith), asked, builtWith)
    BY <1>1, <1>3, AskedIsBuildable, CarriedBuilt
  <2>3. OnItsWay'
    BY <1>1, <1>3, <2>1, <2>2 DEF OnItsWay
  <2> QED
    BY <1>1, <1>2, <2>1, <2>3 DEF Inv, AtRest, TooLong, Answering, Parsed
<1>4. CASE ~NameFits(asked.name)
  <2>1. stage' = "refused" /\ buffer' = buffer
    BY <1>4 DEF Build
  <2> QED
    BY <1>1, <1>2, <1>4, <2>1 DEF Inv, AtRest, TooLong, OnItsWay, Answering, Parsed
<1> QED
  BY <1>3, <1>4

LEMMA InvDamage == Inv /\ Damage => Inv'
<1> SUFFICES ASSUME Inv, Damage
             PROVE  Inv'
  OBVIOUS
<1>1. /\ stage = "built" /\ damage = "none" /\ stage' = stage /\ asked' = asked
      /\ builtWith' = builtWith /\ checkedWith' = checkedWith /\ got' = got
  BY DEF Damage
<1>2. /\ asked \in Messages /\ NameFits(asked.name) /\ got = Refused
      /\ buffer = CreateMessage(asked, builtWith)
  BY <1>1 DEF Inv, Constants, OnItsWay, Parsed
<1>3. Buildable(asked)
  BY <1>2, AskedIsBuildable
<1>4. damage' \in {"change", "flip", "cut", "more"}
  BY DEF Damage
<1>5. Carried(buffer', asked, builtWith) /\ buffer' # buffer
  <2>1. CASE \E i \in DOMAIN buffer : buffer' = [buffer EXCEPT ![i] = Changed(@)]
    <3>1. PICK i \in DOMAIN buffer : buffer' = WithChange(buffer, i)
      BY <2>1 DEF WithChange
    <3> QED
      BY <1>2, <1>3, <3>1, CarriedChanged
  <2>2. CASE \E w \in Weights :
               buffer' = [buffer EXCEPT ![WordSize + 1].byte = Flipped(@, w)]
    <3>1. PICK w \in Weights : buffer' = WithFlip(buffer, w)
      BY <2>2 DEF WithFlip
    <3> QED
      BY <1>2, <1>3, <3>1, CarriedFlipped
  <2>3. CASE \E n \in 0 .. Len(buffer) - 1 : buffer' = SubSeq(buffer, 1, n)
    BY <1>2, <1>3, <2>3, CarriedCut
  <2>4. CASE buffer' = Append(buffer, Byte(0))
    BY <1>2, <1>3, <2>4, CarriedMore
  <2> QED
    BY <2>1, <2>2, <2>3, <2>4 DEF Damage
<1>6. Constants'
  BY <1>1, <1>4 DEF Inv, Constants
<1>7. OnItsWay'
  BY <1>1, <1>2, <1>4, <1>5 DEF OnItsWay
<1> QED
  BY <1>1, <1>2, <1>6, <1>7 DEF Inv, AtRest, TooLong, Answering, Parsed

LEMMA InvReceive == Inv /\ Receive => Inv'
<1> SUFFICES ASSUME Inv, Receive
             PROVE  Inv'
  OBVIOUS
<1>1. /\ stage = "built" /\ stage' = "received"
      /\ got' = ParseReceivedMessage(buffer, checkedWith)
      /\ asked' = asked /\ builtWith' = builtWith /\ buffer' = buffer
      /\ damage' = damage /\ checkedWith' = checkedWith
  BY DEF Receive
<1>2. Constants'
  BY <1>1 DEF Inv, Constants
<1>3. OnItsWay'
  BY <1>1 DEF Inv, OnItsWay
<1>4. Parsed'
  BY <1>1 DEF Parsed
<1> QED
  BY <1>1, <1>2, <1>3, <1>4 DEF Inv, AtRest, TooLong, Answering

LEMMA InvAcknowledge == Inv /\ Acknowledge => Inv'
<1> SUFFICES ASSUME Inv, Acknowledge
             PROVE  Inv'
  OBVIOUS
<1>1. /\ stage = "received" /\ got.ok /\ stage' = "acknowledged"
      /\ buffer' = CreateMessage(AckOf(got.msg), checkedWith)
      /\ asked' = asked /\ builtWith' = builtWith /\ damage' = damage
      /\ checkedWith' = checkedWith /\ got' = got
  BY DEF Acknowledge
<1>2. /\ NameFits(asked.name) /\ asked \in Messages /\ checkedWith = builtWith
      /\ got = ParseReceivedMessage(CreateMessage(asked, builtWith), builtWith)
  BY <1>1, AcknowledgesGenuine
<1>3. Buildable(asked)
  BY <1>2, AskedIsBuildable
<1>4. /\ got.ok = TRUE /\ got.msg.id = asked.id /\ got.msg.tag = asked.tag
      /\ got.msg.encrypted = FALSE /\ got.msg.name = NameBytes(asked.name)
  <2>1. ReadBack(got, asked)
    BY <1>2, <1>3, ParseOfBuilt
  <2> QED
    BY <2>1 DEF ReadBack
<1>5. AckOf(got.msg) = AckFor(asked)
  BY <1>4 DEF AckOf, AckFor, GetMessageType
<1>6. Constants'
  BY <1>1 DEF Inv, Constants
<1>7. Answering'
  BY <1>1, <1>2, <1>5 DEF Answering
<1>8. Parsed'
  BY <1>1, <1>4 DEF Parsed
<1> QED
  BY <1>1, <1>6, <1>7, <1>8 DEF Inv, AtRest, TooLong, OnItsWay

LEMMA InvHubReceives == Inv /\ HubReceives => Inv'
<1> SUFFICES ASSUME Inv, HubReceives
             PROVE  Inv'
  OBVIOUS
<1>1. /\ stage = "acknowledged" /\ stage' = "answered"
      /\ got' = ParseReceivedMessage(buffer, builtWith)
      /\ asked' = asked /\ builtWith' = builtWith /\ buffer' = buffer
      /\ damage' = damage /\ checkedWith' = checkedWith
  BY DEF HubReceives
<1>2. Constants'
  BY <1>1 DEF Inv, Constants
<1>3. Answering'
  BY <1>1 DEF Inv, Answering
<1>4. Parsed'
  BY <1>1 DEF Parsed
<1> QED
  BY <1>1, <1>2, <1>3, <1>4 DEF Inv, AtRest, TooLong, OnItsWay

LEMMA InvNext == Inv /\ [Next]_vars => Inv'
<1> SUFFICES ASSUME Inv, [Next]_vars
             PROVE  Inv'
  OBVIOUS
<1>1. CASE Build
  BY <1>1, InvBuild
<1>2. CASE Damage
  BY <1>2, InvDamage
<1>3. CASE Receive
  BY <1>3, InvReceive
<1>4. CASE Acknowledge
  BY <1>4, InvAcknowledge
<1>5. CASE HubReceives
  BY <1>5, InvHubReceives
<1>6. CASE UNCHANGED vars
  BY <1>6 DEF vars, Inv, Constants, AtRest, TooLong, OnItsWay, Answering, Parsed
<1> QED
  BY <1>1, <1>2, <1>3, <1>4, <1>5, <1>6 DEF Next

\* The invariant by stage: what the hub built is carried whole but for bytes and
\* noise, and what the parser read from it, or the acknowledgement, is the
\* message's own (message/parser.cpp, message/cipher.cpp).
THEOREM MessageInvariance == Spec => []Inv
<1>1. Init => Inv
  BY InvInit
<1>2. Inv /\ [Next]_vars => Inv'
  BY InvNext
<1> QED
  BY <1>1, <1>2, PTL DEF Spec

-----------------------------------------------------------------------------
(***************************************************************************)
(* What follows from it.                                                   *)
(***************************************************************************)
\* In every state the buffer holds what the transport makes of some message.
LEMMA BufferCarried ==
  ASSUME Inv
  PROVE  buffer = <<>> \/ \E m : Buildable(m) /\ Carried(buffer, m, builtWith)
<1>1. CASE stage \in {"idle", "refused"}
  BY <1>1 DEF Inv, AtRest
<1>2. CASE stage \in {"built", "received"}
  <2>1. asked \in Messages /\ NameFits(asked.name) /\ Carried(buffer, asked, builtWith)
    BY <1>2 DEF Inv, Constants, OnItsWay
  <2> QED
    BY <2>1, AskedIsBuildable
<1>3. CASE stage \in {"acknowledged", "answered"}
  <2>1. /\ asked \in Messages /\ NameFits(asked.name)
        /\ buffer = CreateMessage(AckFor(asked), builtWith)
    BY <1>3 DEF Inv, Constants, Answering
  <2>2. Buildable(AckFor(asked))
    BY <2>1, AskedIsBuildable
  <2>3. Carried(buffer, AckFor(asked), builtWith)
    BY <2>1, <2>2, CarriedBuilt
  <2> QED
    BY <2>2, <2>3
<1> QED
  BY <1>1, <1>2, <1>3 DEF Inv, Constants

\* The types of the state: a message never gets longer than its 16 bits, and what
\* is a byte in it stays one, whatever is done to it on its way.
THEOREM MessageTypeCorrect == Spec => []TypeOK
<1>1. ASSUME Inv
      PROVE  TypeOK
  <2>1. \/ buffer = <<>>
        \/ \E m : buffer \in Seq(SentCells(m, builtWith)) /\ Len(buffer) < SizeSpace
    BY <1>1, BufferCarried DEF Carried
  <2>2. Len(buffer) < SizeSpace
    BY <2>1 DEF SizeSpace
  <2>3. \A i \in DOMAIN buffer :
          "byte" \in DOMAIN buffer[i] => buffer[i].byte \in 0 .. ByteSpace - 1
    <3>1. CASE buffer = <<>>
      BY <3>1
    <3>2. ASSUME NEW m, buffer \in Seq(SentCells(m, builtWith)), NEW i \in DOMAIN buffer,
                 "byte" \in DOMAIN buffer[i]
          PROVE  buffer[i].byte \in 0 .. ByteSpace - 1
      <4>1. buffer[i] \in SentCells(m, builtWith)
        BY <3>2
      <4> QED
        BY <3>2, <4>1, SentProperties DEF ByteCell
    <3> QED
      BY <2>1, <3>1, <3>2
  <2>4. got.ok \in BOOLEAN
    <3>1. CASE stage \in {"idle", "refused", "built"}
      <4>1. got = Refused
        BY <1>1, <3>1 DEF Inv, AtRest, Parsed
      <4> QED
        BY <4>1 DEF Refused
    <3>2. CASE stage \in {"received", "answered"}
      BY <1>1, <3>2, ParseResult DEF Inv, Parsed
    <3>3. CASE stage = "acknowledged"
      BY <1>1, <3>3 DEF Inv, Parsed
    <3> QED
      BY <1>1, <3>1, <3>2, <3>3 DEF Inv, Constants
  <2> QED
    BY <1>1, <2>2, <2>3, <2>4 DEF TypeOK, Inv, Constants
<1> QED
  BY <1>1, MessageInvariance, PTL

\* What arrives as it was sent, at a parser with the key it was built with, is
\* taken apart into what createMessage was called with: for every layout, every
\* combination of flags and any data, and a name is refused by its length only.
THEOREM MessageRoundTrip == Spec => []RoundTrip
<1>1. ASSUME Inv
      PROVE  RoundTrip
  <2> SUFFICES ASSUME Len(asked.name) < ByteSpace
               PROVE  /\ stage = "refused" => Len(asked.name) \notin 1 .. MaxName
                      /\ stage = "received" /\ damage = "none" /\ checkedWith = builtWith
                           => got.ok /\ Same(got.msg, asked)
    BY DEF RoundTrip
  <2>1. asked \in Messages /\ asked \in MessageSpace
    BY <1>1, MessageAssumption DEF Inv, Constants
  <2>2. LenName(asked.name) = Len(asked.name) /\ NameBytes(asked.name) = asked.name
    <3>1. asked.name \in Seq(ByteCell)
      BY <2>1 DEF MessageSpace
    <3> QED
      BY <3>1, NameProperties
  <2>3. stage = "refused" => Len(asked.name) \notin 1 .. MaxName
    BY <1>1, <2>2 DEF Inv, TooLong, NameFits
  <2>4. ASSUME stage = "received", damage = "none", checkedWith = builtWith
        PROVE  got.ok /\ Same(got.msg, asked)
    <3>1. /\ NameFits(asked.name)
          /\ got = ParseReceivedMessage(CreateMessage(asked, builtWith), builtWith)
      BY <1>1, <2>4 DEF Inv, OnItsWay, Parsed
    <3>2. Buildable(asked)
      BY <2>1, <3>1, AskedIsBuildable
    <3>3. /\ got.ok = TRUE
          /\ got.msg.id = asked.id /\ got.msg.tag = asked.tag
          /\ got.msg.type = asked.type /\ got.msg.first = asked.first
          /\ got.msg.last = asked.last /\ got.msg.request = asked.request
          /\ got.msg.name = NameBytes(asked.name) /\ got.msg.data = asked.data
      <4>1. ReadBack(got, asked)
        BY <3>1, <3>2, ParseOfBuilt
      <4> QED
        BY <4>1 DEF ReadBack
    <3> QED
      BY <2>2, <3>3 DEF Same
  <2> QED
    BY <2>3, <2>4
<1> QED
  BY <1>1, MessageInvariance, PTL

\* What the parser accepts was built with its key and is what was built, to the
\* last byte: no change, cut or addition on the way is accepted, for every layout.
THEOREM MessageOnlyGenuine == Spec => []OnlyGenuine
<1>1. Inv => OnlyGenuine
  BY AcknowledgesGenuine DEF OnlyGenuine
<1> QED
  BY <1>1, MessageInvariance, PTL

\* parseBytes stays within what it was given, whatever the flags and lengths say.
THEOREM MessageInBounds == Spec => []InBounds
<1>1. ASSUME Inv
      PROVE  InBounds
  <2> SUFFICES ASSUME WellFormed(buffer)
               PROVE  \E m : Carried(buffer, m, builtWith)
    BY CarriedInBounds DEF InBounds
  <2>1. buffer # <<>>
    BY MessageAssumption DEF WellFormed, FixedLen
  <2> QED
    BY <1>1, <2>1, BufferCarried
<1> QED
  BY <1>1, MessageInvariance, PTL

\* The hub accepts the acknowledgement of a request, and finds in it the request's
\* id and tag; it is never encrypted.
THEOREM MessageAckAnswers == Spec => []AckAnswers
<1>1. ASSUME Inv
      PROVE  AckAnswers
  <2>1. ASSUME stage \in {"acknowledged", "answered"}
        PROVE  /\ Buildable(AckFor(asked))
               /\ buffer = CreateMessage(AckFor(asked), builtWith)
    <3>1. /\ asked \in Messages /\ NameFits(asked.name)
          /\ buffer = CreateMessage(AckFor(asked), builtWith)
      BY <1>1, <2>1 DEF Inv, Constants, Answering
    <3> QED
      BY <3>1, AskedIsBuildable
  <2>2. ASSUME stage = "acknowledged"
        PROVE  ~IsEncrypted(buffer)
    <3>1. IsEncrypted(buffer) <=> AckFor(asked).encrypted
      BY <2>1, <2>2, PositionsOfBuilt
    <3> QED
      BY <3>1 DEF AckFor
  <2>3. ASSUME stage = "answered"
        PROVE  /\ got.ok /\ ~got.msg.request
               /\ got.msg.id = asked.id /\ got.msg.tag = asked.tag
               /\ got.msg.data = <<>>
    <3>1. got = ParseReceivedMessage(CreateMessage(AckFor(asked), builtWith), builtWith)
      BY <1>1, <2>1, <2>3 DEF Inv, Parsed
    <3>2. /\ got.ok = TRUE /\ got.msg.request = AckFor(asked).request
          /\ got.msg.id = AckFor(asked).id /\ got.msg.tag = AckFor(asked).tag
          /\ got.msg.data = AckFor(asked).data
      <4>1. ReadBack(got, AckFor(asked))
        BY <2>1, <2>3, <3>1, ParseOfBuilt
      <4> QED
        BY <4>1 DEF ReadBack
    <3> QED
      BY <3>2 DEF AckFor
  <2> QED
    BY <2>2, <2>3 DEF AckAnswers
<1> QED
  BY <1>1, MessageInvariance, PTL
=============================================================================
