------------------------- MODULE Connection_proofs -------------------------
(***************************************************************************)
(* Proofs about Connection: the reassembly of frames, that the receive     *)
(* queue inside it behaves as ConcurrencyQueue says, and that sendMessage  *)
(* writes whole frames one after the other.                                *)
(***************************************************************************)
EXTENDS Connection, ConcurrencyQueue_proofs, WellFoundedInduction

-----------------------------------------------------------------------------
(***************************************************************************)
(* Frames.                                                                 *)
(***************************************************************************)
Sizes == 0 .. BufferSize

LEMMA SizesAreNumbers ==
  /\ BufferSize \in Nat /\ BufferSize >= 2 /\ Base \in Nat /\ Base >= 2 /\ HeaderSize = 2
  /\ FrameLengths \subseteq Sizes /\ Sizes \subseteq Nat /\ Offsets = 0 .. BufferSize - 1
BY ConnectionAssumption DEF Sizes, HeaderSize, Offsets

LEMMA Quotient ==
  ASSUME NEW n \in Nat
  PROVE  /\ n \div Base \in Nat /\ n % Base \in Nat
         /\ (n \div Base) * Base + (n % Base) = n
<1>1. \A b \in Nat \ {0} : n \div b \in Nat /\ n % b \in Nat /\ n % b = n - b * (n \div b)
  BY Z3
<1>2. Base \in Nat \ {0} /\ Base \in Nat
  BY SizesAreNumbers
<1>3. \A q \in Nat : \A r \in Nat : r = n - Base * q => q * Base + r = n
  BY <1>2
<1>. QED  BY <1>1, <1>2, <1>3, Zenon

LEMMA ByteFields ==
  ASSUME NEW f \in Nat, NEW a \in Nat, NEW n \in Nat
  PROVE  /\ Byte(f, a, n) \in Cells
         /\ Byte(f, a, n).of = f /\ Byte(f, a, n).at = a
<1>1. n \div Base \in Nat /\ n % Base \in Nat
  BY Quotient
<1>2. CASE a = 1
  BY <1>1, <1>2 DEF Byte, Cells
<1>3. CASE a = 2
  BY <1>1, <1>3 DEF Byte, Cells
<1>4. CASE a # 1 /\ a # 2
  BY <1>4 DEF Byte, Cells
<1>. QED  BY <1>2, <1>3, <1>4

LEMMA HeaderValues ==
  ASSUME NEW f \in Nat, NEW n \in Nat
  PROVE  Byte(f, 1, n).value = n % Base /\ Byte(f, 2, n).value = n \div Base
BY DEF Byte

LEMMA FrameFields ==
  ASSUME NEW f \in Nat, NEW n \in Nat
  PROVE  /\ Frame(f, n) \in Seq(Cells) /\ Len(Frame(f, n)) = n + 2
         /\ \A a \in 1 .. n + 2 : Frame(f, n)[a] = Byte(f, a, n)
BY ByteFields DEF Frame, HeaderSize

LEMMA FrameCells ==
  ASSUME NEW f \in Nat, NEW n \in Nat
  PROVE  \A a \in 1 .. n + 2 : Byte(f, a, n).of = f /\ Byte(f, a, n).at = a
BY ByteFields

LEMMA BodyFields ==
  ASSUME NEW f \in Nat, NEW n \in Nat
  PROVE  /\ Body(f, n) = [i \in 1 .. n |-> Byte(f, i + 2, n)]
         /\ Len(Body(f, n)) = n
         /\ n > 0 => Body(f, n)[1].of = f
<1>1. Body(f, n) = [i \in 1 .. n |-> Byte(f, i + 2, n)]
  <2>1. Body(f, n) = SubSeq(Frame(f, n), 3, n + 2)
    BY DEF Body, HeaderSize
  <2>2. SubSeq(Frame(f, n), 3, n + 2) = [i \in 1 .. (n + 2 - 3 + 1) |-> Frame(f, n)[i + 3 - 1]]
    OBVIOUS
  <2>3. n + 2 - 3 + 1 = n /\ \A i \in 1 .. n : i + 3 - 1 = i + 2 /\ i + 2 \in 1 .. n + 2
    OBVIOUS
  <2>4. Body(f, n) = [i \in 1 .. n |-> Frame(f, n)[i + 2]]
    BY <2>1, <2>2, <2>3
  <2>5. \A i \in 1 .. n : Frame(f, n)[i + 2] = Byte(f, i + 2, n)
    BY <2>3, FrameFields, Zenon
  <2>. QED  BY <2>4, <2>5, Zenon
<1>2. n > 0 => Byte(f, 1 + 2, n).of = f
  BY ByteFields
<1>. QED  BY <1>1, <1>2

-----------------------------------------------------------------------------
(***************************************************************************)
(* The bytes that the socket has to read are the rest of a frame and whole *)
(* frames after it.  Where a cell lies in its frame says which cells       *)
(* follow, and how many.                                                   *)
(***************************************************************************)
LengthOf(f) == sent[f].length
Genuine(c) ==
  /\ c.of \in 1 .. Len(sent) /\ c.at \in 1 .. LengthOf(c.of) + 2
  /\ c = Byte(c.of, c.at, LengthOf(c.of))
Rest(c) == LengthOf(c.of) + 2 - c.at

StreamInv ==
  /\ rx # <<>> => open
  /\ \A i \in 1 .. Len(rx) : Genuine(rx[i]) /\ Rest(rx[i]) <= Len(rx) - i
  /\ \A i, j \in 1 .. Len(rx) : i <= j =>
       IF j - i <= Rest(rx[i])
       THEN rx[j].of = rx[i].of /\ rx[j].at = rx[i].at + (j - i)
       ELSE rx[j].of > rx[i].of /\ (j - i = Rest(rx[i]) + 1 => rx[j].at = 1)

\* How much of a frame was read before the first byte of the buffer.
Skipped == IF header THEN 0 ELSE 2

\* The reader expects the byte that comes next, and has those before it.
ReaderInv ==
  /\ length \in Sizes /\ seek \in 0 .. length
  /\ open /\ ~listening /\ rx # <<>> => rx[1].at = 1
  /\ open /\ listening =>
       /\ header => length = 2 \/ length = 0
       /\ length # 0 => seek < length
       /\ rx = <<>> => header /\ seek = 0
       /\ rx # <<>> /\ length # 0 =>
            /\ rx[1].at = Skipped + seek + 1
            /\ ~header => length = LengthOf(rx[1].of)
            /\ \A o \in 0 .. seek - 1 :
                 bytes[o] = Byte(rx[1].of, Skipped + o + 1, LengthOf(rx[1].of))

\* What was pushed are whole frames, older than the one being read.
TakenInv ==
  \A k \in 1 .. Len(taken) : \E f \in 1 .. Len(sent) :
    /\ LengthOf(f) > 0 /\ IsBody(taken[k], f)
    /\ \A j \in 1 .. k - 1 : taken[j][1].of < f
    /\ rx # <<>> => f < rx[1].of

ConnTypes ==
  /\ open \in BOOLEAN /\ listening \in BOOLEAN /\ header \in BOOLEAN
  /\ rx \in Seq(Cells)
  /\ bytes \in [Offsets -> Cells]
  /\ session \in 0 .. MaxSessions /\ (open => session > 0)
  /\ sent \in Seq([session : 1 .. MaxSessions, length : FrameLengths])
  /\ Len(sent) <= MaxFrames
  /\ taken \in Seq(Seq(Cells))
  /\ unstored \subseteq 1 .. MaxFrames

FrameInv == ConnTypes /\ StreamInv /\ ReaderInv /\ TakenInv

LEMMA FrameTypes ==
  ASSUME ConnTypes
  PROVE  /\ Len(sent) \in Nat /\ Len(rx) \in Nat /\ Len(taken) \in Nat
         /\ \A f \in 1 .. Len(sent) : LengthOf(f) \in Sizes /\ LengthOf(f) \in Nat
         /\ \A c : Genuine(c) => /\ c.of \in Nat /\ c.at \in Nat /\ c.at >= 1
                                 /\ Rest(c) \in Nat /\ LengthOf(c.of) \in Nat /\ LengthOf(c.of) \in Sizes
<1>1. Len(sent) \in Nat /\ Len(rx) \in Nat /\ Len(taken) \in Nat
  BY DEF ConnTypes
<1>2. \A f \in 1 .. Len(sent) : LengthOf(f) \in Sizes /\ LengthOf(f) \in Nat
  <2>. SUFFICES ASSUME NEW f \in 1 .. Len(sent)  PROVE LengthOf(f) \in Sizes /\ LengthOf(f) \in Nat
    OBVIOUS
  <2>. DEFINE S == [session : 1 .. MaxSessions, length : FrameLengths]
  <2>1. sent[f] \in S
    <3>1. sent \in Seq(S)
      BY DEF ConnTypes
    <3>. HIDE DEF S
    <3>. QED  BY <3>1
  <2>. QED  BY <2>1, SizesAreNumbers DEF LengthOf
<1>. QED  BY <1>1, <1>2 DEF Genuine, Rest

LEMMA StreamCell ==
  ASSUME FrameInv, NEW i \in 1 .. Len(rx)
  PROVE  /\ Genuine(rx[i]) /\ Rest(rx[i]) \in Nat /\ Rest(rx[i]) <= Len(rx) - i
         /\ rx[i].of \in 1 .. Len(sent) /\ rx[i].of \in Nat
         /\ LengthOf(rx[i].of) \in Nat /\ LengthOf(rx[i].of) \in Sizes
<1>1. Genuine(rx[i]) /\ Rest(rx[i]) <= Len(rx) - i
  BY DEF FrameInv, StreamInv
<1>2. ConnTypes
  BY DEF FrameInv
<1>3. rx[i].of \in 1 .. Len(sent)
  BY <1>1 DEF Genuine
<1>. QED  BY <1>1, <1>2, <1>3, FrameTypes, Zenon

LEMMA InitFrameInv == ConnectionInit => FrameInv
<1>. SUFFICES ASSUME ConnectionInit  PROVE FrameInv
  OBVIOUS
<1>1. Garbage \in Cells
  BY DEF Garbage, Cells
<1>0. \A S : <<>> \in Seq(S) /\ Len(<<>>) = 0
  OBVIOUS
<1>2. ConnTypes
  <2>1. bytes \in [Offsets -> Cells]
    BY <1>1 DEF ConnectionInit
  <2>2. rx \in Seq(Cells) /\ taken \in Seq(Seq(Cells)) /\ Len(sent) = 0
        /\ sent \in Seq([session : 1 .. MaxSessions, length : FrameLengths])
    BY <1>0 DEF ConnectionInit
  <2>3. Len(sent) <= MaxFrames /\ session \in 0 .. MaxSessions
    BY <2>2, ConnectionAssumption DEF ConnectionInit
  <2>4. open = FALSE /\ listening = FALSE /\ header = TRUE /\ unstored = {}
    BY DEF ConnectionInit
  <2>. QED  BY <2>1, <2>2, <2>3, <2>4 DEF ConnTypes
<1>3. Len(rx) = 0 /\ Len(taken) = 0 /\ ~open
  BY DEF ConnectionInit
<1>4. ReaderInv
  BY <1>3, SizesAreNumbers DEF ConnectionInit, ReaderInv, Sizes
<1>. QED  BY <1>2, <1>3, <1>4 DEF FrameInv, StreamInv, TakenInv, ConnectionInit

-----------------------------------------------------------------------------
(***************************************************************************)
(* The steps of the reader.                                                *)
(***************************************************************************)
\* What one readBytes does to socket and buffer.
LEMMA ReadChunk ==
  ASSUME FrameInv, NEW k \in 1 .. BufferSize, ReadBytes(k)
  PROVE  /\ open /\ listening /\ rx # <<>> /\ length # 0 /\ seek + k <= length /\ k <= Len(rx)
         /\ Len(rx') = Len(rx) - k /\ rx' \in Seq(Cells)
         /\ \A i \in 1 .. Len(rx') : rx'[i] = rx[i + k]
         /\ \A o \in 0 .. seek + k - 1 :
              bytes'[o] = Byte(rx[1].of, Skipped + o + 1, LengthOf(rx[1].of))
         /\ bytes' \in [Offsets -> Cells]
         /\ rx' # <<>> =>
              IF k <= Rest(rx[1])
              THEN rx'[1].of = rx[1].of /\ rx'[1].at = rx[1].at + k
              ELSE rx'[1].of > rx[1].of /\ (k = Rest(rx[1]) + 1 => rx'[1].at = 1)
<1>1. /\ Len(rx) \in Nat /\ k <= Len(rx) /\ k <= length - seek
      /\ length \in Nat /\ seek \in 0 .. length /\ length <= BufferSize
      /\ listening /\ k \in Nat /\ k >= 1
  BY FrameTypes, SizesAreNumbers DEF FrameInv, ReadBytes, Ready, ReaderInv, Sizes
<1>2. rx # <<>> /\ open /\ length # 0 /\ seek + k <= length
  BY <1>1 DEF FrameInv, StreamInv
<1>3. /\ Len(rx') = Len(rx) - k /\ rx' \in Seq(Cells)
      /\ \A i \in 1 .. Len(rx') : rx'[i] = rx[i + k]
  BY <1>1 DEF ReadBytes, FrameInv, ConnTypes
<1>4. /\ Genuine(rx[1]) /\ rx[1].at = Skipped + seek + 1
      /\ ~header => length = LengthOf(rx[1].of)
      /\ header => length = 2
      /\ \A o \in 0 .. seek - 1 : bytes[o] = Byte(rx[1].of, Skipped + o + 1, LengthOf(rx[1].of))
  BY <1>1, <1>2 DEF FrameInv, StreamInv, ReaderInv
<1>5. rx[1].of \in Nat /\ rx[1].at \in Nat /\ LengthOf(rx[1].of) \in Nat
      /\ Rest(rx[1]) \in Nat /\ Rest(rx[1]) = LengthOf(rx[1].of) + 2 - rx[1].at
  BY <1>4, FrameTypes DEF FrameInv, Rest
<1>6. seek + k <= length /\ Rest(rx[1]) >= k - 1
  BY <1>1, <1>4, <1>5 DEF Skipped
<1>7. \A j \in 1 .. k : rx[j] = Byte(rx[1].of, Skipped + seek + j, LengthOf(rx[1].of))
  <2>. SUFFICES ASSUME NEW j \in 1 .. k
                PROVE  rx[j] = Byte(rx[1].of, Skipped + seek + j, LengthOf(rx[1].of))
    OBVIOUS
  <2>1. j \in 1 .. Len(rx) /\ 1 \in 1 .. Len(rx) /\ 1 <= j /\ j - 1 <= Rest(rx[1])
    BY <1>1, <1>5, <1>6
  <2>2. rx[j].of = rx[1].of /\ rx[j].at = rx[1].at + (j - 1) /\ Genuine(rx[j])
    BY <2>1 DEF FrameInv, StreamInv
  <2>3. rx[1].at + (j - 1) = Skipped + seek + j
    BY <1>1, <1>4, <1>5 DEF Skipped
  <2>. QED  BY <2>2, <2>3 DEF Genuine
<1>8. \A o \in 0 .. seek + k - 1 :
        bytes'[o] = Byte(rx[1].of, Skipped + o + 1, LengthOf(rx[1].of))
  <2>. SUFFICES ASSUME NEW o \in 0 .. seek + k - 1
                PROVE  bytes'[o] = Byte(rx[1].of, Skipped + o + 1, LengthOf(rx[1].of))
    OBVIOUS
  <2>1. o \in Offsets
    BY <1>1, SizesAreNumbers
  <2>2. CASE o < seek
    <3>1. bytes'[o] = bytes[o]
      BY <2>1, <2>2, <1>1 DEF ReadBytes, Gathered
    <3>. QED  BY <3>1, <2>2, <1>1, <1>4
  <2>3. CASE o >= seek
    <3>1. bytes'[o] = rx[o - seek + 1] /\ o - seek + 1 \in 1 .. k
      BY <2>1, <2>3, <1>1 DEF ReadBytes, Gathered
    <3>2. Skipped + seek + (o - seek + 1) = Skipped + o + 1
      BY <1>1 DEF Skipped
    <3>. QED  BY <3>1, <3>2, <1>7
  <2>. QED  BY <2>2, <2>3, <1>1
<1>9. bytes' \in [Offsets -> Cells]
  <2>1. \A o \in Offsets : seek <= o /\ o < seek + k => rx[o - seek + 1] \in Cells
    BY <1>1, SizesAreNumbers DEF FrameInv, ConnTypes
  <2>. QED  BY <2>1 DEF ReadBytes, Gathered, FrameInv, ConnTypes
<1>10. rx' # <<>> =>
         IF k <= Rest(rx[1])
         THEN rx'[1].of = rx[1].of /\ rx'[1].at = rx[1].at + k
         ELSE rx'[1].of > rx[1].of /\ (k = Rest(rx[1]) + 1 => rx'[1].at = 1)
  <2>. SUFFICES ASSUME rx' # <<>>
                PROVE  IF k <= Rest(rx[1])
                       THEN rx'[1].of = rx[1].of /\ rx'[1].at = rx[1].at + k
                       ELSE rx'[1].of > rx[1].of /\ (k = Rest(rx[1]) + 1 => rx'[1].at = 1)
    OBVIOUS
  <2>1. rx'[1] = rx[k + 1] /\ k + 1 \in 1 .. Len(rx) /\ 1 \in 1 .. Len(rx)
    BY <1>1, <1>3
  <2>2. (k + 1) - 1 = k /\ 1 <= k + 1
    BY <1>1
  <2>. QED  BY <2>1, <2>2 DEF FrameInv, StreamInv
<1>. QED  BY <1>1, <1>2, <1>3, <1>8, <1>9, <1>10

\* What is left in the socket is still the rest of a frame and whole frames.
LEMMA ReadStream ==
  ASSUME FrameInv, NEW k \in 1 .. BufferSize, ReadBytes(k)
  PROVE  StreamInv'
<1>1. /\ k \in Nat /\ k <= Len(rx) /\ Len(rx) \in Nat
      /\ Len(rx') = Len(rx) - k /\ rx' \in Seq(Cells)
      /\ \A i \in 1 .. Len(rx') : rx'[i] = rx[i + k] /\ i + k \in 1 .. Len(rx)
      /\ open' /\ sent' = sent
  BY ReadChunk, FrameTypes DEF FrameInv, ReadBytes
<1>2. \A i \in 1 .. Len(rx') : Genuine(rx[i])' /\ Rest(rx[i])' = Rest(rx[i + k])
  <2>. SUFFICES ASSUME NEW i \in 1 .. Len(rx')
                PROVE  Genuine(rx[i])' /\ Rest(rx[i])' = Rest(rx[i + k])
    OBVIOUS
  <2>1. Genuine(rx[i + k]) /\ rx'[i] = rx[i + k]
    BY <1>1 DEF FrameInv, StreamInv
  <2>. QED  BY <2>1, <1>1 DEF Genuine, Rest, LengthOf
<1>3. \A i \in 1 .. Len(rx') : Rest(rx[i])' <= Len(rx') - i
  <2>. SUFFICES ASSUME NEW i \in 1 .. Len(rx')  PROVE Rest(rx[i])' <= Len(rx') - i
    OBVIOUS
  <2>1. Rest(rx[i + k]) <= Len(rx) - (i + k) /\ Genuine(rx[i + k])
    BY <1>1 DEF FrameInv, StreamInv
  <2>2. Rest(rx[i + k]) \in Nat
    BY <2>1, FrameTypes DEF FrameInv
  <2>. QED  BY <1>1, <1>2, <2>1, <2>2
<1>4. ASSUME NEW i \in 1 .. Len(rx'), NEW j \in 1 .. Len(rx'), i <= j
      PROVE  IF j - i <= Rest(rx[i])'
             THEN rx'[j].of = rx'[i].of /\ rx'[j].at = rx'[i].at + (j - i)
             ELSE rx'[j].of > rx'[i].of /\ (j - i = Rest(rx[i])' + 1 => rx'[j].at = 1)
  <2>1. /\ i + k \in 1 .. Len(rx) /\ j + k \in 1 .. Len(rx) /\ i + k <= j + k
        /\ (j + k) - (i + k) = j - i
    BY <1>1, <1>4
  <2>2. rx'[i] = rx[i + k] /\ rx'[j] = rx[j + k] /\ Rest(rx[i])' = Rest(rx[i + k])
    BY <1>1, <1>2
  <2>. QED  BY <2>1, <2>2 DEF FrameInv, StreamInv
<1>. QED  BY <1>1, <1>2, <1>3, <1>4 DEF StreamInv

\* What was pushed stays older than the frame that is read.
LEMMA TakenKept ==
  ASSUME FrameInv, UNCHANGED <<taken, sent>>,
         rx' # <<>> => rx # <<>> /\ rx'[1].of >= rx[1].of
               /\ rx'[1].of \in Nat /\ rx[1].of \in Nat
  PROVE  TakenInv'
<1>. SUFFICES ASSUME NEW k \in 1 .. Len(taken)
              PROVE  \E f \in 1 .. Len(sent) :
                       /\ LengthOf(f)' > 0 /\ IsBody(taken[k], f)'
                       /\ \A j \in 1 .. k - 1 : taken'[j][1].of < f
                       /\ rx' # <<>> => f < rx'[1].of
  BY DEF TakenInv
<1>1. PICK f \in 1 .. Len(sent) :
        /\ LengthOf(f) > 0 /\ IsBody(taken[k], f)
        /\ \A j \in 1 .. k - 1 : taken[j][1].of < f
        /\ rx # <<>> => f < rx[1].of
  BY DEF FrameInv, TakenInv
<1>2. f \in Nat
  BY FrameTypes DEF FrameInv
<1>3. rx' # <<>> => f < rx'[1].of
  BY <1>1, <1>2
<1>4. LengthOf(f)' > 0 /\ IsBody(taken[k], f)'
  BY <1>1 DEF LengthOf, IsBody
<1>. QED  BY <1>1, <1>3, <1>4

\* The first unread byte, after a chunk that ends inside, or with, its frame.
LEMMA Advanced ==
  ASSUME FrameInv, NEW k \in 1 .. BufferSize, ReadBytes(k)
  PROVE  /\ rx[1].of \in 1 .. Len(sent) /\ rx[1].of \in Nat /\ LengthOf(rx[1].of) \in Nat
         /\ LengthOf(rx[1].of) \in Sizes /\ k \in Nat
         /\ k <= Rest(rx[1]) => rx' # <<>> /\ rx'[1].of = rx[1].of /\ rx'[1].at = rx[1].at + k
         /\ k = Rest(rx[1]) + 1 => (rx' # <<>> => rx'[1].of > rx[1].of /\ rx'[1].at = 1)
         /\ rx' # <<>> => rx'[1].of >= rx[1].of /\ rx'[1].of \in Nat
         /\ rx[1].at = Skipped + seek + 1 /\ Rest(rx[1]) = LengthOf(rx[1].of) + 2 - rx[1].at
         /\ ~header => length = LengthOf(rx[1].of)
         /\ header => length = 2
         /\ seek \in Nat /\ length \in Nat
<1>1. Len(rx) \in Nat /\ rx # <<>> /\ 1 \in 1 .. Len(rx) /\ open /\ listening /\ length # 0
  BY ReadChunk, FrameTypes DEF FrameInv
<1>2. Genuine(rx[1]) /\ Rest(rx[1]) <= Len(rx) - 1
  BY <1>1 DEF FrameInv, StreamInv
<1>3. /\ rx[1].of \in 1 .. Len(sent) /\ rx[1].of \in Nat /\ LengthOf(rx[1].of) \in Nat
      /\ LengthOf(rx[1].of) \in Sizes /\ Rest(rx[1]) \in Nat /\ k \in Nat
  BY <1>1, StreamCell
<1>4. k <= Rest(rx[1]) => rx' # <<>> /\ rx'[1].of = rx[1].of /\ rx'[1].at = rx[1].at + k
  <2>1. k <= Rest(rx[1]) => Len(rx') >= 1 /\ rx' # <<>>
    BY <1>1, <1>2, <1>3, ReadChunk
  <2>. QED  BY <2>1, ReadChunk
<1>5. k = Rest(rx[1]) + 1 => (rx' # <<>> => rx'[1].of > rx[1].of /\ rx'[1].at = 1)
  BY <1>3, ReadChunk
<1>6. rx' # <<>> => rx'[1].of >= rx[1].of /\ rx'[1].of \in Nat
  <2>. SUFFICES ASSUME rx' # <<>>  PROVE rx'[1].of >= rx[1].of /\ rx'[1].of \in Nat
    OBVIOUS
  <2>1. Len(rx') \in Nat /\ 1 \in 1 .. Len(rx')
    BY ReadChunk
  <2>2. rx'[1].of \in Nat
    <3>1. Genuine(rx[1])'
      BY <2>1, ReadStream DEF StreamInv
    <3>2. Len(sent)' \in Nat
      BY FrameTypes DEF ReadBytes, FrameInv
    <3>. QED  BY <3>1, <3>2 DEF Genuine
  <2>. QED  BY <2>2, <1>3, ReadChunk
<1>7. /\ rx[1].at = Skipped + seek + 1 /\ (~header => length = LengthOf(rx[1].of))
      /\ header => length = 2
  BY <1>1 DEF FrameInv, ReaderInv
<1>8. seek \in Nat /\ length \in Nat
  BY SizesAreNumbers DEF FrameInv, ReaderInv
<1>. QED  BY <1>3, <1>4, <1>5, <1>6, <1>7, <1>8 DEF Rest

LEMMA ReadPartFrames ==
  ASSUME FrameInv, NEW k \in 1 .. BufferSize, ReadPart(k)
  PROVE  FrameInv'
<1>1. /\ ReadBytes(k) /\ seek + k < length /\ seek' = seek + k
      /\ UNCHANGED <<listening, header, length, taken, unstored, open, session, sent>>
  BY DEF ReadPart, ReadBytes
<1>2. ConnTypes' /\ StreamInv'
  BY <1>1, ReadChunk, ReadStream DEF FrameInv, ConnTypes
<1>3. TakenInv'
  BY <1>1, Advanced, TakenKept, ReadChunk
<1>4. k <= Rest(rx[1])
  BY <1>1, Advanced DEF Skipped
<1>5. rx' # <<>> /\ rx'[1].of = rx[1].of /\ rx'[1].at = rx[1].at + k
  BY <1>1, <1>4, Advanced
<1>6. ReaderInv'
  <2>1. length' \in Sizes /\ seek' \in 0 .. length' /\ seek' < length' /\ open' /\ listening'
    BY <1>1, Advanced, ReadChunk DEF FrameInv, ReaderInv
  <2>2. rx'[1].at = Skipped' + seek' + 1 /\ (header' => length' = 2)
        /\ (~header' => length' = LengthOf(rx[1].of)')
    <3>1. Skipped' = Skipped /\ Skipped \in Nat
      BY <1>1 DEF Skipped
    <3>2. rx'[1].at = Skipped' + seek' + 1
      <4>1. rx[1].at = Skipped + seek + 1 /\ seek \in Nat /\ k \in Nat
        BY <1>1, Advanced
      <4>. QED  BY <4>1, <3>1, <1>1, <1>5
    <3>3. LengthOf(rx[1].of)' = LengthOf(rx[1].of)
      BY <1>1, <1>5 DEF LengthOf
    <3>. QED  BY <3>2, <3>3, <1>1, Advanced
  <2>3. \A o \in 0 .. seek' - 1 :
          bytes'[o] = Byte(rx'[1].of, Skipped' + o + 1, sent'[rx'[1].of].length)
    <3>1. \A o \in 0 .. seek + k - 1 :
            bytes'[o] = Byte(rx[1].of, Skipped + o + 1, LengthOf(rx[1].of))
      BY <1>1, ReadChunk
    <3>2. Skipped' = Skipped /\ sent'[rx'[1].of].length = LengthOf(rx[1].of)
      BY <1>1, <1>5 DEF Skipped, LengthOf
    <3>3. rx'[1].of = rx[1].of /\ seek' = seek + k
      BY <1>1, <1>5
    <3>4. LengthOf(rx[1].of) = sent'[rx'[1].of].length /\ (0 .. seek' - 1) = (0 .. seek + k - 1)
      <4>1. LengthOf(rx[1].of) = sent'[rx'[1].of].length
        BY <3>2, Zenon
      <4>2. (0 .. seek' - 1) = (0 .. seek + k - 1)
        <5>1. seek' - 1 = seek + k - 1
          BY <3>3, <1>1, Advanced
        <5>. QED  BY <5>1
      <4>. QED  BY <4>1, <4>2, Zenon
    <3>. SUFFICES ASSUME NEW o \in 0 .. seek + k - 1
                  PROVE  bytes'[o] = Byte(rx'[1].of, Skipped' + o + 1, sent'[rx'[1].of].length)
      BY <3>4
    <3>5. bytes'[o] = Byte(rx[1].of, Skipped + o + 1, LengthOf(rx[1].of))
      BY <3>1
    <3>. QED  BY <3>2, <3>3, <3>4, <3>5
  <2>. QED  BY <2>1, <2>2, <2>3, <1>5 DEF ReaderInv, LengthOf
<1>. QED  BY <1>2, <1>3, <1>6 DEF FrameInv

LEMMA ReadHeaderFrames ==
  ASSUME FrameInv, NEW k \in 1 .. BufferSize, ReadHeader(k)
  PROVE  FrameInv'
<1>0. PICK f \in Nat, n \in Nat : f = rx[1].of /\ n = LengthOf(rx[1].of)
  BY Advanced DEF ReadHeader
<1>1. /\ ReadBytes(k) /\ header /\ seek + k = length /\ seek' = 0
      /\ length' = LengthRead /\ header' = (length' = 0)
      /\ UNCHANGED <<listening, taken, unstored, open, session, sent>>
  BY DEF ReadHeader, ReadBytes
<1>2. ConnTypes' /\ StreamInv'
  <2>1. header' \in BOOLEAN
    BY <1>1
  <2>. QED  BY <1>1, <2>1, ReadChunk, ReadStream DEF FrameInv, ConnTypes
<1>3. TakenInv'
  BY <1>1, Advanced, TakenKept, ReadChunk
<1>4. /\ f \in Nat /\ n \in Nat /\ n \in Sizes /\ k \in Nat /\ seek \in Nat
      /\ length = 2 /\ rx[1].at = seek + 1 /\ Rest(rx[1]) = n + 1 - seek
  BY <1>0, <1>1, Advanced DEF Skipped
<1>5. length' = n
  <2>1. bytes'[0] = Byte(f, 0 + 0 + 1, n) /\ bytes'[1] = Byte(f, 0 + 1 + 1, n)
    BY <1>0, <1>1, <1>4, ReadChunk DEF Skipped
  <2>2. bytes'[0].value = n % Base /\ bytes'[1].value = n \div Base
    <3>1. 0 + 0 + 1 = 1 /\ 0 + 1 + 1 = 2
      OBVIOUS
    <3>2. Byte(f, 1, n).value = n % Base /\ Byte(f, 2, n).value = n \div Base
      BY HeaderValues
    <3>. QED  BY <2>1, <3>1, <3>2
  <2>3. (n \div Base) * Base + (n % Base) = n
    BY <1>4, Quotient
  <2>. QED  BY <1>1, <2>2, <2>3 DEF LengthRead
<1>6. n # 0 => rx' # <<>> /\ rx'[1].of = f /\ rx'[1].at = 3
  BY <1>0, <1>1, <1>4, Advanced
<1>7. ReaderInv'
  <2>1. length' \in Sizes /\ seek' \in 0 .. length' /\ open' /\ listening'
    BY <1>1, <1>4, <1>5, ReadChunk
  <2>2. CASE n = 0
    BY <2>1, <2>2, <1>1, <1>5 DEF ReaderInv
  <2>3. CASE n # 0
    <3>1. ~header' /\ Skipped' = 2
      BY <2>3, <1>1, <1>5 DEF Skipped
    <3>2. length' = LengthOf(rx[1].of)' /\ seek' < length'
      BY <2>3, <1>0, <1>1, <1>4, <1>5, <1>6 DEF LengthOf
    <3>. QED  BY <2>1, <2>3, <3>1, <3>2, <1>1, <1>6 DEF ReaderInv
  <2>. QED  BY <2>2, <2>3
<1>. QED  BY <1>2, <1>3, <1>7 DEF FrameInv

LEMMA ReadBodyFrames ==
  ASSUME FrameInv, NEW k \in 1 .. BufferSize, ReadBody(k) \/ CopyFails(k)
  PROVE  FrameInv'
<1>0. PICK f \in Nat, n \in Nat : f = rx[1].of /\ n = LengthOf(rx[1].of)
  BY Advanced DEF ReadBody, CopyFails
<1>. DEFINE m == [i \in 1 .. length |-> bytes'[i - 1]]
<1>1. /\ ReadBytes(k) /\ ~header /\ seek + k = length
      /\ UNCHANGED <<open, session, sent>>
  BY DEF ReadBody, CopyFails, ReadBytes
<1>2. /\ f \in 1 .. Len(sent) /\ k \in Nat /\ seek \in Nat
      /\ length = n /\ rx[1].at = seek + 3 /\ k = Rest(rx[1]) + 1 /\ n > 0
  <2>1. /\ f \in 1 .. Len(sent) /\ k \in Nat /\ seek \in Nat /\ length = n
        /\ rx[1].at = Skipped + seek + 1 /\ Rest(rx[1]) = n + 2 - rx[1].at
    BY <1>0, <1>1, Advanced
  <2>2. Skipped = 2
    BY <1>1 DEF Skipped
  <2>3. length # 0
    BY <1>1, ReadChunk
  <2>. QED  BY <2>1, <2>2, <2>3, <1>1
<1>3. rx' # <<>> => rx'[1].of > f /\ rx'[1].at = 1 /\ rx'[1].of \in Nat
  BY <1>0, <1>1, <1>2, Advanced
<1>4. \A o \in 0 .. n - 1 : bytes'[o] = Byte(f, o + 3, n) /\ Byte(f, o + 3, n) \in Cells
  <2>. SUFFICES ASSUME NEW o \in 0 .. n - 1
                PROVE  bytes'[o] = Byte(f, o + 3, n) /\ Byte(f, o + 3, n) \in Cells
    OBVIOUS
  <2>1. bytes'[o] = Byte(f, 2 + o + 1, n)
    <3>1. \A p \in 0 .. seek + k - 1 :
            bytes'[p] = Byte(rx[1].of, Skipped + p + 1, LengthOf(rx[1].of))
      BY <1>1, ReadChunk, Zenon
    <3>2. o \in 0 .. seek + k - 1
      BY <1>1, <1>2
    <3>3. Skipped = 2
      BY <1>1 DEF Skipped
    <3>. QED  BY <3>1, <3>2, <3>3, <1>0, Zenon
  <2>2. 2 + o + 1 = o + 3 /\ o + 3 \in Nat
    BY <1>2
  <2>. QED  BY <2>1, <2>2, ByteFields
<1>5. m = Body(f, n) /\ m \in Seq(Cells) /\ Len(m) = n /\ m[1].of = f
  <2>1. \A i \in 1 .. n : i - 1 \in 0 .. n - 1 /\ (i - 1) + 3 = i + 2
    BY <1>2
  <2>2. \A i \in 1 .. n : bytes'[i - 1] = Byte(f, i + 2, n) /\ bytes'[i - 1] \in Cells
    BY <2>1, <1>4
  <2>3. m = Body(f, n)
    <3>1. Body(f, n) = [i \in 1 .. n |-> Byte(f, i + 2, n)]
      BY BodyFields
    <3>. QED  BY <1>2, <2>2, <3>1
  <2>4. m \in [1 .. n -> Cells]
    BY <1>2, <2>2
  <2>5. m[1].of = f
    BY <1>2, <2>3, BodyFields
  <2>. HIDE DEF m
  <2>6. m \in Seq(Cells) /\ Len(m) = n
    BY <2>4
  <2>. QED  BY <2>3, <2>5, <2>6
<1>6. StreamInv'
  BY <1>1, ReadStream
<1>7. CASE ReadBody(k)
  <2>1. /\ taken' = Append(taken, m) /\ header' = TRUE /\ seek' = 0 /\ length' = 2
        /\ UNCHANGED <<listening, unstored>>
    BY <1>7 DEF ReadBody, Reset, HeaderSize
  <2>. HIDE DEF m
  <2>2. /\ Len(taken) \in Nat /\ Len(taken') = Len(taken) + 1
        /\ \A i \in 1 .. Len(taken) : taken'[i] = taken[i]
        /\ taken'[Len(taken) + 1] = m
    BY <2>1, <1>5, FrameTypes DEF FrameInv, ConnTypes
  <2>7. taken' \in Seq(Seq(Cells))
    BY <2>1, <1>5, FrameTypes DEF FrameInv, ConnTypes
  <2>3. ConnTypes'
    BY <1>1, <2>1, <2>7, ReadChunk DEF FrameInv, ConnTypes
  <2>4. ReaderInv'
    BY <1>1, <1>3, <2>1, SizesAreNumbers DEF ReaderInv, Skipped, Sizes
  <2>5. \A i \in 1 .. Len(taken) : taken[i][1].of < f
    <3>. SUFFICES ASSUME NEW i \in 1 .. Len(taken)  PROVE taken[i][1].of < f
      OBVIOUS
    <3>1. PICK g \in 1 .. Len(sent) : LengthOf(g) > 0 /\ IsBody(taken[i], g) /\ g < f
      BY <1>0, <1>1, ReadChunk DEF FrameInv, TakenInv
    <3>2. taken[i][1].of = g
      BY <3>1, FrameTypes, BodyFields DEF FrameInv, IsBody, LengthOf
    <3>. QED  BY <3>1, <3>2
  <2>6. TakenInv'
    <3>. SUFFICES ASSUME NEW j \in 1 .. Len(taken')
                  PROVE  \E g \in 1 .. Len(sent) :
                           /\ LengthOf(g)' > 0 /\ IsBody(taken[j], g)'
                           /\ \A i \in 1 .. j - 1 : taken'[i][1].of < g
                           /\ rx' # <<>> => g < rx'[1].of
      BY <1>1 DEF TakenInv
    <3>1. CASE j = Len(taken) + 1
      <4>1. LengthOf(f)' > 0 /\ IsBody(taken[j], f)'
        <5>1. sent' = sent /\ taken'[j] = Body(f, n) /\ n = sent[f].length
          BY <1>0, <1>1, <1>5, <2>2, <3>1 DEF LengthOf
        <5>. QED  BY <5>1, <1>2 DEF LengthOf, IsBody
      <4>2. \A i \in 1 .. j - 1 : taken'[i][1].of < f
        BY <3>1, <2>2, <2>5
      <4>. QED  BY <4>1, <4>2, <1>2, <1>3
    <3>2. CASE j \in 1 .. Len(taken)
      <4>1. PICK g \in 1 .. Len(sent) :
              /\ LengthOf(g) > 0 /\ IsBody(taken[j], g) /\ g < f
              /\ \A i \in 1 .. j - 1 : taken[i][1].of < g
        BY <1>0, <3>2, <1>1, ReadChunk DEF FrameInv, TakenInv
      <4>2. LengthOf(g)' > 0 /\ IsBody(taken[j], g)'
        <5>1. sent' = sent /\ taken'[j] = taken[j]
          BY <1>1, <2>2, <3>2
        <5>. QED  BY <5>1, <4>1 DEF LengthOf, IsBody
      <4>3. \A i \in 1 .. j - 1 : taken'[i][1].of < g
        BY <2>2, <3>2, <4>1
      <4>4. rx' # <<>> => g < rx'[1].of
        <5>1. f \in Nat /\ g \in Nat
          BY <1>2, FrameTypes DEF FrameInv
        <5>. QED  BY <5>1, <1>3, <4>1
      <4>. QED  BY <4>2, <4>3, <4>4
    <3>. QED  BY <2>2, <3>1, <3>2
  <2>. QED  BY <1>6, <2>3, <2>4, <2>6 DEF FrameInv
<1>8. CASE CopyFails(k)
  <2>1. /\ listening' = FALSE /\ unstored' = unstored \cup {bytes'[0].of}
        /\ UNCHANGED <<header, seek, length, taken>>
    BY <1>8 DEF CopyFails
  <2>2. bytes'[0].of = f
    <3>1. 0 \in 0 .. n - 1 /\ 0 + 3 = 3
      BY <1>2
    <3>2. bytes'[0] = Byte(f, 3, n)
      BY <3>1, <1>4
    <3>. QED  BY <3>2, ByteFields
  <2>3. ConnTypes'
    <3>1. unstored' \subseteq 1 .. MaxFrames
      <4>1. unstored \subseteq 1 .. MaxFrames /\ Len(sent) <= MaxFrames
        BY DEF FrameInv, ConnTypes
      <4>2. Len(sent) \in Nat /\ MaxFrames \in Nat
        BY ConnectionAssumption, FrameTypes DEF FrameInv
      <4>3. f \in 1 .. MaxFrames
        BY <1>2, <4>1, <4>2
      <4>. QED  BY <2>1, <2>2, <4>1, <4>3, Zenon
    <3>. QED  BY <1>1, <2>1, <3>1, ReadChunk DEF FrameInv, ConnTypes
  <2>4. ReaderInv'
    BY <1>3, <2>1 DEF FrameInv, ReaderInv
  <2>5. TakenInv'
    BY <1>1, <2>1, Advanced, TakenKept, ReadChunk
  <2>. QED  BY <1>6, <2>3, <2>4, <2>5 DEF FrameInv
<1>. QED  BY <1>7, <1>8

-----------------------------------------------------------------------------
(***************************************************************************)
(* The other steps.                                                        *)
(***************************************************************************)
LEMMA SocketGone ==
  ASSUME FrameInv, rx' = <<>>, open' = FALSE, listening' \in BOOLEAN,
         UNCHANGED <<session, sent, bytes, header, seek, length, taken, unstored>>
  PROVE  FrameInv'
<1>0. Len(<<>>) = 0 /\ <<>> \in Seq(Cells)
  OBVIOUS
<1>1. ConnTypes'
  BY <1>0 DEF FrameInv, ConnTypes
<1>2. StreamInv'
  BY <1>0 DEF StreamInv
<1>3. ReaderInv'
  BY DEF FrameInv, ReaderInv
<1>4. TakenInv'
  BY TakenKept
<1>. QED  BY <1>1, <1>2, <1>3, <1>4 DEF FrameInv

LEMMA LoopBegins ==
  ASSUME FrameInv, Connect \/ Resume
  PROVE  FrameInv'
<1>0. Len(<<>>) = 0 /\ <<>> \in Seq(Cells)
  OBVIOUS
<1>1. /\ listening' = TRUE /\ open' = TRUE /\ FreshLocals
      /\ UNCHANGED <<sent, taken, unstored>>
      /\ rx' = <<>> \/ (rx' = rx /\ open /\ ~listening)
  BY DEF Connect, Resume, FrameInv, ConnTypes
<1>2. ConnTypes'
  <2>1. session' \in 0 .. MaxSessions /\ session' > 0
    BY ConnectionAssumption DEF Connect, Resume, FrameInv, ConnTypes
  <2>2. bytes' \in [Offsets -> Cells]
    <3>1. Garbage \in Cells
      BY DEF Garbage, Cells
    <3>. QED  BY <1>1, <3>1 DEF FreshLocals
  <2>3. rx' \in Seq(Cells)
    BY <1>0, <1>1 DEF FrameInv, ConnTypes
  <2>4. header' \in BOOLEAN
    BY <1>1 DEF FreshLocals
  <2>. QED  BY <1>1, <2>1, <2>2, <2>3, <2>4 DEF FrameInv, ConnTypes
<1>3. StreamInv'
  <2>1. CASE rx' = <<>>
    BY <2>1, <1>0 DEF StreamInv
  <2>2. CASE rx' = rx
    BY <2>2, <1>1 DEF FrameInv, StreamInv, Genuine, Rest, LengthOf
  <2>. QED  BY <1>1, <2>1, <2>2
<1>4. ReaderInv'
  <2>1. rx' # <<>> => rx'[1].at = 1
    BY <1>1 DEF FrameInv, ReaderInv
  <2>. QED  BY <1>1, <2>1, SizesAreNumbers DEF ReaderInv, FreshLocals, Skipped, Sizes
<1>5. TakenInv'
  <2>1. rx' # <<>> => rx # <<>> /\ rx'[1].of >= rx[1].of
               /\ rx'[1].of \in Nat /\ rx[1].of \in Nat
    <3>. SUFFICES ASSUME rx' # <<>>, rx' = rx  PROVE rx[1].of \in Nat
      BY <1>1
    <3>1. 1 \in 1 .. Len(rx)
      BY DEF FrameInv, ConnTypes
    <3>. QED  BY <3>1, FrameTypes DEF FrameInv, StreamInv
  <2>. QED  BY <1>1, <2>1, TakenKept
<1>. QED  BY <1>2, <1>3, <1>4, <1>5 DEF FrameInv

LEMMA ReaderIdle ==
  ASSUME FrameInv,
         UNCHANGED <<open, rx, session, sent, listening, bytes, header, seek, length, taken, unstored>>
  PROVE  FrameInv'
<1>1. ConnTypes'
  BY DEF FrameInv, ConnTypes
<1>2. StreamInv'
  BY DEF FrameInv, StreamInv, Genuine, Rest, LengthOf
<1>3. ReaderInv'
  BY DEF FrameInv, ReaderInv, Skipped, LengthOf
<1>4. TakenInv'
  BY DEF FrameInv, TakenInv, IsBody, LengthOf
<1>. QED  BY <1>1, <1>2, <1>3, <1>4 DEF FrameInv

LEMMA HubSendsFrames ==
  ASSUME FrameInv, NEW n \in FrameLengths, HubSends(n)
  PROVE  FrameInv'
<1>. PICK N \in Nat, L \in Nat : N = Len(sent) + 1 /\ L = Len(rx)
  BY FrameTypes DEF FrameInv
<1>0. /\ N \in Nat /\ L \in Nat /\ n \in Nat /\ n \in Sizes /\ Len(sent) \in Nat
      /\ open /\ open' /\ session > 0 /\ session \in 1 .. MaxSessions /\ N <= MaxFrames
      /\ UNCHANGED <<session, listening, bytes, header, seek, length, taken, unstored>>
  BY FrameTypes, SizesAreNumbers, ConnectionAssumption DEF HubSends, readVars, FrameInv, ConnTypes
<1>1. /\ sent' \in Seq([session : 1 .. MaxSessions, length : FrameLengths])
      /\ Len(sent') = N
      /\ \A f \in 1 .. Len(sent) : sent'[f] = sent[f]
      /\ sent'[N] = [session |-> session, length |-> n]
  <2>. DEFINE S == [session : 1 .. MaxSessions, length : FrameLengths]
              e == [session |-> session, length |-> n]
  <2>1. e \in S /\ sent \in Seq(S) /\ sent' = Append(sent, e)
    BY <1>0 DEF HubSends, FrameInv, ConnTypes
  <2>. HIDE DEF S, e
  <2>2. sent' \in Seq(S) /\ Len(sent') = N /\ (\A f \in 1 .. Len(sent) : sent'[f] = sent[f])
        /\ sent'[N] = e
    BY <2>1
  <2>. QED  BY <2>2 DEF S, e
<1>2. (\A f \in 1 .. Len(sent) : LengthOf(f)' = LengthOf(f)) /\ LengthOf(N)' = n
  BY <1>1 DEF LengthOf
<1>3. /\ rx' \in Seq(Cells) /\ Len(rx') = L + (n + 2)
      /\ \A i \in 1 .. L : rx'[i] = rx[i]
      /\ \A i \in 1 .. Len(rx') : i > L => i - L \in 1 .. n + 2 /\ rx'[i] = Byte(N, i - L, n)
  <2>. DEFINE F == Frame(N, n)
  <2>1. F \in Seq(Cells) /\ Len(F) = n + 2 /\ \A a \in 1 .. n + 2 : F[a] = Byte(N, a, n)
    BY <1>0, FrameFields
  <2>2. rx' = rx \o F /\ rx \in Seq(Cells)
    BY <1>1 DEF HubSends, FrameInv, ConnTypes
  <2>. HIDE DEF F
  <2>5. rx' \in Seq(Cells) /\ Len(rx') = L + (n + 2)
    <3>1. rx \o F \in Seq(Cells) /\ Len(rx \o F) = Len(rx) + Len(F)
      <4>1. \A S : \A a, b \in Seq(S) : a \o b \in Seq(S) /\ Len(a \o b) = Len(a) + Len(b)
        OBVIOUS
      <4>. QED  BY <4>1, <2>1, <2>2, Zenon
    <3>2. Len(rx \o F) = L + (n + 2)
      BY <3>1, <2>1, Zenon
    <3>. QED  BY <3>1, <3>2, <2>2, Zenon
  <2>3. \A i \in 1 .. L : rx'[i] = rx[i]
    BY <1>0, <2>1, <2>2
  <2>4. \A i \in 1 .. Len(rx') : i > L => i - L \in 1 .. n + 2 /\ rx'[i] = F[i - L]
    BY <1>0, <2>1, <2>2
  <2>. QED  BY <2>1, <2>3, <2>4, <2>5
<1>10. \A a \in 1 .. n + 2 : Byte(N, a, n).of = N /\ Byte(N, a, n).at = a
  BY <1>0, FrameCells
<1>4. ASSUME NEW i \in 1 .. Len(rx'), i > L
      PROVE  /\ rx'[i].of = N /\ rx'[i].at = i - L
             /\ Genuine(rx[i])' /\ Rest(rx[i])' = Len(rx') - i
  <2>0. i - L \in 1 .. n + 2 /\ rx'[i] = Byte(N, i - L, n)
    BY <1>3, <1>4, Zenon
  <2>1. PICK q \in 1 .. n + 2 : q = i - L /\ rx'[i] = Byte(N, q, n)
    BY <2>0, Zenon
  <2>2. rx'[i].of = N /\ rx'[i].at = q /\ q = i - L
    BY <1>10, <2>1, Zenon
  <2>3. LengthOf(rx[i].of)' = n
    BY <2>2, <1>2 DEF LengthOf
  <2>4. Genuine(rx[i])'
    <3>1. N \in 1 .. Len(sent')
      BY <1>0, <1>1
    <3>. QED  BY <2>1, <2>2, <2>3, <3>1 DEF Genuine
  <2>5. Rest(rx[i])' = n + 2 - q
    BY <2>2, <2>3 DEF Rest
  <2>. QED  BY <2>2, <2>4, <2>5, <1>0, <1>3
<1>5. ASSUME NEW i \in 1 .. L
      PROVE  /\ i \in 1 .. Len(rx') /\ rx'[i] = rx[i] /\ Genuine(rx[i]) /\ Genuine(rx[i])'
             /\ Rest(rx[i])' = Rest(rx[i]) /\ Rest(rx[i]) \in Nat /\ Rest(rx[i]) <= L - i
             /\ rx[i].of \in Nat /\ rx[i].of < N
             /\ LengthOf(rx[i].of)' = LengthOf(rx[i].of)
  <2>0. i \in 1 .. Len(rx) /\ rx'[i] = rx[i]
    BY <1>3, Zenon
  <2>1. rx'[i] = rx[i] /\ Genuine(rx[i]) /\ Rest(rx[i]) <= L - i
    BY <2>0, StreamCell, Zenon
  <2>2. rx[i].of \in 1 .. Len(sent) /\ Rest(rx[i]) \in Nat /\ rx[i].of \in Nat /\ rx[i].of < N
    <3>1. rx[i].of \in 1 .. Len(sent) /\ Rest(rx[i]) \in Nat /\ rx[i].of \in Nat
      BY <2>0, StreamCell, Zenon
    <3>2. rx[i].of < N
      BY <3>1, <1>0
    <3>. QED  BY <3>1, <3>2
  <2>3. LengthOf(rx[i].of)' = LengthOf(rx[i].of)
    BY <2>1, <2>2, <1>2, Zenon DEF LengthOf
  <2>4. Genuine(rx[i])'
    BY <2>1, <2>2, <2>3, <1>0, <1>1 DEF Genuine
  <2>5. Rest(rx[i])' = Rest(rx[i])
    BY <2>1, <2>3 DEF Rest
  <2>. QED  BY <2>1, <2>2, <2>3, <2>4, <2>5, <1>0, <1>3
<1>6. ConnTypes'
  BY <1>0, <1>1, <1>3 DEF FrameInv, ConnTypes
<1>7. StreamInv'
  <2>1. \A i \in 1 .. Len(rx') : Genuine(rx[i])' /\ Rest(rx[i])' <= Len(rx') - i
    <3>. SUFFICES ASSUME NEW i \in 1 .. Len(rx')
                  PROVE  Genuine(rx[i])' /\ Rest(rx[i])' <= Len(rx') - i
      OBVIOUS
    <3>1. CASE i > L
      BY <3>1, <1>4, <1>0, <1>3
    <3>2. CASE i \in 1 .. L
      BY <3>2, <1>5, <1>0, <1>3
    <3>. QED  BY <3>1, <3>2, <1>0
  <2>2. ASSUME NEW i \in 1 .. Len(rx'), NEW j \in 1 .. Len(rx'), i <= j
        PROVE  IF j - i <= Rest(rx[i])'
               THEN rx'[j].of = rx'[i].of /\ rx'[j].at = rx'[i].at + (j - i)
               ELSE rx'[j].of > rx'[i].of /\ (j - i = Rest(rx[i])' + 1 => rx'[j].at = 1)
    <3>1. CASE i > L
      <4>1. j > L /\ j - i <= Len(rx') - i /\ j - L = (i - L) + (j - i)
        <5>1. i \in Nat /\ j \in Nat /\ Len(rx') \in Nat /\ j <= Len(rx')
          BY <1>0, <1>3
        <5>. QED  BY <5>1, <2>2, <3>1, <1>0
      <4>. QED  BY <4>1, <3>1, <1>4
    <3>2. CASE i \in 1 .. L /\ j \in 1 .. L
      BY <2>2, <3>2, <1>5 DEF FrameInv, StreamInv
    <3>3. CASE i \in 1 .. L /\ j > L
      <4>1. rx'[j].of = N /\ rx'[j].at = j - L
        BY <3>3, <1>4
      <4>2. /\ rx'[i] = rx[i] /\ Rest(rx[i])' = Rest(rx[i]) /\ Rest(rx[i]) \in Nat
            /\ Rest(rx[i]) <= L - i /\ rx[i].of \in Nat /\ rx[i].of < N
        BY <3>3, <1>5
      <4>3. ~(j - i <= Rest(rx[i])')
        BY <3>3, <4>2, <1>0
      <4>4. j - i = Rest(rx[i])' + 1 => j - L = 1
        BY <3>3, <4>2, <1>0
      <4>. QED  BY <4>1, <4>2, <4>3, <4>4, <1>0
    <3>. QED  BY <3>1, <3>2, <3>3, <1>0
  <2>. QED  BY <2>1, <2>2, <1>0 DEF StreamInv
<1>8. ReaderInv'
  <2>1. CASE rx = <<>>
    <3>1. L = 0 /\ 1 \in 1 .. Len(rx') /\ rx'[1].at = 1 /\ rx' # <<>>
      <4>1. L = 0 /\ 1 \in 1 .. Len(rx') /\ 1 > L
        BY <2>1, <1>0, <1>3
      <4>. QED  BY <4>1, <1>4
    <3>2. listening => header /\ seek = 0
      BY <2>1, <1>0 DEF FrameInv, ReaderInv
    <3>. QED  BY <3>1, <3>2, <1>0 DEF FrameInv, ReaderInv, Skipped
  <2>2. CASE rx # <<>>
    <3>1. /\ 1 \in 1 .. L /\ rx' # <<>> /\ rx'[1] = rx[1]
          /\ LengthOf(rx[1].of)' = LengthOf(rx[1].of)
      <4>1. 1 \in 1 .. L
        BY <2>2 DEF FrameInv, ConnTypes
      <4>2. rx' # <<>>
        BY <4>1, <1>0, <1>3
      <4>. QED  BY <4>1, <4>2, <1>5
    <3>. QED  BY <2>2, <3>1, <1>0 DEF FrameInv, ReaderInv, Skipped
  <2>. QED  BY <2>1, <2>2
<1>9. TakenInv'
  <2>. SUFFICES ASSUME NEW k \in 1 .. Len(taken)
                PROVE  \E f \in 1 .. Len(sent') :
                         /\ LengthOf(f)' > 0 /\ IsBody(taken[k], f)'
                         /\ \A j \in 1 .. k - 1 : taken'[j][1].of < f
                         /\ rx' # <<>> => f < rx'[1].of
    BY <1>0 DEF TakenInv
  <2>1. PICK f \in 1 .. Len(sent) :
          /\ LengthOf(f) > 0 /\ IsBody(taken[k], f)
          /\ \A j \in 1 .. k - 1 : taken[j][1].of < f
          /\ rx # <<>> => f < rx[1].of
    BY DEF FrameInv, TakenInv
  <2>2. f \in 1 .. Len(sent') /\ f < N
    BY <1>0, <1>1
  <2>3. LengthOf(f)' > 0 /\ IsBody(taken[k], f)'
    BY <2>1, <1>0, <1>1 DEF LengthOf, IsBody
  <2>4. rx' # <<>> => f < rx'[1].of
    <3>1. CASE rx = <<>>
      <4>1. 1 \in 1 .. Len(rx') /\ 1 > L
        BY <3>1, <1>0, <1>3
      <4>. QED  BY <4>1, <1>4, <2>2
    <3>2. CASE rx # <<>>
      <4>1. 1 \in 1 .. L
        BY <3>2 DEF FrameInv, ConnTypes
      <4>. QED  BY <4>1, <3>2, <1>5, <2>1
    <3>. QED  BY <3>1, <3>2
  <2>. QED  BY <2>1, <2>2, <2>3, <2>4, <1>0
<1>. QED  BY <1>6, <1>7, <1>8, <1>9 DEF FrameInv

LEMMA StepFrameInv == FrameInv /\ [ConnectionNext]_allVars => FrameInv'
<1>. SUFFICES ASSUME FrameInv, [ConnectionNext]_allVars  PROVE FrameInv'
  OBVIOUS
<1>1. CASE Connect \/ Resume
  BY <1>1, LoopBegins
<1>2. CASE Read
  BY <1>2, ReadPartFrames, ReadHeaderFrames, ReadBodyFrames DEF Read
<1>3. CASE LeaveLoop
  BY <1>3, SocketGone DEF LeaveLoop
<1>4. CASE PushRest \/ GetMessage
  BY <1>4, ReaderIdle DEF PushRest, GetMessage, connVars, readVars
<1>5. CASE \E n \in SendLengths : SendMessage(n)
  BY <1>5, ReaderIdle DEF SendMessage, readVars
<1>6. CASE \E k \in 1 .. LengthSpace : WriteBytes(k)
  BY <1>6, ReaderIdle DEF WriteBytes, readVars
<1>7. CASE WriteFails
  <2>1. listening' \in BOOLEAN
    BY <1>7 DEF WriteFails, readVars, FrameInv, ConnTypes
  <2>. QED  BY <1>7, <2>1, SocketGone DEF WriteFails, readVars
<1>8. CASE \E n \in FrameLengths : HubSends(n)
  BY <1>8, HubSendsFrames
<1>9. CASE SocketLost
  <2>1. listening' \in BOOLEAN
    BY <1>9 DEF SocketLost, readVars, FrameInv, ConnTypes
  <2>. QED  BY <1>9, <2>1, SocketGone DEF SocketLost, readVars
<1>10. CASE UNCHANGED allVars
  BY <1>10, ReaderIdle DEF allVars, connVars, readVars
<1>. QED  BY <1>1, <1>2, <1>3, <1>4, <1>5, <1>6, <1>7, <1>8, <1>9, <1>10
          DEF ConnectionNext, LoopListen, Writing

\* However many sessions, chunks and failed copies there are, and whatever the
\* base, the buffer and the frames: what loopListen pushes are whole frames of
\* the hub, each once and in order (connection.cpp:45-50, 60-101).
THEOREM ConnectionFramesWhole == ConnectionSpec => []FramesWhole
<1>1. FrameInv => FramesWhole
  BY DEF FrameInv, TakenInv, FramesWhole
<1>. QED  BY <1>1, InitFrameInv, StepFrameInv, PTL DEF ConnectionSpec

-----------------------------------------------------------------------------
(***************************************************************************)
(* The receive queue.                                                      *)
(***************************************************************************)
LEMMA ConnectionStepsTheQueue == [ConnectionNext]_allVars => [Next]_vars
<1>. SUFFICES ASSUME [ConnectionNext]_allVars  PROVE [Next]_vars
  OBVIOUS
<1>0. reader \in Producers /\ app \in Consumers
  BY ConnectionAssumption
<1>1. CASE Connect \/ Resume \/ LeaveLoop \/ WriteFails \/ SocketLost \/ UNCHANGED allVars
  BY <1>1 DEF Connect, Resume, LeaveLoop, WriteFails, SocketLost, allVars
<1>2. CASE Read
  BY <1>0, <1>2 DEF Read, ReadPart, ReadHeader, ReadBody, CopyFails, Next, Push
<1>3. CASE PushRest \/ GetMessage
  BY <1>0, <1>3 DEF PushRest, GetMessage, Next, Push
<1>4. CASE \/ \E n \in SendLengths : SendMessage(n)
           \/ \E k \in 1 .. LengthSpace : WriteBytes(k)
           \/ \E n \in FrameLengths : HubSends(n)
  BY <1>4 DEF SendMessage, WriteBytes, HubSends
<1>. QED  BY <1>1, <1>2, <1>3, <1>4 DEF ConnectionNext, LoopListen, Writing

\* The receive queue inside the connection behaves as ConcurrencyQueue says: the
\* reader is its only producer and getMessage its only consumer, so what is
\* proved of ConcurrencyQueue holds here, too.
THEOREM ConnectionImplementsQueue == ConnectionSpec => Spec
<1>1. ConnectionInit => Init
  BY DEF ConnectionInit
<1>. QED  BY <1>1, ConnectionStepsTheQueue, PTL DEF ConnectionSpec, Spec

\* getMessage returns what loopListen pushed, in its order, until a slot races.
THEOREM ConnectionFifo == ConnectionSpec => []Fifo
<1>1. Spec => []Fifo
  BY ConcurrencyQueueFifo, ConnectionAssumption
<1>. QED  BY <1>1, ConnectionImplementsQueue, PTL

-----------------------------------------------------------------------------
(***************************************************************************)
(* The sender, and the types.                                              *)
(***************************************************************************)
Messages == [session : 1 .. MaxSessions, length : SendLengths]

\* While a message is written, as much of its frame is to come as nBytes says.
SendInv ==
  /\ nBytes \in 0 .. LengthSpace - 1 /\ wseek \in 0 .. nBytes
  /\ sends \in Seq(Messages) /\ Len(sends) <= MaxSends
  /\ reported \in Seq(1 .. MaxSends)
  /\ wire \in Seq(Cells)
  /\ nBytes > 0 => /\ Len(sends) > 0
                   /\ nBytes <= sends[Len(sends)].length + 2

CallsInv == Len(taken) = calls

LEMMA SendSizes ==
  /\ LengthSpace \in Nat /\ LengthSpace > 0 /\ SendLengths \subseteq Nat
  /\ \A n \in Nat : (n + 2) % LengthSpace \in 0 .. LengthSpace - 1 /\ (n + 2) % LengthSpace <= n + 2
<1>1. LengthSpace \in Nat /\ LengthSpace > 0
  <2>1. \A b \in Nat : b >= 2 => b * b \in Nat /\ b * b > 0
    BY Z3
  <2>. QED  BY <2>1, SizesAreNumbers DEF LengthSpace
<1>2. SendLengths \subseteq Nat
  BY <1>1, ConnectionAssumption
<1>3. \A m \in Nat : \A n \in Nat : m > 0 => n % m \in 0 .. m - 1 /\ n % m <= n
  BY Z3
<1>4. \A n \in Nat : n + 2 \in Nat
  OBVIOUS
<1>. QED  BY <1>1, <1>2, <1>3, <1>4

LEMMA SendMessageTypes ==
  ASSUME SendInv, session \in 0 .. MaxSessions, NEW n \in SendLengths, SendMessage(n)
  PROVE  SendInv'
<1>. PICK e \in Messages, m \in Nat :
       /\ e = [session |-> session, length |-> n] /\ sends' = Append(sends, e)
       /\ m = n + 2 /\ n \in Nat
  <2>1. [session |-> session, length |-> n] \in Messages /\ n + 2 \in Nat /\ n \in Nat
    BY SendSizes, ConnectionAssumption DEF SendMessage, Messages
  <2>. QED  BY <2>1 DEF SendMessage
<1>1. /\ sends' \in Seq(Messages) /\ Len(sends') = Len(sends) + 1 /\ Len(sends') <= MaxSends
      /\ sends'[Len(sends')] = e /\ Len(sends') \in 1 .. MaxSends
  BY ConnectionAssumption DEF SendInv, SendMessage
<1>2. nBytes' \in 0 .. LengthSpace - 1 /\ nBytes' <= m /\ wseek' = 0
  BY SendSizes DEF SendMessage, HeaderSize
<1>3. reported' \in Seq(1 .. MaxSends) /\ wire' = wire
  <2>1. reported' = reported \/ reported' = Append(reported, Len(sends'))
    BY DEF SendMessage
  <2>2. reported \in Seq(1 .. MaxSends) /\ wire' = wire
    BY DEF SendInv, SendMessage
  <2>3. \A S : \A q \in Seq(S) : \A x \in S : Append(q, x) \in Seq(S)
    OBVIOUS
  <2>. QED  BY <1>1, <2>1, <2>2, <2>3, Zenon
<1>4. sends'[Len(sends')].length + 2 = m
  BY <1>1
<1>. QED  BY <1>1, <1>2, <1>3, <1>4, SendSizes DEF SendInv

LEMMA WriteBytesTypes ==
  ASSUME SendInv, NEW k \in 1 .. LengthSpace, WriteBytes(k)
  PROVE  SendInv'
<1>. PICK m \in Nat, n \in Nat : m = Len(sends) /\ n = sends[m].length /\ m \in 1 .. MaxSends
  <2>1. sends \in Seq(Messages) /\ Len(sends) > 0 /\ Len(sends) <= MaxSends
    BY DEF SendInv, WriteBytes
  <2>2. Len(sends) \in 1 .. MaxSends /\ Len(sends) \in Nat
    BY <2>1, ConnectionAssumption
  <2>3. sends[Len(sends)] \in Messages
    BY <2>1, <2>2
  <2>4. sends[Len(sends)].length \in Nat
    BY <2>3, SendSizes DEF Messages
  <2>. QED  BY <2>2, <2>4
<1>1. /\ k \in Nat /\ wseek \in Nat /\ nBytes \in Nat /\ wseek + k <= nBytes /\ nBytes <= n + 2
      /\ nBytes < LengthSpace
  <2>1. /\ nBytes \in 0 .. LengthSpace - 1 /\ wseek \in 0 .. nBytes /\ nBytes <= n + 2
        /\ k <= nBytes - wseek /\ LengthSpace \in Nat
    BY SendSizes DEF SendInv, WriteBytes
  <2>. QED  BY <2>1
<1>2. SubSeq(Frame(m, n), wseek + 1, wseek + k) \in Seq(Cells)
  <2>. DEFINE F == Frame(m, n)
  <2>1. F \in Seq(Cells) /\ Len(F) = n + 2
    BY FrameFields
  <2>. HIDE DEF F
  <2>2. wseek + 1 \in 1 .. Len(F) /\ wseek + k \in 0 .. Len(F)
    BY <1>1, <2>1
  <2>3. \A a \in 1 .. Len(F) : \A b \in 0 .. Len(F) : SubSeq(F, a, b) \in Seq(Cells)
    BY <2>1
  <2>4. SubSeq(F, wseek + 1, wseek + k) \in Seq(Cells)
    BY <2>2, <2>3, Zenon
  <2>. QED  BY <2>4, Zenon DEF F
<1>3. wire' \in Seq(Cells) /\ sends' = sends
  BY <1>2 DEF WriteBytes, SendInv
<1>4. CASE wseek + k < nBytes
  <2>1. wseek' = wseek + k /\ nBytes' = nBytes /\ reported' = reported
    BY <1>4 DEF WriteBytes, Sought
  <2>. QED  BY <2>1, <1>1, <1>3, <1>4 DEF SendInv
<1>5. CASE ~(wseek + k < nBytes)
  <2>1. wseek' = 0 /\ nBytes' = 0 /\ reported' = Append(reported, m)
    BY <1>5 DEF WriteBytes, Sought
  <2>2. reported' \in Seq(1 .. MaxSends)
    BY <2>1 DEF SendInv
  <2>. QED  BY <2>1, <2>2, <1>3, SendSizes DEF SendInv
<1>. QED  BY <1>4, <1>5

LEMMA StepSendInv == FrameInv /\ SendInv /\ [ConnectionNext]_allVars => SendInv'
<1>. SUFFICES ASSUME FrameInv, SendInv, [ConnectionNext]_allVars  PROVE SendInv'
  OBVIOUS
<1>0. session \in 0 .. MaxSessions
  BY DEF FrameInv, ConnTypes
<1>1. UNCHANGED sendVars => SendInv'
  BY DEF sendVars, SendInv
<1>2. CASE Resume \/ Read \/ LeaveLoop \/ PushRest \/ GetMessage \/ SocketLost
           \/ (\E n \in FrameLengths : HubSends(n)) \/ UNCHANGED allVars
  <2>1. UNCHANGED sendVars
    BY <1>2 DEF Resume, Read, ReadPart, ReadHeader, ReadBody, CopyFails, ReadBytes, LeaveLoop,
                PushRest, GetMessage, SocketLost, HubSends, allVars, connVars
  <2>. QED  BY <2>1, <1>1
<1>3. CASE Connect
  <2>1. <<>> \in Seq(1 .. MaxSends) /\ <<>> \in Seq(Cells)
    OBVIOUS
  <2>. QED  BY <1>3, <2>1 DEF Connect, SendInv
<1>4. CASE \E n \in SendLengths : SendMessage(n)
  BY <1>0, <1>4, SendMessageTypes
<1>5. CASE \E k \in 1 .. LengthSpace : WriteBytes(k)
  BY <1>5, WriteBytesTypes
<1>6. CASE WriteFails
  BY <1>6, SendSizes DEF WriteFails, SendInv
<1>. QED  BY <1>2, <1>3, <1>4, <1>5, <1>6 DEF ConnectionNext, LoopListen, Writing

LEMMA StepCallsInv == FrameInv /\ CallsInv /\ [ConnectionNext]_allVars => CallsInv'
<1>. SUFFICES ASSUME FrameInv, CallsInv, [ConnectionNext]_allVars  PROVE CallsInv'
  OBVIOUS
<1>1. UNCHANGED <<taken, calls>> => CallsInv'
  BY DEF CallsInv
<1>2. CASE \E k \in 1 .. BufferSize : ReadBody(k)
  <2>1. PICK m : taken' = Append(taken, m) /\ calls' = calls + 1
    BY <1>2 DEF ReadBody, Reserve
  <2>2. taken \in Seq(Seq(Cells)) 
    BY DEF FrameInv, ConnTypes
  <2>3. Len(taken') = Len(taken) + 1
    BY <2>1, <2>2
  <2>. QED  BY <2>1, <2>3 DEF CallsInv
<1>3. CASE Connect \/ Resume \/ LeaveLoop \/ SocketLost \/ WriteFails \/ UNCHANGED allVars
           \/ (\E k \in 1 .. BufferSize : ReadPart(k) \/ ReadHeader(k) \/ CopyFails(k))
           \/ (\E n \in FrameLengths : HubSends(n)) \/ (\E n \in SendLengths : SendMessage(n))
           \/ (\E k \in 1 .. LengthSpace : WriteBytes(k))
  <2>1. UNCHANGED <<taken, calls>>
    BY <1>3 DEF Connect, Resume, LeaveLoop, SocketLost, WriteFails, ReadPart, ReadHeader, CopyFails,
                HubSends, SendMessage, WriteBytes, allVars, connVars, readVars, vars, history
  <2>. QED  BY <2>1, <1>1
<1>4. CASE PushRest \/ GetMessage
  <2>1. UNCHANGED <<taken, calls>>
    BY <1>4 DEF PushRest, GetMessage, Undo, ClaimWrite, Write, Pop, Load, Subtract, ClaimRead, Swap,
                connVars, readVars, history
  <2>. QED  BY <2>1, <1>1
<1>. QED  BY <1>2, <1>3, <1>4 DEF ConnectionNext, LoopListen, Read, Writing

LEMMA InitSendInv == ConnectionInit => SendInv /\ CallsInv
<1>. SUFFICES ASSUME ConnectionInit  PROVE SendInv /\ CallsInv
  OBVIOUS
<1>1. \A S : <<>> \in Seq(S)
  OBVIOUS
<1>2. Len(<<>>) = 0
  OBVIOUS
<1>3. nBytes = 0 /\ wseek = 0 /\ sends = <<>> /\ reported = <<>> /\ wire = <<>>
      /\ taken = <<>> /\ calls = 0
  BY DEF ConnectionInit, Init
<1>. QED  BY <1>1, <1>2, <1>3, SendSizes, ConnectionAssumption DEF SendInv, CallsInv

\* Every variable of the connection keeps its type: the reader never asks for
\* more than its buffer holds, and the sender never writes past its message.
THEOREM ConnectionTypeCorrect == ConnectionSpec => []ConnectionTypeOK
<1>. DEFINE Inv == FrameInv /\ SendInv /\ CallsInv
<1>1. ConnectionInit => Inv
  BY InitFrameInv, InitSendInv
<1>2. Inv /\ [ConnectionNext]_allVars => Inv'
  BY StepFrameInv, StepSendInv, StepCallsInv
<1>3. Inv => ConnectionTypeOK
  BY DEF FrameInv, ConnTypes, ReaderInv, SendInv, CallsInv, Messages, Sizes, ConnectionTypeOK
<1>. QED  BY <1>1, <1>2, <1>3, PTL DEF ConnectionSpec

-----------------------------------------------------------------------------
(***************************************************************************)
(* Numbers by induction, and the concatenation of a sequence's members.    *)
(***************************************************************************)
LEMMA LeastNumber ==
  ASSUME NEW T, T \subseteq Nat, T # {}
  PROVE  \E x \in T : \A y \in T : x <= y
<1>. DEFINE R == OpToRel(<, Nat)
<1>1. IsWellFoundedOn(R, Nat)
  BY NatLessThanWellFounded
<1>2. \A y, x \in Nat : <<y, x>> \in R <=> y < x
  BY DEF OpToRel
<1>. HIDE DEF R
<1>3. PICK x \in T : \A y \in T : ~ (<<y, x>> \in R)
  BY <1>1, WFMin
<1>4. ASSUME NEW y \in T  PROVE x <= y
  <2>1. x \in Nat /\ y \in Nat
    OBVIOUS
  <2>2. ~ (y < x)
    BY <1>2, <1>3, <2>1, Zenon
  <2>. QED  BY <2>1, <2>2
<1>. QED  BY <1>4

LEMMA Induction ==
  ASSUME NEW S, 0 \in S, \A n \in Nat : n \in S => n + 1 \in S
  PROVE  Nat \subseteq S
<1>. SUFFICES ASSUME Nat \ S # {}  PROVE FALSE
  OBVIOUS
<1>1. PICK x \in Nat \ S : \A y \in Nat \ S : x <= y
  BY LeastNumber
<1>2. x - 1 \in Nat /\ x - 1 < x /\ (x - 1) + 1 = x
  OBVIOUS
<1>. QED  BY <1>1, <1>2

\* f joins the first i members of q, for every i up to n.
Joins(f, q, n) ==
  f = [i \in 1 .. n |-> IF i = 1 THEN q[i] ELSE f[i - 1] \o q[i]]

LEMMA JoinsAt ==
  ASSUME NEW f, NEW q, NEW n \in Nat, Joins(f, q, n), NEW i \in 1 .. n
  PROVE  f[i] = IF i = 1 THEN q[i] ELSE f[i - 1] \o q[i]
BY Zenon DEF Joins

LEMMA JoinsExist ==
  ASSUME NEW q, NEW n \in Nat
  PROVE  \E f : Joins(f, q, n)
<1>. DEFINE S == {k \in Nat : \E f : Joins(f, q, k)}
<1>1. 0 \in S
  <2>1. Joins([i \in 1 .. 0 |-> 0], q, 0)
    BY DEF Joins
  <2>. QED  BY <2>1
<1>2. ASSUME NEW k \in Nat, k \in S  PROVE k + 1 \in S
  <2>1. PICK f : Joins(f, q, k)
    BY <1>2
  <2>0. \A i \in 1 .. k : f[i] = IF i = 1 THEN q[i] ELSE f[i - 1] \o q[i]
    BY <2>1, JoinsAt, ZenonT(40)
  <2>. DEFINE g == [i \in 1 .. k + 1 |->
                      IF i <= k THEN f[i] ELSE IF i = 1 THEN q[i] ELSE f[i - 1] \o q[i]]
  <2>2. ASSUME NEW i \in 1 .. k + 1
        PROVE  g[i] = IF i = 1 THEN q[i] ELSE g[i - 1] \o q[i]
    <3>1. CASE i <= k
      <4>1. f[i] = IF i = 1 THEN q[i] ELSE f[i - 1] \o q[i]
        <5>. HIDE DEF g
        <5>1. i \in 1 .. k
          BY <3>1
        <5>. QED  BY <2>0, <5>1, Zenon
      <4>2. g[i] = f[i]
        BY <3>1
      <4>3. i # 1 => g[i - 1] = f[i - 1]
        BY <3>1
      <4>. QED  BY <4>1, <4>2, <4>3
    <3>2. CASE ~ (i <= k)
      <4>1. g[i] = IF i = 1 THEN q[i] ELSE f[i - 1] \o q[i]
        BY <3>2
      <4>2. i # 1 => g[i - 1] = f[i - 1]
        BY <3>2
      <4>. QED  BY <4>1, <4>2
    <3>. QED  BY <3>1, <3>2
  <2>3. g = [i \in 1 .. k + 1 |-> g[i]]
    OBVIOUS
  <2>. HIDE DEF g
  <2>4. g = [i \in 1 .. k + 1 |-> IF i = 1 THEN q[i] ELSE g[i - 1] \o q[i]]
    BY <2>2, <2>3
  <2>5. Joins(g, q, k + 1)
    BY <2>4, Zenon DEF Joins
  <2>6. k + 1 \in Nat
    OBVIOUS
  <2>. QED  BY <2>5, <2>6
<1>. HIDE DEF S
<1>3. Nat \subseteq S
  BY <1>1, <1>2, Induction
<1>4. n \in S
  BY <1>3
<1>. QED  BY <1>4 DEF S

\* What is joined from members on which q and r agree is the same.
LEMMA JoinsAgree ==
  ASSUME NEW f, NEW g, NEW q, NEW r, NEW n \in Nat, NEW m \in Nat, n <= m,
         Joins(f, q, n), Joins(g, r, m), \A i \in 1 .. n : q[i] = r[i]
  PROVE  \A i \in 1 .. n : f[i] = g[i]
<1>. DEFINE S == {k \in Nat : \A i \in 1 .. n : i <= k => f[i] = g[i]}
<1>1. 0 \in S
  OBVIOUS
<1>2. ASSUME NEW k \in Nat, k \in S  PROVE k + 1 \in S
  <2>1. ASSUME NEW i \in 1 .. n, i <= k + 1  PROVE f[i] = g[i]
    <3>1. CASE i <= k
      BY <1>2, <3>1
    <3>2. CASE ~ (i <= k)
      <4>1. i # 1 => i - 1 \in 1 .. n /\ i - 1 <= k
        BY <2>1, <3>2
      <4>2. i # 1 => f[i - 1] = g[i - 1]
        BY <4>1, <1>2
      <4>3. f[i] = (IF i = 1 THEN q[i] ELSE f[i - 1] \o q[i])
        BY DEF Joins
      <4>4. i \in 1 .. m
        OBVIOUS
      <4>5. g[i] = (IF i = 1 THEN r[i] ELSE g[i - 1] \o r[i])
        BY <4>4 DEF Joins
      <4>6. q[i] = r[i]
        OBVIOUS
      <4>. QED  BY <4>2, <4>3, <4>5, <4>6, Zenon
    <3>. QED  BY <3>1, <3>2
  <2>. QED  BY <2>1
<1>. HIDE DEF S
<1>3. Nat \subseteq S
  BY <1>1, <1>2, Induction
<1>4. n \in S
  BY <1>3
<1>. QED  BY <1>4 DEF S

LEMMA JoinsType ==
  ASSUME NEW C, NEW q, NEW n \in Nat, NEW f, Joins(f, q, n), \A i \in 1 .. n : q[i] \in Seq(C)
  PROVE  \A i \in 1 .. n : f[i] \in Seq(C)
<1>. DEFINE S == {k \in Nat : \A i \in 1 .. n : i <= k => f[i] \in Seq(C)}
<1>1. 0 \in S
  OBVIOUS
<1>2. ASSUME NEW k \in Nat, k \in S  PROVE k + 1 \in S
  <2>1. ASSUME NEW i \in 1 .. n, i <= k + 1  PROVE f[i] \in Seq(C)
    <3>1. f[i] = (IF i = 1 THEN q[i] ELSE f[i - 1] \o q[i])
      BY DEF Joins
    <3>2. i # 1 => i - 1 \in 1 .. n /\ i - 1 <= k
      BY <2>1
    <3>3. i # 1 => f[i - 1] \in Seq(C)
      BY <3>2, <1>2
    <3>4. \A s, t \in Seq(C) : s \o t \in Seq(C)
      OBVIOUS
    <3>5. q[i] \in Seq(C)
      OBVIOUS
    <3>. QED  BY <3>1, <3>3, <3>4, <3>5, Zenon
  <2>. QED  BY <2>1
<1>. HIDE DEF S
<1>3. Nat \subseteq S
  BY <1>1, <1>2, Induction
<1>4. n \in S
  BY <1>3
<1>. QED  BY <1>4 DEF S

LEMMA FlattenJoins ==
  ASSUME NEW C, NEW q \in Seq(Seq(C)), Len(q) # 0
  PROVE  \E f : Joins(f, q, Len(q)) /\ FlattenSeq(q) = f[Len(q)]
<1>. DEFINE flatten[i \in 1 .. Len(q)] == IF i = 1 THEN q[i] ELSE flatten[i - 1] \o q[i]
<1>1. FlattenSeq(q) = flatten[Len(q)]
  BY DEF FlattenSeq
<1>2. Len(q) \in Nat
  OBVIOUS
<1>3. \E f : Joins(f, q, Len(q))
  BY <1>2, JoinsExist
<1>4. flatten = [i \in 1 .. Len(q) |-> IF i = 1 THEN q[i] ELSE flatten[i - 1] \o q[i]]
  BY <1>3 DEF Joins
<1>. HIDE DEF flatten
<1>5. Joins(flatten, q, Len(q))
  BY <1>4, Zenon DEF Joins
<1>. QED  BY <1>1, <1>5, Zenon

LEMMA FlattenType ==
  ASSUME NEW C, NEW q \in Seq(Seq(C))
  PROVE  FlattenSeq(q) \in Seq(C)
<1>1. CASE Len(q) = 0
  <2>1. q = <<>> /\ FlattenSeq(q) = q
    BY <1>1 DEF FlattenSeq
  <2>2. <<>> \in Seq(C)
    OBVIOUS
  <2>. QED  BY <2>1, <2>2, Zenon
<1>2. CASE Len(q) # 0
  <2>1. PICK f : Joins(f, q, Len(q)) /\ FlattenSeq(q) = f[Len(q)]
    BY <1>2, FlattenJoins
  <2>2. Len(q) \in Nat /\ Len(q) \in 1 .. Len(q) /\ \A i \in 1 .. Len(q) : q[i] \in Seq(C)
    BY <1>2
  <2>3. \A i \in 1 .. Len(q) : f[i] \in Seq(C)
    BY <2>1, <2>2, JoinsType
  <2>. QED  BY <2>1, <2>2, <2>3
<1>. QED  BY <1>1, <1>2

\* One more member is one more piece at the end.
LEMMA FlattenAppend ==
  ASSUME NEW C, NEW q \in Seq(Seq(C)), NEW s \in Seq(C)
  PROVE  FlattenSeq(Append(q, s)) = FlattenSeq(q) \o s
<1>. DEFINE p == Append(q, s)
<1>1. /\ p \in Seq(Seq(C)) /\ Len(p) = Len(q) + 1 /\ Len(p) # 0 /\ Len(q) \in Nat /\ Len(p) \in Nat
      /\ p[Len(p)] = s /\ \A i \in 1 .. Len(q) : p[i] = q[i]
  OBVIOUS
<1>. HIDE DEF p
<1>2. PICK g : Joins(g, p, Len(p)) /\ FlattenSeq(p) = g[Len(p)]
  BY <1>1, FlattenJoins
<1>3. g[Len(p)] = IF Len(p) = 1 THEN s ELSE g[Len(p) - 1] \o s
  <2>1. Len(p) \in 1 .. Len(p)
    BY <1>1
  <2>. QED  BY <1>1, <1>2, <2>1, JoinsAt
<1>4. CASE Len(q) = 0
  <2>1. q = <<>> /\ FlattenSeq(q) = q
    BY <1>4 DEF FlattenSeq
  <2>2. <<>> \o s = s
    OBVIOUS
  <2>3. FlattenSeq(p) = s
    BY <1>1, <1>2, <1>3, <1>4
  <2>. QED  BY <2>1, <2>2, <2>3, Zenon DEF p
<1>5. CASE Len(q) # 0
  <2>1. PICK f : Joins(f, q, Len(q)) /\ FlattenSeq(q) = f[Len(q)]
    BY <1>5, FlattenJoins
  <2>2. Len(q) <= Len(p) /\ Len(q) \in 1 .. Len(q) /\ Len(p) - 1 = Len(q) /\ Len(p) # 1
    BY <1>1, <1>5
  <2>3. \A i \in 1 .. Len(q) : q[i] = p[i]
    BY <1>1
  <2>4. \A i \in 1 .. Len(q) : f[i] = g[i]
    BY <1>1, <1>2, <2>1, <2>2, <2>3, JoinsAgree
  <2>5. FlattenSeq(p) = g[Len(q)] \o s
    BY <1>2, <1>3, <2>2
  <2>6. FlattenSeq(q) = g[Len(q)]
    BY <2>1, <2>2, <2>4
  <2>. QED  BY <2>5, <2>6, Zenon DEF p
<1>. QED  BY <1>4, <1>5

-----------------------------------------------------------------------------
(***************************************************************************)
(* What the hub was given.                                                 *)
(***************************************************************************)
FrameOf(m) == Frame(m, sends[m].length)
Frames(ms) == [i \in 1 .. Len(ms) |-> FrameOf(ms[i])]
Calls == 1 .. Len(sends)

\* The hub got the messages reported and, of the one being written, what is
\* written; nBytes is the whole frame, unless that wrapped.
SentInv ==
  /\ reported \in Seq(Calls)
  /\ \A m \in Calls : sends[m].session <= session
  /\ nBytes > 0 /\ ~Wraps(Len(sends)) => nBytes = sends[Len(sends)].length + 2
  /\ SentWhole

LEMMA SendFields ==
  ASSUME SendInv, NEW m \in Calls
  PROVE  /\ m \in Nat /\ sends[m] \in Messages /\ sends[m].length \in Nat
         /\ FrameOf(m) \in Seq(Cells) /\ Len(FrameOf(m)) = sends[m].length + 2
<1>1. sends \in Seq(Messages) /\ m \in Nat
  BY DEF SendInv, Calls
<1>2. sends[m] \in Messages
  BY <1>1 DEF Calls
<1>3. sends[m].length \in Nat
  BY <1>2, SendSizes DEF Messages
<1>. QED  BY <1>1, <1>2, <1>3, FrameFields DEF FrameOf

LEMMA WholeIsFlat == \A ms : Whole(ms) = FlattenSeq(Frames(ms))
BY DEF Whole, Frames, FrameOf

LEMMA FramesAppend ==
  ASSUME SendInv, NEW ms \in Seq(Calls), NEW m \in Calls
  PROVE  /\ Frames(ms) \in Seq(Seq(Cells))
         /\ Frames(Append(ms, m)) = Append(Frames(ms), FrameOf(m))
<1>1. \A c \in Calls : FrameOf(c) \in Seq(Cells)
  BY SendFields
<1>2. \A i \in 1 .. Len(ms) : ms[i] \in Calls
  OBVIOUS
<1>3. Frames(ms) \in Seq(Seq(Cells))
  BY <1>1, <1>2 DEF Frames
<1>4. Len(Append(ms, m)) = Len(ms) + 1 /\ Len(Frames(ms)) = Len(ms) /\ Len(ms) \in Nat
  BY <1>3 DEF Frames
<1>5. \A i \in 1 .. Len(ms) + 1 : FrameOf(Append(ms, m)[i]) = Append(Frames(ms), FrameOf(m))[i]
  BY <1>4 DEF Frames
<1>6. DOMAIN Append(Frames(ms), FrameOf(m)) = 1 .. Len(ms) + 1
      /\ Append(Frames(ms), FrameOf(m)) \in Seq(Seq(Cells))
  BY <1>1, <1>3, <1>4
<1>. QED  BY <1>3, <1>4, <1>5, <1>6 DEF Frames

\* One more message is one more frame.
LEMMA WholeAppend ==
  ASSUME SendInv, NEW ms \in Seq(Calls), NEW m \in Calls
  PROVE  /\ Whole(ms) \in Seq(Cells)
         /\ Whole(Append(ms, m)) = Whole(ms) \o FrameOf(m)
BY WholeIsFlat, FramesAppend, SendFields, FlattenType, FlattenAppend, Zenon

\* What was sent does not change with another call.
LEMMA WholeKept ==
  ASSUME NEW ms \in Seq(Calls), \A m \in Calls : sends'[m] = sends[m]
  PROVE  Whole(ms)' = Whole(ms)
<1>1. \A i \in 1 .. Len(ms) : ms[i] \in Calls
  OBVIOUS
<1>. QED  BY <1>1 DEF Whole

LEMMA InitSentInv == ConnectionInit => SentInv
<1>. SUFFICES ASSUME ConnectionInit  PROVE SentInv
  OBVIOUS
<1>1. nBytes = 0 /\ sends = <<>> /\ reported = <<>> /\ ~ open
  BY DEF ConnectionInit
<1>2. Calls = {} /\ <<>> \in Seq(Calls)
  BY <1>1 DEF Calls
<1>. QED  BY <1>1, <1>2 DEF SentInv, SentWhole

\* The steps that write nothing and that neither make nor end a call.
LEMMA SentKept ==
  ASSUME SentInv, UNCHANGED <<sendVars, session>>, open' => open
  PROVE  SentInv'
BY DEF SentInv, Calls, Wraps, SentWhole, Plain, OnWire, Whole, sendVars

\* A new connection: nothing was sent on it, and what is still written was begun
\* on an older one.
LEMMA ConnectSent ==
  ASSUME FrameInv, SendInv, SentInv, Connect
  PROVE  SentInv'
<1>1. /\ sends' = sends /\ nBytes' = nBytes /\ wseek' = wseek /\ session' = session + 1
      /\ reported' = <<>> /\ wire' = <<>>
  BY DEF Connect
<1>2. session \in Nat /\ session' > session
  BY <1>1, ConnectionAssumption DEF FrameInv, ConnTypes
<1>3. reported' \in Seq(Calls)
  BY <1>1
<1>4. \A m \in Calls : sends[m].session <= session'
  <2>. SUFFICES ASSUME NEW m \in Calls  PROVE sends[m].session <= session'
    OBVIOUS
  <2>1. sends[m].session <= session
    BY DEF SentInv
  <2>2. sends[m].session \in Nat
    BY SendFields, ConnectionAssumption DEF Messages
  <2>. QED  BY <1>1, <1>2, <2>1, <2>2
<1>5. CASE nBytes = 0
  <2>1. Whole(<<>>)' = <<>>
    <3>1. Frames(<<>>)' = <<>> /\ Len(<<>>) = 0
      BY DEF Frames
    <3>. QED  BY <3>1 DEF Whole, FlattenSeq
  <2>2. SentWhole'
    BY <1>1, <1>5, <2>1 DEF SentWhole
  <2>. QED  BY <1>1, <1>3, <1>4, <1>5, <2>2 DEF SentInv, Calls
<1>6. CASE nBytes > 0
  <2>1. Len(sends) \in Calls
    BY <1>6 DEF SendInv, Calls
  <2>2. sends[Len(sends)].session \in Nat /\ sends[Len(sends)].session <= session
    BY <2>1, SendFields, ConnectionAssumption DEF SentInv, Messages
  <2>3. sends[Len(sends)].session # session'
    BY <1>2, <2>2
  <2>4. OnWire' = <<Len(sends)>>
    BY <1>1, <1>6 DEF OnWire
  <2>5. ~ Plain'
    <3>1. 1 \in 1 .. Len(OnWire') /\ OnWire'[1] = Len(sends)
      BY <2>4
    <3>. QED  BY <1>1, <2>3, <3>1 DEF Plain
  <2>6. (nBytes > 0 /\ ~Wraps(Len(sends)) => nBytes = sends[Len(sends)].length + 2)'
    BY <1>1 DEF SentInv, Wraps
  <2>. QED  BY <1>1, <1>3, <1>4, <2>5, <2>6 DEF SentInv, SentWhole, Calls
<1>. QED  BY <1>5, <1>6, SendSizes DEF SendInv

LEMMA SeqWider ==
  ASSUME NEW S, NEW T, S \subseteq T, NEW q \in Seq(S)
  PROVE  q \in Seq(T)
<1>1. \A i \in 1 .. Len(q) : q[i] \in T
  OBVIOUS
<1>. QED  BY <1>1

\* sendMessage begins: none of its frame is out.
LEMMA SendMessageSent ==
  ASSUME FrameInv, SendInv, SentInv, NEW n \in SendLengths, SendMessage(n)
  PROVE  SentInv'
<1>. DEFINE M == Len(sends')
<1>0. n \in Nat /\ session \in Nat /\ LengthSpace \in Nat /\ LengthSpace > 0
  BY SendSizes, ConnectionAssumption DEF FrameInv, ConnTypes
<1>1. /\ nBytes = 0 /\ wseek' = 0 /\ wire' = wire /\ session' = session /\ open' = open
      /\ sends' = Append(sends, [session |-> session, length |-> n])
      /\ nBytes' = (n + 2) % LengthSpace
      /\ reported' = IF nBytes' = 0 THEN Append(reported, M) ELSE reported
  BY DEF SendMessage, Idle, HeaderSize
<1>2. sends \in Seq(Messages) /\ [session |-> session, length |-> n] \in Messages
  BY <1>0, ConnectionAssumption DEF SendInv, SendMessage, FrameInv, ConnTypes, Messages
<1>3. /\ Len(sends) \in Nat /\ M = Len(sends) + 1 /\ Calls' = 1 .. M /\ Calls \subseteq 1 .. M
      /\ sends'[M] = [session |-> session, length |-> n]
      /\ \A m \in Calls : sends'[m] = sends[m]
  BY <1>1, <1>2 DEF Calls
<1>4. reported \in Seq(Calls)
  BY DEF SentInv
<1>5. reported' \in Seq(Calls')
  <2>. HIDE DEF M
  <2>0. M \in 1 .. M
    BY <1>3
  <2>1. reported \in Seq(1 .. M) /\ M \in 1 .. M
    BY <2>0, <1>3, <1>4, SeqWider
  <2>2. \A S : \A s \in Seq(S) : \A x \in S : Append(s, x) \in Seq(S)
    OBVIOUS
  <2>3. Append(reported, M) \in Seq(1 .. M)
    BY <2>1, <2>2, Zenon
  <2>4. reported' = reported \/ reported' = Append(reported, M)
    BY <1>1
  <2>. QED  BY <1>3, <2>1, <2>3, <2>4
<1>6. \A m \in Calls' : sends'[m].session <= session'
  <2>. SUFFICES ASSUME NEW m \in 1 .. M  PROVE sends'[m].session <= session
    BY <1>1, <1>3
  <2>1. CASE m = M
    BY <1>0, <1>3, <2>1
  <2>2. CASE m # M
    <3>1. m \in Calls
      BY <1>3, <2>2 DEF Calls
    <3>. QED  BY <1>3, <3>1 DEF SentInv
  <2>. QED  BY <2>1, <2>2
<1>7. ~ (sends'[M].length + 2 >= LengthSpace) => nBytes' = n + 2 /\ nBytes' > 0
  <2>1. sends'[M].length = n
    BY <1>3
  <2>2. \A a \in Nat : \A b \in Nat : b > 0 /\ ~ (a >= b) => a % b = a
    BY Z3
  <2>3. n + 2 \in Nat /\ n + 2 > 0
    BY <1>0
  <2>4. ~ (n + 2 >= LengthSpace) => (n + 2) % LengthSpace = n + 2
    BY <1>0, <2>2, <2>3
  <2>. QED  BY <1>1, <2>1, <2>3, <2>4
<1>8. SentWhole'
  <2>. SUFFICES ASSUME open, Plain'
                PROVE  (wire = IF nBytes = 0 THEN Whole(reported)
                               ELSE Whole(reported) \o SubSeq(FrameOf(Len(sends)), 1, wseek))'
    BY <1>1 DEF SentWhole, FrameOf
  <2>1. OnWire' = Append(reported, M)
    <3>1. nBytes' = 0 \/ nBytes' > 0
      BY <1>0, <1>1, SendSizes
    <3>. QED  BY <1>1, <3>1 DEF OnWire
  <2>2. /\ Len(OnWire') = Len(reported) + 1 /\ Len(reported) \in Nat
        /\ OnWire'[Len(reported) + 1] = M
        /\ \A i \in 1 .. Len(reported) : OnWire'[i] = reported[i] /\ reported[i] \in Calls
    BY <1>4, <2>1
  <2>. DEFINE W == OnWire'
  <2>0. \A i \in 1 .. Len(W) :
          ~ (sends'[W[i]].length + 2 >= LengthSpace) /\ sends'[W[i]].session = session'
    BY DEF Plain, Wraps, HeaderSize
  <2>. HIDE DEF W
  <2>3. ~ (sends'[M].length + 2 >= LengthSpace)
    <3>1. Len(reported) + 1 \in 1 .. Len(W) /\ W[Len(reported) + 1] = M
      BY <2>2 DEF W
    <3>. QED  BY <2>0, <3>1
  <2>4. nBytes' > 0 /\ reported' = reported
    BY <1>0, <1>1, <1>7, <2>3
  <2>5. Plain
    <3>1. OnWire = reported
      BY <1>1 DEF OnWire
    <3>. SUFFICES ASSUME NEW i \in 1 .. Len(reported)
                  PROVE  ~ Wraps(reported[i]) /\ sends[reported[i]].session = session
      BY <3>1 DEF Plain
    <3>2. i \in 1 .. Len(W) /\ W[i] = reported[i] /\ reported[i] \in Calls
      BY <2>2 DEF W
    <3>. QED  BY <1>1, <1>3, <2>0, <3>2 DEF Wraps, HeaderSize
  <2>6. wire = Whole(reported)
    BY <1>1, <2>5 DEF SentInv, SentWhole
  <2>7. Whole(reported)' = Whole(reported)
    BY <1>3, <1>4, <2>4, WholeKept DEF Whole
  <2>8. Whole(reported) \in Seq(Cells)
    BY <1>1, <2>6 DEF SendInv
  <2>9. FrameOf(Len(sends))' \in Seq(Cells)
    BY <1>0, <1>3, FrameFields DEF FrameOf
  <2>10. SubSeq(FrameOf(Len(sends))', 1, 0) = <<>>
    BY <2>9
  <2>11. \A s \in Seq(Cells) : s \o <<>> = s
    OBVIOUS
  <2>. QED  BY <1>1, <2>4, <2>6, <2>7, <2>8, <2>10, <2>11
<1>9. (nBytes > 0 /\ ~Wraps(Len(sends)) => nBytes = sends[Len(sends)].length + 2)'
  BY <1>3, <1>7 DEF Wraps, HeaderSize
<1>. QED  BY <1>5, <1>6, <1>8, <1>9 DEF SentInv

LEMMA Adjacent ==
  ASSUME NEW C, NEW F \in Seq(C), NEW a \in 0 .. Len(F), NEW b \in a .. Len(F)
  PROVE  SubSeq(F, 1, a) \o SubSeq(F, a + 1, b) = SubSeq(F, 1, b)
<1>. DEFINE P == SubSeq(F, 1, a)
            Q == SubSeq(F, a + 1, b)
            R == SubSeq(F, 1, b)
<1>1. P \in Seq(C) /\ Len(P) = a /\ \A i \in 1 .. a : P[i] = F[i]
  OBVIOUS
<1>2. Q \in Seq(C) /\ Len(Q) = b - a /\ \A i \in 1 .. b - a : Q[i] = F[a + i]
  OBVIOUS
<1>3. R \in Seq(C) /\ Len(R) = b /\ \A i \in 1 .. b : R[i] = F[i]
  OBVIOUS
<1>. HIDE DEF P, Q, R
<1>4. Len(P \o Q) = b /\ P \o Q \in Seq(C)
  <2>0. \A s, t \in Seq(C) : s \o t \in Seq(C) /\ Len(s \o t) = Len(s) + Len(t)
    OBVIOUS
  <2>1. P \o Q \in Seq(C) /\ Len(P \o Q) = Len(P) + Len(Q)
    BY <1>1, <1>2, <2>0, Zenon
  <2>2. a + (b - a) = b
    OBVIOUS
  <2>. QED  BY <1>1, <1>2, <2>1, <2>2
<1>5. \A i \in 1 .. b : (P \o Q)[i] = R[i]
  <2>. SUFFICES ASSUME NEW i \in 1 .. b  PROVE (P \o Q)[i] = R[i]
    OBVIOUS
  <2>1. CASE i <= a
    BY <1>1, <1>2, <1>3, <2>1
  <2>2. CASE ~ (i <= a)
    <3>1. (P \o Q)[i] = Q[i - a] /\ i - a \in 1 .. b - a
      BY <1>1, <1>2, <2>2
    <3>2. Q[i - a] = F[a + (i - a)] /\ a + (i - a) = i
      BY <1>2, <3>1
    <3>. QED  BY <1>3, <3>1, <3>2
  <2>. QED  BY <2>1, <2>2
<1>6. P \o Q = R
  BY <1>3, <1>4, <1>5
<1>. QED  BY <1>6 DEF P, Q, R

LEMMA JoinedOn ==
  ASSUME NEW C, NEW W \in Seq(C), NEW P \in Seq(C), NEW Q \in Seq(C)
  PROVE  (W \o P) \o Q = W \o (P \o Q)
OBVIOUS

\* A write goes on where the last one ended, and the last one ends the frame.
LEMMA WriteBytesSent ==
  ASSUME SendInv, SentInv, NEW k \in 1 .. LengthSpace, WriteBytes(k)
  PROVE  SentInv'
<1>. DEFINE m == Len(sends)
            F == FrameOf(m)
<1>1. m \in Calls /\ m \in Nat /\ F \in Seq(Cells) /\ Len(F) = sends[m].length + 2
      /\ sends[m].length \in Nat
  <2>1. m \in Calls
    BY DEF SendInv, WriteBytes, Calls
  <2>. QED  BY <2>1, SendFields
<1>2. /\ k \in Nat /\ k > 0 /\ wseek \in Nat /\ nBytes \in Nat /\ nBytes > 0
      /\ wseek + k <= nBytes /\ nBytes <= Len(F)
  <2>1. /\ nBytes \in 0 .. LengthSpace - 1 /\ wseek \in 0 .. nBytes /\ nBytes > 0
        /\ nBytes <= sends[m].length + 2 /\ k <= nBytes - wseek /\ LengthSpace \in Nat
    BY SendSizes DEF SendInv, WriteBytes
  <2>. QED  BY <1>1, <2>1
<1>. HIDE DEF F
<1>3. /\ wire' = wire \o SubSeq(F, wseek + 1, wseek + k)
      /\ IF wseek + k < nBytes
         THEN wseek' = wseek + k /\ nBytes' = nBytes /\ reported' = reported
         ELSE wseek' = 0 /\ nBytes' = 0 /\ reported' = Append(reported, m)
      /\ open' = open /\ open /\ session' = session /\ sends' = sends
  BY DEF WriteBytes, Sought, F, FrameOf
<1>4. reported \in Seq(Calls) /\ Append(reported, m) \in Seq(Calls) /\ Calls' = Calls
  BY <1>1, <1>3 DEF SentInv, Calls
<1>5. OnWire = Append(reported, m) /\ OnWire' = Append(reported, m)
  BY <1>2, <1>3 DEF OnWire
<1>6. Plain' => Plain
  BY <1>3, <1>5 DEF Plain, Wraps
<1>7. ASSUME Plain
      PROVE  /\ nBytes = Len(F)
             /\ wire' = Whole(reported) \o SubSeq(F, 1, wseek + k)
  <2>1. ~ Wraps(m)
    <3>1. Len(reported) + 1 \in 1 .. Len(OnWire) /\ OnWire[Len(reported) + 1] = m
      BY <1>1, <1>4, <1>5
    <3>. QED  BY <1>7, <3>1 DEF Plain
  <2>2. nBytes = Len(F)
    BY <1>1, <1>2, <2>1 DEF SentInv
  <2>3. wire = Whole(reported) \o SubSeq(F, 1, wseek)
    BY <1>2, <1>3, <1>7 DEF SentInv, SentWhole, F, FrameOf
  <2>4. wseek \in 0 .. Len(F) /\ wseek + k \in wseek .. Len(F)
    BY <1>1, <1>2
  <2>5. SubSeq(F, 1, wseek) \o SubSeq(F, wseek + 1, wseek + k) = SubSeq(F, 1, wseek + k)
    BY <1>1, <2>4, Adjacent, Zenon
  <2>6. Whole(reported) \in Seq(Cells)
    BY <1>1, <1>4, WholeAppend
  <2>7. SubSeq(F, 1, wseek) \in Seq(Cells) /\ SubSeq(F, wseek + 1, wseek + k) \in Seq(Cells)
    BY <1>1, <2>4, SMTT(30)
  <2>8. (Whole(reported) \o SubSeq(F, 1, wseek)) \o SubSeq(F, wseek + 1, wseek + k)
        = Whole(reported) \o (SubSeq(F, 1, wseek) \o SubSeq(F, wseek + 1, wseek + k))
    <3>. DEFINE P == SubSeq(F, 1, wseek)
                Q == SubSeq(F, wseek + 1, wseek + k)
    <3>1. P \in Seq(Cells) /\ Q \in Seq(Cells)
      BY <2>7
    <3>. HIDE DEF P, Q
    <3>2. (Whole(reported) \o P) \o Q = Whole(reported) \o (P \o Q)
      BY <2>6, <3>1, JoinedOn
    <3>. QED  BY <3>2, Zenon DEF P, Q
  <2>9. wire' = Whole(reported) \o SubSeq(F, 1, wseek + k)
    BY <1>3, <2>3, <2>5, <2>8, Zenon
  <2>. QED  BY <2>2, <2>9
<1>8. CASE wseek + k < nBytes
  <2>1. wseek' = wseek + k /\ nBytes' = nBytes /\ reported' = reported
    BY <1>3, <1>8
  <2>2. Whole(reported)' = Whole(reported) /\ F = Frame(m, sends'[m].length)
    BY <1>3, <2>1 DEF Whole, F, FrameOf
  <2>3. SentWhole'
    <3>1. nBytes' # 0 /\ Len(sends') = m
      BY <1>2, <1>3, <2>1
    <3>2. Plain' => wire' = Whole(reported)' \o SubSeq(Frame(m, sends'[m].length), 1, wseek')
      BY <1>6, <1>7, <2>1, <2>2, Zenon
    <3>. QED  BY <3>1, <3>2 DEF SentWhole
  <2>. QED  BY <1>3, <1>4, <2>1, <2>3 DEF SentInv, Wraps
<1>9. CASE ~ (wseek + k < nBytes)
  <2>1. wseek' = 0 /\ nBytes' = 0 /\ reported' = Append(reported, m) /\ wseek + k = nBytes
    BY <1>2, <1>3, <1>9
  <2>2. Whole(reported)' = Whole(reported) \o F
    <3>1. Whole(reported)' = Whole(Append(reported, m))
      BY <1>3, <2>1 DEF Whole
    <3>. QED  BY <1>1, <1>4, <3>1, WholeAppend, Zenon DEF F
  <2>3. SubSeq(F, 1, Len(F)) = F
    BY <1>1
  <2>4. Plain => wire' = Whole(reported)'
    BY <1>7, <2>1, <2>2, <2>3, Zenon
  <2>5. SentWhole'
    BY <1>6, <2>1, <2>4 DEF SentWhole
  <2>. QED  BY <1>3, <1>4, <2>1, <2>5 DEF SentInv
<1>. QED  BY <1>8, <1>9

LEMMA StepSentInv ==
  FrameInv /\ SendInv /\ SentInv /\ [ConnectionNext]_allVars => SentInv'
<1>. SUFFICES ASSUME FrameInv, SendInv, SentInv, [ConnectionNext]_allVars  PROVE SentInv'
  OBVIOUS
<1>1. CASE Resume \/ Read \/ LeaveLoop \/ PushRest \/ GetMessage \/ SocketLost
           \/ (\E n \in FrameLengths : HubSends(n)) \/ UNCHANGED allVars
  <2>. SUFFICES UNCHANGED <<sendVars, session>> /\ (open' => open)
    BY SentKept
  <2>1. CASE Resume \/ LeaveLoop \/ SocketLost
    BY <2>1 DEF Resume, LeaveLoop, SocketLost
  <2>2. CASE Read
    BY <2>2 DEF Read, ReadPart, ReadHeader, ReadBody, CopyFails, ReadBytes
  <2>3. CASE PushRest \/ GetMessage \/ UNCHANGED allVars
    BY <2>3 DEF PushRest, GetMessage, allVars, connVars
  <2>4. CASE \E n \in FrameLengths : HubSends(n)
    BY <2>4 DEF HubSends
  <2>. QED  BY <1>1, <2>1, <2>2, <2>3, <2>4
<1>2. CASE Connect
  BY <1>2, ConnectSent
<1>3. CASE \E n \in SendLengths : SendMessage(n)
  BY <1>3, SendMessageSent
<1>4. CASE \E k \in 1 .. LengthSpace : WriteBytes(k)
  BY <1>4, WriteBytesSent
<1>5. CASE WriteFails
  <2>1. ~ open' /\ nBytes' = 0 /\ UNCHANGED <<session, sends, reported, wire>>
    BY <1>5 DEF WriteFails
  <2>. QED  BY <2>1 DEF SentInv, SentWhole, Calls
<1>. QED  BY <1>1, <1>2, <1>3, <1>4, <1>5 DEF ConnectionNext, LoopListen, Writing

\* However the writes were cut and sessions followed each other, and for any
\* base and lengths: what the hub was given are whole frames of the messages
\* reported, and the beginning of the one being written, unless one wraps in 16
\* bits or was begun on an older connection (connection.cpp:133-142).
THEOREM ConnectionSentWhole == ConnectionSpec => []SentWhole
<1>. DEFINE Inv == FrameInv /\ SendInv /\ SentInv
<1>1. ConnectionInit => Inv
  BY InitFrameInv, InitSendInv, InitSentInv
<1>2. Inv /\ [ConnectionNext]_allVars => Inv'
  BY StepFrameInv, StepSendInv, StepSentInv
<1>3. Inv => SentWhole
  BY DEF SentInv
<1>. QED  BY <1>1, <1>2, <1>3, PTL DEF ConnectionSpec
=============================================================================
