-------------------------- MODULE WiFiClientProofs --------------------------
(* WiFiClient and its receive buffer, for any sizes of the buffers, any       *)
(* sequence of calls and anything the peer and the network do: no byte is     *)
(* lost, repeated or overtaken on its way in, a write() follows its source,   *)
(* and a sound connection is kept.                                            *)
EXTENDS WiFiClient, SequenceTheorems, TLAPS

-----------------------------------------------------------------------------
(* The inductive invariants.                                                  *)

Byte == 1 .. MaxBytes

(* What is handed out, buffered and queued was sent, each byte once and in    *)
(* its order, and what was thrown away was sent.                              *)
RxTyped ==
    /\ buf \in Seq(Byte) /\ Len(buf) <= Size /\ pos \in 0 .. Len(buf)
    /\ queue \in Seq(Byte) /\ got \in Seq(Byte)
    /\ sent \in 0 .. MaxBytes /\ lost \subseteq 1 .. sent

RxData == RxTyped /\ Len(Bytes) <= sent /\ NoByteAstray

(* flush() asks the socket for no more than that holds, unless there were     *)
(* bytes in the buffer.                                                       *)
Flushing == pc = "flush" =>
              /\ toFlush > 0
              /\ "flush" \in excuse \/ toFlush <= Len(queue)

(* The receive buffer fails for a reason.                                     *)
Failing == failed => net = "broken" \/ excuse # {}

(* A write() counts no more than it passed over, and counts what it sent      *)
(* unless select() failed.                                                    *)
Counting ==
    /\ pc = "write" => answer + total <= next - 1
    /\ "select" \notin cut =>
         Len(wire) = IF pc = "write" THEN answer + total ELSE answer

(* What is on the wire is behind the source's next byte; as long as nothing   *)
(* was left out and the client is connected, right behind it.                 *)
Sending ==
    /\ cut = {} => wire = [k \in 1 .. Len(wire) |-> k]
    /\ pc = "write" =>
         /\ \A j \in 1 .. Len(wire) : wire[j] < next
         /\ retry > 0 => connected /\ handle
         /\ cut = {} /\ connected /\ handle =>
              Len(wire) = next - 1 /\ (retry = 0 => next > hi)

(* TypeOK in three parts besides RxTyped: the flags, the arguments of read()  *)
(* and flush(), those of write().                                             *)
Flags ==
    /\ handle \in BOOLEAN /\ connected \in BOOLEAN /\ allocated \in BOOLEAN
    /\ failed \in BOOLEAN /\ open \in BOOLEAN
    /\ pc \in {"idle", "first", "fast", "slow", "flush", "write"}
    /\ net \in {"up", "closed", "broken"}
    /\ excuse \subseteq {"memory", "flush"}

CallTyped ==
    /\ len \in 0 .. MaxRead /\ left \in 0 .. len /\ toFlush \in 0 .. MaxBytes
    /\ pc # "slow" => left = 0

WriteTyped ==
    /\ retry \in 0 .. MaxRetry
    /\ hi \in 0 .. MaxWrite /\ next \in 1 .. hi + 1
    /\ srcEnd \in {0} \cup hi .. MaxWrite
    /\ total \in 0 .. MaxWrite /\ answer \in 0 .. MaxWrite
    /\ wire \in Seq(1 .. MaxWrite)
    /\ cut \subseteq {"retries", "select"}

Reasons == Failing /\ SoundConnectionKept

RxInv == Flags /\ RxData /\ CallTyped /\ Flushing /\ Reasons
TxInv == WriteTyped /\ Counting /\ Ascending(wire) /\ Sending

-----------------------------------------------------------------------------
(* Sequences of bytes.                                                        *)

(* The elements of a sequence in two parts.                                   *)
LEMMA TwoParts ==
  ASSUME NEW s \in Seq(Byte), NEW t \in Seq(Byte)
  PROVE  /\ s \o t \in Seq(Byte)
         /\ Len(s) \in Nat /\ Len(t) \in Nat
         /\ Len(s \o t) = Len(s) + Len(t)
         /\ \A i \in 1 .. Len(s) : (s \o t)[i] = s[i]
         /\ \A i \in 1 .. Len(t) : (s \o t)[Len(s) + i] = t[i]
<1>1. /\ s \o t \in Seq(Byte) /\ Len(s \o t) = Len(s) + Len(t)
      /\ \A i \in 1 .. Len(s) + Len(t) :
           (s \o t)[i] = IF i <= Len(s) THEN s[i] ELSE t[i - Len(s)]
      /\ Len(s) \in Nat /\ Len(t) \in Nat
  OBVIOUS
<1>2. ASSUME NEW i \in 1 .. Len(t) PROVE (s \o t)[Len(s) + i] = t[i]
  <2>1. /\ Len(s) + i \in 1 .. Len(s) + Len(t) /\ ~(Len(s) + i <= Len(s))
        /\ Len(s) + i - Len(s) = i
    BY <1>1
  <2> QED BY <1>1, <2>1
<1>3. ASSUME NEW i \in 1 .. Len(s) PROVE (s \o t)[i] = s[i]
  BY <1>1
<1> QED BY <1>1, <1>2, <1>3

(* The values of a sequence.                                                  *)
LEMMA Values ==
  ASSUME NEW s \in Seq(Byte)
  PROVE  Range(s) = {s[i] : i \in 1 .. Len(s)} /\ Range(s) \subseteq Byte
<1>1. DOMAIN s = 1 .. Len(s) /\ \A i \in 1 .. Len(s) : s[i] \in Byte
  OBVIOUS
<1> QED BY <1>1 DEF Range

(* The values of a sequence in two parts.                                     *)
LEMMA ValuesOfParts ==
  ASSUME NEW s \in Seq(Byte), NEW t \in Seq(Byte)
  PROVE  Range(s \o t) = Range(s) \cup Range(t)
<1>1. /\ s \o t \in Seq(Byte) /\ Len(s \o t) = Len(s) + Len(t)
      /\ \A i \in 1 .. Len(s) : (s \o t)[i] = s[i]
      /\ \A i \in 1 .. Len(t) : (s \o t)[Len(s) + i] = t[i]
      /\ Len(s) \in Nat /\ Len(t) \in Nat
  BY TwoParts
<1>2. /\ Range(s) = {s[i] : i \in 1 .. Len(s)}
      /\ Range(t) = {t[i] : i \in 1 .. Len(t)}
      /\ Range(s \o t) = {(s \o t)[i] : i \in 1 .. Len(s) + Len(t)}
  BY <1>1, Values
<1>3. ASSUME NEW i \in 1 .. Len(s) + Len(t)
      PROVE  (s \o t)[i] \in Range(s) \cup Range(t)
  <2>1. CASE i <= Len(s)
    <3>1. i \in 1 .. Len(s)
      BY <1>1, <2>1
    <3> QED BY <1>1, <1>2, <3>1
  <2>2. CASE i > Len(s)
    <3>1. i - Len(s) \in 1 .. Len(t) /\ Len(s) + (i - Len(s)) = i
      BY <1>1, <2>2
    <3>2. (s \o t)[i] = t[i - Len(s)]
      BY <1>1, <3>1
    <3> QED BY <1>2, <3>1, <3>2
  <2> QED BY <1>1, <2>1, <2>2
<1>4. ASSUME NEW i \in 1 .. Len(s) PROVE s[i] \in Range(s \o t)
  <2>1. i \in 1 .. Len(s) + Len(t) /\ (s \o t)[i] = s[i]
    BY <1>1
  <2> QED BY <1>2, <2>1
<1>5. ASSUME NEW i \in 1 .. Len(t) PROVE t[i] \in Range(s \o t)
  <2>1. Len(s) + i \in 1 .. Len(s) + Len(t) /\ (s \o t)[Len(s) + i] = t[i]
    BY <1>1
  <2> QED BY <1>2, <2>1
<1> QED BY <1>2, <1>3, <1>4, <1>5

(* Two parts ascend just when each does and the first stays below the second. *)
LEMMA AscendingParts ==
  ASSUME NEW s \in Seq(Byte), NEW t \in Seq(Byte)
  PROVE  Ascending(s \o t) <=>
           /\ Ascending(s) /\ Ascending(t)
           /\ \A x \in Range(s), y \in Range(t) : x < y
<1>1. /\ s \o t \in Seq(Byte) /\ Len(s \o t) = Len(s) + Len(t)
      /\ \A i \in 1 .. Len(s) : (s \o t)[i] = s[i]
      /\ \A i \in 1 .. Len(t) : (s \o t)[Len(s) + i] = t[i]
      /\ Len(s) \in Nat /\ Len(t) \in Nat
  BY TwoParts
<1>2. /\ Range(s) = {s[i] : i \in 1 .. Len(s)}
      /\ Range(t) = {t[i] : i \in 1 .. Len(t)}
  BY Values
<1>3. ASSUME Ascending(s \o t) PROVE Ascending(s)
  BY <1>1, <1>3 DEF Ascending
<1>4. ASSUME Ascending(s \o t) PROVE Ascending(t)
  <2> SUFFICES ASSUME NEW j \in 1 .. Len(t), NEW k \in 1 .. Len(t), j < k
               PROVE  t[j] < t[k]
    BY DEF Ascending
  <2>1. /\ Len(s) + j \in 1 .. Len(s) + Len(t)
        /\ Len(s) + k \in 1 .. Len(s) + Len(t)
        /\ Len(s) + j < Len(s) + k
    BY <1>1
  <2> QED BY <1>1, <1>4, <2>1 DEF Ascending
<1>5. ASSUME Ascending(s \o t), NEW i \in 1 .. Len(s), NEW j \in 1 .. Len(t)
      PROVE  s[i] < t[j]
  <2>1. /\ i \in 1 .. Len(s) + Len(t) /\ Len(s) + j \in 1 .. Len(s) + Len(t)
        /\ i < Len(s) + j
    BY <1>1
  <2> QED BY <1>1, <1>5, <2>1 DEF Ascending
<1>6. ASSUME Ascending(s), Ascending(t),
             \A x \in Range(s), y \in Range(t) : x < y
      PROVE  Ascending(s \o t)
  <2> SUFFICES ASSUME NEW j \in 1 .. Len(s) + Len(t),
                      NEW k \in 1 .. Len(s) + Len(t), j < k
               PROVE  (s \o t)[j] < (s \o t)[k]
    BY <1>1 DEF Ascending
  <2>1. CASE k <= Len(s)
    <3>1. j \in 1 .. Len(s) /\ k \in 1 .. Len(s)
      BY <1>1, <2>1
    <3> QED BY <1>1, <1>6, <3>1 DEF Ascending
  <2>2. CASE j > Len(s)
    <3>1. /\ j - Len(s) \in 1 .. Len(t) /\ Len(s) + (j - Len(s)) = j
          /\ k - Len(s) \in 1 .. Len(t) /\ Len(s) + (k - Len(s)) = k
          /\ j - Len(s) < k - Len(s)
      BY <1>1, <2>2
    <3>2. (s \o t)[j] = t[j - Len(s)] /\ (s \o t)[k] = t[k - Len(s)]
      BY <1>1, <3>1
    <3> QED BY <1>6, <3>1, <3>2 DEF Ascending
  <2>3. CASE j <= Len(s) /\ k > Len(s)
    <3>1. /\ j \in 1 .. Len(s)
          /\ k - Len(s) \in 1 .. Len(t) /\ Len(s) + (k - Len(s)) = k
      BY <1>1, <2>3
    <3>2. (s \o t)[j] = s[j] /\ (s \o t)[k] = t[k - Len(s)]
      BY <1>1, <3>1
    <3> QED BY <1>2, <1>6, <3>1, <3>2
  <2> QED BY <1>1, <2>1, <2>2, <2>3
<1> QED BY <1>2, <1>3, <1>4, <1>5, <1>6

(* Leaving the middle part out leaves out its values and nothing else.        *)
LEMMA Without ==
  ASSUME NEW a \in Seq(Byte), NEW b \in Seq(Byte), NEW c \in Seq(Byte),
         Ascending((a \o b) \o c)
  PROVE  /\ Ascending(a \o c)
         /\ Range(a \o c) = Range((a \o b) \o c) \ Range(b)
<1>1. a \o b \in Seq(Byte)
  BY TwoParts
<1>2. /\ Ascending(a \o b) /\ Ascending(c)
      /\ \A x \in Range(a \o b), y \in Range(c) : x < y
  BY <1>1, AscendingParts
<1>3. Ascending(a) /\ \A x \in Range(a), y \in Range(b) : x < y
  BY <1>2, AscendingParts
<1>4. /\ Range(a \o b) = Range(a) \cup Range(b)
      /\ Range((a \o b) \o c) = (Range(a) \cup Range(b)) \cup Range(c)
      /\ Range(a \o c) = Range(a) \cup Range(c)
  BY <1>1, ValuesOfParts
<1>5. Ascending(a \o c)
  BY <1>2, <1>3, <1>4, AscendingParts
<1>6. Range(a) \subseteq Int /\ Range(b) \subseteq Int /\ Range(c) \subseteq Int
  BY Values DEF Byte
<1>7. \A x \in Int : ~(x < x)
  OBVIOUS
<1>8. Range(a) \cap Range(b) = {} /\ Range(b) \cap Range(c) = {}
  BY <1>2, <1>3, <1>4, <1>6, <1>7
<1> QED BY <1>4, <1>5, <1>8

(* Leaving out the last part leaves out its values and nothing else.          *)
LEMMA Front ==
  ASSUME NEW a \in Seq(Byte), NEW b \in Seq(Byte), Ascending(a \o b)
  PROVE  /\ Ascending(a) /\ Range(a) = Range(a \o b) \ Range(b)
         /\ Range(b) \subseteq Range(a \o b)
<1>1. Ascending(a) /\ \A x \in Range(a), y \in Range(b) : x < y
  BY AscendingParts
<1>2. Range(a \o b) = Range(a) \cup Range(b)
  BY ValuesOfParts
<1>3. Range(a) \subseteq Int /\ Range(b) \subseteq Int
  BY Values DEF Byte
<1>4. \A x \in Int : ~(x < x)
  OBVIOUS
<1>5. Range(a) \cap Range(b) = {}
  BY <1>1, <1>3, <1>4
<1> QED BY <1>1, <1>2, <1>5

(* A piece of a sequence.                                                     *)
LEMMA Piece ==
  ASSUME NEW s \in Seq(Byte), NEW m \in Nat, NEW n \in Nat,
         m <= n, n <= Len(s)
  PROVE  /\ SubSeq(s, m + 1, n) \in Seq(Byte)
         /\ Len(SubSeq(s, m + 1, n)) = n - m
         /\ \A i \in 1 .. n - m : SubSeq(s, m + 1, n)[i] = s[m + i]
<1>1. \A i \in m + 1 .. n : s[i] \in Byte
  <2>1. \A i \in 1 .. Len(s) : s[i] \in Byte
    OBVIOUS
  <2>2. Len(s) \in Nat
    OBVIOUS
  <2> QED BY <2>1, <2>2
<1>2. m + 1 \in Int /\ n \in Int
  OBVIOUS
<1>3. /\ SubSeq(s, m + 1, n) \in Seq(Byte)
      /\ Len(SubSeq(s, m + 1, n)) = IF m + 1 <= n THEN n - (m + 1) + 1 ELSE 0
      /\ \A i \in 1 .. n - (m + 1) + 1 :
           SubSeq(s, m + 1, n)[i] = s[m + 1 + i - 1]
  BY <1>1, <1>2, SubSeqProperties
<1>4. n - (m + 1) + 1 = n - m /\ (~(m + 1 <= n) => n - m = 0)
  OBVIOUS
<1>5. \A i \in 1 .. n - m : m + 1 + i - 1 = m + i
  OBVIOUS
<1> QED BY <1>3, <1>4, <1>5

(* What stands behind m, in two pieces.                                       *)
LEMMA Pieces ==
  ASSUME NEW s \in Seq(Byte), NEW m \in Nat, NEW k \in Nat,
         m <= k, k <= Len(s)
  PROVE  SubSeq(s, m + 1, k) \o SubSeq(s, k + 1, Len(s))
           = SubSeq(s, m + 1, Len(s))
<1>1. Len(s) \in Nat
  OBVIOUS
<1>2. /\ m + 1 \in 1 .. Len(s) + 1 /\ k \in (m + 1) - 1 .. Len(s)
      /\ Len(s) \in k .. Len(s)
  BY <1>1
<1> QED BY <1>2, ConcatAdjacentSubSeq

(* What stands behind a place of the first of two parts.                      *)
LEMMA Rest ==
  ASSUME NEW s \in Seq(Byte), NEW t \in Seq(Byte), NEW p \in Nat, p <= Len(s)
  PROVE  SubSeq(s \o t, p + 1, Len(s) + Len(t)) = SubSeq(s, p + 1, Len(s)) \o t
<1> DEFINE l == SubSeq(s \o t, p + 1, Len(s) + Len(t))
           u == SubSeq(s, p + 1, Len(s))
           r == u \o t
<1>1. /\ s \o t \in Seq(Byte) /\ Len(s \o t) = Len(s) + Len(t)
      /\ \A i \in 1 .. Len(s) : (s \o t)[i] = s[i]
      /\ \A i \in 1 .. Len(t) : (s \o t)[Len(s) + i] = t[i]
      /\ Len(s) \in Nat /\ Len(t) \in Nat
  BY TwoParts
<1>2. /\ l \in Seq(Byte) /\ Len(l) = Len(s) + Len(t) - p
      /\ \A i \in 1 .. Len(s) + Len(t) - p : l[i] = (s \o t)[p + i]
  <2>1. /\ Len(s) + Len(t) \in Nat /\ p <= Len(s) + Len(t)
        /\ Len(s) + Len(t) <= Len(s \o t)
    BY <1>1
  <2> QED BY <1>1, <2>1, Piece
<1>3. /\ u \in Seq(Byte) /\ Len(u) = Len(s) - p
      /\ \A i \in 1 .. Len(s) - p : u[i] = s[p + i]
  BY <1>1, Piece
<1> HIDE DEF l, u
<1>4. /\ r \in Seq(Byte) /\ Len(r) = Len(s) - p + Len(t)
      /\ \A i \in 1 .. Len(s) - p : r[i] = u[i]
      /\ \A i \in 1 .. Len(t) : r[Len(s) - p + i] = t[i]
  <2>1. /\ r \in Seq(Byte) /\ Len(r) = Len(u) + Len(t)
        /\ \A i \in 1 .. Len(u) : r[i] = u[i]
        /\ \A i \in 1 .. Len(t) : r[Len(u) + i] = t[i]
    BY <1>3, TwoParts
  <2> HIDE DEF r
  <2> QED BY <1>3, <2>1
<1> HIDE DEF r
<1>5. Len(l) = Len(r)
  BY <1>1, <1>2, <1>4
<1>6. ASSUME NEW i \in 1 .. Len(l) PROVE l[i] = r[i]
  <2>1. CASE i <= Len(s) - p
    <3>1. i \in 1 .. Len(s) - p /\ p + i \in 1 .. Len(s)
          /\ i \in 1 .. Len(s) + Len(t) - p
      BY <1>1, <1>2, <2>1
    <3> QED BY <1>1, <1>2, <1>3, <1>4, <3>1
  <2>2. CASE i > Len(s) - p
    <3> DEFINE j == i - (Len(s) - p)
    <3>1. /\ j \in 1 .. Len(t) /\ Len(s) + j = p + i /\ Len(s) - p + j = i
          /\ i \in 1 .. Len(s) + Len(t) - p
      BY <1>1, <1>2, <2>2
    <3> HIDE DEF j
    <3>2. l[i] = (s \o t)[Len(s) + j] /\ r[i] = t[j]
      BY <1>2, <1>4, <3>1
    <3> QED BY <1>1, <3>1, <3>2
  <2> QED BY <1>1, <1>2, <2>1, <2>2
<1>7. l = r
  BY <1>2, <1>4, <1>5, <1>6, SeqEqual
<1> QED BY <1>7 DEF l, r, u

-----------------------------------------------------------------------------
(* The bytes on their way in.                                                 *)

(* The parts of what the peer has sent.                                       *)
LEMMA Parts ==
  ASSUME RxTyped
  PROVE  /\ Unread \in Seq(Byte) /\ Len(Unread) = Len(buf) - pos
         /\ got \o Unread \in Seq(Byte) /\ Bytes \in Seq(Byte)
         /\ Unread \o queue \in Seq(Byte)
         /\ Bytes = got \o (Unread \o queue)
         /\ Len(Bytes) = Len(got) + (Len(buf) - pos) + Len(queue)
         /\ Len(got) \in Nat /\ Len(buf) \in Nat /\ Len(queue) \in Nat
<1>1. /\ buf \in Seq(Byte) /\ queue \in Seq(Byte) /\ got \in Seq(Byte)
      /\ pos \in Nat /\ Len(buf) \in Nat /\ pos <= Len(buf)
  BY DEF RxTyped
<1>2. Unread \in Seq(Byte) /\ Len(Unread) = Len(buf) - pos
  BY <1>1, Piece DEF Unread
<1>3. /\ got \o Unread \in Seq(Byte)
      /\ Len(got \o Unread) = Len(got) + Len(Unread)
      /\ Unread \o queue \in Seq(Byte)
      /\ Len(got) \in Nat /\ Len(queue) \in Nat
  BY <1>1, <1>2, TwoParts
<1>4. /\ (got \o Unread) \o queue \in Seq(Byte)
      /\ Len((got \o Unread) \o queue) = Len(got \o Unread) + Len(queue)
  BY <1>1, <1>3, TwoParts
<1>5. (got \o Unread) \o queue = got \o (Unread \o queue)
  BY <1>1, <1>2, ConcatAssociative
<1> QED BY <1>1, <1>2, <1>3, <1>4, <1>5 DEF Bytes

(* stop() after g was handed out: the rest is lost, and nothing else.         *)
LEMMA StopKept ==
  ASSUME RxData, NEW g \in Seq(Byte), NEW r \in Seq(Byte), g \o r = Bytes,
         got' = g, StopWith(r)
  PROVE  RxData'
<1>1. /\ buf' = <<>> /\ pos' = 0 /\ queue' = <<>> /\ sent' = sent
      /\ lost' = lost \cup Range(r)
  BY DEF StopWith, NewBuffer
<1>2. <<>> \in Seq(Byte) /\ Len(<<>>) = 0
  OBVIOUS
<1>3. Bytes' = g
  <2>1. Unread' = <<>>
    BY <1>1, SubSeqEmpty DEF Unread
  <2>2. Bytes' = (g \o <<>>) \o <<>>
    BY <1>1, <2>1 DEF Bytes
  <2> QED BY <2>2, ConcatEmptySeq
<1>4. /\ Ascending(g) /\ Range(g) = Range(Bytes) \ Range(r)
      /\ Range(r) \subseteq Range(Bytes)
  <2>1. Ascending(g \o r)
    BY DEF RxData, NoByteAstray
  <2> QED BY <2>1, Front, Zenon
<1>5. Range(Bytes) = (1 .. sent) \ lost /\ lost \subseteq 1 .. sent
  BY DEF RxData, NoByteAstray, RxTyped
<1>6. NoByteAstray'
  BY <1>1, <1>3, <1>4, <1>5 DEF NoByteAstray
<1>7. RxTyped'
  <2>1. Size \in Nat /\ MaxBytes \in Nat
    BY WiFiClientAssumption
  <2>2. lost' \subseteq 1 .. sent'
    BY <1>1, <1>4, <1>5
  <2> QED BY <1>1, <1>2, <2>1, <2>2 DEF RxTyped, RxData
<1>8. (Len(Bytes) <= sent)'
  <2>1. Len(Bytes) = Len(g) + Len(r) /\ Len(g) \in Nat /\ Len(r) \in Nat
    BY TwoParts
  <2> QED BY <1>1, <1>3, <2>1 DEF RxData, RxTyped
<1> QED BY <1>6, <1>7, <1>8 DEF RxData

(* An outcome of fillBuffer() has what was unread and the next bytes of the   *)
(* socket, in a buffer of the same size, and a reason if it failed.           *)
Outcome(o) ==
    /\ o.buf \in Seq(Byte) /\ Len(o.buf) <= Size
    /\ o.n \in 0 .. Len(queue) /\ o.pos \in 0 .. Len(o.buf)
    /\ SubSeq(o.buf, o.pos + 1, Len(o.buf)) = Unread \o SubSeq(queue, 1, o.n)
    /\ o.failed \in BOOLEAN
    /\ o.failed => failed \/ ~allocated \/ net = "broken"

(* Three parts.                                                               *)
LEMMA ThreeParts ==
  ASSUME NEW s \in Seq(Byte), NEW t \in Seq(Byte), NEW u \in Seq(Byte)
  PROVE  (s \o t) \o u = s \o (t \o u)
BY ConcatAssociative

(* Take(): what is handed out, what stays and what is behind it in the socket *)
(* are the bytes there were.                                                  *)
LEMMA TakenBytes ==
  ASSUME RxTyped, NEW o, Outcome(o), NEW k \in Nat, o.pos <= k,
         k <= Len(o.buf)
  PROVE  /\ got \o SubSeq(o.buf, o.pos + 1, k) \in Seq(Byte)
         /\ SubSeq(o.buf, k + 1, Len(o.buf)) \in Seq(Byte)
         /\ SubSeq(queue, o.n + 1, Len(queue)) \in Seq(Byte)
         /\ ((got \o SubSeq(o.buf, o.pos + 1, k))
                \o SubSeq(o.buf, k + 1, Len(o.buf)))
                \o SubSeq(queue, o.n + 1, Len(queue)) = Bytes
<1> DEFINE b == o.buf
           p == o.pos
           m == o.n
           x == SubSeq(b, p + 1, k)
           r == SubSeq(b, k + 1, Len(b))
           t == SubSeq(queue, 1, m)
           z == SubSeq(queue, m + 1, Len(queue))
           w == got \o Unread
<1>1. b \in Seq(Byte) /\ p \in 0 .. Len(b) /\ m \in 0 .. Len(queue)
  BY DEF Outcome
<1>2. SubSeq(b, p + 1, Len(b)) = Unread \o t
  BY DEF Outcome
<1>3. p <= k /\ k <= Len(b)
  OBVIOUS
<1> HIDE DEF b, p, m
<1>4. queue \in Seq(Byte) /\ got \in Seq(Byte) /\ Unread \in Seq(Byte)
  BY Parts DEF RxTyped
<1>5. Len(b) \in Nat /\ Len(queue) \in Nat
  BY <1>1, <1>4
<1>6. p \in Nat /\ m \in Nat /\ m <= Len(queue)
  BY <1>1, <1>5
<1>7. x \in Seq(Byte) /\ r \in Seq(Byte) /\ z \in Seq(Byte)
  BY <1>1, <1>3, <1>4, <1>5, <1>6, Piece
<1>8. x \o r = SubSeq(b, p + 1, Len(b))
  BY <1>1, <1>3, <1>6, Pieces
<1>9. t \in Seq(Byte) /\ t \o z = queue
  <2>1. 0 + 1 = 1 /\ 0 \in Nat /\ 0 <= m
    BY <1>6
  <2>2. SubSeq(queue, 0 + 1, m) \in Seq(Byte)
    BY <1>4, <1>6, <2>1, Piece
  <2>3. SubSeq(queue, 0 + 1, m) \o z = SubSeq(queue, 0 + 1, Len(queue))
    BY <1>4, <1>6, <2>1, Pieces
  <2>4. SubSeq(queue, 1, Len(queue)) = queue
    BY <1>4, SubSeqFull
  <2> QED BY <2>1, <2>2, <2>3, <2>4
<1>10. got \o x \in Seq(Byte) /\ w \in Seq(Byte)
  BY <1>4, <1>7, TwoParts
<1> HIDE DEF x, r, t, z
<1>11. (got \o x) \o r = got \o (x \o r)
  BY <1>4, <1>7, ThreeParts
<1>12. w \o t = got \o (Unread \o t)
  BY <1>4, <1>9, ThreeParts
<1> HIDE DEF w
<1>13. (w \o t) \o z = w \o (t \o z)
  <2>1. w \in Seq(Byte) /\ t \in Seq(Byte) /\ z \in Seq(Byte)
    BY <1>7, <1>9, <1>10
  <2> QED BY <2>1, ThreeParts
<1>14. ((got \o x) \o r) \o z = w \o queue
  BY <1>2, <1>8, <1>9, <1>11, <1>12, <1>13, Zenon
<1> QED BY <1>7, <1>10, <1>14, Zenon DEF b, p, m, x, r, z, w, Bytes

(* The least of two.                                                          *)
LEMMA LeastOf ==
  ASSUME NEW a \in Int, NEW b \in Int
  PROVE  Min({a, b}) \in {a, b} /\ Min({a, b}) <= a /\ Min({a, b}) <= b
<1>1. \E x \in {a, b} : \A y \in {a, b} : x <= y
  OBVIOUS
<1> QED BY <1>1 DEF Min

(* What is copied or left is no more than there is.                           *)
LEMMA OutcomeLength ==
  ASSUME RxTyped, NEW o, Outcome(o)
  PROVE  /\ Len(o.buf) - o.pos = (Len(buf) - pos) + o.n
         /\ Len(o.buf) \in Nat /\ o.pos \in Nat /\ o.n \in Nat
<1> DEFINE b == o.buf
           p == o.pos
           m == o.n
           t == SubSeq(queue, 0 + 1, m)
           v == SubSeq(b, p + 1, Len(b))
<1>1. b \in Seq(Byte) /\ p \in 0 .. Len(b) /\ m \in 0 .. Len(queue)
  BY DEF Outcome
<1>2. v = Unread \o t
  <2>1. 0 + 1 = 1
    OBVIOUS
  <2> QED BY <2>1 DEF Outcome
<1> HIDE DEF b, p, m
<1>3. queue \in Seq(Byte) /\ Unread \in Seq(Byte)
      /\ Len(Unread) = Len(buf) - pos
  BY Parts DEF RxTyped
<1>4. Len(b) \in Nat /\ Len(queue) \in Nat
  BY <1>1, <1>3
<1>5. p \in Nat /\ m \in Nat /\ m <= Len(queue) /\ p <= Len(b) /\ 0 <= m
  BY <1>1, <1>4
<1>6. t \in Seq(Byte) /\ Len(t) = m - 0
  BY <1>3, <1>5, Piece
<1>7. Len(v) = Len(b) - p
  BY <1>1, <1>4, <1>5, Piece
<1> HIDE DEF t, v
<1>8. Len(v) = Len(Unread) + Len(t)
  BY <1>2, <1>3, <1>6, TwoParts
<1> QED BY <1>3, <1>4, <1>5, <1>6, <1>7, <1>8 DEF b, p, m

(* fillBuffer() keeps what is unread, starts a used up buffer again, and adds *)
(* what fits behind it.                                                       *)
LEMMA FilledOutcome ==
  ASSUME RxTyped, NEW n \in 0 .. Len(queue), n <= Size - Len(Restarted),
         NEW f \in BOOLEAN, f => failed \/ ~allocated \/ net = "broken"
  PROVE  Outcome(Filled(Restarted, n, f))
<1> DEFINE t == SubSeq(queue, 1, n)
           b == Restarted
           o == Filled(b, n, f)
<1>1. /\ buf \in Seq(Byte) /\ queue \in Seq(Byte) /\ Unread \in Seq(Byte)
      /\ Len(buf) \in Nat /\ Len(queue) \in Nat /\ pos \in Nat
      /\ pos <= Len(buf) /\ n \in Nat /\ n <= Len(queue)
      /\ Len(Unread) = Len(buf) - pos /\ Size \in Nat
  BY Parts, WiFiClientAssumption DEF RxTyped
<1>2. t \in Seq(Byte) /\ Len(t) = n
  <2>1. 0 + 1 = 1 /\ 0 \in Nat /\ 0 <= n /\ n - 0 = n
    BY <1>1
  <2>2. /\ SubSeq(queue, 0 + 1, n) \in Seq(Byte)
        /\ Len(SubSeq(queue, 0 + 1, n)) = n - 0
    BY <1>1, <2>1, Piece
  <2> QED BY <2>1, <2>2
<1> HIDE DEF t
<1>3. o.n = n /\ o.failed = f /\ o.buf = b \o t
      /\ o.pos = IF b = <<>> THEN 0 ELSE pos
  BY Zenon DEF Filled, t
<1>4. CASE pos = Len(buf)
  <2>1. b = <<>> /\ Len(<<>>) = 0
    BY <1>4 DEF Restarted
  <2>2. Unread = <<>>
    BY <1>1, <1>4 DEF Unread
  <2>3. o.buf = t /\ o.pos = 0
    BY <1>2, <1>3, <2>1, ConcatEmptySeq
  <2>4. SubSeq(t, 0 + 1, Len(t)) = Unread \o t
    BY <1>2, <2>2, SubSeqFull, ConcatEmptySeq
  <2>5. n <= Size
    BY <1>1, <2>1
  <2>6. /\ o.buf \in Seq(Byte) /\ Len(o.buf) <= Size
        /\ o.n \in 0 .. Len(queue) /\ o.pos \in 0 .. Len(o.buf)
    <3> HIDE DEF o
    <3> QED BY <1>1, <1>2, <1>3, <2>3, <2>5
  <2>7. SubSeq(o.buf, o.pos + 1, Len(o.buf)) = Unread \o SubSeq(queue, 1, o.n)
    <3> HIDE DEF o
    <3> QED BY <1>3, <2>3, <2>4, Zenon DEF t
  <2>8. /\ o.failed \in BOOLEAN
        /\ o.failed => failed \/ ~allocated \/ net = "broken"
    BY <1>3, Zenon
  <2> QED BY <2>6, <2>7, <2>8, Zenon DEF Outcome
<1>5. CASE pos # Len(buf)
  <2>1. b = buf /\ buf # <<>>
    BY <1>1, <1>5 DEF Restarted
  <2>3. o.buf = buf \o t /\ o.pos = pos
    BY <1>3, <2>1
  <2>4. /\ buf \o t \in Seq(Byte)
        /\ Len(buf \o t) = Len(buf) + Len(t)
    BY <1>1, <1>2, TwoParts
  <2>5. SubSeq(buf \o t, pos + 1, Len(buf) + Len(t)) = Unread \o t
    BY <1>1, <1>2, Rest DEF Unread
  <2>6. /\ o.buf \in Seq(Byte) /\ Len(o.buf) <= Size
        /\ o.n \in 0 .. Len(queue) /\ o.pos \in 0 .. Len(o.buf)
    <3>1. Len(buf) + n <= Size
      BY <1>1, <2>1
    <3> HIDE DEF o
    <3> QED BY <1>1, <1>2, <1>3, <2>3, <2>4, <3>1
  <2>7. SubSeq(o.buf, o.pos + 1, Len(o.buf)) = Unread \o SubSeq(queue, 1, o.n)
    <3> HIDE DEF o
    <3> QED BY <1>3, <2>3, <2>4, <2>5, Zenon DEF t
  <2>8. /\ o.failed \in BOOLEAN
        /\ o.failed => failed \/ ~allocated \/ net = "broken"
    BY <1>3, Zenon
  <2> QED BY <2>6, <2>7, <2>8, Zenon DEF Outcome
<1> QED BY <1>4, <1>5

(* So does every outcome of fillBuffer().                                     *)
LEMMA FillsAre ==
  ASSUME RxTyped, failed \in BOOLEAN, NEW o \in Fills
  PROVE  Outcome(o)
<1> DEFINE b == Restarted
           room == Size - Len(b)
<1>1. /\ Len(b) \in Nat /\ Len(b) <= Size /\ Size \in Nat
      /\ Len(queue) \in Nat /\ room \in Nat
  <2>1. buf \in Seq(Byte) /\ queue \in Seq(Byte) /\ Len(buf) <= Size
    BY DEF RxTyped
  <2>2. Size \in Nat
    BY WiFiClientAssumption
  <2>3. Len(b) \in Nat /\ Len(b) <= Size
    BY <2>1, <2>2 DEF Restarted
  <2> HIDE DEF b
  <2> QED BY <2>1, <2>2, <2>3
<1>2. PICK n \in 0 .. Len(queue), f \in BOOLEAN :
        /\ o = Filled(b, n, f) /\ n <= room
        /\ f => failed \/ ~allocated \/ net = "broken"
  <2>1. \/ \E n \in 1 .. Min({room, Len(queue)}) : o = Filled(b, n, failed)
        \/ o = Filled(b, 0, failed)
        \/ o = Filled(b, 0, TRUE) /\ (~allocated \/ net = "broken")
    BY Zenon DEF Fills, FillsOf
  <2> HIDE DEF b, room
  <2>2. /\ Min({room, Len(queue)}) \in {room, Len(queue)}
        /\ Min({room, Len(queue)}) <= room
        /\ Min({room, Len(queue)}) <= Len(queue)
    <3>1. room \in Int /\ Len(queue) \in Int
      BY <1>1
    <3> QED BY <3>1, LeastOf
  <2>3. \A n \in 1 .. Min({room, Len(queue)}) :
          n \in 0 .. Len(queue) /\ n <= room
    BY <1>1, <2>2
  <2>4. 0 \in 0 .. Len(queue) /\ 0 <= room
    BY <1>1
  <2>5. failed => failed \/ ~allocated \/ net = "broken"
    OBVIOUS
  <2> QED BY <2>1, <2>3, <2>4, <2>5, Zenon
<1> QED BY <1>2, FilledOutcome, Zenon

(* Leaving fillBuffer() out, as read() does with enough bytes in the buffer.  *)
LEMMA SameOutcome ==
  ASSUME RxTyped, failed \in BOOLEAN
  PROVE  Outcome(Same)
<1>1. /\ buf \in Seq(Byte) /\ queue \in Seq(Byte) /\ Len(queue) \in Nat
      /\ Len(buf) <= Size /\ pos \in 0 .. Len(buf) /\ Unread \in Seq(Byte)
  BY Parts DEF RxTyped
<1>2. /\ Same.buf = buf /\ Same.n = 0 /\ Same.failed = failed
      /\ Same.pos = pos
  BY Zenon DEF Same
<1>3. SubSeq(queue, 1, 0) = <<>> /\ Unread \o <<>> = Unread
  BY <1>1, SubSeqEmpty, ConcatEmptySeq
<1>4. SubSeq(buf, pos + 1, Len(buf)) = Unread \o SubSeq(queue, 1, 0)
  BY <1>3, Zenon DEF Unread
<1>5. 0 \in 0 .. Len(queue)
  BY <1>1
<1> QED BY <1>1, <1>2, <1>4, <1>5, Zenon DEF Outcome

(* Take() keeps the bytes, whether or not it stops the client.                *)
LEMMA TakeKept ==
  ASSUME RxData, NEW o, Outcome(o), NEW n \in Nat, o.pos + n <= Len(o.buf),
         NEW step, NEW rest, Take(o, n, step, rest)
  PROVE  RxData'
<1> DEFINE k == o.pos + n
           g == got \o SubSeq(o.buf, o.pos + 1, k)
           r == SubSeq(o.buf, k + 1, Len(o.buf))
           z == SubSeq(queue, o.n + 1, Len(queue))
<1>1. RxTyped
  BY DEF RxData
<1>2. o.pos \in Nat /\ Len(o.buf) \in Nat
  BY <1>1, OutcomeLength
<1>3. k \in Nat /\ o.pos <= k /\ k <= Len(o.buf)
  BY <1>2
<1> HIDE DEF k
<1>4. /\ g \in Seq(Byte) /\ r \in Seq(Byte) /\ z \in Seq(Byte)
      /\ (g \o r) \o z = Bytes
  BY <1>1, <1>3, TakenBytes
<1>5. /\ got' = g
      /\ \/ StopWith(r \o z)
         \/ /\ buf' = o.buf /\ pos' = k /\ queue' = z
            /\ lost' = lost /\ sent' = sent
  BY Zenon DEF Take, k
<1> HIDE DEF g, r, z
<1>6. CASE StopWith(r \o z)
  <2>1. r \o z \in Seq(Byte)
    BY <1>4, TwoParts
  <2>2. (g \o r) \o z = g \o (r \o z)
    BY <1>4, ThreeParts
  <2>3. g \o (r \o z) = Bytes
    BY <1>4, <2>2
  <2> QED BY <1>4, <1>5, <1>6, <2>1, <2>3, StopKept
<1>7. CASE /\ buf' = o.buf /\ pos' = k /\ queue' = z
           /\ lost' = lost /\ sent' = sent
  <2>1. Unread' = r
    BY <1>7 DEF Unread, r
  <2>2. Bytes' = Bytes
    BY <1>4, <1>5, <1>7, <2>1 DEF Bytes
  <2>3. RxTyped'
    <3>1. o.buf \in Seq(Byte) /\ Len(o.buf) <= Size
      BY DEF Outcome
    <3> QED BY <1>1, <1>2, <1>3, <1>4, <1>5, <1>7, <3>1 DEF RxTyped
  <2> QED BY <1>7, <2>2, <2>3 DEF RxData, NoByteAstray
<1> QED BY <1>5, <1>6, <1>7

-----------------------------------------------------------------------------
(* Reading, flushing and stopping.                                            *)

(* stop() with nothing handed out.                                            *)
LEMMA StopLoses ==
  ASSUME RxData, StopWith(Unread \o queue), got' = got
  PROVE  RxData'
<1>1. got \in Seq(Byte) /\ Unread \o queue \in Seq(Byte)
      /\ got \o (Unread \o queue) = Bytes
  BY Parts DEF RxData, RxTyped
<1> QED BY <1>1, StopKept

(* A step of read() or peek(): the client is stopped only when the buffer     *)
(* failed, and that has a reason.                                             *)
LEMMA TakeInv ==
  ASSUME RxInv, NEW o, Outcome(o), NEW n \in Nat, o.pos + n <= Len(o.buf),
         NEW step \in {"idle", "fast", "slow"}, NEW rest \in 0 .. len,
         step = "fast" => rest = 0,
         Take(o, n, step, rest)
  PROVE  RxInv'
<1>1. RxData'
  BY TakeKept DEF RxInv
<1>2. Flags'
  <2>1. Flags /\ o.failed \in BOOLEAN
    BY DEF RxInv, Outcome
  <2>2. /\ pc' = step /\ open' = open /\ net' = net
        /\ excuse' = IF o.failed /\ ~allocated THEN {"memory"} ELSE excuse
    BY Zenon DEF Take, Return, StopWith
  <2>3. excuse' \subseteq {"memory", "flush"}
    BY <2>1, <2>2 DEF Flags
  <2>4. \/ handle' = FALSE /\ connected' = FALSE /\ allocated' = FALSE
           /\ failed' = FALSE
        \/ handle' = handle /\ connected' = connected /\ allocated' = TRUE
           /\ failed' = o.failed
    BY Zenon DEF Take, StopWith, NewBuffer
  <2>5. /\ handle' \in BOOLEAN /\ connected' \in BOOLEAN
        /\ allocated' \in BOOLEAN /\ failed' \in BOOLEAN
    BY <2>1, <2>4, Zenon DEF Flags
  <2>6. pc' \in {"idle", "first", "fast", "slow", "flush", "write"}
    BY <2>2
  <2> QED BY <2>1, <2>2, <2>3, <2>5, <2>6, Zenon DEF Flags
<1>3. CallTyped'
  <2>1. /\ pc' = step
        /\ \/ len' = 0 /\ left' = 0 /\ toFlush' = 0
           \/ len' = len /\ left' = rest /\ toFlush' = toFlush /\ step # "idle"
    BY Zenon DEF Take, Return
  <2>2. CallTyped /\ MaxRead \in Nat /\ MaxBytes \in Nat
    BY WiFiClientAssumption DEF RxInv
  <2> QED BY <2>1, <2>2 DEF CallTyped
<1>4. Flushing'
  <2>1. pc' = step
    BY Zenon DEF Take, Return
  <2> QED BY <2>1 DEF Flushing
<1>5. Reasons'
  <2>1. /\ failed => net = "broken" \/ excuse # {}
        /\ open /\ ~handle => net = "broken" \/ excuse # {}
        /\ o.failed => failed \/ ~allocated \/ net = "broken"
    BY DEF RxInv, Reasons, Failing, SoundConnectionKept, Outcome
  <2>2. /\ open' = open /\ net' = net
        /\ excuse' = IF o.failed /\ ~allocated THEN {"memory"} ELSE excuse
    BY Zenon DEF Take, StopWith
  <2>3. \/ failed' = FALSE /\ o.failed
        \/ handle' = handle /\ failed' = o.failed
    BY Zenon DEF Take, StopWith, NewBuffer
  <2>4. {"memory"} # {}
    OBVIOUS
  <2>5. o.failed => net' = "broken" \/ excuse' # {}
    BY <2>1, <2>2, <2>4, Zenon
  <2>6. excuse # {} => excuse' # {}
    BY <2>2, <2>4, Zenon
  <2>7. (failed => net = "broken" \/ excuse # {})'
    BY <2>3, <2>5, Zenon
  <2>8. (open /\ ~handle => net = "broken" \/ excuse # {})'
    BY <2>1, <2>2, <2>3, <2>5, <2>6, Zenon
  <2> QED BY <2>7, <2>8 DEF Reasons, Failing, SoundConnectionKept
<1> QED BY <1>1, <1>2, <1>3, <1>4, <1>5 DEF RxInv

(* read() and peek(): no more is copied than is there.                        *)
LEMMA ReadKept ==
  ASSUME RxInv, ReadFirst \/ ReadFast \/ ReadSlow \/ Peek
  PROVE  RxInv'
<1>1. RxTyped /\ failed \in BOOLEAN /\ len \in Nat /\ left \in 0 .. len
  BY WiFiClientAssumption DEF RxInv, RxData, Flags, CallTyped
<1>2. /\ Len(buf) \in Nat /\ pos \in Nat /\ pos <= Len(buf)
      /\ Same.n = 0 /\ Len(Same.buf) = Len(buf) /\ Same.pos = pos
  BY <1>1, Parts DEF RxTyped, Same
<1>3. ASSUME NEW o \in Fills
      PROVE  /\ Outcome(o)
             /\ Len(o.buf) - o.pos = (Len(buf) - pos) + o.n
             /\ Len(o.buf) \in Nat /\ o.pos \in Nat /\ o.n \in Nat
             /\ o.pos + 0 <= Len(o.buf)
  <2>1. Outcome(o)
    BY <1>1, FillsAre
  <2>2. /\ Len(o.buf) - o.pos = (Len(buf) - pos) + o.n
        /\ Len(o.buf) \in Nat /\ o.pos \in Nat /\ o.n \in Nat
    BY <1>1, <2>1, OutcomeLength
  <2> QED BY <1>2, <2>1, <2>2
<1>4. 0 \in Nat /\ 0 \in 0 .. len
  BY <1>1
<1>5. CASE ReadFirst
  <2>1. PICK o \in Fills :
          Take(o, 0, IF o.n = 0 THEN "idle" ELSE "fast", 0)
    BY <1>5 DEF ReadFirst
  <2>2. (IF o.n = 0 THEN "idle" ELSE "fast") \in {"idle", "fast", "slow"}
    OBVIOUS
  <2> QED BY <1>3, <1>4, <2>1, <2>2, TakeInv
<1>6. CASE Peek
  <2>1. PICK o \in Fills : Take(o, 0, "idle", 0)
    BY <1>6 DEF Peek
  <2> QED BY <1>3, <1>4, <2>1, TakeInv
<1>7. CASE ReadFast
  <2> DEFINE a == Len(buf) - pos
  <2>1. CASE len <= a /\ Take(Same, len, "idle", 0)
    <3>1. Outcome(Same)
      BY <1>1, SameOutcome
    <3>2. Same.pos + len <= Len(Same.buf)
      BY <1>1, <1>2, <2>1
    <3> QED BY <1>1, <1>4, <2>1, <3>1, <3>2, TakeInv
  <2>2. CASE /\ len > a
             /\ \E o \in Fills :
                  IF o.n >= len - a THEN Take(o, len, "idle", 0)
                                    ELSE Take(o, a, "slow", len - a)
    <3>1. PICK o \in Fills :
            IF o.n >= len - a THEN Take(o, len, "idle", 0)
                              ELSE Take(o, a, "slow", len - a)
      BY <2>2
    <3>2. Outcome(o)
      BY <1>3
    <3>3. CASE o.n >= len - a /\ Take(o, len, "idle", 0)
      <4>1. o.pos + len <= Len(o.buf)
        BY <1>1, <1>2, <1>3, <3>3
      <4> QED BY <1>1, <1>4, <3>2, <3>3, <4>1, TakeInv
    <3>4. CASE Take(o, a, "slow", len - a)
      <4>1. a \in Nat /\ o.pos + a <= Len(o.buf) /\ len - a \in 0 .. len
        BY <1>1, <1>2, <1>3, <2>2
      <4> HIDE DEF a
      <4> QED BY <3>2, <3>4, <4>1, TakeInv
    <3> QED BY <3>1, <3>3, <3>4, Zenon
  <2>3. CASE len > a /\ Take(Same, a, "slow", len - a)
    <3>1. Outcome(Same)
      BY <1>1, SameOutcome
    <3>2. a \in Nat /\ Same.pos + a <= Len(Same.buf) /\ len - a \in 0 .. len
      BY <1>1, <1>2, <2>3
    <3> HIDE DEF a
    <3> QED BY <2>3, <3>1, <3>2, TakeInv
  <2> QED BY <1>7, <2>1, <2>2, <2>3, Zenon DEF ReadFast
<1>8. CASE ReadSlow
  <2>1. PICK o \in Fills :
          LET n == IF o.n = 0 THEN 0 ELSE Min({Len(o.buf) - o.pos, left})
          IN  Take(o, n, IF o.n = 0 \/ n = left THEN "idle" ELSE "slow",
                   left - n)
    BY <1>8 DEF ReadSlow
  <2> DEFINE n == IF o.n = 0 THEN 0 ELSE Min({Len(o.buf) - o.pos, left})
             m == Min({Len(o.buf) - o.pos, left})
             step == IF o.n = 0 \/ n = left THEN "idle" ELSE "slow"
  <2>2. step \in {"idle", "fast", "slow"} /\ step # "fast"
    OBVIOUS
  <2>3. /\ m \in {Len(o.buf) - o.pos, left}
        /\ m <= Len(o.buf) - o.pos /\ m <= left
    <3>1. Len(o.buf) - o.pos \in Int /\ left \in Int
      BY <1>1, <1>3
    <3> QED BY <3>1, LeastOf
  <2>4. n = 0 \/ n = m
    OBVIOUS
  <2>5. Take(o, n, step, left - n)
    BY <2>1
  <2> HIDE DEF n, m, step
  <2>6. n \in Nat /\ o.pos + n <= Len(o.buf) /\ left - n \in 0 .. len
    BY <1>1, <1>2, <1>3, <2>3, <2>4
  <2>7. Outcome(o)
    BY <1>3
  <2> QED BY <2>2, <2>5, <2>6, <2>7, TakeInv
<1> QED BY <1>5, <1>6, <1>7, <1>8

(* A step that does not touch the way in, but may start or end another call.  *)
LEMMA RxFrame ==
  ASSUME RxInv,
         UNCHANGED <<handle, rxBuffer, left, toFlush, peer, history>>,
         connected' \in BOOLEAN,
         pc' \in {"idle", "first", "fast", "slow", "flush", "write"},
         pc' = pc \/ pc' \notin {"slow", "flush"},
         len' = len \/ len' \in 1 .. MaxRead,
         pc = pc' \/ pc # "slow", len' = len \/ pc # "slow"
  PROVE  RxInv'
<1>1. /\ handle' = handle /\ allocated' = allocated /\ buf' = buf
      /\ pos' = pos /\ failed' = failed /\ left' = left /\ toFlush' = toFlush
      /\ net' = net /\ queue' = queue /\ sent' = sent /\ got' = got
      /\ lost' = lost /\ open' = open /\ excuse' = excuse
  BY DEF rxBuffer, peer, history
<1>2. RxData'
  <2>1. Bytes' = Bytes
    BY <1>1 DEF Bytes, Unread
  <2> QED BY <1>1, <2>1 DEF RxInv, RxData, RxTyped, NoByteAstray
<1>3. Flags'
  BY <1>1, Zenon DEF RxInv, Flags
<1>4. CallTyped'
  <2>1. CallTyped /\ MaxRead \in Nat
    BY WiFiClientAssumption DEF RxInv
  <2> QED BY <1>1, <2>1 DEF CallTyped
<1>5. Flushing'
  BY <1>1 DEF RxInv, Flushing
<1>6. Reasons'
  BY <1>1 DEF RxInv, Reasons, Failing, SoundConnectionKept
<1> QED BY <1>2, <1>3, <1>4, <1>5, <1>6 DEF RxInv

(* Calls that do not touch the way in: connected() and write().               *)
LEMMA WritesKeepRx ==
  ASSUME RxInv,
         \/ Read \/ ConnectedCall \/ Write \/ WriteStream \/ FlushSpins
         \/ SendSome \/ SendNothing \/ SelectFails \/ WriteReturns
  PROVE  RxInv'
<1>1. Flags
  BY DEF RxInv
<1>2. CASE Read
  <2>1. UNCHANGED <<handle, rxBuffer, left, toFlush, peer, history>>
    BY <1>2 DEF Read
  <2>2. /\ connected' = connected /\ pc = "idle" /\ pc' \in {"first", "fast"}
        /\ len' \in 1 .. MaxRead
    BY <1>2 DEF Read
  <2> QED BY <1>1, <2>1, <2>2, RxFrame DEF Flags
<1>3. CASE ConnectedCall
  <2>1. UNCHANGED <<handle, rxBuffer, left, toFlush, peer, history>>
    BY <1>3 DEF ConnectedCall, rxCall
  <2>2. connected' \in BOOLEAN /\ pc' = pc /\ len' = len
    BY <1>3 DEF ConnectedCall, rxCall
  <2> QED BY <1>1, <2>1, <2>2, RxFrame DEF Flags
<1>4. CASE Write \/ WriteStream
  <2>1. UNCHANGED <<handle, rxBuffer, left, toFlush, peer, history>>
    BY <1>4 DEF Write, WriteStream, rxCall
  <2>2. connected' = connected /\ pc = "idle" /\ pc' = "write" /\ len' = len
    BY <1>4 DEF Write, WriteStream, StartWrite, rxCall
  <2> QED BY <1>1, <2>1, <2>2, RxFrame DEF Flags
<1>5. CASE FlushSpins \/ SendSome \/ SendNothing \/ SelectFails
  <2>1. UNCHANGED <<handle, rxBuffer, left, toFlush, peer, history>>
    BY <1>5 DEF FlushSpins, SendSome, SendNothing, SelectFails, rxCall, vars
  <2>2. connected' = connected /\ pc' = pc /\ len' = len
    BY <1>5 DEF FlushSpins, SendSome, SendNothing, SelectFails, rxCall, vars
  <2> QED BY <1>1, <2>1, <2>2, RxFrame DEF Flags
<1>6. CASE WriteReturns
  <2>1. UNCHANGED <<handle, rxBuffer, left, toFlush, peer, history>>
    BY <1>6 DEF WriteReturns, rxCall
  <2>2. /\ connected' = connected /\ pc = "write" /\ pc' \in {"write", "idle"}
        /\ len' = len
    BY <1>6 DEF WriteReturns, StartWrite, rxCall
  <2> QED BY <1>1, <2>1, <2>2, RxFrame DEF Flags
<1> QED BY <1>2, <1>3, <1>4, <1>5, <1>6

(* A connection without bytes.                                                *)
Empty == /\ buf = <<>> /\ pos = 0 /\ queue = <<>> /\ sent = 0 /\ got = <<>>
         /\ lost = {}

(* Without bytes there is none astray.                                        *)
LEMMA EmptyData == Empty => RxData
<1> SUFFICES ASSUME Empty PROVE RxData
  OBVIOUS
<1> USE DEF Empty
<1>1. <<>> \in Seq(Byte) /\ Len(<<>>) = 0 /\ <<>> \o <<>> = <<>>
  OBVIOUS
<1>2. Size \in Nat /\ MaxBytes \in Nat
  BY WiFiClientAssumption
<1>3. RxTyped
  BY <1>1, <1>2 DEF RxTyped
<1>4. Bytes = <<>>
  <2>1. Unread = <<>>
    BY <1>1, SubSeqEmpty DEF Unread
  <2> QED BY <1>1, <2>1 DEF Bytes
<1>5. Range(<<>>) = {}
  BY DEF Range
<1>6. NoByteAstray
  BY <1>1, <1>4, <1>5 DEF NoByteAstray, Ascending
<1> QED BY <1>1, <1>3, <1>4, <1>6 DEF RxData

(* connect() begins anew, and so does the chip that read() resets.            *)
LEMMA BeginsKept ==
  ASSUME RxInv, Connect \/ NullRead
  PROVE  RxInv'
<1>1. /\ buf' = <<>> /\ pos' = 0 /\ queue' = <<>> /\ sent' = 0 /\ got' = <<>>
      /\ lost' = {} /\ allocated' = FALSE /\ failed' = FALSE
      /\ pc' = "idle" /\ pc = "idle" /\ excuse' = {}
      /\ len' = len /\ left' = left /\ toFlush' = toFlush
      /\ net' \in {"up", "closed"}
  BY DEF Connect, NullRead, NewBuffer, NoBytes, rxCall
<1>2. \/ handle' = TRUE /\ connected' = TRUE /\ open' = TRUE
      \/ handle' = FALSE /\ connected' = FALSE /\ open' = FALSE
  BY DEF Connect, NullRead
<1>3. RxData'
  <2>1. Empty'
    BY <1>1 DEF Empty
  <2>2. (Empty => RxData)'
    BY EmptyData, PTL
  <2> QED BY <2>1, <2>2
<1>4. Flags'
  BY <1>1, <1>2 DEF Flags
<1>5. CallTyped'
  BY <1>1 DEF RxInv, CallTyped
<1>6. Flushing' /\ Reasons'
  BY <1>1, <1>2 DEF Flushing, Reasons, Failing, SoundConnectionKept
<1> QED BY <1>3, <1>4, <1>5, <1>6 DEF RxInv

(* stop(), and the three calls that stop a client that fails.  flush() does   *)
(* it only when it asked for more than the socket holds.                      *)
LEMMA StopsKept ==
  ASSUME RxInv, Stop \/ AvailableFails \/ FlushStops \/ SendFails
  PROVE  RxInv'
<1>1. StopWith(Unread \o queue) /\ got' = got
  BY DEF Stop, AvailableFails, FlushStops, SendFails
<1>2. /\ handle' = FALSE /\ connected' = FALSE /\ allocated' = FALSE
      /\ failed' = FALSE /\ net' = net
  BY <1>1 DEF StopWith, NewBuffer
<1>3. RxData'
  BY <1>1, StopLoses DEF RxInv
<1>4. /\ pc' = "idle" \/ (pc' = pc /\ pc # "flush")
      /\ \/ len' = 0 /\ left' = 0 /\ toFlush' = 0
         \/ len' = len /\ left' = left /\ toFlush' = toFlush /\ pc' = pc
      /\ excuse' = excuse
  <2>1. CASE FlushStops
    BY <2>1 DEF FlushStops, Return
  <2>2. CASE Stop \/ AvailableFails \/ SendFails
    <3>1. pc \in {"idle", "write"}
      BY <2>2 DEF Stop, AvailableFails, SendFails
    <3>2. UNCHANGED <<pc, rxCall, excuse>>
      BY <2>2 DEF Stop, AvailableFails, SendFails
    <3> QED BY <3>1, <3>2 DEF rxCall
  <2> QED BY <2>1, <2>2
<1>5. open' = FALSE \/ (open' = open /\ (net = "broken" \/ FlushStops))
  <2>1. CASE Stop
    BY <2>1, Zenon DEF Stop
  <2>2. CASE FlushStops
    <3>1. open' = open
      BY <2>2 DEF FlushStops
    <3> QED BY <2>2, <3>1, Zenon
  <2>3. CASE AvailableFails \/ SendFails
    BY <2>3, Zenon DEF AvailableFails, SendFails
  <2> QED BY <2>1, <2>2, <2>3
<1>6. Flags'
  <2>1. Flags
    BY DEF RxInv
  <2>2. open' \in BOOLEAN
    BY <1>5, <2>1, Zenon DEF Flags
  <2> QED BY <1>2, <1>4, <2>1, <2>2 DEF Flags
<1>7. CallTyped'
  <2>1. CallTyped /\ MaxRead \in Nat /\ MaxBytes \in Nat
    BY WiFiClientAssumption DEF RxInv
  <2> QED BY <1>4, <2>1 DEF CallTyped
<1>8. Flushing'
  BY <1>4 DEF Flushing
<1>9. Reasons'
  <2>1. FlushStops => net = "broken" \/ excuse # {}
    <3> SUFFICES ASSUME FlushStops, net # "broken" PROVE excuse # {}
      OBVIOUS
    <3>1. pc = "flush" /\ queue = <<>> /\ Len(<<>>) = 0
      BY DEF FlushStops
    <3>2. toFlush \in Int /\ toFlush > 0
      BY <3>1 DEF RxInv, Flushing, CallTyped
    <3>3. ~(toFlush <= Len(queue))
      BY <3>1, <3>2
    <3> QED BY <3>1, <3>3 DEF RxInv, Flushing
  <2>2. open' => net' = "broken" \/ excuse' # {}
    BY <1>2, <1>4, <1>5, <2>1, Zenon
  <2> QED BY <1>2, <2>2 DEF Reasons, Failing, SoundConnectionKept
<1> QED BY <1>3, <1>6, <1>7, <1>8, <1>9 DEF RxInv

(* flush() asks for the bytes of the buffer and of the socket, of which there *)
(* are no more than were sent.                                                *)
LEMMA FlushKept ==
  ASSUME RxInv, Flush
  PROVE  RxInv'
<1>1. /\ handle' = handle /\ connected' = connected /\ allocated' = allocated
      /\ buf' = buf /\ pos' = pos /\ failed' = failed /\ len' = len
      /\ left' = left /\ net' = net /\ queue' = queue /\ sent' = sent
      /\ got' = got /\ lost' = lost /\ open' = open
      /\ pc = "idle" /\ pc' = "flush"
  BY DEF Flush, rxBuffer, peer
<1>2. /\ toFlush' = Len(buf) - pos + Len(queue) /\ toFlush' > 0
      /\ excuse' = IF pos < Len(buf) THEN excuse \cup {"flush"} ELSE excuse
  BY DEF Flush
<1>3. RxData'
  <2>1. Bytes' = Bytes
    BY <1>1 DEF Bytes, Unread
  <2> QED BY <1>1, <2>1 DEF RxInv, RxData, RxTyped, NoByteAstray
<1>4. Flags'
  <2>1. excuse \subseteq {"memory", "flush"}
    BY DEF RxInv, Flags
  <2>2. excuse' \subseteq {"memory", "flush"}
    BY <1>2, <2>1
  <2> QED BY <1>1, <2>2, Zenon DEF RxInv, Flags
<1>5. /\ Len(buf) \in Nat /\ Len(queue) \in Nat /\ Len(got) \in Nat
      /\ pos \in Nat /\ pos <= Len(buf)
      /\ Len(Bytes) = Len(got) + (Len(buf) - pos) + Len(queue)
      /\ Len(Bytes) <= sent /\ sent \in 0 .. MaxBytes /\ MaxBytes \in Nat
  BY Parts, WiFiClientAssumption DEF RxInv, RxData, RxTyped
<1>6. CallTyped'
  <2>1. toFlush' \in 0 .. MaxBytes
    BY <1>2, <1>5
  <2> QED BY <1>1, <2>1 DEF RxInv, CallTyped
<1>7. Flushing'
  <2>1. pos < Len(buf) \/ toFlush' <= Len(queue)
    BY <1>2, <1>5
  <2> QED BY <1>1, <1>2, <2>1 DEF Flushing
<1>8. Reasons'
  <2>1. excuse # {} => excuse' # {}
    BY <1>2
  <2> QED BY <1>1, <2>1, Zenon
          DEF RxInv, Reasons, Failing, SoundConnectionKept
<1> QED BY <1>3, <1>4, <1>6, <1>7, <1>8 DEF RxInv

(* The least of three.                                                        *)
LEMMA LeastOfThree ==
  ASSUME NEW a \in Int, NEW b \in Int, NEW c \in Int
  PROVE  /\ Min({a, b, c}) \in Int
         /\ Min({a, b, c}) <= a /\ Min({a, b, c}) <= b /\ Min({a, b, c}) <= c
<1>1. \E x \in {a, b, c} : \A y \in {a, b, c} : x <= y
  <2>1. CASE a <= b /\ a <= c
    BY <2>1
  <2>2. CASE b <= a /\ b <= c
    BY <2>2
  <2>3. CASE c <= a /\ c <= b
    BY <2>3
  <2> QED BY <2>1, <2>2, <2>3
<1> QED BY <1>1 DEF Min

(* recv() of flush(): the bytes it takes are lost, and no other.              *)
LEMMA FlushTakesKept ==
  ASSUME RxInv, FlushTakes
  PROVE  RxInv'
<1>1. /\ handle' = handle /\ connected' = connected /\ allocated' = allocated
      /\ buf' = buf /\ pos' = pos /\ failed' = failed /\ len' = len
      /\ left' = left /\ net' = net /\ sent' = sent
      /\ got' = got /\ open' = open /\ excuse' = excuse /\ pc = "flush"
  BY DEF FlushTakes, rxBuffer
<1>2. PICK n \in 1 .. Min({toFlush, FlushSize, Len(queue)}) :
        /\ lost' = lost \cup Range(SubSeq(queue, 1, n))
        /\ queue' = SubSeq(queue, n + 1, Len(queue))
        /\ toFlush' = toFlush - n
        /\ pc' = IF toFlush = n THEN "idle" ELSE "flush"
  BY DEF FlushTakes
<1>3. /\ RxTyped /\ queue \in Seq(Byte) /\ Len(queue) \in Nat
      /\ Unread \in Seq(Byte) /\ got \o Unread \in Seq(Byte)
      /\ toFlush \in 0 .. MaxBytes /\ FlushSize \in Nat /\ MaxBytes \in Nat
  BY Parts, WiFiClientAssumption DEF RxInv, RxData, RxTyped, CallTyped
<1>4. n \in Nat /\ 0 < n /\ n <= toFlush /\ n <= Len(queue)
  <2>1. /\ Min({toFlush, FlushSize, Len(queue)}) \in Int
        /\ Min({toFlush, FlushSize, Len(queue)}) <= toFlush
        /\ Min({toFlush, FlushSize, Len(queue)}) <= Len(queue)
    <3>1. toFlush \in Int /\ FlushSize \in Int /\ Len(queue) \in Int
      BY <1>3
    <3> QED BY <3>1, LeastOfThree
  <2> QED BY <1>3, <2>1
<1> DEFINE a == got \o Unread
           b == SubSeq(queue, 1, n)
           c == SubSeq(queue, n + 1, Len(queue))
<1>5. b \in Seq(Byte) /\ b \o c = queue
  <2>1. 0 + 1 = 1 /\ 0 \in Nat /\ 0 <= n
    BY <1>4
  <2>2. SubSeq(queue, 0 + 1, n) \in Seq(Byte)
    BY <1>3, <1>4, <2>1, Piece
  <2>3. SubSeq(queue, 0 + 1, n) \o c = SubSeq(queue, 0 + 1, Len(queue))
    BY <1>3, <1>4, <2>1, Pieces
  <2>4. SubSeq(queue, 1, Len(queue)) = queue
    BY <1>3, SubSeqFull
  <2> QED BY <2>1, <2>2, <2>3, <2>4
<1>6. c \in Seq(Byte) /\ Len(c) = Len(queue) - n
  BY <1>3, <1>4, Piece
<1>7. a \in Seq(Byte) /\ Bytes = a \o queue
  BY <1>3 DEF Bytes
<1>8. lost' = lost \cup Range(b) /\ queue' = c
  BY <1>2
<1>9. Bytes' = a \o c
  BY <1>1, <1>8 DEF Bytes, Unread
<1> HIDE DEF a, b, c
<1>10. Bytes = (a \o b) \o c
  <2>1. (a \o b) \o c = a \o (b \o c)
    <3>1. a \in Seq(Byte) /\ b \in Seq(Byte) /\ c \in Seq(Byte)
      BY <1>5, <1>6, <1>7
    <3> QED BY <3>1, ThreeParts
  <2> QED BY <1>5, <1>7, <2>1, Zenon
<1>11. /\ Ascending(Bytes) /\ Range(Bytes) = (1 .. sent) \ lost
       /\ lost \subseteq 1 .. sent
  BY DEF RxInv, RxData, NoByteAstray, RxTyped
<1>12. Ascending(a \o c) /\ Range(a \o c) = Range(Bytes) \ Range(b)
  <2>1. Ascending((a \o b) \o c)
    BY <1>10, <1>11
  <2>2. /\ Ascending(a \o c)
        /\ Range(a \o c) = Range((a \o b) \o c) \ Range(b)
    BY <1>5, <1>6, <1>7, <2>1, Without, Zenon
  <2> QED BY <1>10, <2>2, Zenon
<1>13. Range(b) \subseteq Range(Bytes)
  <2>1. /\ Range(b \o c) = Range(b) \cup Range(c)
        /\ Range(a \o queue) = Range(a) \cup Range(queue)
    BY <1>3, <1>5, <1>6, <1>7, ValuesOfParts, Zenon
  <2> QED BY <1>5, <1>7, <2>1, Zenon
<1>14. RxData'
  <2>1. NoByteAstray'
    BY <1>1, <1>8, <1>9, <1>11, <1>12 DEF NoByteAstray
  <2>2. lost' \subseteq 1 .. sent'
    BY <1>1, <1>8, <1>11, <1>13
  <2>3. RxTyped'
    BY <1>1, <1>3, <1>6, <1>8, <2>2 DEF RxTyped
  <2>4. (Len(Bytes) <= sent)'
    <3>1. /\ Len(a \o c) = Len(a) + Len(c)
          /\ Len(a \o queue) = Len(a) + Len(queue) /\ Len(a) \in Nat
      BY <1>3, <1>6, <1>7, TwoParts
    <3>2. Len(a \o queue) <= sent /\ sent \in Nat
      BY <1>3, <1>7 DEF RxInv, RxData, RxTyped
    <3>3. Len(a \o c) <= sent
      BY <1>3, <1>4, <1>6, <3>1, <3>2
    <3> QED BY <1>1, <1>9, <3>3
  <2> QED BY <2>1, <2>3, <2>4 DEF RxData
<1>15. Flags'
  <2>1. pc' \in {"idle", "flush"}
    BY <1>2
  <2> QED BY <1>1, <2>1, Zenon DEF RxInv, Flags
<1>16. CallTyped'
  <2>1. toFlush' \in 0 .. MaxBytes /\ pc' # "slow" /\ left = 0
    BY <1>1, <1>2, <1>3, <1>4 DEF RxInv, CallTyped
  <2> QED BY <1>1, <2>1 DEF RxInv, CallTyped
<1>17. Flushing'
  <2>1. "flush" \in excuse \/ toFlush <= Len(queue)
    BY <1>1 DEF RxInv, Flushing
  <2>2. pc' = "flush" => toFlush' > 0
    BY <1>2, <1>3, <1>4
  <2>3. toFlush <= Len(queue) => toFlush' <= Len(c)
    BY <1>2, <1>3, <1>4, <1>6
  <2> QED BY <1>1, <1>8, <2>1, <2>2, <2>3 DEF Flushing
<1>18. Reasons'
  BY <1>1 DEF RxInv, Reasons, Failing, SoundConnectionKept
<1> QED BY <1>14, <1>15, <1>16, <1>17, <1>18 DEF RxInv

(* A byte comes in behind all that came before it.                            *)
LEMMA PeerSendsKept ==
  ASSUME RxInv, PeerSends
  PROVE  RxInv'
<1>1. /\ handle' = handle /\ connected' = connected /\ allocated' = allocated
      /\ buf' = buf /\ pos' = pos /\ failed' = failed /\ pc' = pc /\ len' = len
      /\ left' = left /\ toFlush' = toFlush /\ net' = net
      /\ got' = got /\ lost' = lost /\ open' = open /\ excuse' = excuse
      /\ sent' = sent + 1 /\ queue' = Append(queue, sent + 1) /\ sent < MaxBytes
  BY DEF PeerSends, rxBuffer, rxCall, history
<1>2. /\ RxTyped /\ queue \in Seq(Byte) /\ Len(queue) \in Nat
      /\ Bytes \in Seq(Byte) /\ got \o Unread \in Seq(Byte)
      /\ MaxBytes \in Nat /\ sent \in 0 .. MaxBytes
      /\ lost \subseteq 1 .. sent
  BY Parts, WiFiClientAssumption DEF RxInv, RxData, RxTyped
<1> DEFINE e == <<sent + 1>>
           w == got \o Unread
<1>3. sent + 1 \in Byte
  BY <1>1, <1>2 DEF Byte
<1>4. e \in Seq(Byte) /\ Len(e) = 1 /\ e[1] = sent + 1
  BY <1>3
<1>5. queue' = queue \o e
  BY <1>1, <1>2, <1>3, AppendIsConcat
<1>6. Range(e) = {sent + 1}
  <2> HIDE DEF e
  <2>1. Range(e) = {e[i] : i \in 1 .. 1}
    BY <1>4, Values
  <2>2. 1 .. 1 = {1}
    OBVIOUS
  <2> QED BY <1>4, <2>1, <2>2
<1>7. Bytes' = w \o (queue \o e) /\ Bytes = w \o queue
  BY <1>1, <1>5 DEF Bytes, Unread
<1> HIDE DEF e, w
<1>8. Bytes' = Bytes \o e
  <2>1. w \in Seq(Byte) /\ queue \in Seq(Byte) /\ e \in Seq(Byte)
    BY <1>2, <1>4 DEF w
  <2>2. (w \o queue) \o e = w \o (queue \o e)
    BY <2>1, ThreeParts
  <2> QED BY <1>7, <2>2, Zenon
<1>9. /\ Ascending(Bytes) /\ Range(Bytes) = (1 .. sent) \ lost
      /\ Len(Bytes) <= sent
  BY DEF RxInv, RxData, NoByteAstray
<1>10. Ascending(Bytes \o e)
  <2>1. Ascending(e)
    BY <1>4 DEF Ascending
  <2>2. \A x \in Range(Bytes), y \in Range(e) : x < y
    BY <1>2, <1>6, <1>9
  <2> QED BY <1>2, <1>4, <1>9, <2>1, <2>2, AscendingParts
<1>11. Range(Bytes \o e) = (1 .. sent + 1) \ lost
  <2>1. Range(Bytes \o e) = Range(Bytes) \cup Range(e)
    BY <1>2, <1>4, ValuesOfParts
  <2>2. 1 .. sent + 1 = (1 .. sent) \cup {sent + 1} /\ sent + 1 \notin lost
    BY <1>2
  <2> QED BY <1>6, <1>9, <2>1, <2>2
<1>12. /\ Len(Bytes \o e) = Len(Bytes) + 1 /\ Len(Bytes) \in Nat
       /\ queue \o e \in Seq(Byte) /\ Len(queue \o e) = Len(queue) + 1
  <2>1. Len(Bytes \o e) = Len(Bytes) + Len(e) /\ Len(Bytes) \in Nat
    BY <1>2, <1>4, TwoParts
  <2>2. queue \o e \in Seq(Byte) /\ Len(queue \o e) = Len(queue) + Len(e)
    BY <1>2, <1>4, TwoParts
  <2> QED BY <1>4, <2>1, <2>2
<1>13. RxData'
  <2>1. NoByteAstray'
    BY <1>1, <1>8, <1>10, <1>11 DEF NoByteAstray
  <2>2. sent' \in 0 .. MaxBytes /\ lost' \subseteq 1 .. sent'
    BY <1>1, <1>2
  <2>3. RxTyped'
    BY <1>1, <1>2, <1>5, <1>12, <2>2 DEF RxTyped
  <2>4. (Len(Bytes) <= sent)'
    BY <1>1, <1>2, <1>8, <1>9, <1>12
  <2> QED BY <2>1, <2>3, <2>4 DEF RxData
<1>14. Flags'
  BY <1>1, Zenon DEF RxInv, Flags
<1>15. CallTyped'
  BY <1>1 DEF RxInv, CallTyped
<1>16. Flushing'
  <2>1. toFlush <= Len(queue) => toFlush' <= Len(queue')
    BY <1>1, <1>2, <1>5, <1>12 DEF RxInv, CallTyped
  <2> QED BY <1>1, <2>1, Zenon DEF RxInv, Flushing
<1>17. Reasons'
  BY <1>1 DEF RxInv, Reasons, Failing, SoundConnectionKept
<1> QED BY <1>13, <1>14, <1>15, <1>16, <1>17 DEF RxInv

(* The network only gets worse.                                               *)
LEMMA NetworkKept ==
  ASSUME RxInv, NetworkChanges
  PROVE  RxInv'
<1>1. /\ handle' = handle /\ connected' = connected /\ allocated' = allocated
      /\ buf' = buf /\ pos' = pos /\ failed' = failed /\ pc' = pc /\ len' = len
      /\ left' = left /\ toFlush' = toFlush /\ queue' = queue /\ sent' = sent
      /\ got' = got /\ lost' = lost /\ open' = open /\ excuse' = excuse
  BY DEF NetworkChanges, rxBuffer, rxCall, history
<1>2. net' \in {"up", "closed", "broken"} /\ net # "broken"
  BY DEF NetworkChanges
<1>3. RxData'
  <2>1. Bytes' = Bytes
    BY <1>1 DEF Bytes, Unread
  <2> QED BY <1>1, <2>1 DEF RxInv, RxData, RxTyped, NoByteAstray
<1>4. Flags'
  BY <1>1, <1>2, Zenon DEF RxInv, Flags
<1>5. CallTyped' /\ Flushing'
  BY <1>1 DEF RxInv, CallTyped, Flushing
<1>6. Reasons'
  BY <1>1, <1>2 DEF RxInv, Reasons, Failing, SoundConnectionKept
<1> QED BY <1>3, <1>4, <1>5, <1>6 DEF RxInv

(* Every step keeps the way in.                                               *)
LEMMA RxNextInv == RxInv /\ [Next]_vars => RxInv'
<1> SUFFICES ASSUME RxInv, [Next]_vars PROVE RxInv'
  OBVIOUS
<1>1. CASE UNCHANGED vars
  <2>1. UNCHANGED <<handle, rxBuffer, left, toFlush, peer, history>>
    BY <1>1 DEF vars, rxCall
  <2>2. connected' = connected /\ pc' = pc /\ len' = len
    BY <1>1 DEF vars, rxCall
  <2> QED BY <2>1, <2>2, RxFrame DEF RxInv, Flags
<1>2. CASE Next
  BY <1>2, ReadKept, WritesKeepRx, BeginsKept, StopsKept, FlushKept,
     FlushTakesKept, PeerSendsKept, NetworkKept DEF Next, Calls, Steps
<1> QED BY <1>1, <1>2

(* A client that never connected.                                             *)
LEMMA RxInitInv == Init => RxInv
<1> SUFFICES ASSUME Init PROVE RxInv
  OBVIOUS
<1>1. RxData
  BY EmptyData DEF Init, Empty
<1>2. Flags
  BY DEF Init, Flags
<1>3. CallTyped
  BY WiFiClientAssumption DEF Init, Quiet, CallTyped
<1>4. Flushing /\ Reasons
  BY DEF Init, Flushing, Reasons, Failing, SoundConnectionKept
<1> QED BY <1>1, <1>2, <1>3, <1>4 DEF RxInv

(* The receiving half of the client keeps its invariant.                      *)
THEOREM ReceivingInvariant == Spec => []RxInv
BY RxInitInv, RxNextInv, PTL DEF Spec

(* The bytes handed out by read(), those buffered and those in the socket are *)
(* the bytes of the peer, each once and in order, less those that flush() and *)
(* stop() threw away, for any sizes of the buffers and of the reads.          *)
THEOREM NothingAstray == Spec => []NoByteAstray
<1>1. RxInv => NoByteAstray
  BY DEF RxInv, RxData
<1> QED BY <1>1, ReceivingInvariant, PTL

(* A client is stopped by its own calls only if its connection broke, memory  *)
(* ran out, or flush() was called with bytes in the buffer.                   *)
THEOREM SoundConnectionIsKept == Spec => []SoundConnectionKept
<1>1. RxInv => SoundConnectionKept
  BY DEF RxInv, Reasons
<1> QED BY <1>1, ReceivingInvariant, PTL

-----------------------------------------------------------------------------
(* Writing.                                                                   *)

(* A sequence that counts, one that counts from lo on, and one below lo.      *)
Counts(s) == \A k \in 1 .. Len(s) : s[k] = k
CountsFrom(s, lo) == \A k \in 1 .. Len(s) : s[k] = lo + k - 1
Below(s, lo) == \A k \in 1 .. Len(s) : s[k] < lo

(* It is the identity, which is how WireFollowsSource states it.              *)
LEMMA CountsIs ==
  ASSUME NEW s \in Seq(1 .. MaxWrite)
  PROVE  Counts(s) <=> s = [k \in 1 .. Len(s) |-> k]
<1>1. s = [k \in 1 .. Len(s) |-> s[k]]
  OBVIOUS
<1> QED BY <1>1, Zenon DEF Counts

(* send() takes t, the n bytes of the source from lo on.                      *)
LEMMA Extended ==
  ASSUME NEW w \in Seq(1 .. MaxWrite), NEW lo \in Nat, NEW n \in Nat,
         NEW t \in Seq(1 .. MaxWrite), Len(t) = n,
         CountsFrom(t, lo), Ascending(w), Below(w, lo)
  PROVE  /\ w \o t \in Seq(1 .. MaxWrite) /\ Len(w \o t) = Len(w) + n
         /\ Ascending(w \o t)
         /\ Below(w \o t, lo + n)
         /\ Counts(w) /\ Len(w) = lo - 1 => Counts(w \o t)
<1> DEFINE S == 1 .. MaxWrite
           v == w \o t
<1>1. Len(w) \in Nat /\ w \in Seq(S) /\ t \in Seq(S) /\ S \subseteq Nat
  BY WiFiClientAssumption
<1> HIDE DEF S
<1>2. \A j \in 1 .. Len(w) : w[j] \in Nat
  <2>1. \A j \in 1 .. Len(w) : w[j] \in S
    BY <1>1, ElementOfSeq
  <2> QED BY <1>1, <2>1
<1>3. /\ v \in Seq(S) /\ Len(v) = Len(w) + n
      /\ \A i \in 1 .. Len(w) + n :
           v[i] = IF i <= Len(w) THEN w[i] ELSE t[i - Len(w)]
  BY <1>1, ConcatProperties
<1> HIDE DEF v
<1>4. ASSUME NEW i \in 1 .. Len(w) + n
      PROVE  v[i] = IF i <= Len(w) THEN w[i] ELSE lo + (i - Len(w)) - 1
  <2>1. ~(i <= Len(w)) => i - Len(w) \in 1 .. n
    BY <1>1
  <2> QED BY <1>3, <2>1 DEF CountsFrom
<1>5. ASSUME NEW i \in 1 .. Len(w) + n PROVE v[i] < lo + n
  BY <1>1, <1>2, <1>4 DEF Below
<1>6. ASSUME NEW i \in 1 .. Len(w) + n, NEW j \in 1 .. Len(w) + n, i < j
      PROVE  v[i] < v[j]
  <2>1. CASE j <= Len(w)
    <3>1. i \in 1 .. Len(w) /\ j \in 1 .. Len(w)
      BY <1>1, <1>6, <2>1
    <3>2. v[i] = w[i] /\ v[j] = w[j]
      BY <1>1, <1>4, <3>1
    <3> QED BY <1>6, <3>1, <3>2 DEF Ascending
  <2>2. CASE ~(j <= Len(w))
    BY <1>1, <1>2, <1>4, <1>6, <2>2 DEF Below
  <2> QED BY <2>1, <2>2
<1>7. ASSUME Counts(w), Len(w) = lo - 1 PROVE Counts(v)
  <2>1. ASSUME NEW i \in 1 .. Len(w) + n PROVE v[i] = i
    <3>1. CASE i <= Len(w)
      <4>1. i \in 1 .. Len(w)
        BY <1>1, <3>1
      <4> QED BY <1>4, <1>7, <3>1, <4>1, Zenon DEF Counts
    <3>2. CASE ~(i <= Len(w))
      <4>1. v[i] = lo + (i - Len(w)) - 1
        BY <1>4, <3>2, Zenon
      <4> QED BY <1>1, <1>7, <4>1
    <3> QED BY <3>1, <3>2
  <2> QED BY <1>3, <2>1, Zenon DEF Counts
<1> QED BY <1>3, <1>5, <1>6, <1>7 DEF Ascending, Below, S, v

(* A step outside write(), or one that leaves the write() as it is.           *)
LEMMA TxFrame ==
  ASSUME TxInv, UNCHANGED txCall,
         \/ pc' = pc /\ connected' = connected /\ handle' = handle
         \/ pc # "write" /\ pc' # "write"
  PROVE  TxInv'
<1>1. /\ retry' = retry /\ next' = next /\ hi' = hi /\ srcEnd' = srcEnd
      /\ total' = total /\ answer' = answer /\ wire' = wire /\ cut' = cut
  BY DEF txCall
<1>2. WriteTyped'
  BY <1>1 DEF TxInv, WriteTyped
<1>3. Counting'
  BY <1>1 DEF TxInv, Counting
<1>4. Ascending(wire)'
  BY <1>1 DEF TxInv, Ascending
<1>5. Sending'
  <2>1. CASE pc' = pc /\ connected' = connected /\ handle' = handle
    BY <1>1, <2>1 DEF TxInv, Sending
  <2>2. CASE pc # "write" /\ pc' # "write"
    BY <1>1, <2>2 DEF TxInv, Sending
  <2> QED BY <2>1, <2>2
<1> QED BY <1>2, <1>3, <1>4, <1>5 DEF TxInv

(* write() and write(Stream) begin with nothing sent.                         *)
LEMMA WriteBegins ==
  ASSUME TxInv, NEW n \in 0 .. MaxWrite, NEW h \in 0 .. n, StartWrite(1, h),
         srcEnd' = n, answer' = 0, wire' = <<>>, cut' = {},
         connected' = connected, handle' = handle
  PROVE  TxInv'
<1>1. /\ pc' = "write" /\ next' = 1 /\ hi' = h /\ total' = 0
      /\ retry' = IF connected /\ handle THEN MaxRetry ELSE 0
  BY DEF StartWrite
<1>2. MaxRetry \in Nat \ {0} /\ MaxWrite \in Nat
  BY WiFiClientAssumption
<1>3. retry' \in 0 .. MaxRetry /\ (retry' > 0 <=> connected /\ handle)
  BY <1>1, <1>2
<1>4. <<>> \in Seq(1 .. MaxWrite) /\ Len(<<>>) = 0
  OBVIOUS
<1>5. WriteTyped'
  BY <1>1, <1>2, <1>3, <1>4 DEF WriteTyped
<1>6. Counting'
  BY <1>1, <1>4 DEF Counting
<1>7. Ascending(wire)'
  BY <1>4 DEF Ascending
<1>8. wire' = [k \in 1 .. Len(wire') |-> k]
  BY <1>4
<1>9. Sending'
  BY <1>1, <1>3, <1>4, <1>8 DEF Sending
<1> QED BY <1>5, <1>6, <1>7, <1>9 DEF TxInv

(* send() takes a part: what was sent stays right behind the next byte, and   *)
(* the tries end with that byte past the end.                                 *)
LEMMA SendSomeKept ==
  ASSUME TxInv, SendSome
  PROVE  TxInv'
<1>1. /\ pc = "write" /\ pc' = "write" /\ retry > 0 /\ hi' = hi
      /\ srcEnd' = srcEnd /\ answer' = answer /\ cut' = cut
      /\ connected' = connected /\ handle' = handle
  BY DEF SendSome
<1>2. PICK n \in 1 .. hi - next + 1 :
        /\ wire' = wire \o [k \in 1 .. n |-> next + k - 1]
        /\ total' = total + n /\ next' = next + n
        /\ retry' = IF next + n > hi THEN 0 ELSE MaxRetry
  BY DEF SendSome
<1>3. /\ WriteTyped /\ MaxWrite \in Nat /\ MaxRetry \in Nat \ {0}
      /\ hi \in Nat /\ hi <= MaxWrite /\ next \in Nat /\ 1 <= next
      /\ next <= hi + 1 /\ total \in Nat /\ answer \in Nat
      /\ wire \in Seq(1 .. MaxWrite) /\ Len(wire) \in Nat
  BY WiFiClientAssumption DEF TxInv, WriteTyped
<1>4. /\ n \in Nat /\ 1 <= n /\ next + n - 1 <= hi
      /\ next + n - 1 <= MaxWrite
  BY <1>3
<1>5. /\ answer + total <= next - 1
      /\ "select" \notin cut => Len(wire) = answer + total
  BY <1>1 DEF TxInv, Counting
<1>6. /\ \A j \in 1 .. Len(wire) : wire[j] < next
      /\ connected /\ handle
      /\ cut = {} => Len(wire) = next - 1
      /\ cut = {} => wire = [k \in 1 .. Len(wire) |-> k]
  BY <1>1 DEF TxInv, Sending
<1>7. /\ wire' \in Seq(1 .. MaxWrite) /\ Len(wire') = Len(wire) + n
      /\ Ascending(wire')
      /\ \A j \in 1 .. Len(wire') : wire'[j] < next + n
      /\ wire = [k \in 1 .. Len(wire) |-> k] /\ Len(wire) = next - 1 =>
           wire' = [k \in 1 .. Len(wire') |-> k]
  <2> DEFINE t == [k \in 1 .. n |-> next + k - 1]
  <2>1. t \in Seq(1 .. MaxWrite) /\ Len(t) = n /\ CountsFrom(t, next)
    <3>1. \A k \in 1 .. n : next + k - 1 \in 1 .. MaxWrite
      BY <1>3, <1>4
    <3> QED BY <1>4, <3>1 DEF CountsFrom
  <2>2. wire' = wire \o t
    BY <1>2
  <2> HIDE DEF t
  <2>3. Ascending(wire) /\ Below(wire, next)
    BY <1>6 DEF TxInv, Below
  <2>4. wire \in Seq(1 .. MaxWrite) /\ next \in Nat
    BY <1>3
  <2>6. /\ wire \o t \in Seq(1 .. MaxWrite)
        /\ Len(wire \o t) = Len(wire) + n
        /\ Ascending(wire \o t) /\ Below(wire \o t, next + n)
        /\ Counts(wire) /\ Len(wire) = next - 1 => Counts(wire \o t)
    BY <1>4, <2>1, <2>3, <2>4, Extended
  <2>7. (Counts(wire) <=> wire = [k \in 1 .. Len(wire) |-> k])
    BY <2>4, CountsIs
  <2>8. (Counts(wire \o t) <=>
           wire \o t = [k \in 1 .. Len(wire \o t) |-> k])
    BY <2>6, CountsIs
  <2> QED BY <2>2, <2>6, <2>7, <2>8, Zenon DEF Below
<1>8. WriteTyped'
  <2>1. total' \in 0 .. MaxWrite /\ next' \in 1 .. hi' + 1
        /\ retry' \in 0 .. MaxRetry
    BY <1>1, <1>2, <1>3, <1>4, <1>5
  <2> QED BY <1>1, <1>7, <2>1 DEF TxInv, WriteTyped
<1>9. Counting'
  <2>1. answer' + total' <= next' - 1
    BY <1>1, <1>2, <1>3, <1>4, <1>5
  <2>2. Len(wire) = answer + total => Len(wire') = answer' + total'
    <3>1. /\ Len(wire') = Len(wire) + n /\ total' = total + n
          /\ answer' = answer
      BY <1>1, <1>2, <1>7
    <3> QED BY <1>3, <1>4, <3>1
  <2>3. "select" \notin cut' => Len(wire') = answer' + total'
    BY <1>1, <1>5, <2>2, Zenon
  <2> QED BY <1>1, <2>1, <2>3 DEF Counting
<1>10. Sending'
  <2>1. cut' = {} => wire' = [k \in 1 .. Len(wire') |-> k]
    BY <1>1, <1>6, <1>7, Zenon
  <2>2. \A j \in 1 .. Len(wire') : wire'[j] < next'
    BY <1>2, <1>7, Zenon
  <2>3. Len(wire) = next - 1 => Len(wire') = next' - 1
    <3>1. Len(wire') = Len(wire) + n /\ next' = next + n
      BY <1>2, <1>7
    <3> QED BY <1>3, <1>4, <3>1
  <2>4. retry' = 0 => next' > hi'
    BY <1>1, <1>2, <1>3
  <2> QED BY <1>1, <1>6, <2>1, <2>2, <2>3, <2>4, Zenon DEF Sending
<1> QED BY <1>7, <1>8, <1>9, <1>10 DEF TxInv, Ascending

(* send() takes nothing, or fails, or select() does.                          *)
LEMMA SendRestKept ==
  ASSUME TxInv, SendNothing \/ SendFails \/ SelectFails
  PROVE  TxInv'
<1>1. /\ pc = "write" /\ pc' = "write" /\ retry > 0 /\ hi' = hi
      /\ next' = next /\ srcEnd' = srcEnd /\ answer' = answer /\ wire' = wire
  BY DEF SendNothing, SendFails, SelectFails
<1>2. \/ /\ connected' = connected /\ handle' = handle
         /\ retry' = retry - 1 /\ total' = total
         /\ cut' = IF retry = 1 /\ next <= hi THEN cut \cup {"retries"} ELSE cut
      \/ handle' = FALSE /\ retry' = 0 /\ total' = total /\ cut' = cut
      \/ retry' = 0 /\ total' = 0 /\ cut' = cut \cup {"select"}
  BY DEF SendNothing, SendFails, SelectFails, StopWith
<1>3. /\ WriteTyped /\ MaxWrite \in Nat /\ MaxRetry \in Nat \ {0}
      /\ hi \in Nat /\ next \in Nat /\ next <= hi + 1 /\ total \in Nat
      /\ answer \in Nat /\ retry \in Nat /\ retry <= MaxRetry
      /\ total <= MaxWrite /\ cut \subseteq {"retries", "select"}
  BY WiFiClientAssumption DEF TxInv, WriteTyped
<1>4. /\ answer + total <= next - 1
      /\ "select" \notin cut => Len(wire) = answer + total
  BY <1>1 DEF TxInv, Counting
<1>5. /\ \A j \in 1 .. Len(wire) : wire[j] < next
      /\ connected /\ handle
      /\ cut = {} => Len(wire) = next - 1
      /\ cut = {} => wire = [k \in 1 .. Len(wire) |-> k]
  BY <1>1 DEF TxInv, Sending
<1>6. retry' \in 0 .. MaxRetry /\ total' \in 0 .. MaxWrite
  BY <1>1, <1>2, <1>3
<1>7. cut' \subseteq {"retries", "select"} /\ cut \subseteq cut'
  BY <1>2, <1>3
<1>8. WriteTyped'
  BY <1>1, <1>3, <1>6, <1>7 DEF WriteTyped
<1>9. Counting'
  <2>1. answer' + total' <= next' - 1
    BY <1>1, <1>2, <1>3, <1>4
  <2>2. "select" \notin cut' => "select" \notin cut /\ total' = total
    BY <1>2
  <2> QED BY <1>1, <1>4, <2>1, <2>2 DEF Counting
<1>10. Sending'
  <2>1. cut' = {} => cut = {}
    BY <1>7
  <2>2. cut' = {} => wire' = [k \in 1 .. Len(wire') |-> k]
    BY <1>1, <1>5, <2>1, Zenon
  <2>3. \A j \in 1 .. Len(wire') : wire'[j] < next'
    BY <1>1, <1>5, Zenon
  <2>4. retry' > 0 => connected' /\ handle'
    <3>1. ~(0 > 0)
      OBVIOUS
    <3> QED BY <1>2, <1>5, <3>1, Zenon
  <2>5. cut' = {} /\ handle' => retry' = retry - 1 /\ ~(retry = 1 /\ next <= hi)
    <3>1. \A x : cut \cup {x} # {}
      OBVIOUS
    <3> QED BY <1>2, <3>1, Zenon
  <2>6. cut' = {} /\ handle' => (retry' = 0 => next' > hi')
    BY <1>1, <1>3, <2>5
  <2>7. cut' = {} => Len(wire') = next' - 1
    BY <1>1, <1>5, <2>1, Zenon
  <2> QED BY <2>2, <2>3, <2>4, <2>6, <2>7, Zenon DEF Sending
<1> QED BY <1>1, <1>8, <1>9, <1>10 DEF TxInv, Ascending

(* write() returns, and write(Stream) goes on behind the bytes it was given.  *)
LEMMA WriteReturnsKept ==
  ASSUME TxInv, WriteReturns
  PROVE  TxInv'
<1>1. /\ pc = "write" /\ retry = 0 /\ answer' = answer + total
      /\ wire' = wire /\ cut' = cut
      /\ connected' = connected /\ handle' = handle
  BY DEF WriteReturns
<1>2. /\ WriteTyped /\ MaxWrite \in Nat /\ MaxRetry \in Nat \ {0}
      /\ hi \in Nat /\ hi <= MaxWrite /\ next \in Nat /\ next <= hi + 1
      /\ total \in Nat /\ answer \in Nat /\ Chunk \in Nat \ {0}
      /\ srcEnd \in Nat /\ srcEnd <= MaxWrite
  BY WiFiClientAssumption DEF TxInv, WriteTyped
<1>3. /\ answer + total <= next - 1
      /\ "select" \notin cut => Len(wire) = answer + total
  BY <1>1 DEF TxInv, Counting
<1>4. /\ \A j \in 1 .. Len(wire) : wire[j] < next
      /\ cut = {} => wire = [k \in 1 .. Len(wire) |-> k]
      /\ cut = {} /\ connected /\ handle =>
           Len(wire) = next - 1 /\ next > hi
  BY <1>1 DEF TxInv, Sending
<1>5. answer' \in 0 .. MaxWrite /\ answer' \in Nat /\ answer' <= hi
  BY <1>1, <1>2, <1>3
<1>6. Ascending(wire)'
  BY <1>1 DEF TxInv, Ascending
<1>7. CASE hi < srcEnd
  <2> DEFINE h == Min({srcEnd, hi + Chunk})
  <2>1. /\ pc' = "write" /\ next' = hi + 1 /\ hi' = h /\ total' = 0
        /\ retry' = (IF connected /\ handle THEN MaxRetry ELSE 0)
        /\ srcEnd' = srcEnd
    BY <1>7 DEF WriteReturns, StartWrite
  <2>2. h \in {srcEnd, hi + Chunk} /\ h <= srcEnd
    <3>1. srcEnd \in Int /\ hi + Chunk \in Int
      BY <1>2
    <3> QED BY <3>1, LeastOf
  <2> HIDE DEF h
  <2>3. h \in Nat /\ hi < h /\ h <= MaxWrite
    BY <1>2, <1>7, <2>2
  <2>4. retry' \in 0 .. MaxRetry /\ (retry' > 0 <=> connected /\ handle)
        /\ (retry' = 0 <=> ~(connected /\ handle))
    BY <1>2, <2>1
  <2>5. WriteTyped'
    <3>1. /\ hi' \in 0 .. MaxWrite /\ next' \in 1 .. hi' + 1
          /\ srcEnd' \in {0} \cup hi' .. MaxWrite /\ total' \in 0 .. MaxWrite
      BY <1>2, <2>1, <2>2, <2>3
    <3> QED BY <1>1, <1>2, <1>5, <2>4, <3>1 DEF WriteTyped
  <2>6. Counting'
    <3>1. answer' + total' <= next' - 1 /\ answer' + total' = answer + total
      BY <1>1, <1>2, <1>5, <2>1
    <3> QED BY <1>1, <1>3, <2>1, <3>1 DEF Counting
  <2>7. Sending'
    <3>1. \A j \in 1 .. Len(wire) : wire[j] < hi + 1
      <4>1. ASSUME NEW j \in 1 .. Len(wire) PROVE wire[j] \in Int
        BY <1>2 DEF WriteTyped
      <4> QED BY <1>2, <1>4, <4>1
    <3>2. next > hi => next - 1 = (hi + 1) - 1
      BY <1>2
    <3>3. retry' > 0 => connected' /\ handle'
      BY <1>1, <2>4, Zenon
    <3>4. cut' = {} /\ connected' /\ handle' =>
            Len(wire') = next' - 1 /\ ~(retry' = 0)
      BY <1>1, <1>4, <2>1, <2>4, <3>2, Zenon
    <3>5. \A j \in 1 .. Len(wire') : wire'[j] < next'
      BY <1>1, <2>1, <3>1, Zenon
    <3> QED BY <1>1, <1>4, <2>1, <3>3, <3>4, <3>5, Zenon DEF Sending
  <2> QED BY <1>6, <2>5, <2>6, <2>7 DEF TxInv
<1>8. CASE ~(hi < srcEnd)
  <2>1. /\ pc' = "idle" /\ next' = 1 /\ hi' = 0 /\ srcEnd' = 0
        /\ total' = 0 /\ retry' = 0
    BY <1>8 DEF WriteReturns
  <2>2. WriteTyped'
    BY <1>1, <1>2, <1>5, <2>1 DEF WriteTyped
  <2>3. Counting'
    BY <1>1, <1>3, <2>1 DEF Counting
  <2>4. Sending'
    BY <1>1, <1>4, <2>1 DEF Sending
  <2> QED BY <1>6, <2>2, <2>3, <2>4 DEF TxInv
<1> QED BY <1>7, <1>8

(* No other call touches a write(), and a write() is not interrupted.         *)
LEMMA TxNextInv == TxInv /\ [Next]_vars => TxInv'
<1> SUFFICES ASSUME TxInv, [Next]_vars PROVE TxInv'
  OBVIOUS
<1>1. CASE UNCHANGED vars \/ FlushSpins \/ PeerSends \/ NetworkChanges
  <2>1. UNCHANGED txCall /\ pc' = pc
        /\ connected' = connected /\ handle' = handle
    BY <1>1 DEF vars, FlushSpins, PeerSends, NetworkChanges
  <2> QED BY <2>1, TxFrame
<1>2. CASE \/ Connect \/ Stop \/ NullRead \/ AvailableFails \/ Read
           \/ Flush \/ ConnectedCall \/ FlushTakes \/ FlushStops
  <2>1. UNCHANGED txCall
    BY <1>2 DEF Connect, Stop, NullRead, AvailableFails, Read, Flush,
                ConnectedCall, FlushTakes, FlushStops
  <2>2. pc # "write" /\ pc' # "write"
    BY <1>2 DEF Connect, Stop, NullRead, AvailableFails, Read, Flush,
                ConnectedCall, FlushTakes, FlushStops, Return
  <2> QED BY <2>1, <2>2, TxFrame
<1>3. CASE ReadFirst \/ ReadFast \/ ReadSlow \/ Peek
  <2>1. pc # "write"
    BY <1>3 DEF ReadFirst, ReadFast, ReadSlow, Peek
  <2>2. \E o, n, rest, step : step # "write" /\ Take(o, n, step, rest)
    <3>1. "idle" # "write" /\ "fast" # "write" /\ "slow" # "write"
      OBVIOUS
    <3> QED BY <1>3, <3>1, Zenon DEF ReadFirst, ReadFast, ReadSlow, Peek
  <2>3. UNCHANGED txCall /\ pc' # "write"
    <3>1. "idle" # "write"
      OBVIOUS
    <3> QED BY <2>2, <3>1, Zenon DEF Take, Return
  <2> QED BY <2>1, <2>3, TxFrame
<1>4. CASE Write
  <2>1. PICK n \in 0 .. MaxWrite : StartWrite(1, n) /\ srcEnd' = n
    BY <1>4 DEF Write
  <2>2. /\ answer' = 0 /\ wire' = <<>> /\ cut' = {}
        /\ connected' = connected /\ handle' = handle
    BY <1>4 DEF Write
  <2>3. n \in 0 .. n
    BY WiFiClientAssumption
  <2> QED BY <2>1, <2>2, <2>3, WriteBegins
<1>5. CASE WriteStream
  <2>1. PICK n \in 1 .. MaxWrite :
          StartWrite(1, Min({n, Chunk})) /\ srcEnd' = n
    BY <1>5 DEF WriteStream
  <2>2. /\ answer' = 0 /\ wire' = <<>> /\ cut' = {}
        /\ connected' = connected /\ handle' = handle
    BY <1>5 DEF WriteStream
  <2>3. n \in Int /\ Chunk \in Int /\ Chunk \in Nat /\ MaxWrite \in Nat
    BY WiFiClientAssumption
  <2>4. Min({n, Chunk}) \in {n, Chunk} /\ Min({n, Chunk}) <= n
    BY <2>3, LeastOf
  <2>5. Min({n, Chunk}) \in 0 .. n /\ n \in 0 .. MaxWrite
    BY <2>3, <2>4
  <2> QED BY <2>1, <2>2, <2>5, WriteBegins
<1> QED BY <1>1, <1>2, <1>3, <1>4, <1>5, SendSomeKept, SendRestKept,
           WriteReturnsKept DEF Next, Calls, Steps

(* Before the first write() nothing is on the wire.                           *)
LEMMA TxInitInv == Init => TxInv
<1> SUFFICES ASSUME Init PROVE TxInv
  OBVIOUS
<1>1. <<>> \in Seq(1 .. MaxWrite) /\ Len(<<>>) = 0
      /\ <<>> = [k \in 1 .. Len(<<>>) |-> k]
  OBVIOUS
<1>2. WriteTyped
  BY <1>1, WiFiClientAssumption DEF Init, Quiet, WriteTyped
<1>3. Counting /\ Ascending(wire) /\ Sending
  BY <1>1 DEF Init, Quiet, Counting, Ascending, Sending
<1> QED BY <1>2, <1>3 DEF TxInv

(* The sending half of the client keeps its invariant.                        *)
THEOREM SendingInvariant == Spec => []TxInv
BY TxInitInv, TxNextInv, PTL DEF Spec

(* write() and write(Stream) put their source onto the wire in order and      *)
(* without a repetition, leave nothing out and count what they sent, unless   *)
(* they ran out of tries or select() failed.                                  *)
THEOREM WireAlwaysFollows == Spec => []WireFollowsSource
<1>1. TxInv => WireFollowsSource
  <2> SUFFICES ASSUME TxInv PROVE WireFollowsSource
    OBVIOUS
  <2>1. Ascending(wire) /\ (cut = {} => wire = [k \in 1 .. Len(wire) |-> k])
    BY DEF TxInv, Sending
  <2>2. "select" \notin cut /\ pc = "idle" => answer = Len(wire)
    BY DEF TxInv, Counting
  <2> QED BY <2>1, <2>2 DEF WireFollowsSource
<1> QED BY <1>1, SendingInvariant, PTL

(* The indices stay inside the receive buffer and a write() inside its        *)
(* source, whatever the calls and the network do.                             *)
THEOREM WiFiClientTypeCorrect == Spec => []TypeOK
<1>1. RxInv /\ TxInv => TypeOK
  <2> SUFFICES ASSUME RxInv, TxInv PROVE TypeOK
    OBVIOUS
  <2>1. lost \subseteq 1 .. MaxBytes
    <3>1. lost \subseteq 1 .. sent /\ sent \in 0 .. MaxBytes /\ MaxBytes \in Nat
      BY WiFiClientAssumption DEF RxInv, RxData, RxTyped
    <3> QED BY <3>1
  <2>2. /\ buf \in Seq(1 .. MaxBytes) /\ Len(buf) <= Size
        /\ pos \in 0 .. Len(buf) /\ queue \in Seq(1 .. MaxBytes)
        /\ sent \in 0 .. MaxBytes /\ got \in Seq(1 .. MaxBytes)
    BY DEF RxInv, RxData, RxTyped, Byte
  <2> QED BY <2>1, <2>2, Zenon
          DEF RxInv, TxInv, Flags, CallTyped, WriteTyped, TypeOK
<1> QED BY <1>1, ReceivingInvariant, SendingInvariant, PTL

=============================================================================
