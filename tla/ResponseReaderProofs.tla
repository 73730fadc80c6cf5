------------------------ MODULE ResponseReaderProofs ------------------------
(* For well-formed responses of any length, cut into packets anywhere, and a  *)
(* line buffer of any size: checkForHttpResponse() finds the end of the       *)
(* headers, the declared length and the body where they are.                  *)
EXTENDS ResponseReader, FiniteSetTheorems, TLAPS

-----------------------------------------------------------------------------
(* The inductive invariant                                                    *)

(* Where the piece of a line that is being read, or judged, begins.           *)
From == IF pc = "judge" /\ Len(line) < LineMax
        THEN taken - Len(line) - 1 ELSE taken - Len(line)

(* The line holds what follows f in r.                                        *)
Piece(r, f, l) ==
    \A n \in 1 .. Len(l) : l[n] = r[f + n] /\ r[f + n] # "CR"

(* f is at the start of a line of r, or full pieces of a line behind it.      *)
OnLine(r, f) ==
    \E c \in 0 .. f : /\ c = 0 \/ r[c] = "CR"
                      /\ \A m \in c + 1 .. f : r[m] # "CR"
                      /\ (f - c) % LineMax = 0

Phases == {"waiting", "headers", "line", "judge", "body",
           "processed", "success", "failed", "crashed"}

ReaderTyped ==
    /\ response \in Responses
    /\ arrived \in 0 .. Len(response) /\ taken \in 0 .. arrived
    /\ line \in Seq(Parts) /\ Len(line) <= LineMax
    /\ responseBuffer \in Seq(Parts \cup {NoByte})
    /\ pc \in Phases /\ cut \in BOOLEAN /\ whole \in BOOLEAN
    /\ statusCodeFound \in BOOLEAN /\ broken \in BOOLEAN
    /\ whole /\ ~broken => arrived = Len(response)
    /\ broken => arrived = taken
    /\ broken /\ ~cut => pc \notin {"waiting", "judge"}
    /\ broken /\ ~cut /\ pc = "line" => Len(line) < LineMax
    /\ pc \in {"waiting", "headers"} => line = <<>>
    /\ pc = "waiting" => taken = 0 /\ ~cut

InHeaders == pc \in {"waiting", "headers", "line", "judge"}

(* A piece that is judged was ended by a '\r' or is full; the one before the  *)
(* end of the headers is the '\n' of the empty line.                          *)
Judging ==
    /\ Len(line) < LineMax => response[taken] = "CR"
    /\ taken <= HeadersOf(response)
    /\ taken = HeadersOf(response) => Len(line) = 1 /\ line[1] = "NL"

Reading ==
    InHeaders /\ ~cut =>
      /\ From \in Nat
      /\ Piece(response, From, line)
      /\ OnLine(response, From)
      /\ IF pc = "judge" THEN Judging ELSE taken < HeadersOf(response)

(* How much of responseBuffer the server has sent.                            *)
Got == IF broken THEN Len(responseBuffer) - 1 ELSE Len(responseBuffer)

(* The body is handed out from its first byte on.                             *)
BodyRead ==
    /\ InHeaders => responseBuffer = <<>>
    /\ pc \in {"body", "success"} /\ ~cut =>
         /\ Got \in Nat /\ taken = HeadersOf(response) + Got
         /\ \A n \in 1 .. Got :
              responseBuffer[n] = response[HeadersOf(response) + n]

(* Once its line lies behind, the declared length is known.                   *)
LengthKnown ==
    ~cut /\ Declares(response) =>
      /\ InHeaders =>
           \A p \in 1 .. From : response[p] = "L" =>
             contentLength = Digits(response)
      /\ pc \in {"body", "processed"} => contentLength = Digits(response)

(* Nothing can go wrong with a response that has arrived as a whole.          *)
WholeRead ==
    /\ whole /\ ~broken => ~cut
    /\ Contains(response, "200") /\ whole /\ ~broken =>
         /\ InHeaders /\ From > 0 => statusCodeFound
         /\ pc # "crashed"
         /\ pc = "success" => taken = Len(response)
         /\ pc = "failed" => BodyOf(response) = <<>>

ReaderInv == ReaderTyped /\ Reading /\ BodyRead /\ LengthKnown /\ WholeRead

-----------------------------------------------------------------------------
(* Lines and pieces of a response                                             *)

(* The end of the headers is where an empty line ends.                        *)
LEMMA HeadersEnd ==
  ASSUME NEW r \in Responses
  PROVE  /\ r \in Seq(Parts) /\ Len(r) \in Nat
         /\ HeadersOf(r) \in 3 .. Len(r) /\ EmptyLine(r, HeadersOf(r))
<1>1. WellFormed(r)
  BY ReaderAssumption
<1>2. PICK n \in 3 .. Len(r) : EndsHeaderPart(r, n)
  BY <1>1 DEF WellFormed
<1>3. HeadersOf(r) \in 3 .. Len(r) /\ EndsHeaderPart(r, HeadersOf(r))
  BY <1>2 DEF HeadersOf
<1> QED BY <1>1, <1>3 DEF WellFormed, EndsHeaderPart

(* Full pieces leave nothing over, and one character more leaves one.         *)
LEMMA FullPieces ==
  ASSUME NEW x \in Nat, x % LineMax = 0
  PROVE  /\ (x + LineMax) % LineMax = 0
         /\ (x + 1) % LineMax = 1
         /\ x > 0 => x >= LineMax
<1>1. LineMax \in Nat /\ LineMax >= 2
  BY ReaderAssumption
<1> DEFINE q == x \div LineMax
<1>2. q \in Int /\ x = q * LineMax
  BY <1>1
<1> HIDE DEF q
<1>3. ASSUME NEW y \in Int, NEW k \in Int, NEW d \in 0 .. LineMax - 1,
             y = k * LineMax + d
      PROVE  y % LineMax = d
  <2> DEFINE p == y \div LineMax  e == y % LineMax
  <2>1. p \in Int /\ e \in 0 .. LineMax - 1 /\ y = p * LineMax + e
    BY <1>1
  <2> HIDE DEF p, e
  <2>2. (k - p) * LineMax = e - d
    BY <1>1, <1>3, <2>1
  <2>3. ~(k - p >= 1)
    <3> SUFFICES ASSUME k - p >= 1 PROVE FALSE
      OBVIOUS
    <3>1. (k - p) * LineMax >= LineMax
      BY <1>1, <2>1
    <3> QED BY <1>1, <2>1, <2>2, <3>1
  <2>4. ~(k - p <= -1)
    <3> SUFFICES ASSUME k - p <= -1 PROVE FALSE
      OBVIOUS
    <3>1. (k - p) * LineMax <= -LineMax
      BY <1>1, <2>1
    <3> QED BY <1>1, <2>1, <2>2, <3>1
  <2>5. k = p
    BY <2>1, <2>3, <2>4
  <2> QED BY <1>1, <2>1, <2>2, <2>5 DEF e
<1>4. (x + LineMax) % LineMax = 0
  <2>1. x + LineMax = (q + 1) * LineMax + 0
    BY <1>1, <1>2
  <2> QED BY <1>1, <1>2, <1>3, <2>1
<1>5. (x + 1) % LineMax = 1
  BY <1>1, <1>2, <1>3
<1>6. x > 0 => x >= LineMax
  BY <1>1
<1> QED BY <1>4, <1>5, <1>6

(* A response begins with a line.                                             *)
LEMMA OnLineStart == ASSUME NEW r PROVE OnLine(r, 0)
<1>1. (0 - 0) % LineMax = 0
  BY ReaderAssumption
<1> QED BY <1>1 DEF OnLine

(* So does what follows a '\r'.                                               *)
LEMMA OnLineBehind ==
  ASSUME NEW r, NEW n \in Nat, r[n] = "CR" PROVE OnLine(r, n)
<1>1. (n - n) % LineMax = 0
  BY ReaderAssumption
<1>2. n \in 0 .. n /\ n + 1 .. n = {}
  OBVIOUS
<1> QED BY <1>1, <1>2 DEF OnLine

(* A full piece leads to the next piece of the same line.                     *)
LEMMA OnLineFull ==
  ASSUME NEW r, NEW f \in Nat, NEW l \in Seq(Parts), Len(l) = LineMax,
         OnLine(r, f), Piece(r, f, l)
  PROVE  OnLine(r, f + LineMax)
<1>1. PICK c \in 0 .. f : /\ c = 0 \/ r[c] = "CR"
                          /\ \A m \in c + 1 .. f : r[m] # "CR"
                          /\ (f - c) % LineMax = 0
  BY DEF OnLine
<1>2. (f + LineMax - c) % LineMax = 0
  <2>1. f - c \in Nat /\ f + LineMax - c = (f - c) + LineMax
    BY ReaderAssumption
  <2> QED BY <1>1, <2>1, FullPieces
<1>3. ASSUME NEW m \in c + 1 .. f + LineMax PROVE r[m] # "CR"
  <2>1. CASE m <= f
    BY <1>1, <2>1
  <2>2. CASE m > f
    <3>1. m - f \in 1 .. Len(l) /\ f + (m - f) = m
      BY <2>2, ReaderAssumption
    <3> QED BY <3>1 DEF Piece
  <2> QED BY <2>1, <2>2
<1>4. c \in 0 .. f + LineMax
  BY ReaderAssumption
<1> SUFFICES \E b \in 0 .. f + LineMax :
               /\ b = 0 \/ r[b] = "CR"
               /\ \A m \in b + 1 .. f + LineMax : r[m] # "CR"
               /\ (f + LineMax - b) % LineMax = 0
  BY ReaderAssumption DEF OnLine
<1> QED BY <1>1, <1>2, <1>3, <1>4

(* A piece that a '\r' ends belongs to a line that this '\r' ends.            *)
LEMMA LineOfPiece ==
  ASSUME NEW r, NEW f \in Nat, NEW l \in Seq(Parts),
         OnLine(r, f), Piece(r, f, l), r[f + Len(l) + 1] = "CR"
  PROVE  \E c \in 0 .. f : /\ IsLine(r, c, f + Len(l) + 1)
                           /\ (f - c) % LineMax = 0
<1>1. PICK c \in 0 .. f : /\ c = 0 \/ r[c] = "CR"
                          /\ \A m \in c + 1 .. f : r[m] # "CR"
                          /\ (f - c) % LineMax = 0
  BY DEF OnLine
<1>2. ASSUME NEW m \in c + 1 .. (f + Len(l) + 1) - 1 PROVE r[m] # "CR"
  <2>1. CASE m <= f
    BY <1>1, <2>1
  <2>2. CASE m > f
    <3>1. m - f \in 1 .. Len(l) /\ f + (m - f) = m
      BY <2>2
    <3> QED BY <3>1 DEF Piece
  <2> QED BY <2>1, <2>2
<1> QED BY <1>1, <1>2 DEF IsLine

(* A piece of one character that a '\r' ends is not before the empty line.    *)
LEMMA SingleIsEmptyLine ==
  ASSUME NEW r \in Responses, NEW f \in Nat, NEW l \in Seq(Parts), Len(l) = 1,
         OnLine(r, f), Piece(r, f, l),
         f + 2 <= HeadersOf(r), r[f + 2] = "CR"
  PROVE  f + 2 = HeadersOf(r)
<1>1. PICK c \in 0 .. f : IsLine(r, c, f + 2) /\ (f - c) % LineMax = 0
  <2>1. f + Len(l) + 1 = f + 2
    OBVIOUS
  <2>2. \E c \in 0 .. f : /\ IsLine(r, c, f + Len(l) + 1)
                          /\ (f - c) % LineMax = 0
    BY <2>1, LineOfPiece
  <2> QED BY <2>1, <2>2
<1>2. (f + 2 - c - 1) % LineMax = 1
  <2>1. f - c \in Nat /\ f + 2 - c - 1 = (f - c) + 1
    OBVIOUS
  <2> QED BY <1>1, <2>1, FullPieces
<1>3. \A e \in 1 .. HeadersOf(r) - 1 : \A s \in 0 .. e - 1 :
        IsLine(r, s, e) => (e - s - 1) % LineMax # 1
  BY ReaderAssumption DEF WellFormed
<1>4. HeadersOf(r) \in Nat
  BY HeadersEnd
<1>5. ASSUME f + 2 < HeadersOf(r) PROVE FALSE
  <2>1. f + 2 \in 1 .. HeadersOf(r) - 1 /\ c \in 0 .. (f + 2) - 1
    BY <1>4, <1>5
  <2> QED BY <1>1, <1>2, <1>3, <2>1
<1> QED BY <1>4, <1>5

(* The piece that the empty line's '\r' ends is its '\n'.                     *)
LEMMA EmptyLineIsSingle ==
  ASSUME NEW r \in Responses, NEW f \in Nat, NEW l \in Seq(Parts),
         OnLine(r, f), Piece(r, f, l), f + Len(l) + 1 = HeadersOf(r)
  PROVE  Len(l) = 1 /\ l[1] = "NL"
<1> DEFINE h == HeadersOf(r)
<1>1. /\ h \in Nat /\ h >= 3 /\ r[h - 2] = "CR" /\ r[h - 1] = "NL"
      /\ r[h] = "CR"
  BY HeadersEnd DEF EmptyLine
<1> HIDE DEF h
<1>2. PICK c \in 0 .. f : IsLine(r, c, h) /\ (f - c) % LineMax = 0
  BY <1>1, LineOfPiece DEF h
<1>3. c = h - 2
  <2>1. ~(c < h - 2)
    <3> SUFFICES ASSUME c < h - 2 PROVE FALSE
      OBVIOUS
    <3>1. h - 2 \in c + 1 .. h - 1
      BY <1>1
    <3> QED BY <1>1, <1>2, <3>1 DEF IsLine
  <2>2. c # h - 1
    BY <1>1, <1>2 DEF IsLine
  <2>3. c <= h - 1
    BY <1>1 DEF h
  <2> QED BY <1>1, <2>1, <2>2, <2>3
<1>4. f = c
  <2>1. f - c \in Nat /\ f - c <= 1
    BY <1>1, <1>3 DEF h
  <2>2. f - c > 0 => f - c >= LineMax
    BY <1>2, <2>1, FullPieces
  <2> QED BY <2>1, <2>2, ReaderAssumption
<1>5. ASSUME NEW n \in Nat, f + n + 1 = h PROVE n = 1 /\ f + 1 = h - 1
  BY <1>1, <1>3, <1>4, <1>5
<1>6. Len(l) = 1 /\ f + 1 = h - 1
  <2>1. Len(l) \in Nat /\ f + Len(l) + 1 = h
    BY DEF h
  <2> QED BY <1>5, <2>1
<1> QED BY <1>1, <1>6 DEF Piece

(* As many digits are in a text as in a part of it that holds them all.       *)
LEMMA SameDigits ==
  ASSUME NEW r \in Seq(Parts), NEW l \in Seq(Parts), NEW f \in Nat,
         f + Len(l) <= Len(r),
         \A n \in 1 .. Len(l) : l[n] = r[f + n],
         \A n \in 1 .. Len(r) : r[n] = "d" => n \in f + 1 .. f + Len(l)
  PROVE  Digits(l) = Digits(r)
<1> DEFINE S == {n \in 1 .. Len(l) : l[n] = "d"}
           T == {n \in 1 .. Len(r) : r[n] = "d"}
           g == [n \in S |-> f + n]
<1>1. IsFiniteSet(S)
  <2>1. IsFiniteSet(1 .. Len(l)) /\ S \in SUBSET (1 .. Len(l))
    BY FS_Interval
  <2> HIDE DEF S
  <2> QED BY <2>1, FS_Subset
<1>2. ExistsBijection(S, T)
  <2>1. g \in [S -> T]
    OBVIOUS
  <2>2. \A a, b \in S : g[a] = g[b] => a = b
    OBVIOUS
  <2>3. ASSUME NEW t \in T PROVE \E x \in S : g[x] = t
    <3>1. t \in f + 1 .. f + Len(l)
      OBVIOUS
    <3>2. t - f \in 1 .. Len(l) /\ f + (t - f) = t
      BY <3>1
    <3>3. t - f \in S /\ g[t - f] = t
      BY <3>2
    <3> QED BY <3>3
  <2> HIDE DEF S, T, g
  <2>4. g \in Bijection(S, T)
    BY <2>1, <2>2, <2>3 DEF Bijection, Injection, Surjection, IsInjective
  <2> QED BY <2>4 DEF ExistsBijection
<1>3. Cardinality(T) = Cardinality(S)
  <2> HIDE DEF S, T
  <2> QED BY <1>1, <1>2, FS_Bijection
<1> QED BY <1>3 DEF Digits

(* A piece with "Content-Length: " is the whole of the one such line.         *)
LEMMA LengthPiece ==
  ASSUME NEW r \in Responses, NEW f \in Nat, NEW l \in Seq(Parts),
         Len(l) <= LineMax, OnLine(r, f), Piece(r, f, l),
         f + Len(l) <= Len(r),
         Len(l) = LineMax \/ r[f + Len(l) + 1] = "CR",
         NEW q \in 1 .. Len(l), l[q] = "L"
  PROVE  /\ f > 0 /\ r[f] = "CR" /\ Digits(l) = Digits(r)
         /\ \A p \in 1 .. f : r[p] # "L"
<1>0. LineMax \in Nat /\ LineMax >= 2 /\ Len(l) \in Nat
  BY ReaderAssumption
<1>1. r \in Seq(Parts) /\ Len(r) \in Nat /\ HeadersOf(r) \in 3 .. Len(r)
  BY HeadersEnd
<1>2. f + q \in 1 .. Len(r) /\ r[f + q] = "L"
  BY <1>1 DEF Piece
<1>3. PICK e \in 1 .. HeadersOf(r) - 1 : \E s \in 1 .. e - 1 :
        /\ IsLine(r, s, e) /\ e - s - 1 <= LineMax
        /\ \A n \in 1 .. Len(r) : r[n] \in {"L", "d"} => n \in s + 1 .. e - 1
  <2>1. WellFormed(r)
    BY ReaderAssumption
  <2> QED BY <1>2, <2>1 DEF WellFormed
<1>4. PICK s \in 1 .. e - 1 :
        /\ IsLine(r, s, e) /\ e - s - 1 <= LineMax
        /\ \A n \in 1 .. Len(r) : r[n] \in {"L", "d"} => n \in s + 1 .. e - 1
  BY <1>3
<1>5. PICK c \in 0 .. f : /\ c = 0 \/ r[c] = "CR"
                          /\ \A m \in c + 1 .. f : r[m] # "CR"
                          /\ (f - c) % LineMax = 0
  BY DEF OnLine
<1>6. \A m \in c + 1 .. f + Len(l) : r[m] # "CR"
  <2> TAKE m \in c + 1 .. f + Len(l)
  <2>1. CASE m <= f
    BY <1>5, <2>1
  <2>2. CASE m > f
    <3>1. m - f \in 1 .. Len(l) /\ f + (m - f) = m
      BY <2>2
    <3> QED BY <3>1 DEF Piece
  <2> QED BY <2>1, <2>2
<1>7. e \in Nat /\ s \in Nat /\ f + q \in s + 1 .. e - 1
  BY <1>1, <1>2, <1>4
<1>8. c = s
  <2>1. ~(c < s)
    <3> SUFFICES ASSUME c < s PROVE FALSE
      OBVIOUS
    <3>1. s \in c + 1 .. f + Len(l)
      BY <1>7
    <3> QED BY <1>4, <1>6, <1>7, <3>1 DEF IsLine
  <2>2. ~(c > s)
    <3> SUFFICES ASSUME c > s PROVE FALSE
      OBVIOUS
    <3>1. c \in s + 1 .. e - 1 /\ c # 0
      BY <1>7
    <3> QED BY <1>4, <1>5, <3>1 DEF IsLine
  <2> QED BY <1>7, <2>1, <2>2
<1>9. f = s
  <2>1. f - c \in Nat /\ (f - c > 0 => f - c >= LineMax)
    <3>1. f - c \in Nat
      OBVIOUS
    <3> QED BY <1>5, <3>1, FullPieces
  <2>2. f + q - s <= LineMax /\ q >= 1
    BY <1>0, <1>4, <1>7
  <2> QED BY <1>7, <1>8, <2>1, <2>2, <1>0
<1>10. e = f + Len(l) + 1
  <2>1. e > f + Len(l)
    <3> SUFFICES ASSUME e <= f + Len(l) PROVE FALSE
      BY <1>7
    <3>1. e \in c + 1 .. f + Len(l)
      BY <1>7, <1>8
    <3> QED BY <1>4, <1>6, <3>1 DEF IsLine
  <2>2. CASE Len(l) = LineMax
    BY <1>0, <1>4, <1>7, <1>9, <2>1, <2>2
  <2>3. CASE r[f + Len(l) + 1] = "CR"
    <3>1. f + Len(l) + 1 \in s + 1 .. e - 1 => FALSE
      BY <1>4, <2>3 DEF IsLine
    <3> QED BY <1>7, <1>9, <2>1, <3>1
  <2> QED BY <2>2, <2>3
<1>11. Digits(l) = Digits(r)
  <2>1. \A n \in 1 .. Len(l) : l[n] = r[f + n]
    BY DEF Piece
  <2>2. \A n \in 1 .. Len(r) : r[n] = "d" => n \in f + 1 .. f + Len(l)
    BY <1>4, <1>9, <1>10
  <2> QED BY <1>1, <2>1, <2>2, SameDigits
<1>12. ASSUME NEW p \in 1 .. f, r[p] = "L" PROVE FALSE
  BY <1>1, <1>4, <1>7, <1>9, <1>12
<1>13. r[f] = "CR"
  BY <1>4, <1>7, <1>9 DEF IsLine
<1> QED BY <1>7, <1>9, <1>11, <1>12, <1>13

(* The fixed place in it where the value is looked for is that of the digits, *)
(* when only the '\n' stands before the name.                                 *)
LEMMA DeclaredPiece ==
  ASSUME NEW r \in Responses, Declares(r), NEW f \in Nat, line \in Seq(Parts),
         Piece(r, f, line), f + Len(line) <= Len(r), f > 0, r[f] = "CR",
         NEW q \in 1 .. Len(line), line[q] = "L"
  PROVE  LengthAfter = {Digits(line)}
<1>1. r \in Seq(Parts) /\ Len(r) \in Nat /\ Len(line) \in Nat
  BY HeadersEnd
<1>2. PICK s \in 1 .. Len(r) - 2 : \E v \in s + 2 .. Len(r) :
        /\ r[s] = "CR" /\ r[s + 1] = "NL" /\ r[s + 2] = "L"
        /\ \A n \in 1 .. Len(r) : /\ r[n] = "L" => n = s + 2
                                  /\ r[n] = "d" <=> n \in s + 3 .. v
  BY DEF Declares
<1>3. PICK v \in s + 2 .. Len(r) :
        /\ r[s] = "CR" /\ r[s + 1] = "NL" /\ r[s + 2] = "L"
        /\ \A n \in 1 .. Len(r) : /\ r[n] = "L" => n = s + 2
                                  /\ r[n] = "d" <=> n \in s + 3 .. v
  BY <1>2
<1>4. f + q = s + 2
  <2>1. f + q \in 1 .. Len(r) /\ r[f + q] = "L"
    BY <1>1 DEF Piece
  <2> QED BY <1>3, <2>1
<1>5. f = s /\ q = 2
  <2>1. ~(s > f)
    <3> SUFFICES ASSUME s > f PROVE FALSE
      OBVIOUS
    <3>1. s - f \in 1 .. Len(line) /\ f + (s - f) = s
      BY <1>1, <1>4
    <3> QED BY <1>3, <3>1 DEF Piece
  <2>2. f # s + 1
    BY <1>3
  <2> QED BY <1>1, <1>4, <2>1, <2>2
<1>6. \A n \in 1 .. Len(line) : line[n] = "d" <=> n \in 3 .. v - f
  <2> TAKE n \in 1 .. Len(line)
  <2>1. line[n] = r[f + n] /\ f + n \in 1 .. Len(r)
    BY <1>1 DEF Piece
  <2>2. r[f + n] = "d" <=> f + n \in s + 3 .. v
    BY <1>3, <2>1
  <2> QED BY <1>1, <1>5, <2>1, <2>2
<1>7. line[1] = "NL" /\ line[2] = "L"
  <2>1. 1 \in 1 .. Len(line) /\ 2 \in 1 .. Len(line)
    BY <1>1, <1>5
  <2>2. line[1] = r[f + 1] /\ line[2] = r[f + 2]
    BY <2>1 DEF Piece
  <2> QED BY <1>3, <1>5, <2>2
<1>8. {m \in 3 .. Len(line) : \A k \in 3 .. m : line[k] = "d"}
        = {n \in 1 .. Len(line) : line[n] = "d"}
  BY <1>1, <1>6
<1>9. Leading(3) = Digits(line)
  BY <1>8 DEF Leading, Digits
<1>10. Holds("L") /\ line[1] # "L" /\ line[1] \in Characters
  BY <1>7 DEF Holds, Characters
<1> QED BY <1>7, <1>9, <1>10 DEF LengthAfter

(* A piece that starts with "HTTP/1." is the status line, whole enough to     *)
(* hold the status.                                                           *)
LEMMA StatusPiece ==
  ASSUME NEW r \in Responses, Contains(r, "200"),
         NEW f \in Nat, NEW l \in Seq(Parts), Piece(r, f, l),
         Len(l) = LineMax \/ r[f + Len(l) + 1] = "CR"
  PROVE  /\ Len(l) > 0 /\ l[1] = "HTTP" /\ f + Len(l) <= Len(r)
              => \E n \in 1 .. Len(l) : l[n] = "200"
         /\ f = 0 => Len(l) > 0 /\ l[1] = "HTTP"
<1>0. LineMax \in Nat /\ LineMax >= 2 /\ Len(l) \in Nat
  BY ReaderAssumption
<1>1. r \in Seq(Parts) /\ Len(r) \in Nat
  BY HeadersEnd
<1>2. /\ \A n \in 1 .. Len(r) : r[n] = "HTTP" => n = 1
      /\ r[1] = "HTTP" /\ r[2] = "200"
  BY ReaderAssumption DEF WellFormed, Contains
<1>3. ASSUME f = 0 PROVE Len(l) >= 2
  <2>1. CASE Len(l) = LineMax
    BY <1>0, <2>1
  <2>2. CASE r[f + Len(l) + 1] = "CR"
    <3>1. ASSUME NEW k \in Nat, r[k + 1] = "CR" PROVE k >= 2
      BY <1>2, <3>1
    <3>2. f + Len(l) + 1 = Len(l) + 1
      BY <1>0, <1>3
    <3> QED BY <1>0, <2>2, <3>1, <3>2
  <2> QED BY <2>1, <2>2
<1>4. ASSUME Len(l) > 0, l[1] = "HTTP", f + Len(l) <= Len(r) PROVE f = 0
  <2>1. r[f + 1] = "HTTP" /\ f + 1 \in 1 .. Len(r)
    BY <1>1, <1>4 DEF Piece
  <2> QED BY <1>2, <2>1
<1>5. ASSUME f = 0 PROVE l[1] = "HTTP" /\ l[2] = "200"
  <2>1. 1 \in 1 .. Len(l) /\ 2 \in 1 .. Len(l)
    BY <1>3, <1>5
  <2>2. l[1] = r[f + 1] /\ l[2] = r[f + 2]
    BY <2>1 DEF Piece
  <2> QED BY <1>2, <1>5, <2>2
<1>6. ASSUME f = 0 PROVE 2 \in 1 .. Len(l)
  BY <1>3, <1>6
<1> QED BY <1>3, <1>4, <1>5, <1>6

-----------------------------------------------------------------------------
(* The steps of the reader                                                    *)

(* A request begins with nothing read.                                        *)
Begins ==
    /\ response \in Responses /\ arrived = 0 /\ taken = 0 /\ line = <<>>
    /\ statusCodeFound = FALSE /\ responseBuffer = <<>>
    /\ pc = "waiting" /\ broken = FALSE /\ whole = FALSE /\ cut = FALSE

(* Then the invariant holds.                                                  *)
LEMMA BeginsWell == Begins => ReaderInv
<1> SUFFICES ASSUME Begins PROVE ReaderInv
  OBVIOUS
<1>1. Len(response) \in Nat /\ HeadersOf(response) \in 3 .. Len(response)
  BY HeadersEnd DEF Begins
<1>2. /\ Len(line) = 0 /\ line \in Seq(Parts)
      /\ responseBuffer \in Seq(Parts \cup {NoByte})
      /\ taken = 0 /\ arrived = 0 /\ pc = "waiting"
  BY DEF Begins
<1>3. From = 0
  BY <1>2 DEF From
<1>4. ReaderTyped
  <2>1. Len(line) <= LineMax /\ arrived \in 0 .. Len(response)
    BY <1>1, <1>2, ReaderAssumption
  <2>2. line = <<>> /\ whole = FALSE /\ cut = FALSE /\ statusCodeFound = FALSE
        /\ broken = FALSE
    BY DEF Begins
  <2>3. response \in Responses /\ taken \in 0 .. arrived /\ pc \in Phases
    BY <1>2 DEF Begins, Phases
  <2> QED BY <1>2, <2>1, <2>2, <2>3 DEF ReaderTyped
<1>5. Reading
  <2>1. Piece(response, From, line)
    BY <1>2 DEF Piece
  <2> QED BY <1>1, <1>2, <1>3, <2>1, OnLineStart DEF Reading
<1>6. BodyRead
  BY DEF BodyRead, InHeaders, Begins
<1>7. LengthKnown /\ WholeRead
  BY <1>3 DEF LengthKnown, WholeRead, Begins
<1> QED BY <1>4, <1>5, <1>6, <1>7 DEF ReaderInv

(* A step within a request                                                    *)
Works == Arrive \/ Poll \/ Reads \/ UNCHANGED vars

(* A step keeps the types, and a whole response stays whole.                  *)
LEMMA TypedStep == ASSUME ReaderTyped, Works PROVE ReaderTyped'
<1> USE DEF ReaderTyped, Phases, Breaks
<1>1. /\ response \in Seq(Parts) /\ Len(response) \in Nat
      /\ LineMax \in Nat /\ LineMax >= 2
  BY HeadersEnd, ReaderAssumption
<1>2. CASE Arrive
  BY <1>1, <1>2 DEF Arrive, parsed
<1>3. CASE Poll
  <2>1. /\ response' = response /\ taken' = taken /\ line' = line /\ cut' = cut
        /\ UNCHANGED <<responseBuffer, statusCodeFound>>
        /\ pc = "waiting" /\ pc' = "headers" /\ whole' = (arrived = Len(response))
        /\ \/ arrived' = arrived /\ broken' = broken
           \/ arrived' = taken /\ broken' = TRUE
    BY <1>3 DEF Poll, stream
  <2>2. /\ whole' \in BOOLEAN /\ broken' \in BOOLEAN /\ cut' \in BOOLEAN
        /\ statusCodeFound' \in BOOLEAN
    BY <2>1, Zenon
  <2>3. /\ arrived' \in 0 .. Len(response) /\ taken' \in 0 .. arrived'
        /\ broken' => arrived' = taken'
        /\ whole' /\ ~broken' => arrived' = Len(response)
    <3>1. CASE arrived' = arrived /\ broken' = broken
      BY <2>1, <3>1
    <3>2. CASE arrived' = taken /\ broken' = TRUE
      BY <1>1, <2>1, <3>2
    <3> QED BY <2>1, <3>1, <3>2
  <2> QED BY <1>1, <2>1, <2>2, <2>3
<1>4. CASE NextLine
  <2>1. /\ response' = response /\ taken' = taken /\ line' = line /\ cut' = cut
        /\ UNCHANGED <<responseBuffer, statusCodeFound, whole>>
        /\ pc = "headers" /\ pc' \in {"line", "failed"}
        /\ \/ arrived' = arrived /\ broken' = broken
           \/ arrived' = taken /\ broken' = TRUE
    BY <1>4 DEF NextLine, stream, parsed
  <2>2. /\ whole' \in BOOLEAN /\ broken' \in BOOLEAN /\ cut' \in BOOLEAN
        /\ statusCodeFound' \in BOOLEAN
    BY <2>1, Zenon
  <2>3. /\ arrived' \in 0 .. Len(response) /\ taken' \in 0 .. arrived'
        /\ broken' => arrived' = taken'
        /\ whole' /\ ~broken' => arrived' = Len(response)
    <3>1. CASE arrived' = arrived /\ broken' = broken
      BY <2>1, <3>1
    <3>2. CASE arrived' = taken /\ broken' = TRUE
      BY <1>1, <2>1, <3>2
    <3> QED BY <2>1, <3>1, <3>2
  <2>4. Len(line) = 0
    BY <2>1
  <2> QED BY <1>1, <2>1, <2>2, <2>3, <2>4
<1>5. CASE ReadChar
  <2>1. taken + 1 \in 1 .. arrived /\ response[taken + 1] \in Parts /\ ~broken
    BY <1>1, <1>5 DEF ReadChar, Available
  <2>2. CASE response[taken + 1] = "CR"
    BY <1>5, <2>1, <2>2 DEF ReadChar, stream, parsed
  <2>3. CASE response[taken + 1] # "CR"
    <3>1. line' = Append(line, response[taken + 1]) /\ Len(line) < LineMax
      BY <1>5, <2>3 DEF ReadChar
    <3>2. line' \in Seq(Parts) /\ Len(line') <= LineMax
      BY <1>1, <2>1, <3>1
    <3> QED BY <1>5, <2>1, <2>3, <3>2 DEF ReadChar, stream, parsed
  <2> QED BY <2>2, <2>3
<1>6. CASE LineFull
  BY <1>6 DEF LineFull, stream, parsed
<1>7. CASE ReadTimesOut
  BY <1>7 DEF ReadTimesOut, stream, parsed
<1>8. CASE EndOfHeaders \/ StatusLine \/ MissingStatus \/ HeaderLine
  <2>1. /\ UNCHANGED <<response, arrived, broken, taken, responseBuffer, whole,
                       cut>> /\ pc = "judge"
        /\ line' = <<>> /\ pc' \in {"headers", "body", "failed", "crashed"}
        /\ statusCodeFound' \in BOOLEAN
    BY <1>8 DEF EndOfHeaders, StatusLine, MissingStatus, HeaderLine, LineEnds,
                stream, parsed
  <2>2. line' \in Seq(Parts) /\ Len(line') <= LineMax
    BY <1>1, <2>1
  <2> QED BY <2>1, <2>2
<1>9. CASE Process
  BY <1>9 DEF Process, stream, parsed
<1>10. CASE ReadBody
  <2>1. taken + 1 \in 1 .. arrived /\ response[taken + 1] \in Parts
    BY <1>1, <1>10 DEF ReadBody, Available
  <2>2. responseBuffer' \in Seq(Parts \cup {NoByte})
    BY <1>10, <2>1 DEF ReadBody
  <2>3. ~broken
    BY <1>10 DEF ReadBody, Available
  <2> QED BY <1>10, <2>1, <2>2, <2>3 DEF ReadBody, stream
<1>13. CASE ReadBreaks
  BY <1>13 DEF ReadBreaks, parsed
<1>14. CASE BodyBreaks
  <2>1. responseBuffer' \in Seq(Parts \cup {NoByte})
    BY <1>14 DEF BodyBreaks
  <2> QED BY <1>14, <2>1 DEF BodyBreaks
<1>11. CASE BodyEnds
  BY <1>11 DEF BodyEnds, stream, parsed
<1>12. CASE UNCHANGED vars
  BY <1>12 DEF vars, stream, parsed
<1> QED BY <1>2, <1>3, <1>4, <1>5, <1>6, <1>7, <1>8, <1>9, <1>10, <1>11,
           <1>12, <1>13, <1>14 DEF Works, Reads

(* What is known when a piece is judged.                                      *)
LEMMA JudgedPiece ==
  ASSUME ReaderTyped, Reading, pc = "judge", ~cut
  PROVE  /\ From \in Nat /\ line \in Seq(Parts) /\ Len(line) <= LineMax
         /\ OnLine(response, From) /\ Piece(response, From, line)
         /\ Len(line) = LineMax \/ response[From + Len(line) + 1] = "CR"
         /\ From + Len(line) <= Len(response)
         /\ OnLine(response, taken)
         /\ \/ Len(line) = LineMax /\ taken = From + Len(line)
            \/ Len(line) < LineMax /\ taken = From + Len(line) + 1
<1>1. /\ response \in Responses /\ line \in Seq(Parts) /\ Len(line) \in Nat
      /\ Len(line) <= LineMax /\ LineMax \in Nat /\ Len(response) \in Nat
      /\ taken \in Nat /\ taken <= Len(response)
  BY HeadersEnd, ReaderAssumption DEF ReaderTyped
<1>2. /\ From \in Nat /\ Piece(response, From, line)
      /\ OnLine(response, From)
      /\ Len(line) < LineMax => response[taken] = "CR"
  BY DEF Reading, InHeaders, Judging
<1>3. CASE Len(line) = LineMax
  <2>1. taken = From + Len(line)
    BY <1>1, <1>3 DEF From
  <2>2. OnLine(response, From + LineMax)
    BY <1>1, <1>2, <1>3, OnLineFull
  <2> QED BY <1>1, <1>2, <1>3, <2>1, <2>2
<1>4. CASE Len(line) < LineMax
  <2>1. taken = From + Len(line) + 1
    BY <1>1, <1>4 DEF From
  <2>2. OnLine(response, taken)
    BY <1>1, <1>2, <1>4, OnLineBehind
  <2> QED BY <1>1, <1>2, <1>4, <2>1, <2>2
<1> QED BY <1>1, <1>3, <1>4

(* The headers end, when no line was cut, where the empty line ends.          *)
LEMMA EndFound ==
  ASSUME ReaderTyped, Reading, pc = "judge", ~cut, EndsHeaders
  PROVE  taken = HeadersOf(response) /\ taken = From + 2
<1>1. Len(line) = 1 /\ LineMax \in Nat /\ LineMax >= 2
  BY ReaderAssumption DEF EndsHeaders
<1>2. From \in Nat /\ taken = From + Len(line) + 1
  BY <1>1, JudgedPiece
<1>3. taken = From + 2
  BY <1>1, <1>2
<1>4. taken <= HeadersOf(response) /\ response[taken] = "CR"
  BY <1>1 DEF Reading, InHeaders, Judging
<1>5. From + 2 = HeadersOf(response)
  <2>1. response \in Responses
    BY DEF ReaderTyped
  <2> QED BY <1>1, <1>2, <1>3, <1>4, <2>1, JudgedPiece, SingleIsEmptyLine
<1> QED BY <1>3, <1>5

(* The reader does not come back to the headers, and a cut is not mended.     *)
LEMMA StaysBehind ==
  ASSUME ReaderTyped, Works
  PROVE  /\ response' = response
         /\ InHeaders' => InHeaders
         /\ ~cut' => ~cut
<1> USE DEF InHeaders, stream, parsed
<1>1. CASE Arrive \/ Poll \/ NextLine \/ UNCHANGED vars
  BY <1>1 DEF Arrive, Poll, NextLine, vars
<1>2. CASE ReadChar \/ LineFull \/ ReadBreaks \/ ReadTimesOut
  BY <1>2 DEF ReadChar, LineFull, ReadBreaks, ReadTimesOut
<1>3. CASE EndOfHeaders \/ StatusLine \/ MissingStatus \/ HeaderLine
  BY <1>3 DEF EndOfHeaders, StatusLine, MissingStatus, HeaderLine, LineEnds
<1>4. CASE Process \/ ReadBody \/ BodyBreaks \/ BodyEnds
  BY <1>4 DEF Process, ReadBody, BodyBreaks, BodyEnds
<1> QED BY <1>1, <1>2, <1>3, <1>4 DEF Works, Reads

(* A line is given up for the next one behind it.                             *)
LEMMA LineGivenUp ==
  ASSUME ReaderTyped, Works, pc = "judge", InHeaders', ~cut, pc' # "judge"
  PROVE  /\ pc' = "headers" /\ line' = <<>> /\ taken' = taken
         /\ From' = taken /\ ~EndsHeaders
         /\ (StatusLine /\ Holds("200")) \/ HeaderLine
<1>1. \/ StatusLine /\ pc' = "headers" /\ Holds("200") /\ ~EndsHeaders
      \/ HeaderLine /\ ~EndsHeaders
  <2>1. ~(Arrive \/ UNCHANGED vars)
    BY DEF Arrive, vars
  <2>2. ~(Poll \/ NextLine \/ ReadChar \/ LineFull \/ ReadBreaks \/ ReadTimesOut)
    BY DEF Poll, NextLine, ReadChar, LineFull, ReadBreaks, ReadTimesOut
  <2>3. ~(EndOfHeaders \/ MissingStatus)
    BY DEF EndOfHeaders, MissingStatus, LineEnds, InHeaders
  <2>4. ~(Process \/ ReadBody \/ BodyBreaks \/ BodyEnds)
    BY DEF Process, ReadBody, BodyBreaks, BodyEnds
  <2>5. ASSUME StatusLine PROVE pc' = "headers" /\ Holds("200") /\ ~EndsHeaders
    BY <2>5 DEF StatusLine, LineEnds, InHeaders, IsStatus, EndsHeaders, Characters
  <2>6. ASSUME HeaderLine PROVE ~EndsHeaders
    BY <2>6 DEF HeaderLine
  <2> QED BY <2>1, <2>2, <2>3, <2>4, <2>5, <2>6 DEF Works, Reads
<1>2. pc' = "headers" /\ line' = <<>> /\ taken' = taken
  BY <1>1 DEF StatusLine, HeaderLine, LineEnds
<1>3. Len(line') = 0 /\ taken \in Int
  BY <1>2, HeadersEnd DEF ReaderTyped
<1>4. From' = taken
  BY <1>2, <1>3 DEF From
<1> QED BY <1>1, <1>2, <1>4

(* In every other step the piece goes on where it began.                      *)
LEMMA PieceGoesOn ==
  ASSUME ReaderTyped, ReaderTyped', Works, InHeaders', ~cut', pc # "judge"
  PROVE  From' = From
<1>1. /\ line \in Seq(Parts) /\ Len(line) \in Nat /\ taken \in Int
      /\ LineMax \in Nat
  BY HeadersEnd, ReaderAssumption DEF ReaderTyped
<1>2. CASE UNCHANGED <<pc, line, taken>>
  BY <1>2 DEF From
<1>3. CASE Poll \/ NextLine
  <2>1. pc' # "judge" /\ line' = line /\ taken' = taken
    BY <1>3 DEF Poll, NextLine
  <2> QED BY <2>1 DEF From
<1>4. CASE ReadChar
  <2>1. CASE response[taken + 1] = "CR"
    <3>1. /\ pc' = "judge" /\ line' = line /\ taken' = taken + 1
          /\ Len(line) < LineMax
      BY <1>4, <2>1 DEF ReadChar
    <3> QED BY <1>1, <3>1 DEF From
  <2>2. CASE response[taken + 1] # "CR"
    <3>1. /\ pc' = pc /\ line' = Append(line, response[taken + 1])
          /\ taken' = taken + 1
      BY <1>4, <2>2 DEF ReadChar
    <3>2. Len(line') = Len(line) + 1
      BY <1>1, <3>1
    <3> QED BY <1>1, <3>1, <3>2 DEF From
  <2> QED BY <2>1, <2>2
<1>5. CASE LineFull
  <2>1. /\ pc' = "judge" /\ line' = line /\ taken' = taken
        /\ Len(line) = LineMax
    BY <1>5 DEF LineFull
  <2> QED BY <1>1, <2>1 DEF From
<1>6. \/ UNCHANGED <<pc, line, taken>> \/ Poll \/ NextLine
      \/ ReadChar \/ LineFull
  <2>1. ~ReadTimesOut
    BY DEF ReadTimesOut
  <2>2. ~(EndOfHeaders \/ StatusLine \/ MissingStatus \/ HeaderLine)
    BY DEF EndOfHeaders, StatusLine, MissingStatus, HeaderLine
  <2>3. ~(Process \/ BodyEnds \/ BodyBreaks \/ ReadBody)
    BY DEF Process, BodyEnds, BodyBreaks, ReadBody, InHeaders
  <2> QED BY <2>1, <2>2, <2>3 DEF Works, Reads, Arrive, ReadBreaks, vars
<1> QED BY <1>2, <1>3, <1>4, <1>5, <1>6

(* The reader keeps its place in the headers.                                 *)
LEMMA ReadingStep ==
  ASSUME ReaderTyped, ReaderTyped', Reading, Works PROVE Reading'
<1> SUFFICES ASSUME InHeaders', ~cut'
             PROVE  /\ From' \in Nat
                    /\ Piece(response, From', line')
                    /\ OnLine(response, From')
                    /\ IF pc' = "judge" THEN Judging'
                       ELSE taken' < HeadersOf(response)
  BY StaysBehind DEF Reading
<1>1. InHeaders /\ ~cut /\ response' = response
  BY StaysBehind
<1>2. /\ From \in Nat /\ Piece(response, From, line) /\ OnLine(response, From)
      /\ IF pc = "judge" THEN Judging ELSE taken < HeadersOf(response)
  BY <1>1 DEF Reading
<1>3. /\ response \in Responses /\ Len(response) \in Nat
      /\ HeadersOf(response) \in Nat /\ taken \in Nat
      /\ line \in Seq(Parts) /\ Len(line) \in Nat /\ LineMax \in Nat
      /\ response[HeadersOf(response)] = "CR"
  <2>1. /\ response \in Responses /\ taken \in 0 .. arrived /\ line \in Seq(Parts)
        /\ arrived \in 0 .. Len(response)
    BY DEF ReaderTyped
  <2>2. /\ Len(response) \in Nat /\ HeadersOf(response) \in 3 .. Len(response)
        /\ EmptyLine(response, HeadersOf(response))
    BY <2>1, HeadersEnd
  <2>3. response[HeadersOf(response)] = "CR"
    BY <2>2 DEF EmptyLine
  <2> QED BY <2>1, <2>2, <2>3, ReaderAssumption
<1>4. CASE pc = "judge" /\ pc' # "judge"
  <2>1. /\ pc' = "headers" /\ line' = <<>> /\ taken' = taken
        /\ From' = taken /\ ~EndsHeaders
    BY <1>1, <1>4, LineGivenUp
  <2>2. OnLine(response, taken)
    BY <1>1, <1>4, JudgedPiece
  <2>3. taken < HeadersOf(response)
    <3>1. taken # HeadersOf(response)
      BY <1>2, <1>4, <2>1 DEF Judging, EndsHeaders, Characters
    <3> QED BY <1>2, <1>3, <1>4, <3>1 DEF Judging
  <2>4. Piece(response, taken, line')
    BY <2>1 DEF Piece
  <2> QED BY <1>3, <2>1, <2>2, <2>3, <2>4
<1>5. CASE pc = "judge" /\ pc' = "judge"
  <2>1. UNCHANGED <<pc, line, taken>>
    <3>1. ~(Poll \/ NextLine \/ ReadChar \/ LineFull \/ ReadBreaks \/ ReadTimesOut)
      BY <1>5 DEF Poll, NextLine, ReadChar, LineFull, ReadBreaks, ReadTimesOut
    <3>2. ~(EndOfHeaders \/ StatusLine \/ MissingStatus \/ HeaderLine)
      BY <1>5 DEF EndOfHeaders, StatusLine, MissingStatus, HeaderLine, LineEnds
    <3>3. ~(Process \/ BodyEnds \/ BodyBreaks \/ ReadBody)
      BY <1>5 DEF Process, BodyEnds, BodyBreaks, ReadBody
    <3> QED BY <3>1, <3>2, <3>3 DEF Works, Reads, Arrive, vars
  <2>2. From' = From /\ (Judging' <=> Judging)
    BY <1>1, <2>1 DEF From, Judging
  <2> QED BY <1>2, <1>5, <2>1, <2>2
<1>6. CASE pc # "judge"
  <2>1. From' = From
    BY <1>6, PieceGoesOn
  <2>2. CASE line' = line /\ taken' = taken /\ pc' # "judge"
    BY <1>2, <1>6, <2>1, <2>2
  <2>3. CASE LineFull
    <3>1. /\ line' = line /\ taken' = taken /\ pc' = "judge"
          /\ Len(line) = LineMax
      BY <2>3 DEF LineFull
    <3>2. Judging'
      BY <1>1, <1>2, <1>3, <1>6, <3>1 DEF Judging
    <3> QED BY <1>2, <2>1, <3>1, <3>2
  <2>4. CASE ReadChar /\ response[taken + 1] = "CR"
    <3>1. /\ line' = line /\ taken' = taken + 1 /\ pc' = "judge"
          /\ Len(line) < LineMax /\ pc = "line"
      BY <2>4 DEF ReadChar
    <3>2. taken = From + Len(line)
      BY <1>3, <3>1 DEF From
    <3>3. ASSUME taken + 1 = HeadersOf(response)
          PROVE  Len(line) = 1 /\ line[1] = "NL"
      <4>1. From + Len(line) + 1 = HeadersOf(response)
        BY <3>2, <3>3
      <4> QED BY <1>2, <1>3, <4>1, EmptyLineIsSingle
    <3>4. Judging'
      BY <1>1, <1>2, <1>3, <1>6, <2>4, <3>1, <3>3 DEF Judging
    <3> QED BY <1>2, <2>1, <3>1, <3>4
  <2>5. CASE ReadChar /\ response[taken + 1] # "CR"
    <3>1. /\ line' = Append(line, response[taken + 1]) /\ taken' = taken + 1
          /\ pc' = pc /\ pc = "line"
      BY <2>5 DEF ReadChar
    <3>2. taken = From + Len(line)
      BY <1>3, <3>1 DEF From
    <3>3. taken' < HeadersOf(response)
      <4>1. taken + 1 # HeadersOf(response)
        BY <1>3, <2>5
      <4> QED BY <1>2, <1>3, <1>6, <3>1, <4>1
    <3>4. ASSUME NEW n \in 1 .. Len(line')
          PROVE  line'[n] = response[From + n] /\ response[From + n] # "CR"
      <4>1. Len(line') = Len(line) + 1
        BY <1>3, <3>1
      <4>2. CASE n <= Len(line)
        <5>1. n \in 1 .. Len(line) /\ line'[n] = line[n]
          BY <1>3, <3>1, <4>1, <4>2
        <5> QED BY <1>2, <5>1 DEF Piece
      <4>3. CASE n = Len(line) + 1
        <5>1. line'[n] = response[taken + 1] /\ From + n = taken + 1
          BY <1>2, <1>3, <3>1, <3>2, <4>3
        <5> QED BY <2>5, <5>1
      <4> QED BY <1>3, <4>1, <4>2, <4>3
    <3> QED BY <1>2, <1>6, <2>1, <3>1, <3>3, <3>4 DEF Piece
  <2>6. \/ line' = line /\ taken' = taken /\ pc' # "judge"
        \/ LineFull \/ ReadChar
    <3>1. ~ReadTimesOut
      BY DEF ReadTimesOut
    <3>2. ~(EndOfHeaders \/ StatusLine \/ MissingStatus \/ HeaderLine)
      BY <1>6 DEF EndOfHeaders, StatusLine, MissingStatus, HeaderLine
    <3>3. ~(Process \/ BodyEnds \/ BodyBreaks \/ ReadBody)
      BY DEF Process, BodyEnds, BodyBreaks, ReadBody, InHeaders
    <3>4. ASSUME Poll \/ NextLine PROVE pc' # "judge" /\ line' = line /\ taken' = taken
      BY <3>4 DEF Poll, NextLine
    <3>5. ASSUME Arrive \/ ReadBreaks \/ UNCHANGED vars
          PROVE  pc' = pc /\ line' = line /\ taken' = taken
      BY <3>5 DEF Arrive, ReadBreaks, vars
    <3> QED BY <1>6, <3>1, <3>2, <3>3, <3>4, <3>5 DEF Works, Reads
  <2> QED BY <2>2, <2>3, <2>4, <2>5, <2>6
<1> QED BY <1>4, <1>5, <1>6

(* The body is read from where the headers end.                               *)
LEMMA BodyStep ==
  ASSUME ReaderTyped, ReaderTyped', Reading, BodyRead, Works PROVE BodyRead'
<1>1. /\ response' = response /\ (InHeaders' => InHeaders) /\ (~cut' => ~cut)
  BY StaysBehind
<1>2. /\ responseBuffer \in Seq(Parts \cup {NoByte}) /\ Len(responseBuffer) \in Nat
      /\ taken \in Nat /\ HeadersOf(response) \in Nat
  BY HeadersEnd DEF ReaderTyped
<1>3. CASE UNCHANGED <<pc, responseBuffer, taken, broken>>
  BY <1>1, <1>3 DEF BodyRead, InHeaders, Got
<1>4. CASE Poll \/ NextLine \/ ReadChar \/ LineFull \/ ReadBreaks \/ ReadTimesOut
  <2>1. /\ InHeaders /\ responseBuffer' = responseBuffer
        /\ pc' \notin {"body", "success"}
    BY <1>4 DEF Poll, NextLine, ReadChar, LineFull, ReadBreaks, ReadTimesOut,
                InHeaders, parsed
  <2> QED BY <2>1 DEF BodyRead
<1>5. CASE StatusLine \/ MissingStatus \/ HeaderLine
  <2>1. /\ InHeaders /\ responseBuffer' = responseBuffer
        /\ pc' \notin {"body", "success"}
    BY <1>5 DEF StatusLine, MissingStatus, HeaderLine, LineEnds, InHeaders, parsed
  <2> QED BY <2>1 DEF BodyRead
<1>6. CASE EndOfHeaders
  <2>1. /\ pc = "judge" /\ EndsHeaders /\ pc' = "body" /\ taken' = taken
        /\ responseBuffer' = responseBuffer
    BY <1>6 DEF EndOfHeaders, LineEnds, parsed
  <2>2. responseBuffer' = <<>>
    BY <2>1 DEF BodyRead, InHeaders
  <2>3. Len(responseBuffer') = 0
    BY <2>2
  <2>4. ~cut' => taken' = HeadersOf(response)
    BY <1>1, <2>1, EndFound
  <2>5. ~cut' => Got' = 0
    BY <1>1, <1>6, <2>1, <2>3 DEF Got, ReaderTyped, EndOfHeaders, stream
  <2> QED BY <1>1, <1>2, <2>1, <2>2, <2>4, <2>5 DEF BodyRead
<1>7. CASE Process
  <2>1. pc' = "processed"
    BY <1>7 DEF Process
  <2> QED BY <2>1 DEF BodyRead, InHeaders
<1>8. CASE ReadBody
  <2>1. /\ pc = "body" /\ pc' = "body" /\ taken' = taken + 1
        /\ responseBuffer' = Append(responseBuffer, response[taken + 1])
        /\ response[taken + 1] \in Parts \cup {NoByte} /\ ~broken /\ ~broken'
    <3>1. response \in Seq(Parts) /\ taken + 1 \in 1 .. Len(response) /\ ~broken
      BY <1>8, HeadersEnd DEF ReadBody, Available, ReaderTyped
    <3> QED BY <1>8, <3>1 DEF ReadBody, stream
  <2>2. Len(responseBuffer') = Len(responseBuffer) + 1
    BY <1>2, <2>1
  <2>3. ASSUME ~cut', NEW n \in 1 .. Len(responseBuffer')
        PROVE  responseBuffer'[n] = response[HeadersOf(response) + n]
    <3>1. /\ taken = HeadersOf(response) + Len(responseBuffer)
          /\ \A m \in 1 .. Len(responseBuffer) :
               responseBuffer[m] = response[HeadersOf(response) + m]
      BY <1>1, <2>1, <2>3 DEF BodyRead, Got
    <3>2. CASE n <= Len(responseBuffer)
      <4>1. n \in 1 .. Len(responseBuffer) /\ responseBuffer'[n] = responseBuffer[n]
        BY <1>2, <2>1, <2>2, <3>2
      <4> QED BY <3>1, <4>1
    <3>3. CASE n = Len(responseBuffer) + 1
      <4>1. responseBuffer'[n] = response[taken + 1]
        BY <1>2, <2>1, <3>3
      <4>2. taken + 1 = HeadersOf(response) + n
        BY <1>2, <3>1, <3>3
      <4> QED BY <4>1, <4>2
    <3> QED BY <1>2, <2>2, <3>2, <3>3
  <2>4. ~cut' => taken' = HeadersOf(response) + Len(responseBuffer')
    BY <1>1, <1>2, <2>1, <2>2 DEF BodyRead, Got
  <2>5. Got' = Len(responseBuffer')
    BY <2>1 DEF Got
  <2> QED BY <1>1, <1>2, <2>1, <2>2, <2>3, <2>4, <2>5 DEF BodyRead, InHeaders
<1>10. CASE BodyBreaks
  <2>1. /\ pc = "body" /\ pc' = "body" /\ taken' = taken /\ ~broken /\ broken'
        /\ responseBuffer' = Append(responseBuffer, NoByte) /\ cut' = cut
    BY <1>10 DEF BodyBreaks, Breaks
  <2>2. /\ Len(responseBuffer') = Len(responseBuffer) + 1
        /\ \A n \in 1 .. Len(responseBuffer) :
             responseBuffer'[n] = responseBuffer[n]
    BY <1>2, <2>1
  <2>3. Got' = Len(responseBuffer) /\ Got = Len(responseBuffer)
    BY <1>2, <2>1, <2>2 DEF Got
  <2> QED BY <1>1, <1>2, <2>1, <2>2, <2>3 DEF BodyRead, InHeaders
<1>9. CASE BodyEnds
  <2>1. /\ pc = "body" /\ pc' \in {"success", "failed"} /\ taken' = taken
        /\ responseBuffer' = responseBuffer /\ broken' = broken
    BY <1>9 DEF BodyEnds, parsed, stream
  <2> QED BY <1>1, <2>1 DEF BodyRead, InHeaders, Got
<1> QED BY <1>3, <1>4, <1>5, <1>6, <1>7, <1>8, <1>9, <1>10
        DEF Works, Reads, Arrive, vars, parsed, stream

(* Before the first read the piece begins with the response.                  *)
LEMMA WaitingAtStart ==
  ASSUME ReaderTyped, pc = "waiting" PROVE From = 0
<1>1. line = <<>> /\ taken = 0
  BY DEF ReaderTyped
<1>2. Len(line) = 0
  BY <1>1
<1>3. taken = 0
  BY <1>1
<1> QED BY <1>2, <1>3 DEF From

(* The Content-Length line ends before the empty line.                        *)
LEMMA LengthInHeaders ==
  ASSUME NEW r \in Responses, NEW p \in 1 .. Len(r), r[p] = "L"
  PROVE  p <= HeadersOf(r) - 2
<1>1. PICK e \in 1 .. HeadersOf(r) - 1 : \E s \in 1 .. e - 1 :
        \A n \in 1 .. Len(r) : r[n] \in {"L", "d"} => n \in s + 1 .. e - 1
  BY ReaderAssumption DEF WellFormed
<1>2. HeadersOf(r) \in Nat /\ Len(r) \in Nat
  BY HeadersEnd
<1> QED BY <1>1, <1>2

(* A step does not lose the declared length.                                  *)
LEMMA LengthStep ==
  ASSUME ReaderTyped, ReaderTyped', Reading, LengthKnown, Works
  PROVE  LengthKnown'
<1> SUFFICES ASSUME ~cut', Declares(response)
             PROVE  /\ InHeaders' =>
                         \A p \in 1 .. From' : response[p] = "L" =>
                           contentLength' = Digits(response)
                    /\ pc' \in {"body", "processed"} =>
                         contentLength' = Digits(response)
  BY StaysBehind DEF LengthKnown
<1>1. ~cut /\ response' = response /\ (InHeaders' => InHeaders)
  BY StaysBehind
<1>2. /\ response \in Responses /\ Len(response) \in Nat /\ taken \in Nat
      /\ taken <= Len(response)
      /\ LineMax \in Nat /\ line \in Seq(Parts) /\ Len(line) \in Nat
  BY HeadersEnd, ReaderAssumption DEF ReaderTyped
<1>3. ASSUME InHeaders', NEW p \in 1 .. From', response[p] = "L"
      PROVE  contentLength' = Digits(response)
  <2>1. InHeaders /\ From \in Nat
    BY <1>1, <1>3 DEF Reading
  <2>2. p \in 1 .. From => contentLength = Digits(response)
    BY <1>1, <1>3, <2>1 DEF LengthKnown
  <2>3. CASE pc = "judge" /\ pc' # "judge"
    <3>1. From' = taken /\ ((StatusLine /\ Holds("200")) \/ HeaderLine)
      BY <1>1, <1>3, <2>3, LineGivenUp
    <3>2. /\ Len(line) <= LineMax
          /\ OnLine(response, From) /\ Piece(response, From, line)
          /\ Len(line) = LineMax \/ response[From + Len(line) + 1] = "CR"
          /\ From + Len(line) <= Len(response)
          /\ \/ Len(line) = LineMax /\ taken = From + Len(line)
             \/ Len(line) < LineMax /\ taken = From + Len(line) + 1
      BY <1>1, <2>3, JudgedPiece
    <3>3. ASSUME NEW q \in 1 .. Len(line), line[q] = "L"
          PROVE  /\ From > 0 /\ Digits(line) = Digits(response)
                 /\ LengthAfter = {Digits(response)}
      <4>1. /\ From > 0 /\ response[From] = "CR"
            /\ Digits(line) = Digits(response)
        BY <1>2, <2>1, <3>2, <3>3, LengthPiece
      <4>2. LengthAfter = {Digits(line)}
        BY <1>2, <2>1, <3>2, <3>3, <4>1, DeclaredPiece
      <4> QED BY <4>1, <4>2
    <3>4. p \notin 1 .. From => Holds("L")
      <4> SUFFICES ASSUME p \notin 1 .. From PROVE Holds("L")
        OBVIOUS
      <4>1. p \in Nat /\ p > From /\ p <= taken
        BY <1>2, <1>3, <2>1, <3>1
      <4>2. p # From + Len(line) + 1 \/ Len(line) = LineMax
        BY <1>3, <3>2
      <4>3. p - From \in 1 .. Len(line) /\ From + (p - From) = p
        BY <1>2, <2>1, <3>2, <4>1, <4>2
      <4>4. line[p - From] = "L"
        BY <1>3, <3>2, <4>3 DEF Piece
      <4> QED BY <4>3, <4>4 DEF Holds
    <3>5. CASE StatusLine
      <4>1. Len(line) > 0 /\ line[1] = "HTTP" /\ contentLength' = contentLength
        BY <3>5 DEF StatusLine, IsStatus
      <4>2. From = 0
        <5>1. response[From + 1] = "HTTP" /\ From + 1 \in 1 .. Len(response)
          BY <1>2, <2>1, <3>2, <4>1 DEF Piece
        <5>2. \A n \in 1 .. Len(response) : response[n] = "HTTP" => n = 1
          BY <1>2, ReaderAssumption DEF WellFormed
        <5>3. From + 1 = 1
          BY <5>1, <5>2
        <5> QED BY <2>1, <5>3
      <4>3. ~Holds("L")
        BY <3>3, <4>2 DEF Holds
      <4> QED BY <2>2, <3>4, <4>1, <4>3
    <3>6. CASE HeaderLine
      <4>1. contentLength' \in LengthAfter
        BY <3>6 DEF HeaderLine
      <4>2. CASE Holds("L")
        BY <3>3, <4>1, <4>2 DEF LengthAfter, Holds
      <4>3. CASE ~Holds("L")
        BY <2>2, <3>4, <4>1, <4>3 DEF LengthAfter
      <4> QED BY <4>2, <4>3
    <3> QED BY <3>1, <3>5, <3>6
  <2>4. CASE pc = "judge" /\ pc' = "judge"
    <3>1. UNCHANGED <<pc, line, taken, contentLength>>
      <4>1. ~(Poll \/ NextLine \/ ReadChar \/ LineFull \/ ReadBreaks \/ ReadTimesOut)
        BY <2>4 DEF Poll, NextLine, ReadChar, LineFull, ReadBreaks, ReadTimesOut
      <4>2. ~(EndOfHeaders \/ StatusLine \/ MissingStatus \/ HeaderLine)
        BY <2>4 DEF EndOfHeaders, StatusLine, MissingStatus, HeaderLine, LineEnds
      <4>3. ~(Process \/ BodyEnds \/ BodyBreaks \/ ReadBody)
        BY <2>4 DEF Process, BodyEnds, BodyBreaks, ReadBody
      <4> QED BY <4>1, <4>2, <4>3 DEF Works, Reads, Arrive, vars, parsed
    <3>2. From' = From
      BY <3>1 DEF From
    <3> QED BY <1>3, <2>2, <3>1, <3>2
  <2>5. CASE pc # "judge"
    <3>1. From' = From
      BY <1>3, <2>5, PieceGoesOn
    <3>2. p \in 1 .. From
      BY <1>3, <3>1
    <3>3. ~Poll
      <4> SUFFICES ASSUME Poll PROVE FALSE
        OBVIOUS
      <4>1. From = 0
        BY WaitingAtStart DEF Poll
      <4> QED BY <3>2, <4>1
    <3>4. contentLength' = contentLength
      <4>1. ~(EndOfHeaders \/ StatusLine \/ MissingStatus \/ HeaderLine)
        BY <2>5 DEF EndOfHeaders, StatusLine, MissingStatus, HeaderLine
      <4> QED BY <3>3, <4>1
              DEF Works, Reads, Arrive, vars, parsed, NextLine, ReadChar, LineFull,
                  ReadBreaks, ReadTimesOut, Process, ReadBody, BodyBreaks, BodyEnds
    <3> QED BY <2>2, <3>2, <3>4
  <2> QED BY <2>3, <2>4, <2>5
<1>4. ASSUME pc' \in {"body", "processed"}
      PROVE  contentLength' = Digits(response)
  <2>1. CASE EndOfHeaders
    <3>1. pc = "judge" /\ EndsHeaders /\ contentLength' = contentLength
      BY <2>1 DEF EndOfHeaders, parsed
    <3>2. taken = HeadersOf(response) /\ taken = From + 2 /\ From \in Nat
      BY <1>1, <3>1, EndFound, JudgedPiece
    <3>3. PICK p \in 1 .. Len(response) : response[p] = "L"
      <4>1. PICK s \in 1 .. Len(response) - 2 : response[s + 2] = "L"
        BY DEF Declares
      <4>2. s + 2 \in 1 .. Len(response)
        BY <1>2
      <4> QED BY <4>1, <4>2
    <3>4. p \in 1 .. From
      <4>1. p <= HeadersOf(response) - 2
        BY <1>2, <3>3, LengthInHeaders
      <4>2. HeadersOf(response) - 2 = From
        BY <3>2
      <4> QED BY <3>2, <4>1, <4>2
    <3>5. contentLength = Digits(response)
      BY <1>1, <3>1, <3>3, <3>4 DEF LengthKnown, InHeaders
    <3> QED BY <3>1, <3>5
  <2>2. CASE ~EndOfHeaders
    <3>1. pc \in {"body", "processed"} /\ contentLength' = contentLength
      <4>1. CASE Arrive \/ Process \/ ReadBody \/ BodyBreaks \/ BodyEnds
                   \/ UNCHANGED vars
        BY <1>4, <4>1 DEF Arrive, Process, ReadBody, BodyBreaks, BodyEnds, vars, parsed
      <4>2. ~(Poll \/ NextLine \/ ReadChar \/ LineFull \/ ReadBreaks \/ ReadTimesOut)
        BY <1>4 DEF Poll, NextLine, ReadChar, LineFull, ReadBreaks, ReadTimesOut
      <4>3. ~(StatusLine \/ MissingStatus \/ HeaderLine)
        BY <1>4 DEF StatusLine, MissingStatus, HeaderLine, LineEnds
      <4> QED BY <2>2, <4>1, <4>2, <4>3 DEF Works, Reads
    <3> QED BY <1>1, <3>1 DEF LengthKnown
  <2> QED BY <2>1, <2>2
<1> QED BY <1>3, <1>4

(* A whole response never keeps the reader of its headers waiting.            *)
LEMMA WholeIsAvailable ==
  ASSUME ReaderTyped, Reading, whole, ~broken, ~cut, pc \in {"headers", "line"}
  PROVE  Available
<1>1. taken < HeadersOf(response)
  BY DEF Reading, InHeaders
<1>2. arrived = Len(response) /\ response \in Responses /\ taken \in Int
  BY HeadersEnd DEF ReaderTyped
<1>3. HeadersOf(response) \in 3 .. Len(response) /\ Len(response) \in Nat
  BY <1>2, HeadersEnd
<1> QED BY <1>1, <1>2, <1>3 DEF Available

(* A step does not spoil a whole response.                                    *)
LEMMA WholeStep ==
  ASSUME ReaderTyped, ReaderTyped', Reading, BodyRead, WholeRead, Works
  PROVE  WholeRead'
<1>1. response' = response /\ (InHeaders' => InHeaders) /\ (~cut' => ~cut)
  BY StaysBehind
<1>0. broken => broken'
  BY DEF Works, Reads, Arrive, vars, stream, Breaks, Poll, NextLine, ReadChar,
         LineFull, ReadBreaks, ReadTimesOut, EndOfHeaders, StatusLine,
         MissingStatus, HeaderLine, Process, ReadBody, BodyBreaks, BodyEnds
<1>b. ASSUME ~broken' PROVE ~(ReadBreaks \/ BodyBreaks)
  BY <1>b DEF ReadBreaks, BodyBreaks, Breaks
<1>2. ASSUME whole', ~broken' PROVE ~cut' /\ (whole \/ Poll)
  <2>1. CASE Poll
    BY <2>1 DEF Poll, ReaderTyped
  <2>2. CASE ~Poll
    <3>1. whole' = whole /\ (cut' = cut \/ ReadTimesOut)
      BY <2>2 DEF Works, Reads, Arrive, vars, NextLine, ReadChar, LineFull,
                  ReadBreaks, ReadTimesOut, EndOfHeaders, StatusLine,
                  MissingStatus, HeaderLine, Process, ReadBody, BodyBreaks, BodyEnds
    <3>2. ~ReadTimesOut
      <4> SUFFICES ASSUME ReadTimesOut PROVE FALSE
        OBVIOUS
      <4>1. pc = "line" /\ ~Available
        BY DEF ReadTimesOut
      <4> QED BY <1>0, <1>2, <3>1, <4>1, WholeIsAvailable DEF WholeRead
    <3> QED BY <1>0, <1>2, <3>1, <3>2 DEF WholeRead
  <2> QED BY <2>1, <2>2
<1> SUFFICES ASSUME Contains(response, "200"), whole', ~broken'
             PROVE  /\ InHeaders' /\ From' > 0 => statusCodeFound'
                    /\ pc' # "crashed"
                    /\ pc' = "success" => taken' = Len(response)
                    /\ pc' = "failed" => BodyOf(response) = <<>>
  BY <1>1, <1>2 DEF WholeRead
<1>3. CASE Poll
  <2>1. pc = "waiting" /\ pc' = "headers"
    BY <1>3 DEF Poll
  <2>2. From' = 0
    BY <1>2, <2>1, PieceGoesOn, WaitingAtStart DEF InHeaders
  <2> QED BY <2>1, <2>2
<1>4. CASE ~Poll
  <2>1. /\ whole /\ ~cut /\ ~cut'
        /\ InHeaders /\ From > 0 => statusCodeFound
        /\ pc # "crashed"
        /\ pc = "success" => taken = Len(response)
        /\ pc = "failed" => BodyOf(response) = <<>>
    BY <1>0, <1>1, <1>2, <1>4 DEF WholeRead
  <2>2. /\ response \in Responses /\ Len(response) \in Nat /\ taken \in Nat
        /\ arrived = Len(response) /\ taken <= arrived /\ ~broken
        /\ HeadersOf(response) \in Nat /\ response \in Seq(Parts)
    BY <1>0, <2>1, HeadersEnd DEF ReaderTyped
  <2>3. CASE Arrive \/ UNCHANGED vars
    <3>1. UNCHANGED <<pc, line, taken, statusCodeFound>>
      BY <2>3 DEF Arrive, vars, parsed
    <3>2. From' = From /\ (InHeaders' <=> InHeaders)
      BY <3>1 DEF From, InHeaders
    <3> QED BY <2>1, <3>1, <3>2
  <2>4. CASE NextLine \/ ReadChar \/ LineFull
    <3>1. /\ pc' \in {"line", "judge"} /\ statusCodeFound' = statusCodeFound
          /\ pc \in {"headers", "line"}
      <4>1. CASE NextLine
        BY <2>1, <2>2, <4>1, WholeIsAvailable DEF NextLine, parsed
      <4>2. CASE ReadChar \/ LineFull
        BY <4>2 DEF ReadChar, LineFull, parsed
      <4> QED BY <2>4, <4>1, <4>2
    <3>2. From' = From /\ InHeaders
      BY <2>1, <3>1, PieceGoesOn DEF InHeaders
    <3> QED BY <2>1, <3>1, <3>2
  <2>5. ~ReadTimesOut
    <3> SUFFICES ASSUME ReadTimesOut PROVE FALSE
      OBVIOUS
    <3>1. cut' = TRUE
      BY DEF ReadTimesOut
    <3> QED BY <2>1, <3>1
  <2>6. ASSUME pc = "judge"
        PROVE  /\ IsStatus => Holds("200")
               /\ From = 0 => IsStatus
    <3>1. /\ From \in Nat /\ line \in Seq(Parts)
          /\ Piece(response, From, line)
          /\ Len(line) = LineMax \/ response[From + Len(line) + 1] = "CR"
          /\ From + Len(line) <= Len(response)
      BY <2>1, <2>6, JudgedPiece
    <3>2. /\ Len(line) > 0 /\ line[1] = "HTTP"
               => \E n \in 1 .. Len(line) : line[n] = "200"
          /\ From = 0 => Len(line) > 0 /\ line[1] = "HTTP"
      BY <2>2, <3>1, StatusPiece
    <3> QED BY <3>2 DEF IsStatus, Holds
  <2>7. CASE EndOfHeaders
    BY <2>7 DEF EndOfHeaders, LineEnds, InHeaders
  <2>8. CASE StatusLine
    <3>1. pc' = "headers" /\ statusCodeFound' = TRUE
      BY <2>6, <2>8 DEF StatusLine, LineEnds
    <3> QED BY <3>1
  <2>9. ~MissingStatus
    <3> SUFFICES ASSUME MissingStatus PROVE FALSE
      OBVIOUS
    <3>1. pc = "judge" /\ ~IsStatus /\ ~statusCodeFound
      BY DEF MissingStatus
    <3>2. From \in Nat /\ ~(From > 0)
      BY <2>1, <3>1, JudgedPiece DEF InHeaders
    <3>3. From = 0
      BY <3>2
    <3> QED BY <2>6, <3>1, <3>3
  <2>10. CASE HeaderLine
    BY <2>10 DEF HeaderLine, LineEnds
  <2>11. CASE Process \/ ReadBody
    BY <2>11 DEF Process, ReadBody, InHeaders
  <2>12. CASE BodyEnds
    <3>1. /\ pc = "body" /\ ~Available /\ taken' = taken
          /\ pc' = IF responseBuffer = <<>> THEN "failed" ELSE "success"
      BY <2>12 DEF BodyEnds
    <3>2. taken = Len(response)
      BY <2>2, <3>1 DEF Available
    <3>3. ASSUME responseBuffer = <<>> PROVE BodyOf(response) = <<>>
      <4>1. taken = HeadersOf(response) + Len(responseBuffer)
        BY <2>1, <2>2, <3>1 DEF BodyRead, Got
      <4>2. Len(responseBuffer) = 0
        BY <3>3
      <4>3. HeadersOf(response) = Len(response)
        BY <2>2, <3>2, <4>1, <4>2
      <4>4. BodyOf(response) = SubSeq(response, Len(response) + 1, Len(response))
        BY <4>3 DEF BodyOf
      <4> QED BY <2>2, <4>4
    <3> QED BY <3>1, <3>2, <3>3 DEF InHeaders
  <2> QED BY <1>4, <1>b, <2>3, <2>4, <2>5, <2>7, <2>8, <2>9, <2>10, <2>11, <2>12
          DEF Works, Reads
<1> QED BY <1>3, <1>4

-----------------------------------------------------------------------------
(* Results                                                                    *)

(* checkForHttpResponse() keeps its place in a response, whatever packets it  *)
(* arrives in, unless a line was cut by a timeout.                            *)
THEOREM ReaderInvariant == Spec => []ReaderInv
<1>1. Init => ReaderInv
  BY BeginsWell DEF Init, Begins
<1>2. (Begins => ReaderInv)'
  BY BeginsWell, PTL
<1>3. ReaderInv /\ [Next]_vars => ReaderInv'
  <2> SUFFICES ASSUME ReaderInv, [Next]_vars PROVE ReaderInv'
    OBVIOUS
  <2>1. CASE NextRequest
    BY <1>2, <2>1 DEF NextRequest, Begins
  <2>2. CASE ~NextRequest
    <3>1. ReaderTyped /\ Reading /\ BodyRead /\ LengthKnown /\ WholeRead /\ Works
      BY <2>2 DEF ReaderInv, Next, Works
    <3>2. ReaderTyped'
      BY <3>1, TypedStep
    <3>3. Reading'
      BY <3>1, <3>2, ReadingStep
    <3>4. BodyRead'
      BY <3>1, <3>2, BodyStep
    <3>5. LengthKnown'
      BY <3>1, <3>2, LengthStep
    <3>6. WholeRead'
      BY <3>1, <3>2, WholeStep
    <3> QED BY <3>2, <3>3, <3>4, <3>5, <3>6 DEF ReaderInv
  <2> QED BY <2>1, <2>2
<1> QED BY <1>1, <1>3, PTL DEF Spec

(* A sequence that agrees with another one is the start of it.                *)
LEMMA SameStart ==
  ASSUME NEW S, NEW b \in Seq(S), NEW B \in Seq(S), Len(b) <= Len(B),
         \A n \in 1 .. Len(b) : b[n] = B[n]
  PROVE  b = SubSeq(B, 1, Len(b)) /\ (Len(b) = Len(B) => b = B)
OBVIOUS

(* What is handed out of what the server sent.                                *)
Handed == IF broken THEN Front(responseBuffer) ELSE responseBuffer

(* It is a part of the body from its start.                                   *)
LEMMA ReadFromStart ==
  ASSUME ReaderTyped, BodyRead, pc = "success", ~cut
  PROVE  /\ Handed = SubSeq(BodyOf(response), 1, Len(Handed))
         /\ Len(Handed) <= Len(BodyOf(response))
         /\ SubSeq(Handed, 1, Len(Handed)) = Handed
         /\ taken = Len(response) => Handed = BodyOf(response)
<1> DEFINE h == HeadersOf(response)
           b == Handed
           B == BodyOf(response)
<1>1. /\ response \in Seq(Parts) /\ Len(response) \in Nat /\ h \in Nat
      /\ taken \in Nat /\ taken <= Len(response)
      /\ responseBuffer \in Seq(Parts \cup {NoByte}) /\ Len(responseBuffer) \in Nat
  BY HeadersEnd DEF ReaderTyped
<1>0. /\ Got \in Nat /\ Got <= Len(responseBuffer) /\ taken = h + Got
      /\ \A n \in 1 .. Got : responseBuffer[n] = response[h + n]
  BY <1>1 DEF BodyRead, Got
<1>7. /\ b \in Seq(Parts \cup {NoByte}) /\ Len(b) = Got
      /\ \A n \in 1 .. Got : b[n] = responseBuffer[n]
  <2>1. CASE broken
    <3>1. b = SubSeq(responseBuffer, 1, Got)
      BY <2>1 DEF Handed, Front, Got
    <3> QED BY <1>0, <1>1, <3>1
  <2>2. CASE ~broken
    BY <1>1, <2>2 DEF Handed, Got
  <2> QED BY <2>1, <2>2
<1>2. /\ taken = h + Len(b) /\ Len(b) \in Nat
      /\ \A n \in 1 .. Len(b) : b[n] = response[h + n]
  BY <1>0, <1>7
<1> HIDE DEF h, b
<1>3. /\ B \in Seq(Parts) /\ Len(B) = Len(response) - h
      /\ \A n \in 1 .. Len(response) - h : B[n] = response[h + n]
  <2>1. B = SubSeq(response, h + 1, Len(response))
    BY DEF BodyOf, h
  <2>2. B \in Seq(Parts) /\ Len(B) = Len(response) - h
    BY <1>1, <1>2, <2>1
  <2>3. ASSUME NEW n \in 1 .. Len(response) - h PROVE B[n] = response[h + n]
    BY <1>1, <1>2, <2>1, <2>3
  <2> QED BY <2>2, <2>3
<1> HIDE DEF B
<1>4. Len(b) <= Len(B)
  BY <1>1, <1>2, <1>3
<1>9. B \in Seq(Parts \cup {NoByte})
  <2>1. response \in Seq(Parts \cup {NoByte})
    BY <1>1
  <2> QED BY <1>1, <2>1 DEF B, BodyOf, h
<1>10. \A n \in 1 .. Len(b) : b[n] = B[n]
  BY <1>1, <1>2, <1>3, <1>4
<1>5. b = SubSeq(B, 1, Len(b)) /\ (Len(b) = Len(B) => b = B)
  BY <1>4, <1>7, <1>9, <1>10, SameStart
<1>6. taken = Len(response) => b = B
  BY <1>1, <1>2, <1>3, <1>5
<1>8. SubSeq(b, 1, Len(b)) = b
  BY <1>7
<1> QED BY <1>4, <1>5, <1>6, <1>8 DEF b, B

(* A success of checkForHttpResponse() hands out a piece of the body from its *)
(* start, and behind it a byte nobody sent if the connection broke then, for  *)
(* every response and every cut into packets.  Excepted are the polls in      *)
(* which the timeout ended the read of a line: there header text may be       *)
(* handed out.                                                                *)
THEOREM SuccessAlwaysPrefix == Spec => []SuccessIsPrefix
<1>1. ReaderInv => SuccessIsPrefix
  <2> SUFFICES ASSUME ReaderInv, pc = "success", ~cut
               PROVE  IsPrefix(Handed, BodyOf(response))
    BY DEF SuccessIsPrefix, Handed
  <2>1. /\ Handed = SubSeq(BodyOf(response), 1, Len(Handed))
        /\ Len(Handed) <= Len(BodyOf(response))
        /\ SubSeq(Handed, 1, Len(Handed)) = Handed
    BY ReadFromStart DEF ReaderInv
  <2> QED BY <2>1 DEF IsPrefix
<1> QED BY <1>1, ReaderInvariant, PTL

(* The processCallback is given the length that a Content-Length line         *)
(* declares right behind its '\n', wherever packets and pieces of lines end,  *)
(* unless the timeout ended the read of a line.                               *)
THEOREM LengthAlwaysDeclared == Spec => []LengthIsDeclared
<1>1. ReaderInv => LengthIsDeclared
  BY DEF ReaderInv, LengthKnown, LengthIsDeclared
<1> QED BY <1>1, ReaderInvariant, PTL

(* A response of status 200 that has arrived before the poll is never refused *)
(* and is handed out as a whole, unless the connection breaks in the poll.    *)
THEOREM WholeAlwaysTaken == Spec => []WholeResponseTaken
<1>1. ReaderInv => WholeResponseTaken
  <2> SUFFICES ASSUME ReaderInv, whole, ~broken, Contains(response, "200")
               PROVE  /\ pc # "crashed"
                      /\ pc = "failed" => BodyOf(response) = <<>>
                      /\ pc = "success" => responseBuffer = BodyOf(response)
    BY DEF WholeResponseTaken
  <2>1. /\ ~cut /\ pc # "crashed"
        /\ pc = "failed" => BodyOf(response) = <<>>
        /\ pc = "success" => taken = Len(response)
    BY DEF ReaderInv, WholeRead
  <2>2. pc = "success" => responseBuffer = BodyOf(response)
    BY <2>1, ReadFromStart DEF ReaderInv, Handed
  <2> QED BY <2>1, <2>2
<1> QED BY <1>1, ReaderInvariant, PTL

=============================================================================
