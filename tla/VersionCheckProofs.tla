------------------------- MODULE VersionCheckProofs -------------------------
(* For version texts that fit the copy of FirmwareUpdateAvailable(), whatever *)
(* its size and the numbers in them: the verdict is right for the version it  *)
(* was made for, and the answer is wrong only about a version that came later.*)
EXTENDS VersionCheck, FiniteSetTheorems, WellFoundedInduction, TLAPS

-----------------------------------------------------------------------------
(* Segments                                                                   *)

(* A set of natural numbers that is not empty has a least one.                *)
LEMMA LeastExists ==
  ASSUME NEW S, S \subseteq Nat, S # {}
  PROVE  \E n \in S : \A m \in S : n <= m
<1> DEFINE R == OpToRel(<, Nat)
<1>1. IsWellFoundedOn(R, Nat)
  BY NatLessThanWellFounded
<1>2. \A x, y \in Nat : <<y, x>> \in R <=> y < x
  BY DEF OpToRel
<1> HIDE DEF R
<1>3. PICK n \in S : \A y \in S : ~ (<<y, n>> \in R)
  BY <1>1, WFMin
<1>4. ASSUME NEW m \in S PROVE n <= m
  <2>1. ~(<<m, n>> \in R) /\ m \in Nat /\ n \in Nat
    BY <1>3
  <2>2. ~(m < n)
    BY <1>2, <2>1
  <2> QED BY <2>1, <2>2
<1> QED BY <1>4

(* A text is a sequence of segments.                                          *)
LEMMA TextType ==
  ASSUME NEW text \in Texts
  PROVE  /\ Len(text) \in Nat
         /\ text \in [1 .. Len(text) -> Segments]
<1>1. PICK n \in 0 .. MaxSegments : text \in [1 .. n -> Segments]
  BY DEF Texts
<1>2. Len(text) = n
  BY <1>1, VersionAssumption
<1> QED BY <1>1, <1>2, VersionAssumption

(* What strtok() finds: the first segment from p on that is not empty.        *)
LEMMA NextSegmentIs ==
  ASSUME NEW text \in Texts, NEW p \in Nat \ {0}
  PROVE  LET j == NextSegment(text, p) IN
         /\ j \in 1 .. Len(text) + 1
         /\ j <= Len(text) => j >= p /\ text[j] # Nothing
         /\ \A k \in p .. Len(text) : k < j => text[k] = Nothing
<1> DEFINE S == {j \in p .. Len(text) : text[j] # Nothing} \cup {Len(text) + 1}
           j == NextSegment(text, p)
<1>1. Len(text) \in Nat
  BY TextType
<1>2. S \subseteq Nat /\ S # {}
  BY <1>1
<1>3. \E n \in S : \A m \in S : n <= m
  <2> HIDE DEF S
  <2> QED BY <1>2, LeastExists
<1>4. j = CHOOSE n \in S : \A m \in S : n <= m
  BY DEF NextSegment, Min
<1>5. j \in S /\ \A m \in S : j <= m
  <2> HIDE DEF S, j
  <2> QED BY <1>3, <1>4
<1> HIDE DEF j
<1> QED BY <1>1, <1>5 DEF j

-----------------------------------------------------------------------------
(* Ranks                                                                      *)

(* The segments up to i that are not empty are finitely many.                 *)
LEMMA RankType ==
  ASSUME NEW text \in Texts, NEW i \in 1 .. Len(text)
  PROVE  /\ IsFiniteSet({j \in 1 .. i : text[j] # Nothing})
         /\ Rank(text, i) \in Nat
<1>1. Len(text) \in Nat /\ IsFiniteSet(1 .. i)
  BY TextType, FS_Interval
<1>2. {j \in 1 .. i : text[j] # Nothing} \in SUBSET (1 .. i)
  OBVIOUS
<1>3. IsFiniteSet({j \in 1 .. i : text[j] # Nothing})
  BY <1>1, <1>2, FS_Subset
<1> QED BY <1>3, FS_CardinalityType DEF Rank

(* The first segment that is not empty has rank 1.                            *)
LEMMA RankFirst ==
  ASSUME NEW text \in Texts, NEW i \in 1 .. Len(text), text[i] # Nothing,
         \A k \in 1 .. i - 1 : text[k] = Nothing
  PROVE  Rank(text, i) = 1
<1>1. {j \in 1 .. i : text[j] # Nothing} = {i}
  BY TextType
<1> QED BY <1>1, FS_Singleton DEF Rank

(* The next one that is not empty has the next rank.                          *)
LEMMA RankNext ==
  ASSUME NEW text \in Texts, NEW i \in 1 .. Len(text), NEW j \in 1 .. Len(text),
         i < j, text[j] # Nothing,
         \A k \in i + 1 .. j - 1 : text[k] = Nothing
  PROVE  Rank(text, j) = Rank(text, i) + 1
<1> DEFINE S == {k \in 1 .. i : text[k] # Nothing}
<1>1. {k \in 1 .. j : text[k] # Nothing} = S \cup {j}
  BY TextType
<1>2. j \notin S /\ IsFiniteSet(S)
  BY TextType, RankType
<1> HIDE DEF S
<1>3. Cardinality(S \cup {j}) = Cardinality(S) + 1
  BY <1>2, FS_AddElement
<1> QED BY <1>1, <1>3 DEF Rank, S

(* Ranks do not shrink, and grow with every segment that is not empty.        *)
LEMMA RankGrows ==
  ASSUME NEW text \in Texts, NEW i \in 1 .. Len(text), NEW j \in 1 .. Len(text),
         i < j, text[j] # Nothing
  PROVE  Rank(text, i) < Rank(text, j)
<1> DEFINE S == {k \in 1 .. i : text[k] # Nothing}
           T == {k \in 1 .. j : text[k] # Nothing}
<1>1. S \in SUBSET T /\ S # T
  BY TextType
<1>2. IsFiniteSet(T) /\ IsFiniteSet(S)
  BY RankType
<1>3. Cardinality(S) <= Cardinality(T) /\ Cardinality(S) # Cardinality(T)
  <2> HIDE DEF S, T
  <2> QED BY <1>1, <1>2, FS_Subset
<1>4. Rank(text, i) = Cardinality(S) /\ Rank(text, j) = Cardinality(T)
  BY DEF Rank
<1>5. Cardinality(S) \in Nat /\ Cardinality(T) \in Nat
  BY <1>2, FS_CardinalityType
<1> HIDE DEF S, T
<1> QED BY <1>3, <1>4, <1>5

(* A segment that is not empty is the only one of its rank.                   *)
LEMMA DigitIs ==
  ASSUME NEW text \in Texts, NEW i \in 1 .. Len(text), text[i] # Nothing,
         NEW k, Rank(text, i) = k
  PROVE  Digit(text, k) = text[i]
<1>1. ASSUME NEW j \in Ranked(text, k) PROVE j = i
  <2>1. j \in 1 .. Len(text) /\ text[j] # Nothing /\ Rank(text, j) = k
    BY DEF Ranked
  <2>2. i \in Nat /\ j \in Nat /\ Rank(text, i) \in Nat
    <3>1. Rank(text, i) \in Nat
      BY RankType
    <3> QED BY <2>1, <3>1, TextType
  <2>3. ~(Rank(text, i) < Rank(text, j)) /\ ~(Rank(text, j) < Rank(text, i))
    BY <2>1, <2>2
  <2>4. ~(i < j) /\ ~(j < i)
    BY <2>1, <2>3, RankGrows
  <2> QED BY <2>2, <2>4
<1>2. i \in Ranked(text, k)
  BY DEF Ranked
<1>3. Ranked(text, k) = {i}
  BY <1>1, <1>2
<1> QED BY <1>3 DEF Digit

(* Without a segment of a rank the digit is 0.                                *)
LEMMA DigitMissing ==
  ASSUME NEW text \in Texts, NEW k,
         \A i \in 1 .. Len(text) : text[i] # Nothing => Rank(text, i) # k
  PROVE  Digit(text, k) = 0
<1>1. Ranked(text, k) = {}
  BY DEF Ranked
<1> QED BY <1>1 DEF Digit

-----------------------------------------------------------------------------
(* Parts and digits                                                           *)

(* The parts that strtok() and atoi() deliver are the digits of the number.   *)
LEMMA PartsAreDigits ==
  ASSUME NEW text \in Texts
  PROVE  VersionParts(text) = <<Digit(text, 1), Digit(text, 2), Digit(text, 3)>>
<1> DEFINE L       == Len(text)
           first   == NextSegment(text, 1)
           second  == NextSegment(text, first + 1)
           third   == NextSegment(text, second + 1)
           Atoi(j) == IF j <= Len(text) THEN text[j] ELSE 0
<1>0. L \in Nat
  BY TextType
<1>1. /\ first \in 1 .. L + 1
      /\ first <= L => text[first] # Nothing
      /\ \A k \in 1 .. L : k < first => text[k] = Nothing
  BY NextSegmentIs
<1>2. /\ second \in 1 .. L + 1
      /\ second <= L => second > first /\ text[second] # Nothing
      /\ \A k \in first + 1 .. L : k < second => text[k] = Nothing
  <2>1. first + 1 \in Nat \ {0}
    BY <1>0, <1>1
  <2> HIDE DEF first
  <2> QED BY <1>0, <1>1, <2>1, NextSegmentIs
<1>3. /\ third \in 1 .. L + 1
      /\ third <= L => third > second /\ text[third] # Nothing
      /\ \A k \in second + 1 .. L : k < third => text[k] = Nothing
  <2>1. second + 1 \in Nat \ {0}
    BY <1>0, <1>2
  <2> HIDE DEF second
  <2> QED BY <1>0, <1>2, <2>1, NextSegmentIs
<1>4. VersionParts(text) = <<Atoi(first), Atoi(second), Atoi(third)>>
  BY DEF VersionParts
<1> HIDE DEF first, second, third
<1>5. first <= L => first \in 1 .. L /\ Rank(text, first) = 1
  BY <1>0, <1>1, RankFirst
<1>6. Atoi(first) = Digit(text, 1)
  <2>1. CASE first <= L
    BY <1>1, <1>5, <2>1, DigitIs
  <2>2. CASE ~(first <= L)
    <3>1. \A k \in 1 .. L : text[k] = Nothing
      BY <1>0, <1>1, <2>2
    <3> QED BY <2>2, <3>1, DigitMissing
  <2> QED BY <2>1, <2>2
<1>7. second <= L => second \in 1 .. L /\ Rank(text, second) = 2
  <2> SUFFICES ASSUME second <= L PROVE second \in 1 .. L /\ Rank(text, second) = 2
    OBVIOUS
  <2>1. first \in 1 .. L /\ second \in 1 .. L /\ first < second
    BY <1>0, <1>1, <1>2
  <2>2. \A k \in first + 1 .. second - 1 : text[k] = Nothing
    BY <1>0, <1>2, <2>1
  <2>3. Rank(text, second) = Rank(text, first) + 1
    BY <1>2, <2>1, <2>2, RankNext
  <2> QED BY <1>5, <2>1, <2>3
<1>8. Atoi(second) = Digit(text, 2)
  <2>1. CASE second <= L
    BY <1>2, <1>7, <2>1, DigitIs
  <2>2. CASE ~(second <= L)
    <3>1. ASSUME NEW i \in 1 .. L, text[i] # Nothing PROVE Rank(text, i) # 2
      <4>1. i = first
        BY <1>0, <1>1, <1>2, <2>2, <3>1
      <4> QED BY <1>5, <4>1, <1>0
    <3> QED BY <2>2, <3>1, DigitMissing
  <2> QED BY <2>1, <2>2
<1>9. third <= L => third \in 1 .. L /\ Rank(text, third) = 3
  <2> SUFFICES ASSUME third <= L PROVE third \in 1 .. L /\ Rank(text, third) = 3
    OBVIOUS
  <2>1. second \in 1 .. L /\ third \in 1 .. L /\ second < third
    BY <1>0, <1>2, <1>3
  <2>2. \A k \in second + 1 .. third - 1 : text[k] = Nothing
    BY <1>0, <1>3, <2>1
  <2>3. Rank(text, third) = Rank(text, second) + 1
    BY <1>3, <2>1, <2>2, RankNext
  <2> QED BY <1>7, <2>1, <2>3
<1>10. Atoi(third) = Digit(text, 3)
  <2>1. CASE third <= L
    BY <1>3, <1>9, <2>1, DigitIs
  <2>2. CASE ~(third <= L)
    <3>1. ASSUME NEW i \in 1 .. L, text[i] # Nothing PROVE Rank(text, i) # 3
      <4>1. i = first \/ i = second
        BY <1>0, <1>1, <1>2, <1>3, <2>2, <3>1
      <4> QED BY <1>5, <1>7, <4>1, <1>0
    <3> QED BY <2>2, <3>1, DigitMissing
  <2> QED BY <2>1, <2>2
<1> QED BY <1>4, <1>6, <1>8, <1>10

(* A digit is less than the base.                                             *)
LEMMA DigitType ==
  ASSUME NEW text \in Texts, NEW k PROVE Digit(text, k) \in 0 .. MaxPart
<1>1. ASSUME NEW i \in Ranked(text, k) PROVE text[i] \in 0 .. MaxPart
  <2>1. i \in 1 .. Len(text) /\ text[i] # Nothing
    BY DEF Ranked
  <2> QED BY <2>1, TextType DEF Segments, Part
<1>2. 0 \in 0 .. MaxPart
  BY VersionAssumption
<1> QED BY <1>1, <1>2 DEF Digit

-----------------------------------------------------------------------------
(* Comparison                                                                 *)

(* What stands before the last digit decides, unless it is the same.          *)
LEMMA LastDigit ==
  ASSUME NEW u \in Nat, NEW v \in Nat, NEW b \in Nat,
         NEW c \in 0 .. b - 1, NEW d \in 0 .. b - 1
  PROVE  u * b + c < v * b + d <=> u < v \/ (u = v /\ c < d)
<1>1. ASSUME NEW x \in Nat, NEW y \in Nat, x < y PROVE x * b + b <= y * b
  <2>1. PICK e \in Nat : y = x + 1 + e
    <3>1. y - x - 1 \in Nat /\ y = x + 1 + (y - x - 1)
      BY <1>1
    <3> QED BY <3>1
  <2>2. y * b = x * b + b + e * b
    BY <2>1
  <2>3. e * b \in Nat /\ x * b \in Nat
    OBVIOUS
  <2> QED BY <2>2, <2>3
<1>2. u * b \in Nat /\ v * b \in Nat
  OBVIOUS
<1>3. CASE u < v
  BY <1>1, <1>2, <1>3
<1>4. CASE v < u
  BY <1>1, <1>2, <1>4
<1>5. CASE u = v
  BY <1>2, <1>5
<1> QED BY <1>3, <1>4, <1>5

(* The first two parts that differ decide which number is greater.            *)
LEMMA ComparisonIsRight ==
  ASSUME NEW text \in Texts
  PROVE  NewerThanCurrent(text) <=> Number(text) > Number(Current)
<1> DEFINE a == Digit(Current, 1)  b == Digit(Current, 2)  c == Digit(Current, 3)
           x == Digit(text, 1)     y == Digit(text, 2)     z == Digit(text, 3)
<1>1. /\ Base \in Nat /\ a \in 0 .. Base - 1 /\ b \in 0 .. Base - 1
      /\ c \in 0 .. Base - 1 /\ x \in 0 .. Base - 1 /\ y \in 0 .. Base - 1
      /\ z \in 0 .. Base - 1
  BY DigitType, VersionAssumption DEF Base
<1>2. /\ VersionParts(Current) = <<a, b, c>>
      /\ VersionParts(text) = <<x, y, z>>
  BY PartsAreDigits, VersionAssumption
<1>3. /\ Number(Current) = (a * Base + b) * Base + c
      /\ Number(text) = (x * Base + y) * Base + z
  BY DEF Number
<1> HIDE DEF a, b, c, x, y, z
<1>4. NewerThanCurrent(text) <=>
        a < x \/ (a = x /\ b < y) \/ (a = x /\ b = y /\ c < z)
  <2> DEFINE Decides(i) == /\ <<a, b, c>>[i] < <<x, y, z>>[i]
                           /\ \A j \in 1 .. i - 1 : <<a, b, c>>[j] = <<x, y, z>>[j]
  <2>1. NewerThanCurrent(text) <=> \E i \in 1 .. 3 : Decides(i)
    BY <1>2 DEF NewerThanCurrent
  <2>2. (\E i \in 1 .. 3 : Decides(i)) <=> Decides(1) \/ Decides(2) \/ Decides(3)
    <3> HIDE DEF Decides
    <3>1. 1 .. 3 = {1, 2, 3}
      OBVIOUS
    <3> QED BY <3>1
  <2>3. Decides(1) <=> a < x
    BY <1>1
  <2>4. Decides(2) <=> a = x /\ b < y
    <3>1. 1 .. 2 - 1 = {1}
      OBVIOUS
    <3> QED BY <1>1, <3>1
  <2>5. Decides(3) <=> a = x /\ b = y /\ c < z
    <3>1. 1 .. 3 - 1 = {1, 2}
      OBVIOUS
    <3> QED BY <1>1, <3>1
  <2> HIDE DEF Decides
  <2> QED BY <2>1, <2>2, <2>3, <2>4, <2>5
<1>5. a \in Nat /\ x \in Nat /\ a * Base + b \in Nat /\ x * Base + y \in Nat
  BY <1>1
<1>6. a * Base + b < x * Base + y <=> a < x \/ (a = x /\ b < y)
  BY <1>1, <1>5, LastDigit
<1>7. x * Base + y < a * Base + b <=> x < a \/ (x = a /\ y < b)
  BY <1>1, <1>5, LastDigit
<1>8. Number(Current) < Number(text) <=>
        \/ a * Base + b < x * Base + y
        \/ a * Base + b = x * Base + y /\ c < z
  BY <1>1, <1>3, <1>5, LastDigit
<1>9. a * Base + b = x * Base + y <=> a = x /\ b = y
  BY <1>1, <1>5, <1>6, <1>7
<1>10. Number(text) > Number(Current) <=> Number(Current) < Number(text)
  BY <1>1, <1>3
<1> QED BY <1>4, <1>6, <1>8, <1>9, <1>10

(* The verdict on a text that fits tells whether its number is greater; on    *)
(* any other it is one of the two, and on the current version it is no.       *)
LEMMA VerdictOnText ==
  ASSUME NEW text \in Texts, NEW v \in Verdicts(text)
  PROVE  /\ v \in {1, -1}
         /\ Fits(text) => (v = 1 <=> Number(text) > Number(Current))
<1>1. ~(Number(Current) > Number(Current))
  <2>1. Number(Current) \in Int
    BY DigitType, VersionAssumption DEF Number, Base
  <2> QED BY <2>1
<1>2. NewerThanCurrent(text) <=> Number(text) > Number(Current)
  BY ComparisonIsRight
<1>3. CASE text = Current
  <2>1. Verdicts(text) = {-1}
    BY <1>3 DEF Verdicts
  <2> QED BY <1>1, <1>3, <2>1
<1>4. CASE text # Current /\ ~Fits(text)
  <2>1. Verdicts(text) = {1, -1}
    BY <1>4 DEF Verdicts
  <2> QED BY <1>4, <2>1
<1>5. CASE text # Current /\ Fits(text)
  <2>1. Verdicts(text) = {IF NewerThanCurrent(text) THEN 1 ELSE -1}
    BY <1>5 DEF Verdicts
  <2> QED BY <1>2, <2>1
<1> QED BY <1>3, <1>4, <1>5

-----------------------------------------------------------------------------
(* The cached verdict                                                         *)

(* What is kept is the verdict on a text that was reported, and an answer     *)
(* comes from it or from the absence of a version.                            *)
VersionInv ==
    /\ highestVersionOnAPI \in Texts
    /\ IF cachedFirmwareCheckResult = 0 THEN checked = <<>>
       ELSE /\ checked \in Texts \ {<<>>}
            /\ cachedFirmwareCheckResult \in Verdicts(checked)
    /\ answer \in {"none", "yes", "no"}
    /\ answer = "yes" => /\ highestVersionOnAPI # <<>>
                         /\ cachedFirmwareCheckResult = 1
    /\ answer = "no"  => \/ highestVersionOnAPI = <<>>
                         \/ cachedFirmwareCheckResult = -1

(* The empty text is a text.                                                  *)
LEMMA EmptyText == <<>> \in Texts
<1>1. <<>> \in [1 .. 0 -> Segments] /\ 0 \in 0 .. MaxSegments
  BY VersionAssumption
<1> QED BY <1>1 DEF Texts

(* VersionInv is kept by both functions, in whatever order they are called.   *)
THEOREM VersionInvariant == Spec => []VersionInv
<1>1. Init => VersionInv
  BY EmptyText DEF Init, VersionInv
<1>2. VersionInv /\ [Next]_vars => VersionInv'
  <2> SUFFICES ASSUME VersionInv, [Next]_vars PROVE VersionInv'
    OBVIOUS
  <2>1. CASE SetHighestFirmwareAPIVersion
    BY <2>1 DEF VersionInv, SetHighestFirmwareAPIVersion
  <2>2. CASE FirmwareUpdateAvailable
    <3>1. CASE highestVersionOnAPI = <<>>
      BY <2>2, <3>1 DEF VersionInv, FirmwareUpdateAvailable
    <3>2. CASE highestVersionOnAPI # <<>> /\ cachedFirmwareCheckResult # 0
      <4>1. cachedFirmwareCheckResult \in {1, -1}
        BY <3>2, VerdictOnText DEF VersionInv
      <4> QED BY <2>2, <3>2, <4>1 DEF VersionInv, FirmwareUpdateAvailable
    <3>3. CASE highestVersionOnAPI # <<>> /\ cachedFirmwareCheckResult = 0
      <4>1. /\ cachedFirmwareCheckResult' \in Verdicts(highestVersionOnAPI)
            /\ highestVersionOnAPI \in Texts
        BY <2>2, <3>3 DEF VersionInv, FirmwareUpdateAvailable
      <4>2. cachedFirmwareCheckResult' \in {1, -1}
        BY <4>1, VerdictOnText
      <4> QED BY <2>2, <3>3, <4>1, <4>2 DEF VersionInv, FirmwareUpdateAvailable
    <3> QED BY <3>1, <3>2, <3>3
  <2>3. CASE UNCHANGED vars
    BY <2>3 DEF VersionInv, vars
  <2> QED BY <2>1, <2>2, <2>3 DEF Next
<1> QED BY <1>1, <1>2, PTL DEF Spec

(* The verdict that FirmwareUpdateAvailable() keeps is right for the version  *)
(* it was made for, whatever the texts of both versions look like, unless     *)
(* that text does not fit highestVersionTmp.                                  *)
THEOREM VerdictAlwaysRight == Spec => []VerdictIsRight
<1>1. VersionInv => VerdictIsRight
  BY VerdictOnText DEF VersionInv, VerdictIsRight
<1> QED BY <1>1, VersionInvariant, PTL

(* An answer is wrong only about a version that SetHighestFirmwareAPIVersion()*)
(* has brought since the verdict was made, or about one that does not fit     *)
(* highestVersionTmp.                                                         *)
THEOREM WrongOnlyWhenStale == Spec => []StaleOnlyAfterChange
<1>1. VersionInv => StaleOnlyAfterChange
  <2> SUFFICES ASSUME VersionInv, answer # "none",
                      highestVersionOnAPI \in {<<>>, checked},
                      highestVersionOnAPI = <<>> \/ Fits(highestVersionOnAPI)
               PROVE  answer = "yes" <=>
                        /\ highestVersionOnAPI # <<>>
                        /\ Number(highestVersionOnAPI) > Number(Current)
    BY DEF StaleOnlyAfterChange
  <2>1. CASE highestVersionOnAPI = <<>>
    BY <2>1 DEF VersionInv
  <2>2. CASE highestVersionOnAPI # <<>>
    <3>1. /\ highestVersionOnAPI = checked /\ checked \in Texts
          /\ cachedFirmwareCheckResult \in Verdicts(checked)
          /\ Fits(checked)
      BY <2>2 DEF VersionInv
    <3>2. answer = "yes" <=> cachedFirmwareCheckResult = 1
      BY <2>2 DEF VersionInv
    <3> QED BY <2>2, <3>1, <3>2, VerdictOnText
  <2> QED BY <2>1, <2>2
<1> QED BY <1>1, VersionInvariant, PTL

=============================================================================
