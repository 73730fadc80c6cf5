---------------------------- MODULE VersionCheck ----------------------------
(* FirmwareUpdateAvailable() of main/src/FirmwareUpdates.cpp: the version the *)
(* API reports is compared with FIRMWARE_VERSION once, and the verdict is     *)
(* kept.  A version text is the sequence of what stands between its dots: a   *)
(* number, or nothing where two dots meet.                                    *)
EXTENDS Integers, Sequences, FiniteSets, FiniteSetsExt

CONSTANTS
    Current,          \* FIRMWARE_VERSION without its prefix
    MaxPart,          \* bound: greatest number in a version
    MaxSegments,      \* bound: segments of a version text
    CopySize,         \* bytes of highestVersionTmp
    Nothing           \* the empty segment

Part     == 0 .. MaxPart
Segments == Part \cup {Nothing}
Texts    == UNION {[1 .. n -> Segments] : n \in 0 .. MaxSegments}

ASSUME VersionAssumption ==
    /\ MaxPart \in Nat /\ MaxSegments \in Nat /\ CopySize \in Nat
    /\ Nothing \notin Part
    /\ Current \in Texts

VARIABLES
    highestVersionOnAPI,          \* <<>>: NULL or the empty text
    cachedFirmwareCheckResult,
    answer,                       \* what was answered about that version
    checked                       \* the version its verdict is about

vars == <<highestVersionOnAPI, cachedFirmwareCheckResult, answer, checked>>

-----------------------------------------------------------------------------
(* strtok(): where the next segment begins that is not empty, from p on; the  *)
(* end of the text when there is none.                                        *)
NextSegment(text, p) ==
    Min({j \in p .. Len(text) : text[j] # Nothing} \cup {Len(text) + 1})

(* atoi() for three parts: parts that are missing are 0, parts behind the     *)
(* third are left out.                                                        *)
VersionParts(text) ==
    LET first   == NextSegment(text, 1)
        second  == NextSegment(text, first + 1)
        third   == NextSegment(text, second + 1)
        Atoi(j) == IF j <= Len(text) THEN text[j] ELSE 0
    IN  <<Atoi(first), Atoi(second), Atoi(third)>>

(* Slip: a part that is greater is enough, whatever stands before it.         *)
SomePartNewer(text) ==
    \E i \in 1 .. 3 : VersionParts(Current)[i] < VersionParts(text)[i]

(* The loop over the parts: the first two that differ decide.                 *)
NewerThanCurrent(text) ==
    LET current == VersionParts(Current)
        highest == VersionParts(text)
    IN  \E i \in 1 .. 3 : /\ current[i] < highest[i]
                          /\ \A j \in 1 .. i - 1 : current[j] = highest[j]

(* The length of the text: its numbers in decimal, and the dots between them. *)
Characters(text) ==
    LET Width(j) == IF text[j] = Nothing THEN 0
                    ELSE Min({w \in 1 .. MaxPart + 1 : text[j] < 10 ^ w})
    IN  MapThenSumSet(Width, 1 .. Len(text)) + Len(text) - 1

(* strncpy() copies CopySize bytes and ends a shorter text only.              *)
Fits(text) == Characters(text) < CopySize

(* What the check can find: strtok() and atoi() run past the end of a copy    *)
(* that is not terminated, where anything may stand.                          *)
Verdicts(text) ==
    CASE text = Current                      -> {-1}
      [] text # Current /\ ~Fits(text)       -> {1, -1}
      [] text # Current /\ Fits(text)        ->
           {IF NewerThanCurrent(text) THEN 1 ELSE -1}

Init == /\ highestVersionOnAPI = <<>> /\ cachedFirmwareCheckResult = 0
        /\ answer = "none" /\ checked = <<>>

SetHighestFirmwareAPIVersion ==
    /\ highestVersionOnAPI' \in Texts
    /\ answer' = "none"
    /\ UNCHANGED <<cachedFirmwareCheckResult, checked>>

(* Slip: the verdict is asked for before the version.                         *)
AvailableCachedFirst ==
    /\ IF cachedFirmwareCheckResult # 0
       THEN UNCHANGED <<cachedFirmwareCheckResult, checked>>
       ELSE /\ cachedFirmwareCheckResult' \in Verdicts(highestVersionOnAPI)
            /\ checked' = highestVersionOnAPI
    /\ answer' = IF cachedFirmwareCheckResult' = 1 THEN "yes" ELSE "no"
    /\ UNCHANGED highestVersionOnAPI

FirmwareUpdateAvailable ==
    IF highestVersionOnAPI = <<>>
    THEN /\ answer' = "no"
         /\ UNCHANGED <<highestVersionOnAPI, cachedFirmwareCheckResult, checked>>
    ELSE /\ IF cachedFirmwareCheckResult # 0
            THEN UNCHANGED <<cachedFirmwareCheckResult, checked>>
            ELSE /\ cachedFirmwareCheckResult' \in Verdicts(highestVersionOnAPI)
                 /\ checked' = highestVersionOnAPI
         /\ answer' = IF cachedFirmwareCheckResult' = 1 THEN "yes" ELSE "no"
         /\ UNCHANGED highestVersionOnAPI

Next == SetHighestFirmwareAPIVersion \/ FirmwareUpdateAvailable

Spec == Init /\ [][Next]_vars

-----------------------------------------------------------------------------
(* Properties                                                                 *)

(* The reference: what a version text denotes, its first three numbers being  *)
(* the digits of one.                                                         *)
Rank(text, i) == Cardinality({j \in 1 .. i : text[j] # Nothing})

Ranked(text, k) ==
    {i \in 1 .. Len(text) : text[i] # Nothing /\ Rank(text, i) = k}

Digit(text, k) ==
    IF Ranked(text, k) = {} THEN 0 ELSE text[CHOOSE i \in Ranked(text, k) : TRUE]

Base == MaxPart + 1

Number(text) ==
    (Digit(text, 1) * Base + Digit(text, 2)) * Base + Digit(text, 3)

(* "0=unknown, 1=update available, -1=up to date": the verdict that is kept   *)
(* is right for the version it was made for, however many parts that has, as  *)
(* long as its text fits highestVersionTmp with its terminator; of a longer   *)
(* one nothing is known but that it is not the empty text.                    *)
VerdictIsRight ==
    cachedFirmwareCheckResult # 0 =>
      /\ Fits(checked) =>
           ((cachedFirmwareCheckResult = 1) <=> Number(checked) > Number(Current))
      /\ checked # <<>>

(* FirmwareUpdateAvailable() is wrong about the version the API reports only  *)
(* when SetHighestFirmwareAPIVersion() has brought another one since the      *)
(* first check, or when that version's text is too long for its copy; without *)
(* a version it never announces an update.                                    *)
StaleOnlyAfterChange ==
    answer # "none" /\ highestVersionOnAPI \in {<<>>, checked} =>
      \/ highestVersionOnAPI # <<>> /\ ~Fits(highestVersionOnAPI)
      \/ answer = "yes" <=> /\ highestVersionOnAPI # <<>>
                            /\ Number(highestVersionOnAPI) > Number(Current)

=============================================================================
