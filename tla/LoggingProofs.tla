---------------------------- MODULE LoggingProofs ----------------------------
(* The lock of Logging.cpp for any number of threads, any length of a line    *)
(* and both builds of the waiting loop.                                       *)
EXTENDS Logging, TLAPS

(* Typing, and an owner for a lock that is set.                               *)
LoggingInv == TypeOK /\ LockHasOwner

(* No thread has logged yet and the lock is free.                             *)
LEMMA LoggingInitInv == ASSUME Init PROVE LoggingInv
<1>1. TypeOK
  <2>1. 0 \in 0 .. Pieces
    BY LoggingAssumption
  <2>2. toPrint \in [Threads -> 0 .. Pieces]
    BY <2>1 DEF Init
  <2> QED BY <2>2 DEF Init, TypeOK
<1>2. LockHasOwner
  BY DEF Init, LockHasOwner
<1> QED BY <1>1, <1>2 DEF LoggingInv

(* A step that is neither Take nor Release leaves the lock alone and keeps    *)
(* every owner.                                                               *)
LEMMA OwnersStay ==
  ASSUME LoggingInv, lock' = lock,
         \A u \in Threads : pc[u] = "print" => pc'[u] = "print"
  PROVE  LockHasOwner'
BY DEF LoggingInv, LockHasOwner

(* Only the thread that sets the lock prints, and only the one that printed   *)
(* clears it.                                                                 *)
LEMMA LoggingNextInv == ASSUME LoggingInv, [Next]_vars PROVE LoggingInv'
<1> USE LoggingAssumption
<1>1. ASSUME NEW t \in Threads, Log(t) PROVE LoggingInv'
  <2>1. TypeOK'
    BY <1>1 DEF LoggingInv, TypeOK, Log, Goes
  <2>2. LockHasOwner'
    BY <1>1, OwnersStay DEF Log, Goes, LoggingInv, TypeOK
  <2> QED BY <2>1, <2>2 DEF LoggingInv
<1>2. ASSUME NEW t \in Threads, LogLine(t) \/ LineDone(t) PROVE LoggingInv'
  <2>1. TypeOK'
    BY <1>2 DEF LoggingInv, TypeOK, LogLine, LineDone, Goes
  <2>2. LockHasOwner'
    BY <1>2, OwnersStay DEF LogLine, LineDone, Goes, LoggingInv, TypeOK
  <2> QED BY <2>1, <2>2 DEF LoggingInv
<1>3. ASSUME NEW t \in Threads, LockSeen(t) \/ LockFree(t) PROVE LoggingInv'
  <2>1. TypeOK'
    BY <1>3 DEF LoggingInv, TypeOK, LockSeen, LockFree, Goes
  <2>2. LockHasOwner'
    BY <1>3, OwnersStay DEF LockSeen, LockFree, Goes, LoggingInv, TypeOK
  <2> QED BY <2>1, <2>2 DEF LoggingInv
<1>4. ASSUME NEW t \in Threads, Take(t) PROVE LoggingInv'
  <2>1. TypeOK'
    BY <1>4 DEF LoggingInv, TypeOK, Take, Goes
  <2>2. pc'[t] = "print"
    BY <1>4 DEF LoggingInv, TypeOK, Take, Goes
  <2> QED BY <2>1, <2>2 DEF LoggingInv, LockHasOwner
<1>5. ASSUME NEW t \in Threads, PrintPiece(t) PROVE LoggingInv'
  <2>1. TypeOK'
    BY <1>5 DEF LoggingInv, TypeOK, PrintPiece
  <2>2. LockHasOwner'
    BY <1>5, OwnersStay DEF PrintPiece
  <2> QED BY <2>1, <2>2 DEF LoggingInv
<1>6. ASSUME NEW t \in Threads, Release(t) PROVE LoggingInv'
  <2>1. TypeOK'
    BY <1>6 DEF LoggingInv, TypeOK, Release, Goes
  <2> QED BY <1>6, <2>1 DEF LoggingInv, LockHasOwner, Release
<1>7. CASE UNCHANGED vars
  BY <1>7 DEF vars, LoggingInv, TypeOK, LockHasOwner
<1> QED BY <1>1, <1>2, <1>3, <1>4, <1>5, <1>6, <1>7 DEF Next, Step

(* Logging.cpp, with any number of threads: the variables keep their types,   *)
(* no thread prints past the end of its line, and a lock that makes others    *)
(* wait in _CT_LOG_PRINT() always has an owner that is printing, even when    *)
(* two threads passed the test together and the first of them has freed it.   *)
THEOREM LoggingInvariant == Spec => []LoggingInv
<1>1. Init => LoggingInv
  BY LoggingInitInv
<1>2. LoggingInv /\ [Next]_vars => LoggingInv'
  BY LoggingNextInv
<1> QED BY <1>1, <1>2, PTL DEF Spec

(* No thread leaves _CT_LOG_PRINT() with the lock set and nobody to free it.  *)
THEOREM LockAlwaysHasOwner == Spec => []LockHasOwner
<1>1. LoggingInv => LockHasOwner
  BY DEF LoggingInv
<1> QED BY <1>1, LoggingInvariant, PTL
=============================================================================
