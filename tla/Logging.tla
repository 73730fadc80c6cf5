------------------------------ MODULE Logging ------------------------------
(* main/src/Logging.cpp: the log lines of several threads on one serial port. *)
(* _CT_LOG_PRINT() waits in an empty loop until _threadLoggingLock is false   *)
(* and sets it in a separate step.  The variable is an ordinary bool, so the  *)
(* read in the loop is a data race: a build reads it in every round, or once. *)
EXTENDS Naturals, FiniteSets

CONSTANTS
    Threads,
    Pieces,           \* Serial.print() calls a line takes
    ReadOnce          \* the build reads the lock once, before the loop

ASSUME LoggingAssumption ==
    /\ IsFiniteSet(Threads)
    /\ Pieces \in Nat \ {0}
    /\ ReadOnce \in BOOLEAN

VARIABLES
    lock,             \* _threadLoggingLock
    pc,               \* where each thread stands
    toPrint           \* toPrint[t]: pieces of its line still to be printed

vars == <<lock, pc, toPrint>>

TypeOK ==
    /\ lock \in BOOLEAN
    /\ pc \in [Threads -> {"idle", "wait", "spin", "take", "print", "line"}]
    /\ toPrint \in [Threads -> 0 .. Pieces]

Init == /\ lock = FALSE
        /\ pc = [t \in Threads |-> "idle"]
        /\ toPrint = [t \in Threads |-> 0]

Goes(t, from, to) == pc[t] = from /\ pc' = [pc EXCEPT ![t] = to]

-----------------------------------------------------------------------------
(* CT_LOGE() ... CT_LOGV(): a level above CT_LOG_LEVEL returns at once.       *)
Log(t) == /\ \/ Goes(t, "idle", "wait")
             \/ Goes(t, "idle", "idle")         \* filtered
          /\ UNCHANGED <<lock, toPrint>>

(* CT_LOG_LINE() does not take the lock.                                      *)
LogLine(t) == Goes(t, "idle", "line") /\ UNCHANGED <<lock, toPrint>>

LineDone(t) == Goes(t, "line", "idle") /\ UNCHANGED <<lock, toPrint>>

LockSeen(t) == /\ lock
               /\ Goes(t, "wait", IF ReadOnce THEN "spin" ELSE "wait")
               /\ UNCHANGED <<lock, toPrint>>

LockFree(t) == /\ ~lock
               /\ Goes(t, "wait", "take")
               /\ UNCHANGED <<lock, toPrint>>

Take(t) == /\ Goes(t, "take", "print")
           /\ lock' = TRUE
           /\ toPrint' = [toPrint EXCEPT ![t] = Pieces]

PrintPiece(t) == /\ pc[t] = "print" /\ toPrint[t] > 0
                 /\ toPrint' = [toPrint EXCEPT ![t] = @ - 1]
                 /\ UNCHANGED <<lock, pc>>

(* Slip: the line ends without giving the lock back.                          *)
KeepLock(t) == /\ toPrint[t] = 0
               /\ Goes(t, "print", "idle")
               /\ UNCHANGED <<lock, toPrint>>

Release(t) == /\ toPrint[t] = 0
              /\ Goes(t, "print", "idle")
              /\ lock' = FALSE
              /\ UNCHANGED toPrint

Step(t) == \/ LineDone(t) \/ LockSeen(t) \/ LockFree(t)
           \/ Take(t) \/ PrintPiece(t) \/ Release(t)

Next == \E t \in Threads : Log(t) \/ LogLine(t) \/ Step(t)

Spec == Init /\ [][Next]_vars

(* A thread that prints is scheduled: it runs on a core of its own, or at no  *)
(* lower priority than those that wait on its core.  Nothing is assumed of    *)
(* the threads that wait.                                                     *)
FairSpec == Spec /\ \A t \in Threads : WF_vars(PrintPiece(t) \/ Release(t))

-----------------------------------------------------------------------------
(* Properties                                                                 *)

(* The lock that makes a thread wait belongs to a thread that is printing and *)
(* will give it back, also when two threads took it together.                 *)
LockHasOwner == lock => \E t \in Threads : pc[t] = "print"

(* A lock that is set is freed again, however many threads log and however    *)
(* they took it: a thread that reads it in every round of the wait in         *)
(* _CT_LOG_PRINT() has the chance to see it free.  That a certain thread gets *)
(* the lock is not said: others may be faster each time.                      *)
LockIsFreed == lock ~> ~lock

(* "allow other thread to finish" (Logging.cpp, in the loop that waits): a    *)
(* line is printed by one thread at a time.                                   *)
OneWriter == Cardinality({t \in Threads : pc[t] = "print"}) <= 1

=============================================================================
