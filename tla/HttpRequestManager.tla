------------------------- MODULE HttpRequestManager -------------------------
(* main/src/HttpRequestManager.cpp: one HTTP request at a time, kept in       *)
(* global variables.  httpRequest() and handleHttpResponseComplete() belong   *)
(* to the main UI thread; checkForHttpResponse() is polled, by the comments   *)
(* in the file from a background thread.  The two are cut into steps between  *)
(* the accesses to globals that matter to the other one.  A callback on the   *)
(* main thread may itself call httpRequest(), which returns into its caller.  *)
EXTENDS Naturals, Sequences

CONSTANTS
    MaxRequests,      \* bound: calls of httpRequest()
    Processed,        \* the requests that bring a processCallback
    Timeout,          \* connectionTimeoutSeconds, in ticks
    LostLimit,        \* the 25 polls without a connection
    Background,       \* the poll is a thread of its own
    ClockAtZero       \* millis() may read 0 when a request has been sent

ASSUME HttpAssumption ==
    /\ MaxRequests \in Nat \ {0}
    /\ Processed \subseteq 1 .. MaxRequests
    /\ Timeout \in Nat
    /\ LostLimit \in Nat \ {0}
    /\ Background \in BOOLEAN /\ ClockAtZero \in BOOLEAN

Requests == 1 .. MaxRequests

VARIABLES
    requestIsPending,
    requestCompletionStatus,  \* 1 success, -1 error, 0 nothing to report
    sent,                     \* lastConnectionTime # 0
    age,                      \* millis() - lastConnectionTime, saturating
    lostConnectionTimes,
    callbacks,                \* the request whose callbacks are installed
    response,                 \* the request whose body is in responseBuffer
    wifi,                     \* WifiConnected()
    socket,                   \* wifiClientActive: "closed", "open", "lost"
    peer,                     \* the request the socket was opened for
    inbox,                    \* what has arrived on it
    mainPc, pollPc,           \* where the two threads stand
    callers,                  \* what httpRequest() returns to, innermost first
    polled,                   \* the request the poll under way is about
    calls,                    \* calls of httpRequest() so far
    chained,                  \* the calls that a callback made
    failed,                   \* the request whose error was noted last
    answers                   \* answers[r]: what the callbacks of r were told

globals == <<requestIsPending, requestCompletionStatus, sent, age,
             lostConnectionTimes, callbacks, response>>
network == <<wifi, socket, peer, inbox>>
mainAt == <<mainPc, callers>>
pollAt == <<pollPc, polled>>
asked == <<calls, chained>>
history == <<asked, failed, answers>>
vars == <<globals, network, mainAt, pollAt, history>>

(* "partial": the headers have not arrived completely; "bad": no or another   *)
(* status than 200; "nobody": headers only; "full": headers and body.         *)
Arrivals == {"partial", "bad", "nobody", "full"}

(* Which of its callbacks is called.                                          *)
Answers == {"success", "error", "process"}

MainPcs == {"idle", "install", "reset", "wait", "send", "error",
            "second", "finish"}
(* There the main thread returns from a success or an error callback.         *)
Callbacks == {"error", "second", "finish"}
PollPcs == {"idle", "headers", "body", "fail", "cancel", "failBody",
            "cancelBody", "complete", "done"}

TypeOK ==
    /\ requestIsPending \in BOOLEAN
    /\ requestCompletionStatus \in {"none", "success", "error"}
    /\ sent \in BOOLEAN /\ age \in 0 .. Timeout + 1
    /\ lostConnectionTimes \in 0 .. LostLimit
    /\ callbacks \in 0 .. MaxRequests
    /\ response \in 0 .. MaxRequests
    /\ wifi \in BOOLEAN
    /\ socket \in {"closed", "open", "lost"}
    /\ peer \in 0 .. MaxRequests
    /\ inbox \in Arrivals \cup {"empty"}
    /\ mainPc \in MainPcs /\ pollPc \in PollPcs
    /\ callers \in Seq(Callbacks) /\ polled \in 0 .. MaxRequests
    /\ calls \in 0 .. MaxRequests /\ chained \subseteq Requests
    /\ failed \in 0 .. MaxRequests
    /\ answers \in [Requests -> Seq(Answers \X (0 .. MaxRequests))]

Init ==
    /\ requestIsPending = FALSE /\ requestCompletionStatus = "none"
    /\ sent = FALSE /\ age = 0 /\ lostConnectionTimes = 0
    /\ callbacks = 0 /\ response = 0
    /\ wifi \in BOOLEAN /\ socket = "closed" /\ peer = 0 /\ inbox = "empty"
    /\ mainPc = "idle" /\ pollPc = "idle" /\ callers = <<>> /\ polled = 0
    /\ calls = 0 /\ chained = {} /\ failed = 0 /\ answers = [r \in Requests |-> <<>>]

-----------------------------------------------------------------------------
(* Without a thread of its own the poll runs between the main thread's calls  *)
MainMayRun == Background \/ pollPc = "idle"
PollMayRun == Background \/ mainPc = "idle"

(* The installed callbacks are told kind; about is the request it is due to.  *)
Tell(kind, about) ==
    answers' = [answers EXCEPT ![callbacks] = Append(@, <<kind, about>>)]

CancelHttpRequest == /\ lostConnectionTimes' = 0
                     /\ requestIsPending' = FALSE
                     /\ socket' = "closed" /\ inbox' = "empty"

SetPendingErrorResponse == requestCompletionStatus' = "error"

(* connected(): data in the receive buffer counts as a connection             *)
Connected == socket = "open" \/ inbox # "empty"

(* httpRequest() returns, to the loop or into the callback that called it.    *)
Return ==
    IF callers = <<>> THEN mainPc' = "idle" /\ UNCHANGED callers
    ELSE mainPc' = Head(callers) /\ callers' = Tail(callers)

-----------------------------------------------------------------------------
(* httpRequest() on the main thread                                           *)

(* Called by the application, or by a callback that returns to mainPc.        *)
HttpRequest ==
    /\ mainPc \in {"idle"} \cup Callbacks /\ MainMayRun
    /\ calls < MaxRequests
    /\ CancelHttpRequest
    /\ calls' = calls + 1
    /\ IF mainPc = "idle" THEN UNCHANGED <<callers, chained>>
       ELSE callers' = <<mainPc>> \o callers /\ chained' = chained \cup {calls'}
    /\ mainPc' = "install"
    /\ UNCHANGED <<requestCompletionStatus, sent, age, callbacks, response,
                   wifi, peer, pollAt, failed, answers>>

Install ==
    /\ mainPc = "install" /\ MainMayRun
    /\ lostConnectionTimes' = 0
    /\ callbacks' = calls
    /\ requestIsPending' = TRUE
    /\ mainPc' = "reset"
    /\ UNCHANGED <<requestCompletionStatus, sent, age, response, network,
                   callers, pollAt, history>>

(* Slip: the status of the request before is left in place.                   *)
KeepStatus ==
    /\ mainPc = "reset" /\ MainMayRun
    /\ sent' = FALSE /\ age' = 0
    /\ mainPc' = "wait"
    /\ UNCHANGED <<requestIsPending, requestCompletionStatus,
                   lostConnectionTimes, callbacks, response, network, callers,
                   pollAt, history>>

ResetStatus ==
    /\ mainPc = "reset" /\ MainMayRun
    /\ requestCompletionStatus' = "none"
    /\ sent' = FALSE /\ age' = 0
    /\ mainPc' = "wait"
    /\ UNCHANGED <<requestIsPending, lostConnectionTimes, callbacks, response,
                   network, callers, pollAt, history>>

(* WaitForConnectResult() came back without a connection                      *)
NoWifi ==
    /\ mainPc = "wait" /\ MainMayRun
    /\ ~wifi
    /\ Tell("error", callbacks)
    /\ Return
    /\ UNCHANGED <<globals, network, pollAt, asked, failed>>

Connect ==
    /\ mainPc = "wait" /\ MainMayRun
    /\ wifi
    /\ \/ /\ socket' = "open" /\ peer' = calls /\ inbox' = "empty"
          /\ mainPc' = "send"
          /\ UNCHANGED answers
       \/ /\ Tell("error", callbacks)           \* "Server Not Found"
          /\ mainPc' = "error"
          /\ UNCHANGED <<socket, peer, inbox>>
    /\ UNCHANGED <<globals, wifi, callers, pollAt, asked, failed>>

ServerNotFound ==
    /\ mainPc = "error" /\ MainMayRun
    /\ requestIsPending' = FALSE
    /\ Return
    /\ UNCHANGED <<requestCompletionStatus, sent, age, lostConnectionTimes,
                   callbacks, response, network, pollAt, history>>

(* The request is written and its time is noted                               *)
Sent ==
    /\ mainPc = "send" /\ MainMayRun
    /\ sent' \in {TRUE, ~ClockAtZero} /\ age' = 0
    /\ Return
    /\ UNCHANGED <<requestIsPending, requestCompletionStatus,
                   lostConnectionTimes, callbacks, response, network, pollAt,
                   history>>

-----------------------------------------------------------------------------
(* checkForHttpResponse()                                                     *)

PollWanted == pollPc = "idle" /\ PollMayRun /\ requestIsPending /\ sent

Overdue == age > Timeout

PollFails ==
    /\ PollWanted
    /\ Overdue \/ ~wifi
    /\ pollPc' = "fail"
    /\ polled' = callbacks
    /\ UNCHANGED <<globals, network, mainAt, history>>

(* Slip: the limit is tested before the count is raised.                      *)
PollNotConnectedLate ==
    /\ PollWanted
    /\ ~Overdue /\ wifi /\ ~Connected
    /\ lostConnectionTimes' = lostConnectionTimes + 1
    /\ pollPc' = IF lostConnectionTimes < LostLimit THEN "idle" ELSE "fail"
    /\ polled' = callbacks
    /\ UNCHANGED <<requestIsPending, requestCompletionStatus, sent, age,
                   callbacks, response, network, mainAt, history>>

PollNotConnected ==
    /\ PollWanted
    /\ ~Overdue /\ wifi /\ ~Connected
    /\ lostConnectionTimes' = lostConnectionTimes + 1
    /\ pollPc' = IF lostConnectionTimes + 1 < LostLimit THEN "idle" ELSE "fail"
    /\ polled' = callbacks
    /\ UNCHANGED <<requestIsPending, requestCompletionStatus, sent, age,
                   callbacks, response, network, mainAt, history>>

PollReads ==
    /\ PollWanted
    /\ ~Overdue /\ wifi /\ inbox # "empty"
    /\ pollPc' = "headers"
    /\ polled' = callbacks
    /\ UNCHANGED <<globals, network, mainAt, history>>

ReadHeaders ==
    /\ pollPc = "headers"
    /\ pollPc' = IF inbox \in {"nobody", "full"} THEN "body" ELSE "fail"
    /\ UNCHANGED <<globals, network, mainAt, polled, history>>

Process ==
    /\ pollPc = "body" /\ callbacks \in Processed
    /\ Tell("process", peer)
    /\ inbox' = "empty"
    /\ pollPc' = "done"
    /\ UNCHANGED <<globals, wifi, socket, peer, mainAt, polled, asked, failed>>

ReadBody ==
    /\ pollPc = "body" /\ callbacks \notin Processed
    /\ IF requestIsPending /\ inbox = "full"
         THEN response' = peer /\ inbox' = "empty" /\ pollPc' = "complete"
         ELSE pollPc' = "failBody" /\ UNCHANGED <<response, inbox>>
    /\ UNCHANGED <<requestIsPending, requestCompletionStatus, sent, age,
                   lostConnectionTimes, callbacks, wifi, socket, peer, mainAt, polled,
                   history>>

Complete ==
    /\ pollPc = "complete"
    /\ socket' = "closed" /\ inbox' = "empty"
    /\ requestCompletionStatus' = "success"
    /\ pollPc' = "done"
    /\ UNCHANGED <<requestIsPending, sent, age, lostConnectionTimes, callbacks,
                   response, wifi, peer, mainAt, polled, history>>

NotPending ==
    /\ pollPc = "done"
    /\ requestIsPending' = FALSE
    /\ pollPc' = "idle"
    /\ UNCHANGED <<requestCompletionStatus, sent, age, lostConnectionTimes,
                   callbacks, response, network, mainAt, polled, history>>

(* Slip: the request is cancelled and nobody is told.                         *)
FailSilently ==
    /\ pollPc \in {"fail", "failBody"}
    /\ pollPc' = IF pollPc = "fail" THEN "cancel" ELSE "cancelBody"
    /\ UNCHANGED <<globals, network, mainAt, polled, history>>

(* The error is noted and the request cancelled; a response without a body    *)
(* then runs to the end of checkForHttpResponse(), the others return.         *)
Fail ==
    /\ pollPc \in {"fail", "failBody"}
    /\ SetPendingErrorResponse /\ failed' = polled
    /\ pollPc' = IF pollPc = "fail" THEN "cancel" ELSE "cancelBody"
    /\ UNCHANGED <<requestIsPending, sent, age, lostConnectionTimes, callbacks,
                   response, network, mainAt, polled, asked, answers>>

Cancel ==
    /\ pollPc \in {"cancel", "cancelBody"}
    /\ CancelHttpRequest
    /\ pollPc' = IF pollPc = "cancel" THEN "idle" ELSE "done"
    /\ UNCHANGED <<requestCompletionStatus, sent, age, callbacks, response,
                   wifi, peer, mainAt, polled, history>>

-----------------------------------------------------------------------------
(* handleHttpResponseComplete() on the main thread                            *)

HandleSuccess ==
    /\ mainPc = "idle" /\ MainMayRun
    /\ requestCompletionStatus = "success"
    /\ Tell("success", response)
    /\ mainPc' = "second"
    /\ UNCHANGED <<globals, network, callers, pollAt, asked, failed>>

HandleError ==
    /\ mainPc \in {"idle", "second"} /\ MainMayRun
    /\ requestCompletionStatus = "error"
    /\ Tell("error", failed)
    /\ mainPc' = "finish"
    /\ UNCHANGED <<globals, network, callers, pollAt, asked, failed>>

(* Slip: the status is not taken back when it has been reported.              *)
HandledAgain ==
    /\ \/ mainPc = "finish"
       \/ mainPc = "second" /\ requestCompletionStatus # "error"
    /\ MainMayRun
    /\ requestIsPending' = FALSE
    /\ lostConnectionTimes' = 0
    /\ mainPc' = "idle"
    /\ UNCHANGED <<requestCompletionStatus, sent, age, callbacks, response,
                   network, callers, pollAt, history>>

Handled ==
    /\ \/ mainPc = "finish"
       \/ mainPc = "second" /\ requestCompletionStatus # "error"
    /\ MainMayRun
    /\ requestCompletionStatus' = "none"
    /\ requestIsPending' = FALSE
    /\ lostConnectionTimes' = 0
    /\ mainPc' = "idle"
    /\ UNCHANGED <<sent, age, callbacks, response, network, callers, pollAt, history>>

-----------------------------------------------------------------------------
(* The network and the clock                                                  *)

Tick == /\ sent /\ age <= Timeout
        /\ age' = age + 1
        /\ UNCHANGED <<requestIsPending, requestCompletionStatus, sent,
                       lostConnectionTimes, callbacks, response, network,
                       mainAt, pollAt, history>>

Arrive == /\ socket = "open" /\ inbox \in {"empty", "partial"}
          /\ inbox' \in Arrivals
          /\ UNCHANGED <<globals, wifi, socket, peer, mainAt, pollAt, history>>

PeerCloses == /\ socket = "open"
              /\ socket' = "lost"
              /\ UNCHANGED <<globals, wifi, peer, inbox, mainAt, pollAt, history>>

WifiChanges == /\ wifi' = ~wifi
               /\ UNCHANGED <<globals, socket, peer, inbox, mainAt, pollAt,
                              history>>

Main == \/ Install \/ ResetStatus \/ NoWifi \/ Connect \/ ServerNotFound \/ Sent
        \/ HandleSuccess \/ HandleError \/ Handled

Poll == \/ PollFails \/ PollNotConnected \/ PollReads
        \/ ReadHeaders \/ Process \/ ReadBody \/ Complete \/ NotPending
        \/ Fail \/ Cancel

Next == HttpRequest \/ Main \/ Poll \/ Tick \/ Arrive \/ PeerCloses \/ WifiChanges

Spec == Init /\ [][Next]_vars

-----------------------------------------------------------------------------
(* Properties                                                                 *)

(* CancelHttpRequest() says "close any connection before send a new request": *)
(* the callbacks of a request are told about that request, never given the    *)
(* response to an earlier one.                                                *)
AnsweredWithOwnResponse ==
    \A r \in Requests : \A k \in 1 .. Len(answers[r]) : answers[r][k][2] = r

(* A request is answered at most once, by one of its callbacks.               *)
AnsweredOnce == \A r \in Requests : Len(answers[r]) <= 1

(* No request is dropped in silence: between the calls, one whose callbacks   *)
(* were told nothing still counts for the next checkForHttpResponse(), or has *)
(* a status for handleHttpResponseComplete().  Not so for a request made in a *)
(* callback: the caller then takes it for the request that has just ended.    *)
NoRequestForgotten ==
    /\ mainPc = "idle" /\ pollPc = "idle"
    /\ calls > 0 /\ calls \notin chained /\ answers[calls] = <<>>
    => \/ requestIsPending /\ sent
       \/ requestCompletionStatus # "none"

=============================================================================
