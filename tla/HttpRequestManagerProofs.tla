---------------------- MODULE HttpRequestManagerProofs ----------------------
(* The life of a request for any number of requests, any timeout and any      *)
(* limit of polls: typing for both readings of the poll; one answer, and its  *)
(* own, for a poll that runs between the calls of the main thread.            *)
EXTENDS HttpRequestManager, TLAPS

-----------------------------------------------------------------------------
(* Typing                                                                     *)

(* The count of polls without a connection reaches its limit only on the way  *)
(* to CancelHttpRequest(), which takes it back.                               *)
LimitKept == lostConnectionTimes = LostLimit => pollPc \in {"fail", "cancel"}

HttpTyped == TypeOK /\ LimitKept

(* Telling the callbacks of a request keeps the type of the answers.          *)
LEMMA TellType ==
  ASSUME TypeOK, NEW kind \in Answers, NEW about \in 0 .. MaxRequests,
         Tell(kind, about)
  PROVE  answers' \in [Requests -> Seq(Answers \X (0 .. MaxRequests))]
<1>1. <<kind, about>> \in Answers \X (0 .. MaxRequests)
  OBVIOUS
<1>2. \A s \in Seq(Answers \X (0 .. MaxRequests)) :
        Append(s, <<kind, about>>) \in Seq(Answers \X (0 .. MaxRequests))
  BY <1>1
<1> QED BY <1>2 DEF Tell, TypeOK

(* The four kinds of state that TypeOK speaks of.                            *)
FlagsTyped ==
    requestIsPending \in BOOLEAN /\ sent \in BOOLEAN /\ wifi \in BOOLEAN

StackTyped == callers \in Seq(Callbacks) /\ chained \subseteq Requests

AnswersTyped == answers \in [Requests -> Seq(Answers \X (0 .. MaxRequests))]

ValuesTyped ==
    /\ requestCompletionStatus \in {"none", "success", "error"}
    /\ age \in 0 .. Timeout + 1
    /\ lostConnectionTimes \in 0 .. LostLimit
    /\ callbacks \in 0 .. MaxRequests
    /\ response \in 0 .. MaxRequests
    /\ socket \in {"closed", "open", "lost"}
    /\ peer \in 0 .. MaxRequests
    /\ inbox \in Arrivals \cup {"empty"}
    /\ mainPc \in MainPcs /\ pollPc \in PollPcs
    /\ polled \in 0 .. MaxRequests
    /\ calls \in 0 .. MaxRequests /\ failed \in 0 .. MaxRequests

(* TypeOK, in the parts the steps keep one by one.                            *)
LEMMA TypeParts ==
  TypeOK <=> FlagsTyped /\ ValuesTyped /\ StackTyped /\ AnswersTyped
BY DEF TypeOK, FlagsTyped, ValuesTyped, StackTyped, AnswersTyped

(* httpRequest() returns to the main loop or into a callback.                 *)
LEMMA ReturnsSomewhere ==
  ASSUME StackTyped, Return
  PROVE  /\ callers' \in Seq(Callbacks)
         /\ mainPc' \in {"idle", "error", "second", "finish"}
         /\ mainPc' = "idle" => callers = <<>> /\ callers' = <<>>
         /\ mainPc' # "idle" => callers # <<>>
<1>1. CASE callers = <<>>
  BY <1>1 DEF StackTyped, Return
<1>2. CASE callers # <<>>
  <2>1. Head(callers) \in Callbacks /\ Tail(callers) \in Seq(Callbacks)
    BY <1>2 DEF StackTyped
  <2> QED BY <1>2, <2>1 DEF Return, Callbacks
<1> QED BY <1>1, <1>2

(* Before begin() every field has its first value.                            *)
LEMMA HttpInitTyped == ASSUME Init PROVE HttpTyped
<1>1. <<>> \in Seq(Answers \X (0 .. MaxRequests))
  OBVIOUS
<1>2. AnswersTyped
  BY <1>1 DEF Init, AnswersTyped
<1>3. ValuesTyped /\ LimitKept /\ StackTyped
  BY HttpAssumption DEF Init, ValuesTyped, MainPcs, PollPcs, Arrivals, LimitKept,
     StackTyped
<1>4. FlagsTyped
  BY Zenon DEF Init, FlagsTyped
<1> QED BY <1>2, <1>3, <1>4, TypeParts DEF HttpTyped

(* No step of either thread makes a flag anything but a Boolean.              *)
LEMMA FlagsKept == ASSUME FlagsTyped, [Next]_vars PROVE FlagsTyped'
<1>1. CASE HttpRequest
  BY <1>1, Zenon DEF HttpRequest, CancelHttpRequest, FlagsTyped
<1>2. CASE Install
  BY <1>2, Zenon DEF Install, FlagsTyped, network
<1>3. CASE ResetStatus
  BY <1>3, Zenon DEF ResetStatus, FlagsTyped, network
<1>4. CASE NoWifi
  BY <1>4, Zenon DEF NoWifi, FlagsTyped, globals, network
<1>5. CASE Connect
  BY <1>5, Zenon DEF Connect, FlagsTyped, globals
<1>6. CASE ServerNotFound
  BY <1>6, Zenon DEF ServerNotFound, FlagsTyped, network
<1>7. CASE Sent
  BY <1>7, Zenon, HttpAssumption DEF Sent, FlagsTyped, network
<1>8. CASE HandleSuccess \/ HandleError
  BY <1>8, Zenon DEF HandleSuccess, HandleError, FlagsTyped, globals, network
<1>9. CASE Handled
  BY <1>9, Zenon DEF Handled, FlagsTyped, network
<1>10. CASE PollFails \/ PollReads \/ ReadHeaders
  BY <1>10, Zenon DEF PollFails, PollReads, ReadHeaders, FlagsTyped, globals, network
<1>11. CASE PollNotConnected
  BY <1>11, Zenon DEF PollNotConnected, FlagsTyped, network
<1>12. CASE Process
  BY <1>12, Zenon DEF Process, FlagsTyped, globals
<1>13. CASE ReadBody
  BY <1>13, Zenon DEF ReadBody, FlagsTyped
<1>14. CASE Complete \/ NotPending
  BY <1>14, Zenon DEF Complete, NotPending, FlagsTyped, network
<1>15. CASE Fail \/ Cancel
  BY <1>15, Zenon DEF Fail, Cancel, CancelHttpRequest, FlagsTyped, network
<1>16. CASE Tick
  BY <1>16, Zenon DEF Tick, FlagsTyped, network
<1>17. CASE Arrive \/ PeerCloses \/ WifiChanges
  BY <1>17, Zenon DEF Arrive, PeerCloses, WifiChanges, FlagsTyped, globals
<1>18. CASE UNCHANGED vars
  BY <1>18, Zenon DEF vars, FlagsTyped, globals, network
<1> QED BY <1>1, <1>2, <1>3, <1>4, <1>5, <1>6, <1>7, <1>8, <1>9, <1>10, <1>11,
           <1>12, <1>13, <1>14, <1>15, <1>16, <1>17, <1>18 DEF Next, Main, Poll

(* No step leaves the range of a counter, a program counter or a number of a  *)
(* request.                                                                   *)
LEMMA ValuesKept ==
  ASSUME ValuesTyped, StackTyped, LimitKept, [Next]_vars
  PROVE  ValuesTyped' /\ LimitKept'
<1> USE HttpAssumption DEF ValuesTyped, LimitKept, MainPcs, PollPcs, Arrivals,
        mainAt, pollAt, asked
<1>1. CASE HttpRequest
  BY <1>1 DEF HttpRequest, CancelHttpRequest, Callbacks
<1>2. CASE Install
  BY <1>2 DEF Install, network, history
<1>3. CASE ResetStatus
  BY <1>3 DEF ResetStatus, network, history
<1>4. CASE NoWifi
  BY <1>4, ReturnsSomewhere DEF NoWifi, globals, network
<1>5. CASE Connect
  BY <1>5 DEF Connect, globals
<1>6. CASE ServerNotFound
  BY <1>6, ReturnsSomewhere DEF ServerNotFound, network, history
<1>7. CASE Sent
  BY <1>7, ReturnsSomewhere DEF Sent, network, history
<1>8. CASE HandleSuccess \/ HandleError
  BY <1>8 DEF HandleSuccess, HandleError, globals, network
<1>9. CASE Handled
  BY <1>9 DEF Handled, network, history
<1>10. CASE PollFails \/ PollReads \/ ReadHeaders
  BY <1>10 DEF PollFails, PollReads, PollWanted, ReadHeaders, globals, network,
               history
<1>11. CASE PollNotConnected
  BY <1>11 DEF PollNotConnected, PollWanted, network, history
<1>12. CASE Process
  BY <1>12 DEF Process, globals
<1>13. CASE ReadBody
  BY <1>13 DEF ReadBody, history
<1>14. CASE Complete \/ NotPending
  BY <1>14 DEF Complete, NotPending, network, history
<1>15. CASE Fail \/ Cancel
  BY <1>15 DEF Fail, SetPendingErrorResponse, Cancel, CancelHttpRequest,
               network, history
<1>16. CASE Tick
  BY <1>16 DEF Tick, network, history
<1>17. CASE Arrive \/ PeerCloses \/ WifiChanges
  BY <1>17 DEF Arrive, PeerCloses, WifiChanges, globals, history
<1>18. CASE UNCHANGED vars
  BY <1>18 DEF vars, globals, network, history
<1> QED BY <1>1, <1>2, <1>3, <1>4, <1>5, <1>6, <1>7, <1>8, <1>9, <1>10, <1>11,
           <1>12, <1>13, <1>14, <1>15, <1>16, <1>17, <1>18 DEF Next, Main, Poll

(* The stack of callers holds places a callback returns to, and only calls    *)
(* that were made count as chained.                                           *)
LEMMA StackKept ==
  ASSUME ValuesTyped, StackTyped, [Next]_vars PROVE StackTyped'
<1>1. CASE HttpRequest
  <2>1. calls + 1 \in Requests
    BY <1>1, HttpAssumption DEF HttpRequest, ValuesTyped, Requests
  <2>2. CASE mainPc = "idle"
    BY <1>1, <2>2 DEF HttpRequest, StackTyped, Requests
  <2>3. CASE mainPc # "idle"
    <3>1. mainPc \in Callbacks
      BY <1>1, <2>3 DEF HttpRequest
    <3>2. callers' = <<mainPc>> \o callers /\ chained' = chained \cup {calls + 1}
      BY <1>1, <2>3 DEF HttpRequest
    <3>3. <<mainPc>> \in Seq(Callbacks)
      BY <3>1
    <3>4. <<mainPc>> \o callers \in Seq(Callbacks)
      BY <3>3 DEF StackTyped
    <3>5. chained' \subseteq Requests
      BY <2>1, <3>2 DEF StackTyped
    <3> QED BY <3>2, <3>4, <3>5 DEF StackTyped, Requests
  <2> QED BY <2>2, <2>3
<1>2. CASE NoWifi \/ ServerNotFound \/ Sent
  BY <1>2, ReturnsSomewhere
     DEF NoWifi, ServerNotFound, Sent, StackTyped, history, asked, Requests
<1>3. ASSUME UNCHANGED callers, UNCHANGED asked PROVE StackTyped'
  BY <1>3 DEF StackTyped, asked, Requests
<1>4. CASE Install \/ ResetStatus \/ Connect \/ HandleSuccess \/ HandleError
             \/ Handled
  BY <1>3, <1>4 DEF Install, ResetStatus, Connect, HandleSuccess, HandleError,
                    Handled, history
<1>5. CASE Poll
  BY <1>3, <1>5 DEF Poll, PollFails, PollNotConnected, PollReads, ReadHeaders,
                    Process, ReadBody, Complete, NotPending, Fail, Cancel,
                    mainAt, history
<1>6. CASE Tick \/ Arrive \/ PeerCloses \/ WifiChanges \/ UNCHANGED vars
  BY <1>3, <1>6 DEF Tick, Arrive, PeerCloses, WifiChanges, vars, mainAt, history
<1> QED BY <1>1, <1>2, <1>4, <1>5, <1>6 DEF Next, Main

(* What the callbacks are told is always a kind of answer about a request.    *)
LEMMA AnswersKept == ASSUME TypeOK, [Next]_vars PROVE AnswersTyped'
<1>1. /\ callbacks \in 0 .. MaxRequests /\ response \in 0 .. MaxRequests
      /\ peer \in 0 .. MaxRequests /\ failed \in 0 .. MaxRequests
  BY DEF TypeOK
<1>2. "error" \in Answers /\ "success" \in Answers /\ "process" \in Answers
  BY DEF Answers
<1>3. CASE NoWifi
  <2>1. Tell("error", callbacks)
    BY <1>3 DEF NoWifi
  <2> QED BY <1>1, <1>2, <2>1, TellType DEF AnswersTyped
<1>7. CASE HandleError
  <2>1. Tell("error", failed)
    BY <1>7 DEF HandleError
  <2> QED BY <1>1, <1>2, <2>1, TellType DEF AnswersTyped
<1>4. CASE HandleSuccess
  <2>1. Tell("success", response)
    BY <1>4 DEF HandleSuccess
  <2> QED BY <1>1, <1>2, <2>1, TellType DEF AnswersTyped
<1>5. CASE Process
  <2>1. Tell("process", peer)
    BY <1>5 DEF Process
  <2> QED BY <1>1, <1>2, <2>1, TellType DEF AnswersTyped
<1>6. CASE Connect
  <2>1. CASE Tell("error", callbacks)
    BY <1>1, <1>2, <2>1, TellType DEF AnswersTyped
  <2>2. CASE UNCHANGED answers
    BY <2>2 DEF AnswersTyped, TypeOK
  <2> QED BY <2>1, <2>2, <1>6 DEF Connect
<1>8. ASSUME UNCHANGED answers PROVE AnswersTyped'
  BY <1>8 DEF AnswersTyped, TypeOK
<1>9. CASE HttpRequest \/ Install \/ ResetStatus \/ ServerNotFound \/ Sent \/ Handled
  BY <1>8, <1>9 DEF HttpRequest, Install, ResetStatus, ServerNotFound, Sent, Handled,
                    history
<1>10. CASE PollFails \/ PollNotConnected \/ PollReads \/ ReadHeaders \/ ReadBody
              \/ Complete \/ NotPending \/ Fail \/ Cancel
  BY <1>8, <1>10 DEF PollFails, PollNotConnected, PollReads, ReadHeaders, ReadBody,
                     Complete, NotPending, Fail, Cancel, history
<1>11. CASE Tick \/ Arrive \/ PeerCloses \/ WifiChanges \/ UNCHANGED vars
  BY <1>8, <1>11 DEF Tick, Arrive, PeerCloses, WifiChanges, vars, history
<1> QED BY <1>3, <1>4, <1>5, <1>6, <1>7, <1>9, <1>10, <1>11 DEF Next, Main, Poll

(* Every step of the main loop, of the request's thread and of the network    *)
(* keeps the types.                                                           *)
LEMMA HttpNextTyped == ASSUME HttpTyped, [Next]_vars PROVE HttpTyped'
<1>1. FlagsTyped' /\ ValuesTyped' /\ LimitKept' /\ StackTyped' /\ AnswersTyped'
  BY TypeParts, FlagsKept, ValuesKept, StackKept, AnswersKept DEF HttpTyped
<1> QED BY <1>1
        DEF HttpTyped, TypeOK, FlagsTyped, ValuesTyped, StackTyped, AnswersTyped

(* The variables keep their types whatever the two threads do, and the count  *)
(* of polls without a connection stays within its limit.                      *)
THEOREM HttpTypeCorrect == Spec => []TypeOK
<1>1. Init => HttpTyped
  BY HttpInitTyped
<1>2. HttpTyped /\ [Next]_vars => HttpTyped'
  BY HttpNextTyped
<1>3. HttpTyped => TypeOK
  BY DEF HttpTyped
<1> QED BY <1>1, <1>2, <1>3, PTL DEF Spec

-----------------------------------------------------------------------------
(* One answer per request, when the poll is no thread of its own              *)

(* What the callbacks that are installed have been told.                      *)
Unanswered == callbacks > 0 /\ answers[callbacks] = <<>>

(* httpRequest() and checkForHttpResponse() are never both under way.         *)
OneAtATime == mainPc = "idle" \/ pollPc = "idle"

(* The callbacks installed are those of the last call, once it installed them;*)
(* no later request has been told anything.                                   *)
Numbering ==
    /\ callbacks = IF mainPc = "install" THEN calls - 1 ELSE calls
    /\ mainPc = "install" => calls > 0
    /\ \A r \in Requests : r > callbacks => answers[r] = <<>>

(* What holds within httpRequest() and handleHttpResponseComplete().          *)
MainPhases ==
    /\ mainPc \in {"reset", "wait", "send"} => Unanswered
    /\ mainPc \in {"wait", "send", "error"} => requestCompletionStatus = "none"
    /\ mainPc \in {"wait", "send"} => ~sent
    /\ mainPc = "send" => peer = calls
    /\ mainPc = "second" => requestCompletionStatus \in {"success", "none"}
    /\ mainPc \in Callbacks /\ sent => peer = callbacks

(* What holds within checkForHttpResponse().                                  *)
PollPhases ==
    /\ pollPc # "idle" => sent /\ polled = callbacks
    /\ pollPc \in {"headers", "body", "fail", "failBody", "complete"} =>
         requestCompletionStatus = "none" /\ Unanswered
    /\ pollPc \in {"cancel", "cancelBody"} =>
         requestCompletionStatus = "error" /\ Unanswered
    /\ pollPc = "complete" => response = callbacks

(* Between the calls: a request that is pending, or whose status is still to  *)
(* be reported, has not been answered, and the socket is its own.             *)
Awaited ==
    mainPc = "idle" =>
    /\ pollPc = "idle" /\ requestIsPending /\ sent =>
         requestCompletionStatus = "none" /\ Unanswered
    /\ requestCompletionStatus # "none" => Unanswered
    /\ requestCompletionStatus = "success" => response = callbacks
    /\ requestCompletionStatus = "error" => failed = callbacks
    /\ sent => peer = callbacks

HttpLife == OneAtATime /\ Numbering /\ MainPhases /\ PollPhases /\ Awaited

HttpAnswers == AnsweredOnce /\ AnsweredWithOwnResponse

HttpInv == HttpTyped /\ HttpLife /\ HttpAnswers

(* Callbacks that were told nothing and are told about their own request have *)
(* one answer then, and all answers stay single and their own.                *)
LEMMA ToldOnce ==
  ASSUME TypeOK, HttpAnswers, Unanswered,
         NEW kind \in Answers, Tell(kind, callbacks)
  PROVE  /\ HttpAnswers'
         /\ Len(answers'[callbacks]) = 1
         /\ \A r \in Requests : r # callbacks => answers'[r] = answers[r]
<1>1. callbacks \in Requests /\ DOMAIN answers = Requests
  BY HttpAssumption DEF TypeOK, Unanswered, Requests
<1>2. /\ answers'[callbacks] = <<<<kind, callbacks>>>>
      /\ \A r \in Requests : r # callbacks => answers'[r] = answers[r]
  BY <1>1 DEF Tell, Unanswered
<1>3. /\ Len(answers'[callbacks]) = 1
      /\ answers'[callbacks][1] = <<kind, callbacks>>
  BY <1>2
<1>4. AnsweredOnce'
  BY <1>2, <1>3 DEF HttpAnswers, AnsweredOnce, Requests
<1>5. AnsweredWithOwnResponse'
  <2> SUFFICES ASSUME NEW r \in Requests, NEW k \in 1 .. Len(answers'[r])
               PROVE  answers'[r][k][2] = r
    BY DEF AnsweredWithOwnResponse, Requests
  <2>1. CASE r = callbacks
    <3>1. k \in 1 .. 1
      BY <1>3, <2>1
    <3>2. k = 1
      BY <3>1
    <3> QED BY <1>3, <2>1, <3>2
  <2>2. CASE r # callbacks
    BY <1>2, <2>2 DEF HttpAnswers, AnsweredWithOwnResponse
  <2> QED BY <2>1, <2>2
<1> QED BY <1>2, <1>3, <1>4, <1>5 DEF HttpAnswers

(* Without a request nothing is owed an answer.                               *)
LEMMA HttpInitInv == ASSUME Init PROVE HttpInv
<1>1. HttpTyped
  BY HttpInitTyped
<1>2. HttpLife
  BY HttpAssumption DEF Init, HttpLife, OneAtATime, Numbering, MainPhases,
     PollPhases, Awaited, Requests
<1>3. HttpAnswers
  BY DEF Init, HttpAnswers, AnsweredOnce, AnsweredWithOwnResponse
<1> QED BY <1>1, <1>2, <1>3 DEF HttpInv

(* With the poll between the calls of the main thread, every step keeps the   *)
(* phases, and tells the callbacks only what they were not told before.       *)
LEMMA LifeKept ==
  ASSUME ~Background, HttpInv, [Next]_vars
  PROVE  HttpLife' /\ HttpAnswers'
<1> USE HttpAssumption DEF HttpInv, HttpTyped, ValuesTyped, MainPcs, PollPcs,
        HttpLife, OneAtATime, Numbering, MainPhases, PollPhases, Awaited,
        Unanswered, MainMayRun, PollMayRun, Requests, Callbacks,
        mainAt, pollAt, asked
<1>0. ValuesTyped /\ StackTyped
  BY TypeParts
<1>a. ASSUME UNCHANGED answers PROVE HttpAnswers'
  BY <1>a DEF HttpAnswers, AnsweredOnce, AnsweredWithOwnResponse
<1>b. /\ TypeOK /\ HttpAnswers
      /\ "error" \in Answers /\ "success" \in Answers /\ "process" \in Answers
  BY DEF Answers
<1>1. CASE HttpRequest
  BY <1>0, <1>a, <1>1 DEF HttpRequest, CancelHttpRequest
<1>2. CASE Install
  BY <1>0, <1>a, <1>2 DEF Install, network, history
<1>3. CASE ResetStatus
  BY <1>0, <1>a, <1>3 DEF ResetStatus, network, history
<1>4. CASE ServerNotFound
  BY <1>0, <1>a, <1>4, ReturnsSomewhere DEF ServerNotFound, network, history
<1>5. CASE Sent
  BY <1>0, <1>a, <1>5, ReturnsSomewhere DEF Sent, network, history
<1>6. CASE Handled
  BY <1>0, <1>a, <1>6 DEF Handled, network, history
<1>7. CASE PollFails
  BY <1>0, <1>a, <1>7 DEF PollFails, PollWanted, globals, network, history
<1>8. CASE PollNotConnected
  BY <1>0, <1>a, <1>8 DEF PollNotConnected, PollWanted, network, history
<1>9. CASE PollReads
  BY <1>0, <1>a, <1>9 DEF PollReads, PollWanted, globals, network, history
<1>10. CASE ReadHeaders
  BY <1>0, <1>a, <1>10 DEF ReadHeaders, globals, network, history
<1>11. CASE ReadBody
  BY <1>0, <1>a, <1>11 DEF ReadBody, history
<1>12. CASE Complete
  BY <1>0, <1>a, <1>12 DEF Complete, history
<1>13. CASE NotPending
  BY <1>0, <1>a, <1>13 DEF NotPending, network, history
<1>14. CASE Fail
  BY <1>0, <1>a, <1>14 DEF Fail, SetPendingErrorResponse, network, history
<1>15. CASE Cancel
  BY <1>0, <1>a, <1>15 DEF Cancel, CancelHttpRequest, history
<1>16. CASE Tick
  BY <1>0, <1>a, <1>16 DEF Tick, network, history
<1>17. CASE Arrive \/ PeerCloses \/ WifiChanges
  BY <1>0, <1>a, <1>17 DEF Arrive, PeerCloses, WifiChanges, globals, history
<1>18. CASE UNCHANGED vars
  BY <1>0, <1>a, <1>18 DEF vars, globals, network, history
<1>19. CASE NoWifi
  <2>1. Unanswered /\ Tell("error", callbacks)
    BY <1>0, <1>19 DEF NoWifi
  <2>2. /\ HttpAnswers' /\ Len(answers'[callbacks]) = 1
        /\ \A r \in Requests : r # callbacks => answers'[r] = answers[r]
    BY <1>b, <2>1, ToldOnce
  <2> QED BY <1>0, <1>19, <2>1, <2>2, ReturnsSomewhere DEF NoWifi, globals, network
<1>20. CASE HandleSuccess
  <2>1. Unanswered /\ response = callbacks /\ Tell("success", response)
    BY <1>0, <1>20 DEF HandleSuccess
  <2>2. /\ HttpAnswers' /\ Len(answers'[callbacks]) = 1
        /\ \A r \in Requests : r # callbacks => answers'[r] = answers[r]
    BY <1>b, <2>1, ToldOnce
  <2> QED BY <1>0, <1>20, <2>1, <2>2 DEF HandleSuccess, globals, network
<1>21. CASE HandleError
  <2>1. Unanswered /\ failed = callbacks /\ Tell("error", failed)
    BY <1>0, <1>21 DEF HandleError
  <2>2. /\ HttpAnswers' /\ Len(answers'[callbacks]) = 1
        /\ \A r \in Requests : r # callbacks => answers'[r] = answers[r]
    BY <1>b, <2>1, ToldOnce
  <2> QED BY <1>0, <1>21, <2>1, <2>2 DEF HandleError, globals, network
<1>22. CASE Process
  <2>1. Unanswered /\ peer = callbacks /\ Tell("process", peer)
    BY <1>0, <1>22 DEF Process
  <2>2. /\ HttpAnswers' /\ Len(answers'[callbacks]) = 1
        /\ \A r \in Requests : r # callbacks => answers'[r] = answers[r]
    BY <1>b, <2>1, ToldOnce
  <2> QED BY <1>0, <1>22, <2>1, <2>2 DEF Process, globals
<1>23. CASE Connect
  <2>1. CASE /\ Tell("error", callbacks) /\ mainPc' = "error"
             /\ UNCHANGED <<socket, peer, inbox>>
    <3>1. Unanswered
      BY <1>0, <1>23 DEF Connect
    <3>2. /\ HttpAnswers' /\ Len(answers'[callbacks]) = 1
          /\ \A r \in Requests : r # callbacks => answers'[r] = answers[r]
      BY <1>b, <2>1, <3>1, ToldOnce
    <3> QED BY <1>0, <1>23, <2>1, <3>1, <3>2 DEF Connect, globals
  <2>2. CASE peer' = calls /\ mainPc' = "send" /\ UNCHANGED answers
    BY <1>0, <1>a, <1>23, <2>2 DEF Connect, globals
  <2> QED BY <1>23, <2>1, <2>2 DEF Connect
<1> QED BY <1>1, <1>2, <1>3, <1>4, <1>5, <1>6, <1>7, <1>8, <1>9,
           <1>10, <1>11, <1>12, <1>13, <1>14, <1>15, <1>16, <1>17, <1>18,
           <1>19, <1>20, <1>21, <1>22, <1>23
     DEF Next, Main, Poll

(* Every step keeps the invariant of a poll between the calls.                *)
LEMMA HttpNextInv == ASSUME ~Background, HttpInv, [Next]_vars PROVE HttpInv'
<1>1. HttpTyped'
  BY HttpNextTyped DEF HttpInv
<1> QED BY <1>1, LifeKept DEF HttpInv

(* HttpRequestManager.cpp polled from the main loop: however the requests,    *)
(* the network and the clock interleave, a request is answered at most once.  *)
THEOREM OneAnswerPerRequest == ~Background => (Spec => []AnsweredOnce)
<1> SUFFICES ASSUME ~Background PROVE Spec => []AnsweredOnce
  OBVIOUS
<1>1. Init => HttpInv
  BY HttpInitInv
<1>2. HttpInv /\ [Next]_vars => HttpInv'
  BY HttpNextInv
<1>3. HttpInv => AnsweredOnce
  BY DEF HttpInv, HttpAnswers
<1> QED BY <1>1, <1>2, <1>3, PTL DEF Spec

(* ... and what its callbacks are given is the response to that request.  The *)
(* run of the background thread shows that the hypothesis cannot be dropped.  *)
THEOREM OwnAnswer == ~Background => (Spec => []AnsweredWithOwnResponse)
<1> SUFFICES ASSUME ~Background PROVE Spec => []AnsweredWithOwnResponse
  OBVIOUS
<1>1. Init => HttpInv
  BY HttpInitInv
<1>2. HttpInv /\ [Next]_vars => HttpInv'
  BY HttpNextInv
<1>3. HttpInv => AnsweredWithOwnResponse
  BY DEF HttpInv, HttpAnswers
<1> QED BY <1>1, <1>2, <1>3, PTL DEF Spec

-----------------------------------------------------------------------------
(* No request is dropped in silence                                           *)

(* handleHttpResponseComplete() is called by the loop, so only the outermost  *)
(* of the callers can be one of its callbacks.                                *)
Outermost ==
    /\ mainPc \in {"idle", "second", "finish"} => callers = <<>>
    /\ \A k \in 1 .. Len(callers) :
         callers[k] \in {"second", "finish"} => k = Len(callers)

(* The last request is answered, or a callback made it.                       *)
Settled ==
    callbacks > 0 => answers[callbacks] # <<>> \/ callbacks \in chained

(* Whoever ends the work on a request has answered it or noted its status.    *)
Tended ==
    /\ mainPc \in Callbacks => Settled
    /\ mainPc \in {"install", "reset", "wait", "send"} /\ callers # <<>> =>
         calls \in chained
    /\ mainPc \in {"reset", "wait", "send"} => requestIsPending
    /\ pollPc = "done" => Settled \/ requestCompletionStatus # "none"
    /\ mainPc = "idle" /\ pollPc = "idle" =>
         \/ Settled \/ requestCompletionStatus # "none"
         \/ requestIsPending /\ sent

(* A return leaves only the outermost caller to a callback of the handler.    *)
LEMMA ReturnsInOrder ==
  ASSUME StackTyped, Outermost, Return
  PROVE  Outermost'
<1>1. CASE callers = <<>>
  BY <1>1 DEF Return, Outermost
<1>2. CASE callers # <<>>
  <2>1. /\ mainPc' = callers[1] /\ callers' = Tail(callers)
        /\ Len(callers) \in Nat /\ Len(callers) > 0
    BY <1>2 DEF Return, StackTyped
  <2>2. /\ Len(callers') = Len(callers) - 1
        /\ \A k \in 1 .. Len(callers') : callers'[k] = callers[k + 1]
    BY <1>2, <2>1 DEF StackTyped
  <2>3. ASSUME NEW k \in 1 .. Len(callers'), callers'[k] \in {"second", "finish"}
        PROVE  k = Len(callers')
    BY <2>1, <2>2, <2>3 DEF Outermost
  <2>4. mainPc' \in {"second", "finish"} => Len(callers') = 0
    <3>1. 1 \in 1 .. Len(callers)
      BY <2>1
    <3>2. callers[1] \in {"second", "finish"} => 1 = Len(callers)
      BY <3>1 DEF Outermost
    <3> QED BY <2>1, <2>2, <3>2
  <2>5. callers' \in Seq(Callbacks) /\ mainPc' # "idle"
    BY <1>2, ReturnsSomewhere
  <2>6. mainPc' \in {"idle", "second", "finish"} => callers' = <<>>
    BY <2>4, <2>5
  <2> QED BY <2>3, <2>6 DEF Outermost
<1> QED BY <1>1, <1>2

(* Every step keeps the order of the callers.                                 *)
LEMMA OutermostKept ==
  ASSUME StackTyped, Outermost, [Next]_vars PROVE Outermost'
<1>1. CASE HttpRequest
  <2>1. CASE mainPc = "idle"
    BY <1>1, <2>1 DEF HttpRequest, Outermost
  <2>2. CASE mainPc \in {"second", "finish"}
    <3>1. callers' = <<mainPc>> /\ mainPc' = "install"
      BY <1>1, <2>2 DEF HttpRequest, Outermost
    <3> QED BY <3>1 DEF Outermost
  <2>3. CASE mainPc = "error"
    <3>1. callers' = <<"error">> \o callers /\ mainPc' = "install"
      BY <1>1, <2>3 DEF HttpRequest
    <3>2. /\ Len(callers) \in Nat /\ Len(callers') = Len(callers) + 1
          /\ callers'[1] = "error"
          /\ \A k \in 2 .. Len(callers') : callers'[k] = callers[k - 1]
      BY <3>1 DEF StackTyped
    <3>3. ASSUME NEW k \in 1 .. Len(callers'),
                 callers'[k] \in {"second", "finish"}
          PROVE  k = Len(callers')
      <4>1. k # 1
        BY <3>2, <3>3
      <4>2. k - 1 \in 1 .. Len(callers) /\ callers'[k] = callers[k - 1]
        BY <3>2, <4>1
      <4> QED BY <3>2, <3>3, <4>2 DEF Outermost
    <3> QED BY <3>1, <3>3 DEF Outermost
  <2> QED BY <1>1, <2>1, <2>2, <2>3 DEF HttpRequest, Callbacks
<1>2. CASE NoWifi \/ ServerNotFound \/ Sent
  BY <1>2, ReturnsInOrder DEF NoWifi, ServerNotFound, Sent
<1>3. CASE Install \/ ResetStatus \/ Connect
  BY <1>3 DEF Install, ResetStatus, Connect, Outermost
<1>4. CASE HandleSuccess \/ HandleError \/ Handled
  BY <1>4 DEF HandleSuccess, HandleError, Handled, Outermost
<1>5. ASSUME UNCHANGED mainAt PROVE Outermost'
  BY <1>5 DEF mainAt, Outermost
<1>6. CASE Poll
  BY <1>5, <1>6 DEF Poll, PollFails, PollNotConnected, PollReads, ReadHeaders,
                    Process, ReadBody, Complete, NotPending, Fail, Cancel
<1>7. CASE Tick \/ Arrive \/ PeerCloses \/ WifiChanges \/ UNCHANGED vars
  BY <1>5, <1>7 DEF Tick, Arrive, PeerCloses, WifiChanges, vars
<1> QED BY <1>1, <1>2, <1>3, <1>4, <1>6, <1>7 DEF Next, Main

(* Telling the callbacks settles their request.                               *)
LEMMA ToldSettles ==
  ASSUME TypeOK, NEW kind, NEW about, Tell(kind, about), callbacks' = callbacks,
         kind \in Answers, about \in 0 .. MaxRequests
  PROVE  Settled'
<1> SUFFICES ASSUME callbacks > 0 PROVE answers'[callbacks] # <<>>
  BY DEF Settled
<1>1. callbacks \in DOMAIN answers
  BY HttpAssumption DEF TypeOK, Requests
<1>2. answers'[callbacks] = Append(answers[callbacks], <<kind, about>>)
  BY <1>1 DEF Tell
<1>3. /\ <<kind, about>> \in Answers \X (0 .. MaxRequests)
      /\ answers[callbacks] \in Seq(Answers \X (0 .. MaxRequests))
  BY <1>1, HttpAssumption DEF TypeOK, Requests
<1>4. Len(answers'[callbacks]) = Len(answers[callbacks]) + 1
      /\ Len(answers[callbacks]) \in Nat
  BY <1>2, <1>3
<1>5. Len(answers'[callbacks]) # 0
  BY <1>4
<1> QED BY <1>5

(* Every step tends to the request it ends.                                   *)
LEMMA TendedKept ==
  ASSUME ~Background, ~ClockAtZero, HttpInv, Outermost, Tended, [Next]_vars
  PROVE  Tended'
<1> USE HttpAssumption DEF HttpInv, HttpTyped, ValuesTyped, MainPcs, PollPcs,
        HttpLife, OneAtATime, Numbering, MainPhases, PollPhases,
        Tended, MainMayRun, PollMayRun, Requests, Callbacks,
        mainAt, pollAt, asked
<1>0. ValuesTyped /\ StackTyped /\ TypeOK
  BY TypeParts
<1>a. ASSUME UNCHANGED <<callbacks, answers, chained>> PROVE Settled' <=> Settled
  BY <1>a DEF Settled
<1>b. "error" \in Answers /\ "success" \in Answers /\ "process" \in Answers
  BY DEF Answers
<1>c. /\ failed \in 0 .. MaxRequests /\ response \in 0 .. MaxRequests
      /\ peer \in 0 .. MaxRequests /\ callbacks \in 0 .. MaxRequests
  BY <1>0
<1>1. CASE HttpRequest
  BY <1>0, <1>1 DEF HttpRequest, Outermost
<1>2. CASE Install
  BY <1>0, <1>2 DEF Install, network, history
<1>3. CASE ResetStatus
  BY <1>0, <1>3 DEF ResetStatus, network, history
<1>4. CASE NoWifi
  <2>1. Settled' /\ pollPc' = "idle" /\ mainPc' \in {"idle"} \cup Callbacks
    BY <1>0, <1>b, <1>c, <1>4, ToldSettles, ReturnsSomewhere DEF NoWifi, globals
  <2> QED BY <2>1
<1>5. CASE Connect
  <2>1. CASE Tell("error", callbacks) /\ mainPc' = "error"
    <3>1. Settled' /\ pollPc' = "idle"
      BY <1>0, <1>b, <1>c, <1>5, <2>1, ToldSettles DEF Connect, globals
    <3> QED BY <2>1, <3>1
  <2>2. CASE mainPc' = "send" /\ UNCHANGED answers
    BY <1>0, <1>5, <2>2 DEF Connect, globals
  <2> QED BY <1>5, <2>1, <2>2 DEF Connect
<1>6. CASE ServerNotFound
  <2>1. Settled' /\ pollPc' = "idle" /\ mainPc' \in {"idle"} \cup Callbacks
    BY <1>0, <1>a, <1>6, ReturnsSomewhere DEF ServerNotFound, history
  <2> QED BY <2>1
<1>7. CASE Sent
  <2>1. sent' = TRUE /\ requestIsPending' /\ pollPc' = "idle"
    BY <1>0, <1>7 DEF Sent
  <2>2. mainPc' # "idle" => Settled'
    BY <1>0, <1>7, ReturnsSomewhere DEF Sent, Settled, history
  <2>3. mainPc' \in {"idle"} \cup Callbacks
    BY <1>0, <1>7, ReturnsSomewhere DEF Sent
  <2> QED BY <2>1, <2>2, <2>3
<1>8. CASE HandleSuccess
  <2>1. Settled' /\ pollPc' = "idle" /\ mainPc' = "second"
    BY <1>0, <1>b, <1>c, <1>8, ToldSettles DEF HandleSuccess, globals
  <2> QED BY <2>1
<1>9. CASE HandleError
  <2>1. Settled' /\ pollPc' = "idle" /\ mainPc' = "finish"
    BY <1>0, <1>b, <1>c, <1>9, ToldSettles DEF HandleError, globals
  <2> QED BY <2>1
<1>10. CASE Handled
  <2>1. Settled' /\ pollPc' = "idle" /\ mainPc' = "idle"
    BY <1>0, <1>a, <1>10 DEF Handled, history
  <2> QED BY <2>1
<1>11. CASE PollFails \/ PollReads \/ ReadHeaders
  BY <1>0, <1>a, <1>11 DEF PollFails, PollReads, PollWanted, ReadHeaders, globals, history
<1>12. CASE PollNotConnected
  BY <1>0, <1>a, <1>12 DEF PollNotConnected, PollWanted, history
<1>13. CASE Process
  <2>1. Settled' /\ pollPc' = "done" /\ mainPc' = "idle"
    BY <1>0, <1>b, <1>c, <1>13, ToldSettles DEF Process, globals
  <2> QED BY <2>1
<1>14. CASE ReadBody \/ Complete
  BY <1>0, <1>a, <1>14 DEF ReadBody, Complete, history
<1>15. CASE NotPending
  BY <1>0, <1>a, <1>15 DEF NotPending, history
<1>16. CASE Fail
  BY <1>0, <1>a, <1>16 DEF Fail, SetPendingErrorResponse, history
<1>17. CASE Cancel
  BY <1>0, <1>a, <1>17 DEF Cancel, CancelHttpRequest, history
<1>18. CASE Tick
  BY <1>0, <1>a, <1>18 DEF Tick, history
<1>19. CASE Arrive \/ PeerCloses \/ WifiChanges
  BY <1>0, <1>a, <1>19 DEF Arrive, PeerCloses, WifiChanges, globals, history
<1>20. CASE UNCHANGED vars
  BY <1>0, <1>a, <1>20 DEF vars, globals, history
<1> QED BY <1>1, <1>2, <1>3, <1>4, <1>5, <1>6, <1>7, <1>8, <1>9, <1>10, <1>11,
           <1>12, <1>13, <1>14, <1>15, <1>16, <1>17, <1>18, <1>19, <1>20
     DEF Next, Main, Poll

(* Polled from the main loop, and unless millis() reads 0 just as a request   *)
(* has been sent, checkForHttpResponse() and handleHttpResponseComplete()     *)
(* lose no request: a call of httpRequest() outside a callback is answered or *)
(* still counts for the next of them.                                         *)
THEOREM NeverForgotten ==
  ~Background /\ ~ClockAtZero => (Spec => []NoRequestForgotten)
<1> SUFFICES ASSUME ~Background, ~ClockAtZero
             PROVE  Spec => []NoRequestForgotten
  OBVIOUS
<1> DEFINE Inv == HttpInv /\ Outermost /\ Tended
<1>1. Init => Inv
  <2> SUFFICES ASSUME Init PROVE Outermost /\ Tended
    BY HttpInitInv
  <2>1. mainPc = "idle" /\ pollPc = "idle" /\ callers = <<>> /\ callbacks = 0
    BY DEF Init
  <2>2. Settled
    BY <2>1 DEF Settled
  <2>3. Outermost
    BY <2>1 DEF Outermost
  <2> QED BY <2>1, <2>2, <2>3 DEF Tended, Callbacks
<1>2. Inv /\ [Next]_vars => Inv'
  BY HttpNextInv, OutermostKept, TendedKept, TypeParts DEF HttpInv, HttpTyped
<1>3. Inv => NoRequestForgotten
  BY DEF HttpInv, HttpLife, Numbering, Tended, Settled, NoRequestForgotten
<1> QED BY <1>1, <1>2, <1>3, PTL DEF Spec
=============================================================================
