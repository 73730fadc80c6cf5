--------------------------- MODULE ResponseReader ---------------------------
(* How checkForHttpResponse() of main/src/HttpRequestManager.cpp reads one    *)
(* response while it arrives: header lines up to a '\r', the line that ends   *)
(* the headers, then the body.  available() and timedRead() see no more than  *)
(* has arrived, so every packet boundary is a case of its own.                *)
(*                                                                            *)
(* The text is a sequence of parts: "CR", "NL", "h" (a character of a         *)
(* header), "L" ("Content-Length: "), "d" (one unit of its value), "HTTP"     *)
(* ("HTTP/1."), "200" and "404" (the rest of a status line), "b" (a byte of   *)
(* the body).  What read() returns without a connection is stored as "FF".    *)
EXTENDS Naturals, Sequences, FiniteSets, SequencesExt

CONSTANTS
    Responses,        \* the responses the server sends, headers and body
    LineMax,          \* the 255 bytes of line
    Processed,        \* the request has a processCallback: BOOLEAN values
    MaxLength         \* bound: units of a content length nobody has set

Parts == {"CR", "NL", "h", "L", "d", "HTTP", "200", "404", "b"}

NoByte == "FF"

(* The first empty line of r ends with the '\r' at n.                         *)
EmptyLine(r, n) == r[n - 2] = "CR" /\ r[n - 1] = "NL" /\ r[n] = "CR"

EndsHeaderPart(r, n) ==
    EmptyLine(r, n) /\ \A m \in 3 .. n - 1 : ~EmptyLine(r, m)

(* The body starts behind it, with the '\n' that follows.                     *)
HeadersOf(r) == CHOOSE n \in 3 .. Len(r) : EndsHeaderPart(r, n)

BodyOf(r) == SubSeq(r, HeadersOf(r) + 1, Len(r))

(* The parts behind s and before e are a line of r.                           *)
IsLine(r, s, e) ==
    /\ s = 0 \/ r[s] = "CR"
    /\ r[e] = "CR" /\ \A m \in s + 1 .. e - 1 : r[m] # "CR"

(* The responses: the status is the first line, a Content-Length is one later *)
(* line and fits into line; a line whose last piece is a single character     *)
(* would end the headers.                                                     *)
WellFormed(r) ==
    /\ r \in Seq(Parts)
    /\ \E n \in 3 .. Len(r) : EndsHeaderPart(r, n)
    /\ \A e \in 1 .. HeadersOf(r) - 1 : \A s \in 0 .. e - 1 :
         IsLine(r, s, e) => (e - s - 1) % LineMax # 1
    /\ \A n \in 1 .. Len(r) : /\ r[n] = "HTTP" => n = 1
                              /\ r[n] = "200" => n = 2 /\ r[1] = "HTTP"
    /\ (\E n \in 1 .. Len(r) : r[n] = "L") =>
         \E e \in 1 .. HeadersOf(r) - 1 : \E s \in 1 .. e - 1 :
           /\ IsLine(r, s, e) /\ e - s - 1 <= LineMax
           /\ \A n \in 1 .. Len(r) : r[n] \in {"L", "d"} => n \in s + 1 .. e - 1

ASSUME ReaderAssumption ==
    /\ LineMax \in Nat \ {0, 1} /\ MaxLength \in Nat
    /\ Processed \subseteq BOOLEAN
    /\ \A r \in Responses : WellFormed(r)

VARIABLES
    response,         \* what the server is sending
    processed,        \* httpProcessCallback is set
    arrived, taken,   \* parts that have arrived, and that have been read
    line,             \* the line that is being read
    statusCodeFound,
    contentLength,    \* of headerData, which nothing initialises
    responseBuffer,   \* its text up to the '\0'
    pc,               \* where checkForHttpResponse() stands
    broken,           \* the client has found the connection broken
    whole,            \* the response had arrived when the poll began
    cut               \* the end of a line was not awaited

stream == <<response, processed, arrived, broken>>
parsed == <<statusCodeFound, contentLength, responseBuffer>>
vars == <<stream, taken, line, parsed, pc, whole, cut>>

Init ==
    /\ response \in Responses /\ processed \in Processed
    /\ arrived = 0 /\ taken = 0 /\ line = <<>>
    /\ statusCodeFound = FALSE /\ contentLength = 0 /\ responseBuffer = <<>>
    /\ pc = "waiting" /\ broken = FALSE /\ whole = FALSE /\ cut = FALSE

-----------------------------------------------------------------------------
(* available() and read() see what has arrived; a negative result counts as   *)
(* data, once: the client has stopped and dropped what was not read.          *)
Available == taken < arrived

Breaks == ~broken /\ broken' = TRUE /\ arrived' = taken

Arrive ==
    /\ arrived < Len(response) /\ ~broken
    /\ arrived' \in arrived + 1 .. Len(response)
    /\ UNCHANGED <<response, processed, broken, taken, line, parsed, pc, whole,
                   cut>>

Poll ==
    /\ pc = "waiting"
    /\ \/ Available /\ UNCHANGED stream
       \/ Breaks /\ UNCHANGED <<response, processed>>
    /\ pc' = "headers"
    /\ contentLength' \in 0 .. MaxLength
    /\ whole' = (arrived = Len(response))
    /\ UNCHANGED <<taken, line, statusCodeFound, responseBuffer, cut>>

(* while (available()): "No end of header" when nothing is there              *)
NextLine ==
    /\ pc = "headers"
    /\ \/ pc' = (IF Available THEN "line" ELSE "failed") /\ UNCHANGED stream
       \/ Breaks /\ pc' = "line" /\ UNCHANGED <<response, processed>>
    /\ UNCHANGED <<taken, line, parsed, whole, cut>>

(* readBytesUntil('\r', line, sizeof(line))                                   *)
ReadChar ==
    /\ pc = "line" /\ Available /\ Len(line) < LineMax
    /\ taken' = taken + 1
    /\ IF response[taken + 1] = "CR"
       THEN pc' = "judge" /\ UNCHANGED line
       ELSE line' = Append(line, response[taken + 1]) /\ UNCHANGED pc
    /\ UNCHANGED <<stream, parsed, whole, cut>>

LineFull ==
    /\ pc = "line" /\ Len(line) = LineMax
    /\ pc' = "judge"
    /\ UNCHANGED <<stream, taken, line, parsed, whole, cut>>

(* Slip: the read waits for the rest of the line.                             *)
ReadAwaits ==
    /\ pc = "line" /\ ~Available /\ Len(line) < LineMax
    /\ UNCHANGED vars

ReadBreaks ==
    /\ pc = "line" /\ Len(line) < LineMax
    /\ Breaks
    /\ UNCHANGED <<response, processed, taken, line, parsed, pc, whole, cut>>

(* timedRead() has waited a second in vain.                                   *)
ReadTimesOut ==
    /\ pc = "line" /\ ~Available /\ Len(line) < LineMax
    /\ pc' = "judge" /\ cut' = TRUE
    /\ UNCHANGED <<stream, taken, line, parsed, whole>>

-----------------------------------------------------------------------------
(* What is done with a line                                                   *)

Holds(part) == \E n \in 1 .. Len(line) : line[n] = part

Characters == {"NL", "h", "d", "b"}

(* Slip: an empty text counts as well.                                        *)
EndsHeadersToo == Len(line) = 0 \/ (Len(line) = 1 /\ line[1] \in Characters)

(* The '\0' is at position 1: one character, whichever it is                  *)
EndsHeaders == Len(line) = 1 /\ line[1] \in Characters

IsStatus == Len(line) > 0 /\ line[1] = "HTTP"

LineEnds(next) == pc' = next /\ line' = <<>>

EndOfHeaders ==
    /\ pc = "judge" /\ EndsHeaders
    /\ LineEnds("body")
    /\ UNCHANGED <<stream, taken, parsed, whole, cut>>

(* "HTTP/1." cut before the code is a bad response, or strtok() finds nothing *)
(* and strncpy() reads from NULL.                                             *)
StatusLine ==
    /\ pc = "judge" /\ IsStatus
    /\ statusCodeFound' = TRUE
    /\ IF Holds("200") THEN LineEnds("headers")
       ELSE \/ LineEnds("failed")
            \/ Len(line) = 1 /\ LineEnds("crashed")
    /\ UNCHANGED <<stream, taken, contentLength, responseBuffer, whole, cut>>

MissingStatus ==
    /\ pc = "judge" /\ ~EndsHeaders /\ ~IsStatus /\ ~statusCodeFound
    /\ LineEnds("failed")
    /\ UNCHANGED <<stream, taken, parsed, whole, cut>>

Digits(text) == Cardinality({n \in 1 .. Len(text) : text[n] = "d"})

(* The digits that follow each other from n on                                *)
Leading(n) ==
    Cardinality({m \in n .. Len(line) : \A k \in n .. m : line[k] = "d"})

(* Slip: the value is taken from every line.                                  *)
LengthInLine == {Digits(line)}

(* atol() from a fixed place of the line, that of the value behind            *)
(* "Content-Length: " at its start; a blank or the '\n' before it does no     *)
(* harm.  Behind more text the place is any other: 0, unless it has digits.   *)
LengthAfter ==
    IF ~Holds("L") THEN {contentLength}
    ELSE IF line[1] = "L" THEN {Leading(2)}
    ELSE IF line[1] \in Characters /\ line[2] = "L" THEN {Leading(3)}
    ELSE 0 .. MaxLength

HeaderLine ==
    /\ pc = "judge" /\ ~EndsHeaders /\ ~IsStatus /\ statusCodeFound
    /\ contentLength' \in LengthAfter
    /\ LineEnds("headers")
    /\ UNCHANGED <<stream, taken, statusCodeFound, responseBuffer, whole, cut>>

-----------------------------------------------------------------------------
(* httpProcessCallback(headerData) reads the stream by itself.                *)
Process ==
    /\ pc = "body" /\ processed
    /\ pc' = "processed"
    /\ UNCHANGED <<stream, taken, line, parsed, whole, cut>>

ReadBody ==
    /\ pc = "body" /\ ~processed /\ Available
    /\ responseBuffer' = Append(responseBuffer, response[taken + 1])
    /\ taken' = taken + 1
    /\ UNCHANGED <<stream, line, statusCodeFound, contentLength, pc, whole, cut>>

(* The negative result counts as a byte of the body, for which read() gives   *)
(* none.                                                                      *)
BodyBreaks ==
    /\ pc = "body" /\ ~processed
    /\ Breaks
    /\ responseBuffer' = Append(responseBuffer, NoByte)
    /\ UNCHANGED <<response, processed, taken, line, statusCodeFound,
                   contentLength, pc, whole, cut>>

(* "No body content" or the end of what has arrived                           *)
BodyEnds ==
    /\ pc = "body" /\ ~processed /\ ~Available
    /\ pc' = IF responseBuffer = <<>> THEN "failed" ELSE "success"
    /\ UNCHANGED <<stream, taken, line, parsed, whole, cut>>

Ended == {"processed", "success", "failed", "crashed"}

(* The connection is closed, and the next request gets another response.      *)
NextRequest ==
    /\ pc \in Ended
    /\ response' \in Responses /\ processed' \in Processed
    /\ arrived' = 0 /\ taken' = 0 /\ line' = <<>>
    /\ statusCodeFound' = FALSE /\ contentLength' = 0 /\ responseBuffer' = <<>>
    /\ pc' = "waiting" /\ broken' = FALSE /\ whole' = FALSE /\ cut' = FALSE

Reads == \/ NextLine \/ ReadChar \/ LineFull \/ ReadBreaks \/ ReadTimesOut
         \/ EndOfHeaders \/ StatusLine \/ MissingStatus \/ HeaderLine
         \/ Process \/ ReadBody \/ BodyBreaks \/ BodyEnds

Next == Arrive \/ Poll \/ Reads \/ NextRequest

Spec == Init /\ [][Next]_vars

(* The poll runs to its end; the server may fall silent at any point.         *)
FairSpec == Spec /\ WF_vars(Reads)

-----------------------------------------------------------------------------
(* Properties                                                                 *)

(* A success hands out a piece of the body from its start, and behind it one  *)
(* byte that nobody sent if the connection broke then.  Not so when the read  *)
(* of a line was cut by its timeout: a piece of one character then passes for *)
(* the end of the headers, and header text is handed out.                     *)
SuccessIsPrefix ==
    pc = "success" /\ ~cut =>
      IsPrefix(IF broken THEN Front(responseBuffer) ELSE responseBuffer,
               BodyOf(response))

(* The length is declared by "Content-Length: " behind the '\n' of a line,    *)
(* and by digits that follow it.                                              *)
Declares(r) ==
    \E s \in 1 .. Len(r) - 2 : \E v \in s + 2 .. Len(r) :
      /\ r[s] = "CR" /\ r[s + 1] = "NL" /\ r[s + 2] = "L"
      /\ \A n \in 1 .. Len(r) : /\ r[n] = "L" => n = s + 2
                                /\ r[n] = "d" <=> n \in s + 3 .. v

(* The processCallback learns the length the headers declare, unless the read *)
(* of a line was cut by its timeout.  Without that header, and when text      *)
(* stands before its name, it is any number.                                  *)
LengthIsDeclared ==
    pc = "processed" /\ ~cut /\ Declares(response) =>
      contentLength = Digits(response)

(* A response of status 200 that has arrived as a whole is never refused and  *)
(* its body is handed out as a whole, unless the connection breaks meanwhile. *)
WholeResponseTaken ==
    whole /\ ~broken /\ Contains(response, "200") =>
      /\ pc # "crashed" /\ (pc = "failed" => BodyOf(response) = <<>>)
      /\ pc = "success" => responseBuffer = BodyOf(response)

(* No poll hangs: a server that falls silent within a line costs a second.    *)
PollEnds == pc \notin Ended \cup {"waiting"} ~> pc \in Ended

=============================================================================
