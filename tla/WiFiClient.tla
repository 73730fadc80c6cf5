----------------------------- MODULE WiFiClient -----------------------------
(* WiFiClient and its WiFiClientRxBuffer over one TCP connection.  A call     *)
(* belongs to one task and is cut at its socket operations, between which the *)
(* network goes on.  The bytes of the peer are numbered in the order it sends *)
(* them, so a byte that is lost, repeated or overtaken shows.                 *)
EXTENDS Integers, Sequences, FiniteSetsExt

CONSTANTS
    Size,             \* bytes of the receive buffer, 1436
    FlushSize,        \* WIFI_CLIENT_FLUSH_BUFFER_SIZE
    MaxRetry,         \* WIFI_CLIENT_MAX_WRITE_RETRY
    Chunk,            \* the 1360 bytes write(Stream) takes at a time
    MaxBytes,         \* bound: bytes the peer sends on a connection
    MaxRead,          \* bound: length of a read()
    MaxWrite          \* bound: length of a write() and of a stream

ASSUME WiFiClientAssumption ==
    {Size, FlushSize, MaxRetry, Chunk, MaxBytes, MaxRead, MaxWrite}
        \subseteq Nat \ {0}

VARIABLES
    handle,           \* clientSocketHandle and _rxBuffer are set
    connected,        \* _connected
    allocated,        \* _buffer is allocated
    buf, pos,         \* _buffer up to _fill, and _pos
    failed,           \* _failed
    pc,               \* the call in progress, and where it stands
    len, left,        \* read(): asked for, and still to be copied
    toFlush,          \* flush(): a
    retry,            \* write(): tries left
    next, hi,         \* write(): the bytes of its source still to be sent
    srcEnd,           \* write(Stream): the last byte the stream will have
    total,            \* write(): totalBytesSent
    answer,           \* what the latest write() has counted
    net,              \* the connection: "up", "closed" by the peer, "broken"
    queue, sent,      \* received and not taken from the socket; sent by peer
    got, lost,        \* bytes handed to the client; dropped with or by flush()
    wire,             \* what the latest write() brought onto the wire
    cut,              \* why it may have left a part of its source out
    open,             \* the client connected and has not called stop() since
    excuse            \* why the object may have given up the connection

rxBuffer == <<allocated, buf, pos, failed>>
rxCall   == <<len, left, toFlush>>
txCall   == <<retry, next, hi, srcEnd, total, answer, wire, cut>>
peer     == <<net, queue, sent>>
history  == <<got, lost, open, excuse>>
vars == <<handle, connected, rxBuffer, pc, rxCall, txCall, peer, history>>

Unread == SubSeq(buf, pos + 1, Len(buf))

Quiet == /\ len = 0 /\ left = 0 /\ toFlush = 0
         /\ retry = 0 /\ next = 1 /\ hi = 0 /\ srcEnd = 0
         /\ total = 0 /\ answer = 0 /\ wire = <<>> /\ cut = {}

Init == /\ handle = FALSE /\ connected = FALSE /\ pc = "idle" /\ Quiet
        /\ allocated = FALSE /\ buf = <<>> /\ pos = 0 /\ failed = FALSE
        /\ net = "closed" /\ queue = <<>> /\ sent = 0
        /\ got = <<>> /\ lost = {} /\ open = FALSE /\ excuse = {}

(* A receive buffer before its first use.                                     *)
NewBuffer == allocated' = FALSE /\ buf' = <<>> /\ pos' = 0 /\ failed' = FALSE

(* The numbering of bytes begins with a connection.                           *)
NoBytes == queue' = <<>> /\ sent' = 0 /\ got' = <<>> /\ lost' = {}

-----------------------------------------------------------------------------
(* stop(): the socket is closed and the receive buffer freed; rest is what    *)
(* the client will never see of the two.                                      *)
StopWith(rest) ==
    /\ handle' = FALSE /\ connected' = FALSE
    /\ NewBuffer /\ queue' = <<>>
    /\ lost' = lost \cup Range(rest)
    /\ UNCHANGED <<net, sent>>

Return == pc' = "idle" /\ len' = 0 /\ left' = 0 /\ toFlush' = 0

(* connect(): when it fails, the earlier connection is kept as it is.         *)
Connect ==
    /\ pc = "idle"
    /\ handle' = TRUE /\ connected' = TRUE /\ NewBuffer
    /\ NoBytes /\ net' = "up" /\ open' = TRUE /\ excuse' = {}
    /\ UNCHANGED <<pc, rxCall, txCall>>

Stop == /\ pc = "idle" /\ open
        /\ StopWith(Unread \o queue)
        /\ open' = FALSE
        /\ UNCHANGED <<pc, rxCall, txCall, got, excuse>>

-----------------------------------------------------------------------------
(* fillBuffer(): a used up buffer is started again, then what the socket has  *)
(* is appended.  An outcome has the buffer it leaves, the number of bytes     *)
(* that came in, and whether the socket or the memory failed.                 *)

Filled(b, n, f) == [buf |-> b \o SubSeq(queue, 1, n), n |-> n, failed |-> f,
                    pos |-> IF b = <<>> THEN 0 ELSE pos]

(* Slip: recv() may fill the whole buffer, not the rest of it.                *)
FillsOfWhole(b, broken) ==
    {Filled(b, n, failed) : n \in 1 .. Min({Size, Len(queue)})}
    \cup (IF queue = <<>> THEN {Filled(b, 0, failed)} ELSE {})
    \cup (IF ~allocated \/ broken THEN {Filled(b, 0, TRUE)} ELSE {})

FillsOf(b, broken) ==
    LET room == Size - Len(b) IN
    {Filled(b, n, failed) : n \in 1 .. Min({room, Len(queue)})}
    \cup (IF room = 0 \/ queue = <<>> THEN {Filled(b, 0, failed)} ELSE {})
    \cup (IF ~allocated \/ (room > 0 /\ broken)
          THEN {Filled(b, 0, TRUE)} ELSE {})

Restarted == IF pos = Len(buf) THEN <<>> ELSE buf

(* Slip: an empty socket counts as a failure.                                 *)
FillsOrFails == FillsOf(Restarted, net = "broken" \/ queue = <<>>)

Fills == FillsOf(Restarted, net = "broken")

(* No fillBuffer().                                                           *)
Same == [buf |-> buf, n |-> 0, failed |-> failed, pos |-> pos]

(* The buffer is o now, n bytes of it are copied out, and the call goes on at *)
(* step, or returns and stops the client when the buffer has failed.          *)
Take(o, n, step, rest) ==
    LET after  == o.pos + n
        behind == SubSeq(queue, o.n + 1, Len(queue))
    IN
    /\ got' = got \o SubSeq(o.buf, o.pos + 1, after)
    /\ excuse' = IF o.failed /\ ~allocated THEN {"memory"} ELSE excuse
    /\ IF step = "idle" THEN Return
       ELSE pc' = step /\ left' = rest /\ UNCHANGED <<len, toFlush>>
    /\ IF step = "idle" /\ o.failed
       THEN StopWith(SubSeq(o.buf, after + 1, Len(o.buf)) \o behind)
       ELSE /\ buf' = o.buf /\ pos' = after /\ failed' = o.failed
            /\ allocated' = TRUE /\ queue' = behind
            /\ UNCHANGED <<handle, connected, lost, net, sent>>
    /\ UNCHANGED <<txCall, open>>

-----------------------------------------------------------------------------
(* read(dst, len) and peek() on a buffer that is there                        *)

Read ==
    /\ pc = "idle" /\ handle
    /\ len' \in 1 .. MaxRead
    /\ pc' = IF pos = Len(buf) THEN "first" ELSE "fast"
    /\ UNCHANGED <<handle, connected, rxBuffer, left, toFlush, txCall, peer,
                   history>>

ReadFirst ==
    /\ pc = "first"
    /\ \E o \in Fills : Take(o, 0, IF o.n = 0 THEN "idle" ELSE "fast", 0)

(* All that was asked for is in the buffer, or comes in and fits behind it;   *)
(* otherwise what was in it is copied, and not what the fill added.           *)
ReadFast ==
    /\ pc = "fast"
    /\ LET a == Len(buf) - pos IN
       \/ len <= a /\ Take(Same, len, "idle", 0)
       \/ /\ len > a /\ len - a <= Size - Len(buf)
          /\ \E o \in Fills :
               IF o.n >= len - a THEN Take(o, len, "idle", 0)
                                 ELSE Take(o, a, "slow", len - a)
       \/ /\ len > a /\ len - a > Size - Len(buf)
          /\ Take(Same, a, "slow", len - a)

(* Slip: what the fill brought in is copied, not what is in the buffer.       *)
ReadSlowNew ==
    /\ pc = "slow"
    /\ \E o \in Fills :
         LET n == Min({o.n, left}) IN
         Take([o EXCEPT !.pos = Len(o.buf) - o.n], n,
              IF o.n = 0 \/ n = left THEN "idle" ELSE "slow", left - n)

ReadSlow ==
    /\ pc = "slow"
    /\ \E o \in Fills :
         LET n == IF o.n = 0 THEN 0 ELSE Min({Len(o.buf) - o.pos, left}) IN
         Take(o, n, IF o.n = 0 \/ n = left THEN "idle" ELSE "slow", left - n)

Peek == /\ pc = "idle" /\ handle
        /\ pos = Len(buf)
        /\ \E o \in Fills : Take(o, 0, "idle", 0)

(* read() and peek() do not ask whether _rxBuffer is there: the chip resets.  *)
NullRead == /\ pc = "idle" /\ open /\ ~handle
            /\ handle' = FALSE /\ connected' = FALSE /\ NewBuffer
            /\ NoBytes /\ net' = "closed" /\ open' = FALSE /\ excuse' = {}
            /\ UNCHANGED <<pc, rxCall, txCall>>

-----------------------------------------------------------------------------
(* available() and flush()                                                    *)

(* FIONREAD fails on a broken connection: the buffered bytes are answered,    *)
(* and the client is stopped with them.                                       *)
AvailableFails ==
    /\ pc = "idle" /\ handle /\ net = "broken"
    /\ StopWith(Unread \o queue)
    /\ UNCHANGED <<pc, rxCall, txCall, got, open, excuse>>

(* a counts the buffer and the socket.                                        *)
Flush ==
    /\ pc = "idle" /\ handle
    /\ toFlush' = Len(buf) - pos + Len(queue) /\ toFlush' > 0
    /\ pc' = "flush"
    /\ excuse' = IF pos < Len(buf) THEN excuse \cup {"flush"} ELSE excuse
    /\ UNCHANGED <<handle, connected, rxBuffer, len, left, txCall, peer, got,
                   lost, open>>

(* Slip: what recv() took is not subtracted from a.                           *)
FlushForgets ==
    /\ pc = "flush" /\ queue # <<>>
    /\ \E n \in 1 .. Min({toFlush, FlushSize, Len(queue)}) :
         /\ lost' = lost \cup Range(SubSeq(queue, 1, n))
         /\ queue' = SubSeq(queue, n + 1, Len(queue))
    /\ UNCHANGED <<handle, connected, rxBuffer, pc, rxCall, txCall, net, sent,
                   got, open, excuse>>

FlushTakes ==
    /\ pc = "flush" /\ queue # <<>>
    /\ \E n \in 1 .. Min({toFlush, FlushSize, Len(queue)}) :
         /\ lost' = lost \cup Range(SubSeq(queue, 1, n))
         /\ queue' = SubSeq(queue, n + 1, Len(queue))
         /\ toFlush' = toFlush - n
         /\ pc' = IF toFlush = n THEN "idle" ELSE "flush"
    /\ UNCHANGED <<handle, connected, rxBuffer, len, left, txCall, net, sent,
                   got, open, excuse>>

(* recv() < 0, and an empty socket of a live connection answers that too      *)
FlushStops ==
    /\ pc = "flush"
    /\ net = "broken" \/ (net = "up" /\ queue = <<>>)
    /\ Return /\ StopWith(Unread \o queue)
    /\ UNCHANGED <<txCall, got, open, excuse>>

(* recv() = 0: nothing is subtracted from a, and the loop goes round.         *)
FlushSpins == /\ pc = "flush" /\ net = "closed" /\ queue = <<>>
              /\ UNCHANGED vars

-----------------------------------------------------------------------------
(* write(buf, size) and write(Stream)                                         *)

(* _connected after a look at the socket; recv() that does not fail leaves an *)
(* errno of an earlier call, and that decides.                                *)
ConnectedCall ==
    /\ pc = "idle" /\ connected
    /\ connected' \in (IF net = "up" /\ queue = <<>> THEN {TRUE} ELSE BOOLEAN)
    /\ UNCHANGED <<handle, rxBuffer, pc, rxCall, txCall, peer, history>>

(* write() of the bytes lo .. h of the source, when the client is connected   *)
StartWrite(lo, h) ==
    /\ pc' = "write" /\ next' = lo /\ hi' = h /\ total' = 0
    /\ retry' = IF connected /\ handle THEN MaxRetry ELSE 0

Write ==
    /\ pc = "idle" /\ open
    /\ \E n \in 0 .. MaxWrite : StartWrite(1, n) /\ srcEnd' = n
    /\ answer' = 0 /\ wire' = <<>> /\ cut' = {}
    /\ UNCHANGED <<handle, connected, rxBuffer, rxCall, peer, history>>

WriteStream ==
    /\ pc = "idle" /\ open
    /\ \E n \in 1 .. MaxWrite :
         StartWrite(1, Min({n, Chunk})) /\ srcEnd' = n
    /\ answer' = 0 /\ wire' = <<>> /\ cut' = {}
    /\ UNCHANGED <<handle, connected, rxBuffer, rxCall, peer, history>>

(* Slip: the pointer into the source stays where it was.                      *)
SendSomeAgain ==
    /\ pc = "write" /\ retry > 0
    /\ \E n \in 1 .. hi - next + 1 :
         /\ wire' = wire \o [k \in 1 .. n |-> next + k - 1]
         /\ total' = total + n
         /\ next' = next
         /\ retry' = IF next + n > hi THEN 0 ELSE MaxRetry
    /\ UNCHANGED <<handle, connected, rxBuffer, pc, rxCall, hi, srcEnd, answer,
                   cut, peer, history>>

(* send() takes a part: the tries start anew.                                 *)
SendSome ==
    /\ pc = "write" /\ retry > 0
    /\ \E n \in 1 .. hi - next + 1 :
         /\ wire' = wire \o [k \in 1 .. n |-> next + k - 1]
         /\ total' = total + n
         /\ next' = next + n
         /\ retry' = IF next + n > hi THEN 0 ELSE MaxRetry
    /\ UNCHANGED <<handle, connected, rxBuffer, pc, rxCall, hi, srcEnd, answer,
                   cut, peer, history>>

(* The socket does not get ready in time, is busy, or takes nothing.          *)
SendNothing ==
    /\ pc = "write" /\ retry > 0
    /\ retry' = retry - 1
    /\ cut' = IF retry = 1 /\ next <= hi THEN cut \cup {"retries"} ELSE cut
    /\ UNCHANGED <<handle, connected, rxBuffer, pc, rxCall, next, hi, srcEnd,
                   total, answer, wire, peer, history>>

SendFails ==
    /\ pc = "write" /\ retry > 0
    /\ net = "broken"
    /\ StopWith(Unread \o queue)
    /\ retry' = 0
    /\ UNCHANGED <<pc, rxCall, next, hi, srcEnd, total, answer, wire, cut, got,
                   open, excuse>>

(* select() < 0: 0 is answered, whatever has been sent.                       *)
SelectFails ==
    /\ pc = "write" /\ retry > 0
    /\ retry' = 0 /\ total' = 0
    /\ cut' = cut \cup {"select"}
    /\ UNCHANGED <<handle, connected, rxBuffer, pc, rxCall, next, hi, srcEnd,
                   answer, wire, peer, history>>

(* write() returns; write(Stream) goes on with the next bytes of its stream,  *)
(* whether or not these were all sent.                                        *)
WriteReturns ==
    /\ pc = "write" /\ retry = 0
    /\ answer' = answer + total
    /\ IF hi < srcEnd
       THEN StartWrite(hi + 1, Min({srcEnd, hi + Chunk})) /\ UNCHANGED srcEnd
       ELSE /\ pc' = "idle" /\ next' = 1 /\ hi' = 0 /\ srcEnd' = 0
            /\ total' = 0 /\ retry' = 0
    /\ UNCHANGED <<handle, connected, rxBuffer, rxCall, wire, cut, peer,
                   history>>

-----------------------------------------------------------------------------
(* The peer and the network                                                   *)

PeerSends == /\ net = "up" /\ handle /\ sent < MaxBytes
             /\ sent' = sent + 1
             /\ queue' = Append(queue, sent')
             /\ UNCHANGED <<handle, connected, rxBuffer, pc, rxCall, txCall,
                            net, history>>

NetworkChanges == /\ net' \in (CASE net = "up"     -> {"closed", "broken"}
                                 [] net = "closed" -> {"broken"}
                                 [] OTHER          -> {})
                  /\ UNCHANGED <<handle, connected, rxBuffer, pc, rxCall,
                                 txCall, queue, sent, history>>

Calls == \/ Connect \/ Stop \/ Read \/ Peek \/ NullRead \/ AvailableFails
         \/ Flush \/ ConnectedCall \/ Write \/ WriteStream

Steps == \/ ReadFirst \/ ReadFast \/ ReadSlow
         \/ FlushTakes \/ FlushStops \/ FlushSpins
         \/ SendSome \/ SendNothing \/ SendFails \/ SelectFails \/ WriteReturns

Next == Calls \/ Steps \/ PeerSends \/ NetworkChanges

Spec == Init /\ [][Next]_vars

(* A call that has started goes on; nothing is assumed of peer and network.   *)
FairSpec == Spec /\ WF_vars(Steps)

-----------------------------------------------------------------------------
(* Properties                                                                 *)

(* The indices stay inside the buffer, and a call leaves nothing behind.      *)
TypeOK ==
    /\ handle \in BOOLEAN /\ connected \in BOOLEAN /\ allocated \in BOOLEAN
    /\ failed \in BOOLEAN
    /\ buf \in Seq(1 .. MaxBytes) /\ Len(buf) <= Size
    /\ pos \in 0 .. Len(buf)
    /\ pc \in {"idle", "first", "fast", "slow", "flush", "write"}
    /\ len \in 0 .. MaxRead /\ left \in 0 .. len
    /\ toFlush \in 0 .. MaxBytes
    /\ retry \in 0 .. MaxRetry
    /\ hi \in 0 .. MaxWrite /\ next \in 1 .. hi + 1
    /\ srcEnd \in {0} \cup hi .. MaxWrite
    /\ total \in 0 .. MaxWrite /\ answer \in 0 .. MaxWrite
    /\ net \in {"up", "closed", "broken"}
    /\ queue \in Seq(1 .. MaxBytes) /\ sent \in 0 .. MaxBytes
    /\ got \in Seq(1 .. MaxBytes) /\ lost \subseteq 1 .. MaxBytes
    /\ wire \in Seq(1 .. MaxWrite)
    /\ open \in BOOLEAN
    /\ cut \subseteq {"retries", "select"}
    /\ excuse \subseteq {"memory", "flush"}

(* read(): whatever way through the buffer its bytes take, those handed out,  *)
(* those buffered and those in the socket are together the bytes the peer has *)
(* sent, each once and in their order, less those flush() and stop() threw    *)
(* away.                                                                      *)
Bytes == got \o Unread \o queue

Ascending(s) == \A j, k \in 1 .. Len(s) : j < k => s[j] < s[k]

NoByteAstray == Ascending(Bytes) /\ Range(Bytes) = (1 .. sent) \ lost

(* available(), read() and peek() stop a client that fails: one whose         *)
(* connection is sound keeps it, and is not left with a null buffer that its  *)
(* next read() runs into.  flush() is the exception: with bytes in the buffer *)
(* it asks the socket for more than that holds, and stops the client.         *)
SoundConnectionKept ==
    open /\ ~handle => net = "broken" \/ excuse # {}

(* write() puts its source onto the wire in order and without a repetition,   *)
(* and counts what it sent; only a write() that runs out of tries, or whose   *)
(* select() fails, may leave a hole behind it in a write(Stream) or a wrong   *)
(* count.                                                                     *)
WireFollowsSource ==
    /\ Ascending(wire)
    /\ cut = {} => wire = [k \in 1 .. Len(wire) |-> k]
    /\ "select" \notin cut /\ pc = "idle" => answer = Len(wire)

(* Every call returns, but for flush() with bytes in the buffer after the     *)
(* peer has closed the connection, which waits for them in the socket.        *)
CallsReturn ==
    pc # "idle" ~>
      pc = "idle" \/ (pc = "flush" /\ net = "closed" /\ pos < Len(buf))

=============================================================================
