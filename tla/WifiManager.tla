---------------------------- MODULE WifiManager ----------------------------
(* main/src/WifiManager.cpp on top of the WiFi station: the application's     *)
(* attempts to connect, when it gives one up, and the wait of an HTTP request *)
(* for the connection.  A call is cut where it reads the status again, since  *)
(* the network_event task changes that meanwhile.                             *)
EXTENDS WiFiStation

CONSTANTS
    Networks,         \* names that AttemptConnect() is called with
    Patience,         \* the 15 seconds of either timeout
    MaxDelay,         \* bound: time from one look at the clock to the next
    ShortMod,         \* 2^16: wifiStartConnectTime is a short int
    WordMod           \* 2^32: millis() and unsigned long

ASSUME WifiManagerAssumption ==
    /\ Networks \subseteq Nat \ {0}
    /\ {Patience, MaxDelay} \subseteq Nat \ {0} /\ ShortMod \in Nat /\ WordMod \in Nat
    /\ 2 * Patience < ShortMod /\ ShortMod < WordMod

VARIABLES
    now,                      \* millis(), while something is timed
    wifiStartConnectTime,     \* while wifiConnecting
    wifiConnecting,
    cantConnectMode,
    deadline,                 \* start + connectTimeout of a wait
    main, back,               \* where the application stands, and returns to
    age,                      \* time since a timely attempt began, saturating
    timely                    \* its time did not overflow

timing == <<now, wifiStartConnectTime, deadline, age, timely>>
flags  == <<wifiConnecting, cantConnectMode>>
vars == <<station, timing, flags, main, back>>

Init == /\ StationInit
        /\ now = 0 /\ wifiStartConnectTime = 0 /\ deadline = 0
        /\ wifiConnecting = FALSE /\ cantConnectMode = FALSE
        /\ main = "idle" /\ back = "idle"
        /\ age = 0 /\ timely = TRUE

-----------------------------------------------------------------------------
(* The conversions of the timeout                                             *)

Half == ShortMod \div 2

(* millis() stored in a short int                                             *)
Short(t) == LET r == t % ShortMod IN IF r < Half THEN r ELSE r - ShortMod

(* Slip: not when the time is over, but when it is up.                        *)
TimedOutSoon == (wifiStartConnectTime + Patience) % WordMod <= now

(* A sum of int is compared as unsigned long.                                 *)
TimedOut == (wifiStartConnectTime + Patience) % WordMod < now

(* Times are of interest only during an attempt and during a wait: outside of *)
(* both the clock is not followed, and the next of them finds it anywhere.    *)
Waiting == main = "wait"

Millis == IF wifiConnecting \/ Waiting THEN {now} ELSE 0 .. WordMod - 1

SetWifiConnecting(c, waiting) ==
    /\ wifiConnecting' = c
    /\ IF c THEN UNCHANGED <<wifiStartConnectTime, age, timely>>
            ELSE wifiStartConnectTime' = 0 /\ age' = 0 /\ timely' = TRUE
    /\ deadline' = IF waiting THEN deadline ELSE 0
    /\ now' = IF c \/ waiting THEN now ELSE 0

(* The application looks at the clock again: its own work and the delay() of  *)
(* the loop that waits have taken some time.                                  *)
Round ==
    /\ \E d \in 1 .. MaxDelay :
         /\ now' = IF wifiConnecting \/ Waiting THEN (now + d) % WordMod ELSE now
         /\ age' = CASE ~wifiConnecting \/ ~timely -> age
                     [] wifiConnecting /\ timely /\ age + d <= Patience -> age + d
                     [] OTHER -> Patience + 1
    /\ UNCHANGED <<wifiStartConnectTime, deadline, timely>>

Call(step) == main = "idle" /\ Room /\ main' = step

GiveUp == SetWifiConnecting(FALSE, FALSE) /\ cantConnectMode' = TRUE

-----------------------------------------------------------------------------
(* DisplayConnectToWifiStatus(), called again and again                       *)

Display ==
    /\ main = "idle"
    /\ main' = IF (Connected /\ ~wifiConnecting) \/ cantConnectMode
               THEN "idle" ELSE "look"
    /\ Round
    /\ UNCHANGED <<station, flags, back>>

Look ==
    /\ main = "look"
    /\ Connected \/ wifiConnecting
    /\ IF Connected
       THEN SetWifiConnecting(FALSE, FALSE) /\ cantConnectMode' = FALSE
       ELSE IF TimedOut THEN GiveUp ELSE UNCHANGED <<timing, flags>>
    /\ main' = "idle"
    /\ UNCHANGED <<station, back>>

(* Reconnect(): the display is brought up to date before WiFi.begin().        *)
StartReconnect(then) ==
    /\ now' \in Millis
    /\ wifiStartConnectTime' = Short(now')
    /\ cantConnectMode' = FALSE /\ wifiConnecting' = TRUE
    /\ age' = 0 /\ timely' = (now' < Half)
    /\ back' = then
    /\ UNCHANGED <<station, deadline>>

LookReconnects ==
    /\ main = "look" /\ ~Connected /\ ~wifiConnecting
    /\ StartReconnect("look") /\ main' = "nested"

Reconnect == Call("nested") /\ StartReconnect("idle")

NestedDisplay ==
    /\ main = "nested"
    /\ wifiConnecting' = (~Connected /\ ~TimedOut)
    /\ cantConnectMode' = (~Connected /\ TimedOut)
    /\ main' = "begin"
    /\ UNCHANGED <<station, timing, back>>

(* WiFi.begin(), after which the display that called looks at the time.       *)
CallBegin ==
    /\ main = "begin" /\ Begin
    /\ IF back = "look" /\ TimedOut THEN GiveUp
       ELSE /\ SetWifiConnecting(wifiConnecting, FALSE)
            /\ UNCHANGED cantConnectMode
    /\ main' = "idle" /\ back' = "idle"
    /\ UNCHANGED <<queue, handler>>

-----------------------------------------------------------------------------
(* AttemptConnect(), WaitForConnectResult() and ForgetWifiNetwork()           *)

StartWait(then) ==
    /\ Call("wait") /\ back' = then
    /\ now' \in Millis
    /\ deadline' = (now' + Patience) % WordMod
    /\ UNCHANGED <<queue, handler, wifiStartConnectTime, age, cantConnectMode>>

AttemptConnect ==
    /\ StartWait("attempted")
    /\ \E net \in Networks : BeginWith(net)
    /\ wifiConnecting' = TRUE
    /\ UNCHANGED timely

WaitForConnectResult ==
    /\ StartWait("idle")
    /\ UNCHANGED <<driver, wifiConnecting, timely>>

(* Slip: the wait ends with a connection only.                                *)
WaitForConnection ==
    /\ main = "wait"
    /\ IF Connected
       THEN main' = back /\ SetWifiConnecting(wifiConnecting, FALSE)
       ELSE Round /\ UNCHANGED <<main, wifiConnecting>>
    /\ cantConnectMode' = (cantConnectMode /\ ~Connected)
    /\ UNCHANGED <<station, back>>

(* One round of the loop of WaitForConnectResult()                            *)
Wait ==
    /\ main = "wait"
    /\ IF status \in {"CONNECTED", "CONNECT_FAILED"} \/ now > deadline
       THEN main' = back /\ SetWifiConnecting(wifiConnecting, FALSE)
       ELSE Round /\ UNCHANGED <<main, wifiConnecting>>
    /\ cantConnectMode' = (cantConnectMode /\ ~Connected)
    /\ UNCHANGED <<station, back>>

Attempted ==
    /\ main = "attempted"
    /\ SetWifiConnecting(FALSE, FALSE)
    /\ cantConnectMode' = (cantConnectMode /\ ~Connected)
    /\ main' = "idle" /\ back' = "idle"
    /\ UNCHANGED station

ForgetWifiNetwork ==
    /\ Call("idle") /\ DisconnectForGood
    /\ UNCHANGED <<queue, handler, timing, flags, back>>

-----------------------------------------------------------------------------
Others == UNCHANGED <<timing, flags, main, back>>

Steps == \/ Display \/ Look \/ LookReconnects \/ NestedDisplay \/ CallBegin
         \/ Wait \/ Attempted

Calls == \/ Reconnect \/ AttemptConnect
         \/ WaitForConnectResult \/ ForgetWifiNetwork

Next == \/ Steps \/ Calls
        \/ /\ Radio \/ LoopDelivers \/ EventTask \/ Overwritten
           /\ Others

Spec == Init /\ [][Next]_vars

(* A wait that was called goes on, and the two event tasks are scheduled.     *)
(* Nothing is assumed of the radio, nor that the application calls anything.  *)
FairSpec ==
    /\ Spec /\ WF_vars(Wait)
    /\ WF_vars(LoopDelivers /\ Others) /\ WF_vars(EventTask /\ Others)

-----------------------------------------------------------------------------
(* Properties                                                                 *)

(* When the event tasks have nothing left to do, status() says connected just *)
(* when the station has its address, although the queued pointers all show    *)
(* the latest event.  AUTH_EXPIRE is the exception: it sets no status.        *)
Quiet == posted = <<>> /\ pointers = 0 /\ task = "idle"

StatusSettles ==
    Quiet /\ event # Expired =>
      (Connected <=> link = "up")

(* status() catches up with the station, whatever events are overwritten, as  *)
(* everything that polls it relies on: an address that is kept is reported,   *)
(* and a network that stays lost is no longer reported as connected, unless   *)
(* it was lost with AUTH_EXPIRE.                                              *)
StatusCatchesUp ==
    /\ link = "up" ~> Connected \/ link # "up"
    /\ link = "down" ~> ~Connected \/ link # "down" \/ event = Expired

(* A wait whose deadline is so near the end of the clock's range that a round *)
(* of the loop can jump from below it to the other side of the wrap           *)
Endless == main = "wait" /\ deadline + MaxDelay >= WordMod

(* WaitForConnectResult() returns, whatever the station does, over the wrap   *)
(* of millis() too, unless the wait is endless.                               *)
WaitsEnd == main = "wait" ~> main # "wait" \/ Endless

(* "No Wifi Connection" is shown no earlier than 15 seconds into an attempt,  *)
(* when that began while millis() fitted wifiStartConnectTime.                *)
GivesUpOnTime ==
    [][~cantConnectMode /\ cantConnectMode' /\ timely => age > Patience]_vars

=============================================================================
