-------------------------- MODULE WifiManagerProofs --------------------------
(* The WiFi station and WifiManager.cpp, for any number of events under way,  *)
(* any networks and reasons, any clock and any order of the application, the  *)
(* two event tasks and the radio: the status settles on what the radio says,  *)
(* and an attempt to connect is not given up early.                           *)
EXTENDS WifiManager, SequenceTheorems, TLAPS

-----------------------------------------------------------------------------
(* The inductive invariant of the status.                                     *)

GotIp == Event("GOT_IP")

(* The latest event, delivered or not.                                        *)
Latest == IF posted = <<>> THEN event ELSE posted[Len(posted)]

StationTyped ==
    /\ posted \in Seq(Events) /\ event \in Events
    /\ pointers \in Nat
    /\ task \in {"idle", "set", "setAgain", "leave", "begin"}

(* Only a station in its mode has a link, and it has its address just when    *)
(* that was the latest thing it reported.                                     *)
LinkReported ==
    /\ link # "down" => started
    /\ link = "up" <=> Latest = GotIp

(* The event that all pointers show, once the last of them is taken, is the   *)
(* one whose status is set or is about to be set.                             *)
EventFollowed ==
    pointers = 0 /\ event # Expired =>
      IF task \in {"set", "setAgain"}
      THEN toStatus = "CONNECTED" <=> event = GotIp
      ELSE Connected <=> event = GotIp

StatusInv == StationTyped /\ LinkReported /\ EventFollowed

-----------------------------------------------------------------------------
(* The inductive invariant of the timeout.                                    *)

(* AttemptConnect() waits by a deadline of its own.                           *)
Attempting == main = "attempted" \/ (main = "wait" /\ back = "attempted")

(* A timely attempt began at a time that fits a short int, and no more time   *)
(* has passed since than its age, which saturates.                            *)
Aged == /\ wifiStartConnectTime \in Nat /\ wifiStartConnectTime < Half
        /\ \/ /\ wifiStartConnectTime <= now
              /\ now - wifiStartConnectTime <= age
           \/ age > Patience

(* Whose time may be looked at.                                               *)
Timed == (wifiConnecting \/ main \in {"nested", "begin"}) /\ ~Attempting

ClockInv ==
    /\ now \in 0 .. WordMod - 1 /\ age \in Nat
    /\ back \in {"idle", "look", "attempted"}
    /\ main = "nested" => wifiConnecting
    /\ Timed /\ timely => Aged

-----------------------------------------------------------------------------
(* Events.                                                                    *)

(* What is posted behind a queue is its latest event.                         *)
LEMMA Behind ==
  ASSUME NEW s \in Seq(Events), NEW t \in Seq(Events)
  PROVE  /\ s \o t \in Seq(Events)
         /\ t = <<>> => s \o t = s
         /\ t # <<>> => /\ s \o t # <<>>
                       /\ (s \o t)[Len(s \o t)] = t[Len(t)]
<1>1. /\ s \o t \in Seq(Events) /\ Len(s \o t) = Len(s) + Len(t)
      /\ \A i \in 1 .. Len(s) + Len(t) :
           (s \o t)[i] = IF i <= Len(s) THEN s[i] ELSE t[i - Len(s)]
      /\ Len(s) \in Nat /\ Len(t) \in Nat
  OBVIOUS
<1>2. CASE t = <<>>
  BY <1>1, <1>2
<1>3. CASE t # <<>>
  <2>1. Len(t) > 0
    BY <1>1, <1>3
  <2>2. (s \o t)[Len(s) + Len(t)] = t[Len(s) + Len(t) - Len(s)]
    BY <1>1, <2>1
  <2>3. Len(s) + Len(t) - Len(s) = Len(t)
    BY <1>1
  <2> QED BY <1>1, <1>3, <2>1, <2>2, <2>3
<1> QED BY <1>2, <1>3

(* Taking the oldest event leaves the latest one where it is.                 *)
LEMMA Ahead ==
  ASSUME NEW s \in Seq(Events), s # <<>>
  PROVE  /\ Head(s) \in Events /\ Tail(s) \in Seq(Events)
         /\ s[Len(s)] = IF Tail(s) = <<>> THEN Head(s)
                                          ELSE Tail(s)[Len(Tail(s))]
<1> DEFINE t == Tail(s)
<1>1. /\ Head(s) \in Events /\ t \in Seq(Events)
      /\ Len(t) = Len(s) - 1
      /\ \A i \in 1 .. Len(t) : t[i] = s[i + 1]
  BY HeadTailProperties
<1>2. Len(s) \in Nat /\ Len(s) > 0 /\ Head(s) = s[1]
  OBVIOUS
<1> HIDE DEF t
<1>3. CASE t = <<>>
  <2>1. Len(s) = 1
    BY <1>1, <1>2, <1>3
  <2> QED BY <1>1, <1>2, <1>3, <2>1 DEF t
<1>4. CASE t # <<>>
  <2>1. Len(t) \in Nat /\ Len(t) > 0
    BY <1>1, <1>4
  <2>2. Len(t) \in 1 .. Len(t) /\ Len(t) + 1 = Len(s)
    BY <1>1, <1>2, <2>1
  <2>3. t[Len(t)] = s[Len(s)]
    BY <1>1, <2>2
  <2> QED BY <1>1, <1>4, <2>3 DEF t
<1> QED BY <1>3, <1>4

(* The events of begin() and disconnect(), none of which is an address.       *)
LEMMA OwnEvents ==
  /\ StartEvents \in Seq(Events) /\ LeaveEvents \in Seq(Events)
  /\ <<Event("STOP")>> \in Seq(Events)
  /\ StartEvents = <<>> <=> started
  /\ LeaveEvents = <<>> <=> link = "down"
  /\ StartEvents # <<>> => StartEvents[Len(StartEvents)] # GotIp
  /\ LeaveEvents # <<>> => LeaveEvents[Len(LeaveEvents)] # GotIp
  /\ <<Event("STOP")>> # <<>>
  /\ <<Event("STOP")>>[Len(<<Event("STOP")>>)] # GotIp
<1>1. /\ {Event("START"), Event("STOP"), <<"DISCONNECTED", "ASSOC_LEAVE">>}
           \subseteq Events
      /\ GotIp \notin {Event("START"), Event("STOP"),
                       <<"DISCONNECTED", "ASSOC_LEAVE">>}
  BY DEF Event, Events, GotIp, AllReasons
<1>2. ASSUME NEW e \in Events
      PROVE  <<e>> \in Seq(Events) /\ <<e>> # <<>> /\ <<e>>[Len(<<e>>)] = e
  OBVIOUS
<1>3. <<>> \in Seq(Events)
  OBVIOUS
<1>4. /\ StartEvents \in Seq(Events)
      /\ StartEvents = <<>> <=> started
      /\ StartEvents # <<>> => StartEvents[Len(StartEvents)] # GotIp
  <2>1. CASE started
    BY <1>3, <2>1 DEF StartEvents
  <2>2. CASE ~started
    BY <1>1, <1>2, <2>2 DEF StartEvents
  <2> QED BY <2>1, <2>2
<1>5. /\ LeaveEvents \in Seq(Events)
      /\ LeaveEvents = <<>> <=> link = "down"
      /\ LeaveEvents # <<>> => LeaveEvents[Len(LeaveEvents)] # GotIp
  BY <1>1, <1>2, <1>3 DEF LeaveEvents
<1> QED BY <1>1, <1>2, <1>4, <1>5

(* _eventCallback() sets CONNECTED for an address and for nothing else, and   *)
(* sets no status for AUTH_EXPIRE only.                                       *)
LEMMA StatusOfEvents ==
  ASSUME NEW e \in Events
  PROVE  /\ StatusFor(e) = {} <=> e = Expired
         /\ \A s \in StatusFor(e) : s = "CONNECTED" <=> e = GotIp
  BY DEF StatusFor, Events, Event, Expired, GotIp, AllReasons

-----------------------------------------------------------------------------
(* The status follows the radio.                                              *)

(* An event is posted for what the radio did, and the event task is not       *)
(* concerned yet.                                                             *)
LEMMA PostKept ==
  ASSUME StatusInv, NEW e \in Events, Post(e),
         started' = started, started, link # "down",
         UNCHANGED <<queue, handler>>,
         link' = "up" <=> e = GotIp
  PROVE  StatusInv'
<1> USE DEF StatusInv, queue, handler
<1>1. posted' \in Seq(Events) /\ posted' # <<>> /\ posted'[Len(posted')] = e
  BY DEF Post, StationTyped
<1>2. StationTyped' /\ EventFollowed'
  BY <1>1 DEF StationTyped, EventFollowed, Connected
<1>3. LinkReported'
  BY <1>1 DEF LinkReported, Latest
<1> QED BY <1>2, <1>3

(* What the radio does by itself.                                             *)
LEMMA RadioKept == ASSUME StatusInv, Radio PROVE StatusInv'
<1>0. /\ Reasons \subseteq AllReasons
      /\ \A r \in AllReasons : <<"DISCONNECTED", r>> \in Events
      /\ \A r \in AllReasons : <<"DISCONNECTED", r>> # GotIp
      /\ {Event("CONNECTED"), GotIp, Event("LOST_IP")} \subseteq Events
      /\ Event("CONNECTED") # GotIp /\ Event("LOST_IP") # GotIp
  BY StationAssumption DEF Events, Event, GotIp
<1>1. link # "down" /\ started /\ started' = started
      /\ UNCHANGED <<queue, handler>>
  BY DEF Radio, RadioJoins, RadioGetsIp, RadioLosesIp, RadioLosesAp, StatusInv,
         LinkReported
<1>2. CASE RadioJoins
  BY <1>0, <1>1, <1>2, PostKept DEF RadioJoins
<1>3. CASE RadioGetsIp
  BY <1>0, <1>1, <1>3, PostKept DEF RadioGetsIp, GotIp
<1>4. CASE RadioLosesIp
  BY <1>0, <1>1, <1>4, PostKept DEF RadioLosesIp
<1>5. CASE RadioLosesAp
  BY <1>0, <1>1, <1>5, PostKept DEF RadioLosesAp
<1> QED BY <1>2, <1>3, <1>4, <1>5 DEF Radio

(* What the two tasks ask of the driver: a link is given up with an event,    *)
(* and none of them brings an address.                                        *)
Asks == Begin \/ Disconnect \/ DisconnectForGood \/ \E n \in Nat : BeginWith(n)

(* Asking keeps the agreement of the link with its latest event.              *)
LEMMA AskedLink ==
  ASSUME StatusInv, Asks, UNCHANGED event
  PROVE  posted' \in Seq(Events) /\ LinkReported'
<1> USE DEF StatusInv, StationTyped, LinkReported
<1>1. ASSUME NEW t \in Seq(Events), posted' = posted \o t,
             t # <<>> => t[Len(t)] # GotIp
      PROVE  /\ posted' \in Seq(Events)
             /\ t = <<>> => Latest' = Latest
             /\ t # <<>> => Latest' # GotIp
  BY <1>1, Behind DEF Latest
<1>2. CASE Begin
  <2>1. CASE ~started /\ UNCHANGED driver
    BY <2>1 DEF Latest, driver
  <2>2. CASE /\ started' = TRUE /\ posted' = posted \o StartEvents
             /\ \/ UNCHANGED link
                \/ link = "down" /\ link' = "joining"
    BY <1>1, <2>2, OwnEvents
  <2> QED BY <1>2, <2>1, <2>2 DEF Begin
<1>3. CASE Disconnect
  BY <1>1, <1>3, OwnEvents DEF Disconnect
<1>4. ASSUME NEW t \in Seq(Events), NEW u \in Seq(Events),
             posted' = posted \o t \o u,
             t # <<>> => t[Len(t)] # GotIp,
             u # <<>> => u[Len(u)] # GotIp
      PROVE  /\ posted' \in Seq(Events)
             /\ t = <<>> /\ u = <<>> => Latest' = Latest
             /\ t # <<>> \/ u # <<>> => Latest' # GotIp
  <2>1. /\ posted \o t \in Seq(Events)
        /\ t = <<>> => posted \o t = posted
        /\ t # <<>> => /\ posted \o t # <<>>
                      /\ (posted \o t)[Len(posted \o t)] # GotIp
    BY <1>4, Behind
  <2>2. /\ posted' \in Seq(Events)
        /\ u = <<>> => posted' = posted \o t
        /\ u # <<>> => posted' # <<>> /\ posted'[Len(posted')] # GotIp
    BY <1>4, <2>1, Behind
  <2> QED BY <2>1, <2>2 DEF Latest
<1>5. CASE DisconnectForGood
  BY <1>4, <1>5, OwnEvents DEF DisconnectForGood
<1>6. ASSUME NEW n \in Nat, BeginWith(n)
      PROVE  posted' \in Seq(Events) /\ LinkReported'
  <2>1. CASE ~started /\ UNCHANGED driver
    BY <2>1 DEF Latest, driver
  <2>2. CASE /\ started' = TRUE /\ posted' = posted \o StartEvents
             /\ \/ UNCHANGED link
                \/ link = "down" /\ link' = "joining"
    BY <1>1, <2>2, OwnEvents
  <2>3. CASE /\ started' = TRUE
             /\ posted' = posted \o StartEvents \o LeaveEvents
             /\ link' = "down" \/ link' = "joining"
    BY <1>4, <2>3, OwnEvents
  <2> QED BY <1>6, <2>1, <2>2, <2>3 DEF BeginWith
<1> QED BY <1>2, <1>3, <1>5, <1>6 DEF Asks

(* The loop of the driver hands an event on, or over the one that is shown.   *)
LEMMA DeliveryKept ==
  ASSUME StatusInv, LoopDelivers \/ Overwritten
  PROVE  StatusInv'
<1> USE DEF StatusInv, StationTyped, handler
<1>0. ASSUME NEW e, Handle(e) PROVE task' \in {"set", "setAgain", "leave"}
  BY <1>0 DEF Handle
<1>1. /\ posted \in Seq(Events) /\ posted # <<>>
      /\ event' = Head(posted) /\ posted' = Tail(posted)
      /\ pointers' > 0 /\ pointers' \in Nat
      /\ UNCHANGED <<started, link>>
  BY DEF LoopDelivers, Overwritten
<1>5. task' \in {"idle", "set", "setAgain", "leave", "begin"}
  <2>1. CASE UNCHANGED handler
    BY <2>1
  <2>2. CASE ~UNCHANGED handler
    <3>1. \E e : Handle(e)
      BY <2>2 DEF LoopDelivers, Overwritten
    <3> QED BY <1>0, <3>1
  <2> QED BY <2>1, <2>2
<1>2. posted' \in Seq(Events) /\ event' \in Events
  BY <1>1
<1>3. Latest' = Latest
  BY <1>1, Ahead DEF Latest
<1>4. LinkReported'
  BY <1>1, <1>3 DEF LinkReported, GotIp
<1> QED BY <1>1, <1>5, <1>2, <1>4 DEF EventFollowed

(* The network_event task follows a pointer, sets the status, reconnects.     *)
LEMMA TaskKept == ASSUME StatusInv, EventTask PROVE StatusInv'
<1> USE DEF StatusInv, StationTyped, queue
<1>1. CASE Receive
  <2>1. /\ UNCHANGED <<started, link, posted, event>> /\ pointers' \in Nat
        /\ task' \in {"idle", "set", "setAgain", "leave", "begin"}
    BY <1>1 DEF Receive, Handle, driver
  <2>2. LinkReported'
    BY <2>1 DEF LinkReported, Latest
  <2>3. EventFollowed'
    BY <1>1, <2>1, StatusOfEvents DEF Receive, Handle, EventFollowed
  <2> QED BY <2>1, <2>2, <2>3
<1>2. CASE SetStatus
  <2>1. LinkReported'
    BY <1>2 DEF SetStatus, LinkReported, Latest, driver
  <2> QED BY <1>2, <2>1 DEF SetStatus, EventFollowed, driver, Connected
<1>3. CASE ReconnectLeaves \/ ReconnectBegins
  <2>1. posted' \in Seq(Events) /\ LinkReported'
    BY <1>3, AskedLink DEF ReconnectLeaves, ReconnectBegins, Asks
  <2> QED BY <1>3, <2>1
             DEF ReconnectLeaves, ReconnectBegins, EventFollowed, Connected
<1> QED BY <1>1, <1>2, <1>3 DEF EventTask

(* The application leaves queue and handler alone.                            *)
LEMMA AskKept ==
  ASSUME StatusInv, Asks, UNCHANGED <<queue, handler>>
  PROVE  StatusInv'
<1>1. posted' \in Seq(Events) /\ LinkReported'
  BY AskedLink DEF queue
<1> QED BY <1>1 DEF StatusInv, StationTyped, EventFollowed, queue, handler,
                    Connected

(* Every step keeps it.                                                       *)
LEMMA StatusNextInv == ASSUME StatusInv, [Next]_vars PROVE StatusInv'
<1>1. CASE UNCHANGED station
  BY <1>1 DEF StatusInv, StationTyped, LinkReported, EventFollowed, Latest,
              Connected, station, driver, queue, handler
<1>2. CASE Steps
  <2>1. CASE CallBegin
    BY <2>1, AskKept DEF CallBegin, Asks
  <2> QED BY <1>1, <1>2, <2>1
             DEF Steps, Display, Look, LookReconnects, StartReconnect,
                 NestedDisplay, Wait, Attempted
<1>3. CASE Calls
  <2>1. CASE AttemptConnect
    <3>1. Networks \subseteq Nat
      BY WifiManagerAssumption
    <3> QED BY <2>1, <3>1, AskKept
            DEF AttemptConnect, StartWait, Asks, queue, handler
  <2>2. CASE ForgetWifiNetwork
    BY <2>2, AskKept DEF ForgetWifiNetwork, Asks
  <2>3. CASE Reconnect \/ WaitForConnectResult
    BY <1>1, <2>3 DEF Reconnect, StartReconnect, WaitForConnectResult, StartWait,
                      station
  <2> QED BY <1>3, <2>1, <2>2, <2>3 DEF Calls
<1> QED BY <1>1, <1>2, <1>3, RadioKept, DeliveryKept, TaskKept DEF Next, vars

(* status() and the driver of the station agree once the event tasks have     *)
(* nothing left to do, although all queued pointers show the latest event.    *)
THEOREM StatusAlwaysSettles == Spec => []StatusSettles
<1>1. Init => StatusInv
  BY DEF Init, StationInit, StatusInv, StationTyped, LinkReported, EventFollowed,
         Latest, GotIp, Event, Events, Connected
<1>2. StatusInv /\ [Next]_vars => StatusInv'
  BY StatusNextInv
<1>3. StatusInv => StatusSettles
  BY DEF StatusInv, LinkReported, EventFollowed, Latest, StatusSettles, Quiet
<1> QED BY <1>1, <1>2, <1>3, PTL DEF Spec

-----------------------------------------------------------------------------
(* The timeout of an attempt.                                                 *)

(* The clock, the short int and the patience, one within the other.           *)
LEMMA ClockBounds ==
  /\ Patience \in Nat /\ WordMod \in Nat /\ WordMod > 0
  /\ Half \in Nat /\ Half < WordMod /\ Half + Patience < WordMod
  /\ \A t \in Nat : t < Half => /\ Short(t) = t
                              /\ (t + Patience) % WordMod = t + Patience
<1>1. /\ Patience \in Nat /\ ShortMod \in Nat /\ WordMod \in Nat
      /\ 2 * Patience < ShortMod /\ ShortMod < WordMod
  BY WifiManagerAssumption
<1>2. Half \in Nat /\ 2 * Half <= ShortMod /\ ShortMod < 2 * Half + 2
  BY <1>1 DEF Half
<1>3. ASSUME NEW t \in Nat, t < Half
      PROVE  Short(t) = t /\ (t + Patience) % WordMod = t + Patience
  <2>1. t < ShortMod /\ t + Patience \in Nat /\ t + Patience < WordMod
    BY <1>1, <1>2, <1>3
  <2>2. t % ShortMod = t
    BY <1>1, <2>1
  <2>3. (t + Patience) % WordMod = t + Patience
    BY <1>1, <2>1
  <2> QED BY <1>3, <2>2, <2>3 DEF Short
<1> QED BY <1>1, <1>2, <1>3

(* When the time of a timely attempt is over, its age says so.                *)
LEMMA OverInTime ==
  ASSUME ClockInv, Aged, TimedOut
  PROVE  age > Patience
<1>1. (wifiStartConnectTime + Patience) % WordMod
        = wifiStartConnectTime + Patience
  BY ClockBounds DEF Aged
<1>2. wifiStartConnectTime + Patience < now
  BY <1>1 DEF TimedOut
<1>3. now \in Nat /\ age \in Nat /\ Patience \in Nat
  BY ClockBounds DEF ClockInv
<1> QED BY <1>2, <1>3 DEF Aged

(* A round of the loops lets the clock and the age go on together.            *)
LEMMA RoundAges ==
  ASSUME ClockInv, Round
  PROVE  /\ now' \in 0 .. WordMod - 1 /\ age' \in Nat
         /\ wifiConnecting /\ timely /\ Aged => Aged'
<1>1. /\ now \in 0 .. WordMod - 1 /\ age \in Nat /\ Patience \in Nat
      /\ WordMod \in Nat /\ WordMod > 0 /\ MaxDelay \in Nat
  BY ClockBounds, WifiManagerAssumption DEF ClockInv
<1>2. PICK d \in 1 .. MaxDelay :
        /\ now' = IF wifiConnecting \/ Waiting THEN (now + d) % WordMod ELSE now
        /\ age' = CASE ~wifiConnecting \/ ~timely -> age
                    [] wifiConnecting /\ timely /\ age + d <= Patience -> age + d
                    [] OTHER -> Patience + 1
  BY DEF Round
<1>3. now' \in 0 .. WordMod - 1 /\ age' \in Nat
  <2>1. (now + d) % WordMod \in 0 .. WordMod - 1
    BY <1>1
  <2>2. now' \in 0 .. WordMod - 1
    BY <1>1, <1>2, <2>1
  <2> QED BY <1>1, <1>2, <2>2
<1>4. ASSUME wifiConnecting, timely, Aged PROVE Aged'
  <2>1. wifiStartConnectTime' = wifiStartConnectTime
    BY DEF Round
  <2>2. CASE age + d <= Patience
    <3>1. /\ wifiStartConnectTime <= now
          /\ now - wifiStartConnectTime <= age
          /\ wifiStartConnectTime \in Nat /\ wifiStartConnectTime < Half
      BY <1>1, <1>4, <2>2 DEF Aged
    <3>2. now + d < WordMod
      BY <1>1, <2>2, <3>1, ClockBounds
    <3>3. now' = now + d /\ age' = age + d
      <4>1. (now + d) % WordMod = now + d
        BY <1>1, <3>2
      <4> QED BY <1>2, <1>4, <2>2, <4>1
    <3> QED BY <1>1, <2>1, <3>1, <3>3 DEF Aged, Half
  <2>3. CASE ~(age + d <= Patience)
    <3>1. age' = Patience + 1
      BY <1>2, <1>4, <2>3
    <3> QED BY <1>1, <1>4, <2>1, <3>1 DEF Aged, Half
  <2> QED BY <2>2, <2>3
<1> QED BY <1>3, <1>4

(* The display and the connection attempt of the application.                 *)
LEMMA DisplayClock ==
  ASSUME ClockInv, \/ Display \/ Look \/ LookReconnects \/ Reconnect
                   \/ NestedDisplay \/ CallBegin
  PROVE  ClockInv'
<1> USE DEF ClockInv
<1>0. now \in 0 .. WordMod - 1 /\ age \in Nat /\ WordMod \in Nat /\ 0 < WordMod
  BY ClockBounds
<1>1. CASE Display
  <2>1. /\ main = "idle" /\ main' \in {"idle", "look"} /\ Round
        /\ UNCHANGED <<wifiConnecting, back, timely>>
    BY <1>1 DEF Display, flags, Round
  <2>2. Timed' => wifiConnecting /\ Timed
    BY <2>1 DEF Timed, Attempting
  <2> QED BY <2>1, <2>2, RoundAges
<1>2. CASE Look
  <2>1. main = "look" /\ main' = "idle" /\ UNCHANGED back
    BY <1>2 DEF Look
  <2>2. CASE UNCHANGED <<timing, flags>>
    <3>1. Timed' => Timed
      BY <2>1, <2>2 DEF Timed, Attempting, flags
    <3> QED BY <2>1, <2>2, <3>1 DEF timing, Aged, Half
  <2>3. CASE SetWifiConnecting(FALSE, FALSE)
    <3>1. ~wifiConnecting' /\ now' = 0 /\ age' = 0
      BY <2>3 DEF SetWifiConnecting
    <3>2. ~Timed'
      BY <2>1, <3>1 DEF Timed
    <3> QED BY <1>0, <2>1, <3>1, <3>2
  <2> QED BY <1>2, <2>2, <2>3 DEF Look, GiveUp
<1>3. CASE LookReconnects \/ Reconnect
  <2>1. /\ main' = "nested" /\ wifiConnecting' = TRUE /\ now' \in Millis
        /\ wifiStartConnectTime' = Short(now') /\ age' = 0
        /\ back' \in {"idle", "look"}
    BY <1>3 DEF LookReconnects, Reconnect, StartReconnect, Call
  <2>2. now' \in 0 .. WordMod - 1
    BY <1>0, <2>1 DEF Millis
  <2>3. ASSUME timely' PROVE Aged'
    <3>1. now' < Half
      BY <1>3, <2>3, Zenon DEF LookReconnects, Reconnect, StartReconnect
    <3>2. now' \in Nat
      BY <2>2, <1>0
    <3>3. wifiStartConnectTime' = now'
      BY <2>1, <3>1, <3>2, ClockBounds
    <3>4. (wifiStartConnectTime < Half)'
      BY <3>1, <3>3
    <3>5. now' - wifiStartConnectTime' <= age'
      <4>1. PICK n \in Nat : now' = n /\ wifiStartConnectTime' = n
        BY <3>2, <3>3
      <4>2. n - n <= 0
        OBVIOUS
      <4>3. now' - wifiStartConnectTime' <= 0
        BY <4>1, <4>2
      <4>4. age' = 0
        BY <2>1
      <4> QED BY <4>3, <4>4
    <3> QED BY <3>2, <3>3, <3>4, <3>5 DEF Aged
  <2> QED BY <2>1, <2>2, <2>3
<1>4. CASE NestedDisplay
  <2>1. /\ main = "nested" /\ main' = "begin" /\ UNCHANGED <<timing, back>>
    BY <1>4 DEF NestedDisplay
  <2>2. Timed
    BY <2>1 DEF Timed, Attempting
  <2> QED BY <2>1, <2>2 DEF timing, Aged, Half
<1>5. CASE CallBegin
  <2>1. /\ main = "begin" /\ main' = "idle" /\ back' = "idle"
        /\ \/ SetWifiConnecting(FALSE, FALSE)
           \/ SetWifiConnecting(wifiConnecting, FALSE)
    BY <1>5 DEF CallBegin, GiveUp
  <2>2. CASE wifiConnecting'
    <3>1. UNCHANGED <<now, age, timely, wifiStartConnectTime>>
      BY <2>1, <2>2 DEF SetWifiConnecting
    <3>2. Timed
      BY <2>1 DEF Timed, Attempting
    <3> QED BY <2>1, <3>1, <3>2 DEF Aged, Half
  <2>3. CASE ~wifiConnecting'
    <3>1. now' = 0 /\ age' = 0
      BY <2>1, <2>3 DEF SetWifiConnecting
    <3>2. ~Timed'
      BY <2>1, <2>3 DEF Timed
    <3> QED BY <1>0, <2>1, <3>1, <3>2
  <2> QED BY <2>2, <2>3
<1> QED BY <1>1, <1>2, <1>3, <1>4, <1>5

(* AttemptConnect(), the waits, and what follows them.                        *)
LEMMA WaitClock ==
  ASSUME ClockInv, \/ AttemptConnect \/ WaitForConnectResult \/ Wait
                   \/ Attempted \/ ForgetWifiNetwork
  PROVE  ClockInv'
<1> USE DEF ClockInv
<1>0. now \in 0 .. WordMod - 1 /\ age \in Nat /\ WordMod \in Nat /\ 0 < WordMod
  BY ClockBounds
<1>1. CASE AttemptConnect
  <2>1. /\ main' = "wait" /\ back' = "attempted" /\ now' \in Millis
        /\ UNCHANGED age
    BY <1>1 DEF AttemptConnect, StartWait, Call
  <2>2. now' \in 0 .. WordMod - 1 /\ ~Timed'
    BY <1>0, <2>1 DEF Millis, Timed, Attempting
  <2> QED BY <2>1, <2>2
<1>2. CASE WaitForConnectResult
  <2>1. /\ main = "idle" /\ main' = "wait" /\ back' = "idle" /\ now' \in Millis
        /\ UNCHANGED <<wifiStartConnectTime, age, wifiConnecting, timely>>
    BY <1>2 DEF WaitForConnectResult, StartWait, Call
  <2>2. now' \in 0 .. WordMod - 1 /\ (wifiConnecting => now' = now)
    BY <1>0, <2>1 DEF Millis
  <2>3. Timed' => wifiConnecting /\ Timed
    BY <2>1 DEF Timed, Attempting
  <2> QED BY <2>1, <2>2, <2>3 DEF Aged, Half
<1>3. CASE Wait
  <2>1. CASE Round /\ UNCHANGED <<main, wifiConnecting, back>>
    <3>1. main = "wait" /\ UNCHANGED timely
      BY <1>3, <2>1 DEF Wait, Round
    <3>2. Timed' => wifiConnecting /\ Timed
      BY <2>1, <3>1 DEF Timed, Attempting
    <3> QED BY <2>1, <3>1, <3>2, RoundAges
  <2>2. CASE /\ main' = back /\ UNCHANGED back
             /\ SetWifiConnecting(wifiConnecting, FALSE)
    <3>1. main = "wait" /\ UNCHANGED wifiConnecting
      BY <1>3, <2>2 DEF Wait, SetWifiConnecting
    <3>2. CASE wifiConnecting
      <4>1. UNCHANGED <<now, age, timely, wifiStartConnectTime>>
        BY <2>2, <3>2 DEF SetWifiConnecting
      <4>2. Timed' => Timed
        BY <2>2, <3>1, <3>2 DEF Timed, Attempting
      <4> QED BY <2>2, <4>1, <4>2 DEF Aged, Half
    <3>3. CASE ~wifiConnecting
      <4>1. now' = 0 /\ age' = 0
        BY <2>2, <3>3 DEF SetWifiConnecting
      <4>2. ~Timed'
        BY <2>2, <3>1, <3>3 DEF Timed
      <4> QED BY <1>0, <2>2, <4>1, <4>2
    <3> QED BY <3>2, <3>3
  <2> QED BY <1>3, <2>1, <2>2 DEF Wait
<1>4. CASE Attempted
  <2>1. /\ main' = "idle" /\ back' = "idle" /\ ~wifiConnecting'
        /\ now' = 0 /\ age' = 0
    BY <1>4 DEF Attempted, SetWifiConnecting
  <2>2. ~Timed'
    BY <2>1 DEF Timed
  <2> QED BY <1>0, <2>1, <2>2
<1>5. CASE ForgetWifiNetwork
  <2>1. /\ main = "idle" /\ main' = "idle"
        /\ UNCHANGED <<timing, flags, back>>
    BY <1>5 DEF ForgetWifiNetwork, Call
  <2>2. Timed' => Timed
    BY <2>1 DEF Timed, Attempting, flags
  <2> QED BY <2>1, <2>2 DEF timing, Aged, Half
<1> QED BY <1>1, <1>2, <1>3, <1>4, <1>5

(* Every step keeps the clock.                                                *)
LEMMA ClockNextInv == ASSUME ClockInv, [Next]_vars PROVE ClockInv'
<1>1. CASE Steps \/ Calls
  BY <1>1, DisplayClock, WaitClock DEF Steps, Calls
<1>2. CASE UNCHANGED <<timing, flags, main, back>>
  <2>1. Timed' => Timed
    BY <1>2 DEF Timed, Attempting, flags
  <2> QED BY <1>2, <2>1 DEF ClockInv, Aged, Half, timing, flags
<1> QED BY <1>1, <1>2 DEF Next, Others, vars

(* "No Wifi Connection" is shown only after the 15 seconds of an attempt,     *)
(* when that began while millis() fitted the short int, however the rounds,   *)
(* the waits and the calls of the application interleave.                     *)
THEOREM NeverGivesUpEarly == Spec => GivesUpOnTime
<1>1. Init => ClockInv
  BY ClockBounds
     DEF Init, ClockInv, Timed, Attempting
<1>2. ClockInv /\ [Next]_vars => ClockInv'
  BY ClockNextInv
<1>3. ClockInv /\ [Next]_vars =>
        [~cantConnectMode /\ cantConnectMode' /\ timely => age > Patience]_vars
  <2> SUFFICES ASSUME ClockInv, [Next]_vars,
                      ~cantConnectMode, cantConnectMode', timely
               PROVE  age > Patience
    OBVIOUS
  <2>1. CASE Look
    <3>1. main = "look" /\ wifiConnecting /\ TimedOut
      BY <2>1 DEF Look, flags
    <3>2. Timed
      BY <3>1 DEF Timed, Attempting
    <3> QED BY <3>1, <3>2, OverInTime DEF ClockInv
  <2>2. CASE NestedDisplay
    <3>1. main = "nested"
      BY <2>2 DEF NestedDisplay
    <3>2. TimedOut
      BY <2>2, Zenon DEF NestedDisplay
    <3>3. Timed
      BY <3>1 DEF Timed, Attempting
    <3> QED BY <3>2, <3>3, OverInTime DEF ClockInv
  <2>3. CASE CallBegin
    <3>1. main = "begin" /\ TimedOut
      BY <2>3 DEF CallBegin
    <3>2. Timed
      BY <3>1 DEF Timed, Attempting
    <3> QED BY <3>1, <3>2, OverInTime DEF ClockInv
  <2>4. CASE Wait \/ Attempted
    BY <2>4, Zenon DEF Wait, Attempted
  <2>5. ~UNCHANGED cantConnectMode
    OBVIOUS
  <2> QED BY <2>1, <2>2, <2>3, <2>4, <2>5
             DEF Next, Steps, Calls, Display, LookReconnects, StartReconnect,
                 Reconnect, AttemptConnect, StartWait, WaitForConnectResult,
                 ForgetWifiNetwork, Others, flags, vars
<1> QED BY <1>1, <1>2, <1>3, PTL DEF Spec, GivesUpOnTime

=============================================================================
