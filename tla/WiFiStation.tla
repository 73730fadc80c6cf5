---------------------------- MODULE WiFiStation ----------------------------
(* The station side of the WiFi library: WiFiSTA.cpp and the event handling   *)
(* of WiFiGeneric.cpp.  Three parties: the driver and its event loop task     *)
(* (outside the repository), the network_event task that runs                 *)
(* _eventCallback(), and the task of the application, which calls begin() and *)
(* disconnect() at any time.                                                  *)
EXTENDS Integers, Sequences

CONSTANTS
    Reasons,          \* the reasons for a disconnection that occur
    MaxEvents,        \* bound: events on their way to the event task
    QueueLength       \* the 32 places of _network_event_queue

(* WIFI_REASON_..., as far as _eventCallback() tells them apart.              *)
AllReasons == {"NO_AP_FOUND", "AUTH_FAIL", "ASSOC_FAIL", "BEACON_TIMEOUT",
               "HANDSHAKE_TIMEOUT", "AUTH_EXPIRE", "ASSOC_LEAVE"}

ASSUME StationAssumption ==
    /\ Reasons \subseteq AllReasons
    /\ {MaxEvents, QueueLength} \subseteq Nat \ {0}

Statuses == {"NO_SHIELD", "IDLE", "NO_SSID_AVAIL", "CONNECTED",
             "CONNECT_FAILED", "CONNECTION_LOST", "DISCONNECTED"}

(* Events without a reason have their own name as the second part.            *)
Event(id) == <<id, id>>
Events == {"DISCONNECTED"} \X AllReasons
          \cup {Event(id) : id \in {"START", "STOP", "CONNECTED", "GOT_IP",
                                    "LOST_IP", "NONE"}}

VARIABLES
    started,          \* the station mode is on
    config,           \* the network in the driver's configuration, 0: none
    link,             \* the driver: "down", "joining", "joined", "up"
    posted,           \* events in the queue of the IDF event loop
    event,            \* the variable of that loop the queued pointers point to
    pointers,         \* pointers in _network_event_queue
    task,             \* where the network_event task stands
    toStatus,         \* the status it is about to set, IDLE otherwise
    status            \* the bits of _sta_status_group

driver  == <<started, config, link, posted>>
queue   == <<event, pointers>>
handler == <<task, toStatus, status>>
station == <<driver, queue, handler>>

StationInit ==
    /\ started = FALSE /\ config \in {0, 1} /\ link = "down"
    /\ posted = <<>> /\ event = Event("NONE") /\ pointers = 0
    /\ task = "idle" /\ toStatus = "IDLE" /\ status = "NO_SHIELD"

-----------------------------------------------------------------------------
(* The driver: esp_wifi_start(), _connect() and _disconnect() as the library  *)
(* uses them, and what the radio does by itself.                              *)

StartEvents == IF started THEN <<>> ELSE <<Event("START")>>
LeaveEvents == IF link = "down" THEN <<>>
               ELSE <<<<"DISCONNECTED", "ASSOC_LEAVE">>>>

Room == Len(posted) + pointers < MaxEvents

Post(e) == Room /\ posted' = Append(posted, e)

RadioJoins ==
    /\ link = "joining"
    /\ \/ link' = "joined" /\ Post(Event("CONNECTED"))
       \/ /\ link' = "down"
          /\ \E r \in Reasons \ {"BEACON_TIMEOUT"} : Post(<<"DISCONNECTED", r>>)
    /\ UNCHANGED <<started, config, queue, handler>>

RadioGetsIp ==
    /\ link = "joined"
    /\ link' = "up" /\ Post(Event("GOT_IP"))
    /\ UNCHANGED <<started, config, queue, handler>>

RadioLosesIp ==
    /\ link = "up"
    /\ link' = "joined" /\ Post(Event("LOST_IP"))
    /\ UNCHANGED <<started, config, queue, handler>>

RadioLosesAp ==
    /\ link \in {"joined", "up"}
    /\ link' = "down"
    /\ \E r \in Reasons \ {"NO_AP_FOUND"} : Post(<<"DISCONNECTED", r>>)
    /\ UNCHANGED <<started, config, queue, handler>>

(* The event loop of the IDF takes an event into its variable and calls       *)
(* _network_event_cb(), which queues the address of that variable.            *)
LoopDelivers ==
    /\ posted # <<>> /\ pointers < QueueLength
    /\ event' = Head(posted) /\ posted' = Tail(posted)
    /\ pointers' = pointers + 1
    /\ UNCHANGED <<started, config, link, handler>>

-----------------------------------------------------------------------------
(* begin(), begin(ssid) and disconnect(), for either task.                    *)

(* enableSTA(true), then esp_wifi_connect() unless status() says connected.   *)
(* A call of the driver that fails ends it: the mode is not entered, or it is *)
(* and the link is left alone.                                                *)
Begin ==
    \/ ~started /\ UNCHANGED driver
    \/ /\ started' = TRUE
       /\ posted' = posted \o StartEvents
       /\ \/ UNCHANGED link
          \/ /\ status # "CONNECTED" /\ config # 0 /\ link = "down"
             /\ link' = "joining"
       /\ UNCHANGED config

(* begin(ssid): another configuration than the stored one leaves the network  *)
(* that is joined, the same one is joined again unless status() says so.  It  *)
(* ends before either when the name or the passphrase is refused, the network *)
(* cannot be left or DHCP does not start, and after it has left the network   *)
(* when the driver does not connect; a configuration that is not stored goes  *)
(* unnoticed.                                                                 *)
BeginWith(net) ==
    \/ ~started /\ UNCHANGED driver
    \/ /\ started' = TRUE
       /\ posted' = posted \o StartEvents
       /\ UNCHANGED <<config, link>>
    \/ /\ config # net
       /\ started' = TRUE
       /\ posted' = posted \o StartEvents \o LeaveEvents
       /\ config' \in {config, net}
       /\ link' = "down" \/ (config' # 0 /\ link' = "joining")
    \/ /\ config = net /\ status # "CONNECTED" /\ link = "down"
       /\ started' = TRUE
       /\ posted' = posted \o StartEvents
       /\ link' = "joining"
       /\ UNCHANGED config

(* disconnect(): only in station mode                                         *)
Disconnect ==
    /\ posted' = IF started THEN posted \o LeaveEvents ELSE posted
    /\ link' = IF started THEN "down" ELSE link
    /\ UNCHANGED <<started, config>>

(* disconnect(true, true): the configuration is erased and the mode left.     *)
DisconnectForGood ==
    /\ started
    /\ started' = FALSE /\ config' = 0 /\ link' = "down"
    /\ posted' = posted \o LeaveEvents \o <<Event("STOP")>>

-----------------------------------------------------------------------------
(* _eventCallback() in the network_event task                                 *)

(* Slip: a station without an address is still connected.                     *)
StatusForJoined(e) ==
    CASE e[1] = "START"     -> {"DISCONNECTED"}
      [] e[1] = "STOP"      -> {"NO_SHIELD"}
      [] e[1] = "CONNECTED" -> {"IDLE"}
      [] e[1] \in {"GOT_IP", "LOST_IP"} -> {"CONNECTED"}
      [] OTHER -> {"DISCONNECTED"}

(* The status an event stands for, as a set that is empty for AUTH_EXPIRE.    *)
StatusFor(e) ==
    CASE e[1] = "START"     -> {"DISCONNECTED"}
      [] e[1] = "STOP"      -> {"NO_SHIELD"}
      [] e[1] = "CONNECTED" -> {"IDLE"}
      [] e[1] = "GOT_IP"    -> {"CONNECTED"}
      [] e[1] = "LOST_IP"   -> {"IDLE"}
      [] e[2] = "NO_AP_FOUND" -> {"NO_SSID_AVAIL"}
      [] e[2] \in {"AUTH_FAIL", "ASSOC_FAIL"} -> {"CONNECT_FAILED"}
      [] e[2] \in {"BEACON_TIMEOUT", "HANDSHAKE_TIMEOUT"} -> {"CONNECTION_LOST"}
      [] e[2] = "AUTH_EXPIRE" -> {}
      [] OTHER -> {"DISCONNECTED"}

(* AUTH_EXPIRE, or at least BEACON_TIMEOUT and not AUTH_FAIL; the automatic   *)
(* reconnection is on.                                                        *)
ReconnectsAfter(e) ==
    e[1] = "DISCONNECTED" /\ e[2] \in {"AUTH_EXPIRE", "BEACON_TIMEOUT",
                          "NO_AP_FOUND", "ASSOC_FAIL", "HANDSHAKE_TIMEOUT"}

Expired == <<"DISCONNECTED", "AUTH_EXPIRE">>

(* _setStatus() clears the bits, which reads as IDLE, and then sets them.     *)
Handle(e) ==
    IF StatusFor(e) = {}
    THEN task' = "leave" /\ UNCHANGED <<toStatus, status>>
    ELSE /\ toStatus' \in StatusFor(e) /\ status' = "IDLE"
         /\ task' = IF ReconnectsAfter(e) THEN "setAgain" ELSE "set"

(* The pointer is followed when it is taken: what it shows is the latest      *)
(* event.                                                                     *)
Receive ==
    /\ task = "idle" /\ pointers > 0
    /\ pointers' = pointers - 1
    /\ Handle(event)
    /\ UNCHANGED <<driver, event>>

(* The loop overwrites the event while _eventCallback() looks at it: between  *)
(* two looks at its event_id, and no branch is taken; or between event_id and *)
(* the reason, which is then a byte of the new event.                         *)
Overwritten ==
    /\ task = "idle" /\ pointers > 0 /\ posted # <<>>
    /\ event' = Head(posted) /\ posted' = Tail(posted)
    /\ \/ UNCHANGED handler
       \/ /\ event[1] = "DISCONNECTED"
          /\ \E r \in AllReasons :
               /\ Head(posted)[1] = "DISCONNECTED" => r = Head(posted)[2]
               /\ Handle(<<"DISCONNECTED", r>>)
    /\ UNCHANGED <<started, config, link, pointers>>

(* Slip: the bits are cleared after they are set.                             *)
SetThenClear ==
    /\ task \in {"set", "setAgain"}
    /\ status' = "IDLE" /\ toStatus' = "IDLE"
    /\ task' = IF task = "set" THEN "idle" ELSE "leave"
    /\ UNCHANGED <<driver, queue>>

SetStatus ==
    /\ task \in {"set", "setAgain"}
    /\ status' = toStatus /\ toStatus' = "IDLE"
    /\ task' = IF task = "set" THEN "idle" ELSE "leave"
    /\ UNCHANGED <<driver, queue>>

ReconnectLeaves == /\ task = "leave" /\ Disconnect
                   /\ task' = "begin"
                   /\ UNCHANGED <<queue, toStatus, status>>

ReconnectBegins == /\ task = "begin" /\ Begin
                   /\ task' = "idle"
                   /\ UNCHANGED <<queue, toStatus, status>>

EventTask == Receive \/ SetStatus \/ ReconnectLeaves \/ ReconnectBegins

Radio == RadioJoins \/ RadioGetsIp \/ RadioLosesIp \/ RadioLosesAp

Connected == status = "CONNECTED"

=============================================================================
