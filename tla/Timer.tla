------------------------------- MODULE Timer -------------------------------
(* main/lib/Timer: the events that the main loop runs with timer.update().    *)
(* update() reads the clock once and walks over the slots; a callback it      *)
(* calls may itself arm and stop events of the same timer, and may take time. *)
EXTENDS Integers, FiniteSets

CONSTANTS
    MaxEvents,        \* MAX_NUMBER_OF_EVENTS
    ClockMod,         \* 2^32: unsigned long and millis() wrap here
    Periods,          \* periods that clients ask for
    Repeats,          \* repeat counts that clients ask for; -1 is for ever
    Levels,           \* the starting values of pins, HIGH is TRUE
    MaxArmed,         \* bound: events armed in a behaviour
    MaxFired,         \* bound: the clock stops when an event fired that often
    SlowCallbacks,    \* a callback may take longer than a tick of the clock
    RearmSelf         \* a callback may stop its own event and use its slot again

ASSUME TimerAssumption ==
    /\ MaxEvents \in Nat \ {0} /\ ClockMod \in Nat \ {0} /\ MaxArmed \in Nat
    /\ MaxFired \in Nat
    /\ Periods \subseteq 1 .. ClockMod - 1
    /\ Repeats \subseteq Nat \cup {-1}
    /\ Levels \subseteq BOOLEAN
    /\ SlowCallbacks \in BOOLEAN /\ RearmSelf \in BOOLEAN

Slots == 0 .. MaxEvents - 1
Ids   == 1 .. MaxArmed
None  == [type |-> "none", id |-> 0, period |-> 1, repeatCount |-> -1,
          lastEventTime |-> 0, count |-> 0]

VARIABLES
    events,           \* _events
    pin,              \* pin[k]: pinState of event k, what it wrote last to its
                      \*   pin, and its start
    millis,           \* the clock
    now,              \* the time update() works with
    at,               \* the slot update() is at; MaxEvents when it is not running
    inCallback,       \* the callback of events[at] is running
    armed,            \* events armed so far; the latest one has this number
    waited,           \* waited[s]: ticks since lastEventTime, saturating
    fired,            \* fired[k]: how often event k has fired
    ended             \* the events that ran out of repeats, and those stopped

vars == <<events, pin, millis, now, at, inCallback, armed, waited, fired, ended>>
history == <<armed, waited, fired, ended>>

MaxWait == ClockMod - 1

Event == [type : {"none", "every", "oscillate"}, id : 0 .. MaxArmed,
          period : Nat, repeatCount : Int, lastEventTime : 0 .. ClockMod - 1,
          count : Nat]

TypeOK ==
    /\ events \in [Slots -> Event]
    /\ pin \in [Ids -> [start : BOOLEAN, level : BOOLEAN, immediate : BOOLEAN]]
    /\ millis \in 0 .. ClockMod - 1 /\ now \in 0 .. ClockMod - 1
    /\ at \in 0 .. MaxEvents
    /\ inCallback \in BOOLEAN
    /\ armed \in 0 .. MaxArmed
    /\ waited \in [Slots -> 0 .. MaxWait]
    /\ fired \in [Ids -> Nat]
    /\ ended \in [ran : SUBSET Ids, stopped : SUBSET Ids]

Init ==
    /\ events = [s \in Slots |-> None]
    /\ pin = [k \in Ids |-> [start |-> FALSE, level |-> FALSE, immediate |-> FALSE]]
    /\ millis \in {0, ClockMod - 1} /\ now = 0
    /\ at = MaxEvents /\ inCallback = FALSE
    /\ armed = 0 /\ waited = [s \in Slots |-> 0]
    /\ fired = [k \in Ids |-> 0]
    /\ ended = [ran |-> {}, stopped |-> {}]

-----------------------------------------------------------------------------
(* Clients call the timer from the main loop, between two calls of update(),  *)
(* or from a callback.                                                        *)
ClientRuns == at = MaxEvents \/ inCallback

(* findFreeEventIndex() returns s                                             *)
FreeIndex(s) == /\ events[s].type = "none"
                /\ \A r \in Slots : r < s => events[r].type # "none"

(* every(), after(), oscillate(), pulse() and pulseImmediate() differ in the  *)
(* type and in the number of firings they ask for.                            *)
Arm(type, period, repeatCount, start, immediate) ==
    /\ ClientRuns
    /\ armed < MaxArmed
    /\ armed' = armed + 1
    /\ \E s \in Slots :
         /\ FreeIndex(s)
         /\ inCallback /\ s = at => RearmSelf
         /\ events' = [events EXCEPT ![s] =
              [type |-> type, id |-> armed', period |-> period,
               repeatCount |-> repeatCount, lastEventTime |-> millis, count |-> 0]]
         /\ waited' = [waited EXCEPT ![s] = 0]
    /\ pin' = [pin EXCEPT ![armed'] =
                 [start |-> start, level |-> start, immediate |-> immediate]]
    /\ UNCHANGED <<millis, now, at, inCallback, fired, ended>>

Every == \E p \in Periods, n \in Repeats : Arm("every", p, n, FALSE, FALSE)

Oscillate == \E p \in Periods, n \in Repeats, v \in Levels :
               Arm("oscillate", p, 2 * n, v, FALSE)

Pulse == \E p \in Periods, v \in Levels : Arm("oscillate", p, 2, v, FALSE)

(* Slip: the repeat count is left at a full cycle.                            *)
PulseBack == \E p \in Periods, v \in Levels : Arm("oscillate", p, 2, v, TRUE)

PulseImmediate == \E p \in Periods, v \in Levels :
                    Arm("oscillate", p, 1, v, TRUE)

Stop == /\ ClientRuns
        /\ \E s \in Slots :
             /\ events[s].type # "none"
             /\ events' = [events EXCEPT ![s].type = "none"]
             /\ ended' = [ended EXCEPT !.stopped = @ \cup {events[s].id}]
        /\ UNCHANGED <<pin, millis, now, at, inCallback, armed, waited, fired>>

-----------------------------------------------------------------------------
(* Timer::update() and Event::update()                                        *)

Update == /\ at = MaxEvents
          /\ now' = millis
          /\ at' = 0
          /\ UNCHANGED <<events, pin, millis, inCallback, history>>

Elapsed(s) == (now - events[s].lastEventTime) % ClockMod

(* Slip: an event is due one tick early.                                      *)
DueEarly(s) == events[s].type # "none" /\ Elapsed(s) + 1 >= events[s].period

Due(s) == events[s].type # "none" /\ Elapsed(s) >= events[s].period

(* Slip: one firing too many.                                                 *)
RunsOutLate(e) == e.repeatCount > -1 /\ e.count > e.repeatCount

RunsOut(e) == e.repeatCount > -1 /\ e.count >= e.repeatCount

(* The end of Event::update(): the event is retired when its repeats are used *)
Retired(e) == IF RunsOut(e) THEN [e EXCEPT !.type = "none"] ELSE e

(* Slip: the slot behind an event is passed over.                             *)
LeaveTwo(s, e) ==
    /\ events' = [events EXCEPT ![s] = Retired(e)]
    /\ ended' = [ended EXCEPT !.ran =
                   IF RunsOut(e) /\ e.type # "none" THEN @ \cup {e.id} ELSE @]
    /\ at' = IF s + 2 <= MaxEvents THEN s + 2 ELSE MaxEvents

Leave(s, e) ==
    /\ events' = [events EXCEPT ![s] = Retired(e)]
    /\ ended' = [ended EXCEPT !.ran =
                   IF RunsOut(e) /\ e.type # "none" THEN @ \cup {e.id} ELSE @]
    /\ at' = s + 1

(* Slip: the time of the event advances by its period, without the wrap.      *)
AfterUnwrapped(e) == [e EXCEPT !.lastEventTime = @ + e.period, !.count = @ + 1]

After(e) == [e EXCEPT !.lastEventTime = now, !.count = @ + 1]

Skip ==
    /\ at < MaxEvents /\ ~inCallback /\ ~Due(at)
    /\ IF events[at].type = "none"
         THEN at' = at + 1 /\ UNCHANGED <<events, ended>>
         ELSE Leave(at, events[at])
    /\ UNCHANGED <<pin, millis, now, inCallback, armed, waited, fired>>

Toggle ==
    /\ at < MaxEvents /\ ~inCallback /\ Due(at)
    /\ events[at].type = "oscillate"
    /\ pin' = [pin EXCEPT ![events[at].id].level = ~@]
    /\ fired' = [fired EXCEPT ![events[at].id] = @ + 1]
    /\ waited' = [waited EXCEPT ![at] = (millis - now) % ClockMod]
    /\ Leave(at, After(events[at]))
    /\ UNCHANGED <<millis, now, inCallback, armed>>

CallBack ==
    /\ at < MaxEvents /\ ~inCallback /\ Due(at)
    /\ events[at].type = "every"
    /\ fired' = [fired EXCEPT ![events[at].id] = @ + 1]
    /\ inCallback' = TRUE
    /\ UNCHANGED <<events, pin, millis, now, at, armed, waited, ended>>

(* The callback is back: whatever is in the slot now gets the time and count  *)
CallBackReturns ==
    /\ inCallback
    /\ inCallback' = FALSE
    /\ waited' = [waited EXCEPT ![at] = (millis - now) % ClockMod]
    /\ Leave(at, After(events[at]))
    /\ UNCHANGED <<pin, millis, now, armed, fired>>

Tick == /\ at = MaxEvents \/ (SlowCallbacks /\ inCallback /\ millis = now)
        /\ \A k \in Ids : fired[k] < MaxFired
        /\ millis' = (millis + 1) % ClockMod
        /\ waited' = [s \in Slots |->
                        IF waited[s] < MaxWait THEN waited[s] + 1 ELSE MaxWait]
        /\ UNCHANGED <<events, pin, now, at, inCallback, armed, fired, ended>>

UpdateStep == Skip \/ Toggle \/ CallBack \/ CallBackReturns

Next == \/ Every \/ Oscillate \/ Pulse \/ PulseImmediate \/ Stop
        \/ Update \/ UpdateStep \/ Tick

Spec == Init /\ [][Next]_vars

-----------------------------------------------------------------------------
(* Properties                                                                 *)

(* An event fires "period after the call of this method" (Timer.cpp on        *)
(* pulse()) and a period after it fired last, never earlier.                  *)
NeverEarly ==
    [][\A k \in Ids : fired'[k] # fired[k] =>
         waited[at] >= events[at].period]_vars

(* An event that is not stopped fires as often as its repeat count asks for:  *)
(* none is retired before, none fires again.                                  *)
FiresAsOftenAsAsked ==
    /\ \A s \in Slots : events[s].type # "none" /\ ~(inCallback /\ s = at) =>
         fired[events[s].id] = events[s].count
    /\ \A s \in Slots : events[s].id \in ended.ran \ ended.stopped =>
         fired[events[s].id] = events[s].repeatCount

(* Every slot that update() finds due has been served when it returns: after  *)
(* the pass no event that was armed before it is still due at that time.      *)
NoneOverlooked ==
    [][at < MaxEvents /\ at' = MaxEvents =>
         \A s \in Slots : events'[s].type # "none" /\ events'[s].lastEventTime # now =>
            (now - events'[s].lastEventTime) % ClockMod < events'[s].period]_vars

(* pulseImmediate(): "The pin will be left in the !startingValue state"       *)
(* (Timer.cpp): the last level a pulse that ran to its end has written,       *)
(* whatever else the timer did.  Another event on the same pin may write      *)
(* after it.                                                                  *)
PulseLeavesInverted ==
    \A k \in ended.ran : pin[k].immediate => pin[k].level # pin[k].start

=============================================================================
