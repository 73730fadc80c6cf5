---------------------------- MODULE TimerProofs ----------------------------
(* The timer for any number of slots and events, any periods, and any width   *)
(* of the clock.  What each theorem asks of the callbacks is what Event.cpp   *)
(* needs: that they are short, or that they do not put another event in their *)
(* own slot.                                                                  *)
EXTENDS Timer, TLAPS

Live(s) == events[s].type # "none"

(* A callback runs within update(), and an event in use has a number.         *)
InPass == inCallback => at < MaxEvents
LiveNumbered == \A s \in Slots : Live(s) => events[s].id \in 1 .. armed

TimerTyped == TypeOK /\ InPass /\ LiveNumbered

-----------------------------------------------------------------------------
(* The operators the timer is built from                                      *)

(* Retiring an event changes its type only, and only when its repeats are     *)
(* used up.                                                                   *)
LEMMA RetiredEvent ==
  ASSUME NEW e \in Event
  PROVE  /\ Retired(e) \in Event
         /\ Retired(e).id = e.id /\ Retired(e).period = e.period
         /\ Retired(e).repeatCount = e.repeatCount
         /\ Retired(e).lastEventTime = e.lastEventTime
         /\ Retired(e).count = e.count
         /\ Retired(e).type = IF RunsOut(e) THEN "none" ELSE e.type
BY DEF Retired, Event

(* An event that fired has one firing more and the time of this pass.         *)
LEMMA AfterEvent ==
  ASSUME TypeOK, NEW e \in Event
  PROVE  /\ After(e) \in Event
         /\ After(e).id = e.id /\ After(e).period = e.period
         /\ After(e).repeatCount = e.repeatCount /\ After(e).type = e.type
         /\ After(e).lastEventTime = now /\ After(e).count = e.count + 1
<1>1. now \in 0 .. ClockMod - 1 /\ e.count + 1 \in Nat
  BY DEF TypeOK, Event
<1>2. After(e) \in Event
  BY <1>1 DEF After, Event
<1>3. /\ After(e).id = e.id /\ After(e).period = e.period
      /\ After(e).repeatCount = e.repeatCount /\ After(e).type = e.type
      /\ After(e).lastEventTime = now /\ After(e).count = e.count + 1
  BY DEF After, Event
<1> QED BY <1>2, <1>3

(* The end of Event::update() for one slot leaves the others alone.           *)
LEMMA LeaveSlot ==
  ASSUME TypeOK, NEW s \in Slots, NEW e \in Event, Leave(s, e),
         e.type # "none" => e.id \in Ids
  PROVE  /\ events' \in [Slots -> Event]
         /\ events'[s] = Retired(e)
         /\ \A r \in Slots : r # s => events'[r] = events[r]
         /\ ended' \in [ran : SUBSET Ids, stopped : SUBSET Ids]
         /\ ended'.stopped = ended.stopped
         /\ ended'.ran = IF RunsOut(e) /\ e.type # "none"
                         THEN ended.ran \cup {e.id} ELSE ended.ran
         /\ at' = s + 1
<1>1. Retired(e) \in Event
  BY RetiredEvent
<1>2. /\ events' \in [Slots -> Event]
      /\ events'[s] = Retired(e)
      /\ \A r \in Slots : r # s => events'[r] = events[r]
  BY <1>1 DEF Leave, TypeOK
<1>3. /\ ended' \in [ran : SUBSET Ids, stopped : SUBSET Ids]
      /\ ended'.stopped = ended.stopped
      /\ ended'.ran = IF RunsOut(e) /\ e.type # "none"
                      THEN ended.ran \cup {e.id} ELSE ended.ran
  BY DEF Leave, TypeOK
<1> QED BY <1>2, <1>3 DEF Leave

(* What every(), after(), oscillate(), pulse() and pulseImmediate() have in   *)
(* common: an event of one of the two types; the immediate pulse toggles once.*)
Arming(type, period, repeatCount, start, immediate) ==
    /\ Arm(type, period, repeatCount, start, immediate)
    /\ type \in {"every", "oscillate"}
    /\ period \in Periods /\ repeatCount \in Int
    /\ start \in BOOLEAN /\ immediate \in BOOLEAN
    /\ 0 \notin Repeats => repeatCount # 0
    /\ immediate => type = "oscillate" /\ repeatCount = 1

(* every(), after(), oscillate() and pulse() all arm a free slot and differ   *)
(* in what they put into it.                                                  *)
LEMMA ClientsArm ==
  ASSUME Every \/ Oscillate \/ Pulse \/ PulseImmediate
  PROVE  \E type, period, repeatCount, start, immediate :
           Arming(type, period, repeatCount, start, immediate)
<1> USE TimerAssumption
<1>1. CASE Every
  <2>1. PICK p \in Periods, n \in Repeats : Arm("every", p, n, FALSE, FALSE)
    BY <1>1 DEF Every
  <2>2. n \in Int /\ (0 \notin Repeats => n # 0)
    OBVIOUS
  <2>3. Arming("every", p, n, FALSE, FALSE)
    BY <2>1, <2>2 DEF Arming
  <2> QED BY <2>3
<1>2. CASE Oscillate
  <2>1. PICK p \in Periods, n \in Repeats, v \in Levels :
          Arm("oscillate", p, 2 * n, v, FALSE)
    BY <1>2 DEF Oscillate
  <2>2. 2 * n \in Int /\ (0 \notin Repeats => 2 * n # 0)
    OBVIOUS
  <2>3. Arming("oscillate", p, 2 * n, v, FALSE)
    BY <2>1, <2>2 DEF Arming
  <2> QED BY <2>3
<1>3. CASE Pulse
  <2>1. PICK p \in Periods, v \in Levels : Arm("oscillate", p, 2, v, FALSE)
    BY <1>3 DEF Pulse
  <2>2. 2 \in Int /\ 2 # 0
    OBVIOUS
  <2>3. Arming("oscillate", p, 2, v, FALSE)
    BY <2>1, <2>2, Zenon DEF Arming
  <2> QED BY <2>3
<1>4. CASE PulseImmediate
  <2>1. PICK p \in Periods, v \in Levels : Arm("oscillate", p, 1, v, TRUE)
    BY <1>4 DEF PulseImmediate
  <2>2. 1 \in Int /\ 1 # 0
    OBVIOUS
  <2>3. Arming("oscillate", p, 1, v, TRUE)
    BY <2>1, <2>2, Zenon DEF Arming
  <2> QED BY <2>3
<1> QED BY <1>1, <1>2, <1>3, <1>4

(* The event armed is in a slot that was free, and nothing else changes.      *)
LEMMA ArmedSlot ==
  ASSUME TypeOK, NEW t, NEW p, NEW n, NEW v, NEW i, Arming(t, p, n, v, i)
  PROVE  /\ armed \in 0 .. MaxArmed - 1 /\ armed' = armed + 1
         /\ \E s \in Slots :
              /\ events[s].type = "none"
              /\ inCallback /\ s = at => RearmSelf
              /\ events' \in [Slots -> Event]
              /\ waited' \in [Slots -> 0 .. MaxWait]
              /\ events'[s] = [type |-> t, id |-> armed', period |-> p,
                   repeatCount |-> n, lastEventTime |-> millis, count |-> 0]
              /\ waited'[s] = 0
              /\ \A r \in Slots : r # s =>
                   events'[r] = events[r] /\ waited'[r] = waited[r]
<1> USE TimerAssumption
<1>1. armed \in 0 .. MaxArmed - 1 /\ armed' = armed + 1 /\ armed' \in 0 .. MaxArmed
  BY DEF Arming, Arm, TypeOK
<1>2. PICK s \in Slots :
        /\ FreeIndex(s)
        /\ inCallback /\ s = at => RearmSelf
        /\ events' = [events EXCEPT ![s] =
             [type |-> t, id |-> armed', period |-> p, repeatCount |-> n,
              lastEventTime |-> millis, count |-> 0]]
        /\ waited' = [waited EXCEPT ![s] = 0]
  BY DEF Arming, Arm
<1>3. [type |-> t, id |-> armed', period |-> p, repeatCount |-> n,
       lastEventTime |-> millis, count |-> 0] \in Event
  BY <1>1 DEF Arming, Event, TypeOK
<1>4. 0 \in 0 .. MaxWait
  BY DEF MaxWait
<1>5. /\ events' \in [Slots -> Event]
      /\ waited' \in [Slots -> 0 .. MaxWait]
  BY <1>2, <1>3, <1>4 DEF TypeOK
<1>6. /\ events'[s] = [type |-> t, id |-> armed', period |-> p,
           repeatCount |-> n, lastEventTime |-> millis, count |-> 0]
      /\ waited'[s] = 0
      /\ \A r \in Slots : r # s =>
           events'[r] = events[r] /\ waited'[r] = waited[r]
  BY <1>2 DEF TypeOK
<1> QED BY <1>1, <1>2, <1>5, <1>6 DEF FreeIndex

-----------------------------------------------------------------------------
(* Typing                                                                     *)

PinTyped == pin \in [Ids -> [start : BOOLEAN, level : BOOLEAN, immediate : BOOLEAN]]
EventsTyped == events \in [Slots -> Event] /\ waited \in [Slots -> 0 .. MaxWait]
EndedTyped == ended \in [ran : SUBSET Ids, stopped : SUBSET Ids]
CountersTyped ==
    /\ millis \in 0 .. ClockMod - 1 /\ now \in 0 .. ClockMod - 1
    /\ at \in 0 .. MaxEvents /\ armed \in 0 .. MaxArmed
    /\ fired \in [Ids -> Nat]

(* TypeOK, in the parts the steps keep one by one.                            *)
LEMMA TimerTypeParts ==
  TypeOK <=> /\ PinTyped /\ EventsTyped /\ EndedTyped /\ CountersTyped
             /\ inCallback \in BOOLEAN
BY DEF TypeOK, PinTyped, EventsTyped, EndedTyped, CountersTyped

(* One firing more keeps the type of the counts.                              *)
LEMMA FiredType ==
  ASSUME fired \in [Ids -> Nat], NEW k, fired' = [fired EXCEPT ![k] = @ + 1]
  PROVE  fired' \in [Ids -> Nat]
<1>1. \A j \in Ids : fired[j] \in Nat /\ fired[j] + 1 \in Nat
  OBVIOUS
<1>2. \A j \in Ids : fired'[j] \in {fired[j], fired[j] + 1}
  OBVIOUS
<1>3. \A j \in Ids : fired'[j] \in Nat
  BY <1>1, <1>2
<1>4. fired' = [j \in Ids |-> fired'[j]]
  OBVIOUS
<1> QED BY <1>3, <1>4

(* A new Timer has ten free slots.                                            *)
LEMMA TimerInitTyped == ASSUME Init PROVE TimerTyped
<1> USE TimerAssumption
<1>1. /\ 0 \in 0 .. ClockMod - 1 /\ ClockMod - 1 \in 0 .. ClockMod - 1
      /\ 0 \in 0 .. MaxArmed /\ 1 \in Nat /\ -1 \in Int
      /\ 0 \in 0 .. MaxWait
  BY DEF MaxWait
<1>2. None \in Event
  BY <1>1 DEF None, Event
<1>3. EventsTyped
  BY <1>1, <1>2 DEF Init, EventsTyped
<1>4. CountersTyped
  BY <1>1 DEF Init, CountersTyped
<1>5. PinTyped /\ inCallback \in BOOLEAN
  BY Zenon DEF Init, PinTyped
<1>6. EndedTyped
  BY DEF Init, EndedTyped
<1>7. InPass
  BY DEF Init, InPass
<1>8. LiveNumbered
  BY DEF Init, LiveNumbered, Live, None
<1> QED BY <1>3, <1>4, <1>5, <1>6, <1>7, <1>8, TimerTypeParts DEF TimerTyped

(* The calls, the pass of update() and the ticks of millis() keep the types.  *)
LEMMA TimerNextTyped == ASSUME TimerTyped, [Next]_vars PROVE TimerTyped'
<1> USE TimerAssumption
<1>0. TypeOK /\ InPass /\ LiveNumbered
  BY DEF TimerTyped
<1>z. /\ PinTyped /\ EventsTyped /\ EndedTyped /\ CountersTyped
      /\ inCallback \in BOOLEAN
  BY <1>0, TimerTypeParts
<1>i. \A s \in Slots : Live(s) => events[s].id \in Ids
  BY <1>0 DEF LiveNumbered, Ids, TypeOK
<1>1. CASE Every \/ Oscillate \/ Pulse \/ PulseImmediate
  <2>1. PICK t, p, n, v, i : Arming(t, p, n, v, i)
    BY <1>1, ClientsArm
  <2>2. PICK s \in Slots :
          /\ armed \in 0 .. MaxArmed - 1 /\ armed' = armed + 1
          /\ events' \in [Slots -> Event]
          /\ waited' \in [Slots -> 0 .. MaxWait]
          /\ events'[s] = [type |-> t, id |-> armed', period |-> p,
               repeatCount |-> n, lastEventTime |-> millis, count |-> 0]
          /\ \A r \in Slots : r # s => events'[r] = events[r]
    BY <1>0, <2>1, ArmedSlot
  <2>3. EventsTyped'
    BY <2>2 DEF EventsTyped
  <2>4. PinTyped'
    <3>1. [start |-> v, level |-> v, immediate |-> i]
            \in [start : BOOLEAN, level : BOOLEAN, immediate : BOOLEAN]
      BY <2>1 DEF Arming
    <3>2. pin' = [pin EXCEPT ![armed'] = [start |-> v, level |-> v, immediate |-> i]]
      BY <2>1 DEF Arming, Arm
    <3> QED BY <1>z, <3>1, <3>2 DEF PinTyped
  <2>5. UNCHANGED <<millis, now, at, inCallback, fired, ended>>
    BY <2>1 DEF Arming, Arm
  <2>6. CountersTyped' /\ EndedTyped' /\ inCallback' \in BOOLEAN /\ InPass'
    BY <1>0, <1>z, <2>2, <2>5 DEF CountersTyped, EndedTyped, InPass
  <2>7. LiveNumbered'
    BY <1>0, <2>2 DEF LiveNumbered, Live, TypeOK
  <2> QED BY <2>3, <2>4, <2>6, <2>7, TimerTypeParts DEF TimerTyped, TypeOK,
             PinTyped, EventsTyped, EndedTyped, CountersTyped
<1>2. CASE Stop
  <2>1. PICK s \in Slots :
          /\ events[s].type # "none"
          /\ events' = [events EXCEPT ![s].type = "none"]
          /\ ended' = [ended EXCEPT !.stopped = @ \cup {events[s].id}]
    BY <1>2 DEF Stop
  <2>2. UNCHANGED <<pin, millis, now, at, inCallback, armed, waited, fired>>
    BY <1>2 DEF Stop
  <2>3. events[s].id \in Ids
    BY <1>i, <2>1 DEF Live
  <2>4. EndedTyped'
    BY <1>z, <2>1, <2>3 DEF EndedTyped
  <2>5. EventsTyped'
    <3>1. [events[s] EXCEPT !.type = "none"] \in Event
      BY <1>z DEF EventsTyped, Event
    <3> QED BY <1>z, <2>1, <2>2, <3>1 DEF EventsTyped
  <2>6. LiveNumbered'
    BY <1>0, <2>1, <2>2 DEF LiveNumbered, Live, TypeOK, Event
  <2>7. PinTyped' /\ CountersTyped' /\ inCallback' \in BOOLEAN /\ InPass'
    BY <1>0, <1>z, <2>2 DEF PinTyped, CountersTyped, InPass
  <2> QED BY <2>4, <2>5, <2>6, <2>7 DEF TimerTyped, TypeOK,
             PinTyped, EventsTyped, EndedTyped, CountersTyped
<1>3. CASE Update
  <2>1. CountersTyped'
    BY <1>3, <1>z DEF Update, history, CountersTyped
  <2>2. UNCHANGED <<events, pin, waited, ended, armed, inCallback>>
    BY <1>3 DEF Update, history
  <2>3. PinTyped' /\ EventsTyped' /\ EndedTyped' /\ inCallback' \in BOOLEAN
    BY <1>z, <2>2 DEF PinTyped, EventsTyped, EndedTyped
  <2>4. InPass'
    BY <1>0, <1>3 DEF Update, InPass
  <2>5. LiveNumbered'
    BY <1>0, <2>2 DEF LiveNumbered, Live
  <2> QED BY <2>1, <2>3, <2>4, <2>5 DEF TimerTyped, TypeOK,
             PinTyped, EventsTyped, EndedTyped, CountersTyped
<1>4. CASE Skip
  <2>1. /\ at \in Slots /\ events[at] \in Event
        /\ UNCHANGED <<pin, millis, now, inCallback, armed, waited, fired>>
    BY <1>4, <1>z DEF Skip, CountersTyped, EventsTyped, Slots
  <2>2. CASE events[at].type = "none" /\ at' = at + 1 /\ UNCHANGED <<events, ended>>
    <3>1. CountersTyped'
      BY <1>4, <2>1, <2>2, <1>z DEF Skip, CountersTyped
    <3>2. PinTyped' /\ EventsTyped' /\ EndedTyped' /\ inCallback' \in BOOLEAN
      BY <1>z, <2>1, <2>2 DEF PinTyped, EventsTyped, EndedTyped
    <3>3. InPass' /\ LiveNumbered'
      BY <1>0, <1>4, <2>1, <2>2 DEF Skip, InPass, LiveNumbered, Live
    <3> QED BY <3>1, <3>2, <3>3 DEF TimerTyped, TypeOK,
               PinTyped, EventsTyped, EndedTyped, CountersTyped
  <2>3. CASE Leave(at, events[at])
    <3>1. /\ events' \in [Slots -> Event]
          /\ events'[at] = Retired(events[at])
          /\ \A r \in Slots : r # at => events'[r] = events[r]
          /\ ended' \in [ran : SUBSET Ids, stopped : SUBSET Ids]
          /\ at' = at + 1
      BY <1>0, <1>i, <2>1, <2>3, LeaveSlot DEF Live
    <3>2. CountersTyped'
      BY <1>4, <2>1, <3>1, <1>z DEF Skip, CountersTyped
    <3>3. PinTyped' /\ EventsTyped' /\ EndedTyped' /\ inCallback' \in BOOLEAN
      BY <1>z, <2>1, <3>1 DEF PinTyped, EventsTyped, EndedTyped
    <3>4. InPass'
      BY <1>4, <2>1, <3>1 DEF Skip, InPass
    <3>5. Retired(events[at]).type # "none" => events[at].type # "none"
      BY <2>1, RetiredEvent
    <3>6. LiveNumbered'
      BY <1>0, <2>1, <3>1, <3>5, RetiredEvent DEF LiveNumbered, Live
    <3> QED BY <3>2, <3>3, <3>4, <3>6 DEF TimerTyped, TypeOK,
               PinTyped, EventsTyped, EndedTyped, CountersTyped
  <2> QED BY <1>4, <2>2, <2>3 DEF Skip
<1>5. CASE Toggle \/ CallBackReturns
  <2>1. /\ at \in Slots /\ events[at] \in Event
        /\ UNCHANGED <<millis, now, armed>>
    BY <1>0, <1>5, <1>z DEF Toggle, CallBackReturns, CountersTyped, EventsTyped,
       Slots, InPass
  <2>2. /\ After(events[at]) \in Event
        /\ After(events[at]).id = events[at].id
        /\ After(events[at]).type = events[at].type
    BY <1>0, <2>1, AfterEvent
  <2>3. /\ events' \in [Slots -> Event]
        /\ events'[at] = Retired(After(events[at]))
        /\ \A r \in Slots : r # at => events'[r] = events[r]
        /\ ended' \in [ran : SUBSET Ids, stopped : SUBSET Ids]
        /\ at' = at + 1
    <3>1. Leave(at, After(events[at]))
      BY <1>5 DEF Toggle, CallBackReturns
    <3>2. After(events[at]).type # "none" => After(events[at]).id \in Ids
      BY <1>i, <2>1, <2>2 DEF Live
    <3> QED BY <1>0, <2>1, <2>2, <3>1, <3>2, LeaveSlot
  <2>4. EventsTyped' /\ EndedTyped'
    <3>1. waited' = [waited EXCEPT ![at] = (millis - now) % ClockMod]
      BY <1>5 DEF Toggle, CallBackReturns
    <3>2. (millis - now) % ClockMod \in 0 .. MaxWait
      BY <1>z DEF CountersTyped, MaxWait
    <3> QED BY <1>z, <2>1, <2>3, <3>1, <3>2 DEF EventsTyped, EndedTyped
  <2>5. fired' \in [Ids -> Nat]
    <3>1. CASE Toggle
      BY <1>z, <3>1, FiredType DEF Toggle, CountersTyped
    <3>2. CASE CallBackReturns
      BY <1>z, <3>2 DEF CallBackReturns, CountersTyped
    <3> QED BY <1>5, <3>1, <3>2
  <2>6. CountersTyped'
    BY <1>z, <2>1, <2>3, <2>5 DEF CountersTyped, Slots
  <2>7. PinTyped'
    <3>1. CASE Toggle
      <4>1. pin' = [pin EXCEPT ![events[at].id].level = ~@]
        BY <3>1 DEF Toggle
      <4>2. ASSUME NEW k \in Ids
            PROVE  [pin[k] EXCEPT !.level = ~@]
                     \in [start : BOOLEAN, level : BOOLEAN, immediate : BOOLEAN]
        BY <1>z DEF PinTyped
      <4> QED BY <1>z, <4>1, <4>2 DEF PinTyped
    <3>2. CASE CallBackReturns
      BY <1>z, <3>2 DEF CallBackReturns, PinTyped
    <3> QED BY <1>5, <3>1, <3>2
  <2>8. inCallback' \in BOOLEAN /\ InPass'
    <3>1. inCallback' = FALSE
      BY <1>5, <1>z, Zenon DEF Toggle, CallBackReturns
    <3> QED BY <3>1 DEF InPass
  <2>9. LiveNumbered'
    <3>1. events'[at].type # "none" => events[at].type # "none"
      BY <2>2, <2>3, RetiredEvent
    <3>2. events'[at].id = events[at].id
      BY <2>2, <2>3, RetiredEvent
    <3> QED BY <1>0, <2>1, <2>3, <3>1, <3>2 DEF LiveNumbered, Live
  <2> QED BY <2>4, <2>6, <2>7, <2>8, <2>9 DEF TimerTyped, TypeOK,
             PinTyped, EventsTyped, EndedTyped, CountersTyped
<1>6. CASE CallBack
  <2>1. /\ UNCHANGED <<events, pin, millis, now, at, armed, waited, ended>>
        /\ at < MaxEvents
    BY <1>6 DEF CallBack
  <2>2. fired' \in [Ids -> Nat]
    BY <1>6, <1>z, FiredType DEF CallBack, CountersTyped
  <2>3. PinTyped' /\ EventsTyped' /\ EndedTyped' /\ LiveNumbered' /\ InPass'
    BY <1>0, <1>z, <2>1 DEF PinTyped, EventsTyped, EndedTyped, LiveNumbered, Live,
       InPass
  <2>4. CountersTyped'
    BY <1>z, <2>1, <2>2 DEF CountersTyped
  <2>5. inCallback' \in BOOLEAN
    BY <1>6, Zenon DEF CallBack
  <2> QED BY <2>3, <2>4, <2>5 DEF TimerTyped, TypeOK,
             PinTyped, EventsTyped, EndedTyped, CountersTyped
<1>7. CASE Tick
  <2>1. UNCHANGED <<events, pin, now, at, inCallback, armed, fired, ended>>
    BY <1>7 DEF Tick
  <2>2. millis' \in 0 .. ClockMod - 1
    BY <1>7, <1>z DEF Tick, CountersTyped
  <2>3. EventsTyped'
    BY <1>7, <1>z DEF Tick, EventsTyped, MaxWait
  <2>4. CountersTyped'
    BY <1>z, <2>1, <2>2 DEF CountersTyped
  <2>5. PinTyped' /\ EndedTyped' /\ LiveNumbered' /\ InPass' /\ inCallback' \in BOOLEAN
    BY <1>0, <1>z, <2>1 DEF PinTyped, EndedTyped, LiveNumbered, Live, InPass
  <2> QED BY <2>3, <2>4, <2>5 DEF TimerTyped, TypeOK,
             PinTyped, EventsTyped, EndedTyped, CountersTyped
<1>8. CASE UNCHANGED vars
  BY <1>0, <1>8 DEF vars, TimerTyped, TypeOK, InPass, LiveNumbered, Live
<1> QED BY <1>1, <1>2, <1>3, <1>4, <1>5, <1>6, <1>7, <1>8 DEF Next, UpdateStep

(* The timer keeps its types for every client and every callback: no slot     *)
(* outside the table is walked, and the times stay those of the clock.        *)
THEOREM TimerTypeCorrect == Spec => []TypeOK
<1>1. Init => TimerTyped
  BY TimerInitTyped
<1>2. TimerTyped /\ [Next]_vars => TimerTyped'
  BY TimerNextTyped
<1>3. TimerTyped => TypeOK
  BY DEF TimerTyped
<1> QED BY <1>1, <1>2, <1>3, PTL DEF Spec

-----------------------------------------------------------------------------
(* What a step of update() does to the slots                                  *)

(* A slot that is not due is passed; its event may be retired.                *)
LEMMA SkippedSlot ==
  ASSUME TimerTyped, Skip
  PROVE  /\ at \in Slots /\ events[at] \in Event /\ at' = at + 1
         /\ \A r \in Slots : r # at => events'[r] = events[r]
         /\ events'[at].id = events[at].id
         /\ events'[at].period = events[at].period
         /\ events'[at].repeatCount = events[at].repeatCount
         /\ events'[at].lastEventTime = events[at].lastEventTime
         /\ events'[at].count = events[at].count
         /\ events'[at].type = IF RunsOut(events[at]) THEN "none" ELSE events[at].type
         /\ ended'.stopped = ended.stopped
         /\ ended'.ran = IF RunsOut(events[at]) /\ Live(at)
                         THEN ended.ran \cup {events[at].id} ELSE ended.ran
<1>0. TypeOK /\ LiveNumbered
  BY DEF TimerTyped
<1>1. at \in Slots /\ events[at] \in Event
  BY <1>0, TimerAssumption DEF Skip, TypeOK, Slots
<1>2. Live(at) => events[at].id \in Ids
  BY <1>0, <1>1, TimerAssumption DEF LiveNumbered, Ids, TypeOK
<1>3. CASE events[at].type = "none" /\ at' = at + 1 /\ UNCHANGED <<events, ended>>
  BY <1>1, <1>3 DEF Live
<1>4. CASE Leave(at, events[at])
  <2>1. /\ events'[at] = Retired(events[at])
        /\ \A r \in Slots : r # at => events'[r] = events[r]
        /\ ended'.stopped = ended.stopped
        /\ ended'.ran = IF RunsOut(events[at]) /\ events[at].type # "none"
                        THEN ended.ran \cup {events[at].id} ELSE ended.ran
        /\ at' = at + 1
    BY <1>0, <1>1, <1>2, <1>4, LeaveSlot DEF Live
  <2> QED BY <1>1, <2>1, RetiredEvent DEF Live
<1> QED BY <1>3, <1>4 DEF Skip

(* A slot whose event fired gets the time of the pass and one firing more,    *)
(* and is retired when that was the last one.                                 *)
LEMMA FiredSlot ==
  ASSUME TimerTyped, Toggle \/ CallBackReturns
  PROVE  /\ at \in Slots /\ events[at] \in Event /\ at' = at + 1
         /\ \A r \in Slots : r # at =>
              events'[r] = events[r] /\ waited'[r] = waited[r]
         /\ events'[at].id = events[at].id
         /\ events'[at].period = events[at].period
         /\ events'[at].repeatCount = events[at].repeatCount
         /\ events'[at].lastEventTime = now
         /\ events'[at].count = events[at].count + 1
         /\ events'[at].type = IF RunsOut(After(events[at])) THEN "none"
                               ELSE events[at].type
         /\ RunsOut(After(events[at])) <=>
              /\ events[at].repeatCount > -1
              /\ events[at].count + 1 >= events[at].repeatCount
         /\ ended'.stopped = ended.stopped
         /\ ended'.ran = IF RunsOut(After(events[at])) /\ Live(at)
                         THEN ended.ran \cup {events[at].id} ELSE ended.ran
         /\ waited'[at] = (millis - now) % ClockMod
<1>0. TypeOK /\ LiveNumbered
  BY DEF TimerTyped
<1>1. at \in Slots /\ events[at] \in Event
  BY <1>0, TimerAssumption DEF Toggle, CallBackReturns, TypeOK, Slots, TimerTyped,
     InPass
<1>2. Live(at) => events[at].id \in Ids
  BY <1>0, <1>1, TimerAssumption DEF LiveNumbered, Ids, TypeOK
<1>3. /\ Leave(at, After(events[at]))
      /\ waited' = [waited EXCEPT ![at] = (millis - now) % ClockMod]
  BY DEF Toggle, CallBackReturns
<1>4. /\ After(events[at]) \in Event
      /\ After(events[at]).id = events[at].id
      /\ After(events[at]).period = events[at].period
      /\ After(events[at]).repeatCount = events[at].repeatCount
      /\ After(events[at]).type = events[at].type
      /\ After(events[at]).lastEventTime = now
      /\ After(events[at]).count = events[at].count + 1
  BY <1>0, <1>1, AfterEvent
<1>5. After(events[at]).type # "none" => After(events[at]).id \in Ids
  BY <1>2, <1>4 DEF Live
<1>6. /\ events'[at] = Retired(After(events[at]))
      /\ \A r \in Slots : r # at => events'[r] = events[r]
      /\ ended'.stopped = ended.stopped
      /\ ended'.ran = IF RunsOut(After(events[at])) /\ After(events[at]).type # "none"
                      THEN ended.ran \cup {After(events[at]).id} ELSE ended.ran
      /\ at' = at + 1
  BY <1>0, <1>1, <1>3, <1>4, <1>5, LeaveSlot
<1>7. /\ waited'[at] = (millis - now) % ClockMod
      /\ \A r \in Slots : r # at => waited'[r] = waited[r]
  BY <1>0, <1>1, <1>3 DEF TypeOK
<1>8. /\ events'[at].id = events[at].id
      /\ events'[at].period = events[at].period
      /\ events'[at].repeatCount = events[at].repeatCount
      /\ events'[at].lastEventTime = now
      /\ events'[at].count = events[at].count + 1
      /\ events'[at].type = IF RunsOut(After(events[at])) THEN "none"
                            ELSE events[at].type
  BY <1>4, <1>6, RetiredEvent
<1>9. RunsOut(After(events[at])) <=>
              /\ events[at].repeatCount > -1
              /\ events[at].count + 1 >= events[at].repeatCount
  BY <1>4 DEF RunsOut
<1> QED BY <1>1, <1>4, <1>6, <1>7, <1>8, <1>9 DEF Live

(* stop() frees one slot, whose event counts as stopped, and leaves the rest. *)
LEMMA StoppedSlot ==
  ASSUME TimerTyped, Stop
  PROVE  \E s \in Slots :
           /\ Live(s) /\ events'[s].type = "none"
           /\ \A r \in Slots :
                /\ events'[r].id = events[r].id
                /\ events'[r].period = events[r].period
                /\ events'[r].repeatCount = events[r].repeatCount
                /\ events'[r].lastEventTime = events[r].lastEventTime
                /\ events'[r].count = events[r].count
                /\ r # s => events'[r].type = events[r].type
           /\ ended'.ran = ended.ran
           /\ ended'.stopped = ended.stopped \cup {events[s].id}
           /\ UNCHANGED <<pin, millis, now, at, inCallback, armed, waited, fired>>
<1>1. PICK s \in Slots :
        /\ events[s].type # "none"
        /\ events' = [events EXCEPT ![s].type = "none"]
        /\ ended' = [ended EXCEPT !.stopped = @ \cup {events[s].id}]
  BY DEF Stop
<1>2. \A r \in Slots : events[r] \in Event
  BY DEF TimerTyped, TypeOK
<1>3. \A r \in Slots :
        /\ events'[r].id = events[r].id
        /\ events'[r].period = events[r].period
        /\ events'[r].repeatCount = events[r].repeatCount
        /\ events'[r].lastEventTime = events[r].lastEventTime
        /\ events'[r].count = events[r].count
        /\ r # s => events'[r].type = events[r].type
  BY <1>1, <1>2 DEF TimerTyped, TypeOK, Event
<1>4. events'[s].type = "none"
  BY <1>1, <1>2 DEF TimerTyped, TypeOK, Event
<1>5. ended'.ran = ended.ran /\ ended'.stopped = ended.stopped \cup {events[s].id}
  BY <1>1 DEF TimerTyped, TypeOK
<1> QED BY <1>1, <1>3, <1>4, <1>5 DEF Live, Stop

-----------------------------------------------------------------------------
(* Callbacks that end before the clock moves                                  *)

(* update() works with the time of the clock.                                 *)
ClockStands == at < MaxEvents => now = millis

(* An event in use waits at least as long as the clock, which may have gone   *)
(* round, says it does.                                                       *)
WaitCounted ==
    \A s \in Slots : Live(s) =>
      waited[s] >= (millis - events[s].lastEventTime) % ClockMod

(* The slots that update() has behind it fired in this pass or are not due.   *)
Served ==
    at < MaxEvents =>
      \A s \in Slots : s < at /\ Live(s) /\ events[s].lastEventTime # now =>
        (now - events[s].lastEventTime) % ClockMod < events[s].period

ClockInv == TimerTyped /\ ClockStands /\ WaitCounted /\ Served

(* A tick makes the elapsed time one more or lets it go round.                *)
LEMMA TickElapsed ==
  ASSUME NEW m \in 0 .. ClockMod - 1, NEW l \in 0 .. ClockMod - 1
  PROVE  /\ (((m + 1) % ClockMod) - l) % ClockMod <= ((m - l) % ClockMod) + 1
         /\ (((m + 1) % ClockMod) - l) % ClockMod <= ClockMod - 1
         /\ (((m + 1) % ClockMod) - l) % ClockMod \in Nat
         /\ (m - l) % ClockMod \in Nat
BY TimerAssumption

(* No time has gone by since now, on a clock that wraps around too.           *)
LEMMA NoneElapsed ==
  ASSUME NEW m \in 0 .. ClockMod - 1 PROVE (m - m) % ClockMod = 0
BY TimerAssumption

(* No event is armed, so none is due.                                         *)
LEMMA ClockInitInv == ASSUME Init PROVE ClockInv
<1>1. TimerTyped
  BY TimerInitTyped
<1>2. ClockStands /\ Served
  BY TimerAssumption DEF Init, ClockStands, Served
<1>3. WaitCounted
  BY DEF Init, WaitCounted, Live, None
<1> QED BY <1>1, <1>2, <1>3 DEF ClockInv

(* As long as a pass of update() is over before the clock has gone half       *)
(* around, no elapsed time is mistaken for another.                           *)
LEMMA ClockNextInv == ASSUME ~SlowCallbacks, ClockInv, [Next]_vars PROVE ClockInv'
<1> USE TimerAssumption
<1>0. TimerTyped /\ TypeOK /\ InPass /\ ClockStands /\ WaitCounted /\ Served
  BY DEF ClockInv, TimerTyped
<1>t. TimerTyped'
  BY <1>0, TimerNextTyped
<1>1. CASE Every \/ Oscillate \/ Pulse \/ PulseImmediate
  <2>1. PICK t, p, n, v, i : Arming(t, p, n, v, i)
    BY <1>1, ClientsArm
  <2>2. PICK s \in Slots :
          /\ events'[s] = [type |-> t, id |-> armed', period |-> p,
               repeatCount |-> n, lastEventTime |-> millis, count |-> 0]
          /\ waited'[s] = 0
          /\ \A r \in Slots : r # s =>
               events'[r] = events[r] /\ waited'[r] = waited[r]
    BY <1>0, <2>1, ArmedSlot
  <2>3. UNCHANGED <<millis, now, at, inCallback>>
    BY <2>1 DEF Arming, Arm
  <2>4. events'[s].lastEventTime = millis /\ (millis - millis) % ClockMod = 0
    BY <1>0, <2>2, NoneElapsed DEF TypeOK
  <2>5. WaitCounted'
    BY <1>0, <2>2, <2>3, <2>4 DEF WaitCounted, Live
  <2>6. ClockStands'
    BY <1>0, <2>3 DEF ClockStands
  <2>7. Served'
    BY <1>0, <2>2, <2>3, <2>4 DEF Served, ClockStands, Live
  <2> QED BY <1>t, <2>5, <2>6, <2>7 DEF ClockInv
<1>2. CASE Stop
  <2>1. PICK s \in Slots :
           /\ Live(s) /\ events'[s].type = "none"
           /\ \A r \in Slots :
                /\ events'[r].period = events[r].period
                /\ events'[r].lastEventTime = events[r].lastEventTime
                /\ r # s => events'[r].type = events[r].type
           /\ UNCHANGED <<millis, now, at, waited>>
    BY <1>0, <1>2, StoppedSlot
  <2> QED BY <1>0, <1>t, <2>1 DEF ClockInv, ClockStands, WaitCounted, Served, Live
<1>3. CASE Update
  BY <1>0, <1>3, <1>t DEF Update, history, TypeOK, ClockInv, ClockStands, WaitCounted,
     Served, Live, Slots
<1>4. CASE Skip
  <2>1. UNCHANGED <<millis, now, waited>> /\ at < MaxEvents /\ ~Due(at)
    BY <1>4 DEF Skip
  <2>2. /\ at \in Slots /\ events[at] \in Event /\ at' = at + 1
        /\ \A r \in Slots : r # at => events'[r] = events[r]
        /\ events'[at].period = events[at].period
        /\ events'[at].lastEventTime = events[at].lastEventTime
        /\ events'[at].type # "none" => events[at].type # "none"
    BY <1>0, <1>4, SkippedSlot
  <2>3. WaitCounted' /\ ClockStands'
    BY <1>0, <2>1, <2>2 DEF WaitCounted, ClockStands, Live
  <2>4. events'[at].type # "none" => Elapsed(at) < events[at].period
    <3>1. Elapsed(at) \in Int /\ events[at].period \in Int
      BY <1>0, <2>2 DEF Elapsed, TypeOK, Event
    <3> QED BY <2>1, <2>2, <3>1 DEF Due
  <2>5. Served'
    BY <1>0, <2>1, <2>2, <2>4 DEF Served, Elapsed, Live, Slots
  <2> QED BY <1>t, <2>3, <2>5 DEF ClockInv
<1>5. CASE Toggle \/ CallBackReturns
  <2>1. UNCHANGED <<millis, now>> /\ at < MaxEvents
    BY <1>0, <1>5 DEF Toggle, CallBackReturns, InPass
  <2>2. /\ at \in Slots /\ at' = at + 1
        /\ \A r \in Slots : r # at =>
             events'[r] = events[r] /\ waited'[r] = waited[r]
        /\ events'[at].lastEventTime = now
        /\ waited'[at] = (millis - now) % ClockMod
    BY <1>0, <1>5, FiredSlot
  <2>3. waited'[at] >= (millis' - events'[at].lastEventTime) % ClockMod
    BY <1>0, <2>1, <2>2, NoneElapsed DEF ClockStands, TypeOK
  <2>4. WaitCounted' /\ ClockStands'
    BY <1>0, <2>1, <2>2, <2>3 DEF WaitCounted, ClockStands, Live
  <2>5. Served'
    BY <1>0, <2>1, <2>2 DEF Served, Live, Slots
  <2> QED BY <1>t, <2>4, <2>5 DEF ClockInv
<1>6. CASE CallBack
  BY <1>0, <1>6, <1>t DEF CallBack, ClockInv, ClockStands, WaitCounted, Served, Live
<1>7. CASE Tick
  <2>1. /\ at = MaxEvents /\ UNCHANGED <<events, now, at>>
        /\ millis' = (millis + 1) % ClockMod
        /\ \A s \in Slots : waited'[s] =
             IF waited[s] < MaxWait THEN waited[s] + 1 ELSE MaxWait
    BY <1>7 DEF Tick
  <2>2. WaitCounted'
    <3> SUFFICES ASSUME NEW s \in Slots, Live(s)
                 PROVE  waited'[s] >= (millis' - events[s].lastEventTime) % ClockMod
      BY <2>1 DEF WaitCounted, Live
    <3>1. waited[s] >= (millis - events[s].lastEventTime) % ClockMod
      BY <1>0 DEF WaitCounted
    <3>2. events[s].lastEventTime \in 0 .. ClockMod - 1 /\ millis \in 0 .. ClockMod - 1
          /\ waited[s] \in 0 .. MaxWait
      BY <1>0 DEF TypeOK, Event
    <3> DEFINE l == events[s].lastEventTime
    <3> HIDE DEF l
    <3>3. /\ (((millis + 1) % ClockMod) - l) % ClockMod <= ((millis - l) % ClockMod) + 1
          /\ (((millis + 1) % ClockMod) - l) % ClockMod <= ClockMod - 1
          /\ (((millis + 1) % ClockMod) - l) % ClockMod \in Nat
          /\ (millis - l) % ClockMod \in Nat
      BY <3>2, TickElapsed DEF l
    <3> QED BY <2>1, <3>1, <3>2, <3>3 DEF MaxWait, l
  <2>3. ClockStands' /\ Served'
    BY <2>1 DEF ClockStands, Served
  <2> QED BY <1>t, <2>2, <2>3 DEF ClockInv
<1>8. CASE UNCHANGED vars
  BY <1>0, <1>t, <1>8 DEF vars, ClockInv, ClockStands, WaitCounted, Served, Live
<1> QED BY <1>1, <1>2, <1>3, <1>4, <1>5, <1>6, <1>7, <1>8 DEF Next, UpdateStep

(* With short callbacks Spec keeps the invariant of the clock.                *)
LEMMA ClockInvariant == ~SlowCallbacks => (Spec => []ClockInv)
<1> SUFFICES ASSUME ~SlowCallbacks PROVE Spec => []ClockInv
  OBVIOUS
<1>1. Init => ClockInv
  BY ClockInitInv
<1>2. ClockInv /\ [Next]_vars => ClockInv'
  BY ClockNextInv
<1> QED BY <1>1, <1>2, PTL DEF Spec

(* Event::update() compares unsigned differences: when callbacks end within a *)
(* tick no event fires before its period has passed, through every wrap of    *)
(* millis() and whatever the callbacks arm and stop.                          *)
THEOREM TimerNeverEarly == ~SlowCallbacks => (Spec => NeverEarly)
<1> SUFFICES ASSUME ~SlowCallbacks PROVE Spec => NeverEarly
  OBVIOUS
<1> DEFINE Fires == \A k \in Ids : fired'[k] # fired[k] =>
                      waited[at] >= events[at].period
<1>1. ClockInv /\ [Next]_vars => [Fires]_vars
  <2> SUFFICES ASSUME ClockInv, Next PROVE Fires
    BY DEF Fires
  <2>1. ASSUME Due(at), at < MaxEvents PROVE Fires
    <3>1. TypeOK /\ WaitCounted /\ now = millis /\ at \in Slots
      BY <2>1, TimerAssumption DEF ClockInv, TimerTyped, ClockStands, TypeOK, Slots
    <3>2. waited[at] >= Elapsed(at) /\ Elapsed(at) >= events[at].period
      BY <2>1, <3>1 DEF WaitCounted, Live, Elapsed, Due
    <3>3. /\ waited[at] \in Int /\ Elapsed(at) \in Int /\ events[at].period \in Int
      BY <3>1, TimerAssumption DEF TypeOK, Event, Elapsed, MaxWait
    <3> QED BY <3>2, <3>3
  <2>2. CASE UNCHANGED fired
    BY <2>2
  <2>3. CASE Toggle \/ CallBack
    BY <2>1, <2>3 DEF Toggle, CallBack
  <2>4. CASE Every \/ Oscillate \/ Pulse \/ PulseImmediate
    BY <2>2, <2>4 DEF Every, Oscillate, Pulse, PulseImmediate, Arm
  <2>5. CASE Stop \/ Update \/ Skip \/ CallBackReturns \/ Tick
    BY <2>2, <2>5 DEF Stop, Update, Skip, CallBackReturns, Tick, history
  <2> QED BY <2>3, <2>4, <2>5 DEF Next, UpdateStep
<1> QED BY <1>1, ClockInvariant, PTL DEF Spec, NeverEarly

(* ... and no pass of Timer::update() leaves an event behind that was due     *)
(* when the pass began.                                                       *)
THEOREM TimerOverlooksNone == ~SlowCallbacks => (Spec => NoneOverlooked)
<1> SUFFICES ASSUME ~SlowCallbacks PROVE Spec => NoneOverlooked
  OBVIOUS
<1> DEFINE Kept(s) == events'[s].type # "none" /\ events'[s].lastEventTime # now =>
                        (now - events'[s].lastEventTime) % ClockMod < events'[s].period
           Ends == at < MaxEvents /\ at' = MaxEvents => \A s \in Slots : Kept(s)
<1>1. ClockInv /\ [Next]_vars => [Ends]_vars
  <2> SUFFICES ASSUME ClockInv, Next, at < MaxEvents, at' = MaxEvents
               PROVE  \A s \in Slots : Kept(s)
    BY DEF Ends
  <2>1. TimerTyped /\ TypeOK /\ Served
    BY DEF ClockInv, TimerTyped
  <2>2. CASE Skip
    <3>1. /\ at \in Slots /\ events[at] \in Event /\ at' = at + 1
          /\ \A r \in Slots : r # at => events'[r] = events[r]
          /\ events'[at].period = events[at].period
          /\ events'[at].lastEventTime = events[at].lastEventTime
          /\ events'[at].type # "none" => events[at].type # "none"
      BY <2>1, <2>2, SkippedSlot
    <3>2. Kept(at)
      <4>1. Elapsed(at) \in Int /\ events[at].period \in Int
        BY <2>1, <3>1, TimerAssumption DEF Elapsed, TypeOK, Event
      <4> QED BY <2>2, <3>1, <4>1 DEF Skip, Due, Elapsed
    <3>3. \A r \in Slots : r # at => Kept(r)
      BY <2>1, <3>1, TimerAssumption DEF Served, Live, Slots
    <3> QED BY <3>2, <3>3
  <2>3. CASE Toggle \/ CallBackReturns
    <3>1. /\ at \in Slots /\ at' = at + 1
          /\ \A r \in Slots : r # at => events'[r] = events[r]
          /\ events'[at].lastEventTime = now
      BY <2>1, <2>3, FiredSlot
    <3>2. \A r \in Slots : r # at => Kept(r)
      BY <2>1, <3>1, TimerAssumption DEF Served, Live, Slots
    <3> QED BY <3>1, <3>2
  <2>4. at' # at
    BY <2>1, TimerAssumption DEF TypeOK
  <2>5. ~Update
    BY <2>1, TimerAssumption DEF TypeOK, Update
  <2>6. ~(Every \/ Oscillate \/ Pulse \/ PulseImmediate)
    BY <2>4 DEF Every, Oscillate, Pulse, PulseImmediate, Arm
  <2>7. ~(Stop \/ CallBack \/ Tick)
    BY <2>4 DEF Stop, CallBack, Tick
  <2> QED BY <2>2, <2>3, <2>5, <2>6, <2>7 DEF Next, UpdateStep
<1> QED BY <1>1, ClockInvariant, PTL DEF Spec, NoneOverlooked

-----------------------------------------------------------------------------
(* Callbacks that put no other event in their own slot                        *)

(* No two slots hold the same event, no event in use has ended, and those not *)
(* armed yet have not fired.                                                  *)
Distinct ==
    /\ \A s \in Slots : events[s].id <= armed
    /\ \A s, r \in Slots : s # r /\ events[s].id = events[r].id => events[s].id = 0
    /\ \A k \in Ids : k > armed => fired[k] = 0
    /\ ended.ran \subseteq 1 .. armed /\ ended.stopped \subseteq 1 .. armed
    /\ \A s \in Slots : Live(s) => events[s].id \notin ended.ran \cup ended.stopped

(* The slot whose callback is running: its event is of type EVENT_EVERY and   *)
(* has fired once more than it counts, or the callback has stopped it.        *)
CallingBack ==
    inCallback =>
      /\ events[at].type # "oscillate"
      /\ Live(at) => fired[events[at].id] = events[at].count + 1
      /\ ~Live(at) => events[at].id \in ended.stopped

(* An event that is still in use has firings left.                            *)
FiringsLeft ==
    \A s \in Slots : Live(s) /\ events[s].repeatCount > -1 =>
      events[s].count < events[s].repeatCount

(* An immediate pulse in use has not toggled its pin.                         *)
PulsesWait ==
    \A s \in Slots : Live(s) /\ pin[events[s].id].immediate =>
      /\ events[s].type = "oscillate"
      /\ events[s].repeatCount = 1 /\ events[s].count = 0
      /\ pin[events[s].id].level = pin[events[s].id].start

DistinctInv == TimerTyped /\ Distinct

(* A firing counts for the event in the slot and for no other.                *)
LEMMA FiredCount ==
  ASSUME TimerTyped, Toggle \/ CallBack
  PROVE  /\ at \in Slots /\ events[at].id \in 1 .. armed /\ events[at].id \in Ids
         /\ fired' \in [Ids -> Nat]
         /\ fired'[events[at].id] = fired[events[at].id] + 1
         /\ \A k \in Ids : k # events[at].id => fired'[k] = fired[k]
<1>1. TypeOK /\ LiveNumbered
  BY DEF TimerTyped
<1>2. at \in Slots /\ Live(at)
  BY <1>1, TimerAssumption DEF Toggle, CallBack, Due, Live, TypeOK, Slots
<1>3. events[at].id \in 1 .. armed /\ events[at].id \in Ids
  BY <1>1, <1>2, TimerAssumption DEF LiveNumbered, TypeOK, Ids
<1>4. fired' = [fired EXCEPT ![events[at].id] = @ + 1]
  BY DEF Toggle, CallBack
<1>5. fired' \in [Ids -> Nat]
  BY <1>1, <1>4, FiredType DEF TypeOK
<1> QED BY <1>1, <1>2, <1>3, <1>4, <1>5 DEF TypeOK

(* No slot has an id yet.                                                     *)
LEMMA DistinctInitInv == ASSUME Init PROVE DistinctInv
<1>1. Distinct
  BY TimerAssumption DEF Init, Distinct, Live, None
<1> QED BY <1>1, TimerInitTyped DEF DistinctInv

(* An id is given to one slot only, and goes when the slot is freed.          *)
LEMMA DistinctNextInv == ASSUME DistinctInv, [Next]_vars PROVE DistinctInv'
<1> USE TimerAssumption
<1>0. TimerTyped /\ TypeOK /\ InPass /\ LiveNumbered /\ Distinct
  BY DEF DistinctInv, TimerTyped
<1>t. TimerTyped'
  BY <1>0, TimerNextTyped
<1>a. armed \in Nat /\ \A s \in Slots : events[s].id \in Nat
  BY <1>0 DEF TypeOK, Event
<1>1. CASE Every \/ Oscillate \/ Pulse \/ PulseImmediate
  <2>1. PICK t, p, n, v, i : Arming(t, p, n, v, i)
    BY <1>1, ClientsArm
  <2>2. PICK s \in Slots :
          /\ armed \in 0 .. MaxArmed - 1 /\ armed' = armed + 1
          /\ events'[s] = [type |-> t, id |-> armed', period |-> p,
               repeatCount |-> n, lastEventTime |-> millis, count |-> 0]
          /\ \A r \in Slots : r # s => events'[r] = events[r]
    BY <1>0, <2>1, ArmedSlot
  <2>3. UNCHANGED <<fired, ended>>
    BY <2>1 DEF Arming, Arm
  <2>4. events'[s].id = armed + 1
    BY <2>2
  <2>5. \A r \in Slots : r # s => events'[r] = events[r] /\ events[r].id <= armed
    BY <1>0, <2>2 DEF Distinct
  <2>6. /\ ended'.ran \subseteq 1 .. armed' /\ ended'.stopped \subseteq 1 .. armed'
        /\ armed + 1 \notin ended'.ran \cup ended'.stopped
        /\ \A k \in Ids : k > armed' => fired'[k] = 0
    BY <1>0, <1>a, <2>2, <2>3 DEF Distinct, Ids
  <2>7. \A r, q \in Slots : r # q /\ events'[r].id = events'[q].id => events'[r].id = 0
    BY <1>0, <1>a, <2>4, <2>5 DEF Distinct
  <2>8. \A r \in Slots : events'[r].id <= armed'
    BY <1>a, <2>2, <2>4, <2>5
  <2>9. \A r \in Slots : events'[r].type # "none" =>
          events'[r].id \notin ended'.ran \cup ended'.stopped
    BY <1>0, <2>3, <2>4, <2>5, <2>6 DEF Distinct, Live
  <2> QED BY <1>t, <2>6, <2>7, <2>8, <2>9 DEF DistinctInv, Distinct, Live
<1>2. CASE Stop
  <2>1. PICK s \in Slots :
           /\ Live(s) /\ events'[s].type = "none"
           /\ \A r \in Slots :
                /\ events'[r].id = events[r].id
                /\ r # s => events'[r].type = events[r].type
           /\ ended'.ran = ended.ran
           /\ ended'.stopped = ended.stopped \cup {events[s].id}
           /\ UNCHANGED <<armed, fired>>
    BY <1>0, <1>2, StoppedSlot
  <2>2. events[s].id \in 1 .. armed
    BY <1>0, <2>1 DEF LiveNumbered
  <2>3. Distinct'
    BY <1>0, <1>a, <2>1, <2>2 DEF Distinct, Live
  <2> QED BY <1>t, <2>3 DEF DistinctInv
<1>3. CASE Skip
  <2>1. /\ at \in Slots
        /\ \A r \in Slots : r # at => events'[r] = events[r]
        /\ events'[at].id = events[at].id
        /\ events'[at].type = IF RunsOut(events[at]) THEN "none" ELSE events[at].type
        /\ ended'.stopped = ended.stopped
        /\ ended'.ran = IF RunsOut(events[at]) /\ Live(at)
                        THEN ended.ran \cup {events[at].id} ELSE ended.ran
        /\ UNCHANGED <<armed, fired>>
    BY <1>0, <1>3, SkippedSlot DEF Skip
  <2>2. Live(at) => events[at].id \in 1 .. armed
    BY <1>0, <2>1 DEF LiveNumbered
  <2>3. Distinct'
    BY <1>0, <1>a, <2>1, <2>2 DEF Distinct, Live
  <2> QED BY <1>t, <2>3 DEF DistinctInv
<1>4. CASE Toggle \/ CallBackReturns
  <2>1. /\ at \in Slots
        /\ \A r \in Slots : r # at => events'[r] = events[r]
        /\ events'[at].id = events[at].id
        /\ events'[at].type = IF RunsOut(After(events[at])) THEN "none"
                              ELSE events[at].type
        /\ ended'.stopped = ended.stopped
        /\ ended'.ran = IF RunsOut(After(events[at])) /\ Live(at)
                        THEN ended.ran \cup {events[at].id} ELSE ended.ran
        /\ UNCHANGED armed
    BY <1>0, <1>4, FiredSlot DEF Toggle, CallBackReturns
  <2>2. Live(at) => events[at].id \in 1 .. armed
    BY <1>0, <2>1 DEF LiveNumbered
  <2>3. \A k \in Ids : k > armed => fired'[k] = fired[k]
    <3>1. CASE Toggle
      BY <1>0, <1>a, <3>1, FiredCount DEF Ids
    <3>2. CASE CallBackReturns
      BY <3>2 DEF CallBackReturns
    <3> QED BY <1>4, <3>1, <3>2
  <2>4. Distinct'
    BY <1>0, <1>a, <2>1, <2>2, <2>3 DEF Distinct, Live
  <2> QED BY <1>t, <2>4 DEF DistinctInv
<1>5. CASE CallBack
  <2>1. UNCHANGED <<events, armed, ended>>
    BY <1>5 DEF CallBack
  <2>2. \A k \in Ids : k > armed => fired'[k] = fired[k]
    BY <1>0, <1>a, <1>5, FiredCount DEF Ids
  <2>3. Distinct'
    BY <1>0, <2>1, <2>2 DEF Distinct, Live
  <2> QED BY <1>t, <2>3 DEF DistinctInv
<1>6. CASE Update \/ Tick \/ UNCHANGED vars
  <2>1. UNCHANGED <<events, armed, ended, fired>>
    BY <1>6 DEF Update, Tick, history, vars
  <2> QED BY <1>0, <1>t, <2>1 DEF DistinctInv, Distinct, Live
<1> QED BY <1>1, <1>2, <1>3, <1>4, <1>5, <1>6 DEF Next, UpdateStep

-----------------------------------------------------------------------------
(* As many firings as asked for                                               *)

CountInv == DistinctInv /\ CallingBack /\ FiringsLeft /\ FiresAsOftenAsAsked

(* Nothing has fired.                                                         *)
LEMMA CountInitInv == ASSUME Init PROVE CountInv
<1>1. CallingBack /\ FiringsLeft
  BY DEF Init, CallingBack, FiringsLeft, Live, None
<1>2. FiresAsOftenAsAsked
  BY DEF Init, FiresAsOftenAsAsked, None
<1> QED BY <1>1, <1>2, DistinctInitInv DEF CountInv

(* update() counts every firing of an event, and frees its slot with the last *)
(* one.                                                                       *)
LEMMA CountNextInv ==
  ASSUME ~RearmSelf, 0 \notin Repeats, CountInv, [Next]_vars PROVE CountInv'
<1> USE TimerAssumption
<1>0. /\ DistinctInv /\ TimerTyped /\ TypeOK /\ InPass /\ LiveNumbered /\ Distinct
      /\ CallingBack /\ FiringsLeft /\ FiresAsOftenAsAsked
  BY DEF CountInv, DistinctInv, TimerTyped
<1>t. DistinctInv'
  BY <1>0, DistinctNextInv
<1>a. \A s \in Slots : /\ events[s].id \in Nat /\ events[s].count \in Nat
                       /\ events[s].repeatCount \in Int
  BY <1>0 DEF TypeOK, Event
<1>i. \A s \in Slots : Live(s) => events[s].id \in Ids /\ events[s].id # 0
  BY <1>0 DEF LiveNumbered, TypeOK, Ids
<1>1. CASE Every \/ Oscillate \/ Pulse \/ PulseImmediate
  <2>1. PICK t, p, n, v, i : Arming(t, p, n, v, i)
    BY <1>1, ClientsArm
  <2>2. PICK s \in Slots :
          /\ armed \in 0 .. MaxArmed - 1 /\ armed' = armed + 1
          /\ events[s].type = "none"
          /\ inCallback /\ s = at => RearmSelf
          /\ events'[s] = [type |-> t, id |-> armed', period |-> p,
               repeatCount |-> n, lastEventTime |-> millis, count |-> 0]
          /\ \A r \in Slots : r # s => events'[r] = events[r]
    BY <1>0, <2>1, ArmedSlot
  <2>3. UNCHANGED <<at, inCallback, fired, ended>> /\ n \in Int /\ n # 0
    BY <2>1 DEF Arming, Arm
  <2>4. /\ events'[s].id = armed + 1 /\ events'[s].count = 0
        /\ events'[s].repeatCount = n
    BY <2>2
  <2>5. inCallback => at \in Slots /\ s # at
    BY <1>0, <2>2 DEF InPass, TypeOK, Slots
  <2>6. fired[armed + 1] = 0 /\ armed + 1 \notin ended.ran
    BY <1>0, <2>2 DEF Distinct, Ids
  <2>7. CallingBack'
    BY <1>0, <2>2, <2>3, <2>5 DEF CallingBack, Live
  <2>8. FiringsLeft'
    BY <1>0, <2>2, <2>3, <2>4 DEF FiringsLeft, Live
  <2>9. FiresAsOftenAsAsked'
    BY <1>0, <2>2, <2>3, <2>4, <2>6 DEF FiresAsOftenAsAsked
  <2> QED BY <1>t, <2>7, <2>8, <2>9 DEF CountInv
<1>2. CASE Stop
  <2>1. PICK s \in Slots :
           /\ Live(s) /\ events'[s].type = "none"
           /\ \A r \in Slots :
                /\ events'[r].id = events[r].id
                /\ events'[r].repeatCount = events[r].repeatCount
                /\ events'[r].count = events[r].count
                /\ r # s => events'[r].type = events[r].type
           /\ ended'.ran = ended.ran
           /\ ended'.stopped = ended.stopped \cup {events[s].id}
           /\ UNCHANGED <<at, inCallback, armed, fired>>
    BY <1>0, <1>2, StoppedSlot
  <2>2. inCallback => at \in Slots
    BY <1>0 DEF InPass, TypeOK, Slots
  <2>3. CallingBack'
    BY <1>0, <2>1, <2>2 DEF CallingBack, Live
  <2>4. FiringsLeft'
    BY <1>0, <2>1 DEF FiringsLeft, Live
  <2>5. FiresAsOftenAsAsked'
    BY <1>0, <2>1 DEF FiresAsOftenAsAsked
  <2> QED BY <1>t, <2>3, <2>4, <2>5 DEF CountInv
<1>3. CASE Skip
  <2>1. /\ at \in Slots /\ ~inCallback /\ ~inCallback'
        /\ \A r \in Slots : r # at => events'[r] = events[r]
        /\ events'[at].id = events[at].id
        /\ events'[at].repeatCount = events[at].repeatCount
        /\ events'[at].count = events[at].count
        /\ events'[at].type = IF RunsOut(events[at]) THEN "none" ELSE events[at].type
        /\ ended'.stopped = ended.stopped
        /\ ended'.ran = IF RunsOut(events[at]) /\ Live(at)
                        THEN ended.ran \cup {events[at].id} ELSE ended.ran
        /\ UNCHANGED <<armed, fired>>
    BY <1>0, <1>3, SkippedSlot DEF Skip
  <2>2. Live(at) => ~RunsOut(events[at])
    BY <1>0, <1>a, <2>1 DEF FiringsLeft, RunsOut
  <2>3. ended'.ran = ended.ran /\ events'[at].type = events[at].type
    BY <2>1, <2>2 DEF Live
  <2>4. CallingBack' /\ FiringsLeft'
    BY <1>0, <2>1, <2>3 DEF CallingBack, FiringsLeft, Live
  <2>5. FiresAsOftenAsAsked'
    BY <1>0, <2>1, <2>3 DEF FiresAsOftenAsAsked
  <2> QED BY <1>t, <2>4, <2>5 DEF CountInv
<1>4. CASE Toggle \/ CallBackReturns
  <2>1. /\ at \in Slots
        /\ \A r \in Slots : r # at => events'[r] = events[r]
        /\ events'[at].id = events[at].id
        /\ events'[at].repeatCount = events[at].repeatCount
        /\ events'[at].count = events[at].count + 1
        /\ events'[at].type = IF RunsOut(After(events[at])) THEN "none"
                              ELSE events[at].type
        /\ RunsOut(After(events[at])) <=>
             /\ events[at].repeatCount > -1
             /\ events[at].count + 1 >= events[at].repeatCount
        /\ ended'.stopped = ended.stopped
        /\ ended'.ran = IF RunsOut(After(events[at])) /\ Live(at)
                        THEN ended.ran \cup {events[at].id} ELSE ended.ran
    BY <1>0, <1>4, FiredSlot
  <2>2. ~inCallback'
    BY <1>4 DEF Toggle, CallBackReturns
  <2>3. CallingBack'
    BY <2>2 DEF CallingBack
  <2>4. FiringsLeft'
    BY <1>0, <1>a, <2>1 DEF FiringsLeft, Live
  <2>5. Live(at) => fired'[events[at].id] = events[at].count + 1
    <3>1. CASE Toggle
      BY <1>0, <2>1, <3>1, FiredCount DEF Toggle, FiresAsOftenAsAsked, Live
    <3>2. CASE CallBackReturns
      BY <1>0, <3>2 DEF CallBackReturns, CallingBack
    <3> QED BY <1>4, <3>1, <3>2
  <2>6. \A k \in Ids : k # events[at].id => fired'[k] = fired[k]
    <3>1. CASE Toggle
      BY <1>0, <3>1, FiredCount
    <3>2. CASE CallBackReturns
      BY <3>2 DEF CallBackReturns
    <3> QED BY <1>4, <3>1, <3>2
  <2>7. ~Live(at) => inCallback /\ events[at].id \in ended.stopped
    <3>1. CASE Toggle
      BY <3>1 DEF Toggle, Due, Live
    <3>2. CASE CallBackReturns
      BY <1>0, <3>2 DEF CallBackReturns, CallingBack
    <3> QED BY <1>4, <3>1, <3>2
  <2>8. ASSUME NEW s \in Slots, events'[s].type # "none"
        PROVE  fired'[events'[s].id] = events'[s].count
    <3>1. CASE s = at
      BY <2>1, <2>5, <2>8, <3>1 DEF Live
    <3>2. CASE s # at
      <4>1. Live(s) /\ events[s].id \in Ids /\ events[s].id # events[at].id
        BY <1>0, <1>i, <2>1, <2>8, <3>2 DEF Live, Distinct
      <4>2. fired[events[s].id] = events[s].count
        BY <1>0, <3>2, <4>1 DEF FiresAsOftenAsAsked, Live
      <4> QED BY <2>1, <2>6, <3>2, <4>1, <4>2
    <3> QED BY <3>1, <3>2
  <2>9. ASSUME NEW s \in Slots, events'[s].id \in ended'.ran \ ended'.stopped
        PROVE  fired'[events'[s].id] = events'[s].repeatCount
    <3>1. CASE s = at
      <4>1. Live(at)
        BY <2>1, <2>7, <2>9, <3>1
      <4>2. events[at].id \notin ended.ran
        BY <1>0, <2>1, <4>1 DEF Distinct
      <4>3. RunsOut(After(events[at]))
        BY <2>1, <2>9, <3>1, <4>2
      <4>4. events[at].count + 1 = events[at].repeatCount
        BY <1>0, <1>a, <2>1, <4>1, <4>3 DEF FiringsLeft
      <4> QED BY <2>1, <2>5, <3>1, <4>1, <4>4
    <3>2. CASE s # at
      <4>1. events'[s] = events[s]
        BY <2>1, <3>2
      <4>2. CASE events[s].id = events[at].id
        <5>1. events[s].id = 0
          BY <1>0, <2>1, <3>2, <4>2 DEF Distinct
        <5>2. 0 \notin ended.ran /\ (Live(at) => events[at].id # 0)
          BY <1>0, <1>i, <2>1 DEF Distinct, TypeOK
        <5> QED BY <2>1, <2>9, <4>1, <4>2, <5>1, <5>2
      <4>3. CASE events[s].id # events[at].id
        <5>1. events[s].id \in ended.ran \ ended.stopped
          BY <2>1, <2>9, <4>1, <4>3
        <5>2. events[s].id \in Ids
          BY <1>0, <5>1 DEF TypeOK
        <5>3. fired[events[s].id] = events[s].repeatCount
          BY <1>0, <5>1 DEF FiresAsOftenAsAsked
        <5> QED BY <2>6, <4>1, <4>3, <5>2, <5>3
      <4> QED BY <4>2, <4>3
    <3> QED BY <3>1, <3>2
  <2> QED BY <1>t, <2>3, <2>4, <2>8, <2>9 DEF CountInv, FiresAsOftenAsAsked
<1>5. CASE CallBack
  <2>1. /\ UNCHANGED <<events, at, ended>> /\ events[at].type = "every"
        /\ at \in Slots /\ ~inCallback /\ inCallback'
        /\ fired'[events[at].id] = fired[events[at].id] + 1
        /\ \A k \in Ids : k # events[at].id => fired'[k] = fired[k]
    BY <1>0, <1>5, FiredCount DEF CallBack
  <2>2. FiringsLeft'
    BY <1>0, <2>1 DEF FiringsLeft, Live
  <2>3. CallingBack'
    BY <1>0, <2>1 DEF CallingBack, Live, FiresAsOftenAsAsked
  <2>4. Live(at) /\ events[at].id \notin ended.ran
    BY <1>0, <2>1 DEF Live, Distinct
  <2>5. ASSUME NEW s \in Slots, s # at, events[s].type # "none"
        PROVE  fired'[events[s].id] = events[s].count
    <3>1. Live(s) /\ events[s].id \in Ids /\ events[s].id # events[at].id
      BY <1>0, <1>i, <2>1, <2>5 DEF Live, Distinct
    <3> QED BY <1>0, <2>1, <2>5, <3>1 DEF FiresAsOftenAsAsked
  <2>6. ASSUME NEW s \in Slots, events[s].id \in ended.ran \ ended.stopped
        PROVE  fired'[events[s].id] = events[s].repeatCount
    <3>1. events[s].id \in Ids /\ events[s].id # events[at].id
      BY <1>0, <2>4, <2>6 DEF TypeOK
    <3> QED BY <1>0, <2>1, <2>6, <3>1 DEF FiresAsOftenAsAsked
  <2>7. FiresAsOftenAsAsked'
    BY <2>1, <2>5, <2>6 DEF FiresAsOftenAsAsked
  <2> QED BY <1>t, <2>2, <2>3, <2>7 DEF CountInv
<1>6. CASE Update
  <2>1. /\ UNCHANGED <<events, ended, fired, inCallback>> /\ at = MaxEvents
        /\ at' = 0
    BY <1>6 DEF Update, history
  <2>2. ~inCallback
    BY <1>0, <2>1 DEF InPass
  <2>3. CallingBack' /\ FiringsLeft' /\ FiresAsOftenAsAsked'
    BY <1>0, <2>1, <2>2 DEF CallingBack, FiringsLeft, FiresAsOftenAsAsked, Live
  <2> QED BY <1>t, <2>3 DEF CountInv
<1>7. CASE Tick \/ UNCHANGED vars
  <2>1. UNCHANGED <<events, ended, fired, inCallback, at>>
    BY <1>7 DEF Tick, vars
  <2> QED BY <1>0, <1>t, <2>1 DEF CountInv, CallingBack, FiringsLeft,
             FiresAsOftenAsAsked, Live
<1> QED BY <1>1, <1>2, <1>3, <1>4, <1>5, <1>6, <1>7 DEF Next, UpdateStep

(* Event::update() counts a firing after the callback.  As long as no callback*)
(* puts another event in its own slot and clients ask for at least one firing,*)
(* every event fires as often as it was asked to, however the callbacks arm   *)
(* and stop events of the same timer, and however long they take.             *)
THEOREM TimerFiresAsAsked ==
  ~RearmSelf /\ 0 \notin Repeats => (Spec => []FiresAsOftenAsAsked)
<1> SUFFICES ASSUME ~RearmSelf, 0 \notin Repeats PROVE Spec => []FiresAsOftenAsAsked
  OBVIOUS
<1>1. Init => CountInv
  BY CountInitInv
<1>2. CountInv /\ [Next]_vars => CountInv'
  BY CountNextInv
<1>3. CountInv => FiresAsOftenAsAsked
  BY DEF CountInv
<1> QED BY <1>1, <1>2, <1>3, PTL DEF Spec

-----------------------------------------------------------------------------
(* Pulses leave their pin inverted                                            *)

CallsEvery == inCallback => events[at].type # "oscillate"

PulseInv == DistinctInv /\ CallsEvery /\ PulsesWait /\ PulseLeavesInverted

(* A toggle inverts the pin of the event in the slot and no other.            *)
LEMMA ToggledPin ==
  ASSUME TimerTyped, Toggle
  PROVE  /\ events[at].id \in Ids
         /\ pin'[events[at].id].immediate = pin[events[at].id].immediate
         /\ pin[events[at].id].level = pin[events[at].id].start =>
              pin'[events[at].id].level # pin'[events[at].id].start
         /\ \A k \in Ids : k # events[at].id => pin'[k] = pin[k]
<1>1. TypeOK /\ events[at].id \in Ids
  BY FiredCount DEF TimerTyped
<1>2. pin' = [pin EXCEPT ![events[at].id].level = ~@]
  BY DEF Toggle
<1> DEFINE k == events[at].id
<1>3. k \in Ids /\ pin' = [pin EXCEPT ![k].level = ~@]
  BY <1>1, <1>2
<1> HIDE DEF k
<1>4. pin[k] \in [start : BOOLEAN, level : BOOLEAN, immediate : BOOLEAN]
  BY <1>1, <1>3 DEF TypeOK
<1>5. pin'[k] = [pin[k] EXCEPT !.level = ~@]
  BY <1>1, <1>3 DEF TypeOK
<1>6. /\ pin'[k].immediate = pin[k].immediate /\ pin'[k].start = pin[k].start
      /\ pin'[k].level = ~pin[k].level
  BY <1>4, <1>5
<1>7. pin[k].level \in BOOLEAN
  BY <1>4
<1>8. pin[k].level = pin[k].start => pin'[k].level # pin'[k].start
  BY <1>6, <1>7
<1>9. \A j \in Ids : j # k => pin'[j] = pin[j]
  BY <1>1, <1>3 DEF TypeOK
<1> QED BY <1>3, <1>6, <1>8, <1>9 DEF k

(* No pin is pulsing.                                                         *)
LEMMA PulseInitInv == ASSUME Init PROVE PulseInv
<1>1. CallsEvery /\ PulsesWait /\ PulseLeavesInverted
  BY DEF Init, CallsEvery, PulsesWait, PulseLeavesInverted, Live, None
<1> QED BY <1>1, DistinctInitInv DEF PulseInv

(* A pulse that runs out has inverted its pin; no other event writes to it.   *)
LEMMA PulseNextInv == ASSUME ~RearmSelf, PulseInv, [Next]_vars PROVE PulseInv'
<1> USE TimerAssumption
<1>0. /\ DistinctInv /\ TimerTyped /\ TypeOK /\ InPass /\ LiveNumbered /\ Distinct
      /\ CallsEvery /\ PulsesWait /\ PulseLeavesInverted
  BY DEF PulseInv, DistinctInv, TimerTyped
<1>t. DistinctInv'
  BY <1>0, DistinctNextInv
<1>a. \A s \in Slots : /\ events[s].id \in Nat /\ events[s].count \in Nat
                       /\ events[s].repeatCount \in Int
  BY <1>0 DEF TypeOK, Event
<1>i. \A s \in Slots : Live(s) => events[s].id \in Ids /\ events[s].id # 0
  BY <1>0 DEF LiveNumbered, TypeOK, Ids
<1>1. CASE Every \/ Oscillate \/ Pulse \/ PulseImmediate
  <2>1. PICK t, p, n, v, i : Arming(t, p, n, v, i)
    BY <1>1, ClientsArm
  <2>2. PICK s \in Slots :
          /\ armed \in 0 .. MaxArmed - 1 /\ armed' = armed + 1
          /\ events[s].type = "none"
          /\ inCallback /\ s = at => RearmSelf
          /\ events'[s] = [type |-> t, id |-> armed', period |-> p,
               repeatCount |-> n, lastEventTime |-> millis, count |-> 0]
          /\ \A r \in Slots : r # s => events'[r] = events[r]
    BY <1>0, <2>1, ArmedSlot
  <2>3. /\ UNCHANGED <<at, inCallback, ended>>
        /\ i => t = "oscillate" /\ n = 1
        /\ pin' = [pin EXCEPT ![armed'] =
                     [start |-> v, level |-> v, immediate |-> i]]
    BY <2>1 DEF Arming, Arm
  <2>4. /\ events'[s].id = armed + 1 /\ events'[s].count = 0
        /\ events'[s].repeatCount = n /\ events'[s].type = t
    BY <2>2
  <2>5. inCallback => at \in Slots /\ s # at
    BY <1>0, <2>2 DEF InPass, TypeOK, Slots
  <2>6. /\ armed + 1 \in Ids /\ armed + 1 \notin ended.ran
        /\ \A r \in Slots : events[r].id # armed + 1
    BY <1>0, <1>a, <2>2 DEF Distinct, Ids
  <2>7. /\ pin'[armed + 1] = [start |-> v, level |-> v, immediate |-> i]
        /\ \A k \in Ids : k # armed + 1 => pin'[k] = pin[k]
    BY <1>0, <2>2, <2>3, <2>6 DEF TypeOK
  <2>8. CallsEvery'
    BY <1>0, <2>2, <2>3, <2>5 DEF CallsEvery
  <2>9. PulsesWait'
    <3>1. /\ pin'[armed + 1].immediate => t = "oscillate" /\ n = 1
          /\ pin'[armed + 1].level = pin'[armed + 1].start
      BY <2>3, <2>7
    <3>2. \A r \in Slots : r # s /\ Live(r) => pin'[events[r].id] = pin[events[r].id]
      BY <1>i, <2>6, <2>7
    <3> QED BY <1>0, <2>2, <2>4, <3>1, <3>2 DEF PulsesWait, Live
  <2>10. PulseLeavesInverted'
    <3>1. \A k \in ended.ran : k \in Ids /\ k # armed + 1
      BY <1>0, <2>6 DEF TypeOK
    <3> QED BY <1>0, <2>3, <2>7, <3>1 DEF PulseLeavesInverted
  <2> QED BY <1>t, <2>8, <2>9, <2>10 DEF PulseInv
<1>2. CASE Stop
  <2>1. PICK s \in Slots :
           /\ Live(s) /\ events'[s].type = "none"
           /\ \A r \in Slots :
                /\ events'[r].id = events[r].id
                /\ events'[r].repeatCount = events[r].repeatCount
                /\ events'[r].count = events[r].count
                /\ r # s => events'[r].type = events[r].type
           /\ ended'.ran = ended.ran
           /\ UNCHANGED <<pin, at, inCallback>>
    BY <1>0, <1>2, StoppedSlot
  <2>2. inCallback => at \in Slots
    BY <1>0 DEF InPass, TypeOK, Slots
  <2>3. CallsEvery'
    BY <1>0, <2>1, <2>2 DEF CallsEvery
  <2>4. PulsesWait' /\ PulseLeavesInverted'
    BY <1>0, <2>1 DEF PulsesWait, PulseLeavesInverted, Live
  <2> QED BY <1>t, <2>3, <2>4 DEF PulseInv
<1>3. CASE Skip
  <2>1. /\ at \in Slots /\ ~inCallback /\ UNCHANGED <<inCallback, pin>>
        /\ \A r \in Slots : r # at => events'[r] = events[r]
        /\ events'[at].id = events[at].id
        /\ events'[at].repeatCount = events[at].repeatCount
        /\ events'[at].count = events[at].count
        /\ events'[at].type = IF RunsOut(events[at]) THEN "none" ELSE events[at].type
        /\ ended'.ran = IF RunsOut(events[at]) /\ Live(at)
                        THEN ended.ran \cup {events[at].id} ELSE ended.ran
    BY <1>0, <1>3, SkippedSlot DEF Skip
  <2>2. Live(at) /\ RunsOut(events[at]) => ~pin[events[at].id].immediate
    BY <1>0, <2>1 DEF PulsesWait, RunsOut
  <2>3. CallsEvery' /\ PulsesWait'
    BY <1>0, <2>1 DEF CallsEvery, PulsesWait, Live
  <2>4. PulseLeavesInverted'
    BY <1>0, <2>1, <2>2 DEF PulseLeavesInverted
  <2> QED BY <1>t, <2>3, <2>4 DEF PulseInv
<1>4. CASE Toggle \/ CallBackReturns
  <2>1. /\ at \in Slots
        /\ \A r \in Slots : r # at => events'[r] = events[r]
        /\ events'[at].id = events[at].id
        /\ events'[at].type = IF RunsOut(After(events[at])) THEN "none"
                              ELSE events[at].type
        /\ RunsOut(After(events[at])) <=>
             /\ events[at].repeatCount > -1
             /\ events[at].count + 1 >= events[at].repeatCount
        /\ ended'.ran = IF RunsOut(After(events[at])) /\ Live(at)
                        THEN ended.ran \cup {events[at].id} ELSE ended.ran
    BY <1>0, <1>4, FiredSlot
  <2>2. CallsEvery'
    BY <1>4 DEF Toggle, CallBackReturns, CallsEvery
  <2>3. Live(at) /\ ~RunsOut(After(events[at])) => ~pin[events[at].id].immediate
    BY <1>0, <1>a, <2>1 DEF PulsesWait
  <2>4. \A r \in Slots : r # at /\ Live(r) => events[r].id # events[at].id
    BY <1>0, <1>i, <2>1 DEF Distinct
  <2>5. /\ \A k \in Ids : k # events[at].id => pin'[k] = pin[k]
        /\ Live(at) => /\ pin'[events[at].id].immediate = pin[events[at].id].immediate
                       /\ pin[events[at].id].immediate =>
                            pin'[events[at].id].level # pin'[events[at].id].start
    <3>1. CASE Toggle
      BY <1>0, <2>1, <3>1, ToggledPin DEF PulsesWait
    <3>2. CASE CallBackReturns
      BY <1>0, <2>1, <3>2 DEF CallBackReturns, CallsEvery, PulsesWait
    <3> QED BY <1>4, <3>1, <3>2
  <2>6. PulsesWait'
    <3> SUFFICES ASSUME NEW s \in Slots, events'[s].type # "none",
                        pin'[events'[s].id].immediate
                 PROVE  /\ events'[s].type = "oscillate"
                        /\ events'[s].repeatCount = 1 /\ events'[s].count = 0
                        /\ pin'[events'[s].id].level = pin'[events'[s].id].start
      BY DEF PulsesWait, Live
    <3>1. CASE s = at
      BY <2>1, <2>3, <2>5, <3>1 DEF Live
    <3>2. CASE s # at
      <4>1. Live(s) /\ events'[s] = events[s] /\ pin'[events[s].id] = pin[events[s].id]
        BY <1>i, <2>1, <2>4, <2>5, <3>2 DEF Live
      <4> QED BY <1>0, <4>1 DEF PulsesWait
    <3> QED BY <3>1, <3>2
  <2>7. PulseLeavesInverted'
    <3> SUFFICES ASSUME NEW k \in ended'.ran, pin'[k].immediate
                 PROVE  pin'[k].level # pin'[k].start
      BY DEF PulseLeavesInverted
    <3>1. CASE Live(at) /\ k = events[at].id
      BY <2>5, <3>1
    <3>2. CASE k \in ended.ran /\ k # events[at].id
      <4>1. k \in Ids
        BY <1>0, <3>2 DEF TypeOK
      <4> QED BY <1>0, <2>5, <3>2, <4>1 DEF PulseLeavesInverted
    <3>3. CASE k \in ended.ran /\ ~Live(at)
      <4>1. pin' = pin
        BY <1>4, <3>3 DEF Toggle, CallBackReturns, Due, Live
      <4> QED BY <1>0, <3>3, <4>1 DEF PulseLeavesInverted
    <3> QED BY <2>1, <3>1, <3>2, <3>3
  <2> QED BY <1>t, <2>2, <2>6, <2>7 DEF PulseInv
<1>5. CASE CallBack
  <2>1. UNCHANGED <<events, at, pin, ended>> /\ events[at].type = "every"
    BY <1>5 DEF CallBack
  <2> QED BY <1>0, <1>t, <2>1 DEF PulseInv, CallsEvery, PulsesWait,
             PulseLeavesInverted, Live
<1>6. CASE Update
  <2>1. /\ UNCHANGED <<events, ended, pin, inCallback>> /\ at = MaxEvents
    BY <1>6 DEF Update, history
  <2>2. ~inCallback
    BY <1>0, <2>1 DEF InPass
  <2> QED BY <1>0, <1>t, <2>1, <2>2 DEF PulseInv, CallsEvery, PulsesWait,
             PulseLeavesInverted, Live
<1>7. CASE Tick \/ UNCHANGED vars
  <2>1. UNCHANGED <<events, ended, pin, inCallback, at>>
    BY <1>7 DEF Tick, vars
  <2> QED BY <1>0, <1>t, <2>1 DEF PulseInv, CallsEvery, PulsesWait,
             PulseLeavesInverted, Live
<1> QED BY <1>1, <1>2, <1>3, <1>4, <1>5, <1>6, <1>7 DEF Next, UpdateStep

(* Timer::pulseImmediate() keeps what its comment says as long as no callback *)
(* puts another event in its own slot: a pulse that ran to its end leaves the *)
(* pin in the !startingValue state, and toggled it just once.                 *)
THEOREM TimerPulsesInvert == ~RearmSelf => (Spec => []PulseLeavesInverted)
<1> SUFFICES ASSUME ~RearmSelf PROVE Spec => []PulseLeavesInverted
  OBVIOUS
<1>1. Init => PulseInv
  BY PulseInitInv
<1>2. PulseInv /\ [Next]_vars => PulseInv'
  BY PulseNextInv
<1>3. PulseInv => PulseLeavesInverted
  BY DEF PulseInv
<1> QED BY <1>1, <1>2, <1>3, PTL DEF Spec
=============================================================================
