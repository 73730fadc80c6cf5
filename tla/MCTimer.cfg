\* Callbacks that end within a tick of the clock.
SPECIFICATION Spec
CONSTANTS
    MaxEvents = 2
    ClockMod = 3
    Periods = {1, 2}
    Repeats <- MCRepeats
    Levels = {FALSE}
    MaxArmed = 3
    MaxFired = 2
    SlowCallbacks = FALSE
    RearmSelf = FALSE
INVARIANT TypeOK
INVARIANT FiresAsOftenAsAsked
INVARIANT PulseLeavesInverted
PROPERTY NeverEarly
PROPERTY NoneOverlooked
