------------------------------- MODULE VshClock -------------------------------
(* The processor's clock in the XMB (systemctrl/sysmodpatches.c).  The settings *)
(* name a speed, which SetSpeed gives to the firmware's power service from two  *)
(* threads: the XMB's, whenever it polls the pad, first ten seconds after the   *)
(* XMB was loaded and then whenever the firmware has gone back to 222 MHz; and  *)
(* the one that hands changed settings over through vctrlVSHExitVSHMenu.        *)
(* Times are the low word of the system's time, and their differences are       *)
(* signed.  Of the settings only vshcpuspeed is kept.                           *)
EXTENDS Integers

CONSTANTS
  Speeds,      \* the values the menus can give the setting
  Half,        \* half the range of the low word of the time (2^31 microseconds)
  FirstDelay,  \* ten seconds
  NextDelay,   \* one second
  MaxPushes,   \* bound: how often settings are handed over
  MaxResets    \* bound: how often the firmware goes back to 222 MHz

Accepted == {20, 75, 100, 133, 222, 266, 300, 333}

ASSUME ClockConstants ==
  /\ Speeds \subseteq Accepted \cup {0} /\ 0 \in Speeds
  /\ Half \in Nat /\ FirstDelay \in 1..(Half - 1) /\ NextDelay \in 1..(Half - 1)
  /\ MaxPushes \in Nat /\ MaxResets \in Nat

Word == 2 * Half

VARIABLES
  vshcpuspeed,  \* the setting, in systemctrl's copy of the settings
  clock,        \* the processor's clock
  now,          \* the low word of the system's time
  set,          \* the first change of the clock was made
  firsttime, curtime,
  poll,         \* where the XMB's thread is in sceCtrlReadBufferPositivePatched
  timelow, args, \* its locals: the time it read, the speed it loaded for SetSpeed
  polled,       \* a poll has ended since the last tick
  push,         \* where the other thread is in vctrlVSHExitVSHMenu
  prev,         \* its local prev_vshcpuspeed
  pushes, resets, \* counters of the bounds
  overtaken     \* history: the poll set a speed whose setting had been replaced since
                \* it was loaded, and no speed was set since

NoSpeed == -1

timeVars  == <<now, polled>>
pollVars  == <<poll, timelow, args>>
pushVars  == <<push, prev, pushes>>
clockVars == <<vshcpuspeed, clock, timeVars, set, firsttime, curtime, pollVars,
               pushVars, resets, overtaken>>

ClockTypeOK ==
  /\ vshcpuspeed \in Speeds /\ prev \in Speeds
  /\ clock \in Accepted
  /\ now \in 0..(Word - 1) /\ firsttime \in 0..(Word - 1)
  /\ curtime \in 0..(Word - 1) /\ timelow \in 0..(Word - 1)
  /\ set \in BOOLEAN /\ polled \in BOOLEAN /\ overtaken \in BOOLEAN
  /\ poll \in {"idle", "first", "call", "stamp"}
  /\ push \in {"idle", "compare", "call", "stamp"}
  /\ args \in Speeds \cup {NoSpeed}
  /\ pushes \in 0..MaxPushes /\ resets \in 0..MaxResets

\* systemctrl's variables as it is loaded; the kernel starts at 222 MHz.
ClockInit ==
  /\ vshcpuspeed = 0 /\ prev = 0
  /\ clock = 222
  /\ now = 1 /\ polled = FALSE
  /\ set = FALSE /\ firsttime = 0 /\ curtime = 0
  /\ poll = "idle" /\ timelow = 0 /\ args = NoSpeed
  /\ push = "idle" /\ pushes = 0 /\ resets = 0
  /\ overtaken = FALSE

\* The value SetSpeed leaves the clock with; other speeds it ignores.
ClockAt(speed) == IF speed \in Accepted THEN speed ELSE clock

\* What a setting asks for: none is the firmware's own speed.
Wanted(speed) == IF speed = 0 THEN 222 ELSE speed

\* a - b of two u32 times, taken as an int.
Since(a, b) == ((a - b + Half) % Word) - Half

\* OnVshLoad: the settings are read, and the time only if there is a speed to set.
VshLoads(speed) ==
  /\ vshcpuspeed' = speed
  /\ firsttime' = IF speed # 0 THEN now ELSE firsttime

-------------------------------------------------------------------------------
(* sceCtrlReadBufferPositivePatched, on the XMB's thread *)

\* The conditions, with the speed as it is at this moment.
MustSetFirst == ~set /\ vshcpuspeed # 0 /\ Since(now, firsttime) >= FirstDelay
MustSetAgain == /\ set /\ vshcpuspeed \notin {0, 222} /\ clock = 222
                /\ Since(now, curtime) >= NextDelay

PollDecides ==
  /\ poll = "idle"
  /\ poll' = IF MustSetFirst THEN "first" ELSE IF MustSetAgain THEN "call" ELSE "idle"
  /\ timelow' = now
  /\ polled' = (poll' = "idle")
  /\ args' = NoSpeed
  /\ UNCHANGED <<vshcpuspeed, clock, now, set, firsttime, curtime, pushVars, resets,
                 overtaken>>

\* Mutant: the first change is noted only after it was made.
PollSetsLate ==
  \/ /\ poll = "first" /\ args # NoSpeed
     /\ clock' = ClockAt(args) /\ overtaken' = (args # vshcpuspeed)
     /\ poll' = "set"
     /\ UNCHANGED <<vshcpuspeed, timeVars, set, firsttime, curtime, timelow, args,
                    pushVars, resets>>
  \/ /\ poll = "set"
     /\ set' = TRUE /\ curtime' = timelow
     /\ poll' = "idle" /\ polled' = TRUE /\ timelow' = 0 /\ args' = NoSpeed
     /\ UNCHANGED <<vshcpuspeed, clock, now, firsttime, pushVars, resets, overtaken>>

\* set = 1, and the load of the setting for the call: the compiler may swap the two.
PollSets ==
  /\ poll = "first" /\ ~set
  /\ set' = TRUE
  /\ poll' = IF args = NoSpeed THEN "first" ELSE "call"
  /\ UNCHANGED <<vshcpuspeed, clock, timeVars, firsttime, curtime, timelow, args,
                 pushVars, resets, overtaken>>

PollLoads ==
  /\ poll \in {"first", "call"} /\ args = NoSpeed
  /\ args' = vshcpuspeed
  /\ poll' = IF set THEN "call" ELSE "first"
  /\ UNCHANGED <<vshcpuspeed, clock, timeVars, set, firsttime, curtime, timelow,
                 pushVars, resets, overtaken>>

\* SetSpeed has found the power service's function and calls it.
PollCalls ==
  /\ poll = "call" /\ args # NoSpeed
  /\ clock' = ClockAt(args)
  /\ overtaken' = (args # vshcpuspeed)
  /\ poll' = "stamp"
  /\ UNCHANGED <<vshcpuspeed, timeVars, set, firsttime, curtime, timelow, args,
                 pushVars, resets>>

PollStamps ==
  /\ poll = "stamp"
  /\ curtime' = timelow
  /\ poll' = "idle" /\ polled' = TRUE /\ timelow' = 0 /\ args' = NoSpeed
  /\ UNCHANGED <<vshcpuspeed, clock, now, set, firsttime, pushVars, resets, overtaken>>

-------------------------------------------------------------------------------
(* vctrlVSHExitVSHMenu, on the menu's thread or between two polls *)

\* SetConfig: the new settings are in use.
PushStores ==
  /\ push = "idle" /\ pushes < MaxPushes
  /\ prev' = vshcpuspeed
  /\ vshcpuspeed' \in Speeds
  /\ push' = "compare" /\ pushes' = pushes + 1
  /\ UNCHANGED <<clock, timeVars, set, firsttime, curtime, pollVars, resets, overtaken>>

\* Only what the first change has preceded is changed here.
PushCompares ==
  /\ push = "compare"
  /\ push' = IF set /\ vshcpuspeed # prev THEN "call" ELSE "idle"
  /\ prev' = 0
  /\ UNCHANGED <<vshcpuspeed, clock, timeVars, set, firsttime, curtime, pollVars,
                 pushes, resets, overtaken>>

\* Mutant: a setting of 0 sets nothing.
PushCallsNonzero ==
  /\ push = "call"
  /\ clock' = ClockAt(vshcpuspeed)
  /\ overtaken' = FALSE
  /\ push' = "stamp"
  /\ UNCHANGED <<vshcpuspeed, timeVars, set, firsttime, curtime, pollVars, prev,
                 pushes, resets>>

PushCalls ==
  /\ push = "call"
  /\ clock' = ClockAt(Wanted(vshcpuspeed))
  /\ overtaken' = FALSE
  /\ push' = "stamp"
  /\ UNCHANGED <<vshcpuspeed, timeVars, set, firsttime, curtime, pollVars, prev,
                 pushes, resets>>

PushStamps ==
  /\ push = "stamp"
  /\ curtime' = now
  /\ push' = "idle"
  /\ UNCHANGED <<vshcpuspeed, clock, timeVars, set, firsttime, pollVars, prev, pushes,
                 resets, overtaken>>

-------------------------------------------------------------------------------
\* The firmware goes back to its own speed.
FirmwareResets ==
  /\ resets < MaxResets
  /\ clock' = 222 /\ resets' = resets + 1
  /\ UNCHANGED <<vshcpuspeed, timeVars, set, firsttime, curtime, pollVars, pushVars,
                 overtaken>>

\* Time passes; the XMB polls the pad at every frame, so at least once in a tick.
Tick ==
  /\ polled
  /\ now' = (now + 1) % Word /\ polled' = FALSE
  /\ UNCHANGED <<vshcpuspeed, clock, set, firsttime, curtime, pollVars, pushVars,
                 resets, overtaken>>

ClockPolls  == PollDecides \/ PollSets \/ PollLoads \/ PollCalls \/ PollStamps
===============================================================================
