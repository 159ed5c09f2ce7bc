-------------------------------- MODULE Kernel --------------------------------
(* A kernel from its boot on, as systemctrl sees it (systemctrl/main.c,           *)
(* OnModuleStart): the wait for the memory stick, the settings, the load, link    *)
(* and start of a plugin and of the main program, and then the clock, which       *)
(* follows the settings in the XMB and is kept from changes in a game.            *)
EXTENDS ExecCheck, NidResolver, VshClock

CONSTANTS
  GameSpeeds,  \* the values the menus can give the setting gamecpuspeed
  GameFiles,   \* those of Files that are started as a game
  Imports,     \* the pairs <<libname, nid>> that modules import
  Meant        \* for each, the function that modules for older firmware mean by it

ASSUME KernelConstants ==
  /\ GameSpeeds \subseteq Accepted \cup {0} /\ 0 \in GameSpeeds
  /\ GameFiles \subseteq Files
  /\ Imports \subseteq DOMAIN Meant /\ \A i \in Imports : i = <<i[1], i[2]>>

-------------------------------------------------------------------------------
(* What Meant is, told without the searches of the code.                         *)

Offered(libname, nid) ==
  \E m \in DOMAIN Exports : \E e \in DOMAIN Exports[m] :
    Exports[m][e].libname = libname /\ nid \in Exports[m][e].funcs

KnownPairs(libname) ==
  UNION {{nid_table[t].nid[p] : p \in DOMAIN nid_table[t].nid} :
           t \in {u \in DOMAIN nid_table : nid_table[u].libname = libname}}

\* The NIDs that a function had once may have been given anew: at most one of them.
NidsNow(libname, nid) ==
  LET new == {p \in KnownPairs(libname) : p[1] = nid}
  IN  IF new = {} THEN {nid} ELSE {p[2] : p \in new}

KernelClock == <<"scePower_driver", SetClock>>

\* HEN's function is meant where it has one; scePower's, by the import of the clock that
\* the kernel's library has lost; else the library's own, by today's NID.
ASSUME MeantConstants ==
  /\ \A i \in Imports \cap Substitutes : Meant[i] = <<"HEN", i[1], i[2]>>
  /\ \A i \in Imports \ (Substitutes \cup {KernelClock}) :
       \E today \in NidsNow(i[1], i[2]) :
         Meant[i] = IF Offered(i[1], today) THEN <<i[1], today>> ELSE Missing
  /\ KernelClock \in Imports \ Substitutes => Meant[KernelClock] = <<"scePower", SetClock>>

\* The module scePower_Service offers that function in its library scePower, whose NIDs
\* are today's, and has no variable of this name.
ASSUME PowerConstants ==
  /\ "scePower_Service" \in DOMAIN Exports /\ NoName # "scePower"
  /\ NidsNow("scePower", SetClock) = {SetClock}
  /\ LET entries == Exports["scePower_Service"]
     IN  /\ \E e \in DOMAIN entries : /\ entries[e].libname = "scePower"
                                      /\ SetClock \in entries[e].funcs
         /\ \A e \in DOMAIN entries : SetClock \notin entries[e].vars
-------------------------------------------------------------------------------
VARIABLES
  keyconfig,    \* "VSH" or "GAME"
  where,        \* how far the kernel is
  stick,        \* a memory stick is inserted
  registered,   \* ms_callback is registered with the stick's driver
  event,        \* the event flag that ms_callback sets
  saved,        \* the settings in the file
  gamecpuspeed, \* the setting, in systemctrl's copy
  status,       \* the firmware has set its system status to 0x20000
  set_cpuspeed,
  dummied,      \* the functions that change the clock do nothing
  role,         \* what is being loaded
  link          \* the import that was linked last: for whom, what, and to what

stickVars == <<stick, registered, event>>
gameVars  == <<gamecpuspeed, status, set_cpuspeed, dummied>>
vars == <<checkVars, clockVars, keyconfig, where, stickVars, saved, gameVars, role, link>>

Places == {"dnas", "register", "wait", "impose", "plugin", "program", "load", "link",
           "start", "run", "halt"}
NoImporter == [user |-> FALSE, sdk620 |-> FALSE, entries |-> <<>>]
NoLink     == [by |-> NoImporter, libname |-> NoName, nid |-> SetClock, got |-> Missing]

TypeOK ==
  /\ CheckTypeOK /\ ClockTypeOK
  /\ keyconfig \in {"VSH", "GAME"} /\ where \in Places
  /\ stick \in BOOLEAN /\ registered \in BOOLEAN /\ event \in BOOLEAN
  /\ saved \in [vsh : Speeds, game : GameSpeeds]
  /\ gamecpuspeed \in GameSpeeds
  /\ status \in BOOLEAN /\ set_cpuspeed \in BOOLEAN /\ dummied \in BOOLEAN
  /\ role \in {"plugin", "main"}

\* Of the two settings, only the one that this kernel looks at differs.
Init ==
  /\ CheckInit /\ ClockInit
  /\ keyconfig \in {"VSH", "GAME"}
  /\ saved \in [vsh : Speeds, game : GameSpeeds]
  /\ IF keyconfig = "VSH" THEN saved.game = 0 ELSE saved.vsh = 0
  /\ stick \in BOOLEAN /\ registered = FALSE /\ event = FALSE
  /\ where = "dnas"
  /\ gamecpuspeed = 0 /\ status = FALSE /\ set_cpuspeed = FALSE /\ dummied = FALSE
  /\ role = "plugin" /\ link = NoLink

-------------------------------------------------------------------------------
(* sceIoFilemgrDNAS starts: wait until the memory stick can be used.             *)

\* No wait without a stick, if the stick's controller does not answer, or with the
\* driver of disc images in the kernel.
AsksForStick ==
  /\ where = "dnas"
  /\ where' \in {"register", "impose"}
  /\ (where' = "register") => stick
  /\ UNCHANGED <<checkVars, clockVars, keyconfig, stickVars, saved, gameVars, role, link>>

\* Mutant: the wait is entered even if the callback could not be registered.
RegistersCallbackUnchecked ==
  /\ where = "register"
  /\ registered' \in BOOLEAN
  /\ where' = "wait"
  /\ UNCHANGED <<checkVars, clockVars, keyconfig, stick, event, saved, gameVars,
                 role, link>>

RegistersCallback ==
  /\ where = "register"
  /\ registered' \in BOOLEAN
  /\ where' = IF registered' THEN "wait" ELSE "impose"
  /\ UNCHANGED <<checkVars, clockVars, keyconfig, stick, event, saved, gameVars,
                 role, link>>

\* sceKernelWaitEventFlagCB, without a timeout; the callback and the flag go.
WaitEnds ==
  /\ where = "wait" /\ event
  /\ where' = "impose" /\ registered' = FALSE /\ event' = FALSE
  /\ UNCHANGED <<checkVars, clockVars, keyconfig, stick, saved, gameVars, role,
                 link>>

\* The driver reports a stick once it is mounted: ms_callback sets the flag.
DriverMounts ==
  /\ registered /\ stick /\ ~event
  /\ event' = TRUE
  /\ UNCHANGED <<checkVars, clockVars, keyconfig, where, stick, registered,
                 saved, gameVars, role, link>>

\* The user removes or inserts the stick; ms_callback may learn of a removal too.
StickMoves ==
  /\ where \in {"dnas", "register", "wait"}
  /\ stick' = ~stick
  /\ event' \in (IF registered /\ stick THEN {event, TRUE} ELSE {event})
  /\ UNCHANGED <<checkVars, clockVars, keyconfig, where, registered, saved,
                 gameVars, role, link>>

\* OnImposeLoad: the settings are read.  The stick is no more looked at.
ImposeLoads ==
  /\ where = "impose"
  /\ stick' = FALSE
  /\ vshcpuspeed' = saved.vsh /\ gamecpuspeed' = saved.game
  /\ where' = IF keyconfig = "GAME" THEN "plugin" ELSE "program"
  /\ UNCHANGED <<checkVars, clock, timeVars, set, firsttime, curtime, pollVars, pushVars,
                 resets, overtaken, keyconfig, registered, event, saved, status, set_cpuspeed,
                 dummied, role, link>>

-------------------------------------------------------------------------------
(* Modules are loaded, linked and started: perhaps a plugin, then the program.   *)

NoPlugin ==
  /\ where = "plugin"
  /\ where' = "program"
  /\ UNCHANGED <<checkVars, clockVars, keyconfig, stickVars, saved, gameVars, role, link>>

\* The XMB is Sony's own module.
LoadableAs(as) ==
  {f \in Files : \/ as = "plugin"
                 \/ IF keyconfig = "GAME" THEN f \in GameFiles ELSE f.kind = "psp" /\ ~f.pbp}

Opens(as) ==
  /\ where = (IF as = "plugin" THEN "plugin" ELSE "program")
  /\ \E f \in LoadableAs(as) : FirmwareOpens(f)
  /\ role' = as
  /\ where' = "load"
  /\ UNCHANGED <<clockVars, keyconfig, stickVars, saved, gameVars, link>>

Checks ==
  /\ where = "load" /\ CheckNext
  /\ UNCHANGED <<clockVars, keyconfig, where, stickVars, saved, gameVars, role, link>>

\* A plugin that is refused is left out; without the program there is no more to do.
Refused ==
  /\ where = "load" /\ step = "refused"
  /\ Idle("none")
  /\ where' = IF role = "plugin" THEN "program" ELSE "halt"
  /\ UNCHANGED <<clockVars, keyconfig, stickVars, saved, gameVars, role, link>>

Loaded ==
  /\ where = "load" /\ step = "probed"
  /\ where' = "link"
  /\ UNCHANGED <<checkVars, clockVars, keyconfig, stickVars, saved, gameVars, role, link>>

\* Who imports: a program is the kernel's or the user's, and one that was made for
\* 6.20 says so in the variables of its nameless entry.
ImportersOf(c) ==
  IF ~c.isKernelMod THEN {[NoImporter EXCEPT !.user = TRUE]}
  ELSE {NoImporter,
        [NoImporter EXCEPT !.sdk620 = TRUE,
           !.entries = <<[libname |-> NoName, funcs |-> {}, vars |-> {SdkVersion}]>>],
        [NoImporter EXCEPT
           !.entries = <<[libname |-> NoName, funcs |-> {}, vars |-> {SdkVersion}]>>]}

\* The firmware links the imports of the program, each through GetFunctionPatched.
Links ==
  /\ where = "link"
  /\ \E by \in ImportersOf(check), i \in Imports :
       link' = [by |-> by, libname |-> i[1], nid |-> i[2],
                got |-> GetFunctionPatched(by, i[1], i[2])]
  /\ Idle("none")
  /\ where' = "start"
  /\ UNCHANGED <<clockVars, keyconfig, stickVars, saved, gameVars, role>>

\* Mutant: set_cpuspeed is set at the first start, whatever the system's status.
SetsGameSpeedHastily ==
  IF ~set_cpuspeed
  THEN /\ clock' = IF keyconfig = "GAME" /\ status' THEN ClockAt(gamecpuspeed) ELSE clock
       /\ dummied' = (keyconfig = "GAME" /\ status' /\ gamecpuspeed \in Accepted)
       /\ set_cpuspeed' = TRUE
  ELSE UNCHANGED <<clock, dummied, set_cpuspeed>>

\* The end of OnModuleStart: the game's speed is set once, when the system is up, and
\* SetSpeed then makes dummies of the functions that change it.
SetsGameSpeed ==
  IF ~set_cpuspeed /\ status'
  THEN /\ clock' = IF keyconfig = "GAME" THEN ClockAt(gamecpuspeed) ELSE clock
       /\ dummied' = (keyconfig = "GAME" /\ gamecpuspeed \in Accepted)
       /\ set_cpuspeed' = TRUE
  ELSE UNCHANGED <<clock, dummied, set_cpuspeed>>

\* PrologueModulePatched: the module's start reaches OnModuleStart.  The system is up
\* when the main program starts; a plugin may start earlier.
Starts ==
  /\ where = "start"
  /\ status' \in (IF role = "main" THEN {TRUE} ELSE {status, TRUE})
  /\ SetsGameSpeed
  /\ IF role = "main" /\ keyconfig = "VSH" THEN VshLoads(saved.vsh)
     ELSE UNCHANGED <<vshcpuspeed, firsttime>>
  /\ where' = IF role = "main" THEN "run" ELSE "program"
  /\ link' = NoLink
  /\ UNCHANGED <<checkVars, timeVars, set, curtime, pollVars, pushVars, resets, overtaken,
                 keyconfig, stickVars, saved, gamecpuspeed, role>>

\* ... unless PrologueModule fails.
StartFails ==
  /\ where = "start"
  /\ where' = IF role = "main" THEN "halt" ELSE "program"
  /\ link' = NoLink
  /\ UNCHANGED <<checkVars, clockVars, keyconfig, stickVars, saved, gameVars, role>>

-------------------------------------------------------------------------------
\* sctrlHENSetSpeed, or the firmware's functions, called by a plugin or the game.
ProgramSetsClock ==
  /\ keyconfig = "GAME" /\ where \in {"program", "run"}
  /\ clock' \in (IF dummied THEN {clock} ELSE (GameSpeeds \cup {222}) \ {0})
  /\ UNCHANGED <<checkVars, vshcpuspeed, timeVars, set, firsttime, curtime, pollVars,
                 pushVars, resets, overtaken, keyconfig, where, stickVars, saved,
                 gameVars, role, link>>

\* The XMB's threads and the time, once the XMB runs.
InXmb(A) ==
  /\ keyconfig = "VSH" /\ where = "run" /\ A
  /\ UNCHANGED <<checkVars, keyconfig, where, stickVars, saved, gameVars, role, link>>

XmbPolls   == InXmb(ClockPolls)
XmbStores  == InXmb(PushStores)
XmbPushes  == InXmb(PushCompares \/ PushCalls \/ PushStamps)
XmbResets  == InXmb(FirmwareResets)
TimePasses == InXmb(Tick)

StickWait == AsksForStick \/ RegistersCallback \/ WaitEnds
Modules   == \/ NoPlugin \/ Opens("plugin") \/ Opens("main") \/ Checks \/ Refused
             \/ Loaded \/ Links \/ Starts \/ StartFails
Clocks    == \/ XmbPolls \/ XmbStores \/ XmbPushes \/ XmbResets \/ TimePasses
             \/ ProgramSetsClock

Next == StickWait \/ DriverMounts \/ StickMoves \/ ImposeLoads \/ Modules \/ Clocks

Spec == Init /\ [][Next]_vars

\* The boot has the processor, the driver mounts a stick that stays, the XMB polls the
\* pad at every frame, and a thread that hands settings over goes on to the end.
FairSpec ==
  /\ Spec
  /\ WF_vars(StickWait) /\ WF_vars(DriverMounts)
  /\ WF_vars(XmbPolls) /\ WF_vars(XmbPushes) /\ WF_vars(TimePasses)
-------------------------------------------------------------------------------
(* Properties; those of a load are ExecCheck's *)

\* A kernel module that was not made for 6.20 gets the function it means by a NID: the
\* firmware's under whatever NID and library it has today, or HEN's where there is none.
\* Every other module gets what the firmware gives it, although some NIDs of today were
\* those of other functions before.
LinksAsMeant ==
  where = "start" =>
    link.got = IF link.by.user \/ link.by.sdk620 THEN GetFunction(link.libname, link.nid)
               ELSE Meant[<<link.libname, link.nid>>]

\* In a game the clock stays what the settings say, if they say anything, whatever the
\* game or a plugin tries, and whether the plugin starts before the system is up.
GameKeepsItsSpeed ==
  (keyconfig = "GAME" /\ where = "run" /\ saved.game # 0) => clock = saved.game

\* Once the first change was made, the clock is the one the settings name or the
\* firmware's 222 MHz, which the next poll repairs: although two threads set it and
\* each looks at what the other writes without a lock.  The exception is `overtaken'.
ClockFollows ==
  (set /\ poll = "idle" /\ push = "idle" /\ ~overtaken) =>
    clock \in {222, Wanted(vshcpuspeed)}

\* In the XMB the clock comes to be the one the settings name, and stays it, however
\* often they change and the firmware resets the clock, and over wraps of the time.
SpeedArrives ==
  <>[]((keyconfig = "VSH" /\ where = "run") =>
         (clock = Wanted(vshcpuspeed) \/ overtaken))

\* The boot goes on from the wait for the memory stick if one is there in the end.
BootGoesOn == <>[]stick => <>(where \notin {"dnas", "register", "wait"})
===============================================================================
