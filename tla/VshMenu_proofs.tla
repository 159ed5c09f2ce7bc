----------------------------- MODULE VshMenu_proofs -----------------------------
(* The VSH menu for every set of buttons the pad may deliver, every number of       *)
(* choices, and every order of the two threads.                                    *)
EXTENDS VshMenu, TLAPS

-------------------------------------------------------------------------------
(* Type correctness *)

LEMMA LimitType ==
  ASSUME NEW lo \in Int, NEW hi \in Int, lo <= hi, NEW v \in Int
  PROVE  Limit(v, lo, hi) \in lo..hi
BY DEF Limit

LEMMA SelectedType ==
  ASSUME menu_sel \in 0..7
  PROVE  Selected \in 0..7
<1>1. CASE "select" \in buttons_on
  BY <1>1 DEF Selected
<1>2. CASE "select" \notin buttons_on
  <2> DEFINE v == menu_sel + (IF "down" \in buttons_on THEN 1 ELSE 0)
                            - (IF "up" \in buttons_on THEN 1 ELSE 0)
  <2>1. v \in Int
    OBVIOUS
  <2> HIDE DEF v
  <2>2. Limit(v, 0, 7) \in 0..7
    BY <2>1 DEF Limit
  <2> USE DEF v
  <2> QED BY <1>2, <2>2 DEF Selected
<1> QED BY <1>1, <1>2

LEMMA ModeAfterType ==
  ASSUME menu_sel \in 0..7
  PROVE  ModeAfter \in 1..6
BY SelectedType DEF ModeAfter

LEMMA GetConfigType ==
  ASSUME FileTypeOK, NEW conf, GetConfig(conf)
  PROVE  conf \in Settings
<1>1. Zeros \in Settings
  BY ChoiceConstant DEF Zeros, Settings
<1> QED BY <1>1 DEF FileTypeOK, GetConfig, Stored

LEMMA DirectionType == Direction \in {NoDirection, -1, 0, 1}
BY DEF Direction, NoDirection

LEMMA MenuCtrlType ==
  ASSUME TypeOK, MenuCtrl
  PROVE  /\ menu_sel' \in 0..7 /\ changed' \in BOOLEAN
         /\ menuConfig' \in Settings /\ mode' \in 1..6
<1>1. menu_sel' \in 0..7 /\ mode' \in 1..6
  BY SelectedType, ModeAfterType DEF MenuCtrl, TypeOK
<1>2. changed' \in BOOLEAN
  BY Zenon DEF MenuCtrl, TypeOK
<1>3. menuConfig' \in Settings
  <2>1. CASE Direction \in {-1, 1} /\ Selected \in 0..2
    <3>1. menuConfig.choice + Direction \in Int
      BY <2>1, ChoiceConstant DEF TypeOK, Settings
    <3>2. Limit(menuConfig.choice + Direction, 0, MaxChoice) \in 0..MaxChoice
      BY <3>1, LimitType, ChoiceConstant
    <3>3. menuConfig' = [menuConfig EXCEPT
                           !.choice = Limit(menuConfig.choice + Direction, 0, MaxChoice)]
      BY <2>1 DEF MenuCtrl
    <3> QED BY <3>2, <3>3 DEF TypeOK, Settings
  <2>2. CASE ~(Direction \in {-1, 1} /\ Selected \in 0..2)
    BY <2>2 DEF MenuCtrl, TypeOK
  <2> QED BY <2>1, <2>2
<1> QED BY <1>1, <1>2, <1>3

LEMMA ButtonsFuncType ==
  ASSUME TypeOK, ButtonsFunc
  PROVE  /\ mode' \in 0..6 /\ exit_mode' \in 0..5
         /\ menu_sel' \in 0..7 /\ changed' \in BOOLEAN /\ menuConfig' \in Settings
<1>1. CASE mode = 0
  BY <1>1 DEF TypeOK, ButtonsFunc
<1>2. CASE mode = 1 /\ menu_mode = 0
  BY <1>2 DEF TypeOK, ButtonsFunc
<1>3. CASE mode = 1 /\ menu_mode # 0
  <2>1. MenuCtrl /\ UNCHANGED exit_mode
    BY <1>3 DEF ButtonsFunc
  <2> QED BY <2>1, MenuCtrlType DEF TypeOK
<1>4. CASE mode \notin {0, 1}
  BY <1>4 DEF TypeOK, ButtonsFunc
<1> QED BY <1>1, <1>2, <1>3, <1>4

LEMMA TypingInit == Init => TypeOK
<1> SUFFICES ASSUME Init PROVE TypeOK
  OBVIOUS
<1>1. Zeros \in Settings
  BY ChoiceConstant DEF Zeros, Settings
<1>2. FileTypeOK /\ config \in Settings
  BY GetConfigType DEF Init, FileInit, FileTypeOK
<1>3. pad \in Pads /\ seen \subseteq Buttons
  BY PadConstants DEF Init
<1>4. xmbConfig \in Settings /\ menuConfig \in Settings
  BY <1>1 DEF Init
<1>5. /\ ctrl_handler \in {"null", "live", "stale"}
      /\ loaded \in BOOLEAN /\ inSettings \in BOOLEAN /\ lateKill \in BOOLEAN
      /\ xmb \in XmbStates /\ thread \in ThreadStates
  BY DEF Init, XmbStates, ThreadStates
<1>6. exit_mode \in 0..5 /\ menu_mode \in 0..2 /\ mode \in 0..6 /\ menu_sel \in 0..7
  BY SMT DEF Init
<1>7. cur_buttons \subseteq Buttons /\ buttons_on \subseteq Buttons /\ changed \in BOOLEAN
      /\ tainted \subseteq {"config", "menu"}
  BY DEF Init
<1> QED BY <1>2, <1>3, <1>4, <1>5, <1>6, <1>7 DEF TypeOK

LEMMA TypingStep == TypeOK /\ [Next]_vars => TypeOK'
<1> SUFFICES ASSUME TypeOK, [Next]_vars PROVE TypeOK'
  OBVIOUS
<1> USE DEF TypeOK, FileTypeOK, menuVars, xmbVars, fileVars, history
<1>1. CASE Poll
  <2>1. pad \subseteq Buttons
    BY PadConstants
  <2>2. CASE PollPasses
    BY <2>1, <2>2 DEF PollPasses, XmbStates
  <2>3. CASE PollLoads
    BY <2>1, <2>3 DEF PollLoads, XmbStates, ThreadStates
  <2>4. CASE PollFeeds
    BY <2>1, <2>4 DEF PollFeeds, XmbStates
  <2>5. CASE PollCallsStale
    BY <2>5 DEF PollCallsStale, XmbStates
  <2>6. CASE PollStops
    BY <2>1, <2>6 DEF PollStops, XmbStates
  <2> QED BY <1>1, <2>2, <2>3, <2>4, <2>5, <2>6 DEF Poll
<1>2. CASE StopReturns
  <2>1. Zeros \in Settings
    BY ChoiceConstant DEF Zeros, Settings
  <2>2. lateKill' \in BOOLEAN
    BY <1>2, Zenon DEF StopReturns
  <2>3. file' \in Settings \cup {Torn} /\ saveFailed' \in BOOLEAN
    BY <1>2 DEF StopReturns
  <2>4. ctrl_handler' \in {"null", "live", "stale"}
    BY <1>2 DEF StopReturns
  <2>5. /\ exit_mode' \in 0..5 /\ menu_mode' \in 0..2 /\ mode' \in 0..6 /\ menu_sel' \in 0..7
        /\ menuConfig' \in Settings
    BY <1>2, <2>1 DEF StopReturns, FreshMenu
  <2>6. cur_buttons' \subseteq Buttons /\ buttons_on' \subseteq Buttons /\ changed' \in BOOLEAN
    BY <1>2 DEF StopReturns, FreshMenu
  <2>7. /\ pad' \in Pads /\ seen' \subseteq Buttons /\ config' \in Settings
        /\ xmbConfig' \in Settings /\ loaded' \in BOOLEAN /\ inSettings' \in BOOLEAN
        /\ xmb' \in XmbStates /\ thread' \in ThreadStates
        /\ tainted' \subseteq {"config", "menu"}
    BY <1>2 DEF StopReturns, XmbStates, ThreadStates
  <2> QED BY <2>2, <2>3, <2>4, <2>5, <2>6, <2>7
<1>3. CASE XmbActs
  <2>1. CASE XmbOpensSettings
    BY <1>3, <2>1, GetConfigType DEF XmbOpensSettings, XmbStates
  <2>2. CASE XmbSets
    BY <2>2 DEF XmbSets, XmbStates, Settings
  <2>3. CASE XmbIgnores
    BY <2>3 DEF XmbIgnores, XmbStates
  <2> QED BY <1>3, <2>1, <2>2, <2>3 DEF XmbActs
<1>4. CASE XmbSaves
  BY <1>4 DEF XmbSaves, OpenTruncates, OpenFails, WriteSucceeds, WriteFallsShort, Overtaken, XmbStates
<1>5. CASE XmbPushes
  BY <1>5 DEF XmbPushes, ExitVSHMenu, TakesOver, XmbStates
<1>6. CASE MenuThread
  <2>1. CASE ThreadStarts
    BY <2>1, GetConfigType DEF ThreadStarts, ThreadStates
  <2>2. CASE ThreadRegisters
    BY <2>2 DEF ThreadRegisters, ThreadStates
  <2>3. CASE ThreadLoops
    <3>1. menu_mode' \in 0..2
      BY <2>3 DEF ThreadLoops
    <3> QED BY <2>3, <3>1, ButtonsFuncType DEF ThreadLoops
  <2>4. CASE ThreadLeaves
    BY <2>4 DEF ThreadLeaves, ThreadStates
  <2>5. CASE ThreadSaves
    BY <2>5 DEF ThreadSaves, OpenTruncates, OpenFails, WriteSucceeds, WriteFallsShort,
       ThreadStates
  <2>6. CASE ThreadPower \/ ThreadUnsets \/ ThreadPushes \/ ThreadEnds
    BY <2>6 DEF ThreadPower, ThreadUnsets, ThreadPushes, TakesOver, ThreadEnds, ThreadStates
  <2> QED BY <1>6, <2>1, <2>2, <2>3, <2>4, <2>5, <2>6 DEF MenuThread
<1>7. CASE PadChanges
  BY <1>7 DEF PadChanges
<1>8. CASE UNCHANGED vars
  BY <1>8 DEF vars
<1> QED BY <1>1, <1>2, <1>3, <1>4, <1>5, <1>6, <1>7, <1>8 DEF Next

\* Every variable of the menu keeps its range: the selection and the settings wrap.
THEOREM Typing == Spec => []TypeOK
<1>1. TypeOK /\ [Next]_vars => TypeOK'
  BY TypingStep
<1> QED BY TypingInit, <1>1, PTL DEF Spec
-------------------------------------------------------------------------------
(* The inductive invariant *)

Serving == {"loop", "save", "write", "power", "unset"}

\* A live handler is that of a loaded menu whose thread has registered it and not
\* yet removed it.
LiveHandler == ctrl_handler = "live" => loaded /\ thread \in Serving

\* What is not loaded has no thread.
NoThread == ~loaded => thread = "none"

\* A handler goes stale, and is called then, only after a late termination.
StaleOnlyLate == ~lateKill => ctrl_handler # "stale" /\ xmb # "crashed"

\* Before it is registered a menu has got no buttons, so it has changed nothing.
FreshUnfed == thread \in {"get", "register"} =>
                cur_buttons = {} /\ buttons_on = {} /\ mode = 0 /\ ~changed

\* The menu's statics are fresh while it is not loaded.
FreshUnloaded == ~loaded => cur_buttons = {} /\ buttons_on = {} /\ mode = 0 /\ ~changed

\* A menu that got buttons holds the handler, and the XMB gets none and does nothing,
\* until the handler is removed.
Fed == (thread \in Serving /\ (cur_buttons # {} \/ buttons_on # {} \/ mode # 0 \/ changed)) =>
         ctrl_handler = "live" /\ xmb \in {"poll", "act"} /\ seen \subseteq {"hw"}

\* Only what changed is saved.
SavesChanges == thread \in {"save", "write"} => changed

Inv == LiveHandler /\ NoThread /\ StaleOnlyLate /\ FreshUnfed /\ FreshUnloaded /\ Fed
       /\ SavesChanges

LEMMA InvInit == Init => Inv
BY DEF Init, Inv, LiveHandler, NoThread, StaleOnlyLate, FreshUnfed, FreshUnloaded, Fed,
       SavesChanges, Serving

\* A menu that was not fed is not changed by its thread.
LEMMA UnfedStays ==
  ASSUME TypeOK, ThreadLoops, cur_buttons = {}, mode = 0
  PROVE  mode' = mode /\ changed' = changed
BY DEF ThreadLoops, ButtonsFunc

LEMMA PollStep ==
  ASSUME TypeOK, Inv, Poll
  PROVE  Inv'
<1> USE DEF Inv, LiveHandler, NoThread, StaleOnlyLate, FreshUnfed, FreshUnloaded, Fed,
            SavesChanges, Serving, menuVars, xmbVars, fileVars, history
<1>1. CASE PollPasses
  BY <1>1 DEF PollPasses
<1>2. CASE PollLoads
  BY <1>2 DEF PollLoads
<1>3. CASE PollFeeds
  BY <1>3 DEF PollFeeds
<1>4. CASE PollCallsStale
  BY <1>4 DEF PollCallsStale
<1>5. CASE PollStops
  BY <1>5 DEF PollStops
<1> QED BY <1>1, <1>2, <1>3, <1>4, <1>5 DEF Poll

LEMMA StopStep ==
  ASSUME TypeOK, Inv, StopReturns
  PROVE  Inv'
<1> USE DEF Inv, LiveHandler, NoThread, StaleOnlyLate, FreshUnfed, FreshUnloaded, Fed,
            SavesChanges, Serving
<1>1. ctrl_handler' # "live" /\ thread' = "none" /\ xmb' = "act"
  BY DEF StopReturns
<1>2. cur_buttons' = {} /\ buttons_on' = {} /\ mode' = 0 /\ changed' = FALSE
  BY DEF StopReturns, FreshMenu
<1>3. StaleOnlyLate'
  <2>1. CASE ctrl_handler = "live"
    BY <2>1 DEF StopReturns
  <2>2. CASE ctrl_handler # "live"
    BY <2>2 DEF StopReturns
  <2> QED BY <2>1, <2>2
<1> QED BY <1>1, <1>2, <1>3

LEMMA XmbStep ==
  ASSUME TypeOK, Inv, XmbActs \/ XmbSaves \/ XmbPushes
  PROVE  Inv'
<1> USE DEF Inv, LiveHandler, NoThread, StaleOnlyLate, FreshUnfed, FreshUnloaded, Fed,
            SavesChanges, Serving, menuVars, xmbVars, fileVars, history
<1>1. CASE XmbOpensSettings
  BY <1>1 DEF XmbOpensSettings
<1>2. CASE XmbSets
  BY <1>2 DEF XmbSets
<1>3. CASE XmbIgnores
  BY <1>3 DEF XmbIgnores
<1>4. CASE XmbSaves
  BY <1>4 DEF XmbSaves
<1>5. CASE XmbPushes
  BY <1>5 DEF XmbPushes, ExitVSHMenu, TakesOver
<1> QED BY <1>1, <1>2, <1>3, <1>4, <1>5 DEF XmbActs

LEMMA ThreadStep ==
  ASSUME TypeOK, Inv, MenuThread
  PROVE  Inv'
<1> USE DEF Inv, LiveHandler, NoThread, StaleOnlyLate, FreshUnfed, FreshUnloaded, Fed,
            SavesChanges, Serving, menuVars, xmbVars, fileVars, history
<1>1. CASE ThreadStarts
  BY <1>1 DEF ThreadStarts
<1>2. CASE ThreadRegisters
  BY <1>2 DEF ThreadRegisters
<1>3. CASE ThreadLoops
  <2>1. Fed'
    <3>1. CASE cur_buttons # {} \/ buttons_on # {} \/ mode # 0 \/ changed
      BY <1>3, <3>1 DEF ThreadLoops
    <3>2. CASE cur_buttons = {} /\ buttons_on = {} /\ mode = 0 /\ ~changed
      BY <1>3, <3>2, UnfedStays DEF ThreadLoops
    <3> QED BY <3>1, <3>2
  <2> QED BY <1>3, <2>1 DEF ThreadLoops
<1>4. CASE ThreadLeaves
  BY <1>4 DEF ThreadLeaves
<1>5. CASE ThreadSaves
  BY <1>5 DEF ThreadSaves
<1>6. CASE ThreadPower
  BY <1>6 DEF ThreadPower
<1>7. CASE ThreadUnsets
  BY <1>7 DEF ThreadUnsets
<1>8. CASE ThreadPushes
  BY <1>8 DEF ThreadPushes, TakesOver
<1>9. CASE ThreadEnds
  BY <1>9 DEF ThreadEnds
<1> QED BY <1>1, <1>2, <1>3, <1>4, <1>5, <1>6, <1>7, <1>8, <1>9 DEF MenuThread

LEMMA InvStep == TypeOK /\ Inv /\ [Next]_vars => Inv'
<1> SUFFICES ASSUME TypeOK, Inv, [Next]_vars PROVE Inv'
  OBVIOUS
<1> USE DEF Inv, LiveHandler, NoThread, StaleOnlyLate, FreshUnfed, FreshUnloaded, Fed,
            SavesChanges, menuVars, xmbVars, fileVars, history
<1>1. CASE PadChanges
  BY <1>1 DEF PadChanges
<1>2. CASE UNCHANGED vars
  BY <1>2 DEF vars
<1> QED BY <1>1, <1>2, PollStep, StopStep, XmbStep, ThreadStep DEF Next

\* The invariant holds whatever buttons the pad delivers, also several at once.
THEOREM Inductive == Spec => [](TypeOK /\ Inv)
<1>1. Init => TypeOK /\ Inv
  BY TypingInit, InvInit
<1>2. (TypeOK /\ Inv) /\ [Next]_vars => (TypeOK /\ Inv)'
  BY TypingStep, InvStep
<1> QED BY <1>1, <1>2, PTL DEF Spec

LEMMA InvOneWriter == Inv => OneWriter
BY DEF Inv, SavesChanges, Fed, Serving, OneWriter

\* While the menu saves the settings, the XMB neither saves them nor stops the menu.
THEOREM WritesAlone == Spec => []OneWriter
BY InvOneWriter, Inductive, PTL

\* If no termination came too late, no handler is called after its menu is gone.
THEOREM LeavesNothing == Spec => []NothingLeftBehind
<1>1. Inv => NothingLeftBehind
  BY DEF Inv, LiveHandler, NoThread, StaleOnlyLate, NothingLeftBehind
<1> QED BY <1>1, Inductive, PTL

-------------------------------------------------------------------------------
(* The settings in use are the saved ones *)

\* A menu that has changed nothing still has what the file holds.
CopyCurrent ==
  (thread \in {"register", "loop"} /\ ~changed /\ "menu" \notin tainted)
    => menuConfig = Stored

\* What is handed over is what was saved.
HandsOverSaved ==
  /\ (~saveFailed /\ thread \in {"power", "unset", "push"} /\ "menu" \notin tainted)
       => menuConfig = Stored
  /\ (~saveFailed /\ xmb = "push") => xmbConfig = Stored

\* A file the XMB has opened is truncated until it is written.
Truncated == xmb = "write" => file = Torn

AInv == CopyCurrent /\ HandsOverSaved /\ Truncated /\ AgreeWhenQuiet

LEMMA SavedIsStored ==
  ASSUME NEW conf \in Settings, WriteSucceeds(conf)
  PROVE  file' = conf /\ Stored' = conf
<1>1. conf # Torn
  BY DEF Settings, Torn
<1> QED BY <1>1 DEF WriteSucceeds, Stored

LEMMA AInvInit == Init => AInv
BY DEF Init, AInv, CopyCurrent, HandsOverSaved, Truncated, AgreeWhenQuiet

LEMMA APollStep ==
  ASSUME Inv, AInv, Poll
  PROVE  AInv'
<1> USE DEF AInv, CopyCurrent, HandsOverSaved, Truncated, AgreeWhenQuiet, Stored,
            menuVars, xmbVars, fileVars, history
<1>1. CASE PollPasses
  BY <1>1 DEF PollPasses
<1>2. CASE PollLoads
  BY <1>2 DEF PollLoads, Inv, NoThread
<1>3. CASE PollFeeds
  BY <1>3 DEF PollFeeds
<1>4. CASE PollCallsStale
  BY <1>4 DEF PollCallsStale
<1>5. CASE PollStops
  BY <1>5 DEF PollStops
<1> QED BY <1>1, <1>2, <1>3, <1>4, <1>5 DEF Poll

LEMMA AStopStep ==
  ASSUME AInv, StopReturns
  PROVE  AInv'
<1>1. xmb = "stop" /\ xmb' = "act" /\ thread' = "none" /\ saveFailed' = saveFailed
      /\ config' = config /\ ("config" \in tainted' <=> "config" \in tainted)
  BY DEF StopReturns
<1>2. ~lateKill' => ~lateKill /\ thread \in {"none", "get", "register", "end"}
  BY DEF StopReturns
<1>3. thread \in {"none", "get", "register", "end"} => file' = file
  BY DEF StopReturns
<1> QED BY <1>1, <1>2, <1>3 DEF AInv, CopyCurrent, HandsOverSaved, Truncated, AgreeWhenQuiet, Stored

\* While the XMB writes the file, the menu's copy is overtaken, unless it is still to be
\* read; and the menu writes nothing then.
LEMMA AXmbSavesStep ==
  ASSUME TypeOK, OneWriter, AInv, XmbSaves
  PROVE  AInv'
<1> USE DEF AInv, CopyCurrent, HandsOverSaved, Truncated, AgreeWhenQuiet, menuVars, xmbVars, fileVars
<1>1. xmb \in {"open", "write"} /\ xmb' \in {"write", "push"}
      /\ UNCHANGED <<config, xmbConfig, thread, menuConfig, changed, lateKill>>
  BY DEF XmbSaves
<1>2. thread \notin {"save", "write"}
  BY <1>1 DEF OneWriter
<1>3. (~saveFailed' /\ xmb' = "push") => xmbConfig' = Stored'
  BY SavedIsStored DEF XmbSaves, OpenTruncates, OpenFails, WriteFallsShort, TypeOK
<1>4. Truncated'
  BY DEF XmbSaves, OpenTruncates
<1>5. CASE file' # file
  <2>1. thread \notin {"none", "get"} => "menu" \in tainted'
    BY <1>5 DEF XmbSaves, Overtaken
  <2> QED BY <1>1, <1>3, <1>4, <2>1
<1>6. CASE file' = file
  <2>1. saveFailed' = FALSE => saveFailed = FALSE
    <3>1. ASSUME WriteSucceeds(xmbConfig), xmb = "write" PROVE FALSE
      BY <1>6, <3>1, SavedIsStored DEF TypeOK, Settings, Torn
    <3> QED BY <3>1 DEF XmbSaves, OpenTruncates, OpenFails, WriteFallsShort
  <2>2. "menu" \in tainted => "menu" \in tainted'
    BY DEF XmbSaves
  <2>3. Stored' = Stored
    BY <1>6 DEF Stored
  <2>4. saveFailed' \in BOOLEAN /\ saveFailed \in BOOLEAN
    BY DEF TypeOK, FileTypeOK, XmbSaves, OpenTruncates, OpenFails, WriteSucceeds,
           WriteFallsShort
  <2> QED BY <1>1, <1>3, <1>4, <2>1, <2>2, <2>3, <2>4
<1> QED BY <1>5, <1>6

LEMMA AXmbStep ==
  ASSUME TypeOK, Inv, AInv, XmbActs \/ XmbSaves \/ XmbPushes
  PROVE  AInv'
<1> USE DEF AInv, CopyCurrent, HandsOverSaved, Truncated, AgreeWhenQuiet, Stored,
            menuVars, xmbVars, fileVars, history
<1>1. CASE XmbOpensSettings
  BY <1>1 DEF XmbOpensSettings
<1>2. CASE XmbSets
  BY <1>2 DEF XmbSets
<1>3. CASE XmbIgnores
  BY <1>3 DEF XmbIgnores
<1>4. CASE XmbSaves
  BY <1>4, AXmbSavesStep, InvOneWriter
<1>5. CASE XmbPushes
  BY <1>5 DEF XmbPushes, ExitVSHMenu, TakesOver
<1> QED BY <1>1, <1>2, <1>3, <1>4, <1>5 DEF XmbActs

LEMMA AThreadStep ==
  ASSUME TypeOK, Inv, AInv, MenuThread
  PROVE  AInv'
<1> USE DEF AInv, CopyCurrent, HandsOverSaved, Truncated, AgreeWhenQuiet, menuVars, xmbVars, fileVars,
            history
<1>1. CASE ThreadStarts
  BY <1>1 DEF ThreadStarts, Stored
<1>2. CASE ThreadRegisters
  BY <1>2 DEF ThreadRegisters, Stored
<1>3. CASE ThreadLoops
  <2>1. Stored' = Stored
    BY <1>3 DEF ThreadLoops, Stored
  <2>2. ~changed' => ~changed /\ menuConfig' = menuConfig
    BY <1>3, Zenon DEF ThreadLoops, ButtonsFunc, MenuCtrl
  <2> QED BY <1>3, <2>1, <2>2 DEF ThreadLoops
<1>4. CASE ThreadLeaves
  BY <1>4 DEF ThreadLeaves, Stored
<1>5. CASE ThreadSaves
  <2>1. xmb \in {"poll", "act"} /\ xmb' = xmb /\ thread' \in {"write", "power"}
    BY <1>5 DEF ThreadSaves, Inv, SavesChanges, Fed, Serving
  <2>2. (~saveFailed' /\ thread' = "power") => menuConfig' = Stored'
    BY <1>5, SavedIsStored
       DEF ThreadSaves, OpenTruncates, OpenFails, WriteFallsShort, TypeOK
  <2> QED BY <1>5, <2>1, <2>2 DEF ThreadSaves
<1>6. CASE ThreadPower
  BY <1>6 DEF ThreadPower, Stored
<1>7. CASE ThreadUnsets
  BY <1>7 DEF ThreadUnsets, Stored
<1>8. CASE ThreadPushes
  BY <1>8 DEF ThreadPushes, TakesOver, Stored
<1>9. CASE ThreadEnds
  BY <1>9 DEF ThreadEnds, Stored
<1> QED BY <1>1, <1>2, <1>3, <1>4, <1>5, <1>6, <1>7, <1>8, <1>9 DEF MenuThread

LEMMA AInvStep ==
  ASSUME TypeOK, Inv, AInv, [Next]_vars
  PROVE  AInv'
<1> USE DEF AInv, CopyCurrent, HandsOverSaved, Truncated, AgreeWhenQuiet, Stored,
            menuVars, xmbVars, fileVars, history
<1>1. CASE PadChanges
  BY <1>1 DEF PadChanges
<1>2. CASE UNCHANGED vars
  BY <1>2 DEF vars
<1> QED BY <1>1, <1>2, APollStep, AStopStep, AXmbStep, AThreadStep DEF Next

\* Whoever saved last, the menu or TN Settings, systemctrl uses what was saved, unless
\* the copy it took over stems from a failed read or was overtaken by TN Settings.
THEOREM UsesTheSaved == Spec => []AgreeWhenQuiet
<1>1. (TypeOK /\ Inv /\ AInv) /\ [Next]_vars => AInv'
  BY AInvStep
<1>2. AInv => AgreeWhenQuiet
  BY DEF AInv
<1> QED BY <1>1, <1>2, AInvInit, Inductive, PTL DEF Spec
===============================================================================
