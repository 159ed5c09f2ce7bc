-------------------------------- MODULE VshMenu --------------------------------
(* The VSH menu and the settings it shares with TN Settings.                    *)
(*                                                                              *)
(* Two threads meet: the XMB's, which reads the pad through                     *)
(* sceCtrlReadBufferPositivePatched (systemctrl/sysmodpatches.c), loads, feeds  *)
(* and unloads the menu there, and then acts on the buttons that are left to it *)
(* (xmbctrl/main.c: opening TN Settings, changing a value); and the menu's own, *)
(* VshMenu_Thread (vshmenu/main.c).  Each has its copy of the settings, as      *)
(* systemctrl has.  The clock part of the pad's hook is not modelled here.      *)
EXTENDS TnConfig, FiniteSets

CONSTANT Pads   \* the sets of buttons that can be down at once

Buttons == {"hw", "select", "cross", "left", "right", "up", "down"}

ASSUME PadConstants == Pads \subseteq SUBSET Buttons /\ {"hw"} \in Pads

VARIABLES
  pad,            \* the buttons that are down; "hw" stands for the hardware bits
  config,         \* systemctrl's copy of the settings
  ctrl_handler,   \* "null", "live" (of the loaded menu) or "stale" (of one unloaded)
  loaded,         \* the module TNVshMenu is loaded
  xmb,            \* where the XMB's thread is
  xmbConfig,      \* xmbctrl's copy of the settings
  inSettings,     \* TN Settings was opened, so xmbctrl's copy was read
  seen,           \* the buttons the poll left to the XMB, until it has acted on them
  thread,         \* where the menu's thread is, "none" when there is none
  exit_mode, menu_mode, mode, cur_buttons, buttons_on, changed, menu_sel,
  menuConfig,     \* the menu's copy of the settings
  lateKill,       \* history: module_stop terminated a thread that had registered
                  \* and not yet handed its settings over
  tainted         \* history: which of "menu" and "config" may differ from the file, as
                  \* the menu's copy stems from a failed read, or TN Settings has
                  \* written the file since, and systemctrl may have taken it over

menuVars == <<exit_mode, menu_mode, mode, cur_buttons, buttons_on, changed,
              menu_sel, menuConfig>>
xmbVars  == <<xmb, xmbConfig, inSettings, seen>>
history  == <<lateKill, tainted>>
vars == <<fileVars, pad, config, ctrl_handler, loaded, xmbVars, thread, menuVars,
          history>>

XmbStates    == {"poll", "stop", "act", "open", "write", "push", "crashed"}
ThreadStates == {"none", "get", "register", "loop", "save", "write", "power",
                 "unset", "push", "end"}

TypeOK ==
  /\ FileTypeOK
  /\ pad \in Pads /\ seen \subseteq Buttons
  /\ config \in Settings /\ xmbConfig \in Settings /\ menuConfig \in Settings
  /\ ctrl_handler \in {"null", "live", "stale"}
  /\ loaded \in BOOLEAN /\ inSettings \in BOOLEAN /\ lateKill \in BOOLEAN
  /\ xmb \in XmbStates /\ thread \in ThreadStates
  /\ exit_mode \in 0..5 /\ menu_mode \in 0..2 /\ mode \in 0..6
  /\ cur_buttons \subseteq Buttons /\ buttons_on \subseteq Buttons
  /\ changed \in BOOLEAN /\ menu_sel \in 0..7
  /\ tainted \subseteq {"config", "menu"}

\* The statics of a menu that is not loaded, or not yet started.
FreshMenu ==
  /\ exit_mode' = 0 /\ menu_mode' = 0 /\ mode' = 0
  /\ cur_buttons' = {} /\ buttons_on' = {}
  /\ changed' = FALSE /\ menu_sel' = 0
  /\ menuConfig' = Zeros

\* OnVshLoad has read the settings, or failed to.
Init ==
  /\ FileInit
  /\ pad = {"hw"} /\ seen = {}
  /\ GetConfig(config)
  /\ tainted = IF config = Stored THEN {} ELSE {"config"}
  /\ ctrl_handler = "null" /\ loaded = FALSE
  /\ xmb = "poll" /\ xmbConfig = Zeros /\ inSettings = FALSE
  /\ thread = "none"
  /\ exit_mode = 0 /\ menu_mode = 0 /\ mode = 0
  /\ cur_buttons = {} /\ buttons_on = {}
  /\ changed = FALSE /\ menu_sel = 0 /\ menuConfig = Zeros
  /\ lateKill = FALSE

-------------------------------------------------------------------------------
(* sceCtrlReadBufferPositivePatched, on the XMB's thread *)

\* No menu, and none wanted: the XMB gets the buttons.
PollPasses ==
  /\ xmb = "poll" /\ ~loaded
  /\ "select" \notin pad \/ config.novshmenu
  /\ seen' = pad
  /\ xmb' = "act"
  /\ UNCHANGED <<fileVars, pad, config, ctrl_handler, loaded, xmbConfig, inSettings,
                 thread, menuVars, history>>

\* SELECT: the menu is loaded and started (its thread may fail to be created),
\* and SELECT is taken from the XMB.  A browser, camera or OSK module, or a failing
\* load, leaves everything to the XMB.
PollLoads ==
  /\ xmb = "poll" /\ ~loaded
  /\ "select" \in pad /\ ~config.novshmenu
  /\ xmb' = "act"
  /\ \/ /\ loaded' = TRUE
        /\ seen' = pad \ {"select"}
        /\ thread' \in {"get", "none"}
     \/ /\ seen' = pad
        /\ UNCHANGED <<loaded, thread>>
  /\ UNCHANGED <<fileVars, pad, config, ctrl_handler, xmbConfig, inSettings, menuVars,
                 history>>

\* Mutant: ctrl_handler leaves the buttons to the XMB.
PollFeedsUnmasked ==
  /\ xmb = "poll" /\ loaded /\ ctrl_handler = "live"
  /\ buttons_on' = pad \ cur_buttons
  /\ cur_buttons' = pad
  /\ seen' = pad
  /\ xmb' = "act"
  /\ UNCHANGED <<fileVars, pad, config, ctrl_handler, loaded, xmbConfig, inSettings,
                 thread, exit_mode, menu_mode, mode, changed, menu_sel, menuConfig,
                 history>>

\* The menu's ctrl_handler takes note of the buttons and masks them.
PollFeeds ==
  /\ xmb = "poll" /\ loaded /\ ctrl_handler = "live"
  /\ buttons_on' = pad \ cur_buttons
  /\ cur_buttons' = pad
  /\ seen' = pad \cap {"hw"}
  /\ xmb' = "act"
  /\ UNCHANGED <<fileVars, pad, config, ctrl_handler, loaded, xmbConfig, inSettings,
                 thread, exit_mode, menu_mode, mode, changed, menu_sel, menuConfig,
                 history>>

\* The handler of a menu that is gone: what happens then is undefined.
PollCallsStale ==
  /\ xmb = "poll" /\ loaded /\ ctrl_handler = "stale"
  /\ xmb' = "crashed"
  /\ UNCHANGED <<fileVars, pad, config, ctrl_handler, loaded, xmbConfig, inSettings,
                 seen, thread, menuVars, history>>

\* A menu without handler is stopped: module_stop asks its thread to end and waits.
PollStops ==
  /\ xmb = "poll" /\ loaded /\ ctrl_handler = "null"
  /\ exit_mode' = 1
  /\ seen' = pad
  /\ xmb' = "stop"
  /\ UNCHANGED <<fileVars, pad, config, ctrl_handler, loaded, xmbConfig, inSettings,
                 thread, menu_mode, mode, cur_buttons, buttons_on, changed, menu_sel,
                 menuConfig, history>>

\* Mutant: the module is unloaded whatever became of its thread.
StopAbandonsThread ==
  /\ xmb = "stop"
  /\ loaded' = FALSE
  /\ ctrl_handler' = IF ctrl_handler = "live" THEN "stale" ELSE ctrl_handler
  /\ xmb' = "act"
  /\ UNCHANGED <<fileVars, pad, config, xmbConfig, inSettings, seen, thread, menuVars,
                 history>>

\* The thread has ended, or 100 ms have passed and it is terminated; the module is
\* unloaded, and a handler it registered meanwhile stays behind.
StopReturns ==
  /\ xmb = "stop"
  /\ thread' = "none"
  /\ lateKill' = (lateKill \/ thread \notin {"none", "get", "register", "end"})
  /\ tainted' = tainted \ {"menu"}
  /\ loaded' = FALSE
  /\ ctrl_handler' = IF ctrl_handler = "live" THEN "stale" ELSE ctrl_handler
  /\ file' = IF thread = "write" THEN Torn ELSE file
  /\ FreshMenu
  /\ xmb' = "act"
  /\ UNCHANGED <<saveFailed, pad, config, xmbConfig, inSettings, seen>>

-------------------------------------------------------------------------------
(* The XMB acts on the buttons it got *)

\* systemctrl takes a copy over.
TakesOver(copy, conf) ==
  /\ config' = conf
  /\ tainted' = IF copy \in tainted THEN tainted \cup {"config"} ELSE tainted \ {"config"}
  /\ UNCHANGED lateKill

\* vctrlVSHExitVSHMenu(conf)
ExitVSHMenu(copy, conf) == ctrl_handler' = "null" /\ TakesOver(copy, conf)

\* ExecuteActionPatched: TN Settings is opened.
XmbOpensSettings ==
  /\ xmb = "act" /\ "cross" \in seen
  /\ GetConfig(xmbConfig')
  /\ inSettings' = TRUE
  /\ xmb' = "poll" /\ seen' = {}
  /\ UNCHANGED <<fileVars, pad, config, ctrl_handler, loaded, thread, menuVars,
                 history>>

\* vshSetRegistryValuePatched: one setting changes in xmbctrl's copy, and the
\* whole copy is to be saved.
XmbSets ==
  /\ xmb = "act" /\ "cross" \in seen /\ inSettings
  /\ \/ \E c \in 0..MaxChoice : xmbConfig' = [xmbConfig EXCEPT !.choice = c]
     \/ \E b \in BOOLEAN : xmbConfig' = [xmbConfig EXCEPT !.novshmenu = b]
  /\ xmb' = "open" /\ seen' = {}
  /\ UNCHANGED <<fileVars, pad, config, ctrl_handler, loaded, inSettings, thread,
                 menuVars, history>>

\* The menu whose copy is no longer what the file holds.
Overtaken == IF file' # file /\ thread \notin {"none", "get"} THEN {"menu"} ELSE {}

\* sctrlSESetConfig
XmbSaves ==
  /\ \/ xmb = "open" /\ OpenTruncates /\ xmb' = "write"
     \/ xmb = "open" /\ OpenFails /\ xmb' = "push"
     \/ xmb = "write" /\ (WriteSucceeds(xmbConfig) \/ WriteFallsShort) /\ xmb' = "push"
  /\ tainted' = tainted \cup Overtaken
  /\ UNCHANGED <<pad, config, ctrl_handler, loaded, xmbConfig, inSettings, seen, thread,
                 menuVars, lateKill>>

\* vctrlVSHExitVSHMenu
XmbPushes ==
  /\ xmb = "push"
  /\ ExitVSHMenu("xmb", xmbConfig)
  /\ xmb' = "poll"
  /\ UNCHANGED <<fileVars, pad, loaded, xmbConfig, inSettings, seen, thread, menuVars>>

\* Anything else the buttons may mean to the XMB.
XmbIgnores ==
  /\ xmb = "act"
  /\ xmb' = "poll" /\ seen' = {}
  /\ UNCHANGED <<fileVars, pad, config, ctrl_handler, loaded, xmbConfig, inSettings,
                 thread, menuVars, history>>

-------------------------------------------------------------------------------
(* VshMenu_Thread *)

\* Mutant: the menu starts from its zeroed settings.
ThreadStartsUnread ==
  /\ thread = "get"
  /\ thread' = "register"
  /\ UNCHANGED <<fileVars, pad, config, ctrl_handler, loaded, xmbVars, menuVars, history>>

ThreadStarts ==
  /\ thread = "get"
  /\ GetConfig(menuConfig')
  /\ tainted' = IF menuConfig' = Stored THEN tainted \ {"menu"} ELSE tainted \cup {"menu"}
  /\ thread' = "register"
  /\ UNCHANGED <<fileVars, pad, config, ctrl_handler, loaded, xmbVars, exit_mode,
                 menu_mode, mode, cur_buttons, buttons_on, changed, menu_sel, lateKill>>

\* vctrlVSHRegisterVshMenu
ThreadRegisters ==
  /\ thread = "register"
  /\ ctrl_handler' = "live"
  /\ thread' = "loop"
  /\ UNCHANGED <<fileVars, pad, config, loaded, xmbVars, menuVars, history>>

\* limit: wraps a value that left lo..hi.
Limit(v, lo, hi) == IF v < lo THEN hi ELSE IF v > hi THEN lo ELSE v

\* menu_ctrl: the newly pressed buttons move the selection or act on it.
Selected ==
  IF "select" \in buttons_on THEN 7
  ELSE Limit(menu_sel + (IF "down" \in buttons_on THEN 1 ELSE 0)
                      - (IF "up" \in buttons_on THEN 1 ELSE 0), 0, 7)

NoDirection == -2

Direction == CASE "select" \in buttons_on -> 0
               [] "select" \notin buttons_on /\ "right" \in buttons_on -> 1
               [] buttons_on \cap {"select", "right"} = {} /\ "cross" \in buttons_on -> 0
               [] buttons_on \cap {"select", "right", "cross"} = {}
                    /\ "left" \in buttons_on -> -1
               [] OTHER -> NoDirection

\* The mode after menu_ctrl: 2 to leave, 3..6 for the power entries.
ModeAfter ==
  CASE Direction = NoDirection -> 1
    [] Direction # NoDirection /\ Selected \in 3..6 -> Selected
    [] Direction = 0 /\ Selected = 7 -> 2
    [] OTHER -> 1

MenuCtrl ==
  /\ menu_sel' = Selected
  /\ changed' = (changed \/ Direction \in {-1, 1})
  /\ menuConfig' = IF Direction \in {-1, 1} /\ Selected \in 0..2
                   THEN [menuConfig EXCEPT !.choice = Limit(@ + Direction, 0, MaxChoice)]
                   ELSE menuConfig
  /\ mode' = ModeAfter

Held == cur_buttons \ {"hw"}

\* Mutant: exit_mode = mode - 2, which is 0 for a plain exit.
ButtonsFuncOffByOne ==
  CASE mode = 0 ->
         /\ mode' = IF cur_buttons # {} /\ "select" \notin cur_buttons THEN 1 ELSE 0
         /\ UNCHANGED <<exit_mode, changed, menu_sel, menuConfig>>
    [] mode = 1 /\ menu_mode = 0 ->
         UNCHANGED <<mode, exit_mode, changed, menu_sel, menuConfig>>
    [] mode = 1 /\ menu_mode # 0 ->
         MenuCtrl /\ UNCHANGED exit_mode
    [] OTHER ->
         /\ exit_mode' = IF Held = {} THEN mode - 2 ELSE exit_mode
         /\ UNCHANGED <<mode, changed, menu_sel, menuConfig>>

\* buttons_func: wait for SELECT to be released, run the menu, wait for every
\* button to be released, leave.
ButtonsFunc ==
  CASE mode = 0 ->
         /\ mode' = IF cur_buttons # {} /\ "select" \notin cur_buttons THEN 1 ELSE 0
         /\ UNCHANGED <<exit_mode, changed, menu_sel, menuConfig>>
    [] mode = 1 /\ menu_mode = 0 ->
         UNCHANGED <<mode, exit_mode, changed, menu_sel, menuConfig>>
    [] mode = 1 /\ menu_mode # 0 ->
         MenuCtrl /\ UNCHANGED exit_mode
    [] OTHER ->
         /\ exit_mode' = IF Held = {} THEN mode - 1 ELSE exit_mode
         /\ UNCHANGED <<mode, changed, menu_sel, menuConfig>>

ThreadLoops ==
  /\ thread = "loop" /\ exit_mode = 0
  /\ menu_mode' = CASE menu_mode = 0 -> IF mode = 1 THEN 1 ELSE 0
                    [] menu_mode = 1 -> 2
                    [] OTHER -> 2
  /\ ButtonsFunc
  /\ UNCHANGED <<fileVars, pad, config, ctrl_handler, loaded, xmbVars, thread,
                 cur_buttons, buttons_on, history>>

ThreadLeaves ==
  /\ thread = "loop" /\ exit_mode # 0
  /\ thread' = IF changed THEN "save" ELSE "power"
  /\ UNCHANGED <<fileVars, pad, config, ctrl_handler, loaded, xmbVars, menuVars, history>>

\* menu_exit: sctrlSESetConfig, if something changed
ThreadSaves ==
  /\ \/ thread = "save" /\ OpenTruncates /\ thread' = "write"
     \/ thread = "save" /\ OpenFails /\ thread' = "power"
     \/ thread = "write" /\ (WriteSucceeds(menuConfig) \/ WriteFallsShort) /\ thread' = "power"
  /\ tainted' = IF file' = menuConfig THEN tainted \ {"menu"} ELSE tainted
  /\ UNCHANGED <<pad, config, ctrl_handler, loaded, xmbVars, menuVars, lateKill>>

\* ... and the power action of exit_mode 2..5, after which the thread goes on.
ThreadPower ==
  /\ thread = "power"
  /\ thread' = "unset"
  /\ UNCHANGED <<fileVars, pad, config, ctrl_handler, loaded, xmbVars, menuVars, history>>

\* vctrlVSHExitVSHMenu: first the handler goes ...
ThreadUnsets ==
  /\ thread = "unset"
  /\ ctrl_handler' = "null"
  /\ thread' = "push"
  /\ UNCHANGED <<fileVars, pad, config, loaded, xmbVars, menuVars, history>>

\* ... then systemctrl gets the menu's settings.
ThreadPushes ==
  /\ thread = "push"
  /\ TakesOver("menu", menuConfig)
  /\ thread' = "end"
  /\ UNCHANGED <<fileVars, pad, ctrl_handler, loaded, xmbVars, menuVars>>

\* sceKernelExitDeleteThread
ThreadEnds ==
  /\ thread = "end"
  /\ thread' = "none"
  /\ UNCHANGED <<fileVars, pad, config, ctrl_handler, loaded, xmbVars, menuVars, history>>

-------------------------------------------------------------------------------
\* The user presses and releases buttons.
PadChanges ==
  /\ pad' \in Pads
  /\ UNCHANGED <<fileVars, config, ctrl_handler, loaded, xmbVars, thread, menuVars, history>>

Poll == \/ PollPasses \/ PollLoads \/ PollFeeds \/ PollCallsStale \/ PollStops
XmbActs == XmbOpensSettings \/ XmbSets \/ XmbIgnores
MenuThread == \/ ThreadStarts \/ ThreadRegisters \/ ThreadLoops \/ ThreadLeaves
              \/ ThreadSaves \/ ThreadPower \/ ThreadUnsets \/ ThreadPushes \/ ThreadEnds

Next == \/ Poll \/ StopReturns \/ XmbActs \/ XmbSaves \/ XmbPushes
        \/ MenuThread \/ PadChanges

XmbThread == Poll \/ StopReturns \/ XmbActs \/ XmbSaves \/ XmbPushes

Spec == Init /\ [][Next]_vars

\* Both threads keep running: the XMB polls at every frame, and the menu's thread
\* has a higher priority.
FairSpec == Spec /\ WF_vars(XmbThread) /\ WF_vars(MenuThread)
-------------------------------------------------------------------------------
(* Properties *)

\* config.tn has one writer at a time, and no writer is stopped half way: while the
\* menu saves, the XMB neither saves nor runs module_stop.  Nothing but the masking
\* of the buttons by ctrl_handler keeps them apart.
OneWriter == thread \in {"save", "write"} => xmb \notin {"stop", "open", "write", "push"}

\* Unless module_stop's 100 ms ran out on a registered thread, an unloaded menu
\* leaves neither a thread nor a handler, and no handler of one that is gone is
\* ever called.
NothingLeftBehind ==
  ~lateKill => /\ ~loaded => thread = "none"
               /\ ctrl_handler = "live" => loaded
               /\ ctrl_handler # "stale" /\ xmb # "crashed"

\* Between the changes systemctrl uses what the file holds, whoever wrote last, also when
\* SELECT and X are pressed at once, so that a menu starts while TN Settings saves.  Its
\* copy may differ only if a failed read gave it, whose zeros vctrlVSHExitVSHMenu hands
\* over like settings, or a menu that had read the file before TN Settings wrote it.
AgreeWhenQuiet ==
  (/\ xmb \in {"poll", "stop", "act"}
   /\ thread \notin {"write", "power", "unset", "push"}
   /\ ~saveFailed /\ ~lateKill /\ "config" \notin tainted)
    => config = Stored

\* Once an entry was chosen and the buttons are let go, the menu goes away.
MenuCloses ==
  <>[](pad = {"hw"}) => ((loaded /\ mode >= 2) ~> (~loaded \/ xmb = "crashed"))

\* Adjusting a setting in TN Settings (changelog.txt) adjusts that one: what is about
\* to be saved differs from what was saved last in at most one setting (no read fails:
\* ReadsMayFail is FALSE in the run).
OneSettingAtATime ==
  [][(XmbSets /\ ~saveFailed /\ ~lateKill) =>
       Cardinality({f \in {"choice", "novshmenu"} :
                      xmbConfig'[f] # Stored[f]}) <= 1]_vars
===============================================================================
