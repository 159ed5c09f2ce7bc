------------------------------- MODULE XmbSettings -------------------------------
(* TN Settings in the XMB (xmbctrl/main.c): its Configuration page is made out of   *)
(* the firmware's System Settings by hooks that each see only one call of it.  What *)
(* they remember between the calls is is_tn_config, unload, context_mode and        *)
(* backup; what they change is the menu and the list of options of the plugin       *)
(* "sysconf", as long as it stays in memory.  The hooks run on the XMB's thread, so *)
(* each call is a step; the order of the calls is the firmware's.                   *)
(*                                                                                  *)
(* The settings file is in TnConfig and VshMenu, the plugin lists in Plugins.       *)
EXTENDS Integers, Sequences

CONSTANTS
  Configs,  \* the settings TN Settings may find
  MaxSets   \* bound: how many values are set

\* GetItemes: which options an item has, and whether its setting says the opposite.
Item(mode, negative) == [mode |-> mode, negative |-> negative]
OnOff == Item(0, FALSE)
OffOn == Item(0, TRUE)

GetItemes ==
  <<Item(1, FALSE), Item(1, FALSE), Item(2, FALSE), Item(3, FALSE),
    OnOff,  \* msg_passwordcontrol
    OffOn,  \* msg_osklimitincrease
    OnOff,  \* msg_skipgameboot
    OffOn,  \* msg_hidemacaddr
    OffOn,  \* msg_tnnetworkupd
    OnOff,  \* msg_hidepic0pic1
    OffOn,  \* msg_spoofversion
    OnOff,  \* msg_usbcharge_slimcolors
    OnOff,  \* msg_fastscrollmusic
    OffOn,  \* msg_usevshmenu
    OnOff,  \* msg_hideheneboot
    OnOff,  \* msg_fakeindexdat
    OffOn>> \* msg_protectflash0

Items == 1..Len(GetItemes)

\* The settings behind the items, in the order of vshSetRegistryValuePatched.
Fields ==
  <<"vshcpuspeed", "gamecpuspeed", "usbdevice", "fakeregion", "passwordcontrol",
    "notincreaseosklimit", "skipgameboot", "nothidemacaddress", "notusetnnetupd",
    "hidepic0pic1", "notspoofversion", "usbcharge_slimcolors", "fastscrollmusic",
    "novshmenu", "hideheneboot", "fakeindexdat", "notprotectflash0">>

Settings == {Fields[i] : i \in Items} \cup {"vshbusspeed", "gamebusspeed"}

cpu_list == <<0, 20, 75, 100, 133, 222, 266, 300, 333>>
bus_list == <<0, 10, 37, 50, 66, 111, 133, 150, 166>>

\* The options of the page for each context_mode: on and off (the firmware's own),
\* speeds, USB devices, regions, buttons.
N_OPTIONS == [m \in 0..4 |-> CASE m = 0 -> 2 [] m = 1 -> 9 [] m = 2 -> 6 [] m = 3 -> 14
                               [] OTHER -> 2]

VARIABLES
  config,        \* xmbctrl's copy of the settings
  is_tn_config,  \* 0: none of our pages, 1: Configuration, 2: Plugins
  unload, context_mode,
  backup,        \* the list of options that was backed up, or None
  menu,          \* the items the sysconf in memory shows, or None if not yet built
  mlist,         \* its list of options
  where,         \* "out" of memory, "kept" behind another page, "page", "options"
  selected,      \* the item whose options are shown
  sets           \* history: the values set so far

vars == <<config, is_tn_config, unload, context_mode, backup, menu, mlist, where,
          selected, sets>>

None  == -1
Own   == 0      \* of a menu or a list: the firmware's
Ours  == 99     \* the item msg_buttonassign, behind ours in the Configuration page

\* A speed and its bus speed are of the same row of the two lists.
Paired(cpu, bus) == \E n \in 1..9 : cpu = cpu_list[n] /\ bus = bus_list[n]

ConfigOK(c) ==
  /\ DOMAIN c = Settings
  /\ \A f \in Settings : c[f] \in 0..333
  /\ Paired(c["vshcpuspeed"], c["vshbusspeed"])
  /\ Paired(c["gamecpuspeed"], c["gamebusspeed"])
  /\ \A i \in Items : GetItemes[i].mode \in {0, 2, 3}
                        => c[Fields[i]] \in 0..(N_OPTIONS[GetItemes[i].mode] - 1)

ASSUME XmbConstants == MaxSets \in Nat /\ \A c \in Configs : ConfigOK(c)

TypeOK ==
  /\ ConfigOK(config)
  /\ is_tn_config \in 0..2 /\ unload \in BOOLEAN /\ context_mode \in 0..4
  /\ backup \in 0..4 \cup {None} /\ menu \in 0..2 \cup {None} /\ mlist \in 0..4
  /\ where \in {"out", "kept", "page", "options"}
  /\ selected \in Items \cup {Own, Ours} /\ sets \in 0..MaxSets

Init ==
  /\ config \in Configs
  /\ is_tn_config = 0 /\ unload = FALSE /\ context_mode = 0 /\ backup = None
  /\ menu = None /\ mlist = Own /\ where = "out"
  /\ selected = Own /\ sets = 0

-------------------------------------------------------------------------------
(* Opening a page *)

\* TN Settings' own entry reads the settings again, which the VSH menu may have
\* changed, and shows a context menu.
OpenTNSettings ==
  /\ where \in {"out", "kept"}
  /\ sets < MaxSets
  /\ \E device \in 0..5 : config' = [config EXCEPT !["usbdevice"] = device]
  /\ sets' = sets + 1
  /\ UNCHANGED <<is_tn_config, unload, context_mode, backup, menu, mlist, where, selected>>

\* Mutant: another page does not unload sysconf.
ExecuteActionKeepsSysconf(page) ==
  /\ is_tn_config' = page
  /\ IF is_tn_config' # is_tn_config
     THEN backup' = None /\ context_mode' = 0
     ELSE UNCHANGED <<backup, context_mode>>
  /\ UNCHANGED unload

\* ExecuteActionPatched for System Settings (page 0) or an entry of the context menu.
ExecuteActionPatched(page) ==
  /\ is_tn_config' = page
  /\ IF is_tn_config' # is_tn_config
     THEN backup' = None /\ context_mode' = 0 /\ unload' = TRUE
     ELSE UNCHANGED <<backup, context_mode, unload>>

\* OnInitMenuPspConfigPatched: a menu that was built stays.
Built(old, page) == IF old = None THEN page ELSE old

\* The firmware's action unloads what UnloadModulePatched lets it, all of it if asked
\* to, loads sysconf if it is not there, and builds its menu.
OpenPage(page) ==
  /\ where \in {"out", "kept"}
  /\ ExecuteActionPatched(page)
  /\ \/ /\ where = "kept" /\ ~unload'
        /\ menu' = Built(menu, page)
        /\ UNCHANGED mlist
     \/ menu' = Built(None, page) /\ mlist' = Own
  /\ where' = "page"
  /\ UNCHANGED <<config, selected, sets>>

\* UnloadModulePatched is over with the action.
Opened ==
  /\ where = "page" /\ unload
  /\ unload' = FALSE
  /\ UNCHANGED <<config, is_tn_config, context_mode, backup, menu, mlist, where, selected,
                 sets>>

\* Any other page of the XMB, or back to it: the firmware keeps sysconf or unloads it.
Leaves ==
  /\ where = "page" /\ ~unload
  /\ \/ where' = "kept" /\ UNCHANGED <<menu, mlist>>
     \/ where' = "out" /\ menu' = None /\ mlist' = Own
  /\ UNCHANGED <<config, is_tn_config, unload, context_mode, backup, selected, sets>>

-------------------------------------------------------------------------------
(* The items of a page *)

\* What the Configuration page has: ours, and the buttons' assignment.
PageItems == IF menu = 1 THEN Items \cup {Ours} ELSE {Own}

ModeOf(item) == CASE item \in Items -> GetItemes[item].mode
                  [] item = Ours -> 4
                  [] OTHER -> 0

\* GetSysconfItemPatched and vshGetRegistryValuePatched: each sight of an item sets
\* context_mode on the Configuration page.
Sees(item) == context_mode' = IF is_tn_config = 1 THEN ModeOf(item) ELSE context_mode

\* The firmware draws an item with its value ...
Draws(item) ==
  /\ where = "page" /\ ~unload
  /\ Sees(item)
  /\ UNCHANGED <<config, is_tn_config, unload, backup, menu, mlist, where, selected, sets>>

\* Mutant: the list is not restored for an item of mode 0.
HijackNeverRestores(mode) ==
  /\ backup' = IF backup = None THEN mlist ELSE backup
  /\ mlist' = IF mode # 0 THEN mode ELSE mlist

\* HijackContext
HijackContext(mode) ==
  /\ backup' = IF backup = None THEN mlist ELSE backup
  /\ mlist' = IF mode # 0 THEN mode ELSE backup'

\* ... or, when it is selected, looks at it and shows the page of its options
\* (PAF_Resource_GetPageNodeByID_Patched).
Selects(item) ==
  /\ where = "page" /\ ~unload
  /\ Sees(item)
  /\ IF is_tn_config = 1 THEN HijackContext(context_mode') ELSE UNCHANGED <<backup, mlist>>
  /\ where' = "options" /\ selected' = item
  /\ UNCHANGED <<config, is_tn_config, unload, menu, sets>>

-------------------------------------------------------------------------------
(* The values of the items *)

\* GetCPUSpeed: the row of a speed in the list, 0 for one that is not there.
GetCPUSpeed(cpu) ==
  IF \E n \in 1..9 : cpu_list[n] = cpu THEN (CHOOSE n \in 1..9 : cpu_list[n] = cpu) - 1 ELSE 0

Negation(v) == IF v = 0 THEN 1 ELSE 0

\* The array of vshGetRegistryValuePatched: where it negates is spelled out there.
NegatedGets == {6, 8, 9, 11, 14, 17}

\* Mutant: one negation is missing.
ValueUnnegated(c, i) ==
  CASE i \in {1, 2} -> GetCPUSpeed(c[Fields[i]])
    [] i \in NegatedGets \ {9} -> Negation(c[Fields[i]])
    [] OTHER -> c[Fields[i]]

Value(c, i) ==
  CASE i \in {1, 2} -> GetCPUSpeed(c[Fields[i]])
    [] i \in NegatedGets -> Negation(c[Fields[i]])
    [] OTHER -> c[Fields[i]]

\* vshSetRegistryValuePatched
Changed(c, i, v) ==
  CASE i = 1 -> [c EXCEPT !["vshcpuspeed"] = cpu_list[v + 1], !["vshbusspeed"] = bus_list[v + 1]]
    [] i = 2 -> [c EXCEPT !["gamecpuspeed"] = cpu_list[v + 1], !["gamebusspeed"] = bus_list[v + 1]]
    [] OTHER -> [c EXCEPT ![Fields[i]] = IF GetItemes[i].negative THEN Negation(v) ELSE v]

\* One of the options that are shown is chosen for an item of ours ...
SetsValue(v) ==
  /\ where = "options" /\ selected \in Items
  /\ sets < MaxSets
  /\ config' = Changed(config, selected, v)
  /\ sets' = sets + 1
  /\ where' = "page"
  /\ UNCHANGED <<is_tn_config, unload, context_mode, backup, menu, mlist, selected>>

\* ... or for another, or none.
LeavesOptions ==
  /\ where = "options"
  /\ where' = "page"
  /\ UNCHANGED <<config, is_tn_config, unload, context_mode, backup, menu, mlist, selected,
                 sets>>

Next == \/ OpenTNSettings \/ Opened \/ Leaves \/ LeavesOptions
        \/ \E page \in 0..2 : OpenPage(page)
        \/ \E item \in PageItems : Draws(item) \/ Selects(item)
        \/ \E v \in 0..(N_OPTIONS[mlist] - 1) : SetsValue(v)

Spec == Init /\ [][Next]_vars
-------------------------------------------------------------------------------
(* Properties *)

\* The menu on the screen is that of the page that was opened, although it is built
\* only once for each sysconf in memory.
MenuOfPage == where \in {"page", "options"} => menu = is_tn_config

\* The options on the screen are those of the selected item: none of ours appears on
\* a page of the firmware or for a plugin, no list is left from the item before, and
\* the one that is restored is the firmware's.
OptionsOfItem == where = "options" => mlist = ModeOf(selected)

\* A value that is set is the value that is shown from then on, and no other item
\* changes its value, although three arrays and two flags must agree on the items.
SetIsShown ==
  [][\A i \in Items :
       (where = "options" /\ config' # config /\ selected = i) =>
         \E v \in 0..(N_OPTIONS[ModeOf(i)] - 1) :
           /\ config' = Changed(config, i, v)
           /\ \A j \in Items : Value(config', j) = IF j = i THEN v ELSE Value(config, j)]_vars
===============================================================================
