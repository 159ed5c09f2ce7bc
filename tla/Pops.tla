--------------------------------- MODULE Pops ---------------------------------
(* PlayStation games (systemctrl/main.c): what systemctrl does when the manager  *)
(* and the emulator of PlayStation games start, and to the manager's calls        *)
(* afterwards.  A converted game, told by the header of its disc, gets the         *)
(* patches of the emulator, hooks on the manager's I/O and perhaps HEN's icon; an  *)
(* original one stays as it is.  Of either the key is kept in KEYS.BIN beside      *)
(* the game, so that the game starts without its licence from then on.             *)
(*                                                                                *)
(* The console boots into one game and is switched off to leave it, at any        *)
(* moment; flags then start anew and the memory stick keeps what it holds.  Keys   *)
(* are abstracted to the game they are made for.  A failing write leaves a prefix, *)
(* which is shorter than a key.  Games without encryption need the zero key and     *)
(* the firmware has no licence for them.                                            *)
EXTENDS FiniteSets

CONSTANTS
  Dirs,         \* directories with a game
  Games,
  Original,     \* games whose disc has the header of one from the shop
  Plain,        \* games whose program is not encrypted
  OwnIcon       \* games with an icon of 80x80

ASSUME PopsConstants == /\ Original \subseteq Games /\ Plain \subseteq Games
                        /\ OwnIcon \subseteq Games

Zero    == "zero key"
NoKey   == "no key"
Absent  == "absent"
Short   == "short"
Nowhere == "nowhere"

ASSUME PopsNames == /\ {Zero, NoKey, Absent, Short} \cap Games = {}
                    /\ Nowhere \notin Dirs

VARIABLES
  game,          \* the game of each directory
  KEYS_BIN,      \* its KEYS.BIN: missing, too short, or the key of a game
  licensed,      \* the games for which the firmware's SetKeys succeeds
  on,            \* the directory of the running game, or Nowhere
  stage,         \* the last module of the emulator that was started
  patch_pops, use_custom_png,
  keysHooked,    \* SetKeysPatched is called in place of SetKeys
  ioHooked,      \* the manager's open, ioctl and read are redirected
  popsPatched,   \* the emulator was patched
  iconSize,      \* the size with which it reads the icon: "custom" or "own"
  call,          \* where a call of SetKeysPatched is
  keys,          \* the keys the manager was given
  copied,        \* history: the directories to which another game was copied after
                 \* their KEYS.BIN was written
  had,           \* history: the directories whose KEYS.BIN was complete
  missed         \* history: the directories whose KEYS.BIN could not be read although
                 \* it was there

disk     == <<game, KEYS_BIN, licensed>>
flags    == <<patch_pops, use_custom_png, keysHooked, ioHooked, popsPatched, iconSize>>
history  == <<copied, had, missed>>
vars     == <<disk, on, stage, flags, call, keys, history>>

RightKey(g) == IF g \in Plain THEN Zero ELSE g

\* The flags of a kernel that has just started.
Fresh ==
  /\ patch_pops' = FALSE /\ use_custom_png' = TRUE
  /\ keysHooked' = FALSE /\ ioHooked' = FALSE
  /\ popsPatched' = FALSE /\ iconSize' = "own"
  /\ call' = "none" /\ keys' = NoKey

Init ==
  /\ game \in [Dirs -> Games]
  /\ KEYS_BIN = [d \in Dirs |-> Absent]
  /\ licensed \in SUBSET (Games \ Plain)
  /\ on = Nowhere /\ stage = "none"
  /\ patch_pops = FALSE /\ use_custom_png = TRUE
  /\ keysHooked = FALSE /\ ioHooked = FALSE
  /\ popsPatched = FALSE /\ iconSize = "own"
  /\ call = "none" /\ keys = NoKey
  /\ copied = {} /\ had = {} /\ missed = {}

-------------------------------------------------------------------------------
(* The console *)

Boot(d) ==
  /\ on = Nowhere
  /\ on' = d /\ stage' = "none"
  /\ Fresh
  /\ UNCHANGED <<disk, history>>

PowerOff ==
  /\ on # Nowhere
  /\ on' = Nowhere /\ stage' = "none"
  /\ Fresh
  /\ UNCHANGED <<disk, history>>

\* Another game is copied to a directory, or a licence comes or goes.
CopyGame(d, g) ==
  /\ on = Nowhere /\ game[d] # g
  /\ game' = [game EXCEPT ![d] = g]
  /\ copied' = IF KEYS_BIN[d] = Absent THEN copied ELSE copied \cup {d}
  /\ UNCHANGED <<KEYS_BIN, licensed, on, stage, flags, call, keys, had, missed>>

ChangeLicences(games) ==
  /\ on = Nowhere
  /\ licensed' = games
  /\ UNCHANGED <<game, KEYS_BIN, on, stage, flags, call, keys, history>>

-------------------------------------------------------------------------------
(* OnModuleStart *)

\* scePops_Manager, whose game cannot be opened: nothing is hooked.
ManagerUnread ==
  /\ on # Nowhere /\ stage = "none"
  /\ stage' = "manager"
  /\ UNCHANGED <<disk, on, flags, call, keys, history>>

\* scePops_Manager: the game's header decides.
ManagerStarts ==
  /\ on # Nowhere /\ stage = "none"
  /\ stage' = "manager"
  /\ keysHooked' = TRUE
  /\ IF game[on] \in Original
     THEN UNCHANGED <<patch_pops, use_custom_png, ioHooked>>
     ELSE /\ patch_pops' = TRUE /\ ioHooked' = TRUE
          /\ use_custom_png' = (game[on] \notin OwnIcon)
  /\ UNCHANGED <<disk, on, popsPatched, iconSize, call, keys, history>>

\* Mutant: the emulator is patched whatever the manager's start has decided.
PopsStartsAlwaysPatched ==
  /\ stage = "manager"
  /\ stage' = "pops"
  /\ popsPatched' = TRUE
  /\ iconSize' = IF use_custom_png THEN "custom" ELSE iconSize
  /\ UNCHANGED <<disk, on, patch_pops, use_custom_png, keysHooked, ioHooked, call, keys, history>>

\* pops, the emulator.
PopsStarts ==
  /\ stage = "manager"
  /\ stage' = "pops"
  /\ popsPatched' = patch_pops
  /\ iconSize' = IF patch_pops /\ use_custom_png THEN "custom" ELSE iconSize
  /\ UNCHANGED <<disk, on, patch_pops, use_custom_png, keysHooked, ioHooked, call, keys, history>>

-------------------------------------------------------------------------------
(* sceIoReadPatched *)

\* Whose icon the manager reads: HEN's takes the place of a picture only if as much
\* is read as it is long.
IconServed == IF ioHooked /\ use_custom_png /\ iconSize = "custom" THEN "HEN's" ELSE "own"

-------------------------------------------------------------------------------
(* SetKeysPatched *)

\* Without the hook the firmware's function is called.
SetKeysUnhooked ==
  /\ stage # "none" /\ ~keysHooked
  /\ keys' = IF game[on] \in licensed THEN game[on] ELSE keys
  /\ UNCHANGED <<disk, on, stage, flags, call, history>>

Complete(d) == KEYS_BIN[d] \notin {Absent, Short}

\* Mutant: KEYS.BIN is used however much of it was read.
ReadKeysOfAnyLength ==
  /\ stage # "none" /\ keysHooked /\ call = "none"
  /\ \/ /\ KEYS_BIN[on] # Absent
        /\ keys' = IF Complete(on) THEN KEYS_BIN[on] ELSE Zero
        /\ UNCHANGED <<call, missed>>
     \/ /\ call' = "eboot"
        /\ missed' = IF Complete(on) THEN missed \cup {on} ELSE missed
        /\ UNCHANGED keys
  /\ UNCHANGED <<disk, on, stage, flags, copied, had>>

\* Mutant: KEYS.BIN is written anew each time.
ReadKeysRefreshing ==
  /\ stage # "none" /\ keysHooked /\ call = "none"
  /\ keys' = IF Complete(on) THEN KEYS_BIN[on] ELSE keys
  /\ call' = "eboot"
  /\ UNCHANGED <<disk, on, stage, flags, history>>

\* KEYS.BIN is read.  A complete one is used; what cannot be read or is too short is
\* not.
ReadKeys ==
  /\ stage # "none" /\ keysHooked /\ call = "none"
  /\ \/ /\ Complete(on)
        /\ keys' = KEYS_BIN[on]
        /\ UNCHANGED <<call, missed>>
     \/ /\ call' = "eboot"
        /\ missed' = IF Complete(on) THEN missed \cup {on} ELSE missed
        /\ UNCHANGED keys
  /\ UNCHANGED <<disk, on, stage, flags, copied, had>>

\* The game's program is looked at; a plain one gets the zero key.
ReadEboot ==
  /\ call = "eboot"
  /\ \/ /\ game[on] \in Plain
        /\ keys' = Zero
        /\ call' = "none"
     \/ /\ call' = "firmware"     \* encrypted, or it cannot be opened
        /\ UNCHANGED keys
  /\ UNCHANGED <<disk, on, stage, flags, history>>

\* The firmware's SetKeys: only its success is followed by writing KEYS.BIN.
FirmwareSetKeys ==
  /\ call = "firmware"
  /\ IF game[on] \in licensed
     THEN /\ keys' = game[on]
          /\ call' = "open"
     ELSE /\ call' = "none"
          /\ UNCHANGED keys
  /\ UNCHANGED <<disk, on, stage, flags, history>>

\* WriteFile: sceIoOpen creates or truncates the file, or fails.
OpenKeys ==
  /\ call = "open"
  /\ \/ /\ KEYS_BIN' = [KEYS_BIN EXCEPT ![on] = Short]
        /\ call' = "write"
     \/ /\ call' = "none"
        /\ UNCHANGED KEYS_BIN
  /\ UNCHANGED <<game, licensed, on, stage, flags, keys, history>>

\* sceIoWrite writes the key or a prefix of it; nobody looks at its result.
WriteKeys ==
  /\ call = "write"
  /\ call' = "none"
  /\ \/ /\ KEYS_BIN' = [KEYS_BIN EXCEPT ![on] = keys]
        /\ had' = had \cup {on}
        /\ copied' = copied \ {on}
     \/ UNCHANGED <<KEYS_BIN, had, copied>>
  /\ UNCHANGED <<game, licensed, on, stage, flags, keys, missed>>

-------------------------------------------------------------------------------
Next ==
  \/ \E d \in Dirs : Boot(d)
  \/ PowerOff
  \/ \E d \in Dirs, g \in Games : CopyGame(d, g)
  \/ \E games \in SUBSET (Games \ Plain) : ChangeLicences(games)
  \/ ManagerUnread \/ ManagerStarts \/ PopsStarts
  \/ SetKeysUnhooked \/ ReadKeys \/ ReadEboot \/ FirmwareSetKeys \/ OpenKeys \/ WriteKeys

Spec == Init /\ [][Next]_vars

-------------------------------------------------------------------------------
(* Properties *)

\* The state has its type.
TypeOK ==
  /\ game \in [Dirs -> Games]
  /\ KEYS_BIN \in [Dirs -> Games \cup {Absent, Short}]
  /\ licensed \subseteq Games \ Plain
  /\ on \in Dirs \cup {Nowhere}
  /\ stage \in {"none", "manager", "pops"}
  /\ patch_pops \in BOOLEAN /\ use_custom_png \in BOOLEAN
  /\ keysHooked \in BOOLEAN /\ ioHooked \in BOOLEAN /\ popsPatched \in BOOLEAN
  /\ iconSize \in {"own", "custom"}
  /\ call \in {"none", "eboot", "firmware", "open", "write"}
  /\ keys \in Games \cup {Zero, NoKey}
  /\ copied \subseteq Dirs /\ had \subseteq Dirs /\ missed \subseteq Dirs

\* The keys a game was given are its own, wherever they came from and whatever was
\* interrupted before, unless another game was copied over the one its KEYS.BIN was
\* written for.
RightKeys ==
  keys # NoKey => keys = RightKey(game[on]) \/ on \in copied

\* A key once written stays, through failing writes and the loss of power at any
\* point of a later start: the game does not need its licence again.  Only a
\* KEYS.BIN that is there and could not be read is written anew, and may be lost.
KeyStays == \A d \in had \ missed : Complete(d)

\* Once the emulator has started, a converted game has everything a converted game
\* needs (the emulator's patches, the manager's hooks, the icon's size with the icon
\* that is served) and an original one nothing of it.
AllOrNothing ==
  stage = "pops" =>
    /\ popsPatched = ioHooked
    /\ popsPatched => game[on] \notin Original
    /\ (IconServed = "HEN's") = (popsPatched /\ game[on] \notin OwnIcon)
    /\ (iconSize = "custom") = (IconServed = "HEN's")
===============================================================================
