------------------------------ MODULE Pops_proofs ------------------------------
(* A PlayStation game gets its own key, a key once written stays, and the patches   *)
(* fit the game, for any directories, games and licences.                           *)
EXTENDS Pops, TLAPS

-------------------------------------------------------------------------------
(* The inductive invariant *)

\* Without a game nothing runs.
Off == on = Nowhere => stage = "none" /\ call = "none" /\ keys = NoKey

\* KEYS.BIN is the key of the game beside it, which is encrypted, unless another one
\* was copied over it.
OwnFiles ==
  \A d \in Dirs \ copied :
    KEYS_BIN[d] \in Games => KEYS_BIN[d] = game[d] /\ game[d] \notin Plain

\* What is about to be written is the game's key.
Writes == call \in {"open", "write"} => keys = game[on] /\ game[on] \notin Plain

\* Only a KEYS.BIN that is not there, or could not be read, is written.
Overwrites == call # "none" => on \notin had \ missed

\* Before the manager's start the flags are those of the kernel's start; after it
\* they are those of the game.
Unstarted ==
  stage = "none" =>
    /\ patch_pops = FALSE /\ use_custom_png = TRUE
    /\ ioHooked = FALSE /\ popsPatched = FALSE /\ iconSize = "own"

Prepared ==
  stage = "manager" =>
    /\ iconSize = "own"
    /\ patch_pops <=> ioHooked
    /\ patch_pops => game[on] \notin Original
    /\ patch_pops => (use_custom_png <=> game[on] \notin OwnIcon)

KInv == OwnFiles /\ Writes /\ Overwrites /\ RightKeys /\ KeyStays
SInv == Unstarted /\ Prepared /\ AllOrNothing
IInv == TypeOK /\ Off /\ KInv /\ SInv

-------------------------------------------------------------------------------
(* Typing *)

LEMMA TypingInit == Init => TypeOK
<1> SUFFICES ASSUME Init PROVE TypeOK
  OBVIOUS
<1>1. [d \in Dirs |-> Absent] \in [Dirs -> Games \cup {Absent, Short}]
  OBVIOUS
<1> QED BY <1>1 DEF Init, TypeOK

LEMMA TypingStep == TypeOK /\ Off /\ Writes /\ [Next]_vars => TypeOK'
<1> SUFFICES ASSUME TypeOK, Off, Writes, [Next]_vars PROVE TypeOK'
  OBVIOUS
<1>0. stage # "none" => on \in Dirs
  BY DEF TypeOK, Off
<1> USE DEF TypeOK
<1>1. CASE \E d \in Dirs : Boot(d)
  BY <1>1 DEF Boot, Fresh, disk, history
<1>2. CASE PowerOff
  BY <1>2 DEF PowerOff, Fresh, disk, history
<1>3. CASE \E d \in Dirs, g \in Games : CopyGame(d, g)
  BY <1>3 DEF CopyGame, flags
<1>4. CASE \E games \in SUBSET (Games \ Plain) : ChangeLicences(games)
  BY <1>4 DEF ChangeLicences, flags, history
<1>5. CASE ManagerUnread
  BY <1>5 DEF ManagerUnread, disk, flags, history
<1>6. CASE ManagerStarts
  BY <1>6 DEF ManagerStarts, disk, history
<1>7. CASE PopsStarts
  BY <1>7 DEF PopsStarts, disk, history
<1>8. CASE SetKeysUnhooked
  BY <1>0, <1>8 DEF SetKeysUnhooked, disk, flags, history
<1>9. CASE ReadKeys
  BY <1>0, <1>9 DEF ReadKeys, Complete, disk, flags
<1>10. CASE ReadEboot
  BY <1>10 DEF ReadEboot, disk, flags, history
<1>11. CASE FirmwareSetKeys
  BY <1>11 DEF FirmwareSetKeys, disk, flags, history
<1>12. CASE OpenKeys
  BY <1>12 DEF OpenKeys, flags, history
<1>13. CASE WriteKeys
  <2>1. on \in Dirs /\ keys \in Games
    BY <1>13, <1>0 DEF WriteKeys, Writes, Off
  <2> QED BY <1>13, <2>1 DEF WriteKeys, flags
<1>14. CASE UNCHANGED vars
  BY <1>14 DEF vars, disk, flags, history
<1> QED BY <1>1, <1>2, <1>3, <1>4, <1>5, <1>6, <1>7, <1>8, <1>9, <1>10, <1>11, <1>12,
           <1>13, <1>14 DEF Next

\* Without a game every variable of the running one has the value of a console that is
\* off.
LEMMA OffStep == TypeOK /\ Off /\ [Next]_vars => Off'
<1> SUFFICES ASSUME TypeOK, Off, [Next]_vars PROVE Off'
  OBVIOUS
<1> USE PopsNames DEF TypeOK, Off
<1>1. CASE (\E d \in Dirs : Boot(d)) \/ PowerOff
  BY <1>1 DEF Boot, PowerOff, Fresh
<1>2. CASE (\E d \in Dirs, g \in Games : CopyGame(d, g))
           \/ (\E games \in SUBSET (Games \ Plain) : ChangeLicences(games))
  BY <1>2 DEF CopyGame, ChangeLicences
<1>3. CASE ManagerUnread \/ ManagerStarts \/ PopsStarts
  BY <1>3 DEF ManagerUnread, ManagerStarts, PopsStarts
<1>4. CASE SetKeysUnhooked \/ ReadKeys
  BY <1>4 DEF SetKeysUnhooked, ReadKeys
<1>5. CASE ReadEboot \/ FirmwareSetKeys \/ OpenKeys \/ WriteKeys
  BY <1>5 DEF ReadEboot, FirmwareSetKeys, OpenKeys, WriteKeys
<1>6. CASE UNCHANGED vars
  BY <1>6 DEF vars
<1> QED BY <1>1, <1>2, <1>3, <1>4, <1>5, <1>6 DEF Next

-------------------------------------------------------------------------------
(* The keys *)

LEMMA KeysStep == TypeOK /\ Off /\ KInv /\ [Next]_vars => KInv'
<1> SUFFICES ASSUME TypeOK, Off, KInv, [Next]_vars PROVE KInv'
  OBVIOUS
<1>0. /\ stage # "none" => on \in Dirs
      /\ call # "none" => on \in Dirs
  BY DEF TypeOK, Off
<1>1. ASSUME NEW d \in Dirs, Boot(d) PROVE KInv'
  BY <1>1 DEF Boot, Fresh, disk, history, KInv, OwnFiles, Writes, Overwrites, RightKeys,
              KeyStays, Complete
<1>2. CASE PowerOff
  BY <1>2 DEF PowerOff, Fresh, disk, history, KInv, OwnFiles, Writes, Overwrites, RightKeys,
              KeyStays, Complete
\* Nothing runs while games are copied; from then on the file is another game's,
\* unless there is none.
<1>3. ASSUME NEW d \in Dirs, NEW g \in Games, CopyGame(d, g) PROVE KInv'
  <2>1. OwnFiles'
    BY <1>3, PopsNames DEF CopyGame, KInv, OwnFiles, TypeOK
  <2>2. Writes' /\ Overwrites' /\ RightKeys'
    BY <1>3 DEF CopyGame, Off, Writes, Overwrites, RightKeys
  <2>3. KeyStays'
    BY <1>3 DEF CopyGame, KInv, KeyStays, Complete
  <2> QED BY <2>1, <2>2, <2>3 DEF KInv
<1>4. ASSUME NEW games \in SUBSET (Games \ Plain), ChangeLicences(games) PROVE KInv'
  BY <1>4 DEF ChangeLicences, history, KInv, OwnFiles, Writes, Overwrites, RightKeys,
              KeyStays, Complete
<1>5. CASE ManagerUnread \/ ManagerStarts \/ PopsStarts \/ UNCHANGED vars
  <2>1. UNCHANGED <<game, KEYS_BIN, on, call, keys, copied, had, missed>>
    BY <1>5 DEF ManagerUnread, ManagerStarts, PopsStarts, vars, disk, history
  <2> QED BY <2>1 DEF KInv, OwnFiles, Writes, Overwrites, RightKeys, RightKey, KeyStays, Complete
<1>6. CASE SetKeysUnhooked
  <2>1. UNCHANGED <<game, KEYS_BIN, on, call, copied, had, missed>>
    BY <1>6 DEF SetKeysUnhooked, disk, history
  <2>2. keys' = keys \/ (keys' = game[on] /\ game[on] \notin Plain)
    BY <1>6 DEF SetKeysUnhooked, TypeOK
  <2> QED BY <2>1, <2>2 DEF KInv, OwnFiles, Writes, Overwrites, RightKeys, RightKey, KeyStays,
                            Complete
<1>7. CASE ReadKeys
  <2>1. UNCHANGED <<game, KEYS_BIN, on, copied, had>>
    BY <1>7 DEF ReadKeys, disk
  <2>2. on \in Dirs
    BY <1>0, <1>7 DEF ReadKeys
  <2>3. CASE Complete(on) /\ keys' = KEYS_BIN[on] /\ UNCHANGED <<call, missed>>
    <3>1. KEYS_BIN[on] \in Games
      BY <2>2, <2>3 DEF Complete, TypeOK
    <3>2. RightKeys'
      BY <2>1, <2>2, <2>3, <3>1 DEF KInv, OwnFiles, RightKeys, RightKey
    <3>3. OwnFiles' /\ Writes' /\ Overwrites' /\ KeyStays'
      BY <1>7, <2>1, <2>3 DEF ReadKeys, KInv, OwnFiles, Writes, Overwrites, KeyStays, Complete
    <3> QED BY <3>2, <3>3 DEF KInv
  <2>4. CASE /\ call' = "eboot" /\ UNCHANGED keys
             /\ missed' = IF Complete(on) THEN missed \cup {on} ELSE missed
    <3>1. OwnFiles' /\ Writes' /\ RightKeys'
      BY <2>1, <2>4 DEF KInv, OwnFiles, Writes, RightKeys, RightKey
    <3>2. KeyStays' /\ Overwrites'
      BY <2>1, <2>2, <2>4 DEF KInv, KeyStays, Overwrites, Complete
    <3> QED BY <3>1, <3>2 DEF KInv
  <2> QED BY <1>7, <2>3, <2>4 DEF ReadKeys
<1>8. CASE ReadEboot
  <2>1. UNCHANGED <<game, KEYS_BIN, on, copied, had, missed>>
    BY <1>8 DEF ReadEboot, disk, history
  <2>2. keys' = keys \/ (keys' = Zero /\ game[on] \in Plain)
    BY <1>8 DEF ReadEboot
  <2>3. call # "none" /\ call' \in {"none", "firmware"}
    BY <1>8 DEF ReadEboot
  <2> QED BY <2>1, <2>2, <2>3 DEF KInv, OwnFiles, Writes, Overwrites, RightKeys, RightKey,
                                  KeyStays, Complete
<1>9. CASE FirmwareSetKeys
  <2>1. UNCHANGED <<game, KEYS_BIN, on, copied, had, missed>> /\ call # "none"
    BY <1>9 DEF FirmwareSetKeys, disk, history
  <2>2. \/ keys' = keys /\ call' = "none"
        \/ keys' = game[on] /\ game[on] \notin Plain /\ call' = "open"
    BY <1>9 DEF FirmwareSetKeys, TypeOK
  <2> QED BY <2>1, <2>2 DEF KInv, OwnFiles, Writes, Overwrites, RightKeys, RightKey,
                            KeyStays, Complete
\* The file is emptied: it belongs to no game any more, and was not one to keep.
<1>10. CASE OpenKeys
  <2>1. UNCHANGED <<game, on, keys, copied, had, missed>> /\ call = "open"
    BY <1>10 DEF OpenKeys, history
  <2>2. on \in Dirs /\ on \notin had \ missed
    BY <1>0, <2>1 DEF KInv, Overwrites
  <2>3. Writes' /\ Overwrites' /\ RightKeys'
    BY <1>10, <2>1, <2>2 DEF OpenKeys, KInv, Writes, Overwrites, RightKeys, RightKey
  <2>4. \A d \in Dirs : d # on => KEYS_BIN'[d] = KEYS_BIN[d]
    BY <1>10 DEF OpenKeys, TypeOK
  <2>5. KEYS_BIN'[on] \in {Short, KEYS_BIN[on]}
    BY <1>10, <2>2 DEF OpenKeys, TypeOK
  <2>6. OwnFiles' /\ KeyStays'
    BY <2>1, <2>2, <2>4, <2>5, PopsNames DEF KInv, OwnFiles, KeyStays, Complete, TypeOK
  <2> QED BY <2>3, <2>6 DEF KInv
<1>11. CASE WriteKeys
  <2>1. UNCHANGED <<game, on, keys, missed>> /\ call = "write" /\ call' = "none"
    BY <1>11 DEF WriteKeys
  <2>2. on \in Dirs /\ keys = game[on] /\ game[on] \notin Plain /\ game[on] \in Games
    BY <1>0, <2>1 DEF KInv, Writes, TypeOK
  <2>3. Writes' /\ Overwrites' /\ RightKeys'
    BY <2>1, <2>2 DEF Writes, Overwrites, RightKeys, RightKey
  <2>4. CASE UNCHANGED <<KEYS_BIN, had, copied>>
    BY <2>1, <2>3, <2>4 DEF KInv, OwnFiles, KeyStays, Complete
  <2>5. CASE /\ KEYS_BIN' = [KEYS_BIN EXCEPT ![on] = keys]
             /\ had' = had \cup {on} /\ copied' = copied \ {on}
    <3>1. \A d \in Dirs : KEYS_BIN'[d] = IF d = on THEN game[on] ELSE KEYS_BIN[d]
      BY <2>2, <2>5 DEF TypeOK
    <3>2. OwnFiles'
      BY <2>1, <2>2, <2>5, <3>1 DEF KInv, OwnFiles
    <3>3. KeyStays'
      BY <2>1, <2>2, <2>5, <3>1, PopsNames DEF KInv, KeyStays, Complete, TypeOK
    <3> QED BY <2>3, <3>2, <3>3 DEF KInv
  <2> QED BY <1>11, <2>4, <2>5 DEF WriteKeys
<1> QED BY <1>1, <1>2, <1>3, <1>4, <1>5, <1>6, <1>7, <1>8, <1>9, <1>10, <1>11 DEF Next

-------------------------------------------------------------------------------
(* The starts *)

LEMMA StartsStep == TypeOK /\ Off /\ SInv /\ [Next]_vars => SInv'
<1> SUFFICES ASSUME TypeOK, Off, SInv, [Next]_vars PROVE SInv'
  OBVIOUS
<1>1. CASE (\E d \in Dirs : Boot(d)) \/ PowerOff
  BY <1>1 DEF Boot, PowerOff, Fresh, SInv, Unstarted, Prepared, AllOrNothing
<1>2. CASE (\E d \in Dirs, g \in Games : CopyGame(d, g))
           \/ (\E games \in SUBSET (Games \ Plain) : ChangeLicences(games))
  <2>1. stage' = "none" /\ UNCHANGED flags
    BY <1>2 DEF CopyGame, ChangeLicences, Off
  <2>2. stage = "none"
    BY <1>2 DEF CopyGame, ChangeLicences, Off
  <2> QED BY <2>1, <2>2 DEF SInv, Unstarted, Prepared, AllOrNothing, flags
<1>3. CASE UNCHANGED <<on, stage, flags, game>>
  BY <1>3 DEF flags, SInv, Unstarted, Prepared, AllOrNothing, IconServed
<1>4. CASE SetKeysUnhooked \/ ReadKeys \/ ReadEboot \/ FirmwareSetKeys \/ OpenKeys
           \/ WriteKeys \/ UNCHANGED vars
  BY <1>3, <1>4 DEF SetKeysUnhooked, ReadKeys, ReadEboot, FirmwareSetKeys, OpenKeys, WriteKeys,
                    vars, disk
\* A manager that cannot read its game leaves the flags of an original one.
<1>5. CASE ManagerUnread
  BY <1>5 DEF ManagerUnread, flags, disk, SInv, Unstarted, Prepared, AllOrNothing
<1>6. CASE ManagerStarts
  <2>1. CASE game[on] \in Original
    BY <1>6, <2>1 DEF ManagerStarts, disk, SInv, Unstarted, Prepared, AllOrNothing
  <2>2. CASE game[on] \notin Original
    BY <1>6, <2>2 DEF ManagerStarts, disk, SInv, Unstarted, Prepared, AllOrNothing
  <2> QED BY <2>1, <2>2
<1>7. CASE PopsStarts
  <2>1. /\ UNCHANGED <<game, on, use_custom_png, ioHooked>>
        /\ stage = "manager" /\ stage' = "pops" /\ popsPatched' = patch_pops
        /\ iconSize' = IF patch_pops /\ use_custom_png THEN "custom" ELSE iconSize
    BY <1>7 DEF PopsStarts, disk
  <2>2. CASE patch_pops
    BY <2>1, <2>2 DEF SInv, Unstarted, Prepared, AllOrNothing, IconServed, TypeOK
  <2>3. CASE ~patch_pops
    BY <2>1, <2>3 DEF SInv, Unstarted, Prepared, AllOrNothing, IconServed, TypeOK
  <2> QED BY <2>2, <2>3
<1> QED BY <1>1, <1>2, <1>4, <1>5, <1>6, <1>7 DEF Next

-------------------------------------------------------------------------------
(* Theorems *)

LEMMA InvInit == Init => IInv
<1> SUFFICES ASSUME Init PROVE IInv
  OBVIOUS
<1>1. TypeOK
  BY TypingInit
<1>2. KInv
  BY PopsNames DEF Init, KInv, OwnFiles, Writes, Overwrites, RightKeys, KeyStays
<1>3. Off /\ SInv
  BY DEF Init, Off, SInv, Unstarted, Prepared, AllOrNothing
<1> QED BY <1>1, <1>2, <1>3 DEF IInv

LEMMA InvStep == IInv /\ [Next]_vars => IInv'
BY TypingStep, OffStep, KeysStep, StartsStep DEF IInv, KInv

THEOREM Inductive == Spec => []IInv
<1>1. Init => IInv
  BY InvInit
<1>2. IInv /\ [Next]_vars => IInv'
  BY InvStep
<1> QED BY <1>1, <1>2, PTL DEF Spec

\* The type invariant.
THEOREM Typing == Spec => []TypeOK
<1>1. IInv => TypeOK
  BY DEF IInv
<1> QED BY <1>1, Inductive, PTL

\* SetKeysPatched gives a game its own keys, unless another game was copied over the one
\* its KEYS.BIN was written for.
THEOREM OwnKeys == Spec => []RightKeys
<1>1. IInv => RightKeys
  BY DEF IInv, KInv
<1> QED BY <1>1, Inductive, PTL

\* A key once written to KEYS.BIN stays, whatever is interrupted or fails, unless the
\* file could not be read.
THEOREM KeysStay == Spec => []KeyStays
<1>1. IInv => KeyStays
  BY DEF IInv, KInv
<1> QED BY <1>1, Inductive, PTL

\* The patches of OnModuleStart and the icon that sceIoReadPatched serves fit each other
\* and the game.
THEOREM PatchesFit == Spec => []AllOrNothing
<1>1. IInv => AllOrNothing
  BY DEF IInv, SInv
<1> QED BY <1>1, Inductive, PTL
===============================================================================
