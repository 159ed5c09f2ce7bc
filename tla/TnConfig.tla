------------------------------- MODULE TnConfig -------------------------------
(* The settings file flashfat1:/config.tn and its two accessors                 *)
(* (systemctrl/conf.c).  A TNConfig is abstracted to the settings the VSH menu   *)
(* edits ("choice": the clocks and the USB device, one cyclic value) and one     *)
(* only TN Settings edits (novshmenu, which the pad's hook looks at).            *)
EXTENDS Integers

CONSTANTS
  MaxChoice,    \* bound: choices are 0..MaxChoice
  ReadsMayFail  \* whether a read of the file may fail

ASSUME ChoiceConstant == MaxChoice \in Nat \ {0} /\ ReadsMayFail \in BOOLEAN

Settings == [choice : 0..MaxChoice, novshmenu : BOOLEAN]
Zeros    == [choice |-> 0, novshmenu |-> FALSE]
\* The content of a file that was truncated and not (fully) written.
Torn     == [choice |-> 0, novshmenu |-> FALSE, torn |-> TRUE]

VARIABLES
  file,      \* the content of config.tn
  saveFailed \* history: the last sctrlSESetConfig reported an error

fileVars == <<file, saveFailed>>

FileTypeOK == file \in Settings \cup {Torn} /\ saveFailed \in BOOLEAN

\* The machine may have been switched off while the file was written.
FileInit == file \in Settings \cup {Torn} /\ saveFailed = FALSE

\* What there is to read: zeros behind the end of the file, and no look at the magic.
Stored == IF file = Torn THEN Zeros ELSE file

\* sctrlSEGetConfig clears the settings and reads the file over them, or sceIoOpen or
\* sceIoRead fails, which no caller looks at, and they stay zero.
GetConfig(conf) == \/ conf = Stored
                   \/ ReadsMayFail /\ conf = Zeros

\* sctrlSESetConfig, first step: sceIoOpen truncates the file.
OpenTruncates == file' = Torn /\ UNCHANGED saveFailed
\* ... or fails, and the function returns -1.
OpenFails == saveFailed' = TRUE /\ UNCHANGED file
\* Second step: sceIoWrite writes all of it.
WriteSucceeds(conf) == file' = conf /\ saveFailed' = FALSE
\* ... or less, and the function returns -1.
WriteFallsShort == file' = Torn /\ saveFailed' = TRUE
===============================================================================
