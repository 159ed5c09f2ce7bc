------------------------------ MODULE UsbStorage ------------------------------
(* What USB mode promises the user of the XMB, without function tables, pools   *)
(* or drivers: each time USB mode starts, the host is given the drive the "USB  *)
(* Device" setting names (the memory stick when the UMD cannot be read), it can *)
(* write to it only as the settings allow, and nothing of a session outlives    *)
(* it.  UsbVsh implements this specification.                                   *)
EXTENDS Integers

VARIABLES
  choice,     \* the settings: [usbdevice, notprotectflash0]
  served,     \* the drive the host sees, or None
  writable,   \* the host can write to it
  written     \* the drives the host has written to in this session

vars == <<choice, served, writable, written>>

Choices == [usbdevice : 0..5, notprotectflash0 : BOOLEAN]

None        == <<"none", 0>>
MemoryStick == <<"ms", 0>>
UmdDisc     == <<"umd", 0>>
Flash(n)    == <<"flash", n>>

Chosen == CASE choice.usbdevice = 0 -> MemoryStick
            [] choice.usbdevice = 5 -> UmdDisc
            [] OTHER                -> Flash(choice.usbdevice - 1)

Init ==
  /\ choice \in Choices
  /\ served = None
  /\ writable = FALSE
  /\ written = {}

\* The settings change outside USB mode.
Choose ==
  /\ served = None
  /\ choice' \in Choices
  /\ UNCHANGED <<served, writable, written>>

Start ==
  /\ served = None
  /\ \/ served' = Chosen
     \/ Chosen = UmdDisc /\ served' = MemoryStick
  /\ writable' = (\/ served' = MemoryStick
                  \/ choice.usbdevice \in 1..4 /\ choice.notprotectflash0)
  /\ UNCHANGED <<choice, written>>

Write ==
  /\ writable
  /\ written' = written \cup {served}
  /\ UNCHANGED <<choice, served, writable>>

Stop ==
  /\ served # None
  /\ served' = None
  /\ writable' = FALSE
  /\ written' = {}
  /\ UNCHANGED choice

Next == Choose \/ Start \/ Write \/ Stop

Spec == Init /\ [][Next]_vars
===============================================================================
