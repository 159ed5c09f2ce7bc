-------------------------------- MODULE UsbVsh --------------------------------
(* USB mode in the XMB: sceUsbStartPatched and sceUsbStopPatched                *)
(* (systemctrl/sysmodpatches.c), run by the thread of the XMB that starts and   *)
(* stops "USBStor_Driver", composed with the USB device component, the USB      *)
(* storage driver that serves the host, and the settings, which another thread  *)
(* (the VSH menu's) may change at any time.                                     *)
EXTENDS UsbDevice

\* Where the XMB's thread can be.
XmbStates == {"stopped", "init", "set", "setting", "finish", "start",
              "running", "stopping"}

CONSTANT SettingsMoments   \* where it can be when the settings change

ASSUME SettingsMoment == SettingsMoments \subseteq XmbStates

VARIABLES
  config,    \* usbdevice and notprotectflash0 of systemctrl's TNConfig
  xmb,       \* where the XMB's thread is
  host,      \* the drive the USB storage driver has opened for the host
  written,   \* history: the drives the host has written to in this session
  session    \* history: the settings when USB mode last started

vshVars == <<config, xmb, host, written, session>>
vars == <<devVars, vshVars>>

Configs == [usbdevice : 0..5, notprotectflash0 : BOOLEAN]
Closed  == <<"none", 0>>
Drives  == {<<"none", 0>>, <<"ms", 0>>, <<"umd", 0>>, <<"crash", 0>>}
             \cup ({"flash"} \X Flashes)

\* usbdevice > 0 && usbdevice < 6
Redirected == config.usbdevice \in 1..5

TypeOK ==
  /\ DevTypeOK
  /\ config \in Configs
  /\ xmb \in XmbStates
  /\ host \in Drives
  /\ written \subseteq Drives
  /\ session \in Configs

\* The firmware table is in place when systemctrl starts, and XMB starts outside
\* USB mode.
Init ==
  /\ DevInit
  /\ config \in Configs
  /\ xmb = "stopped"
  /\ host = Closed
  /\ written = {}
  /\ session = config

-------------------------------------------------------------------------------
(* sceUsbStartPatched *)

StartPatched ==
  /\ xmb = "stopped"
  /\ xmb' = IF Redirected THEN "init" ELSE "start"
  /\ session' = config
  /\ UNCHANGED <<devVars, config, host, written>>

\* pspUsbDeviceInit: its result is not looked at.
StartInit ==
  /\ xmb = "init"
  /\ DeviceInit
  /\ xmb' = "set"
  /\ UNCHANGED <<config, host, written, session>>

\* Mutant: the setting is passed on without the "- 1".
StartSetOffByOne ==
  /\ xmb = "set"
  /\ CallSetDevice(config.usbdevice, ~config.notprotectflash0, {})
  /\ xmb' = "setting"
  /\ UNCHANGED <<config, host, written, session>>

\* The settings are read again, after the file reads of pspUsbDeviceInit: a
\* usbdevice that is 0 by now is the unsigned number 0xFFFFFFFF.
StartSet ==
  /\ xmb = "set"
  /\ CallSetDevice(config.usbdevice - 1, ~config.notprotectflash0, {})
  /\ xmb' = "setting"
  /\ UNCHANGED <<config, host, written, session>>

StartSetting ==
  /\ xmb = "setting"
  /\ SetDeviceStep
  /\ UNCHANGED vshVars

StartSetReturns ==
  /\ xmb = "setting"
  /\ SetDeviceReturns
  /\ xmb' = IF res = "error" THEN "finish" ELSE "start"
  /\ UNCHANGED <<config, host, written, session>>

StartFinish ==
  /\ xmb = "finish"
  /\ FinishDevice(FALSE)
  /\ xmb' = "start"
  /\ UNCHANGED <<config, host, written, session>>

\* sceUsbStart: from here on the host can see a drive.
StartUsb ==
  /\ xmb = "start"
  /\ xmb' = "running"
  /\ UNCHANGED <<devVars, config, host, written, session>>

-------------------------------------------------------------------------------
(* sceUsbStopPatched *)

\* Mutant: the table is restored before the driver stops.
StopUsbFinishesFirst ==
  /\ xmb = "running"
  /\ IF Redirected THEN FinishDevice(FALSE) ELSE UNCHANGED devVars
  /\ xmb' = "stopping"
  /\ UNCHANGED <<config, host, written, session>>

\* sceUsbStop comes first: no call into the table after it.
StopUsb ==
  /\ xmb = "running"
  /\ xmb' = "stopping"
  /\ host' = Closed
  /\ written' = {}
  /\ UNCHANGED <<devVars, config, session>>

\* Mutant: usbdevice < 5 instead of usbdevice < 6.
StopFinishNotUmd ==
  /\ xmb = "stopping"
  /\ IF config.usbdevice \in 1..4 THEN FinishDevice(FALSE) ELSE UNCHANGED devVars
  /\ xmb' = "stopped"
  /\ UNCHANGED <<config, host, written, session>>

\* pspUsbDeviceFinishDevice, if the settings of now name a device.
StopFinish ==
  /\ xmb = "stopping"
  /\ IF Redirected THEN FinishDevice(FALSE) ELSE UNCHANGED devVars
  /\ xmb' = "stopped"
  /\ UNCHANGED <<config, host, written, session>>

-------------------------------------------------------------------------------
(* The rest of the system *)

\* The USB storage driver opens the drive for the host ...
HostOpens ==
  /\ xmb = "running"
  /\ host = Closed
  /\ OpenedDrive # "error"
  /\ host' = <<OpenedDrive, IF OpenedDrive = "flash" THEN cur_device ELSE 0>>
  /\ UNCHANGED <<devVars, config, xmb, written, session>>

\* ... and writes to it.
HostWrites ==
  /\ host \notin {Closed, <<"crash", 0>>}
  /\ WritePasses
  /\ written' = written \cup {host}
  /\ UNCHANGED <<devVars, config, xmb, host, session>>

\* SetConfig, from the VSH menu or the XMB's settings.
SettingsChange ==
  /\ xmb \in SettingsMoments
  /\ config' \in Configs
  /\ UNCHANGED <<devVars, xmb, host, written, session>>

DiscMoves == MoveDisc /\ UNCHANGED vshVars

\* The thread's own steps, once USB mode was asked for or left.
XmbStep == \/ StartInit \/ StartSet \/ StartSetting \/ StartSetReturns
           \/ StartFinish \/ StartUsb \/ StopFinish

Next == \/ StartPatched \/ XmbStep \/ StopUsb
        \/ HostOpens \/ HostWrites \/ SettingsChange \/ DiscMoves

Spec == Init /\ [][Next]_vars

\* The XMB's thread keeps running; nothing is assumed of the user or the host.
FairSpec == Spec /\ WF_vars(XmbStep)
-------------------------------------------------------------------------------
(* Properties *)

\* Outside USB mode the memory stick driver is exactly the firmware's again,
\* whatever was served and however pspUsbDeviceSetDevice failed.
RestoredWhenStopped == xmb = "stopped" => funcs = FirmwareTable

\* The UMD image's pool exists only from the installation of the UMD's functions
\* to their removal: no pool is forgotten, freed twice, or left to a later session.
NoPoolLeak ==
  /\ pools \subseteq {UmdSectorPoolAddr}
  /\ funcs = UmdTable <=> UmdSectorPoolAddr # NoPool

\* While a drive is open the table it is reached through, its device and its
\* write protection stay as they were: the host's driver never mixes two drives.
TableStableWhileOpen ==
  [][host # Closed => UNCHANGED <<funcs, cur_device, is_readonly>>]_vars

\* Starting USB mode ends with the drive served once a disc stays in the drive:
\* no failing branch of pspUsbDeviceSetDevice leaves the XMB's thread behind.
StartEnds == <>[]medium => (xmb = "init" ~> xmb = "running")

\* "Memory Stick" (vshmenu/en_vshmenu.h) is the memory stick: USB mode that is
\* started with that setting opens nothing else.
MemoryStickServed ==
  session.usbdevice = 0 => host \in {Closed, <<"ms", 0>>}

\* The session a user sees: the drive behind the table while USB mode is on.
ServedDrive == IF xmb = "running"
               THEN <<OpenedDrive, IF OpenedDrive = "flash" THEN cur_device ELSE 0>>
               ELSE Closed

\* The table that the settings of the session call for.
Installed ==
  CASE config.usbdevice \in 1..4 -> /\ funcs = FlashTable
                                    /\ cur_device = config.usbdevice - 1
                                    /\ is_readonly = ~config.notprotectflash0
    [] config.usbdevice = 5 -> \/ funcs = FirmwareTable
                               \/ funcs = UmdTable /\ is_readonly
    [] OTHER -> funcs = FirmwareTable

\* What the XMB's thread has achieved at each point of a session whose settings
\* do not change: the originals are saved before the table is rewritten, the
\* right table is in place when the driver starts, and an open drive is the one
\* behind the table.  RestoredWhenStopped is one of its cases.
SessionProgress ==
  /\ xmb # "setting" => op = "idle"
  /\ ~Redirected => xmb \in {"stopped", "start", "running", "stopping"}
  /\ xmb \in {"stopped", "init", "set"} => funcs = FirmwareTable
  /\ op \in {"medium", "ready", "probe"} => funcs = FirmwareTable
  /\ ~Redirected => funcs = FirmwareTable
  /\ Redirected /\ xmb \notin {"stopped", "init"} => saved = FirmwareTable
  /\ xmb = "setting" /\ config.usbdevice # 5 => op = "done" /\ res = "ok"
  /\ xmb = "setting" /\ res = "error" => funcs = FirmwareTable
  /\ xmb = "finish" => config.usbdevice = 5
  /\ xmb \in {"start", "running"} => Installed
  /\ xmb = "setting" /\ op = "done" /\ res = "ok" => Installed
  /\ host # Closed => xmb = "running" /\ host = ServedDrive

Storage == INSTANCE UsbStorage WITH
             choice   <- config,
             served   <- ServedDrive,
             writable <- xmb = "running" /\ WritePasses

\* Every session serves the chosen drive, writable as configured, and leaves
\* nothing behind: the code implements UsbStorage.
ServesTheChoice == Storage!Spec
===============================================================================
