------------------------------- MODULE Usb_proofs -------------------------------
(* Proofs about the USB device component and its two users.                       *)
(*                                                                                *)
(* What both rest on comes first: the function tables, and that each operation     *)
(* keeps the component's state of its type.                                        *)
(*                                                                                *)
(* UsbVsh: type correctness and the stability of the table while a drive is open  *)
(* hold in every environment; that the firmware's table and every pool come back, *)
(* and that the sessions are those of UsbStorage, is proved for settings that     *)
(* change outside USB mode only and a kernel that has memory for                  *)
(* pspUsbDeviceInit.  The counterexample to MemoryStickServed                     *)
(* (UsbVshMemoryStick.cfg) shows that the first assumption cannot be dropped.     *)
(*                                                                                *)
(* UsbClient: a program that uses the exported functions leaves the system as it  *)
(* found it, and serves what it asked for, whatever fails: for any flashes that   *)
(* were assigned at the start and any number of pools.                            *)
EXTENDS UsbVsh, UsbClient, TLAPS

-------------------------------------------------------------------------------
(* UsbDevice *)

\* The four function tables are tables, and no two that matter are equal.
LEMMA Tables ==
  /\ FirmwareTable \in [Slots -> Impls]
  /\ NullTable \in [Slots -> Impls]
  /\ FlashTable \in [Slots -> Impls]
  /\ UmdTable \in [Slots -> Impls]
  /\ FirmwareTable["IoOpen"] = "msstor" /\ FirmwareTable["IoWrite"] = "msstor"
  /\ FlashTable["IoOpen"] = "lflash" /\ FlashTable["IoWrite"] = "patch"
  /\ UmdTable["IoOpen"] = "umd" /\ UmdTable["IoWrite"] = "patch"
  /\ FirmwareTable # UmdTable
  /\ FlashTable # UmdTable
<1>1. /\ FirmwareTable["IoOpen"] = "msstor" /\ FirmwareTable["IoWrite"] = "msstor"
      /\ FlashTable["IoOpen"] = "lflash" /\ FlashTable["IoWrite"] = "patch"
      /\ UmdTable["IoOpen"] = "umd" /\ UmdTable["IoWrite"] = "patch"
  BY DEF FirmwareTable, FlashTable, UmdTable, Slots, Patched
<1>2. /\ FirmwareTable \in [Slots -> Impls]
      /\ NullTable \in [Slots -> Impls]
      /\ FlashTable \in [Slots -> Impls]
      /\ UmdTable \in [Slots -> Impls]
  BY DEF FirmwareTable, NullTable, FlashTable, UmdTable, Slots, Impls, Patched
<1>3. "msstor" # "umd" /\ "lflash" # "umd"
  OBVIOUS
<1> QED
  BY <1>1, <1>2, <1>3

-------------------------------------------------------------------------------
(* Type correctness of the operations *)

LEMMA DevInitTypes == DevInit => DevTypeOK
<1> SUFFICES ASSUME DevInit PROVE DevTypeOK
  OBVIOUS
<1>1. funcs \in [Slots -> Impls] /\ saved \in [Slots -> Impls]
  BY Tables DEF DevInit
<1>2. assigned \subseteq Flashes /\ cur_device \in Devices
  BY UsbConstants DEF DevInit, Devices, Flashes
<1>3. is_readonly \in BOOLEAN /\ medium \in BOOLEAN
  BY Zenon DEF DevInit
<1>4. op \in Ops /\ res \in {"ok", "error"}
  BY DEF DevInit, Ops
<1>5. /\ flash_unassigned \subseteq Flashes /\ pools \subseteq PoolIds
      /\ UmdSectorPoolAddr \in PoolIds \cup {NoPool}
  BY DEF DevInit
<1> QED
  BY <1>1, <1>2, <1>3, <1>4, <1>5 DEF DevTypeOK

LEMMA DevStepTypes ==
  ASSUME DevTypeOK,
         \/ DeviceInit
         \/ \E device \in Int, ronly \in BOOLEAN, mask \in SUBSET Flashes :
              CallSetDevice(device, ronly, mask)
         \/ SetDeviceStep
         \/ SetDeviceReturns
         \/ \E f \in BOOLEAN : FinishDevice(f)
         \/ MoveDisc
  PROVE  DevTypeOK'
<1> USE DEF DevTypeOK, Ops
<1>1. CASE DeviceInit
  BY <1>1 DEF DeviceInit, InitSaves, InitFails
<1>2. ASSUME NEW device \in Int, NEW ronly \in BOOLEAN, NEW mask \in SUBSET Flashes,
             CallSetDevice(device, ronly, mask)
      PROVE  DevTypeOK'
  <2>1. CASE SetInvalid(device)
    BY <2>1 DEF SetInvalid
  <2>2. CASE SetFlash(device, ronly, mask)
    BY <2>2, Tables DEF SetFlash, Devices
  <2>3. CASE SetUmd(device)
    BY <2>3 DEF SetUmd, Devices
  <2> QED
    BY <1>2, <2>1, <2>2, <2>3 DEF CallSetDevice
<1>3. CASE SetDeviceStep
  <2>1. CASE UmdMedium
    BY <2>1 DEF UmdMedium
  <2>2. CASE UmdReady
    BY <2>2 DEF UmdReady
  <2>3. CASE UmdProbeFails
    BY <2>3 DEF UmdProbeFails
  <2>4. CASE UmdInstall
    BY <2>4, Tables DEF UmdInstall
  <2> QED
    BY <1>3, <2>1, <2>2, <2>3, <2>4 DEF SetDeviceStep
<1>4. CASE SetDeviceReturns
  BY <1>4 DEF SetDeviceReturns
<1>5. ASSUME NEW f \in BOOLEAN, FinishDevice(f)
      PROVE  DevTypeOK'
  BY <1>5 DEF FinishDevice
<1>6. CASE MoveDisc
  BY <1>6 DEF MoveDisc
<1> QED
  BY <1>1, <1>2, <1>3, <1>4, <1>5, <1>6

-------------------------------------------------------------------------------
(* UsbVsh: type correctness *)

LEMMA InitTypes == Init => TypeOK
<1> SUFFICES ASSUME Init PROVE TypeOK
  OBVIOUS
<1>1. DevTypeOK
  BY DevInitTypes DEF Init
<1>2. config \in Configs /\ session \in Configs
  BY DEF Init
<1>3. xmb \in XmbStates /\ host \in Drives /\ written \subseteq Drives
  BY DEF Init, XmbStates, Drives, Closed
<1> QED
  BY <1>1, <1>2, <1>3 DEF TypeOK

LEMMA StepTypes == TypeOK /\ [Next]_vars => TypeOK'
<1> SUFFICES ASSUME TypeOK, [Next]_vars PROVE TypeOK'
  OBVIOUS
<1> USE DEF TypeOK
<1>a. DevTypeOK
  OBVIOUS
<1>1. CASE StartPatched
  BY <1>1 DEF StartPatched, XmbStates, devVars, DevTypeOK
<1>2. CASE StartInit
  <2>1. DevTypeOK'
    BY <1>2, <1>a, DevStepTypes DEF StartInit
  <2> QED
    BY <1>2, <2>1 DEF StartInit, XmbStates
<1>3. CASE StartSet
  <2>1. config.usbdevice - 1 \in Int /\ (~config.notprotectflash0) \in BOOLEAN
    BY DEF Configs
  <2>2. DevTypeOK'
    BY <1>3, <1>a, <2>1, DevStepTypes DEF StartSet
  <2> QED
    BY <1>3, <2>2 DEF StartSet, XmbStates
<1>4. CASE StartSetting
  BY <1>4, <1>a, DevStepTypes DEF StartSetting, vshVars
<1>5. CASE StartSetReturns
  <2>1. DevTypeOK'
    BY <1>5, <1>a, DevStepTypes DEF StartSetReturns
  <2> QED
    BY <1>5, <2>1 DEF StartSetReturns, XmbStates
<1>6. CASE StartFinish
  <2>1. DevTypeOK'
    BY <1>6, <1>a, DevStepTypes DEF StartFinish
  <2> QED
    BY <1>6, <2>1 DEF StartFinish, XmbStates
<1>7. CASE StartUsb
  BY <1>7 DEF StartUsb, XmbStates, devVars, DevTypeOK
<1>8. CASE StopUsb
  BY <1>8 DEF StopUsb, XmbStates, devVars, DevTypeOK, Drives, Closed
<1>9. CASE StopFinish
  <2>1. CASE Redirected
    BY <1>9, <2>1, <1>a, DevStepTypes DEF StopFinish, XmbStates
  <2>2. CASE ~Redirected
    BY <1>9, <2>2 DEF StopFinish, XmbStates, devVars, DevTypeOK
  <2> QED
    BY <2>1, <2>2
<1>10. CASE HostOpens
  <2>1. DevTypeOK'
    BY <1>10 DEF HostOpens, devVars, DevTypeOK
  <2>2. host' \in Drives
    BY <1>10 DEF HostOpens, OpenedDrive, Drives, DevTypeOK
  <2> QED
    BY <1>10, <2>1, <2>2 DEF HostOpens
<1>11. CASE HostWrites
  BY <1>11 DEF HostWrites, devVars, DevTypeOK
<1>12. CASE SettingsChange
  BY <1>12 DEF SettingsChange, devVars, DevTypeOK
<1>13. CASE DiscMoves
  BY <1>13, <1>a, DevStepTypes DEF DiscMoves, vshVars
<1>14. CASE UNCHANGED vars
  BY <1>14 DEF vars, devVars, vshVars, DevTypeOK
<1> QED
  BY <1>1, <1>2, <1>3, <1>4, <1>5, <1>6, <1>7, <1>8, <1>9, <1>10, <1>11, <1>12,
     <1>13, <1>14 DEF Next, XmbStep

\* Every state of the XMB and the component is of its type, in every environment.
THEOREM Typing == Spec => []TypeOK
  BY InitTypes, StepTypes, PTL DEF Spec

-------------------------------------------------------------------------------
(* UsbVsh: the table is stable while a drive is open *)

HostRuns == host # Closed => xmb = "running"

LEMMA StepHostRuns == HostRuns /\ [Next]_vars => HostRuns'
<1> SUFFICES ASSUME HostRuns, [Next]_vars PROVE HostRuns'
  OBVIOUS
<1>1. CASE \/ StartPatched \/ StartInit \/ StartSet \/ StartSetReturns \/ StartFinish
          \/ StartUsb \/ StopFinish
  BY <1>1 DEF HostRuns, StartPatched, StartInit, StartSet, StartSetReturns,
              StartFinish, StartUsb, StopFinish
<1>2. CASE StopUsb \/ HostOpens \/ HostWrites \/ SettingsChange
  BY <1>2 DEF HostRuns, StopUsb, HostOpens, HostWrites, SettingsChange
<1>3. CASE StartSetting \/ DiscMoves \/ UNCHANGED vars
  BY <1>3 DEF HostRuns, StartSetting, DiscMoves, vshVars, vars
<1> QED
  BY <1>1, <1>2, <1>3 DEF Next, XmbStep

LEMMA StepStable ==
  ASSUME HostRuns, [Next]_vars, host # Closed
  PROVE  UNCHANGED <<funcs, cur_device, is_readonly>>
<1>1. xmb = "running"
  BY DEF HostRuns
<1>2. ~StartPatched /\ ~XmbStep
  BY <1>1 DEF StartPatched, XmbStep, StartInit, StartSet, StartSetting,
              StartSetReturns, StartFinish, StartUsb, StopFinish
<1>3. CASE StopUsb \/ HostOpens \/ HostWrites \/ SettingsChange
  BY <1>3 DEF StopUsb, HostOpens, HostWrites, SettingsChange, devVars
<1>4. CASE DiscMoves
  BY <1>4 DEF DiscMoves, MoveDisc
<1>5. CASE UNCHANGED vars
  BY <1>5 DEF vars, devVars
<1> QED
  BY <1>2, <1>3, <1>4, <1>5 DEF Next

\* The host's driver never finds the table, the device or the write protection
\* changed under an open drive, in every environment: sceUsbStopPatched stops the
\* driver before it restores the table.
THEOREM TableStable == Spec => TableStableWhileOpen
<1>1. Init => HostRuns
  BY DEF Init, HostRuns
<1>2. HostRuns /\ [Next]_vars => HostRuns'
  BY StepHostRuns
<1>3. HostRuns /\ [Next]_vars
        => [host # Closed => UNCHANGED <<funcs, cur_device, is_readonly>>]_vars
  BY StepStable
<1> QED
  BY <1>1, <1>2, <1>3, PTL DEF Spec, TableStableWhileOpen

-------------------------------------------------------------------------------
(* UsbVsh: sessions whose settings do not change *)

QuietEnvironment == SettingsMoments = {"stopped"} /\ ~FplMayFail

PoolInv ==
  /\ pools = {UmdSectorPoolAddr} \ {NoPool}
  /\ funcs = UmdTable <=> UmdSectorPoolAddr # NoPool

IInv == TypeOK /\ SessionProgress /\ PoolInv

LEMMA InitIInv == Init => IInv
<1> SUFFICES ASSUME Init PROVE IInv
  OBVIOUS
<1>1. TypeOK
  BY InitTypes
<1>2. SessionProgress
  BY DEF Init, DevInit, SessionProgress, Closed
<1>3. PoolInv
  BY Tables DEF Init, DevInit, PoolInv
<1> QED
  BY <1>1, <1>2, <1>3 DEF IInv

LEMMA StepProgress ==
  ASSUME QuietEnvironment, IInv, [Next]_vars
  PROVE  SessionProgress' /\ PoolInv'
<1>a. /\ TypeOK /\ DevTypeOK /\ SessionProgress /\ PoolInv
      /\ config \in Configs /\ op \in Ops /\ xmb \in XmbStates
  BY DEF IInv, TypeOK, DevTypeOK
<1>b. config.usbdevice \in 0..5
  BY <1>a DEF Configs
<1> USE DEF SessionProgress, PoolInv
<1>1. CASE StartPatched
  BY <1>1, <1>a DEF StartPatched, devVars, Redirected, Installed, ServedDrive
<1>2. CASE StartInit
  <2>1. InitSaves /\ op = "idle"
    BY <1>2 DEF StartInit, DeviceInit, InitFails, QuietEnvironment
  <2> QED
    BY <1>2, <2>1, <1>a, <1>b DEF StartInit, InitSaves, Redirected, Installed
<1>3. CASE StartSet
  <2>1. xmb = "set" /\ Redirected /\ xmb' = "setting" /\ config' = config /\ host' = host
    BY <1>3, <1>a DEF StartSet
  <2>2. funcs = FirmwareTable /\ saved = FirmwareTable /\ host = Closed
    BY <2>1, <1>a
  <2>3. UmdSectorPoolAddr = NoPool /\ pools = {}
    BY <2>2, <1>a, Tables
  <2>4. CASE SetInvalid(config.usbdevice - 1)
    BY <2>4, <2>1, <1>b DEF SetInvalid, Redirected, Devices, Flashes, Umd
  <2>5. CASE SetFlash(config.usbdevice - 1, ~config.notprotectflash0, {})
    <3>1. config.usbdevice \in 1..4
      BY <2>5, <1>b DEF SetFlash, Flashes
    <3>2. /\ funcs' = FlashTable /\ res' = "ok" /\ op' = "done"
          /\ cur_device' = config.usbdevice - 1
          /\ UmdSectorPoolAddr' = NoPool /\ pools' = pools /\ saved' = saved
      BY <2>5 DEF SetFlash, NoFlash
    <3>3. is_readonly' = ~config.notprotectflash0
      BY <2>5 DEF SetFlash
    <3>4. Installed'
      BY <3>1, <3>2, <3>3, <2>1 DEF Installed
    <3> QED
      BY <3>1, <3>2, <3>4, <2>1, <2>2, <2>3, Tables DEF Redirected, Closed
  <2>6. CASE SetUmd(config.usbdevice - 1)
    <3>1. config.usbdevice = 5
      BY <2>6, <1>b DEF SetUmd, Umd
    <3> QED
      BY <2>6, <3>1, <2>1, <2>2, <2>3, Tables DEF SetUmd, Redirected, Closed
  <2> QED
    BY <1>3, <2>4, <2>5, <2>6 DEF StartSet, CallSetDevice
<1>4. CASE StartSetting
  <2>1. xmb = "setting" /\ SetDeviceStep /\ UNCHANGED vshVars
    BY <1>4 DEF StartSetting
  <2>2. op \in {"medium", "ready", "probe"}
    BY <2>1 DEF SetDeviceStep, UmdMedium, UmdReady, UmdProbeFails, UmdInstall
  <2>3. /\ config.usbdevice = 5 /\ Redirected /\ funcs = FirmwareTable
        /\ saved = FirmwareTable /\ host = Closed
    BY <2>1, <2>2, <1>a, <1>b DEF Redirected
  <2>4. UmdSectorPoolAddr = NoPool /\ pools = {}
    BY <2>3, <1>a, Tables
  <2>5. /\ xmb' = "setting" /\ config' = config /\ host' = Closed
        /\ config'.usbdevice = 5 /\ Redirected'
    BY <2>1, <2>3 DEF vshVars, Redirected
  <2>6. CASE UmdMedium \/ UmdReady \/ UmdProbeFails
    <3>1. /\ funcs' = funcs /\ saved' = saved /\ pools' = pools
          /\ UmdSectorPoolAddr' = UmdSectorPoolAddr
      BY <2>6 DEF UmdMedium, UmdReady, UmdProbeFails
    <3>2. Installed'
      BY <3>1, <2>3, <2>5 DEF Installed
    <3> QED
      BY <3>1, <3>2, <2>3, <2>4, <2>5, Tables
  <2>7. CASE UmdInstall
    <3>1. /\ funcs' = UmdTable /\ is_readonly' /\ saved' = saved
          /\ res' = "ok" /\ op' = "done"
      BY <2>7 DEF UmdInstall
    <3>2. PICK p \in PoolIds : pools' = pools \cup {p} /\ UmdSectorPoolAddr' = p
      BY <2>7 DEF UmdInstall
    <3>3. PoolInv'
      BY <3>1, <3>2, <2>4, UsbConstants
    <3>4. Installed'
      BY <3>1, <2>5 DEF Installed
    <3> QED
      BY <3>1, <3>3, <3>4, <2>3, <2>5
  <2> QED
    BY <2>1, <2>6, <2>7 DEF SetDeviceStep
<1>5. CASE StartSetReturns
  <2>1. /\ xmb = "setting" /\ op = "done" /\ op' = "idle"
        /\ UNCHANGED <<funcs, saved, cur_device, is_readonly, UmdSectorPoolAddr,
                       pools, res, config, host>>
        /\ xmb' = IF res = "error" THEN "finish" ELSE "start"
    BY <1>5 DEF StartSetReturns, SetDeviceReturns
  <2>2. Redirected /\ host = Closed
    BY <2>1, <1>a
  <2>3. CASE res = "error"
    BY <2>1, <2>2, <2>3, <1>a, <1>b DEF Redirected
  <2>4. CASE res # "error"
    <3>1. res = "ok"
      BY <2>4, <1>a DEF DevTypeOK
    <3> QED
      BY <2>1, <2>2, <3>1, <1>a DEF Redirected, Installed
  <2> QED
    BY <2>3, <2>4
<1>6. CASE StartFinish
  <2>1. /\ xmb = "finish" /\ config.usbdevice = 5 /\ saved = FirmwareTable /\ host = Closed
        /\ Redirected
    BY <1>6, <1>a DEF StartFinish
  <2>2. /\ funcs' = FirmwareTable /\ saved' = FirmwareTable /\ op' = "idle"
        /\ xmb' = "start" /\ UNCHANGED <<config, host>>
        /\ pools' = pools \ {UmdSectorPoolAddr} /\ UmdSectorPoolAddr' = NoPool
    BY <1>6, <2>1 DEF StartFinish, FinishDevice
  <2>3. PoolInv'
    BY <2>2, <1>a, Tables
  <2>4. Installed'
    BY <2>1, <2>2 DEF Installed
  <2> QED
    BY <2>1, <2>2, <2>3, <2>4 DEF Redirected
<1>7. CASE StartUsb
  BY <1>7, <1>a DEF StartUsb, devVars, Redirected, Installed, Closed
<1>8. CASE StopUsb
  BY <1>8, <1>a DEF StopUsb, devVars, Redirected, Installed, Closed
<1>9. CASE StopFinish
  <2>1. xmb = "stopping" /\ xmb' = "stopped" /\ UNCHANGED <<config, host>> /\ host = Closed
    BY <1>9, <1>a DEF StopFinish
  <2>2. CASE Redirected
    <3>1. /\ funcs' = FirmwareTable /\ op' = "idle"
          /\ pools' = pools \ {UmdSectorPoolAddr} /\ UmdSectorPoolAddr' = NoPool
      BY <1>9, <2>1, <2>2, <1>a DEF StopFinish, FinishDevice
    <3>2. PoolInv'
      BY <3>1, <1>a, Tables
    <3> QED
      BY <2>1, <2>2, <3>1, <3>2
  <2>3. CASE ~Redirected
    BY <1>9, <2>1, <2>3, <1>a DEF StopFinish, devVars, Redirected
  <2> QED
    BY <2>2, <2>3
<1>10. CASE HostOpens
  <2>1. /\ xmb = "running" /\ xmb' = xmb /\ config' = config /\ UNCHANGED devVars
        /\ host' = <<OpenedDrive, IF OpenedDrive = "flash" THEN cur_device ELSE 0>>
    BY <1>10 DEF HostOpens
  <2>2. host' = ServedDrive'
    BY <2>1 DEF ServedDrive, OpenedDrive, devVars
  <2> QED
    BY <2>1, <2>2, <1>a DEF devVars, Redirected, Installed
<1>11. CASE HostWrites
  BY <1>11, <1>a DEF HostWrites, devVars, Redirected, Installed, ServedDrive, OpenedDrive
<1>12. CASE SettingsChange
  <2>1. xmb = "stopped" /\ UNCHANGED <<devVars, xmb, host>>
    BY <1>12 DEF SettingsChange, QuietEnvironment
  <2> QED
    BY <2>1, <1>a DEF devVars
<1>13. CASE DiscMoves
  BY <1>13, <1>a DEF DiscMoves, MoveDisc, vshVars, Redirected, Installed,
                     ServedDrive, OpenedDrive
<1>14. CASE UNCHANGED vars
  BY <1>14, <1>a DEF vars, devVars, vshVars, Redirected, Installed,
                     ServedDrive, OpenedDrive
<1> QED
  BY <1>1, <1>2, <1>3, <1>4, <1>5, <1>6, <1>7, <1>8, <1>9, <1>10, <1>11, <1>12,
     <1>13, <1>14 DEF Next, XmbStep

\* IInv is inductive.
THEOREM Inductive == ASSUME QuietEnvironment PROVE Spec => []IInv
<1>1. Init => IInv
  BY InitIInv
<1>2. IInv /\ [Next]_vars => IInv'
  BY StepProgress, StepTypes DEF IInv
<1> QED
  BY <1>1, <1>2, PTL DEF Spec

\* Outside USB mode the firmware's function table is back, for every choice of
\* device, every failure of pspUsbDeviceSetDevice and any movement of the disc.
THEOREM Restored == ASSUME QuietEnvironment PROVE Spec => []RestoredWhenStopped
<1>1. IInv => RestoredWhenStopped
  BY DEF IInv, SessionProgress, RestoredWhenStopped
<1> QED
  BY <1>1, Inductive, PTL

\* The UMD image's pool exists exactly as long as the UMD's functions are installed.
THEOREM PoolsReturned == ASSUME QuietEnvironment PROVE Spec => []NoPoolLeak
<1>1. IInv => NoPoolLeak
  BY DEF IInv, PoolInv, NoPoolLeak
<1> QED
  BY <1>1, Inductive, PTL

-------------------------------------------------------------------------------
(* UsbVsh implements UsbStorage *)

\* In a session the drive behind the table is the one the settings name, or the
\* memory stick where the UMD could not be read, and a write passes as configured.
LEMMA DriveOfTable ==
  ASSUME TypeOK, Installed
  PROVE  LET drive == <<OpenedDrive, IF OpenedDrive = "flash" THEN cur_device ELSE 0>> IN
         /\ drive # Closed
         /\ drive = Storage!Chosen \/ (config.usbdevice = 5 /\ drive = Storage!MemoryStick)
         /\ (WritePasses <=> (drive = Storage!MemoryStick
                              \/ (config.usbdevice \in 1..4 /\ config.notprotectflash0)))
<1>a. config.usbdevice \in 0..5
  BY DEF TypeOK, Configs
<1> DEFINE drive == <<OpenedDrive, IF OpenedDrive = "flash" THEN cur_device ELSE 0>>
<1>1. CASE config.usbdevice \in 1..4
  <2>1. funcs = FlashTable /\ cur_device = config.usbdevice - 1
        /\ is_readonly = ~config.notprotectflash0
    BY <1>1 DEF Installed
  <2>2. cur_device \in Flashes
    BY <2>1, <1>1 DEF Flashes
  <2>3. drive = <<"flash", config.usbdevice - 1>>
    BY <2>1, <2>2, Tables DEF OpenedDrive
  <2>4. Storage!Chosen = <<"flash", config.usbdevice - 1>>
    BY <1>1 DEF Storage!Chosen, Storage!Flash
  <2>5. WritePasses <=> config.notprotectflash0
    BY <2>1, Tables DEF WritePasses
  <2> QED
    BY <1>1, <2>3, <2>4, <2>5 DEF Closed, Storage!MemoryStick
<1>2. CASE config.usbdevice \notin 1..4 /\ funcs = FirmwareTable
  <2>1. drive = <<"ms", 0>> /\ WritePasses
    BY <1>2, Tables DEF OpenedDrive, WritePasses
  <2>2. config.usbdevice = 0 \/ config.usbdevice = 5
    BY <1>a, <1>2
  <2> QED
    BY <1>2, <2>1, <2>2 DEF Closed, Storage!MemoryStick, Storage!Chosen
<1>3. CASE config.usbdevice = 5 /\ funcs = UmdTable /\ is_readonly
  <2>1. drive = <<"umd", 0>> /\ ~WritePasses
    BY <1>3, Tables DEF OpenedDrive, WritePasses
  <2> QED
    BY <1>3, <2>1 DEF Closed, Storage!MemoryStick, Storage!Chosen, Storage!UmdDisc
<1> QED
  BY <1>a, <1>1, <1>2, <1>3 DEF Installed

LEMMA InitImplements == Init => Storage!Init
  BY DEF Init, DevInit, Storage!Init, Storage!None, Closed, ServedDrive, Configs,
         Storage!Choices

\* A step that leaves the host's view alone is a stutter of UsbStorage.
LEMMA Stutter ==
  ASSUME UNCHANGED <<config, written>>,
         \/ xmb # "running" /\ xmb' # "running"
         \/ UNCHANGED <<xmb, funcs, cur_device, is_readonly>>
  PROVE  UNCHANGED Storage!vars
  BY DEF Storage!vars, ServedDrive, OpenedDrive, WritePasses

LEMMA StepImplements ==
  ASSUME QuietEnvironment, IInv, IInv', [Next]_vars
  PROVE  [Storage!Next]_Storage!vars
<1>a. TypeOK /\ TypeOK' /\ SessionProgress /\ SessionProgress'
  BY DEF IInv
<1>1. CASE StartPatched \/ StartInit \/ StartSet \/ StartSetting \/ StartSetReturns
           \/ StartFinish \/ StopFinish
  <2>1. UNCHANGED <<config, written>> /\ xmb # "running" /\ xmb' # "running"
    BY <1>1 DEF StartPatched, StartInit, StartSet, StartSetting, vshVars,
                StartSetReturns, StartFinish, StopFinish
  <2> QED
    BY <2>1, Stutter
<1>2. CASE StartUsb
  <2>1. /\ xmb = "start" /\ xmb' = "running" /\ UNCHANGED <<devVars, config, written>>
    BY <1>2 DEF StartUsb
  <2>2. Installed
    BY <2>1, <1>a DEF SessionProgress
  <2> DEFINE drive == <<OpenedDrive, IF OpenedDrive = "flash" THEN cur_device ELSE 0>>
  <2>3. /\ drive # Closed
        /\ drive = Storage!Chosen \/ (config.usbdevice = 5 /\ drive = Storage!MemoryStick)
        /\ (WritePasses <=> (drive = Storage!MemoryStick
                              \/ (config.usbdevice \in 1..4 /\ config.notprotectflash0)))
    BY <2>2, <1>a, DriveOfTable
  <2>4. ServedDrive = Storage!None /\ ServedDrive' = drive
    BY <2>1 DEF ServedDrive, Closed, Storage!None, OpenedDrive, devVars
  <2>5. config.usbdevice = 5 => Storage!Chosen = Storage!UmdDisc
    BY DEF Storage!Chosen
  <2>6. (xmb = "running" /\ WritePasses)' <=> WritePasses
    BY <2>1 DEF WritePasses, devVars
  <2>7. (xmb = "running" /\ WritePasses)' =
          (ServedDrive' = Storage!MemoryStick
             \/ (config.usbdevice \in 1..4 /\ config.notprotectflash0))
    BY <2>3, <2>4, <2>6
  <2>8. Storage!Start
    BY <2>1, <2>3, <2>4, <2>5, <2>7 DEF Storage!Start
  <2> QED
    BY <2>8 DEF Storage!Next
<1>3. CASE StopUsb
  <2>1. xmb = "running" /\ xmb' = "stopping" /\ config' = config /\ written' = {}
    BY <1>3 DEF StopUsb
  <2>2. Installed
    BY <2>1, <1>a DEF SessionProgress
  <2>3. ServedDrive # Storage!None
    BY <2>1, <2>2, <1>a, DriveOfTable DEF ServedDrive, Closed, Storage!None
  <2>4. ServedDrive' = Storage!None
    BY <2>1 DEF ServedDrive, Closed, Storage!None
  <2>5. (xmb = "running" /\ WritePasses)' = FALSE
    BY <2>1
  <2> QED
    BY <2>1, <2>3, <2>4, <2>5 DEF Storage!Next, Storage!Stop
<1>4. CASE HostWrites
  <2>1. /\ host # Closed /\ WritePasses /\ written' = written \cup {host}
        /\ UNCHANGED <<devVars, config, xmb>>
    BY <1>4 DEF HostWrites
  <2>2. xmb = "running" /\ host = ServedDrive
    BY <2>1, <1>a DEF SessionProgress
  <2>3. ServedDrive' = ServedDrive
        /\ (xmb = "running" /\ WritePasses)' = (xmb = "running" /\ WritePasses)
    BY <2>1 DEF ServedDrive, OpenedDrive, WritePasses, devVars
  <2> QED
    BY <2>1, <2>2, <2>3 DEF Storage!Next, Storage!Write
<1>5. CASE SettingsChange
  <2>1. /\ xmb = "stopped" /\ config' \in Storage!Choices
        /\ UNCHANGED <<devVars, xmb, written>>
    BY <1>5 DEF SettingsChange, QuietEnvironment, Configs, Storage!Choices
  <2>2. ServedDrive = Storage!None /\ ServedDrive' = ServedDrive
        /\ (xmb = "running" /\ WritePasses)' = (xmb = "running" /\ WritePasses)
    BY <2>1 DEF ServedDrive, Closed, Storage!None
  <2> QED
    BY <2>1, <2>2 DEF Storage!Next, Storage!Choose
<1>6. CASE HostOpens
  BY <1>6, Stutter DEF HostOpens, devVars
<1>7. CASE DiscMoves
  BY <1>7, Stutter DEF DiscMoves, MoveDisc, vshVars
<1>8. CASE UNCHANGED vars
  BY <1>8, Stutter DEF vars, devVars, vshVars
<1> QED
  BY <1>1, <1>2, <1>3, <1>4, <1>5, <1>6, <1>7, <1>8 DEF Next, XmbStep

\* Each session serves the drive the settings name, writable as they say, and
\* leaves nothing to the next one: the code's sessions are those of UsbStorage.
THEOREM Implements == ASSUME QuietEnvironment PROVE Spec => ServesTheChoice
<1>1. Init => Storage!Init
  BY InitImplements
<1>2. IInv /\ IInv' /\ [Next]_vars => [Storage!Next]_Storage!vars
  BY StepImplements
<1> QED
  BY <1>1, <1>2, Inductive, PTL DEF Spec, ServesTheChoice, Storage!Spec

-------------------------------------------------------------------------------
(* UsbClient: type correctness *)

LEMMA ClientInitTypes == ClientInit => ClientTypeOK
<1> SUFFICES ASSUME ClientInit PROVE ClientTypeOK
  OBVIOUS
<1>1. DevTypeOK
  BY DevInitTypes DEF ClientInit
<1>2. client \in ClientStates /\ inited \in BOOLEAN
  BY DEF ClientInit, ClientStates
<1>3. asked \in Requests
  BY DEF ClientInit, Requests, Devices, Flashes
<1> QED
  BY <1>1, <1>2, <1>3 DEF ClientTypeOK

LEMMA ClientStepTypes == ClientTypeOK /\ [ClientNext]_allClientVars => ClientTypeOK'
<1> SUFFICES ASSUME ClientTypeOK, [ClientNext]_allClientVars PROVE ClientTypeOK'
  OBVIOUS
<1> USE DEF ClientTypeOK
<1>a. DevTypeOK
  OBVIOUS
<1>1. CASE Initialise
  <2>1. DevTypeOK'
    BY <1>1, <1>a, DevStepTypes DEF Initialise
  <2>2. inited' \in BOOLEAN
    BY <1>1, Zenon DEF Initialise
  <2> QED
    BY <1>1, <2>1, <2>2 DEF Initialise
<1>2. ASSUME NEW request \in Requests, AskFor(request) PROVE ClientTypeOK'
  <2>1. request.device \in Int /\ request.ronly \in BOOLEAN /\ request.mask \in SUBSET Flashes
    BY DEF Requests, Devices, Flashes, Umd
  <2>2. DevTypeOK'
    BY <1>2, <1>a, <2>1, DevStepTypes DEF AskFor
  <2> QED
    BY <1>2, <2>2 DEF AskFor, ClientStates
<1>3. CASE SettingStep
  BY <1>3, <1>a, DevStepTypes DEF SettingStep, clientVars
<1>4. CASE SetReturns
  <2>1. DevTypeOK'
    BY <1>4, <1>a, DevStepTypes DEF SetReturns
  <2> QED
    BY <1>4, <2>1 DEF SetReturns, ClientStates
<1>5. CASE ServeHost \/ StopServing
  BY <1>5 DEF ServeHost, StopServing, ClientStates, devVars, DevTypeOK
<1>6. CASE GiveBack
  <2>1. DevTypeOK'
    BY <1>6, <1>a, DevStepTypes, AssignConstant DEF GiveBack
  <2> QED
    BY <1>6, <2>1 DEF GiveBack, ClientStates
<1>7. CASE ClientDiscMoves
  BY <1>7, <1>a, DevStepTypes DEF ClientDiscMoves, clientVars
<1>8. CASE UNCHANGED allClientVars
  BY <1>8 DEF allClientVars, devVars, clientVars, DevTypeOK
<1> QED
  BY <1>1, <1>2, <1>3, <1>4, <1>5, <1>6, <1>7, <1>8 DEF ClientNext

\* Every state of the component and the program is of its type, whatever fails.
THEOREM ClientTyping == ClientSpec => []ClientTypeOK
  BY ClientInitTypes, ClientStepTypes, PTL DEF ClientSpec

-------------------------------------------------------------------------------
(* UsbClient: the inductive invariant *)

\* The originals are the firmware's once they were saved, and nothing is set before.
Saved == /\ inited => saved = FirmwareTable
         /\ client # "idle" => inited

\* Only pspUsbDeviceSetDevice takes more than a step.
Steps == client # "setting" => op = "idle"

\* The component holds the only pool there is.
OwnPool == pools = {UmdSectorPoolAddr} \ {NoPool}

\* What is flagged was assigned, what is not assigned is flagged.
Flags == /\ NoFlashForgotten
         /\ flash_unassigned \subseteq InitialAssigned

\* Until it was installed, the image of the UMD takes nothing away.
UmdUnderWay ==
  (client = "setting" /\ op \in {"medium", "ready", "probe"}) =>
    /\ asked.device = Umd /\ cur_device = Umd
    /\ pools = {} /\ assigned = InitialAssigned

\* What was set without error is what was asked for.
InstalledAsAsked ==
  /\ cur_device = asked.device
  /\ asked.device = Umd => funcs = UmdTable /\ is_readonly
  /\ asked.device \in Flashes => /\ funcs = FlashTable
                                 /\ is_readonly = asked.ronly
                                 /\ asked.mask \cap assigned = {}

SetIsInstalled ==
  (\/ client = "setting" /\ op = "done" /\ res = "ok"
   \/ client \in {"ready", "running"}) => InstalledAsAsked

ClientIInv == /\ ClientTypeOK /\ SystemRestored /\ Saved /\ Steps /\ OwnPool /\ Flags
        /\ UmdUnderWay /\ SetIsInstalled

LEMMA ClientInitIInv == ClientInit => ClientIInv
<1> SUFFICES ASSUME ClientInit PROVE ClientIInv
  OBVIOUS
<1>1. ClientTypeOK
  BY ClientInitTypes
<1>2. SystemRestored /\ Saved /\ Steps /\ OwnPool /\ Flags /\ UmdUnderWay /\ SetIsInstalled
  BY DEF ClientInit, DevInit, SystemRestored, Saved, Steps, OwnPool, Flags, NoFlashForgotten,
         UmdUnderWay, SetIsInstalled
<1> QED
  BY <1>1, <1>2 DEF ClientIInv

\* The steps of the program that are not the component's.
LEMMA StepOfProgram ==
  ASSUME ClientIInv, \/ Initialise \/ SetReturns \/ ServeHost \/ StopServing \/ ClientDiscMoves
               \/ UNCHANGED allClientVars
  PROVE  /\ SystemRestored' /\ Saved' /\ Steps' /\ OwnPool' /\ Flags'
         /\ UmdUnderWay' /\ SetIsInstalled'
<1>a. /\ SystemRestored /\ Saved /\ Steps /\ OwnPool /\ Flags
      /\ UmdUnderWay /\ SetIsInstalled
      /\ client \in ClientStates /\ op \in Ops /\ res \in {"ok", "error"}
  BY DEF ClientIInv, ClientTypeOK, DevTypeOK
<1> USE DEF SystemRestored, Saved, Steps, OwnPool, Flags, NoFlashForgotten, UmdUnderWay,
            SetIsInstalled, InstalledAsAsked, ClientStates, Ops
<1>1. CASE Initialise
  <2>1. CASE InitSaves
    BY <1>1, <1>a, <2>1 DEF Initialise, InitSaves
  <2>2. CASE InitFails
    BY <1>1, <1>a, <2>2 DEF Initialise, InitFails
  <2> QED
    BY <1>1, <2>1, <2>2 DEF Initialise, DeviceInit
<1>2. CASE SetReturns
  BY <1>2, <1>a DEF SetReturns, SetDeviceReturns
<1>3. CASE ServeHost \/ StopServing
  BY <1>3, <1>a DEF ServeHost, StopServing, devVars
<1>4. CASE ClientDiscMoves
  BY <1>4, <1>a DEF ClientDiscMoves, MoveDisc, clientVars
<1>5. CASE UNCHANGED allClientVars
  BY <1>5, <1>a DEF allClientVars, devVars, clientVars
<1> QED
  BY <1>1, <1>2, <1>3, <1>4, <1>5

\* pspUsbDeviceSetDevice begins with a system that is as the program found it.
LEMMA StepAsk ==
  ASSUME ClientIInv, NEW request \in Requests, AskFor(request)
  PROVE  /\ SystemRestored' /\ Saved' /\ Steps' /\ OwnPool' /\ Flags'
         /\ UmdUnderWay' /\ SetIsInstalled'
<1>1. /\ client = "idle" /\ client' = "setting" /\ asked' = request
      /\ inited /\ inited' = inited
  BY DEF AskFor
<1>2. /\ funcs = FirmwareTable /\ pools = {} /\ assigned = InitialAssigned
      /\ saved = FirmwareTable /\ flash_unassigned \subseteq InitialAssigned
  BY <1>1 DEF ClientIInv, SystemRestored, Saved, Flags
<1>3. request.device \in Devices /\ request.mask \subseteq Flashes
  BY DEF Requests
<1> USE DEF SystemRestored, Saved, Steps, OwnPool, Flags, NoFlashForgotten, UmdUnderWay,
            SetIsInstalled
<1>4. CASE SetFlash(request.device, request.ronly, request.mask)
  <2>1. /\ cur_device' = request.device /\ is_readonly' = request.ronly
        /\ request.device \in Flashes /\ op' = "done"
        /\ UmdSectorPoolAddr' = NoPool /\ pools' = pools /\ saved' = saved
    BY <1>4 DEF SetFlash
  <2>2. PICK failing \in (request.mask \cap assigned) \cup {NoFlash} :
          LET done == {n \in request.mask \cap assigned : n < failing} IN
          /\ flash_unassigned' = done
          /\ assigned' = assigned \ done
          /\ funcs' = IF failing = NoFlash THEN FlashTable ELSE funcs
          /\ res' = IF /\ failing = NoFlash
                       /\ \A n \in request.mask :
                            (\A m \in request.mask : m <= n) => n \in assigned
                    THEN "ok" ELSE "error"
    BY <1>4 DEF SetFlash
  <2>3. /\ flash_unassigned' \subseteq InitialAssigned
        /\ assigned' \subseteq InitialAssigned
        /\ InitialAssigned \ assigned' \subseteq flash_unassigned'
    BY <2>2, <1>2
  <2>4. ASSUME res' = "ok" PROVE InstalledAsAsked'
    <3>1. failing = NoFlash /\ funcs' = FlashTable
      BY <2>2, <2>4
    <3>2. request.mask \cap assigned' = {}
      BY <2>2, <3>1, <1>3 DEF Flashes, NoFlash
    <3> QED
      BY <2>1, <3>1, <3>2, <1>1 DEF InstalledAsAsked, Flashes, Umd
  <2> QED
    BY <1>1, <1>2, <2>1, <2>3, <2>4
<1>5. CASE SetUmd(request.device)
  <2>1. request.device = Umd
    BY <1>5 DEF SetUmd
  <2> QED
    BY <1>1, <1>2, <1>5, <2>1 DEF SetUmd
<1>6. ~SetInvalid(request.device)
  BY <1>3 DEF SetInvalid
<1> QED
  BY <1>4, <1>5, <1>6 DEF AskFor, CallSetDevice

\* The UMD is installed, or given up without a trace.
LEMMA StepSetting ==
  ASSUME ClientIInv, SettingStep
  PROVE  /\ SystemRestored' /\ Saved' /\ Steps' /\ OwnPool' /\ Flags'
         /\ UmdUnderWay' /\ SetIsInstalled'
<1>1. /\ client = "setting" /\ UNCHANGED <<client, inited, asked>>
      /\ op \in {"medium", "ready", "probe"}
  BY DEF SettingStep, clientVars, SetDeviceStep, UmdMedium, UmdReady, UmdProbeFails,
         UmdInstall
<1>2. /\ asked.device = Umd /\ cur_device = Umd
      /\ pools = {} /\ assigned = InitialAssigned /\ Saved /\ OwnPool /\ Flags
  BY <1>1 DEF ClientIInv, UmdUnderWay
<1> USE DEF SystemRestored, Saved, Steps, OwnPool, Flags, NoFlashForgotten, UmdUnderWay,
            SetIsInstalled
<1>3. CASE UmdMedium
  BY <1>1, <1>2, <1>3 DEF UmdMedium
<1>4. CASE UmdReady
  BY <1>1, <1>2, <1>4 DEF UmdReady
<1>5. CASE UmdProbeFails
  BY <1>1, <1>2, <1>5 DEF UmdProbeFails
<1>6. CASE UmdInstall
  <2>1. /\ funcs' = UmdTable /\ is_readonly' /\ op' = "done"
        /\ UNCHANGED <<saved, cur_device, flash_unassigned, assigned>>
    BY <1>6 DEF UmdInstall
  <2>2. PICK p \in PoolIds : pools' = pools \cup {p} /\ UmdSectorPoolAddr' = p
    BY <1>6 DEF UmdInstall
  <2>3. OwnPool'
    BY <2>2, <1>2, UsbConstants
  <2>4. InstalledAsAsked'
    BY <2>1, <1>1, <1>2 DEF InstalledAsAsked, Flashes, Umd
  <2> QED
    BY <1>1, <1>2, <2>1, <2>3, <2>4
<1> QED
  BY <1>3, <1>4, <1>5, <1>6 DEF SettingStep, SetDeviceStep

\* Each pspUsbDeviceFinishDevice gives something back, and the last one the rest.
LEMMA StepGiveBack ==
  ASSUME ClientIInv, GiveBack
  PROVE  /\ SystemRestored' /\ Saved' /\ Steps' /\ OwnPool' /\ Flags'
         /\ UmdUnderWay' /\ SetIsInstalled'
<1>1. /\ client = "giveback" /\ client' \in {"idle", "giveback"}
      /\ client' = "idle" => res' = "ok"
      /\ UNCHANGED <<inited, asked>>
  BY DEF GiveBack
<1>2. /\ Saved /\ OwnPool /\ Flags /\ op = "idle" /\ flash_unassigned \subseteq Flashes
  BY <1>1 DEF ClientIInv, Steps, ClientTypeOK, DevTypeOK
<1>3. /\ funcs' = saved /\ pools' = pools \ {UmdSectorPoolAddr} /\ op' = op
      /\ UmdSectorPoolAddr' = NoPool /\ UNCHANGED <<saved, flash_unassigned>>
  BY DEF GiveBack, FinishDevice
<1>4. PICK failing \in flash_unassigned \cup {NoFlash} :
        /\ assigned' = assigned \cup {n \in flash_unassigned : n < failing}
        /\ res' = IF failing = NoFlash THEN "ok" ELSE "error"
  BY DEF GiveBack, FinishDevice
<1>5. Flags'
  BY <1>2, <1>3, <1>4 DEF Flags, NoFlashForgotten
<1>6. OwnPool' /\ pools' = {}
  BY <1>2, <1>3 DEF OwnPool
<1>7. ASSUME client' = "idle" PROVE assigned' = InitialAssigned
  <2>1. failing = NoFlash
    BY <1>1, <1>4, <1>7
  <2>2. \A n \in flash_unassigned : n < failing
    BY <1>2, <2>1 DEF NoFlash, Flashes
  <2> QED
    BY <1>2, <1>4, <2>2 DEF Flags, NoFlashForgotten
<1> QED
  BY <1>1, <1>2, <1>3, <1>5, <1>6, <1>7
     DEF SystemRestored, Saved, Steps, UmdUnderWay, SetIsInstalled

LEMMA ClientStepIInv == ClientIInv /\ [ClientNext]_allClientVars => ClientIInv'
<1> SUFFICES ASSUME ClientIInv, [ClientNext]_allClientVars PROVE ClientIInv'
  OBVIOUS
<1>1. ClientTypeOK'
  BY ClientStepTypes DEF ClientIInv
<1>2. /\ SystemRestored' /\ Saved' /\ Steps' /\ OwnPool' /\ Flags'
      /\ UmdUnderWay' /\ SetIsInstalled'
  BY StepOfProgram, StepAsk, StepSetting, StepGiveBack DEF ClientNext
<1> QED
  BY <1>1, <1>2 DEF ClientIInv

-------------------------------------------------------------------------------
(* UsbClient: the theorems *)

\* A program that is done leaves the firmware's table, no pool and every flash
\* assigned, through every early return of SetDevice and FinishDevice.
THEOREM ClientRestored == ClientSpec => []SystemRestored
<1>1. ClientIInv => SystemRestored
  BY DEF ClientIInv
<1> QED
  BY <1>1, ClientInitIInv, ClientStepIInv, PTL DEF ClientSpec

\* The component's flags always know every flash that was taken away.
THEOREM Remembered == ClientSpec => []NoFlashForgotten
<1>1. ClientIInv => NoFlashForgotten
  BY DEF ClientIInv, Flags
<1> QED
  BY <1>1, ClientInitIInv, ClientStepIInv, PTL DEF ClientSpec

\* No flash of the mask is the firmware's while the host has it.
THEOREM UsedOnce == ClientSpec => []NoDoubleUse
<1>1. ClientIInv => NoDoubleUse
  BY DEF ClientIInv, SetIsInstalled, InstalledAsAsked, NoDoubleUse
<1> QED
  BY <1>1, ClientInitIInv, ClientStepIInv, PTL DEF ClientSpec

\* The host is served the device that was asked for, writable only if asked for so.
THEOREM Served == ClientSpec => []ServedAsAsked
<1>1. ClientIInv => ServedAsAsked
  <2> SUFFICES ASSUME ClientIInv, client = "running" PROVE ServedAsAsked
    BY DEF ServedAsAsked
  <2>1. InstalledAsAsked /\ asked.device \in Flashes \cup {Umd} /\ Umd \notin Flashes
    BY DEF ClientIInv, SetIsInstalled, ClientTypeOK, Requests, Devices, Flashes, Umd
  <2>2. CASE asked.device = Umd
    BY <2>1, <2>2, Tables DEF ServedAsAsked, InstalledAsAsked, OpenedDrive, WritePasses
  <2>3. CASE asked.device \in Flashes
    BY <2>1, <2>3, Tables DEF ServedAsAsked, InstalledAsAsked, OpenedDrive, WritePasses
  <2> QED
    BY <2>1, <2>2, <2>3
<1> QED
  BY <1>1, ClientInitIInv, ClientStepIInv, PTL DEF ClientSpec
===============================================================================
