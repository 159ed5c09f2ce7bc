# A verification of 6.20 TN-E

TLA+ models of the custom firmware "6.20 TN-E (HEN)" for the PSP, the TLC runs that
check them on small instances, and TLAPS proofs of the main properties for every value of
the constants. Everything is translated from the C source under `src/`; each definition's
lines are in `PROJECT.json` under `map`.

To check a module: `tlc -workers 2 -config X.cfg M`, with the pairs of the table *Runs*.
To check a proof: `tlapm M_proofs.tla` (`Usb_proofs` has those of all the USB modules).

## 1. The system

Four programs, each loaded into the Sony firmware:

| program | directory | lives |
| --- | --- | --- |
| `eboot`     | `src/eboot`     | once: the game that patches the running kernel and reboots it |
| `rebootex`  | `src/rebootex`  | during each reboot, before there is a kernel; hooks the boot loader |
| `systemctrl`| `src/systemctrl`| in each kernel, from its first modules on; hooks other modules when they start |
| `vshmenu`, `xmbctrl` | `src/vshmenu`, `src/xmbctrl` | in the XMB (the firmware's menu): a menu over it, and "TN Settings" inside it |

They share: a block of memory at 0x88FB0000 that survives a reboot; the settings file
`flashfat1:/config.tn` and systemctrl's copy of it; the plugin lists on memory stick or
internal storage; and the function table of the firmware's memory stick driver.

### Inventory

Each component with its state, its operations, what makes it hard, and when it is correct.

**USB device redirection** (`systemctrl/usbdevice.c`, hooks in `sysmodpatches.c` 500-560).
State: the function table of the driver "msstor" and the saved originals, device, write
protection, which flash file systems were unassigned, the buffer pool of the UMD.
Operations: `pspUsbDeviceInit`, `pspUsbDeviceSetDevice`, `pspUsbDeviceFinishDevice`, the
start and stop hooks of USB, and the functions put into the table. Hard: the choice is made
from settings which another thread may change; six early returns undo different amounts;
three waits for the UMD drive; the host has drives open while the table is rewritten.
Correct when each session serves what the settings name, and nothing outlives it.

**UMD as a FAT16 image** (`usbdevice.c` 145-330). State: the buffered sector, its number, the
position of host and drive. Operations: `umdIoOpen`, `umdIoLseek`, `umdIoRead`,
`umdReadSector`, `GetUMDFreeSize`. Hard: sectors of two sizes, a made-up part in front, discs
that end anywhere in a cluster, reads that fail after others moved the drive. Correct when
what the host reads of the file is the disc, and the FAT chains the file and nothing else.

**VSH menu** (`vshmenu/main.c`, pad hook in `sysmodpatches.c` 430-495). State: the loaded
module, its thread and handler, the selected entry, the mode; the copy of the settings.
Operations: load at SELECT, feed the pad, leave, stop, unload. Hard: two threads and a
handler pointer that one sets and the other calls; a stop that waits only 100 ms. Correct
when no handler of an unloaded menu is called, nothing is left behind, and it closes.

**Settings file** (`systemctrl/conf.c`). State: `config.tn`, systemctrl's copy, one in each
program that edits. Operations: `sctrlSEGetConfig`, `sctrlSESetConfig`, and
`vctrlVSHExitVSHMenu`, which hands a program's copy to systemctrl.
Hard: truncated before it is written; three copies. Correct when the copy in use is the saved
one and a change changes one setting.

**Reboot loader** (`rebootex/main.c`). State: the table of modules in `pspbtcnf`, three flags
on the file that is open. Operations: `InsertModule` (thrice), the hooks on the boot loader's
open, read and close. Hard: a table is shifted while it is walked, with offsets computed
before, and one loop variable serves two loops. Correct when HEN's modules stand where they
belong, once, in each mode, and each module is loaded with its own content.

**Reboot chain and memory partitions** (`eboot/main.c`, `rebootex/main.c`, `systemctrl/main.c`
module_start, `sysmodpatches.c` 130-200). State: the block that survives, the kernel's copies,
the partition table. Operations: fill the block, read it, request memory or a module, apply.
Hard: three programs write parts of the block, zero and nonzero mean different things, leftover
values. Correct when HEN lives in each kernel, requests are honoured exactly once.

**Plugin lists** (`systemctrl/plugins.c`, `xmbctrl/main.c` 150-230, `xmbctrl/utils.c`). State:
three lists on two devices, the table TN Settings keeps. Operations: read at boot and start,
read for the page, rewrite on a change. Hard: two readers written separately, a writer of many
unchecked calls. Correct when what is shown is what starts, and nothing else starts.

**TN Settings** (`xmbctrl/main.c`). State: which page is open, whose menu and options the
firmware's plugin "sysconf" holds, `context_mode`, the backup, the settings. Operations: seven
hooks on calls of the XMB. Hard: each hook sees only its call and must guess from flags what
page it is for. Correct when each page has its menu, each item its options, and a value that
is set is shown.

**PlayStation games** (`systemctrl/main.c` 905-1040, 1175-1263). State: flags decided when the
manager module starts and used by later starts and calls; `KEYS.BIN` beside each game.
Operations: two module starts, `SetKeysPatched`, the hooked I/O. Hard: truncate and write with
power lost in between; three starts that must agree. Correct when each game gets its key, a
key stays, the patches fit the game.

**XMB clock** (`sysmodpatches.c` 30-39, 200-236, 353-416, 551-555). State: the setting, the
processor's clock, `set`, `firsttime`, `curtime`. Operations: the first change of the clock ten
seconds after the XMB was loaded and its repair, both in the pad's hook; the change with new
settings in `vctrlVSHExitVSHMenu`. Hard: two threads set the clock without a lock, each with a
setting it loaded before; times are low words whose differences wrap and are signed. Correct
when the clock is, in the end, the one the settings name.

**Module start handlers** (`main.c` 488-493, 1043-1095, 1310-1325). State: the key config, the
settings, the event flag of the memory stick, `set_cpuspeed`. Operations: `PrologueModulePatched`,
the two `OnModuleStart`, `ms_callback`. Hard: modules start in an order that is not the code's;
a wait without a timeout during the boot; a clock that is set once, at a moment told from a
status of the firmware, and must then stay. Correct when the boot goes on, and a game runs at
the speed the settings name.

**Executable checks** (`main.c` 83-325). State: the firmware's record of the file that is
loaded, the position of its handle, a static buffer. Operations: hooks on the check of the first
bytes, on the choice of the memory partition, and on the two probes of the program in memory.
Hard: the hooks and the firmware write one record in turns; the record's offset may not be known
yet; nine calls of the file system of which one is checked. Correct when a plain program is
loaded where its attributes say and nothing changes for a program as long as it is encrypted.

**NID resolver** (`main.c` 327-333, 472-689, `nid_table.h`). No state but tables. Operations:
`GetNewNID`, `sctrlHENFindFunction`, `GetFunctionPatched`. Hard: a number that was a function's
may be another's today; Sony's own modules go through the same hook. Correct when each module is
linked to the functions it means.

Not modelled: the **timer of USB charging** (`time_handler`: three flags and three intervals
around calls of the firmware whose effects are outside), the **buffers of the on-screen
keyboard**, and the **fallbacks of the decryption** (calls of firmware code one after another
whose results are opaque). Left out for good: the **start-up password** (three assignments around
firmware dialogs), **file system hooks** (one condition each), **loadexec and kubridge wrappers**
(no state), **heap** (wrappers of an allocator that is not in the repository), **drawing and
texts**, **data and build files**.
Patching of instructions and addresses per model, in every program, is left out as well: the
firmware it patches is not in the repository.

### Interactions

`eboot` fills the block and reboots; `rebootex` reads it, inserts systemctrl, xmbctrl and a
requested module into the boot; systemctrl's `module_start` takes the block over and fills it
again at the next reboot. In the XMB, the pad hook of systemctrl (XMB thread) loads vshmenu,
whose own thread calls back (`vctrlVSHRegisterVshMenu`, `vctrlVSHExitVSHMenu`) to register its
handler and to push settings; xmbctrl pushes its own. systemctrl's USB hooks read the pushed
settings when USB mode starts and stops; the same push may set the clock. In every kernel the
firmware's loader calls the hooks on its checks, then the hook on linking for each import, then
the start handlers, which know each module by its name.

## 2. Modules

| module | models | builds on |
| --- | --- | --- |
| `UsbDevice` | the USB device component, its three operations | |
| `UsbStorage` | abstract: what USB mode promises the user | |
| `UsbVsh` | the XMB's USB hooks, the host, the settings thread | `UsbDevice`; implements `UsbStorage` |
| `UsbClient` | a program that uses the exported functions | `UsbDevice` |
| `UmdImage` | the UMD as a FAT16 disk with one file | |
| `TnConfig` | `config.tn` and its accessors | |
| `VshMenu` | pad hook, menu thread, TN Settings as a second editor | `TnConfig` |
| `Rebootex` | the module table and the boot loader's file hooks | |
| `RebootChain` | what passes from kernel to kernel, memory partitions | |
| `Plugins` | both readers, the writer, the start at boot | |
| `XmbSettings` | the hooks that make the pages of TN Settings | |
| `Pops` | starts of PlayStation games, `KEYS.BIN`, the icon | |
| `VshClock` | the clock in the XMB, set by two threads | |
| `ExecCheck` | the hooks on the checks of a file that is loaded | |
| `NidResolver` | how imports are linked; operators only | |
| `Kernel` | a kernel from its boot on: stick, settings, loads, links, starts, clock | `ExecCheck`, `NidResolver`, `VshClock` |
| `MC...` | constants too large for a `.cfg` | |
| `..._proofs` | inductive invariants and theorems; `Usb_proofs` is about `UsbDevice` and both its users, `Xmbctrl_proofs` about `XmbSettings` and `Plugins` | |

### Correspondence with the code

*UsbDevice.* `funcs` is the driver's `PspIoDrvFuncs` with one value per entry that the component
rewrites (whose code it points to), `saved` the `msstorIo...` originals, the other variables
have the source's names. A rewrite of the table is one step because the code suspends
interrupts around it. `pspUsbDeviceSetDevice` for a flash returns without waiting and is one
action (`SetFlash`); for the UMD it waits for the drive and is a sequence of steps, with `op`
as its program counter: `UmdMedium`, `UmdReady`, `UmdProbeFails`, `UmdInstall`. Each early return of the code is a disjunct that leaves undone what the code
leaves undone. `DeviceInit` has the failing branch of its temporary pool, `FinishDevice` the
failing `sceIoAssign` and pool calls.

*UsbVsh.* `xmb` is the place of the XMB's thread in `sceUsbStartPatched` and
`sceUsbStopPatched`; `config` the settings in use; `session` those the session started with.
The host (`HostOpens`, `HostWrites`), the disc and the settings are separate actors.

*UsbClient.* A program that initialises, sets any device with any protection and unassign
mask, serves it, and gives it back when it is done or has been refused, with each call free to
fail.

*UmdImage.* A sector's content is its number. `Read` has the code's three branches: the
made-up part, a read from within a disc sector, and the aligned read with bulk part and rest;
`Arriving` gives what arrives in each cell when the drive fails at a chosen point. The `.cfg`
scales the sizes of the file system down; the proofs are for every size.

*VshMenu.* The pad's hook runs to its end on each poll and is one action per branch
(`PollLoads`, `PollFeeds`, `PollCallsStale`, `PollStops`, ...), except where it blocks: in
`sceKernelStartModule`, of which the menu thread's first steps are the other half, and in
`module_stop`'s wait (`StopReturns`, `StopAbandonsThread`). `ButtonsFunc`, `MenuCtrl`,
`Limit`, `ModeAfter` are the menu's functions of these names or what they
compute. A read of the settings may
fail and then gives zeros (`GetConfig`). The wait of `VshMenu_Thread` for the vertical blank makes each turn of its loop one
step; saving, the pushes and the unregistration are steps of their own, as the other thread
can run in between. Opening TN Settings, setting a value, saving and pushing are `Xmb...`
actions of the XMB's thread between two polls. The settings are two fields: one that the
menu edits and one that only TN Settings does.

*Rebootex.* The table is a record: entries with offsets of names, names at their offsets, the
end of the names, modes with their number of entries. An inserted entry moves the names by the
entry's size; the module is written in terms of offsets that are stale, like the code. The C
loops are one action per case of their body (`ScanMiss`, `ScanHit`, `ScanEnds`). The boot loader then opens, reads and
closes every module of its mode through the hooks.

*RebootChain.* The record of the block (`model`, `size`, `p2`, `p8`, `request`), the copies in
loader and kernel, and the partitions. `Eboot`, `Reboots`, `RebootMain`, `ModuleStart`,
`MediaSync`, `SetMemory` and `LoadModuleOnReboot` are the writers and readers. Sums are taken
modulo the size of a word. The history says what `sctrlHENSetMemory` was asked for and nobody found
yet (`due`) and whose memory the PBP before got (`lastPbp`).

*Plugins.* A list is a sequence of characters of few kinds. Both readers walk it one character at a
time (`Takes`, the body of the loop in `GetPlugin`; `Walk`, all the calls one behind the other);
xmbctrl's also passes the tabs behind a line (`Passes`). `SystemReads` and `XmbReads` are what they
end with, `Starts` what systemctrl does with the result, `Written` what the page writes, row by
row. A rewrite is a sequence of `WriteMore` steps, `Content` what is there so far and `Target` what
it will be; power loss or a failing call can cut it anywhere.

*XmbSettings.* Each hook is an operator with its name (`ExecuteActionPatched`,
`HijackContext`, `GetItemes`, `GetCPUSpeed`, `Paired`); the firmware calls them in the order
of its dialogs: open a page, draw or select items, set a value, leave.

*Pops.* Each module start and each blocking point of `SetKeysPatched` is an action, so that
power can be lost between truncating and writing `KEYS.BIN`.

*VshClock.* `poll` is the place of the XMB's thread in the pad's hook, `push` that of the thread
in `vctrlVSHExitVSHMenu`. A step ends where the other thread can make a difference: after the
decision (`PollDecides`), after `set = 1` (`PollSets`) and the load of the argument (`PollLoads`),
which the compiler may swap, after the call that sets the clock, and after the stamp of
`curtime`. Times are numbers below `Word`, and `Since` is their signed difference. The history
variable `overtaken` marks the one race in which the old speed is set after the new one.

*ExecCheck.* A file is a record of what the hooks tell apart; the firmware's record `check` has
the fields the hooks read or write, under the names of the PSP's developers for their offsets:
0x08 `apiType`, 0x10 `execSize`, 0x20 `elfType`, 0x44 `isKernelMod`, 0x48 `isDecrypted`, 0x4C
`modInfoOffset`, 0x58 `attribute`. The first hook and the last are one action each. Each seek and
read of `PartitionCheckPatched` is one action, named by what it does, with `step` for the place in
the function and a disjunct for its failure; the buffer is `static` in the code, so that it
outlives the call. The hooks on the probes see what is in memory (`inner`), of an encrypted program
perhaps decrypted. `SizeOfProgram`, `AttributeAt` and `HeadAt` say what a value read at a place is.

*NidResolver.* A NID is a model value, a library's table a sequence of pairs, an export table a
sequence of entries. `EntryHas` has the code's two branches for an entry with a name that fits and
for any other. A function that is found is named by library and NID.

*Kernel.* `where` is the place in the boot: the wait for the stick (`AsksForStick`,
`RegistersCallback`, `WaitEnds`, with the driver and the user as actors of their own), the load of
the settings, then for a plugin and for the main program a load (steps of `ExecCheck`), the link
of an import, and the start. `Starts` is the end of `OnModuleStart` with `SetSpeed`. In the XMB
the two threads and the time follow (steps of `VshClock`), in a game the program and its plugins,
which may set the clock.

## 3. Runs

Sizes are on the small instance of the `.cfg`; all bounds are named there.

| run | cfg | question |
| --- | --- | --- |
| `usb_vsh` | UsbVsh.cfg | Do all sessions of the XMB serve what the settings name and give back everything? Implementation of `UsbStorage`. |
| `usb_client` | UsbClient.cfg | Can a program that uses the exports always give everything back, through any failure? |
| `usb_memory_stick` | UsbVshMemoryStick.cfg | Does Memory Stick serve the memory stick when settings change *during* a session? (violated) |
| `umd_image` | UmdImage.cfg | Buffer, content and FAT of the UMD image over any calls and failing reads. |
| `vsh_menu` | VshMenu.cfg | The two threads: one writer, nothing left behind, the copy in use is the saved one; does the menu close once something was chosen? |
| `vsh_lost_update` | VshLostUpdate.cfg | Does a change in TN Settings change one setting? (violated) |
| `rebootex` | Rebootex.cfg | Does the insertion end, right, for tables of all orders; does each module get its content? |
| `reboot_chain` | RebootChain.cfg | Does HEN survive chains of reboots, are requests honoured once, and whose memory does a program find? |
| `plugins` | Plugins.cfg | Is what the page shows what a boot starts, over rewrites, failures and lost power? |
| `xmb_settings` | XmbSettings.cfg | Do the pages, options and values fit each other in any order of the XMB's calls? |
| `pops` | Pops.cfg | Right keys, kept keys and fitting patches over any chain of starts and power losses. |
| `kernel` | Kernel.cfg | Does the boot go on; are programs of all kinds loaded where they say, untouched while encrypted, and linked as they mean; is the clock the settings' in a game and in the XMB? |

### Bounds, and why they are enough

* *USB*: every device and setting (0..5) is there, all four flashes, both pool ids (one
  more than is ever used, so that a leaked one does not block the next), and any number of
  sessions: nothing is bounded. `SettingsMoments` says where the XMB's thread can be when the
  settings change: only between sessions in `usb_vsh`, also during one in `usb_memory_stick`.
  `FplMayFail` is FALSE in the XMB's runs, as a kernel that has just started USB has room for
  one block; `usb_client` has it TRUE.
* *UmdImage*: two reserved sectors, two FATs of two sectors of four entries, clusters of
  eight sectors, discs of one to six disc sectors (each four of the host's). So discs end
  within a cluster, at its end, at the end of a sector of the FAT and behind it; reads of up
  to six sectors begin and end at each place within a disc sector and span made-up part,
  file and end. `LastPointer` stops the position a little behind the image.
* *VshMenu*: two values of the cyclic choice show every change; the three pads have each role
  of a button: act in the XMB, change and move at once (X, right, down), and load while acting in
  the XMB (SELECT and X). The reads may fail (`ReadsMayFail`) except in `vsh_lost_update`, whose
  finding does not need it.
* *Rebootex*: four names in every order, with every order of entries that keeps `ge` before
  `display`, a repeated entry, and fewer and more modes than entries, since the loops share
  a variable. Lengths of names are the real ones; some orders have a name one entry behind another.
* *RebootChain*: a word of 256 instead of 2^32, with sizes around 51, the limit, and two with
  which sums wrap; models with and without a second half of memory.
* *Plugins*: every list of up to two characters of four kinds and twelve usual and
  unusual longer ones, one with a tab before a line among them; `Limit` 8 instead of 1024 cuts the
  longest; two changes. The proofs are for lists of every length.
* *XmbSettings*: files with nothing and with everything set; `MaxSets` 2, enough for a value
  set after another and undone.
* *Pops*: one game from the shop, one converted plain, one converted encrypted; two
  directories, any number of boots.
* *Kernel*: files of every kind, within a PBP and alone, with the attributes that a step tells
  apart, a short one, and static ones with and without names of sections; kinds of calls on both
  sides of every limit the hooks test (0x52, 0x120, 0x140..0x143); one failing call in a load. A
  library with a NID that was another function's, one whose function moved, one that HEN stands in
  for, and one that is unknown. Four speeds among which no speed and the firmware's; time of
  twelve ticks, so that it wraps while differences still tell late from early; two changes of the
  settings and one reset by the firmware, which the proof of `ClockFollows` does not need.

### Fairness

* `UsbVsh`: weak fairness of the XMB's thread only (its calls are scheduled). That a disc
  stays in the drive is a premise of `StartEnds`; nothing forces host or user to act.
* `VshMenu`: weak fairness of each thread: the XMB polls the pad at each frame, and the
  menu's thread is woken by the vertical blank. The pad is not fair: that the buttons are let
  go is a premise of `MenuCloses`.
* `Rebootex`: weak fairness of `Next`: a single processor runs the loader and nothing else.
  Its run is without a deadlock check, as a boot ends.
* `Kernel`: weak fairness of the boot's own thread, of the driver of the memory stick, which
  mounts a stick that stays in (a premise of `BootGoesOn`), of the XMB's thread and of the one that
  pushes settings, which are scheduled and do not block, and of the time. `Tick` waits for a poll:
  the XMB polls the pad at every frame. Nothing forces the user, a game, or the firmware's reset of
  the clock. Its run is without a deadlock check: a main program that is refused ends the boot.

### What the runs found

1. `usb_memory_stick`: `sceUsbStopPatched` (`sysmodpatches.c:541`) decides by the settings of
   the moment whether the component was used. When the setting goes from Memory Stick to
   another device while USB mode is on, stopping writes originals that were never saved into
   the driver's table, and the next session with Memory Stick opens the drive through NULL.
   The other way round, the flash's functions stay and Memory Stick serves the flash. If the
   settings change only between sessions, everything holds; this is proved.
2. `vsh_lost_update`: TN Settings saves the copy of the settings it read when it was opened
   (`xmbctrl/main.c:721`). What the VSH menu saved in between is reverted.

What else was met, and is in the hazards rather than in the findings because no document or
test says otherwise:

* A read of the UMD that begins within a disc sector, or in the made-up part, gets zeros for
  sectors of the file (`usbdevice.c` 270-300), and the second FAT is not the first one's copy
  (the distance from the first is added). `ReadsTheDisc` states what does hold, for reads that
  begin with a disc sector.
* What an SFO asks for by MEMSIZE is found by the next PBP too, unless other memory is asked for in
  between: `sfoReadPatched` resets `set_p2` only where it serves what was set before
  (`sysmodpatches.c:186,193`). `MemoryAsAsked` names this and allows nothing else.
* `sctrlHENSetMemory` lets sizes pass whose sum wraps (`sysmodpatches.c:157`), and
  `sctrlHENSetP2P8` applies them. No property is about it: nothing says what must hold then.
* A module name exactly 32 bytes, one entry, behind the `module_after` of a call can make
  `InsertModule` insert the new module again, since it goes on comparing at the old `modnamestart`
  (`rebootex/main.c:160-177`). The run has such tables and reaches it; `InsertedAsAsked` excepts
  this distance only.
* `sctrlSEGetConfig` returns zeros when `sceIoOpen` or `sceIoRead` fails, and no caller looks at its
  result (`conf.c:46-53`, `vshmenu/main.c:317`, `xmbctrl/main.c:381`, `sysmodpatches.c:553`). The menu
  pushes these zeros to systemctrl over a whole file, and TN Settings saves them with the next value
  that is set. `AgreeWhenQuiet` excepts the zeros and nothing else a read returns.
* SELECT and X in one poll start the menu while TN Settings saves (`sysmodpatches.c:471`); a menu
  that had read the file before pushes what it read. `AgreeWhenQuiet` excepts this menu's push.
* `flashSize` has four entries and is read with `cur_device` up to 4 (`usbdevice.c:139`).
* If the poll has loaded its speed when the settings are replaced, and calls after the push has
  set the new one, the old speed stays until the next change of the settings or the firmware's next
  reset: the repair in the pad's hook looks for 222 MHz only (`sysmodpatches.c:400-412`).
  `ClockFollows` and `SpeedArrives` except it (`overtaken`); the run reaches it.
* With no speed set when the XMB is loaded, `firsttime` stays 0, and the first speed that is set
  later waits until the low word of the time, taken as signed, is ten seconds or more: up to 36
  minutes (`sysmodpatches.c:397,551`). It arrives, as `SpeedArrives` says.
* `pos < 0` never holds, as `pos` is unsigned (`systemctrl/main.c:249`): `PositionKept` excepts the
  failure of that call, and of the last seek.
* When the read of the attributes fails, the partition is chosen from what the stack holds
  (`systemctrl/main.c:284-291`).
* A static program without names for its sections, of which the firmware does not know the place of
  the module info, gets the first two bytes of its ELF (0x457F) for attributes:
  `ProbeExec1Patched` looks at offset 0, and `ProbeExec2Patched` has nothing to search
  (`systemctrl/main.c:139-149,208-212`). `PrivilegesOfModinfo` excepts it, and the run reaches it.
* A static program is never marked for the kernel's partition, whatever its attributes say
  (`systemctrl/main.c:286`). `LoadedWhereMarked` states that.
* The hooks on the probes look at the first word in memory only and so also change the record of an
  encrypted program that is decrypted by then: its attribute, `isDecrypted`, the kind of call and the
  kind of ELF (`systemctrl/main.c:137-152,161-172,206`). `EncryptedUntouched` allows these four there.
* The static buffer of `PartitionCheckPatched` is shared by all loads; the firmware loads one
  module at a time.
* A stray semicolon after a condition (`systemctrl/main.c:165`): the next line always runs; it is
  modelled so, and no property depends on it.
* The boot waits for a memory stick that was there when asked for and was pulled out before it was
  mounted until one is inserted (`systemctrl/main.c:1087`).
* A key in `KEYS.BIN` belongs to the directory: a game copied over another gets the
  other's key (`RightKeys` excepts it).

## 4. Proofs

Each `..._proofs` module states an inductive invariant built of named parts, shows that the
initial states satisfy it and every action keeps it, and derives the theorems.

| theorem | says |
| --- | --- |
| `Usb_proofs!Typing` | the state of USB mode has its type, in every environment |
| `Usb_proofs!TableStable` | the table does not move under an open drive, in every environment |
| `Usb_proofs!Restored`, `PoolsReturned` | table and pool come back, in a quiet environment |
| `Usb_proofs!Implements` | `UsbVsh` implements `UsbStorage`, in a quiet environment |
| `Usb_proofs!ClientTyping`, `ClientRestored`, `Remembered`, `UsedOnce`, `Served` | for any program, requests and failing calls |
| `UmdImage_proofs!BufferTrue`, `Served` | the buffer is the sector it is believed to be; aligned reads deliver the disc |
| `UmdImage_proofs!FatChained` | the first FAT chains the clusters of the file, for all discs and sizes |
| `VshMenu_proofs!Typing`, `WritesAlone`, `LeavesNothing` | for all pads and choices |
| `VshMenu_proofs!UsesTheSaved` | for all pads and choices, whether reads fail or not |
| `Rebootex_proofs!Typing`, `Asked`, `Booted` | for all well-formed tables, names, sizes, modes and requests |
| `RebootChain_proofs!Typing`, `Survives`, `HonouredOnce`, `MemoryServed` | for all models, sizes, modules and words |
| `Xmbctrl_proofs!Inductive`, `MenuFollows`, `OptionsFollow`, `SetShown` | for all files of settings, orders of calls and numbers of changes |
| `Xmbctrl_proofs!PluginsInductive`, `PluginTyping`, `AskedOnly`, `ShownStarted` | for all lists of any length, limits, failures and numbers of changes |
| `Pops_proofs!Typing`, `OwnKeys`, `KeysStay`, `PatchesFit` | for all directories, games and licences |
| `Kernel_proofs!Typing` | the boot, the loads and the clock have their types |
| `Kernel_proofs!Kept`, `Marked`, `Encrypted`, `Privileges` | for all files, kinds of calls and failures |
| `Kernel_proofs!GameSpeedKept` | for all settings, plugins and moments the system comes up |
| `Kernel_proofs!Linked` | for all tables of NIDs, libraries and imports |
| `Kernel_proofs!Follows` | for all speeds, delays, changes and resets, in every order of the two threads |

Where the argument is:

* *UsbVsh.* Properties about stopped sessions are not inductive: they need what the thread
  has achieved at each point of a session (`SessionProgress`: the originals are saved before
  the table is rewritten, the right table stands when the driver starts) and that pool and
  UMD table come and go together (`PoolInv`). `QuietEnvironment` (settings change between
  sessions only; the temporary pool is created) is needed: the violation run shows it for the
  settings. For the refinement, starting the driver is the abstract `Start`, stopping it the
  abstract `Stop`, and every other step stutters or is `Choose` or `Write`.
* *UmdImage.* The buffer stays right through failing reads because `cur_sector` moves only
  with a read that succeeded, and the opening of a session forgets it; `umdReadSector` is
  called without a seek only where `umdIoRead` has just moved the drive to the place. Nothing
  but `UmdConstants` (the disc fits the image) is assumed of the sizes. For the FAT, the number
  that `umdIoOpen` computes is that of the clusters that hold a part of the file (`ClusterCount`),
  and the entries that `GetUMDFreeSize` makes up chain as many (`FreeSizeChains`, `MadeUpFat`);
  that a read of the FAT is of these entries is kept by every step (`FatKept`).
* *VshMenu.* A live handler is that of a loaded menu whose thread serves it (`LiveHandler`),
  what is not loaded has no thread (`NoThread`), a handler goes stale only after a stop that
  ran out (`StaleOnlyLate`), a menu that is not registered has got no buttons (`FreshUnfed`,
  `FreshUnloaded`) and one that has got some keeps the XMB from them (`Fed`), and only what
  changed is saved (`SavesChanges`). `AgreeWhenQuiet` needs in addition that a menu that has changed nothing
  still has what the file holds (`CopyCurrent`) and that what is handed over was saved
  (`HandsOverSaved`). Both except a copy in `tainted`, which the menu's is after a failed read or
  once TN Settings has written the file while the menu ran: SELECT and X in one poll allow that,
  and the file the XMB has opened stays truncated until it writes (`Truncated`).
* *Rebootex.* The invariant is about the firmware's table `t` that is being changed. All the names
  there will be are known beforehand (`Layout`), and after each call the names in memory are a part
  of them (`LaidOut`) and the entries are what the reference makes of the entries before (`Made`).
  During a scan (`ScanInv`) either nothing was inserted and no entry passed over had the name that
  is looked for, or the entry is where the reference puts it. Then an address that is `EntrySize`
  too low has that name only if there is a name to misread (`MisreadIn`); as long as there is none
  (`Clean`) it does not matter where the reused `i` goes on. What the loader needs, that the entries
  have names and each mode searches all of them, holds in any case. For the loader, the flags and the handle are those of the entry that is open
  (`OpenInv`) and what is loaded are the entries of its mode up to there (`LoadedTo`).
* *XmbSettings.* A list of the firmware is replaced at most once and is backed up while it is
  (`ListsInv`); the menu in memory is that of the page it was built for (`MenusInv`). That a value
  that is set is the value shown is a fact about the tables: each item's mode has the number of
  options, and reads the field, that its negations need (`ItemTable`, `FieldTable`,
  `SpeedTable`, `ChangedShown`).
* *Plugins.* What the two readers return is shown without an induction principle with an operator as
  its parameter: a set of numbers with 0 and every successor holds all of them (`UpTo`, from a least
  element), and a function with a first value and steps exists (`Recursion`), so that `Walk`,
  `NamedOf` and `Written` can be unfolded at each number (`WalkIs`, `NamedIs`, `WrittenIs`). The
  readers agree up to a nameless plugin wherever no tab begins a line (`ReadersAgree`). A line that
  is written is read back as it was, and activates nothing until all of it is there (`LineRead`);
  row by row this gives what is read of a list that was cut anywhere (`ReadBack`). The invariant
  `PluginsInv` then says that the other lists are as shown while one is written (`ListsShown`), and
  that the one being written is the first characters of its target, which the user has asked for if
  it is the one that is read (`WritesAsAsked`). It needs that no row's path has a blank or a control
  character in it (`PluginsTyped`), which is what the readers give.
* *RebootChain.* At each place of the chain the holder of the moment, block (`InBlock`), loader
  (`InLoader`) or kernel (`InKernel`), has the model, the image's size, and the requests that
  are still owed and no others; at power on nothing is owed (`AtPowerOn`). What `set_p2` and
  `set_p8` hold is owed, or is what the last PBP's own SFO left there (`Pending`).
* *Pops.* `OwnFiles` (a complete `KEYS.BIN` is the key of the encrypted game beside it, or that
  game was copied later), `Writes` and `Overwrites` (what is about to be written is the game's
  key, and replaces nothing that could be read) carry the keys over every interruption;
  `Unstarted` and `Prepared` carry the flags from one module's start to the next.

* *UsbClient.* That a program leaves nothing behind is an induction over what it still has to
  give back: the originals are the firmware's once saved (`Saved`), the pool is the one the
  component holds (`OwnPool`), each flag stands for a flash that was assigned, and each that is
  not assigned has its flag (`Flags`); until the image of the UMD is installed it takes nothing
  away (`UmdUnderWay`); and what was set without an error is what was asked for
  (`InstalledAsAsked`).
* *Kernel, loads.* A step of the kernel is a step of the load, the opening of a file, its end, or
  leaves the load alone (`LoadSteps`), so that each invariant is shown over the actions of
  `ExecCheck`. `PlaceKnown`: the handle stands where the firmware left it, or `pos` is that
  place. `Located`: the place of the module info is unknown of static programs only, and after
  the probes of those only that have no names for their sections. `NeverTakenForPlain`: at no place
  does the buffer of `PartitionCheckPatched` hold the head of a plain program when the file is
  encrypted; what `ProbedRecord` says of the hooks on the probes is all they change then.
  `Unprivileged`: the record's attribute is the program's, or the magic's where the place is
  unknown, at every step. `LooksAtProgram`: what each place of `PartitionCheckPatched` knows of
  position, buffer and record.
* *Kernel, clock.* `GameSet` says that before the system is up nothing was set, and after it the
  functions are dummies. `ClockFollows` needs three parts: nobody calls before the first change
  (`FirstChange`); a thread that is about to set an old speed again has found 222 MHz
  (`PollKnows`); and between two pushes the clock is 222, the setting, or, while the push compares,
  the setting before (`Followed`).
* *Kernel, links.* Where the tables are flat the walk over them finds today's NID, whichever entry
  it meets first (`NewNidIsTodays`), and the entry of `scePower_Service` that is met first is that
  of the library scePower (`PowerFound`); only Sony's modules describe themselves (`SonySaysSo`).
  `Meant` says declaratively (`MeantConstants`) what `GetFunctionPatched` has to search for.

Every safety invariant that a passing run checks is a theorem. Only model-checked: liveness
(`StartEnds`, `MenuCloses`, `BootEnds`, `SpeedArrives`, `BootGoesOn`), since fairness and ENABLED
are out of the prover's reach. No run spends a property on a type invariant: each module's `TypeOK`
is a theorem, and can be added to its `.cfg`.

## 5. Assumptions

* *Firmware.* What is not in the repository does what its callers in `src/` rely on. The USB
  driver opens the drive after each start and closes it before `sceUsbStop` returns; the
  storage driver opens before it seeks or reads. A read of the UMD that fails leaves the
  buffer; a seek within the disc succeeds; a disc is not exchanged during a session.
* *Rebootex.* In the firmware's tables every entry has a name and every mode searches all entries.
* *Plugins.* The memory stick moves only while TN Settings is closed; a failing write leaves a
  prefix; memory and the sizes of buffers suffice (64 bytes for a path, the table's length).
  `ShownIsStarted` excepts lists that are cut by `Limit` and those with a tab at the beginning of a
  line but the first: there the readers differ.
* *Pops.* A failing write leaves a prefix that is shorter than a key; keys differ between
  games; there is no licence for a plain game. The first reads of the game's file
  (`systemctrl/main.c:1181-1200`, not checked there) succeed.
* *VshMenu.* The pad's hook is called by the XMB's thread only.
* *Kernel.* The kernel's own read of the settings at its boot succeeds. The firmware checks a file's first bytes, then asks for its partition, then probes the
  program in memory; it loads one file at a time; it knows the offset of the module info except
  perhaps in a static program; what is neither a program nor a PBP is no ELF. The driver
  reports a stick that is in and stays in, and the system's status is 0x20000 when the main program
  starts. Of `nid_table.h` it is assumed that no new NID of a library is an old one there and that
  no old NID occurs twice (`NidConstants`): a search of its 27 libraries and 1014 pairs found none.
  `scePower_Service` offers in its library scePower the function that sets the clock, under the NID
  it always had (`PowerConstants`); no table of `nid_table.h` is for that library.

## 6. Plan

1. (done) USB: the component, its two users, the abstract specification and its refinement.
2. (done) Settings and VSH menu, with the two threads; proofs.
3. (done) Reboot: `Rebootex`, `RebootChain` with proofs.
4. (done) `Plugins`, `XmbSettings`; `Pops` and `UmdImage` with proofs.
5. (done) `VshClock`, `ExecCheck`, `NidResolver` and their composition `Kernel`, with proofs.
6. (done) Proofs of `UsbClient`.
7. The timer of USB charging in `VshClock`: its flags and intervals, as far as the firmware's
   power service lets one say what they are for.
8. The host's ioctl and devctl in `UsbDevice`, with the size it asks for; the buffers of the
   on-screen keyboard in `Kernel`.
9. (done) Proofs of `XmbSettings` and `Rebootex`.
10. (done) Proofs of `Plugins`, by an induction over sets of numbers.
