------------------------------- MODULE RebootChain -------------------------------
(* How HEN survives from one kernel to the next.  A reboot replaces everything in   *)
(* memory but the block at 0x88FB0000, which the kernel that goes fills             *)
(* (decompress_kle_patched, of eboot/main.c the first time, of                      *)
(* systemctrl/sysmodpatches.c later), and the image of rebootex at 0x88FC0000; the  *)
(* loader's Main (rebootex/main.c) and systemctrl's module_start (main.c) read it.  *)
(* Through it go the model, rebootex itself, the module a program wants loaded on   *)
(* the reboot, and the memory it wants for the next program.  What rebootex does    *)
(* with the module is in Rebootex.                                                  *)
EXTENDS Integers

CONSTANTS
  Models,     \* the models a machine can be; 0 has no second half of memory
  Word,       \* 2^32, the numbers of an unsigned int
  Sizes,      \* the arguments of sctrlHENSetMemory
  Modules,    \* the requests for a module on reboot: after which one, and where it is
  NoModule    \* reboot_module_after == NULL

ASSUME ChainConstants == /\ Models \subseteq 0..4
                         /\ Word \in Nat /\ Word > 51
                         /\ Sizes \subseteq 0..(Word - 1)
                         /\ NoModule \notin Modules

Requests == Modules \cup {NoModule}
Whole    == 1                        \* the size of rebootex, for any it has
Images   == {"rebootex", "other"}
Programs == {"vsh", "umd", "pbp", "bigpbp"}  \* bigpbp has MEMSIZE in its SFO
Default  == <<0, 0>>                 \* the partitions as the firmware makes them
Unsigned == 0..(Word - 1)

Blocks == [model : 0..4, size : {0, Whole}, p2 : Unsigned, p8 : Unsigned,
           request : Requests]

VARIABLES
  hardware,    \* what sceKernelGetModel returns
  where,       \* what runs
  program,     \* the program that is started, once the kernel is up
  block,       \* the parameters at 0x88FB0000
  image,       \* what lies at 0x88FC0000
  offsets,     \* rebootex: the table Main has chosen
  honoured,    \* rebootex: its reboot_module_after
  psp_model, size_rebootex, rebootex, \* systemctrl's: the model and its copy of rebootex
  set_p2, set_p8,
  request,     \* systemctrl: reboot_module_after and what goes with it
  memory,      \* the sizes of partitions 2 and 8 in MB
  asked,       \* history: the module this kernel's programs asked for last
  due,         \* history: what sctrlHENSetMemory was given and no PBP found yet, or Default
  lastPbp      \* history: the PBP before got its memory by its own SFO, by what was
               \* set before it started, or not at all

kernelVars == <<psp_model, size_rebootex, rebootex, set_p2, set_p8, request, memory>>
loaderVars == <<offsets, honoured>>
handover   == <<block, image>>
history    == <<asked, due, lastPbp>>
vars == <<hardware, where, program, handover, loaderVars, kernelVars, history>>

\* The check of sctrlHENSetMemory, which sctrlHENSetP2P8 makes again.
Fits(p2, p8) == p2 # 0 /\ (p2 + p8) % Word <= 51

\* The sizes that can be given to the partitions, and those they start with.
MemoryType(m) == m = Default \/ (m \in Unsigned \X Unsigned /\ Fits(m[1], m[2]))

TypeOK ==
  /\ hardware \in Models
  /\ where \in {"firmware", "reboot", "boot", "started", "running", "crashed"}
  /\ program \in Programs
  /\ block \in Blocks /\ image \in Images
  /\ offsets \in {"phat", "other"} /\ honoured \in Requests
  /\ psp_model \in 0..4 /\ size_rebootex \in {0, Whole} /\ rebootex \in Images
  /\ set_p2 \in Unsigned /\ set_p8 \in Unsigned
  /\ request \in Requests /\ MemoryType(memory)
  /\ asked \in Requests /\ MemoryType(due) /\ lastPbp \in {"none", "own", "earlier"}

\* What memory may hold when the machine is switched on.
Leftovers == [model : {0, 4}, size : {0}, p2 : {0, 51}, p8 : {0}, request : Requests]

Init ==
  /\ hardware \in Models
  /\ where = "firmware" /\ program = "vsh"
  /\ block \in Leftovers /\ image = "other"
  /\ offsets = "other" /\ honoured = NoModule
  /\ psp_model = 0 /\ size_rebootex = 0 /\ rebootex = "other"
  /\ set_p2 = 0 /\ set_p8 = 0 /\ request = NoModule /\ memory = Default
  /\ asked = NoModule /\ due = Default /\ lastPbp = "none"

-------------------------------------------------------------------------------
(* The kernel that goes *)

\* Mutant: the block is not cleared before model and size are set.
EbootLeavesRest ==
  /\ where = "firmware"
  /\ block' = [block EXCEPT !.model = hardware, !.size = Whole]
  /\ image' = "rebootex"
  /\ program' = "vsh" /\ where' = "reboot"
  /\ UNCHANGED <<hardware, loaderVars, kernelVars, history>>

\* eboot's: HEN is started on the plain firmware and leaves to the XMB.
Eboot ==
  /\ where = "firmware"
  /\ block' = [model |-> hardware, size |-> Whole, p2 |-> 0, p8 |-> 0,
               request |-> NoModule]
  /\ image' = "rebootex"
  /\ program' = "vsh" /\ where' = "reboot"
  /\ UNCHANGED <<hardware, loaderVars, kernelVars, history>>

\* Mutant: the size of rebootex is not passed on.
RebootsUnsized(next) ==
  /\ where = "running"
  /\ block' = [model |-> psp_model, size |-> 0, p2 |-> set_p2, p8 |-> set_p8,
               request |-> request]
  /\ image' = IF size_rebootex = Whole THEN rebootex ELSE "other"
  /\ program' = next /\ where' = "reboot"
  /\ UNCHANGED <<hardware, loaderVars, kernelVars, history>>

\* systemctrl's: a program, or the XMB, makes way for the next one.
Reboots(next) ==
  /\ where = "running"
  /\ block' = [model |-> psp_model, size |-> size_rebootex, p2 |-> set_p2,
               p8 |-> set_p8, request |-> request]
  /\ image' = IF size_rebootex = Whole THEN rebootex ELSE "other"
  /\ program' = next /\ where' = "reboot"
  /\ UNCHANGED <<hardware, loaderVars, kernelVars, history>>

-------------------------------------------------------------------------------
(* The kernel that comes *)

\* rebootex's Main
RebootMain ==
  /\ where = "reboot"
  /\ offsets' = IF block.model = 0 THEN "phat" ELSE "other"
  /\ honoured' = block.request
  /\ where' = "boot"
  /\ UNCHANGED <<hardware, program, handover, kernelVars, history>>

\* module_start: systemctrl is new in memory, with statics of zero.  The copy of
\* rebootex goes wherever tn_malloc says, to address zero if there is no memory.
ModuleStart ==
  /\ where = "boot"
  /\ psp_model' = block.model /\ size_rebootex' = block.size
  /\ set_p2' = block.p2 /\ set_p8' = block.p8
  /\ rebootex' = IF block.size = Whole THEN image ELSE "other"
  /\ request' = NoModule /\ memory' = Default /\ asked' = NoModule
  /\ where' \in {"started", "crashed"}
  /\ UNCHANGED <<hardware, program, handover, loaderVars, due, lastPbp>>

\* PatchMediaSync hooks the reading of the SFO of a PBP.
Hooked == program \in {"pbp", "bigpbp"} /\ psp_model # 0

NotHooked ==
  /\ ~Hooked
  /\ UNCHANGED <<set_p2, set_p8, memory, due, lastPbp>>

\* Mutant: what was asked for is kept when it is served.
ServesForever ==
  /\ Hooked /\ set_p2 # 0
  /\ memory' = IF Fits(set_p2, set_p8) THEN <<set_p2, set_p8>> ELSE memory
  /\ due' = Default /\ lastPbp' = "earlier"
  /\ UNCHANGED <<set_p2, set_p8>>

\* sfoReadPatched: what was set before is served, and set_p2 reset ...
ServesEarlier ==
  /\ Hooked /\ set_p2 # 0
  /\ memory' = IF Fits(set_p2, set_p8) THEN <<set_p2, set_p8>> ELSE memory
  /\ set_p2' = 0
  /\ due' = Default /\ lastPbp' = "earlier"
  /\ UNCHANGED set_p8

\* ... or else what the SFO asks for, and set_p2 is left at it.
ServesSfo ==
  /\ Hooked /\ set_p2 = 0 /\ program = "bigpbp"
  /\ set_p2' = 51 /\ set_p8' = 0
  /\ memory' = <<51, 0>>
  /\ due' = Default /\ lastPbp' = "own"

ServesNone ==
  /\ Hooked /\ set_p2 = 0 /\ program = "pbp"
  /\ lastPbp' = "none"
  /\ UNCHANGED <<set_p2, set_p8, memory, due>>

MediaSync ==
  /\ where = "started"
  /\ NotHooked \/ ServesEarlier \/ ServesSfo \/ ServesNone
  /\ where' = "running"
  /\ UNCHANGED <<hardware, program, handover, loaderVars, psp_model, size_rebootex,
                 rebootex, request, asked>>

-------------------------------------------------------------------------------
(* The exported functions *)

\* sctrlHENSetMemory, when it does not return 0x80000107.
SetMemory(p2, p8) ==
  /\ where = "running"
  /\ Fits(p2, p8)
  /\ set_p2' = p2 /\ set_p8' = p8
  /\ due' = <<p2, p8>>
  /\ UNCHANGED <<hardware, where, program, handover, loaderVars, psp_model,
                 size_rebootex, rebootex, request, memory, asked, lastPbp>>

\* sctrlHENLoadModuleOnReboot
LoadModuleOnReboot(module) ==
  /\ where = "running"
  /\ request' = module
  /\ asked' = module
  /\ UNCHANGED <<hardware, where, program, handover, loaderVars, psp_model,
                 size_rebootex, rebootex, set_p2, set_p8, memory, due, lastPbp>>

\* The machine is switched off, and on with the plain firmware.
PowerOff ==
  /\ where' = "firmware" /\ program' = "vsh"
  /\ block' \in Leftovers /\ image' = "other"
  /\ psp_model' = 0 /\ size_rebootex' = 0 /\ rebootex' = "other"
  /\ set_p2' = 0 /\ set_p8' = 0 /\ request' = NoModule /\ memory' = Default
  /\ asked' = NoModule /\ due' = Default /\ lastPbp' = "none"
  /\ UNCHANGED <<hardware, loaderVars>>

Next == \/ Eboot \/ RebootMain \/ ModuleStart \/ MediaSync \/ PowerOff
        \/ \E p \in Programs : Reboots(p)
        \/ \E p2, p8 \in Sizes : SetMemory(p2, p8)
        \/ \E m \in Requests : LoadModuleOnReboot(m)

Spec == Init /\ [][Next]_vars
-------------------------------------------------------------------------------
(* Properties *)

\* However many kernels have followed the first, each runs on a machine it knows,
\* patched for its model, and has all of rebootex to give to the next.
HenSurvives ==
  /\ where \in {"boot", "started", "running"} =>
       offsets = IF hardware = 0 THEN "phat" ELSE "other"
  /\ where \in {"started", "running"} =>
       psp_model = hardware /\ rebootex = "rebootex" /\ size_rebootex = Whole

\* A boot loads the module that the kernel before it was asked for, and none if that
\* was asked for none: no request is lost, repeated on a later reboot, or made up of
\* what memory held at power on.
RequestOnce == where = "boot" => honoured = asked

\* The memory a PBP finds is what a program asked for by sctrlHENSetMemory since the
\* last PBP was started, on any way through the XMB, and otherwise what its own SFO asks
\* for; that of sctrlHENSetMemory is found once.  What an SFO asked for is not: it is
\* found by one PBP more, whatever that one asks for, because sfoReadPatched resets
\* set_p2 only where it serves what was set before.
MemoryAsAsked ==
  [][(where = "started" /\ where' = "running") =>
       memory' = IF program \in {"vsh", "umd"} \/ hardware = 0 THEN Default
                 ELSE IF due # Default THEN due
                 ELSE IF program = "bigpbp" \/ lastPbp = "own" THEN <<51, 0>>
                 ELSE Default]_vars
===============================================================================
