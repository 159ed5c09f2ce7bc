--------------------------- MODULE RebootChain_proofs ---------------------------
(* The chain of reboots keeps HEN, the request and the memory that was asked for,   *)
(* for every model, any requests and any width of the sizes.                        *)
EXTENDS RebootChain, TLAPS

LEMMA SfoFits == Fits(51, 0)
<1>1. (51 + 0) % Word = 51
  BY ChainConstants
<1> QED BY <1>1 DEF Fits

LEMMA TypingInit == Init => TypeOK
BY ChainConstants DEF Init, TypeOK, Leftovers, Blocks, Images, Programs, Requests, Unsigned,
                      MemoryType, Whole

LEMMA TypingStep == TypeOK /\ [Next]_vars => TypeOK'
<1> SUFFICES ASSUME TypeOK, [Next]_vars PROVE TypeOK'
  OBVIOUS
<1> USE DEF TypeOK, MemoryType
<1>1. CASE Eboot
  BY <1>1, ChainConstants
     DEF Eboot, Blocks, Images, Programs, Requests, Unsigned, Whole, loaderVars, kernelVars,
         history
<1>2. CASE \E p \in Programs : Reboots(p)
  BY <1>2 DEF Reboots, Blocks, Images, loaderVars, kernelVars, history
<1>3. CASE RebootMain
  BY <1>3 DEF RebootMain, Blocks, handover, kernelVars, history
<1>4. CASE ModuleStart
  BY <1>4, ChainConstants
     DEF ModuleStart, Blocks, Images, Requests, Unsigned, handover, loaderVars
<1>5. CASE MediaSync
  <2>1. CASE NotHooked
    BY <1>5, <2>1 DEF MediaSync, NotHooked, handover, loaderVars
  <2>2. CASE ServesEarlier
    <3>1. MemoryType(memory') /\ MemoryType(due')
      BY <2>2 DEF ServesEarlier
    <3>2. 0 \in Unsigned
      BY ChainConstants DEF Unsigned
    <3> QED BY <1>5, <2>2, <3>1, <3>2 DEF MediaSync, ServesEarlier, handover, loaderVars
  <2>3. CASE ServesSfo
    <3>1. 51 \in Unsigned /\ 0 \in Unsigned
      BY ChainConstants DEF Unsigned
    <3> QED BY <1>5, <2>3, <3>1, SfoFits DEF MediaSync, ServesSfo, handover, loaderVars
  <2>4. CASE ServesNone
    BY <1>5, <2>4 DEF MediaSync, ServesNone, handover, loaderVars
  <2> QED BY <1>5, <2>1, <2>2, <2>3, <2>4 DEF MediaSync
<1>6. CASE \E p2, p8 \in Sizes : SetMemory(p2, p8)
  <2> PICK p2 \in Sizes, p8 \in Sizes : SetMemory(p2, p8)
    BY <1>6
  <2>1. p2 \in Unsigned /\ p8 \in Unsigned
    BY ChainConstants DEF Unsigned
  <2> QED BY <2>1 DEF SetMemory, handover, loaderVars
<1>7. CASE \E m \in Requests : LoadModuleOnReboot(m)
  BY <1>7 DEF LoadModuleOnReboot, handover, loaderVars
<1>8. CASE PowerOff
  BY <1>8, ChainConstants
     DEF PowerOff, Leftovers, Blocks, Images, Programs, Requests, Unsigned, Whole, loaderVars
<1>9. CASE UNCHANGED vars
  BY <1>9 DEF vars, handover, loaderVars, kernelVars, history
<1> QED BY <1>1, <1>2, <1>3, <1>4, <1>5, <1>6, <1>7, <1>8, <1>9 DEF Next

\* Type correctness; the memory given or owed always passed sctrlHENSetMemory's check.
THEOREM Typing == Spec => []TypeOK
<1>1. TypeOK /\ [Next]_vars => TypeOK'
  BY TypingStep
<1> QED BY TypingInit, <1>1, PTL DEF Spec

-------------------------------------------------------------------------------
(* The inductive invariant: what each stage of a reboot holds for the next one *)

\* The machine's model and the whole of rebootex.
Knows(model, size, img) == model = hardware /\ size = Whole /\ img = "rebootex"

\* What set_p2 and set_p8 stand for: memory that is owed, or an SFO's that was left.
Pending(p2, p8) ==
  /\ p2 = 0 => due = Default /\ lastPbp # "own"
  /\ p2 # 0 => \/ due = <<p2, p8>>
               \/ due = Default /\ lastPbp = "own" /\ p2 = 51 /\ p8 = 0

InBlock ==
  where \in {"reboot", "boot"} => /\ Knows(block.model, block.size, image)
                                  /\ Pending(block.p2, block.p8)

InLoader ==
  /\ where = "reboot" => block.request = asked
  /\ where = "boot" => honoured = asked
  /\ where \in {"boot", "started", "running"} =>
       offsets = IF hardware = 0 THEN "phat" ELSE "other"

InKernel ==
  /\ where \in {"started", "running"} => /\ Knows(psp_model, size_rebootex, rebootex)
                                         /\ Pending(set_p2, set_p8)
                                         /\ request = asked
  /\ where = "started" => memory = Default

AtPowerOn == where = "firmware" => asked = NoModule /\ due = Default /\ lastPbp = "none"

IInv == InBlock /\ InLoader /\ InKernel /\ AtPowerOn

LEMMA InvInit == Init => IInv
BY DEF Init, IInv, InBlock, InLoader, InKernel, AtPowerOn

LEMMA InvStep == TypeOK /\ IInv /\ [Next]_vars => IInv'
<1> SUFFICES ASSUME TypeOK, IInv, [Next]_vars PROVE IInv'
  OBVIOUS
<1> USE DEF IInv, InBlock, InLoader, InKernel, AtPowerOn, Knows, Pending, handover,
            loaderVars, kernelVars, history
<1>1. CASE Eboot
  BY <1>1 DEF Eboot
<1>2. CASE \E p \in Programs : Reboots(p)
  BY <1>2 DEF Reboots
<1>3. CASE RebootMain
  BY <1>3 DEF RebootMain
<1>4. CASE ModuleStart
  BY <1>4 DEF ModuleStart
<1>5. CASE MediaSync
  BY <1>5 DEF MediaSync, NotHooked, ServesEarlier, ServesSfo, ServesNone
<1>6. CASE \E p2, p8 \in Sizes : SetMemory(p2, p8)
  BY <1>6 DEF SetMemory, Fits
<1>7. CASE \E m \in Requests : LoadModuleOnReboot(m)
  BY <1>7 DEF LoadModuleOnReboot
<1>8. CASE PowerOff
  BY <1>8 DEF PowerOff
<1>9. CASE UNCHANGED vars
  BY <1>9 DEF vars
<1> QED BY <1>1, <1>2, <1>3, <1>4, <1>5, <1>6, <1>7, <1>8, <1>9 DEF Next

THEOREM Inductive == Spec => [](TypeOK /\ IInv)
<1>1. Init => TypeOK /\ IInv
  BY TypingInit, InvInit
<1>2. (TypeOK /\ IInv) /\ [Next]_vars => (TypeOK /\ IInv)'
  BY TypingStep, InvStep
<1> QED BY <1>1, <1>2, PTL DEF Spec

-------------------------------------------------------------------------------
\* However long the chain, a kernel under HEN knows its machine and can reboot.
THEOREM Survives == Spec => []HenSurvives
<1>1. IInv => HenSurvives
  BY DEF IInv, InLoader, InKernel, Knows, HenSurvives
<1> QED BY <1>1, Inductive, PTL

\* Every boot honours the request of the kernel before it, and no other.
THEOREM HonouredOnce == Spec => []RequestOnce
<1>1. IInv => RequestOnce
  BY DEF IInv, InLoader, RequestOnce
<1> QED BY <1>1, Inductive, PTL

\* A program finds the memory that is owed to it, and otherwise its own SFO's or that
\* of the SFO before it.
LEMMA MemoryStep ==
  ASSUME TypeOK, IInv, [Next]_vars, where = "started", where' = "running"
  PROVE  memory' = IF program \in {"vsh", "umd"} \/ hardware = 0 THEN Default
                   ELSE IF due # Default THEN due
                   ELSE IF program = "bigpbp" \/ lastPbp = "own" THEN <<51, 0>>
                   ELSE Default
<1>1. MediaSync
  BY DEF Next, Eboot, Reboots, RebootMain, ModuleStart, SetMemory, LoadModuleOnReboot,
         PowerOff, vars
<1>2. psp_model = hardware /\ memory = Default /\ Pending(set_p2, set_p8)
  BY DEF IInv, InKernel, Knows
<1>3. program \in Programs
  BY DEF TypeOK
<1>4. CASE NotHooked
  BY <1>2, <1>3, <1>4 DEF NotHooked, Hooked, Programs
<1>5. CASE ServesEarlier
  <2>1. CASE due = <<set_p2, set_p8>>
    <3>1. due # Default
      BY <1>5, <2>1 DEF ServesEarlier, Default
    <3>2. Fits(set_p2, set_p8)
      BY <2>1, <3>1 DEF TypeOK, MemoryType
    <3> QED BY <1>2, <1>5, <2>1, <3>1, <3>2 DEF ServesEarlier, Hooked
  <2>2. CASE due = Default /\ lastPbp = "own" /\ set_p2 = 51 /\ set_p8 = 0
    BY <1>2, <1>5, <2>2, SfoFits DEF ServesEarlier, Hooked
  <2> QED BY <1>2, <1>5, <2>1, <2>2 DEF ServesEarlier, Pending
<1>6. CASE ServesSfo
  BY <1>2, <1>6 DEF ServesSfo, Hooked, Pending
<1>7. CASE ServesNone
  BY <1>2, <1>7 DEF ServesNone, Hooked, Pending
<1> QED BY <1>1, <1>4, <1>5, <1>6, <1>7 DEF MediaSync

THEOREM MemoryServed == Spec => MemoryAsAsked
<1>1. TypeOK /\ IInv /\ [Next]_vars =>
        [(where = "started" /\ where' = "running") =>
           memory' = IF program \in {"vsh", "umd"} \/ hardware = 0 THEN Default
                     ELSE IF due # Default THEN due
                     ELSE IF program = "bigpbp" \/ lastPbp = "own" THEN <<51, 0>>
                     ELSE Default]_vars
  BY MemoryStep
<1> QED BY <1>1, Inductive, PTL DEF Spec, MemoryAsAsked
===============================================================================
