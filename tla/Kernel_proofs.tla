------------------------------ MODULE Kernel_proofs ------------------------------
(* The kernel for any files, kinds of calls and numbers of failing ones, for any   *)
(* speeds and times, and any number of changed settings.                           *)
EXTENDS Kernel, FiniteSetTheorems, WellFoundedInduction, TLAPS

-------------------------------------------------------------------------------
(* Type correctness of the checks *)

LEMMA ProgramType ==
  ASSUME CheckTypeOK
  PROVE  program \in Programs
<1>1. NoProgram \in Programs
  BY DEF NoProgram, Programs, Attributes
<1> QED
  BY <1>1, CheckConstants DEF CheckTypeOK

LEMMA AttributeType ==
  ASSUME CheckTypeOK, NEW offset
  PROVE  AttributeAt(offset) \in Attributes \cup {"magic"}
<1>1. program.attr \in Attributes
  BY ProgramType DEF Programs
<1> QED
  BY <1>1 DEF AttributeAt

\* What the hooks do to a record leaves it one.
LEMMA Updates ==
  ASSUME NEW c \in Records
  PROVE  /\ \A a \in Attributes \cup {"magic"} : [c EXCEPT !.attribute = a] \in Records
         /\ \A b \in BOOLEAN : [c EXCEPT !.isKernelMod = b] \in Records
         /\ [c EXCEPT !.isDecrypted = TRUE] \in Records
         /\ [c EXCEPT !.isDecrypted = TRUE, !.isKernelMod = TRUE] \in Records
         /\ \A a \in Attributes \cup {"magic"} :
              [c EXCEPT !.attribute = a, !.isDecrypted = TRUE] \in Records
         /\ [c EXCEPT !.elfType = "static"] \in Records
         /\ [c EXCEPT !.apiType = 288] \in Records
         /\ [c EXCEPT !.modInfoOffset = "right", !.attribute = "user"] \in Records
         /\ \A size \in {"program", "junk"} : [c EXCEPT !.execSize = size] \in Records
<1>1. /\ \A a \in Attributes \cup {"magic"} : [c EXCEPT !.attribute = a] \in Records
      /\ \A b \in BOOLEAN : [c EXCEPT !.isKernelMod = b] \in Records
  BY DEF Records
<1>2. /\ [c EXCEPT !.isDecrypted = TRUE] \in Records
      /\ [c EXCEPT !.isDecrypted = TRUE, !.isKernelMod = TRUE] \in Records
  BY DEF Records
<1>6. ASSUME NEW a \in Attributes \cup {"magic"}
      PROVE  [c EXCEPT !.attribute = a, !.isDecrypted = TRUE] \in Records
  BY DEF Records
<1>3. /\ [c EXCEPT !.elfType = "static"] \in Records
      /\ [c EXCEPT !.apiType = 288] \in Records
  BY DEF Records
<1>4. [c EXCEPT !.modInfoOffset = "right", !.attribute = "user"] \in Records
  BY DEF Records, Attributes
<1>5. \A size \in {"program", "junk"} : [c EXCEPT !.execSize = size] \in Records
  BY DEF Records
<1> QED
  BY <1>1, <1>2, <1>3, <1>4, <1>5, <1>6

LEMMA PatchTypes ==
  ASSUME CheckTypeOK, NEW c \in Records
  PROVE  /\ PatchExec2(c) \in Records
         /\ PatchExec1(c) \in Records
         /\ \A plain \in BOOLEAN, res \in {"ok", "refused"} :
              /\ PatchExec3(c, plain, res)[1] \in Records
              /\ PatchExec3(c, plain, res)[2] \in {"ok", "refused"}
<1>1. \A d \in Records : PatchExec2(d) \in Records
  BY AttributeType, Updates DEF PatchExec2
<1>2. PatchExec1(c) \in Records
  BY <1>1, Updates DEF PatchExec1
<1>3. ASSUME NEW plain \in BOOLEAN, NEW res \in {"ok", "refused"}
      PROVE  /\ PatchExec3(c, plain, res)[1] \in Records
             /\ PatchExec3(c, plain, res)[2] \in {"ok", "refused"}
  <2>1. [PatchExec2(c) EXCEPT !.isKernelMod = TRUE] \in Records
    BY <1>1, Updates
  <2> QED
    BY <1>1, <2>1, Updates DEF PatchExec3
<1> QED
  BY <1>1, <1>2, <1>3

\* What the hooks on the probes make of the firmware's record.
Probed(inner, go) == ProbeObject(ProbeExec2(ProbeExec1(check), inner), inner, go)

\* They know the size and the partition no better, lose no place of a module info, and
\* do not find it only in a program that has no names for them.
LEMMA ProbedRecord ==
  ASSUME CheckTypeOK, NEW inner \in {"prx", "static"}, NEW go \in BOOLEAN
  PROVE  LET r == Probed(inner, go)
         IN  /\ r \in Records
             /\ r.execSize = check.execSize /\ r.isKernelMod = check.isKernelMod
             /\ check.modInfoOffset = "right" => r.modInfoOffset = "right"
             /\ r.modInfoOffset = "zero" => /\ check.modInfoOffset = "zero"
                                            /\ inner = "static" => ~program.named
             /\ \/ r.attribute = "user" \/ r.attribute = check.attribute
                \/ /\ r.attribute = AttributeAt(check.modInfoOffset)
                   /\ r.modInfoOffset = check.modInfoOffset
             /\ r.modInfoOffset # check.modInfoOffset => r.attribute = "user"
<1> DEFINE c == ProbeExec1(check)
           d == IF c.apiType - 320 \in 0..4 THEN [c EXCEPT !.apiType = 288] ELSE c
           e == ProbeExec2(c, inner)
           Same(q) == /\ q.execSize = check.execSize /\ q.isKernelMod = check.isKernelMod
<1>0. check \in Records
  BY DEF CheckTypeOK
<1>1. /\ c \in Records /\ Same(c) /\ c.modInfoOffset = check.modInfoOffset
      /\ c.attribute \in {check.attribute, AttributeAt(check.modInfoOffset)}
  <2>1. RealAttribute(check) \in Attributes \cup {"magic"}
    BY <1>0, AttributeType DEF RealAttribute, Records
  <2>2. PICK a \in Attributes \cup {"magic"} : a = RealAttribute(check)
    BY <2>1
  <2>3. [check EXCEPT !.attribute = a, !.isDecrypted = TRUE] \in Records
    BY <1>0, Updates
  <2>4. c = [check EXCEPT !.attribute = a, !.isDecrypted = TRUE]
    BY <2>2, Zenon DEF ProbeExec1
  <2>5. /\ Same([check EXCEPT !.attribute = a, !.isDecrypted = TRUE])
        /\ [check EXCEPT !.attribute = a, !.isDecrypted = TRUE].modInfoOffset
             = check.modInfoOffset
        /\ [check EXCEPT !.attribute = a, !.isDecrypted = TRUE].attribute = a
    BY <1>0 DEF Records
  <2>6. a \in {check.attribute, AttributeAt(check.modInfoOffset)}
    BY <2>2 DEF RealAttribute
  <2> HIDE DEF c, Same
  <2> QED
    BY <2>3, <2>4, <2>5, <2>6
<1> HIDE DEF c
<1>2. /\ d \in Records /\ Same(d) /\ d.modInfoOffset = c.modInfoOffset
      /\ d.attribute = c.attribute
  <2>1. [c EXCEPT !.apiType = 288] \in Records
    BY <1>1, Updates
  <2>2. /\ Same([c EXCEPT !.apiType = 288])
        /\ [c EXCEPT !.apiType = 288].modInfoOffset = c.modInfoOffset
        /\ [c EXCEPT !.apiType = 288].attribute = c.attribute
    BY <1>1 DEF Records
  <2> QED
    BY <1>1, <2>1, <2>2
<1> HIDE DEF d
<1>3. /\ e \in Records /\ Same(e)
      /\ \/ /\ e.modInfoOffset = c.modInfoOffset /\ e.attribute = c.attribute
            /\ (inner = "static" /\ c.modInfoOffset = "zero") => ~program.named
         \/ e.modInfoOffset = "right" /\ e.attribute = "user"
  <2> DEFINE f == [d EXCEPT !.modInfoOffset = "right", !.attribute = "user"]
  <2>1. \/ e = c /\ inner # "static"
        \/ e = d /\ ~(c.modInfoOffset = "zero" /\ program.named)
        \/ e = f
    BY DEF ProbeExec2, d
  <2>2. f \in Records
    BY <1>2, Updates
  <2>3. f.modInfoOffset = "right" /\ f.attribute = "user" /\ Same(f)
    BY <1>2 DEF Records
  <2> HIDE DEF e, f, Same
  <2> QED
    BY <1>1, <1>2, <2>1, <2>2, <2>3
<1> HIDE DEF e
<1>4. PICK o \in Records : o = Probed(inner, go)
  <2>1. Probed(inner, go) \in {e, [e EXCEPT !.elfType = "static"]}
    BY DEF Probed, ProbeObject, e, c
  <2> QED
    BY <1>3, <2>1, Updates
<1>5. /\ Same(o) /\ o.modInfoOffset = e.modInfoOffset /\ o.attribute = e.attribute
  <2>1. o \in {e, [e EXCEPT !.elfType = "static"]}
    BY <1>4 DEF Probed, ProbeObject, e, c
  <2> QED
    BY <1>3, <2>1 DEF Records
<1>6. o.modInfoOffset \in {"zero", "right"} /\ check.modInfoOffset \in {"zero", "right"}
  BY <1>0 DEF Records
<1> QED
  BY <1>1, <1>3, <1>4, <1>5, <1>6

\* A program that is still encrypted is left alone; what a plain one is, is known.
LEMMA ProbeEither ==
  ASSUME CheckTypeOK, ProbeExec
  PROVE  \/ check' = check /\ ~Plain
         \/ \E inner \in {"prx", "static"}, go \in BOOLEAN :
              /\ check' = Probed(inner, go)
              /\ Plain => inner = program.kind
<1>1. program.kind \in {"prx", "static", "psp"}
  BY ProgramType DEF Programs
<1>2. PICK inner \in IF Plain THEN {program.kind} ELSE {"prx", "static", "psp"},
           go \in BOOLEAN :
        check' = IF inner = "psp" THEN check ELSE Probed(inner, go)
  BY Zenon DEF ProbeExec, Probed
<1>3. CASE inner = "psp"
  BY <1>1, <1>2, <1>3 DEF Plain
<1>4. CASE inner # "psp"
  BY <1>1, <1>2, <1>4 DEF Plain
<1> QED
  BY <1>3, <1>4

LEMMA IdleTypes ==
  ASSUME NEW s \in Steps, Idle(s)
  PROVE  CheckTypeOK'
BY DEF Idle, CheckTypeOK, NoRecord, Records, Attributes, Positions, Heads

LEMMA OpensTypes ==
  ASSUME CheckTypeOK, NEW f \in Files, FirmwareOpens(f)
  PROVE  CheckTypeOK'
<1>1. PICK api \in ApiTypes, size \in {"zero", "file"}, kernel \in BOOLEAN,
           offset \in {"zero", "right"} :
         check' = [NoRecord EXCEPT !.apiType = api, !.execSize = size,
                                   !.isKernelMod = kernel, !.modInfoOffset = offset]
  BY DEF FirmwareOpens
<1>2. check' \in Records
  BY <1>1 DEF NoRecord, Records, Attributes
<1>3. high' \in BOOLEAN
  BY Zenon DEF FirmwareOpens
<1> QED
  BY <1>2, <1>3 DEF FirmwareOpens, CheckTypeOK, Steps

LEMMA CheckStepTypes ==
  ASSUME CheckTypeOK, CheckNext
  PROVE  CheckTypeOK'
<1> USE DEF CheckTypeOK, Steps, Calls, Positions
<1>1. CASE CheckExecFile
  <2>1. PICK plain \in BOOLEAN :
          \/ /\ plain /\ MayPass(check)
             /\ check' = PatchExec1(check) /\ verdict' = "ok"
          \/ /\ ~(plain /\ MayPass(check))
             /\ \E c \in FirmwareChecks(check), res \in {"ok", "refused"} :
                  LET after == PatchExec3(c, plain, res)
                  IN  check' = after[1] /\ verdict' = after[2]
    BY <1>1, Zenon DEF CheckExecFile
  <2>2. FirmwareChecks(check) \subseteq Records
    <3>1. program.attr \in Attributes /\ "user" \in Attributes
      BY ProgramType DEF Programs, Attributes
    <3>2. SUFFICES ASSUME NEW type \in {"none", "prx"},
                          NEW attr \in {"user", IF Plain THEN "user" ELSE program.attr}
                   PROVE  [check EXCEPT !.elfType = type, !.attribute = attr] \in Records
      BY DEF FirmwareChecks
    <3>3. attr \in Attributes
      BY <3>1
    <3> QED
      BY <3>3 DEF Records
  <2>3. check' \in Records /\ verdict' \in {"ok", "refused"}
    BY <2>1, <2>2, PatchTypes
  <2>4. overruled' \subseteq DOMAIN NoRecord \cup {"verdict"}
    BY <1>1 DEF CheckExecFile, Changed
  <2>5. step' \in Steps
    BY <1>1 DEF CheckExecFile
  <2> QED
    BY <1>1, <2>3, <2>4, <2>5 DEF CheckExecFile
<1>2. CASE PartitionTells \/ PartitionRewinds \/ PartitionSeeksProgram \/ PartitionRestores
  BY <1>2 DEF PartitionTells, PartitionRewinds, PartitionSeeksProgram, PartitionRestores,
              SeekTo
<1>3. CASE PartitionReadsHeader
  <2>1. \A place : HeadAt(place) \in Heads
    BY ProgramType DEF HeadAt, Heads, Programs
  <2>2. buf' \in [head : Heads, words : {"pbp", "other"}]
    BY <1>3, <2>1 DEF PartitionReadsHeader
  <2>3. step' \in Steps
    BY <1>3, <2>2 DEF PartitionReadsHeader, Onward, Heads
  <2> QED
    BY <1>3, <2>2, <2>3 DEF PartitionReadsHeader, Reads, ReadFails
<1>4. CASE PartitionReadsProgram
  <2>1. \A place : HeadAt(place) \in Heads
    BY ProgramType DEF HeadAt, Heads, Programs
  <2> QED
    BY <1>4, <2>1 DEF PartitionReadsProgram, Reads, ReadFails
<1>5. CASE PartitionSeeksModinfo
  <2>1. check' \in Records
    <3>1. SizeOfProgram(check) \in Records
      <4>1. PICK size \in {"program", "junk"} :
              size = IF buf.words = "pbp" THEN "program" ELSE "junk"
        OBVIOUS
      <4>2. [check EXCEPT !.execSize = size] \in Records
        BY Updates
      <4> QED
        BY <4>1, <4>2 DEF SizeOfProgram
    <3>2. check' = check \/ check' = SizeOfProgram(check)
      BY <1>5, Zenon DEF PartitionSeeksModinfo
    <3> QED
      BY <3>1, <3>2
  <2>2. overruled' \subseteq DOMAIN NoRecord \cup {"verdict"}
    BY <1>5 DEF PartitionSeeksModinfo, Changed
  <2> QED
    BY <1>5, <2>1, <2>2 DEF PartitionSeeksModinfo, SeekTo
<1>6. CASE PartitionMarks
  <2>1. check' \in Records
    <3>1. PICK attr \in Attributes \cup {"magic"} :
            check' = [check EXCEPT !.isKernelMod = (buf.head # "static" /\ attr = "kernel")]
      BY <1>6 DEF PartitionMarks
    <3> QED
      BY <3>1, Updates
  <2>2. overruled' \subseteq DOMAIN NoRecord \cup {"verdict"}
    BY <1>6 DEF PartitionMarks, Changed
  <2>3. position' \in Positions /\ faults' \subseteq Calls
    BY <1>6 DEF PartitionMarks, Reads, ReadFails
  <2> QED
    BY <1>6, <2>1, <2>2, <2>3 DEF PartitionMarks
<1>7. CASE FirmwarePartitions
  BY <1>7 DEF FirmwarePartitions
<1>8. CASE ProbeExec
  <2>1. check' \in Records
    BY <1>8, ProbeEither, ProbedRecord
  <2>2. overruled' \subseteq DOMAIN NoRecord \cup {"verdict"}
    BY <1>8 DEF ProbeExec, Changed
  <2> QED
    BY <1>8, <2>1, <2>2 DEF ProbeExec
<1> QED
  BY <1>1, <1>2, <1>3, <1>4, <1>5, <1>6, <1>7, <1>8 DEF CheckNext, PartitionCheck

-------------------------------------------------------------------------------
(* Type correctness of the clock *)

LEMMA ClockAtType ==
  ASSUME ClockTypeOK, NEW speed
  PROVE  ClockAt(speed) \in Accepted
BY DEF ClockTypeOK, ClockAt

\* Half can be no less than 2: the delays are below it.
LEMMA Words ==
  /\ Half \in Nat /\ Half > 1 /\ Word \in Nat
  /\ 0 \in 0..(Word - 1) /\ 1 \in 0..(Word - 1)
  /\ \A t \in 0..(Word - 1) : (t + 1) % Word \in 0..(Word - 1)
BY ClockConstants DEF Word

LEMMA ClockStepTypes ==
  ASSUME ClockTypeOK,
         \/ ClockPolls \/ PushStores \/ PushCompares \/ PushCalls \/ PushStamps
         \/ FirmwareResets \/ Tick
  PROVE  ClockTypeOK'
<1> USE ClockConstants, Words DEF ClockTypeOK, pushVars, pollVars, timeVars
<1>1. CASE PollDecides
  <2>1. poll' \in {"idle", "first", "call", "stamp"} /\ polled' \in BOOLEAN
    BY <1>1 DEF PollDecides
  <2> QED
    BY <1>1, <2>1 DEF PollDecides
<1>2. CASE PollSets
  BY <1>2 DEF PollSets
<1>3. CASE PollLoads
  BY <1>3 DEF PollLoads
<1>4. CASE PollCalls
  <2>1. clock' \in Accepted /\ overtaken' \in BOOLEAN
    BY <1>4, ClockAtType DEF PollCalls
  <2> QED
    BY <1>4, <2>1 DEF PollCalls
<1>5. CASE PollStamps
  BY <1>5 DEF PollStamps
<1>6. CASE PushStores
  BY <1>6 DEF PushStores
<1>7. CASE PushCompares
  BY <1>7 DEF PushCompares
<1>8. CASE PushCalls
  <2>1. clock' \in Accepted
    BY <1>8, ClockAtType DEF PushCalls
  <2> QED
    BY <1>8, <2>1 DEF PushCalls
<1>9. CASE PushStamps
  BY <1>9 DEF PushStamps
<1>10. CASE FirmwareResets
  BY <1>10 DEF FirmwareResets, Accepted
<1>11. CASE Tick
  BY <1>11 DEF Tick
<1> QED
  BY <1>1, <1>2, <1>3, <1>4, <1>5, <1>6, <1>7, <1>8, <1>9, <1>10, <1>11 DEF ClockPolls

-------------------------------------------------------------------------------
(* Type correctness of the kernel *)

\* The types of Kernel's own variables.
OwnTypeOK ==
  /\ keyconfig \in {"VSH", "GAME"} /\ where \in Places
  /\ stick \in BOOLEAN /\ registered \in BOOLEAN /\ event \in BOOLEAN
  /\ saved \in [vsh : Speeds, game : GameSpeeds]
  /\ gamecpuspeed \in GameSpeeds
  /\ status \in BOOLEAN /\ set_cpuspeed \in BOOLEAN /\ dummied \in BOOLEAN
  /\ role \in {"plugin", "main"}

LEMMA CheckStays == ASSUME CheckTypeOK, UNCHANGED checkVars PROVE CheckTypeOK'
BY DEF CheckTypeOK, checkVars, Plain

LEMMA ClockStays == ASSUME ClockTypeOK, UNCHANGED clockVars PROVE ClockTypeOK'
BY DEF ClockTypeOK, clockVars, timeVars, pollVars, pushVars

LEMMA OwnStays ==
  ASSUME OwnTypeOK,
         UNCHANGED <<keyconfig, where, stickVars, saved, gameVars, role>>
  PROVE  OwnTypeOK'
BY DEF OwnTypeOK, stickVars, gameVars

LEMMA InitTypes == Init => TypeOK
<1> SUFFICES ASSUME Init PROVE TypeOK
  OBVIOUS
<1>1. CheckTypeOK
  BY DEF Init, CheckInit, CheckTypeOK, NoRecord, Records, Attributes, Positions, Heads,
         Steps
<1>2. ClockTypeOK
  <2>1. ClockInit
    BY DEF Init
  <2>2. 0 \in 0..(Word - 1) /\ 1 \in 0..(Word - 1) /\ 0 \in 0..MaxPushes /\ 0 \in 0..MaxResets
    BY ClockConstants, Words
  <2>3. now \in 0..(Word - 1) /\ firsttime \in 0..(Word - 1) /\ curtime \in 0..(Word - 1)
        /\ timelow \in 0..(Word - 1) /\ pushes \in 0..MaxPushes /\ resets \in 0..MaxResets
    BY <2>1, <2>2 DEF ClockInit
  <2> QED
    BY <2>1, <2>3, ClockConstants DEF ClockInit, ClockTypeOK, Accepted
<1>3. OwnTypeOK
  BY KernelConstants DEF Init, OwnTypeOK, Places
<1> QED
  BY <1>1, <1>2, <1>3 DEF TypeOK, OwnTypeOK

LEMMA StepTypes == TypeOK /\ [Next]_vars => TypeOK'
<1> SUFFICES ASSUME CheckTypeOK, ClockTypeOK, OwnTypeOK, [Next]_vars
             PROVE  CheckTypeOK' /\ ClockTypeOK' /\ OwnTypeOK'
  BY DEF TypeOK, OwnTypeOK
<1> USE CheckStays, ClockStays, OwnStays
<1>1. CASE AsksForStick
  BY <1>1 DEF AsksForStick, OwnTypeOK, stickVars, gameVars, Places
<1>2. CASE RegistersCallback
  BY <1>2 DEF RegistersCallback, OwnTypeOK, gameVars, Places
<1>3. CASE WaitEnds
  BY <1>3 DEF WaitEnds, OwnTypeOK, gameVars, Places
<1>4. CASE DriverMounts
  BY <1>4 DEF DriverMounts, OwnTypeOK, gameVars
<1>5. CASE StickMoves
  BY <1>5 DEF StickMoves, OwnTypeOK, gameVars
<1>6. CASE ImposeLoads
  <2>1. CheckTypeOK' /\ OwnTypeOK'
    BY <1>6 DEF ImposeLoads, OwnTypeOK, Places
  <2>2. ClockTypeOK'
    BY <1>6 DEF ImposeLoads, OwnTypeOK, ClockTypeOK, timeVars, pollVars, pushVars
  <2> QED
    BY <2>1, <2>2
<1>7. CASE NoPlugin
  BY <1>7 DEF NoPlugin, OwnTypeOK, stickVars, gameVars, Places
<1>8. CASE \E as \in {"plugin", "main"} : Opens(as)
  <2>1. PICK as \in {"plugin", "main"} : Opens(as)
    BY <1>8
  <2>2. CheckTypeOK'
    BY <2>1, OpensTypes DEF Opens, LoadableAs
  <2> QED
    BY <2>1, <2>2 DEF Opens, OwnTypeOK, stickVars, gameVars, Places
<1>9. CASE Checks
  BY <1>9, CheckStepTypes DEF Checks
<1>10. CASE Refused
  <2>1. CheckTypeOK'
    BY <1>10, IdleTypes DEF Refused, Steps
  <2> QED
    BY <1>10, <2>1 DEF Refused, OwnTypeOK, stickVars, gameVars, Places
<1>11. CASE Loaded
  BY <1>11 DEF Loaded, OwnTypeOK, stickVars, gameVars, Places
<1>12. CASE Links
  <2>1. CheckTypeOK'
    BY <1>12, IdleTypes DEF Links, Steps
  <2> QED
    BY <1>12, <2>1 DEF Links, OwnTypeOK, stickVars, gameVars, Places
<1>13. CASE Starts
  <2>1. CheckTypeOK'
    BY <1>13 DEF Starts
  <2>2. status' \in BOOLEAN
    BY <1>13 DEF Starts, OwnTypeOK
  <2>3. clock' \in Accepted /\ dummied' \in BOOLEAN /\ set_cpuspeed' \in BOOLEAN
    <3>1. CASE ~set_cpuspeed /\ status'
      <4>1. clock \in Accepted
        BY DEF ClockTypeOK
      <4> QED
        BY <1>13, <3>1, <4>1, ClockAtType DEF Starts, SetsGameSpeed
    <3>2. CASE ~(~set_cpuspeed /\ status')
      BY <1>13, <3>2 DEF Starts, SetsGameSpeed, ClockTypeOK, OwnTypeOK
    <3> QED
      BY <3>1, <3>2
  <2>4. vshcpuspeed' \in Speeds /\ firsttime' \in 0..(Word - 1)
    BY <1>13 DEF Starts, VshLoads, ClockTypeOK, OwnTypeOK
  <2>5. ClockTypeOK'
    BY <1>13, <2>3, <2>4 DEF Starts, ClockTypeOK, timeVars, pollVars, pushVars
  <2>6. OwnTypeOK'
    BY <1>13, <2>2, <2>3 DEF Starts, OwnTypeOK, stickVars, Places
  <2> QED
    BY <2>1, <2>5, <2>6
<1>14. CASE StartFails
  BY <1>14 DEF StartFails, OwnTypeOK, stickVars, gameVars, Places
<1>15. CASE ProgramSetsClock
  <2>1. clock' \in Accepted
    BY <1>15, KernelConstants DEF ProgramSetsClock, ClockTypeOK, Accepted
  <2>2. ClockTypeOK'
    BY <1>15, <2>1 DEF ProgramSetsClock, ClockTypeOK, timeVars, pollVars, pushVars
  <2> QED
    BY <1>15, <2>2 DEF ProgramSetsClock
<1>16. CASE XmbPolls \/ XmbStores \/ XmbPushes \/ XmbResets \/ TimePasses
  BY <1>16, ClockStepTypes
  DEF XmbPolls, XmbStores, XmbPushes, XmbResets, TimePasses, InXmb
<1>17. CASE UNCHANGED vars
  BY <1>17 DEF vars
<1> QED
  BY <1>1, <1>2, <1>3, <1>4, <1>5, <1>6, <1>7, <1>8, <1>9, <1>10, <1>11, <1>12, <1>13,
     <1>14, <1>15, <1>16, <1>17
  DEF Next, StickWait, Modules, Clocks

\* Every variable stays within its type, at every step of the load of any file and of
\* the two threads that set the clock.
THEOREM Typing == Spec => []TypeOK
<1> QED
  BY InitTypes, StepTypes, PTL DEF Spec

-------------------------------------------------------------------------------
(* The load of a file *)

\* What a step of the kernel does to the load that is going on.
LoadStep ==
  \/ CheckNext
  \/ \E f \in Files : FirmwareOpens(f)
  \/ Idle("none")
  \/ UNCHANGED checkVars

LEMMA LoadSteps == TypeOK /\ [Next]_vars => LoadStep
<1> SUFFICES ASSUME [Next]_vars PROVE LoadStep
  OBVIOUS
<1> USE DEF LoadStep
<1>1. CASE \E as \in {"plugin", "main"} : Opens(as)
  BY <1>1 DEF Opens, LoadableAs
<1>2. CASE Checks
  BY <1>2 DEF Checks
<1>3. CASE Refused \/ Links
  BY <1>3 DEF Refused, Links
<1>4. CASE StickWait \/ DriverMounts \/ StickMoves \/ ImposeLoads
  BY <1>4 DEF StickWait, AsksForStick, RegistersCallback, WaitEnds, DriverMounts,
              StickMoves, ImposeLoads
<1>5. CASE NoPlugin \/ Loaded \/ Starts \/ StartFails
  BY <1>5 DEF NoPlugin, Loaded, Starts, StartFails
<1>6. CASE Clocks
  BY <1>6 DEF Clocks, XmbPolls, XmbStores, XmbPushes, XmbResets, TimePasses, InXmb,
              ProgramSetsClock
<1>7. CASE UNCHANGED vars
  BY <1>7 DEF vars
<1> QED
  BY <1>1, <1>2, <1>3, <1>4, <1>5, <1>6, <1>7 DEF Next, Modules

\* Until the handle is put back, PartitionCheckPatched knows where it has to stand, if
\* it was told.
Within == {"rewind", "header", "program", "programHeader", "modinfoPbp", "modinfoElf",
           "attributes", "restore"}
PlaceKnown ==
  /\ step \in {"none", "exec", "tell"} => position = "entry"
  /\ step \in Within => pos = "entry" \/ "tell" \in faults
  /\ PositionKept

LEMMA PlaceStays == TypeOK /\ PlaceKnown /\ LoadStep => PlaceKnown'
<1> SUFFICES ASSUME TypeOK, PlaceKnown, LoadStep PROVE PlaceKnown'
  OBVIOUS
<1> USE DEF PlaceKnown, PositionKept, Within
<1>1. CASE CheckExecFile
  BY <1>1 DEF CheckExecFile
<1>2. CASE PartitionTells
  BY <1>2 DEF PartitionTells
<1>3. CASE PartitionRewinds \/ PartitionSeeksProgram \/ PartitionSeeksModinfo
  BY <1>3 DEF PartitionRewinds, PartitionSeeksProgram, PartitionSeeksModinfo, SeekTo
<1>4. CASE PartitionReadsHeader
  <2>1. step' \in {"program", "modinfoElf", "restore"}
    <3>1. \A place : HeadAt(place) \in Heads
      BY ProgramType DEF TypeOK, HeadAt, Heads, Programs
    <3> QED
      BY <1>4, <3>1 DEF PartitionReadsHeader, Onward, Heads
  <2> QED
    BY <1>4, <2>1 DEF PartitionReadsHeader, Reads, ReadFails
<1>5. CASE PartitionReadsProgram
  BY <1>5 DEF PartitionReadsProgram, Reads, ReadFails
<1>6. CASE PartitionMarks
  BY <1>6 DEF PartitionMarks, Reads, ReadFails
<1>7. CASE PartitionRestores
  BY <1>7 DEF PartitionRestores, SeekTo
<1>8. CASE FirmwarePartitions \/ ProbeExec
  BY <1>8 DEF FirmwarePartitions, ProbeExec
<1>9. CASE \E f \in Files : FirmwareOpens(f)
  BY <1>9 DEF FirmwareOpens
<1>10. CASE Idle("none")
  BY <1>10 DEF Idle
<1>11. CASE UNCHANGED checkVars
  BY <1>11 DEF checkVars
<1> QED
  BY <1>1, <1>2, <1>3, <1>4, <1>5, <1>6, <1>7, <1>8, <1>9, <1>10, <1>11
  DEF LoadStep, CheckNext, PartitionCheck

\* The firmware finds the file where it had left it, on every path through
\* PartitionCheckPatched, unless the very calls fail that remember and restore it.
THEOREM Kept == Spec => []PositionKept
<1>1. Init => PlaceKnown
  BY DEF Init, CheckInit, PlaceKnown, PositionKept, Within
<1>2. TypeOK /\ PlaceKnown /\ [Next]_vars => PlaceKnown'
  BY LoadSteps, PlaceStays
<1>3. PlaceKnown => PositionKept
  BY DEF PlaceKnown
<1> QED
  BY <1>1, <1>2, <1>3, Typing, PTL DEF Spec

\* The hooks on CheckExec change the record's attribute, if at all, to one of the
\* program's, and do not touch the offset of its module info.
LEMMA PatchedRecord ==
  ASSUME CheckTypeOK, NEW c \in Records
  PROVE  /\ PatchExec2(c).modInfoOffset = c.modInfoOffset
         /\ PatchExec2(c).attribute \in {c.attribute, AttributeAt(c.modInfoOffset)}
         /\ PatchExec1(c).modInfoOffset = c.modInfoOffset
         /\ PatchExec1(c).attribute \in {c.attribute, AttributeAt(c.modInfoOffset)}
         /\ \A plain \in BOOLEAN, res \in {"ok", "refused"} :
              LET d == PatchExec3(c, plain, res)[1]
              IN  /\ d.modInfoOffset = c.modInfoOffset
                  /\ d.attribute \in {c.attribute, AttributeAt(c.modInfoOffset)}
<1>1. \A d \in Records : /\ PatchExec2(d).modInfoOffset = d.modInfoOffset
                         /\ PatchExec2(d).attribute \in {d.attribute, AttributeAt(d.modInfoOffset)}
                         /\ PatchExec2(d) \in Records
  <2>1. \A d \in Records : \A a \in Attributes \cup {"magic"} :
          /\ [d EXCEPT !.attribute = a].modInfoOffset = d.modInfoOffset
          /\ [d EXCEPT !.attribute = a].attribute = a
    BY DEF Records
  <2> QED
    BY <2>1, AttributeType, PatchTypes DEF PatchExec2
<1>2. /\ PatchExec1(c).modInfoOffset = c.modInfoOffset
      /\ PatchExec1(c).attribute \in {c.attribute, AttributeAt(c.modInfoOffset)}
  <2>1. PICK d \in Records : d = [c EXCEPT !.isDecrypted = TRUE, !.isKernelMod = TRUE]
    <3>1. [c EXCEPT !.isDecrypted = TRUE, !.isKernelMod = TRUE] \in Records
      BY Updates
    <3> QED
      BY <3>1
  <2>2. PICK e \in Records : e = [c EXCEPT !.isDecrypted = TRUE]
    <3>1. [c EXCEPT !.isDecrypted = TRUE] \in Records
      BY Updates
    <3> QED
      BY <3>1
  <2>3. /\ d.modInfoOffset = c.modInfoOffset /\ d.attribute = c.attribute
        /\ e.modInfoOffset = c.modInfoOffset /\ e.attribute = c.attribute
    BY <2>1, <2>2 DEF Records
  <2>4. PatchExec1(c) \in {PatchExec2(d), e}
    BY <2>1, <2>2 DEF PatchExec1
  <2> QED
    BY <1>1, <2>3, <2>4
<1>3. ASSUME NEW plain \in BOOLEAN, NEW res \in {"ok", "refused"}
      PROVE  LET d == PatchExec3(c, plain, res)[1]
             IN  /\ d.modInfoOffset = c.modInfoOffset
                 /\ d.attribute \in {c.attribute, AttributeAt(c.modInfoOffset)}
  <2>1. PICK d \in Records : d = [c EXCEPT !.elfType = "static"]
    <3>1. [c EXCEPT !.elfType = "static"] \in Records
      BY Updates
    <3> QED
      BY <3>1
  <2>2. PICK p \in Records : p = PatchExec2(c)
    BY <1>1
  <2>3. PICK e \in Records : e = [p EXCEPT !.isKernelMod = TRUE]
    <3>1. [p EXCEPT !.isKernelMod = TRUE] \in Records
      BY Updates
    <3> QED
      BY <3>1
  <2>4. /\ d.modInfoOffset = c.modInfoOffset /\ d.attribute = c.attribute
        /\ e.modInfoOffset = p.modInfoOffset /\ e.attribute = p.attribute
    BY <2>1, <2>3 DEF Records
  <2>5. PatchExec3(c, plain, res)[1] \in {c, d, p, e}
    BY <2>1, <2>2, <2>3 DEF PatchExec3
  <2> QED
    BY <1>1, <2>2, <2>4, <2>5
<1> QED
  BY <1>1, <1>2, <1>3

LEMMA CheckExecRecords ==
  ASSUME TypeOK, CheckExecFile
  PROVE  /\ check'.modInfoOffset = check.modInfoOffset
         /\ check'.attribute \in {check.attribute, "user", program.attr,
                                  AttributeAt(check.modInfoOffset)}
<1> USE DEF TypeOK
<1>0. check \in Records
  BY DEF CheckTypeOK
<1>1. \/ check' = PatchExec1(check)
      \/ \E plain \in BOOLEAN, c \in FirmwareChecks(check), res \in {"ok", "refused"} :
           check' = PatchExec3(c, plain, res)[1]
  BY Zenon DEF CheckExecFile
<1>2. CASE check' = PatchExec1(check)
  BY <1>0, <1>2, PatchedRecord
<1>3. CASE \E plain \in BOOLEAN, c \in FirmwareChecks(check), res \in {"ok", "refused"} :
             check' = PatchExec3(c, plain, res)[1]
  <2>1. PICK plain \in BOOLEAN, c \in FirmwareChecks(check), res \in {"ok", "refused"} :
          check' = PatchExec3(c, plain, res)[1]
    BY <1>3
  <2>2. /\ c \in Records /\ c.modInfoOffset = check.modInfoOffset
        /\ c.attribute \in {"user", program.attr}
    <3>1. PICK type \in {"none", "prx"},
               attr \in {"user", IF Plain THEN "user" ELSE program.attr} :
            c = [check EXCEPT !.elfType = type, !.attribute = attr]
      BY DEF FirmwareChecks
    <3>2. attr \in {"user", program.attr} /\ attr \in Attributes
      BY <3>1, ProgramType DEF Programs, Attributes
    <3>3. PICK d \in Records : d = [check EXCEPT !.elfType = type, !.attribute = attr]
      <4>1. [check EXCEPT !.elfType = type, !.attribute = attr] \in Records
        BY <1>0, <3>2 DEF Records
      <4> QED
        BY <4>1
    <3>4. d.modInfoOffset = check.modInfoOffset /\ d.attribute = attr
      BY <1>0, <3>3 DEF Records
    <3> QED
      BY <3>1, <3>2, <3>3, <3>4
  <2> QED
    BY <2>1, <2>2, PatchedRecord
<1> QED
  BY <1>1, <1>2, <1>3

\* What the steps of PartitionCheckPatched leave of the record.
LEMMA PartitionRecords ==
  ASSUME TypeOK, PartitionCheck
  PROVE  /\ check'.modInfoOffset = check.modInfoOffset
         /\ check'.attribute = check.attribute
         /\ program' = program
<1>0. check \in Records
  BY DEF TypeOK, CheckTypeOK
<1>1. CASE PartitionSeeksModinfo
  <2>1. PICK size \in {"program", "junk"} :
          size = IF buf.words = "pbp" THEN "program" ELSE "junk"
    OBVIOUS
  <2>2. /\ [check EXCEPT !.execSize = size].modInfoOffset = check.modInfoOffset
        /\ [check EXCEPT !.execSize = size].attribute = check.attribute
    BY <1>0 DEF Records
  <2>3. SizeOfProgram(check) = check \/ SizeOfProgram(check) = [check EXCEPT !.execSize = size]
    BY <2>1 DEF SizeOfProgram
  <2>4. check' = check \/ check' = SizeOfProgram(check)
    BY <1>1, Zenon DEF PartitionSeeksModinfo
  <2> QED
    BY <1>1, <2>2, <2>3, <2>4 DEF PartitionSeeksModinfo
<1>2. CASE PartitionMarks
  <2>1. PICK attr \in Attributes \cup {"magic"} :
          check' = [check EXCEPT !.isKernelMod = (buf.head # "static" /\ attr = "kernel")]
    BY <1>2 DEF PartitionMarks
  <2>2. PICK b \in BOOLEAN : b = (buf.head # "static" /\ attr = "kernel")
    OBVIOUS
  <2>3. /\ [check EXCEPT !.isKernelMod = b].modInfoOffset = check.modInfoOffset
        /\ [check EXCEPT !.isKernelMod = b].attribute = check.attribute
    BY <1>0 DEF Records
  <2> QED
    BY <1>2, <2>1, <2>2, <2>3 DEF PartitionMarks
<1> QED
  BY <1>1, <1>2
  DEF PartitionCheck, PartitionTells, PartitionRewinds, PartitionReadsHeader,
      PartitionSeeksProgram, PartitionReadsProgram, PartitionRestores, FirmwarePartitions

\* Where the module info is, is unknown of static programs only, and at last of those
\* only whose sections have no names.
Located ==
  (step # "none" /\ check.modInfoOffset = "zero") =>
    program.kind = "static" /\ (step = "probed" => ~program.named)

LEMMA LocatedStays == TypeOK /\ Located /\ LoadStep => Located'
<1> SUFFICES ASSUME TypeOK, Located, LoadStep PROVE Located'
  OBVIOUS
<1>1. CASE CheckExecFile
  <2>1. step = "exec" /\ step' \in {"tell", "refused"} /\ program' = program
    BY <1>1 DEF CheckExecFile
  <2> QED
    BY <1>1, <2>1, CheckExecRecords DEF Located
<1>2. CASE PartitionCheck
  <2>1. step # "none" /\ step' # "probed"
    <3>1. CASE PartitionReadsHeader
      <4>1. \A place : HeadAt(place) \in Heads
        BY ProgramType DEF TypeOK, HeadAt, Heads, Programs
      <4> QED
        BY <3>1, <4>1 DEF PartitionReadsHeader, Onward, Heads
    <3> QED
      BY <1>2, <3>1 DEF PartitionCheck, PartitionTells, PartitionRewinds,
         PartitionSeeksProgram, PartitionReadsProgram, PartitionSeeksModinfo,
         PartitionMarks, PartitionRestores, FirmwarePartitions
  <2> QED
    BY <1>2, <2>1, PartitionRecords DEF Located
<1>3. CASE ProbeExec
  <2>1. step = "probe" /\ step' = "probed" /\ program' = program /\ CheckTypeOK
    BY <1>3 DEF ProbeExec, TypeOK
  <2>2. CASE check' = check /\ ~Plain
    BY <2>1, <2>2 DEF Located, Plain
  <2>3. CASE \E inner \in {"prx", "static"}, go \in BOOLEAN :
               check' = Probed(inner, go) /\ (Plain => inner = program.kind)
    <3>1. PICK inner \in {"prx", "static"}, go \in BOOLEAN :
            check' = Probed(inner, go) /\ (Plain => inner = program.kind)
      BY <2>3
    <3>2. check'.modInfoOffset = "zero" =>
            check.modInfoOffset = "zero" /\ (inner = "static" => ~program.named)
      BY <2>1, <3>1, ProbedRecord
    <3> QED
      BY <2>1, <3>1, <3>2 DEF Located, Plain
  <2> QED
    BY <1>3, <2>1, <2>2, <2>3, ProbeEither
<1>4. CASE \E f \in Files : FirmwareOpens(f)
  <2>1. PICK f \in Files : FirmwareOpens(f)
    BY <1>4
  <2>2. PICK api \in ApiTypes, size \in {"zero", "file"}, kernel \in BOOLEAN,
             offset \in {"zero", "right"} :
          /\ offset = "zero" => f.kind = "static"
          /\ check' = [NoRecord EXCEPT !.apiType = api, !.execSize = size,
                                       !.isKernelMod = kernel, !.modInfoOffset = offset]
    BY <2>1 DEF FirmwareOpens
  <2>3. check'.modInfoOffset = offset /\ program' = f /\ step' = "exec"
    BY <2>1, <2>2 DEF NoRecord, FirmwareOpens
  <2> QED
    BY <2>2, <2>3 DEF Located
<1>5. CASE Idle("none")
  BY <1>5 DEF Idle, Located
<1>6. CASE UNCHANGED checkVars
  BY <1>6 DEF checkVars, Located
<1> QED
  BY <1>1, <1>2, <1>3, <1>4, <1>5, <1>6 DEF LoadStep, CheckNext

LEMMA AlwaysLocated == Spec => []Located
<1>1. Init => Located
  BY DEF Init, CheckInit, Located
<1>2. TypeOK /\ Located /\ [Next]_vars => Located'
  BY LoadSteps, LocatedStays
<1> QED
  BY <1>1, <1>2, Typing, PTL DEF Spec

\* An encrypted program is never taken for a plain one, before it is in memory.
NeverTakenForPlain ==
  /\ step = "none" => overruled = {} /\ buf.head = "junk"
  /\ EncryptedUntouched
  /\ ~Plain => /\ step # "probed" => overruled = {}
               /\ buf.head \notin {"prx", "static"}
               /\ step \notin {"modinfoElf", "modinfoPbp", "attributes"}

LEMMA NotTaken == TypeOK /\ Located /\ NeverTakenForPlain /\ LoadStep => NeverTakenForPlain'
<1> SUFFICES ASSUME TypeOK, Located, NeverTakenForPlain, LoadStep PROVE NeverTakenForPlain'
  OBVIOUS
<1> USE DEF NeverTakenForPlain, EncryptedUntouched, Plain
<1>1. CASE CheckExecFile
  <2>1. step' # "none" /\ step' \in {"tell", "refused"} /\ UNCHANGED <<program, buf>>
    BY <1>1 DEF CheckExecFile
  <2>2. ASSUME ~Plain PROVE overruled' = {}
    <3>1. PICK c \in FirmwareChecks(check), res \in {"ok", "refused"} :
            /\ check' = c /\ verdict' = res
            /\ overruled' = Changed(c, check')
                              \cup (IF verdict' = res THEN {} ELSE {"verdict"})
      BY <1>1, <2>2 DEF CheckExecFile, PatchExec3
    <3> QED
      BY <3>1 DEF Changed
  <2> QED
    BY <2>1, <2>2
<1>2. CASE PartitionTells \/ PartitionRewinds \/ PartitionSeeksProgram \/ PartitionRestores
  BY <1>2 DEF PartitionTells, PartitionRewinds, PartitionSeeksProgram, PartitionRestores
<1>3. CASE PartitionReadsHeader
  <2>1. \A place : HeadAt(place) \in {"pbp", "junk", program.kind}
    BY DEF HeadAt
  <2>2. program.kind \in {"prx", "static", "psp"}
    BY ProgramType DEF TypeOK, Programs
  <2>3. /\ step = "header" /\ step' \in {"program", "modinfoElf", "restore"}
        /\ UNCHANGED <<program, overruled>>
    BY <1>3, <2>1, <2>2 DEF PartitionReadsHeader, Onward
  <2>4. ASSUME ~Plain PROVE buf'.head \notin {"prx", "static"} /\ step' # "modinfoElf"
    BY <1>3, <2>1, <2>2, <2>4 DEF PartitionReadsHeader, Onward
  <2> QED
    BY <2>3, <2>4
<1>4. CASE PartitionReadsProgram
  <2>1. \A place : HeadAt(place) \in {"pbp", "junk", program.kind}
    BY DEF HeadAt
  <2>2. program.kind \in {"prx", "static", "psp"} /\ buf \in [head : Heads, words : {"pbp", "other"}]
    BY ProgramType DEF TypeOK, CheckTypeOK, Programs
  <2> QED
    BY <1>4, <2>1, <2>2 DEF PartitionReadsProgram
<1>5. CASE PartitionSeeksModinfo \/ PartitionMarks
  BY <1>5 DEF PartitionSeeksModinfo, PartitionMarks
<1>6. CASE FirmwarePartitions
  BY <1>6 DEF FirmwarePartitions
<1>10. CASE ProbeExec
  <2>1. /\ step = "probe" /\ step' = "probed" /\ UNCHANGED <<program, buf>>
        /\ overruled' = overruled \cup Changed(check, check')
    BY <1>10 DEF ProbeExec
  <2>2. ASSUME ~Plain
        PROVE  overruled' \subseteq {"attribute", "isDecrypted", "apiType", "elfType"}
    <3>1. CASE check' = check
      BY <2>1, <2>2, <3>1 DEF Changed
    <3>2. CASE \E inner \in {"prx", "static"}, go \in BOOLEAN : check' = Probed(inner, go)
      <4>1. check \in Records /\ check.modInfoOffset = "right"
        BY <2>1, <2>2 DEF TypeOK, CheckTypeOK, Located, Records
      <4>2. /\ check'.execSize = check.execSize /\ check'.isKernelMod = check.isKernelMod
            /\ check'.modInfoOffset = check.modInfoOffset
        BY <3>2, <4>1, ProbedRecord DEF TypeOK
      <4>3. DOMAIN NoRecord = {"apiType", "execSize", "elfType", "isKernelMod",
                               "isDecrypted", "modInfoOffset", "attribute"}
        BY DEF NoRecord
      <4>4. Changed(check, check')
              \subseteq {"attribute", "isDecrypted", "apiType", "elfType"}
        BY <4>2, <4>3 DEF Changed
      <4> QED
        BY <2>1, <2>2, <4>4
    <3> QED
      BY <1>10, <3>1, <3>2, ProbeEither DEF TypeOK
  <2> QED
    BY <2>1, <2>2
<1>7. CASE \E f \in Files : FirmwareOpens(f)
  BY <1>7 DEF FirmwareOpens
<1>8. CASE Idle("none")
  BY <1>8 DEF Idle, NoProgram
<1>9. CASE UNCHANGED checkVars
  BY <1>9 DEF checkVars
<1> QED
  BY <1>1, <1>2, <1>3, <1>4, <1>5, <1>6, <1>7, <1>8, <1>9, <1>10
  DEF LoadStep, CheckNext, PartitionCheck

\* What the firmware says and notes of an encrypted program stands, whichever calls of
\* HEN's hooks fail, until it is decrypted in memory; its verdict, the partition, the
\* size and the place of the module info stand then as well.
THEOREM Encrypted == Spec => []EncryptedUntouched
<1>1. Init => NeverTakenForPlain
  BY DEF Init, CheckInit, NeverTakenForPlain, EncryptedUntouched
<1>2. TypeOK /\ Located /\ NeverTakenForPlain /\ [Next]_vars => NeverTakenForPlain'
  BY LoadSteps, NotTaken
<1>3. NeverTakenForPlain => EncryptedUntouched
  BY DEF NeverTakenForPlain
<1> QED
  BY <1>1, <1>2, <1>3, Typing, AlwaysLocated, PTL DEF Spec

\* The attributes in the record are the program's, wherever its load is, or the magic's
\* where the module info was looked for at offset 0.
Unprivileged ==
  check.attribute \in {program.attr, "user"}
                        \cup (IF check.modInfoOffset = "zero" THEN {"magic"} ELSE {})

LEMMA UnprivilegedStays == TypeOK /\ Unprivileged /\ LoadStep => Unprivileged'
<1> SUFFICES ASSUME TypeOK, Unprivileged, LoadStep PROVE Unprivileged'
  OBVIOUS
<1>0. check \in Records /\ CheckTypeOK
  BY DEF TypeOK, CheckTypeOK
<1>1. CASE CheckExecFile
  <2>1. program' = program
    BY <1>1 DEF CheckExecFile
  <2> QED
    BY <1>1, <2>1, CheckExecRecords DEF Unprivileged, AttributeAt
<1>2. CASE PartitionCheck
  BY <1>2, PartitionRecords DEF Unprivileged
<1>3. CASE ProbeExec
  <2>1. program' = program
    BY <1>3 DEF ProbeExec
  <2>2. CASE check' = check
    BY <2>1, <2>2 DEF Unprivileged
  <2>3. CASE \E inner \in {"prx", "static"}, go \in BOOLEAN : check' = Probed(inner, go)
    <3>1. PICK inner \in {"prx", "static"}, go \in BOOLEAN : check' = Probed(inner, go)
      BY <2>3
    <3>2. \/ check'.attribute = "user"
          \/ /\ check'.attribute \in {check.attribute, AttributeAt(check.modInfoOffset)}
             /\ check'.modInfoOffset = check.modInfoOffset
      BY <1>0, <3>1, ProbedRecord
    <3> QED
      BY <1>0, <2>1, <3>2 DEF Unprivileged, AttributeAt, Records
  <2> QED
    BY <1>0, <1>3, <2>2, <2>3, ProbeEither
<1>4. CASE \E f \in Files : FirmwareOpens(f)
  <2>1. PICK api \in ApiTypes, size \in {"zero", "file"}, kernel \in BOOLEAN,
             offset \in {"zero", "right"} :
          check' = [NoRecord EXCEPT !.apiType = api, !.execSize = size,
                                    !.isKernelMod = kernel, !.modInfoOffset = offset]
    BY <1>4 DEF FirmwareOpens
  <2>2. check'.attribute = "user"
    BY <2>1 DEF NoRecord
  <2> QED
    BY <2>2 DEF Unprivileged
<1>5. CASE Idle("none")
  BY <1>5 DEF Idle, NoRecord, Unprivileged
<1>6. CASE UNCHANGED checkVars
  BY <1>6 DEF checkVars, Unprivileged
<1> QED
  BY <1>1, <1>2, <1>3, <1>4, <1>5, <1>6 DEF LoadStep, CheckNext

\* By any way through the hooks on the three checks, only a static program whose sections
\* have no names, and of which the firmware does not know where the module info is, can
\* get the privileges that the head of its ELF happens to spell.
THEOREM Privileges == Spec => []PrivilegesOfModinfo
<1>1. Init => Unprivileged
  BY DEF Init, CheckInit, NoRecord, Unprivileged
<1>2. TypeOK /\ Unprivileged /\ [Next]_vars => Unprivileged'
  BY LoadSteps, UnprivilegedStays
<1>3. Unprivileged /\ Located => PrivilegesOfModinfo
  BY DEF Unprivileged, Located, PrivilegesOfModinfo
<1> QED
  BY <1>1, <1>2, <1>3, Typing, AlwaysLocated, PTL DEF Spec

\* PartitionCheckPatched knows at each step what it has before it, if the calls that have
\* to show it did not fail.
Seeing  == {"rewind", "header", "program", "programHeader"}
Marking == {"modinfoPbp", "modinfoElf", "attributes"}
MarkedRight ==
  /\ program.kind = "static" => ~check.isKernelMod
  /\ (program.kind = "prx" /\ faults \cap Marking = {}) =>
       check.isKernelMod = (program.attr = "kernel")
SizedRight  == (program.pbp /\ program.kind = "prx") => check.execSize = "program"
LooksAtProgram ==
  (faults \cap Seeing = {} /\ Plain /\ ~program.short) =>
    /\ step = "header" => position = "start"
    /\ step \in {"program", "programHeader", "modinfoPbp"} => program.pbp /\ buf.words = "pbp"
    /\ step = "programHeader" => position = "program"
    /\ step = "modinfoElf" => ~program.pbp
    /\ step \in {"modinfoElf", "modinfoPbp", "attributes"} => buf.head = program.kind
    /\ step = "attributes" => (faults \cap Marking = {} => position = "modinfo") /\ SizedRight
    /\ step \in {"restore", "partition"} => MarkedRight /\ SizedRight

LEMMA LooksOn == TypeOK /\ Located /\ LooksAtProgram /\ LoadStep => LooksAtProgram'
<1> SUFFICES ASSUME TypeOK, Located, LooksAtProgram, LoadStep,
                    faults' \cap Seeing = {}, Plain', ~program'.short
             PROVE  /\ step' = "header" => position' = "start"
                    /\ step' \in {"program", "programHeader", "modinfoPbp"}
                          => program'.pbp /\ buf'.words = "pbp"
                    /\ step' = "programHeader" => position' = "program"
                    /\ step' = "modinfoElf" => ~program'.pbp
                    /\ step' \in {"modinfoElf", "modinfoPbp", "attributes"}
                          => buf'.head = program'.kind
                    /\ step' = "attributes"
                          => (faults' \cap Marking = {} => position' = "modinfo") /\ SizedRight'
                    /\ step' \in {"restore", "partition"} => MarkedRight' /\ SizedRight'
  BY DEF LooksAtProgram
<1>0. /\ check \in Records /\ program.kind \in {"prx", "static", "psp"}
      /\ buf \in [head : Heads, words : {"pbp", "other"}]
  BY ProgramType DEF TypeOK, CheckTypeOK, Programs
<1>1. CASE CheckExecFile
  BY <1>1 DEF CheckExecFile
<1>2. CASE PartitionTells
  BY <1>2 DEF PartitionTells
<1>3. CASE PartitionRewinds
  BY <1>3 DEF PartitionRewinds, SeekTo, Seeing
<1>4. CASE PartitionReadsHeader
  <2>1. /\ step = "header" /\ faults \cap Seeing = {} /\ program' = program /\ check' = check
        /\ Plain /\ ~program.short
        /\ buf' = [head |-> HeadAt(position),
                   words |-> IF HeadAt(position) = "pbp" THEN "pbp" ELSE "other"]
        /\ step' = Onward[buf'.head]
    BY <1>4 DEF PartitionReadsHeader, Reads, ReadFails, Seeing, Plain
  <2>2. HeadAt(position) = IF program.pbp THEN "pbp" ELSE program.kind
    BY <2>1 DEF LooksAtProgram, HeadAt
  <2>3. CASE program.pbp
    BY <2>1, <2>2, <2>3 DEF LooksAtProgram, Onward
  <2>4. CASE ~program.pbp
    <3>1. buf'.head = program.kind /\ program.kind \in {"prx", "static"}
      BY <1>0, <2>1, <2>2, <2>4 DEF Plain
    <3>2. step' = "modinfoElf"
      BY <2>1, <3>1 DEF Onward
    <3> QED
      BY <2>1, <2>4, <3>1, <3>2 DEF LooksAtProgram
  <2> QED
    BY <2>3, <2>4
<1>5. CASE PartitionSeeksProgram
  BY <1>5 DEF PartitionSeeksProgram, SeekTo, Seeing, LooksAtProgram, Plain
<1>6. CASE PartitionReadsProgram
  <2>1. /\ step = "programHeader" /\ faults \cap Seeing = {} /\ program' = program
        /\ check' = check /\ Plain /\ ~program.short /\ buf' = [buf EXCEPT !.head = HeadAt(position)]
    BY <1>6 DEF PartitionReadsProgram, Reads, ReadFails, Seeing, Plain
  <2>2. HeadAt(position) = program.kind /\ program.kind \in {"prx", "static"}
    BY <1>0, <2>1 DEF LooksAtProgram, HeadAt, Plain
  <2>3. buf'.head = program.kind /\ buf'.words = buf.words
    BY <1>0, <2>1, <2>2
  <2>4. step' = "modinfoPbp"
    BY <1>6, <2>2, <2>3 DEF PartitionReadsProgram
  <2> QED
    BY <2>1, <2>3, <2>4 DEF LooksAtProgram
<1>7. CASE PartitionSeeksModinfo
  <2>1. /\ step' = "attributes" /\ program' = program /\ buf' = buf /\ Plain
        /\ step \in {"modinfoElf", "modinfoPbp"} /\ faults \cap Seeing = {} /\ ~program.short
    BY <1>7 DEF PartitionSeeksModinfo, SeekTo, Plain
  <2>2. step = "modinfoPbp" => buf.words = "pbp"
    BY <2>1 DEF LooksAtProgram
  <2>3. faults' \cap Marking = {} => position' = "modinfo"
    BY <1>7, <2>1, <2>2 DEF PartitionSeeksModinfo, SeekTo, Marking
  <2>4. SizedRight'
    <3>1. CASE program.pbp /\ program.kind = "prx"
      <4>1. step = "modinfoPbp" /\ buf.words = "pbp" /\ buf.head = "prx"
        BY <2>1, <3>1 DEF LooksAtProgram
      <4>2. check' = [check EXCEPT !.execSize = "program"]
        BY <1>7, <4>1 DEF PartitionSeeksModinfo, SizeOfProgram
      <4> QED
        BY <1>0, <4>2 DEF SizedRight, Records
    <3>2. CASE ~(program.pbp /\ program.kind = "prx")
      BY <2>1, <3>2 DEF SizedRight
    <3> QED
      BY <3>1, <3>2
  <2> QED
    BY <2>1, <2>3, <2>4 DEF LooksAtProgram
<1>8. CASE PartitionMarks
  <2>1. PICK attr \in Attributes \cup {"magic"} :
          /\ Reads => (position = "modinfo" => attr = AttributeAt(check.modInfoOffset))
          /\ Reads \/ ReadFails
          /\ check' = [check EXCEPT !.isKernelMod = (buf.head # "static" /\ attr = "kernel")]
    BY <1>8, Zenon DEF PartitionMarks, Reads, ReadFails
  <2>2. /\ step' = "restore" /\ step = "attributes" /\ program' = program
        /\ Plain /\ faults \cap Seeing = {} /\ ~program.short
        /\ faults' \cap Marking = {} => Reads /\ faults \cap Marking = {}
    BY <1>8 DEF PartitionMarks, Reads, ReadFails, Plain, Marking
  <2>3. /\ faults \cap Marking = {} => position = "modinfo"
        /\ buf.head = program.kind /\ SizedRight
    BY <2>2 DEF LooksAtProgram
  <2>4. PICK b \in BOOLEAN : b = (buf.head # "static" /\ attr = "kernel")
    OBVIOUS
  <2>5. /\ [check EXCEPT !.isKernelMod = b].isKernelMod = b
        /\ [check EXCEPT !.isKernelMod = b].execSize = check.execSize
    BY <1>0 DEF Records
  <2>6. check' = [check EXCEPT !.isKernelMod = b]
    BY <2>1, <2>4
  <2>7. (program.kind = "prx" /\ faults' \cap Marking = {}) => attr = program.attr
    <3>1. program.kind = "prx" => check.modInfoOffset = "right"
      BY <1>0, <2>2 DEF Located, Records
    <3> QED
      BY <2>1, <2>2, <2>3, <3>1 DEF AttributeAt
  <2>8. MarkedRight'
    <3>1. program.kind = "static" => ~check'.isKernelMod
      BY <2>3, <2>4, <2>5, <2>6
    <3>2. (program.kind = "prx" /\ faults' \cap Marking = {}) =>
            check'.isKernelMod = (program.attr = "kernel")
      BY <2>3, <2>4, <2>5, <2>6, <2>7
    <3> QED
      BY <2>2, <3>1, <3>2 DEF MarkedRight
  <2>9. SizedRight'
    BY <2>2, <2>3, <2>5, <2>6 DEF SizedRight
  <2> QED
    BY <2>2, <2>8, <2>9
<1>9. CASE PartitionRestores
  BY <1>9 DEF PartitionRestores, SeekTo, LooksAtProgram, MarkedRight, SizedRight, Marking, Plain
<1>10. CASE FirmwarePartitions
  BY <1>10 DEF FirmwarePartitions, LooksAtProgram, Plain
<1>11. CASE ProbeExec
  BY <1>11 DEF ProbeExec
<1>12. CASE \E f \in Files : FirmwareOpens(f)
  BY <1>12 DEF FirmwareOpens
<1>13. CASE Idle("none")
  BY <1>13 DEF Idle, NoProgram, Plain
<1>14. CASE UNCHANGED checkVars
  BY <1>14 DEF checkVars, LooksAtProgram, MarkedRight, SizedRight, Plain
<1> QED
  BY <1>1, <1>2, <1>3, <1>4, <1>5, <1>6, <1>7, <1>8, <1>9, <1>10, <1>11, <1>12, <1>13,
     <1>14
  DEF LoadStep, CheckNext, PartitionCheck

\* When the firmware looks for memory for a plain program, by any kind of call, it is
\* marked for the kernel's exactly if its attributes say so, if it can be relocated, and
\* never if it is static.
THEOREM Marked == Spec => []LoadedWhereMarked
<1>1. Init => LooksAtProgram
  BY DEF Init, CheckInit, NoProgram, LooksAtProgram, Plain
<1>2. TypeOK /\ Located /\ LooksAtProgram /\ [Next]_vars => LooksAtProgram'
  BY LoadSteps, LooksOn
<1>3. LooksAtProgram => LoadedWhereMarked
  BY DEF LooksAtProgram, LoadedWhereMarked, MarkedRight, SizedRight, Seeing, Marking
<1> QED
  BY <1>1, <1>2, <1>3, Typing, AlwaysLocated, PTL DEF Spec

-------------------------------------------------------------------------------
(* The clock in a game *)

Booting == {"dnas", "register", "wait", "impose"}
GameSet ==
  /\ where \in {"plugin", "program", "load", "link", "start", "run"} =>
       gamecpuspeed = saved.game
  /\ where \in Booting => ~set_cpuspeed
  /\ (keyconfig = "GAME" /\ set_cpuspeed /\ gamecpuspeed # 0) =>
       clock = gamecpuspeed /\ dummied
  /\ where = "run" => set_cpuspeed

LEMMA GameStays == TypeOK /\ GameSet /\ [Next]_vars => GameSet'
<1> SUFFICES ASSUME OwnTypeOK, GameSet, [Next]_vars PROVE GameSet'
  BY DEF TypeOK, OwnTypeOK
<1> USE DEF GameSet, Booting, gameVars, clockVars
<1>1. CASE StickWait \/ DriverMounts \/ StickMoves
  <2>1. CASE AsksForStick
    BY <2>1 DEF AsksForStick
  <2>2. CASE RegistersCallback
    BY <2>2 DEF RegistersCallback
  <2>3. CASE WaitEnds
    BY <2>3 DEF WaitEnds
  <2>4. CASE DriverMounts
    BY <2>4 DEF DriverMounts
  <2>5. CASE StickMoves
    <3>1. UNCHANGED <<clockVars, keyconfig, where, saved, gameVars>>
      BY <2>5 DEF StickMoves
    <3> QED
      BY <3>1
  <2> QED
    BY <1>1, <2>1, <2>2, <2>3, <2>4, <2>5 DEF StickWait
<1>2. CASE ImposeLoads
  BY <1>2 DEF ImposeLoads
<1>3. CASE NoPlugin \/ Checks \/ Refused
  BY <1>3 DEF NoPlugin, Checks, Refused
<1>4. CASE \E as \in {"plugin", "main"} : Opens(as)
  BY <1>4 DEF Opens
<1>5. CASE Loaded \/ Links \/ StartFails
  BY <1>5 DEF Loaded, Links, StartFails
<1>6. CASE Starts
  <2>1. /\ gamecpuspeed' = gamecpuspeed /\ keyconfig' = keyconfig /\ saved' = saved
        /\ where' \in {"run", "program"} /\ gamecpuspeed = saved.game
        /\ where' = "run" => status'
    BY <1>6 DEF Starts, OwnTypeOK
  <2>2. CASE ~set_cpuspeed /\ status'
    <3>1. gamecpuspeed \in Accepted \cup {0}
      BY KernelConstants DEF OwnTypeOK
    <3>2. set_cpuspeed'
      BY <1>6, <2>2 DEF Starts, SetsGameSpeed
    <3>3. ASSUME keyconfig = "GAME", gamecpuspeed # 0
          PROVE  clock' = gamecpuspeed /\ dummied'
      BY <1>6, <2>2, <3>1, <3>3 DEF Starts, SetsGameSpeed, ClockAt
    <3> QED
      BY <2>1, <3>2, <3>3
  <2>3. CASE ~(~set_cpuspeed /\ status')
    <3>1. UNCHANGED <<clock, dummied, set_cpuspeed>>
      BY <1>6, <2>3 DEF Starts, SetsGameSpeed
    <3> QED
      BY <2>1, <2>3, <3>1
  <2> QED
    BY <2>2, <2>3
<1>7. CASE ProgramSetsClock
  BY <1>7 DEF ProgramSetsClock
<1>8. CASE XmbPolls \/ XmbStores \/ XmbPushes \/ XmbResets \/ TimePasses
  BY <1>8 DEF XmbPolls, XmbStores, XmbPushes, XmbResets, TimePasses, InXmb
<1>9. CASE UNCHANGED vars
  BY <1>9 DEF vars
<1> QED
  BY <1>1, <1>2, <1>3, <1>4, <1>5, <1>6, <1>7, <1>8, <1>9 DEF Next, Modules, Clocks

\* In a game the clock stays what the settings say, whatever the game and its plugins
\* try and whenever the system comes up.
THEOREM GameSpeedKept == Spec => []GameKeepsItsSpeed
<1>1. Init => GameSet
  BY DEF Init, GameSet, Booting
<1>2. GameSet => GameKeepsItsSpeed
  BY DEF GameSet, GameKeepsItsSpeed
<1> QED
  BY <1>1, <1>2, GameStays, Typing, PTL DEF Spec

-------------------------------------------------------------------------------
(* The clock in the XMB *)

\* What a step of the kernel does to the clock there.
XmbStep ==
  \/ /\ where = "run" /\ keyconfig = "VSH" /\ where' = where /\ keyconfig' = keyconfig
     /\ \/ ClockPolls \/ PushStores \/ PushCompares \/ PushCalls \/ PushStamps
        \/ FirmwareResets \/ Tick
  \/ /\ where # "run" /\ keyconfig' = keyconfig
     /\ keyconfig = "VSH" => clock' = clock
     /\ UNCHANGED <<set, poll, args, push, prev, overtaken>>
  \/ /\ keyconfig = "GAME" /\ keyconfig' = keyconfig
     /\ UNCHANGED <<set, poll, args, push, prev, overtaken>>
  \/ UNCHANGED <<where, keyconfig, clockVars>>

LEMMA XmbSteps == TypeOK /\ [Next]_vars => XmbStep
<1> SUFFICES ASSUME OwnTypeOK, [Next]_vars PROVE XmbStep
  BY DEF TypeOK, OwnTypeOK
<1> USE DEF XmbStep, clockVars, timeVars, pollVars, pushVars
<1>1. CASE StickWait \/ StickMoves
  BY <1>1 DEF StickWait, AsksForStick, RegistersCallback, WaitEnds, StickMoves
<1>2. CASE ImposeLoads
  BY <1>2 DEF ImposeLoads
<1>3. CASE NoPlugin \/ Checks \/ Refused
  BY <1>3 DEF NoPlugin, Checks, Refused
<1>4. CASE \E as \in {"plugin", "main"} : Opens(as)
  BY <1>4 DEF Opens
<1>5. CASE Loaded \/ Links \/ StartFails
  BY <1>5 DEF Loaded, Links, StartFails
<1>6. CASE Starts
  <2>1. keyconfig = "VSH" => clock' = clock
    BY <1>6 DEF Starts, SetsGameSpeed
  <2> QED
    BY <1>6, <2>1 DEF Starts
<1>7. CASE ProgramSetsClock
  BY <1>7 DEF ProgramSetsClock
<1>8. CASE XmbPolls \/ XmbStores \/ XmbPushes \/ XmbResets \/ TimePasses
  BY <1>8 DEF XmbPolls, XmbStores, XmbPushes, XmbResets, TimePasses, InXmb
<1>9. CASE DriverMounts \/ UNCHANGED vars
  BY <1>9 DEF DriverMounts, vars
<1> QED
  BY <1>1, <1>2, <1>3, <1>4, <1>5, <1>6, <1>7, <1>8, <1>9 DEF Next, Modules, Clocks

\* Where each of the two threads can be, and what it then knows of the clock.
FirstChange ==
  /\ keyconfig = "GAME" => ~set
  /\ where # "run" => ~set
  /\ (poll \in {"call", "stamp"} \/ push \in {"call", "stamp"}) => set
  /\ (keyconfig = "VSH" /\ ~set) => clock = 222 /\ ~overtaken
PollKnows == (set /\ overtaken /\ poll \in {"first", "call"}) => clock = 222
Followed ==
  (set /\ ~overtaken) =>
    \/ clock \in {222, Wanted(vshcpuspeed)}
    \/ push = "call"
    \/ push = "compare" /\ clock = Wanted(prev)

LEMMA FollowsOn ==
  TypeOK /\ FirstChange /\ PollKnows /\ Followed /\ [Next]_vars
    => FirstChange' /\ PollKnows' /\ Followed'
<1> SUFFICES ASSUME TypeOK, FirstChange, PollKnows, Followed, XmbStep
             PROVE  FirstChange' /\ PollKnows' /\ Followed'
  BY XmbSteps
<1> USE DEF FirstChange, PollKnows, Followed, pollVars, pushVars
<1>0. /\ vshcpuspeed \in Accepted \cup {0} /\ clock \in Accepted /\ NoSpeed \notin Accepted \cup {0}
      /\ Wanted(vshcpuspeed) \in Accepted /\ 0 \notin Accepted
  BY ClockConstants DEF TypeOK, ClockTypeOK, Wanted, Accepted, NoSpeed
<1>1. ASSUME where = "run", keyconfig = "VSH", where' = where, keyconfig' = keyconfig,
             \/ ClockPolls \/ PushStores \/ PushCompares \/ PushCalls \/ PushStamps
             \/ FirmwareResets \/ Tick
      PROVE  FirstChange' /\ PollKnows' /\ Followed'
  <2>1. CASE PollDecides
    <3>1. poll' \in {"first", "call"} => clock = 222
      BY <1>1, <2>1 DEF PollDecides, MustSetFirst, MustSetAgain
    <3>2. poll' # "stamp" /\ (poll' = "call" => set)
      BY <2>1 DEF PollDecides, MustSetAgain
    <3>3. /\ UNCHANGED <<vshcpuspeed, clock, set, push, prev, overtaken>>
          /\ Wanted(vshcpuspeed)' = Wanted(vshcpuspeed)
      BY <2>1 DEF PollDecides, Wanted
    <3> QED
      BY <1>1, <3>1, <3>2, <3>3
  <2>2. CASE PollSets
    BY <1>1, <2>2 DEF PollSets, Wanted
  <2>3. CASE PollLoads
    BY <1>1, <2>3 DEF PollLoads, Wanted
  <2>4. CASE PollCalls
    <3>1. /\ poll = "call" /\ set /\ clock' = ClockAt(args) /\ overtaken' = (args # vshcpuspeed)
          /\ poll' = "stamp" /\ UNCHANGED <<vshcpuspeed, set, push, prev>>
      BY <2>4 DEF PollCalls
    <3>2. ASSUME ~overtaken' PROVE Followed'
      <4>1. args = vshcpuspeed
        BY <3>1, <3>2
      <4>2. CASE vshcpuspeed = 0
        <5>1. clock' = clock
          BY <1>0, <3>1, <4>1, <4>2 DEF ClockAt
        <5>2. CASE overtaken
          BY <3>1, <5>1, <5>2
        <5>3. CASE ~overtaken
          BY <3>1, <5>1, <5>3 DEF Wanted
        <5> QED
          BY <5>2, <5>3
      <4>3. CASE vshcpuspeed # 0
        BY <1>0, <3>1, <4>1, <4>3 DEF ClockAt, Wanted
      <4> QED
        BY <4>2, <4>3
    <3> QED
      BY <1>1, <3>1, <3>2
  <2>5. CASE PollStamps
    BY <1>1, <2>5 DEF PollStamps, Wanted
  <2>6. CASE PushStores
    BY <1>1, <2>6 DEF PushStores, Wanted
  <2>7. CASE PushCompares
    BY <1>1, <2>7 DEF PushCompares, Wanted
  <2>8. CASE PushCalls
    BY <1>0, <1>1, <2>8 DEF PushCalls, ClockAt, Wanted
  <2>9. CASE PushStamps
    BY <1>1, <2>9 DEF PushStamps, Wanted
  <2>10. CASE FirmwareResets \/ Tick
    BY <1>1, <2>10 DEF FirmwareResets, Tick, Wanted, timeVars
  <2> QED
    BY <1>1, <2>1, <2>2, <2>3, <2>4, <2>5, <2>6, <2>7, <2>8, <2>9, <2>10 DEF ClockPolls
<1>2. CASE /\ where # "run" /\ keyconfig' = keyconfig
           /\ keyconfig = "VSH" => clock' = clock
           /\ UNCHANGED <<set, poll, args, push, prev, overtaken>>
  BY <1>2
<1>3. CASE /\ keyconfig = "GAME" /\ keyconfig' = keyconfig
           /\ UNCHANGED <<set, poll, args, push, prev, overtaken>>
  BY <1>3
<1>4. CASE UNCHANGED <<where, keyconfig, clockVars>>
  BY <1>4 DEF clockVars, timeVars, Wanted
<1> QED
  BY <1>1, <1>2, <1>3, <1>4 DEF XmbStep

\* The clock of the XMB follows the settings for any speeds and any number of changes
\* and resets, in every order of the steps of the two threads that set it.
THEOREM Follows == Spec => []ClockFollows
<1> DEFINE I == FirstChange /\ PollKnows /\ Followed
<1>1. Init => I
  BY DEF Init, ClockInit, FirstChange, PollKnows, Followed
<1>2. TypeOK /\ I /\ [Next]_vars => I'
  BY FollowsOn
<1>3. I => ClockFollows
  BY DEF Followed, ClockFollows
<1> QED
  BY <1>1, <1>2, <1>3, Typing, PTL DEF Spec
-------------------------------------------------------------------------------
(* Links *)

\* Numbers, if there are any, have a least one: of the intervals from 0 to each, which
\* are finite sets, one is minimal.
LEMMA LeastIn ==
  ASSUME NEW T \in SUBSET Nat, T # {}
  PROVE  Min(T) \in T /\ \A y \in T : Min(T) <= y
<1> DEFINE Upto == {0..k : k \in T}
           R == StrictSubsetOrdering(Nat)
           F == FiniteSubsetsOf(Nat)
<1>1. IsWellFoundedOn(R, F)
  BY FS_StrictSubsetOrderingWellFounded
<1>2. Upto \subseteq F /\ Upto # {}
  <2>1. ASSUME NEW k \in T PROVE 0..k \in F
    BY FS_Interval DEF FiniteSubsetsOf
  <2> QED
    BY <2>1
<1>3. \E u \in Upto : \A v \in Upto : <<v, u>> \notin R
  <2> HIDE DEF R, F, Upto
  <2> QED
    BY <1>1, <1>2, WFMin
<1>4. PICK x \in T : \A y \in T : <<0..y, 0..x>> \notin R
  BY <1>3
<1>5. ASSUME NEW y \in T PROVE x <= y
  <2>1. SUFFICES ASSUME y < x PROVE FALSE
    OBVIOUS
  <2>2. x \in 0..x /\ x \notin 0..y
    BY <2>1
  <2>3. 0..y \subseteq 0..x /\ 0..y # 0..x
    BY <2>1, <2>2
  <2>4. 0..y \in SUBSET Nat /\ 0..x \in SUBSET Nat
    OBVIOUS
  <2>5. <<0..y, 0..x>> \in R
    BY <2>3, <2>4 DEF StrictSubsetOrdering
  <2> QED
    BY <1>4, <2>5
<1> QED
  BY <1>5 DEF Min

\* The walk over the tables finds today's NID, whichever it is.
LEMMA NewNidIsTodays ==
  ASSUME NEW libname, NEW nid, NEW today \in NidsNow(libname, nid)
  PROVE  GetNewNID(libname, nid) = today
<1> DEFINE tables == {t \in DOMAIN nid_table : nid_table[t].libname = libname}
<1>1. CASE tables = {}
  <2>1. GetLibraryByName(libname) = <<>> /\ KnownPairs(libname) = {}
    BY <1>1 DEF GetLibraryByName, KnownPairs
  <2>2. today = nid
    BY <2>1 DEF NidsNow
  <2> QED
    BY <2>1, <2>2 DEF GetNewNID
<1>2. CASE tables # {}
  <2>1. PICK t \in tables : TRUE
    BY <1>2
  <2>2. tables = {t} /\ tables \in SUBSET Nat
    BY <2>1, NidConstants
  <2>3. Min(tables) = t
    BY <2>2, LeastIn
  <2> DEFINE pairs == nid_table[t].nid
             hits == {i \in DOMAIN pairs : pairs[i][1] = nid}
  <2>4. GetLibraryByName(libname) = pairs
    BY <1>2, <2>3 DEF GetLibraryByName
  <2>5. KnownPairs(libname) = {pairs[p] : p \in DOMAIN pairs}
    BY <2>2 DEF KnownPairs
  <2>6. /\ DOMAIN pairs \subseteq Nat
        /\ \A i, j \in DOMAIN pairs : pairs[i][1] = pairs[j][1] => i = j
    BY <2>1, NidConstants DEF TableIsFlat
  <2> HIDE DEF tables, pairs
  <2>7. CASE hits = {}
    <3>1. today = nid
      BY <2>5, <2>7 DEF NidsNow
    <3> QED
      BY <2>4, <2>7, <3>1 DEF GetNewNID
  <2>8. CASE hits # {}
    <3>1. PICK i \in hits : TRUE
      BY <2>8
    <3>2. hits = {i} /\ hits \in SUBSET Nat
      BY <2>6, <3>1
    <3>3. Min(hits) = i
      BY <3>2, LeastIn
    <3>4. {p \in KnownPairs(libname) : p[1] = nid} = {pairs[i]}
      BY <2>5, <3>1, <3>2
    <3>5. today = pairs[i][2]
      BY <3>4 DEF NidsNow
    <3> QED
      BY <2>4, <2>8, <3>3, <3>5 DEF GetNewNID
  <2> QED
    BY <2>7, <2>8
<1> QED
  BY <1>1, <1>2

\* The library scePower has the function that sets the clock.
LEMMA PowerFound ==
  FindFunction(Exports["scePower_Service"], "scePower", SetClock) = <<"scePower", SetClock>>
<1> DEFINE entries == Exports["scePower_Service"]
           at == {e \in DOMAIN entries : EntryHas(entries[e], "scePower", SetClock)}
<1>1. GetNewNID("scePower", SetClock) = SetClock
  BY NewNidIsTodays, PowerConstants
<1>2. at # {}
  BY PowerConstants DEF EntryHas
<1>3. \A e \in at : entries[e].libname = "scePower"
  BY PowerConstants DEF EntryHas
<1>4. at \in SUBSET Nat
  BY PowerConstants, NidConstants
<1> HIDE DEF entries
<1>5. Min(at) \in at
  BY <1>2, <1>4, LeastIn
<1>6. FindFunction(entries, "scePower", SetClock) = <<entries[Min(at)].libname, SetClock>>
  BY <1>1, <1>2 DEF FindFunction
<1> QED
  BY <1>3, <1>5, <1>6 DEF entries

\* Sony's are the modules that say so in the variables of their nameless entry.
LEMMA SonySaysSo ==
  ASSUME NEW c, NEW by \in ImportersOf(c)
  PROVE  (by.user \/ IsSony(by)) <=> (by.user \/ by.sdk620)
<1> DEFINE entry == [libname |-> NoName, funcs |-> {}, vars |-> {SdkVersion}]
<1>1. by \in {[NoImporter EXCEPT !.user = TRUE], NoImporter,
             [NoImporter EXCEPT !.sdk620 = TRUE, !.entries = <<entry>>],
             [NoImporter EXCEPT !.entries = <<entry>>]}
  BY Zenon DEF ImportersOf
<1> HIDE DEF entry
<1>4. by.user = TRUE \/ by.sdk620 = FALSE \/ (by.sdk620 = TRUE /\ by.entries = <<entry>>)
  <2>1. CASE by = [NoImporter EXCEPT !.user = TRUE]
    BY <2>1 DEF NoImporter
  <2>2. CASE by \in {NoImporter, [NoImporter EXCEPT !.entries = <<entry>>]}
    BY <2>2 DEF NoImporter
  <2>3. CASE by = [NoImporter EXCEPT !.sdk620 = TRUE, !.entries = <<entry>>]
    BY <2>3 DEF NoImporter
  <2> QED
    BY <1>1, <2>1, <2>2, <2>3
<1>2. CASE by.user = TRUE \/ by.sdk620 = FALSE
  BY <1>2 DEF IsSony
<1>3. CASE by.user # TRUE /\ by.sdk620 # FALSE
  <2>1. by.entries = <<entry>>
    BY <1>3, <1>4
  <2>2. GetNewNID(NoName, SdkVersion) = SdkVersion
    <3>1. KnownPairs(NoName) = {}
      BY NidConstants DEF KnownPairs
    <3>2. SdkVersion \in NidsNow(NoName, SdkVersion)
      BY <3>1 DEF NidsNow
    <3> QED
      BY <3>2, NewNidIsTodays
  <2>3. EntryHas(entry, NoName, SdkVersion)
    BY DEF EntryHas, entry
  <2>4. 1 \in {i \in DOMAIN by.entries : EntryHas(by.entries[i], NoName, SdkVersion)}
    BY <2>1, <2>3
  <2>5. FindFunction(by.entries, NoName, SdkVersion) # Missing
    <3>1. \E lib : FindFunction(by.entries, NoName, SdkVersion) = <<lib, SdkVersion>>
      BY <2>2, <2>4 DEF FindFunction
    <3> QED
      BY <3>1 DEF Missing
  <2> QED
    BY <1>3, <1>4, <2>5 DEF IsSony
<1> QED
  BY <1>2, <1>3

\* What GetFunctionPatched finds for the imports of any program is what it means.
LEMMA LinkMeant ==
  ASSUME NEW c, NEW by \in ImportersOf(c), NEW i \in Imports
  PROVE  GetFunctionPatched(by, i[1], i[2])
           = IF by.user \/ by.sdk620 THEN GetFunction(i[1], i[2]) ELSE Meant[i]
<1>1. CASE by.user \/ by.sdk620
  BY <1>1, SonySaysSo DEF GetFunctionPatched
<1>2. CASE ~(by.user \/ by.sdk620)
  <2>0. ~(by.user \/ IsSony(by)) /\ i = <<i[1], i[2]>>
    BY <1>2, SonySaysSo, KernelConstants
  <2>1. CASE i \in Substitutes
    BY <1>2, <2>0, <2>1, MeantConstants DEF GetFunctionPatched
  <2>2. CASE i = KernelClock /\ i \notin Substitutes
    <3>1. i[1] = "scePower_driver" /\ i[2] = SetClock
      BY <2>2 DEF KernelClock
    <3>2. <<"scePower", SetClock>> # Missing
      BY DEF Missing
    <3>3. GetFunctionPatched(by, i[1], i[2]) = <<"scePower", SetClock>>
      BY <2>0, <2>2, <3>1, <3>2, PowerFound DEF GetFunctionPatched
    <3> QED
      BY <1>2, <2>2, <3>3, MeantConstants
  <2>3. CASE i # KernelClock /\ i \notin Substitutes
    <3>1. PICK today \in NidsNow(i[1], i[2]) :
            Meant[i] = IF Offered(i[1], today) THEN <<i[1], today>> ELSE Missing
      BY <2>3, MeantConstants
    <3>2. GetNewNID(i[1], i[2]) = today
      BY NewNidIsTodays
    <3>3. GetFunctionPatched(by, i[1], i[2]) = GetFunction(i[1], today)
      BY <2>0, <2>3, <3>2 DEF GetFunctionPatched, KernelClock
    <3> QED
      BY <1>2, <3>1, <3>3 DEF GetFunction, Offered
  <2> QED
    BY <2>1, <2>2, <2>3
<1> QED
  BY <1>1, <1>2

\* Only the step Links leads to a start, and what it linked stays until then.
LEMMA LinksStay == LinksAsMeant /\ [Next]_vars => LinksAsMeant'
<1> SUFFICES ASSUME LinksAsMeant, [Next]_vars, where' = "start" PROVE LinksAsMeant'
  BY DEF LinksAsMeant
<1>1. CASE Links
  <2>1. PICK by \in ImportersOf(check), i \in Imports :
          link' = [by |-> by, libname |-> i[1], nid |-> i[2],
                   got |-> GetFunctionPatched(by, i[1], i[2])]
    BY <1>1 DEF Links
  <2>2. i = <<i[1], i[2]>>
    BY KernelConstants
  <2>3. /\ link'.by = by /\ link'.libname = i[1] /\ link'.nid = i[2]
        /\ link'.got = GetFunctionPatched(by, i[1], i[2])
    BY <2>1
  <2> QED
    BY <2>2, <2>3, LinkMeant DEF LinksAsMeant
<1>2. CASE where = "start" /\ link' = link
  BY <1>2 DEF LinksAsMeant
<1>3. CASE DriverMounts
  BY <1>3 DEF DriverMounts, LinksAsMeant
<1>4. CASE StickWait \/ StickMoves \/ ImposeLoads
  BY <1>4 DEF StickWait, AsksForStick, RegistersCallback, WaitEnds, StickMoves, ImposeLoads
<1>5. CASE NoPlugin \/ Opens("plugin") \/ Opens("main") \/ Checks \/ Refused \/ Loaded
  BY <1>5 DEF NoPlugin, Opens, Checks, Refused, Loaded
<1>6. CASE Starts \/ StartFails
  BY <1>6 DEF Starts, StartFails
<1>7. CASE Clocks
  BY <1>7 DEF Clocks, XmbPolls, XmbStores, XmbPushes, XmbResets, TimePasses, InXmb,
              ProgramSetsClock
<1>8. CASE UNCHANGED vars
  BY <1>8 DEF vars, LinksAsMeant
<1> QED
  BY <1>1, <1>2, <1>3, <1>4, <1>5, <1>6, <1>7, <1>8 DEF Next, Modules

\* Every program gets the functions it means, for any tables of NIDs, any libraries of
\* the firmware and any imports.
THEOREM Linked == Spec => []LinksAsMeant
<1>1. Init => LinksAsMeant
  BY DEF Init, LinksAsMeant
<1> QED
  BY <1>1, LinksStay, PTL DEF Spec
===============================================================================
