------------------------------- MODULE ExecCheck -------------------------------
(* HEN's hooks on the firmware's checks of a file that is loaded as a module     *)
(* (systemctrl/main.c): sceKernelCheckExecFilePatched on its first bytes,        *)
(* PartitionCheckPatched on the open file, and ProbeExec1Patched and             *)
(* ProbeExec2Patched on the program in memory.  They make the firmware load      *)
(* programs that are not encrypted, by changes to the record `check' in which    *)
(* it collects what it knows of the file.                                        *)
EXTENDS Integers, FiniteSets

CONSTANTS
  Files,      \* the files that may be loaded
  ApiTypes,   \* the kinds of call by which a file is loaded
  MaxFaults   \* bound: how many calls of a load fail

\* A file: the program alone or within a PBP, its kind ("psp" is encrypted), the
\* attributes of its module info, whether it has less than 256 bytes and, for a
\* static program, whether its sections have names.
Attributes == {"user", "vsh", "kernel"}
Programs == [pbp : BOOLEAN, kind : {"prx", "static", "psp"}, attr : Attributes,
             short : BOOLEAN, named : BOOLEAN]

ASSUME CheckConstants ==
  /\ Files \subseteq Programs
  /\ ApiTypes \subseteq Nat /\ MaxFaults \in Nat

VARIABLES
  step,      \* how far the load is
  program,   \* the file
  check,     \* the firmware's record of it
  high,      \* the buffer lies in 0x88400000..0x88800000
  position,  \* where the file's handle stands
  pos,       \* PartitionCheckPatched's local: where it stood
  buf,       \* its static buffer: what the head is, and whose words 8 and 9 are
  faults,    \* the calls that failed
  verdict,   \* what the last check returned
  overruled  \* history: what a hook changed of the firmware's record and verdict

checkVars == <<step, program, check, high, position, pos, buf, faults, verdict,
               overruled>>

NoProgram == [pbp |-> FALSE, kind |-> "psp", attr |-> "user", short |-> FALSE,
              named |-> FALSE]
\* "magic": the first two bytes of an ELF taken for attributes (0x457F).
Records == [apiType : ApiTypes \cup {0, 288}, execSize : {"zero", "file", "program", "junk"},
            elfType : {"none", "prx", "static"}, isKernelMod : BOOLEAN,
            isDecrypted : BOOLEAN, modInfoOffset : {"zero", "right"},
            attribute : Attributes \cup {"magic"}]
NoRecord == [apiType |-> 0, execSize |-> "zero", elfType |-> "none",
             isKernelMod |-> FALSE, isDecrypted |-> FALSE, modInfoOffset |-> "zero",
             attribute |-> "user"]

Heads     == {"prx", "static", "psp", "pbp", "junk"}
Positions == {"entry", "start", "program", "modinfo", "else"}
Calls     == {"tell", "rewind", "header", "program", "programHeader", "modinfoPbp",
              "modinfoElf", "attributes", "restore"}
Steps     == {"none", "exec", "partition", "probe", "probed", "refused"} \cup Calls

CheckTypeOK ==
  /\ step \in Steps
  /\ program \in Files \cup {NoProgram}
  /\ check \in Records
  /\ high \in BOOLEAN /\ overruled \subseteq DOMAIN NoRecord \cup {"verdict"}
  /\ position \in Positions /\ pos \in Positions
  /\ buf \in [head : Heads, words : {"pbp", "other"}]
  /\ faults \subseteq Calls
  /\ verdict \in {"ok", "refused"}

\* No load is going on.
Idle(s) ==
  /\ step' = s /\ program' = NoProgram /\ check' = NoRecord /\ high' = FALSE
  /\ position' = "entry" /\ pos' = "entry"
  /\ buf' = [head |-> "junk", words |-> "other"]
  /\ faults' = {} /\ verdict' = "ok" /\ overruled' = {}

CheckInit ==
  /\ step = "none" /\ program = NoProgram /\ check = NoRecord /\ high = FALSE
  /\ position = "entry" /\ pos = "entry"
  /\ buf = [head |-> "junk", words |-> "other"]
  /\ faults = {} /\ verdict = "ok" /\ overruled = {}

Plain == program.kind # "psp"

\* What differs between two records.
Changed(c, d) == {field \in DOMAIN NoRecord : c[field] # d[field]}

\* The attributes found at an offset of the program.
AttributeAt(offset) == IF offset = "zero" THEN "magic" ELSE program.attr
\* attr & 0xFF00, and attr & 0x1E00
Privileged(attr) == attr # "user"

\* The firmware opens a file and fills the record; only for a static program can it
\* not always tell where the module info is.
FirmwareOpens(f) ==
  /\ step = "none"
  /\ program' = f
  /\ \E api \in ApiTypes, size \in {"zero", "file"}, kernel \in BOOLEAN,
        offset \in {"zero", "right"} :
       /\ offset = "zero" => f.kind = "static"
       /\ check' = [NoRecord EXCEPT !.apiType = api, !.execSize = size,
                                    !.isKernelMod = kernel, !.modInfoOffset = offset]
  /\ high' \in BOOLEAN
  /\ step' = "exec"
  /\ UNCHANGED <<position, pos, buf, faults, verdict, overruled>>

-------------------------------------------------------------------------------
(* sceKernelCheckExecFilePatched *)

\* PatchExec2: the attributes go into the record, but not from high memory.
PatchExec2(c) ==
  IF high THEN c ELSE [c EXCEPT !.attribute = AttributeAt(c.modInfoOffset)]
PatchExec2Value(c) == IF high THEN "user" ELSE AttributeAt(c.modInfoOffset)

\* PatchExec1: the record of a plain program that is let pass at once.
MayPass(c) ==
  \/ /\ c.apiType \in {288, 320, 321, 322, 323}   \* 0x120, 0x140..0x143
     /\ c.execSize # "zero" \/ c.isKernelMod
  \/ c.apiType < 82 /\ c.isKernelMod              \* 0x52
PatchExec1(c) ==
  IF c.apiType >= 288 /\ c.execSize # "zero"
  THEN PatchExec2([c EXCEPT !.isDecrypted = TRUE, !.isKernelMod = TRUE])
  ELSE [c EXCEPT !.isDecrypted = TRUE]

\* Mutant: PatchExec3 does not ask whether the program is plain.
PatchExec3Always(c, plain, res) ==
  IF c.apiType >= 82
  THEN <<IF c.elfType = "none" /\ program.kind = "static"
         THEN [c EXCEPT !.elfType = "static"] ELSE c, res>>
  ELSE IF ~Privileged(PatchExec2Value(c)) THEN <<PatchExec2(c), res>>
  ELSE <<[PatchExec2(c) EXCEPT !.isKernelMod = TRUE], "ok">>

\* PatchExec3: the record and the verdict after the firmware's own check.
PatchExec3(c, plain, res) ==
  IF ~plain THEN <<c, res>>
  ELSE IF c.apiType >= 82
  THEN <<IF c.elfType = "none" /\ program.kind = "static"
         THEN [c EXCEPT !.elfType = "static"] ELSE c, res>>
  ELSE IF ~Privileged(PatchExec2Value(c)) THEN <<PatchExec2(c), res>>
  ELSE <<[PatchExec2(c) EXCEPT !.isKernelMod = TRUE], "ok">>

\* sceKernelCheckExecFile620: the firmware's verdict, and what it finds out.
FirmwareChecks(c) ==
  {[c EXCEPT !.elfType = type, !.attribute = attr] :
     type \in {"none", "prx"}, attr \in {"user", IF Plain THEN "user" ELSE program.attr}}

\* The bytes are the program's or, of a PBP, those of the PBP's header.
CheckExecFile ==
  /\ step = "exec"
  /\ \E plain \in BOOLEAN :
     /\ plain => Plain
     /\ ~plain => (~Plain \/ program.pbp)
     /\ \/ /\ plain /\ MayPass(check)
           /\ check' = PatchExec1(check) /\ verdict' = "ok"
           /\ overruled' = Changed(check, check') \cup {"verdict"}
        \/ /\ ~(plain /\ MayPass(check))
           /\ \E c \in FirmwareChecks(check), res \in {"ok", "refused"} :
                LET after == PatchExec3(c, plain, res)
                IN  /\ check' = after[1] /\ verdict' = after[2]
                    /\ overruled' = Changed(c, check')
                                      \cup (IF verdict' = res THEN {} ELSE {"verdict"})
  /\ step' = IF verdict' = "ok" THEN "tell" ELSE "refused"
  /\ UNCHANGED <<program, high, position, pos, buf, faults>>

-------------------------------------------------------------------------------
(* PartitionCheckPatched: a call of the file system may fail, and none of the    *)
(* seeks is checked.                                                             *)

\* The handle goes to a place, or stays where it is.
SeekTo(place) ==
  \/ position' = place /\ UNCHANGED faults
  \/ /\ Cardinality(faults) < MaxFaults
     /\ faults' = faults \cup {step} /\ UNCHANGED position

Reads == position' = "else" /\ UNCHANGED faults
ReadFails == /\ Cardinality(faults) < MaxFaults
             /\ faults' = faults \cup {step} /\ UNCHANGED position

\* pos = sceIoLseek(fd, 0, PSP_SEEK_CUR); pos is unsigned, so that an error is not
\* seen and is a place like any other.
PartitionTells ==
  /\ step = "tell"
  /\ \/ pos' = position /\ UNCHANGED faults
     \/ /\ Cardinality(faults) < MaxFaults
        /\ pos' = "else" /\ faults' = faults \cup {step}
  /\ step' = "rewind"
  /\ UNCHANGED <<program, check, high, position, buf, verdict, overruled>>

PartitionRewinds ==
  /\ step = "rewind" /\ SeekTo("start") /\ step' = "header"
  /\ UNCHANGED <<program, check, high, pos, buf, verdict, overruled>>

\* What is read at a place: the head, and whose offsets words 8 and 9 are then.
HeadAt(place) ==
  IF place = "start" /\ program.pbp THEN "pbp"
  ELSE IF place \in {"start", "program"} THEN program.kind
  ELSE "junk"

\* Where the code goes on with a head.
Onward == [pbp |-> "program", prx |-> "modinfoElf", static |-> "modinfoElf",
           psp |-> "restore", junk |-> "restore"]

\* Mutant: a short file goes back to the firmware without the handle being put back.
PartitionReadsHeaderUnrestored ==
  /\ step = "header"
  /\ \/ /\ ~program.short /\ Reads
        /\ buf' = [head |-> HeadAt(position),
                   words |-> IF HeadAt(position) = "pbp" THEN "pbp" ELSE "other"]
        /\ step' = Onward[buf'.head]
     \/ /\ program.short /\ Reads /\ UNCHANGED buf /\ step' = "partition"
     \/ ReadFails /\ UNCHANGED buf /\ step' = "restore"
  /\ UNCHANGED <<program, check, high, pos, verdict, overruled>>

\* 256 bytes; a file that has less goes back to the firmware.
PartitionReadsHeader ==
  /\ step = "header"
  /\ \/ /\ ~program.short /\ Reads
        /\ buf' = [head |-> HeadAt(position),
                   words |-> IF HeadAt(position) = "pbp" THEN "pbp" ELSE "other"]
        /\ step' = Onward[buf'.head]
     \/ /\ program.short /\ Reads /\ UNCHANGED buf /\ step' = "restore"
     \/ ReadFails /\ UNCHANGED buf /\ step' = "restore"
  /\ UNCHANGED <<program, check, high, pos, verdict, overruled>>

\* The program of a PBP is where word 8 says ...
PartitionSeeksProgram ==
  /\ step = "program" /\ SeekTo("program") /\ step' = "programHeader"
  /\ UNCHANGED <<program, check, high, pos, buf, verdict, overruled>>

\* Mutant: as much is read as words 0..9 take.
PartitionReadsProgramWide ==
  /\ step = "programHeader"
  /\ \/ Reads /\ buf' = [head |-> HeadAt(position), words |-> "other"]
     \/ ReadFails /\ UNCHANGED buf
  /\ step' = IF buf'.head \in {"prx", "static"} THEN "modinfoPbp" ELSE "restore"
  /\ UNCHANGED <<program, check, high, pos, verdict, overruled>>

\* ... and its first 0x14 bytes leave words 8 and 9 alone.
PartitionReadsProgram ==
  /\ step = "programHeader"
  /\ \/ Reads /\ buf' = [buf EXCEPT !.head = HeadAt(position)]
     \/ ReadFails /\ UNCHANGED buf
  /\ step' = IF buf'.head \in {"prx", "static"} THEN "modinfoPbp" ELSE "restore"
  /\ UNCHANGED <<program, check, high, pos, verdict, overruled>>

\* The record with the program's size, as words 8 and 9 give it.
SizeOfProgram(c) ==
  LET size == IF buf.words = "pbp" THEN "program" ELSE "junk"
  IN  IF buf.head = "static" THEN c ELSE [c EXCEPT !.execSize = size]

\* The module info of the program, whose size is what the firmware is told of a PBP.
PartitionSeeksModinfo ==
  /\ \/ step = "modinfoElf" /\ SeekTo("modinfo") /\ UNCHANGED check
     \/ /\ step = "modinfoPbp"
        /\ SeekTo(IF buf.words = "pbp" THEN "modinfo" ELSE "else")
        /\ check' = SizeOfProgram(check)
  /\ overruled' = overruled \cup Changed(check, check')
  /\ step' = "attributes"
  /\ UNCHANGED <<program, high, pos, buf, verdict>>

\* The attributes say for which partition the program is; where the read fails, or
\* reads elsewhere, they are whatever the stack or the file has there.
PartitionMarks ==
  /\ step = "attributes"
  /\ \E attr \in Attributes \cup {"magic"} :
       /\ \/ /\ Reads
             /\ position = "modinfo" => attr = AttributeAt(check.modInfoOffset)
          \/ ReadFails
       /\ check' = [check EXCEPT !.isKernelMod =
                       (buf.head # "static" /\ attr = "kernel")]
  /\ overruled' = overruled \cup Changed(check, check')
  /\ step' = "restore"
  /\ UNCHANGED <<program, high, pos, buf, verdict>>

PartitionRestores ==
  /\ step = "restore" /\ SeekTo(pos) /\ step' = "partition"
  /\ UNCHANGED <<program, check, high, pos, buf, verdict, overruled>>

\* The firmware's PartitionCheck finds memory for the program, or not.
FirmwarePartitions ==
  /\ step = "partition"
  /\ verdict' \in {"ok", "refused"}
  /\ step' = IF verdict' = "ok" THEN "probe" ELSE "refused"
  /\ UNCHANGED <<program, check, high, position, pos, buf, faults, overruled>>

PartitionCheck ==
  \/ PartitionTells \/ PartitionRewinds \/ PartitionReadsHeader
  \/ PartitionSeeksProgram \/ PartitionReadsProgram \/ PartitionSeeksModinfo
  \/ PartitionMarks \/ PartitionRestores \/ FirmwarePartitions

-------------------------------------------------------------------------------
(* The program is in memory.  The hooks look at the first word of what is there  *)
(* then: `inner' is its kind, of an encrypted program, decrypted or not.         *)

\* ProbeExec1Patched: the privileges of the program's own module info.
RealAttribute(c) ==
  LET realattr == AttributeAt(c.modInfoOffset)
  IN  IF Privileged(realattr) THEN realattr ELSE c.attribute
ProbeExec1(c) ==
  LET realattr == RealAttribute(c)
  IN  [c EXCEPT !.attribute = realattr, !.isDecrypted = TRUE]

\* Mutant: the attributes taken from the wrong place are kept.
ProbeExec2Keeping(c, inner) ==
  IF inner # "static" THEN c
  ELSE LET a == IF c.apiType - 320 \in 0..4 THEN [c EXCEPT !.apiType = 288] ELSE c
       IN  IF c.modInfoOffset = "zero" /\ program.named
           THEN [a EXCEPT !.modInfoOffset = "right"] ELSE a

\* ProbeExec2Patched: a static program passes for one that the firmware knows (the
\* difference is unsigned), and its module info is looked for among its sections.
ProbeExec2(c, inner) ==
  IF inner # "static" THEN c
  ELSE LET a == IF c.apiType - 320 \in 0..4 THEN [c EXCEPT !.apiType = 288] ELSE c
       IN  IF c.modInfoOffset = "zero" /\ program.named
           THEN [a EXCEPT !.modInfoOffset = "right", !.attribute = "user"] ELSE a

\* sceKernelProbeExecutableObjectPatched, on a PSPgo only.
ProbeObject(c, inner, go) ==
  IF go /\ c.apiType >= 82 /\ inner = "static"
  THEN [c EXCEPT !.elfType = "static"] ELSE c

ProbeExec ==
  /\ step = "probe"
  /\ \E inner \in IF Plain THEN {program.kind} ELSE {"prx", "static", "psp"}, go \in BOOLEAN :
       check' = IF inner = "psp" THEN check
                ELSE ProbeObject(ProbeExec2(ProbeExec1(check), inner), inner, go)
  /\ overruled' = overruled \cup Changed(check, check')
  /\ step' = "probed"
  /\ UNCHANGED <<program, high, position, pos, buf, faults, verdict>>

CheckNext == CheckExecFile \/ PartitionCheck \/ ProbeExec

-------------------------------------------------------------------------------
(* Properties *)

\* The firmware goes on with the file where it had left it, on every path through
\* PartitionCheckPatched, unless the very calls fail that remember and restore it.
PositionKept ==
  step = "partition" => position = "entry" \/ faults \cap {"tell", "restore"} # {}

\* When the firmware looks for memory, a plain program that can be relocated is marked
\* for the kernel's exactly if its attributes say so, and a static one never, whatever
\* its attributes are and CheckExecFile had made of them (PartitionCheckPatched); of a
\* PBP the former has the program's size.  A file that is too short is not looked at;
\* the attributes have to be read, and the heads before, but no other call must succeed.
LoadedWhereMarked ==
  (/\ step = "partition" /\ Plain /\ ~program.short
   /\ faults \cap {"rewind", "header", "program", "programHeader"} = {}) =>
    /\ program.kind = "static" => ~check.isKernelMod
    /\ (/\ program.kind = "prx"
        /\ faults \cap {"modinfoPbp", "modinfoElf", "attributes"} = {}) =>
         check.isKernelMod = (program.attr = "kernel")
    /\ (program.pbp /\ program.kind = "prx") => check.execSize = "program"

\* As long as a program is encrypted, what the firmware says and notes of it stands,
\* even when calls of HEN's hooks fail.  Once it may be decrypted, in memory, the hooks
\* on the probes take it for a plain one, and still do not change the verdict, the
\* partition, the size or the place of the module info.
EncryptedUntouched ==
  ~Plain => overruled \subseteq (IF step = "probed"
                                 THEN {"attribute", "isDecrypted", "apiType", "elfType"}
                                 ELSE {})

\* No program gets the privileges that the head of its ELF happens to spell (0x457F),
\* but one: a static program whose module info neither the firmware nor
\* ProbeExec2Patched finds, as its sections have no names.
PrivilegesOfModinfo ==
  step = "probed" =>
    check.attribute \in
      {program.attr, "user"}
        \cup (IF /\ program.kind = "static" /\ ~program.named
                 /\ check.modInfoOffset = "zero" THEN {"magic"} ELSE {})
===============================================================================
