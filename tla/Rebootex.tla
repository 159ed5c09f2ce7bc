-------------------------------- MODULE Rebootex --------------------------------
(* One boot of the kernel under rebootex/main.c: the module table of pspbtcnf gets *)
(* HEN's modules (sceKernelCheckPspConfigPatched and InsertModule), and the files   *)
(* the boot loader then asks for come from it (sceBootLfat*Patched).                *)
(*                                                                                 *)
(* A table is the data the code moves: module entries with the offsets of their     *)
(* names, and the names at their offsets.  The entries lie directly before the      *)
(* names, so an entry that is added moves the names by EntrySize, and an address    *)
(* computed before that is EntrySize too low.                                       *)
EXTENDS Integers, Sequences, SequencesExt, FiniteSets

CONSTANTS
  Tables,     \* the firmware's tables
  NameLen,    \* the length of each module name, terminator included
  EntrySize,  \* sizeof(ModuleEntry)
  BootModes,  \* the modes the machine can boot in
  RebootFlags \* the flags LoadModuleOnReboot is given

\* BootLoadFlags
AllModes == {"VSH", "GAME", "UPDATER", "POPS", "UNK", "UMDEMU", "MLNAPP"}
NewNames == {"hen", "xmb", "rtm"}
Names    == DOMAIN NameLen

-------------------------------------------------------------------------------
(* What the firmware's tables are assumed to be: every entry has a name, and every  *)
(* mode searches all entries.  Names and entries may lie in any order.              *)

WellFormed(t) ==
  /\ DOMAIN t = {"modules", "at", "modnameend", "nmodes", "maxsearch"}
  /\ t.modules \in Seq([off : DOMAIN t.at, flags : SUBSET AllModes])
  /\ t.modnameend \in Nat /\ t.nmodes \in Nat /\ DOMAIN t.at \subseteq Nat
  /\ t.at \in [DOMAIN t.at -> Names \ NewNames]
  /\ \A o \in DOMAIN t.at : o < t.modnameend
  /\ t.maxsearch = [m \in 1..t.nmodes |-> Len(t.modules)]

ASSUME RebootConstants == /\ BootModes \subseteq AllModes /\ RebootFlags \subseteq SUBSET AllModes
                          /\ EntrySize \in Nat \ {0}
                          /\ NameLen \in [Names -> Nat \ {0}] /\ NewNames \subseteq Names
ASSUME TablesWellFormed == \A t \in Tables : WellFormed(t)
-------------------------------------------------------------------------------
VARIABLES
  table,               \* the module table in memory
  reboot_module_after, \* the request of the last LoadModuleOnReboot, or "null"
  reboot_flags,
  bootmode, mode,      \* how the machine boots, and the table's entry for it
  phase,               \* what the boot is about
  job,                 \* the InsertModule call that runs
  i,                   \* its loop variable
  hits,                \* how often it has inserted: its modnamestart is hits entries old
  found,               \* hen_found, xmb_found and rtm_found, as the set of those set
  lfat,                \* the file open in the firmware's driver, or "none"
  next,                \* the module entry the loader is at
  loaded,              \* what it has loaded: names and where the content came from
  firmware             \* history: the table's modules at power on

tableVars == <<table, job, i, hits>>
fileVars  == <<found, lfat, loaded>>
request   == <<reboot_module_after, reboot_flags, bootmode, mode, firmware>>
vars == <<tableVars, request, phase, fileVars, next>>

nmodules == Len(table.modules)

\* The three calls in sceKernelCheckPspConfigPatched.
Calls == <<[after |-> "init", new |-> "hen", flags |-> AllModes \ {"UNK"}],
           [after |-> "me_wrapper", new |-> "xmb", flags |-> {"VSH"}],
           [after |-> reboot_module_after, new |-> "rtm", flags |-> reboot_flags]>>

Call == Calls[job]

TypeOK ==
  /\ table.modules \in Seq([off : Nat, flags : SUBSET AllModes])
  /\ table.modnameend \in Nat
  /\ DOMAIN table.at \subseteq 0..(table.modnameend - 1)
  /\ \A o \in DOMAIN table.at : table.at[o] \in Names
  /\ table.maxsearch \in [1..table.nmodes -> Nat]
  /\ reboot_module_after \in Names \cup {"null"} /\ reboot_flags \subseteq AllModes
  /\ bootmode \in BootModes /\ mode \in 1..table.nmodes
  /\ phase \in {"check", "add", "scan", "load", "read", "close", "kernel"}
  /\ job \in 1..4 /\ i \in Nat /\ hits \in Nat /\ next \in Nat
  /\ found \subseteq NewNames
  /\ lfat \in Names \cup {"none"}
  /\ loaded \in Seq(Names \X ({"memory", "flash"} \X Names))

Init ==
  /\ table \in Tables
  /\ firmware = table.modules
  /\ reboot_module_after \in Names \cup {"null"}
  /\ reboot_flags \in RebootFlags
  /\ bootmode \in BootModes /\ mode \in 1..table.nmodes
  /\ phase = "check" /\ job = 1 /\ i = 0 /\ hits = 0
  /\ found = {} /\ lfat = "none" /\ next = 1 /\ loaded = <<>>

-------------------------------------------------------------------------------
(* sceKernelCheckPspConfigPatched *)

\* The firmware's check, whose result is only passed on.
CheckPspConfig ==
  /\ phase = "check"
  /\ phase' = "add"
  /\ UNCHANGED <<tableVars, request, fileVars, next>>

\* InsertModule begins: the name goes behind the last one.
AddName ==
  /\ phase = "add"
  /\ table' = [table EXCEPT !.at = [o \in DOMAIN @ \cup {table.modnameend} |->
                                      IF o = table.modnameend THEN Call.new ELSE @[o]],
                            !.modnameend = @ + NameLen[Call.new]]
  /\ i' = 0 /\ hits' = 0
  /\ phase' = "scan"
  /\ UNCHANGED <<job, request, fileVars, next>>

\* The comparison in the loop, at the address the name had before any insertion.
Matches ==
  LET o == table.modules[i + 1].off - hits * EntrySize
  IN  o \in DOMAIN table.at /\ table.at[o] = Call.after

ScanMiss ==
  /\ phase = "scan" /\ i < nmodules /\ ~Matches
  /\ i' = i + 1
  /\ UNCHANGED <<table, job, hits, request, phase, fileVars, next>>

\* Where the new name is: modnameend and modnamestart, as they were at the start.
NewOffset == table.modnameend - NameLen[Call.new]

Inserted(t) ==
  [t EXCEPT !.modules = InsertAt(@, i + 1, [off |-> NewOffset, flags |-> Call.flags]),
            !.maxsearch = [m \in DOMAIN @ |-> @[m] + 1]]

\* Mutant: the new module goes behind the one that was found.
ScanHitBehind ==
  /\ phase = "scan" /\ i < nmodules /\ Matches
  /\ table' = [table EXCEPT
       !.modules = InsertAt(@, i + 2, [off |-> NewOffset, flags |-> Call.flags]),
       !.maxsearch = [m \in DOMAIN @ |-> @[m] + 1]]
  /\ hits' = hits + 1
  /\ i' = table.nmodes + 1
  /\ UNCHANGED <<job, request, phase, fileVars, next>>

\* The entry is inserted where module_after was.  The loop over the modes uses the
\* same i, so the scan goes on behind nmodes.
ScanHit ==
  /\ phase = "scan" /\ i < nmodules /\ Matches
  /\ table' = Inserted(table)
  /\ hits' = hits + 1
  /\ i' = table.nmodes + 1
  /\ UNCHANGED <<job, request, phase, fileVars, next>>

LastJob == IF reboot_module_after = "null" THEN 2 ELSE 3

\* Mutant: the loop stops at nmodules only, which i may have passed.
ScanEndsAt ==
  /\ phase = "scan" /\ i = nmodules
  /\ job' = job + 1
  /\ phase' = IF job = LastJob THEN "load" ELSE "add"
  /\ UNCHANGED <<table, i, hits, request, fileVars, next>>

ScanEnds ==
  /\ phase = "scan" /\ i >= nmodules
  /\ job' = job + 1
  /\ phase' = IF job = LastJob THEN "load" ELSE "add"
  /\ UNCHANGED <<table, i, hits, request, fileVars, next>>

-------------------------------------------------------------------------------
(* The boot loader takes the modules of its mode in order and opens, reads and     *)
(* closes the file of each.                                                        *)

Wanted(entry) == bootmode \in entry.flags

SkipModule ==
  /\ phase = "load" /\ next <= table.maxsearch[mode]
  /\ ~Wanted(table.modules[next])
  /\ next' = next + 1
  /\ UNCHANGED <<tableVars, request, phase, fileVars>>

\* sceBootLfatOpenPatched: a name of ours sets its flag, any other goes on.
OpenPatched(file) ==
  IF file \in NewNames
  THEN found' = found \cup {file} /\ UNCHANGED lfat
  ELSE lfat' = file /\ UNCHANGED found

OpenModule ==
  /\ phase = "load" /\ next <= table.maxsearch[mode]
  /\ Wanted(table.modules[next])
  /\ OpenPatched(table.at[table.modules[next].off])
  /\ phase' = "read"
  /\ UNCHANGED <<tableVars, request, loaded, next>>

\* sceBootLfatReadPatched looks at the flags in this order.
First == IF "hen" \in found THEN "hen" ELSE IF "xmb" \in found THEN "xmb" ELSE "rtm"

ReadPatched == IF found # {} THEN <<"memory", First>> ELSE <<"flash", lfat>>

ReadModule ==
  /\ phase = "read"
  /\ loaded' = Append(loaded, <<table.at[table.modules[next].off], ReadPatched>>)
  /\ phase' = "close"
  /\ UNCHANGED <<tableVars, request, found, lfat, next>>

\* Mutant: closing one of ours resets no flag.
ClosePatchedKeeps ==
  IF found # {}
  THEN UNCHANGED <<found, lfat>>
  ELSE lfat' = "none" /\ UNCHANGED found

\* sceBootLfatClosePatched
ClosePatched ==
  IF found # {}
  THEN found' = found \ {First} /\ UNCHANGED lfat
  ELSE lfat' = "none" /\ UNCHANGED found

CloseModule ==
  /\ phase = "close"
  /\ ClosePatched
  /\ next' = next + 1
  /\ phase' = "load"
  /\ UNCHANGED <<tableVars, request, loaded>>

\* The kernel takes over.
LoaderEnds ==
  /\ phase = "load" /\ next > table.maxsearch[mode]
  /\ phase' = "kernel"
  /\ UNCHANGED <<tableVars, request, fileVars, next>>

Insert == AddName \/ ScanMiss \/ ScanHit \/ ScanEnds
Load   == SkipModule \/ OpenModule \/ ReadModule \/ CloseModule \/ LoaderEnds

Next == CheckPspConfig \/ Insert \/ Load

Spec     == Init /\ [][Next]_vars
FairSpec == Spec /\ WF_vars(Next)

-------------------------------------------------------------------------------
(* Properties *)

\* Reference: a call puts its module directly before the first module_after.
Before(entry, after, s, at) ==
  LET places == {n \in 1..Len(s) : at[s[n].off] = after}
  IN  IF places = {} THEN s
      ELSE InsertAt(s, Min(places), entry)

EntryOf(c, at) == [off |-> CHOOSE o \in DOMAIN at : at[o] = c.new, flags |-> c.flags]

AfterCall(c, s, at) == Before(EntryOf(c, at), c.after, s, at)

Expected ==
  LET both == AfterCall(Calls[2], AfterCall(Calls[1], firmware, table.at), table.at)
  IN  IF reboot_module_after = "null" THEN both ELSE AfterCall(Calls[3], both, table.at)

\* Once a call has inserted its entry it compares names EntrySize before their own, and
\* takes one that lies so far behind a module_after, of those there are, for it.
Misread(c, at) ==
  \E o, p \in DOMAIN at : /\ at[o] = c.after
                          /\ p = o + EntrySize /\ p <= EntryOf(c, at).off

\* InsertModule's loop goes on with a reused i and an address that is out of date.  The
\* table is still searched to its end in every mode, and each new module is in it once,
\* before its module_after, with the firmware's table otherwise as it was.  The latter
\* fails, by entries inserted again, in no table but one with a name exactly one entry
\* behind a module_after.
InsertedAsAsked ==
  phase \in {"load", "read", "close", "kernel"} =>
    /\ \A m \in 1..table.nmodes : table.maxsearch[m] = Len(table.modules)
    /\ \/ table.modules = Expected
       \/ \E n \in 1..LastJob : Misread(Calls[n], table.at)

\* What is loaded for an entry: HEN's modules from rebootex or, rtm, from where
\* LoadModuleOnReboot said, and the firmware's from flash.
Loads(entry, at) ==
  LET name == at[entry.off]
  IN  <<name, <<IF name \in NewNames THEN "memory" ELSE "flash", name>>>>

\* How many of the first n entries of s are loaded.
LoadIndex(s, n) == Cardinality({m \in 1..n : Wanted(s[m])})

\* The kernel starts with the modules of its mode, all that the table has by then and no
\* other, in the table's order, each with its own content, although three flags and
\* three entry points, and not the file's handle, tell the hooks which file is read.
\* So it is for any table, one in which a module stands twice included.
BootsAsAsked ==
  phase = "kernel" =>
    LET mods == table.modules
    IN  /\ Len(loaded) = LoadIndex(mods, Len(mods))
        /\ \A n \in 1..Len(mods) :
             Wanted(mods[n]) => loaded[LoadIndex(mods, n)] = Loads(mods[n], table.at)

\* Every boot reaches the kernel, whatever the loop does with i.
BootEnds == <>(phase = "kernel")
===============================================================================
