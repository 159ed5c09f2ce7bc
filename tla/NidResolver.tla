------------------------------ MODULE NidResolver ------------------------------
(* How systemctrl links a module's imports (systemctrl/main.c).  A function is    *)
(* imported by the name of its library and a number, its NID, and the firmware    *)
(* gives its functions new NIDs now and then.  For kernel modules that were not   *)
(* made for 6.20, GetFunctionPatched translates NIDs and puts own functions in    *)
(* the place of some that the firmware has no longer.                             *)
EXTENDS Integers, Sequences, FiniteSets, FiniteSetsExt

CONSTANTS
  nid_table,    \* the libraries whose NIDs are known, each with pairs <<old, new>>
  Exports,      \* the export table of each module of the firmware: entries
                \* [libname, funcs, vars], where NoName stands for a NULL name
  Substitutes,  \* the pairs <<libname, nid>> that HEN has a function for
  NoName,
  SdkVersion,   \* the NID of the variable module_sdk_version
  SetClock      \* scePowerSetClockFrequency

\* What is found is a pair <<libname, nid>>, and this where there is none.
Missing == <<>>

\* Pairs are found by their old NID, and no table leads from a new NID on to
\* another: in each library the old NIDs are distinct and none is a new one.
TableIsFlat(pairs) ==
  \A i, j \in DOMAIN pairs : /\ pairs[i][1] = pairs[j][1] => i = j
                             /\ pairs[i][1] # pairs[j][2]

ASSUME NidConstants ==
  /\ \A t \in DOMAIN nid_table : TableIsFlat(nid_table[t].nid)
  /\ \A s, t \in DOMAIN nid_table : nid_table[s].libname = nid_table[t].libname => s = t
  /\ \A t \in DOMAIN nid_table : nid_table[t].libname # NoName
  /\ DOMAIN nid_table \subseteq Nat
  /\ \A t \in DOMAIN nid_table : DOMAIN nid_table[t].nid \subseteq Nat
  /\ \A m \in DOMAIN Exports : DOMAIN Exports[m] \subseteq Nat

\* GetLibraryByName: the table of a library, empty where the code has none.
GetLibraryByName(libname) ==
  LET at == {t \in DOMAIN nid_table : nid_table[t].libname = libname}
  IN  IF at = {} THEN <<>> ELSE nid_table[Min(at)].nid

\* GetNewNID: the NID of today, or the same where none is known.
GetNewNID(libname, nid) ==
  LET pairs == GetLibraryByName(libname)
      at == {i \in DOMAIN pairs : pairs[i][1] = nid}
  IN  IF at = {} THEN nid ELSE pairs[Min(at)][2]

\* Mutant: a library is searched for functions only, whatever its name.
EntryHasFuncs(entry, libname, nid) == entry.libname = libname /\ nid \in entry.funcs

\* An entry of the library offers its functions, and any other its variables: so the
\* nameless one is searched, whose variables describe the module.
EntryHas(entry, libname, nid) ==
  IF entry.libname # NoName /\ entry.libname = libname THEN nid \in entry.funcs
  ELSE nid \in entry.vars

\* sctrlHENFindFunction: the first that the walk over a module's entries meets.
FindFunction(entries, libname, nid) ==
  LET now == GetNewNID(libname, nid)
      at == {i \in DOMAIN entries : EntryHas(entries[i], libname, now)}
  IN  IF at = {} THEN Missing ELSE <<entries[Min(at)].libname, now>>

\* The firmware's GetFunction: by library, in whichever module has it.
GetFunction(libname, nid) ==
  IF \E m \in DOMAIN Exports : \E i \in DOMAIN Exports[m] :
       Exports[m][i].libname = libname /\ nid \in Exports[m][i].funcs
  THEN <<libname, nid>> ELSE Missing

\* A module is Sony's if it says that it was made for 6.20.
IsSony(importer) ==
  importer.sdk620 /\ FindFunction(importer.entries, NoName, SdkVersion) # Missing

\* GetFunctionPatched
GetFunctionPatched(importer, libname, nid) ==
  LET power == FindFunction(Exports["scePower_Service"], "scePower", nid)
  IN  IF importer.user \/ IsSony(importer) THEN GetFunction(libname, nid)
      ELSE IF <<libname, nid>> \in Substitutes THEN <<"HEN", libname, nid>>
      ELSE IF libname = "scePower_driver" /\ nid = SetClock /\ power # Missing THEN power
      ELSE GetFunction(libname, GetNewNID(libname, nid))
===============================================================================
