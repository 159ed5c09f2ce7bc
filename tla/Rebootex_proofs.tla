---------------------------- MODULE Rebootex_proofs ----------------------------
(* InsertModule's loop, and the files the boot loader gets, for every table that is *)
(* well formed, any lengths of names and any modes.                                 *)
EXTENDS Rebootex, FiniteSetTheorems, SequenceTheorems, TLAPS

-------------------------------------------------------------------------------
(* Sequences, and counting places in them *)

\* What InsertAt returns.
LEMMA InsertAtFacts ==
  ASSUME NEW S, NEW s \in Seq(S), NEW k \in 1..(Len(s) + 1), NEW e \in S
  PROVE  /\ InsertAt(s, k, e) \in Seq(S)
         /\ Len(InsertAt(s, k, e)) = Len(s) + 1
         /\ \A n \in 1..(Len(s) + 1) :
              InsertAt(s, k, e)[n] = IF n < k THEN s[n] ELSE IF n = k THEN e ELSE s[n - 1]
<1> DEFINE a == SubSeq(s, 1, k - 1)
           b == SubSeq(s, k, Len(s))
<1>1. /\ a \in Seq(S) /\ Len(a) = k - 1 /\ \A n \in 1..(k - 1) : a[n] = s[n]
      /\ b \in Seq(S) /\ Len(b) = Len(s) - k + 1
      /\ \A n \in 1..(Len(s) - k + 1) : b[n] = s[k + n - 1]
  OBVIOUS
<1>2. <<e>> \in Seq(S) /\ Len(<<e>>) = 1 /\ <<e>>[1] = e
  OBVIOUS
<1>3. InsertAt(s, k, e) = (a \o <<e>>) \o b
  BY DEF InsertAt
<1> HIDE DEF a, b
<1> DEFINE c == a \o <<e>>
<1>4. /\ c \in Seq(S) /\ Len(c) = k /\ \A n \in 1..k : c[n] = IF n < k THEN s[n] ELSE e
  BY <1>1, <1>2
<1> HIDE DEF c
<1>5. /\ c \o b \in Seq(S) /\ Len(c \o b) = Len(s) + 1
      /\ \A n \in 1..(Len(s) + 1) : (c \o b)[n] = IF n <= k THEN c[n] ELSE b[n - k]
  BY <1>1, <1>4
<1>6. \A n \in 1..(Len(s) + 1) :
        (c \o b)[n] = IF n < k THEN s[n] ELSE IF n = k THEN e ELSE s[n - 1]
  BY <1>1, <1>4, <1>5
<1> QED BY <1>3, <1>5, <1>6 DEF c

\* LoadIndex counts up by one at each entry that is loaded.
LEMMA LoadIndexFacts ==
  ASSUME NEW s
  PROVE  /\ \A n \in Nat : LoadIndex(s, n) \in Nat
         /\ LoadIndex(s, 0) = 0
         /\ \A n \in Nat : LoadIndex(s, n + 1) = IF Wanted(s[n + 1]) THEN LoadIndex(s, n) + 1
                                                 ELSE LoadIndex(s, n)
         /\ \A m, n \in Nat : m <= n => LoadIndex(s, m) <= LoadIndex(s, n)
         /\ \A n \in Nat \ {0} : Wanted(s[n]) => LoadIndex(s, n) >= 1
<1> DEFINE W(n) == {m \in 1..n : Wanted(s[m])}
<1>1. \A n \in Nat : IsFiniteSet(W(n))
  <2> SUFFICES ASSUME NEW n \in Nat PROVE IsFiniteSet(W(n))
    OBVIOUS
  <2>1. IsFiniteSet(1..n)
    BY FS_Interval
  <2> QED BY <2>1, FS_Subset
<1>2. \A n \in Nat : LoadIndex(s, n) \in Nat
  BY <1>1, FS_CardinalityType DEF LoadIndex
<1>3. LoadIndex(s, 0) = 0
  <2>1. W(0) = {}
    OBVIOUS
  <2> QED BY <2>1, FS_EmptySet DEF LoadIndex
<1>4. ASSUME NEW n \in Nat
      PROVE  LoadIndex(s, n + 1) = IF Wanted(s[n + 1]) THEN LoadIndex(s, n) + 1
                                   ELSE LoadIndex(s, n)
  <2>1. CASE Wanted(s[n + 1])
    <3>1. W(n + 1) = W(n) \cup {n + 1} /\ n + 1 \notin W(n)
      BY <2>1
    <3>2. Cardinality(W(n) \cup {n + 1}) = Cardinality(W(n)) + 1
      BY <1>1, <3>1, FS_AddElement
    <3> QED BY <2>1, <3>1, <3>2 DEF LoadIndex
  <2>2. CASE ~Wanted(s[n + 1])
    <3>1. W(n + 1) = W(n)
      BY <2>2
    <3> QED BY <2>2, <3>1 DEF LoadIndex
  <2> QED BY <2>1, <2>2
<1>5. ASSUME NEW m \in Nat, NEW n \in Nat, m <= n
      PROVE  LoadIndex(s, m) <= LoadIndex(s, n)
  <2>1. W(m) \subseteq W(n)
    BY <1>5
  <2> QED BY <2>1, <1>1, FS_Subset DEF LoadIndex
<1>6. ASSUME NEW n \in Nat \ {0}, Wanted(s[n])
      PROVE  LoadIndex(s, n) >= 1
  <2>1. n - 1 \in Nat /\ LoadIndex(s, (n - 1) + 1) = LoadIndex(s, n - 1) + 1
    BY <1>4, <1>6
  <2> QED BY <2>1, <1>2
<1> QED BY <1>2, <1>3, <1>4, <1>5, <1>6

-------------------------------------------------------------------------------
(* The names: HEN's three lie behind the firmware's, one behind the other *)

\* The names when all three are added.
Layout(t) ==
  LET xmbAt == t.modnameend + NameLen["hen"]
      rtmAt == xmbAt + NameLen["xmb"]
  IN  [o \in DOMAIN t.at \cup {t.modnameend, xmbAt, rtmAt} |->
         CASE o = t.modnameend -> "hen"
           [] o = xmbAt -> "xmb"
           [] o = rtmAt -> "rtm"
           [] OTHER -> t.at[o]]

\* The end of the names when the first k of HEN's are added: where the next one goes.
End(t, k) ==
  IF k = 0 THEN t.modnameend
  ELSE IF k = 1 THEN t.modnameend + NameLen["hen"]
  ELSE IF k = 2 THEN (t.modnameend + NameLen["hen"]) + NameLen["xmb"]
  ELSE ((t.modnameend + NameLen["hen"]) + NameLen["xmb"]) + NameLen["rtm"]

Offsets(t, k) == DOMAIN t.at \cup {End(t, m) : m \in 0..(k - 1)}

LaidOut(t, k) == [o \in Offsets(t, k) |-> Layout(t)[o]]

\* The calls are those for hen, xmb and, if there is a request, rtm.
LEMMA CallTable ==
  /\ Calls[1].new = "hen" /\ Calls[2].new = "xmb" /\ Calls[3].new = "rtm"
  /\ Calls[1].after = "init" /\ Calls[2].after = "me_wrapper"
  /\ Calls[3].after = reboot_module_after
  /\ Calls[1].flags = AllModes \ {"UNK"} /\ Calls[2].flags = {"VSH"}
  /\ Calls[3].flags = reboot_flags
BY DEF Calls

LEMMA EndFacts ==
  ASSUME NEW t \in Tables
  PROVE  /\ \A k \in 0..3 : End(t, k) \in Nat
         /\ \A k \in 1..3 : End(t, k) = End(t, k - 1) + NameLen[Calls[k].new]
         /\ \A j, k \in 0..3 : j < k => End(t, j) < End(t, k)
         /\ \A o \in DOMAIN t.at : o \in Nat /\ o < End(t, 0)
<1>1. /\ t.modnameend \in Nat
      /\ \A o \in DOMAIN t.at : o \in Nat /\ o < t.modnameend
  BY TablesWellFormed DEF WellFormed
<1>2. \A n \in {"hen", "xmb", "rtm"} : NameLen[n] \in Nat /\ NameLen[n] > 0
  BY RebootConstants DEF NewNames
<1> QED BY <1>1, <1>2, CallTable DEF End

\* Of all the names, those added are HEN's, and each is in its place only.
LEMMA LayoutFacts ==
  ASSUME NEW t \in Tables
  PROVE  /\ DOMAIN Layout(t) = Offsets(t, 3)
         /\ \A o \in DOMAIN t.at : Layout(t)[o] = t.at[o] /\ t.at[o] \in Names \ NewNames
         /\ \A k \in 1..3 : Layout(t)[End(t, k - 1)] = Calls[k].new
         /\ \A o \in Offsets(t, 3) : Layout(t)[o] \in Names
         /\ \A k \in 1..3 : \A o \in Offsets(t, 3) :
              Layout(t)[o] = Calls[k].new => o = End(t, k - 1)
<1>1. Offsets(t, 3) = DOMAIN t.at \cup {End(t, 0), End(t, 1), End(t, 2)}
  BY DEF Offsets
<1>2. Layout(t) = [o \in Offsets(t, 3) |->
                     IF o = End(t, 0) THEN "hen" ELSE IF o = End(t, 1) THEN "xmb"
                     ELSE IF o = End(t, 2) THEN "rtm" ELSE t.at[o]]
  <2>1. End(t, 0) < End(t, 1) /\ End(t, 1) < End(t, 2) /\ \A k \in 0..2 : End(t, k) \in Nat
    BY EndFacts
  <2> QED BY <1>1, <2>1 DEF Layout, End
<1>3. \A o \in DOMAIN t.at : t.at[o] \in Names \ NewNames
  BY TablesWellFormed DEF WellFormed
<1>4. \A o \in DOMAIN t.at : o # End(t, 0) /\ o # End(t, 1) /\ o # End(t, 2)
  BY EndFacts
<1>5. End(t, 0) # End(t, 1) /\ End(t, 0) # End(t, 2) /\ End(t, 1) # End(t, 2)
  BY EndFacts
<1>6. "hen" \in NewNames /\ "xmb" \in NewNames /\ "rtm" \in NewNames /\ NewNames \subseteq Names
  BY RebootConstants DEF NewNames
<1>7. \A o \in DOMAIN t.at : Layout(t)[o] = t.at[o]
  BY <1>1, <1>2, <1>4
<1>8. /\ Layout(t)[End(t, 0)] = "hen" /\ Layout(t)[End(t, 1)] = "xmb"
      /\ Layout(t)[End(t, 2)] = "rtm"
  BY <1>1, <1>2, <1>5
<1> HIDE DEF Layout
<1>9. \A k \in 1..3 : Layout(t)[End(t, k - 1)] = Calls[k].new
  BY <1>8, CallTable
<1>10. \A o \in Offsets(t, 3) : Layout(t)[o] \in Names
  BY <1>1, <1>3, <1>6, <1>7, <1>8
<1>11. ASSUME NEW k \in 1..3, NEW o \in Offsets(t, 3), Layout(t)[o] = Calls[k].new
       PROVE  o = End(t, k - 1)
  <2>1. o \notin DOMAIN t.at
    BY <1>3, <1>6, <1>7, <1>11, CallTable
  <2>2. o \in {End(t, 0), End(t, 1), End(t, 2)}
    BY <1>1, <2>1
  <2> QED BY <2>2, <1>8, <1>11, CallTable
<1> QED BY <1>2, <1>3, <1>7, <1>9, <1>10, <1>11

-------------------------------------------------------------------------------
(* The entries: what the calls make of the firmware's *)

Entries(t, k) == [off : Offsets(t, k), flags : SUBSET AllModes]

NewEntry(t, j) == [off |-> End(t, j - 1), flags |-> Calls[j].flags]

\* What call j makes of the entries s.
CallMakes(t, j, s) == Before(NewEntry(t, j), Calls[j].after, s, Layout(t))

\* The entries after the first k calls.
Made(t, k) ==
  IF k = 0 THEN t.modules
  ELSE IF k = 1 THEN CallMakes(t, 1, t.modules)
  ELSE IF k = 2 THEN CallMakes(t, 2, CallMakes(t, 1, t.modules))
  ELSE CallMakes(t, 3, CallMakes(t, 2, CallMakes(t, 1, t.modules)))

LEMMA MadeStep ==
  ASSUME NEW t
  PROVE  /\ Made(t, 0) = t.modules
         /\ \A k \in 1..3 : Made(t, k) = CallMakes(t, k, Made(t, k - 1))
BY DEF Made

\* A call that finds its module_after first at place n puts its entry there ...
LEMMA CallInserts ==
  ASSUME NEW t, NEW j, NEW s, NEW n \in 1..Len(s), Len(s) \in Nat,
         Layout(t)[s[n].off] = Calls[j].after,
         \A m \in 1..(n - 1) : Layout(t)[s[m].off] # Calls[j].after
  PROVE  CallMakes(t, j, s) = InsertAt(s, n, NewEntry(t, j))
<1> DEFINE places == {m \in 1..Len(s) : Layout(t)[s[m].off] = Calls[j].after}
<1>1. n \in places /\ \A m \in places : n <= m
  OBVIOUS
<1>2. places \subseteq Nat
  OBVIOUS
<1> HIDE DEF places
<1>3. \A k \in places : (\A m \in places : k <= m) => k = n
  BY <1>1, <1>2
<1>4. Min(places) = n
  BY <1>1, <1>3 DEF Min
<1>5. places # {}
  BY <1>1
<1> QED BY <1>4, <1>5 DEF CallMakes, Before, places

\* ... and one that does not find it changes nothing.
LEMMA CallLeaves ==
  ASSUME NEW t, NEW j, NEW s,
         \A m \in 1..Len(s) : Layout(t)[s[m].off] # Calls[j].after
  PROVE  CallMakes(t, j, s) = s
<1>1. {m \in 1..Len(s) : Layout(t)[s[m].off] = Calls[j].after} = {}
  OBVIOUS
<1> QED BY <1>1 DEF CallMakes, Before

\* A name, of those there are in call j, that the call may take for its module_after.
MisreadIn(t, j) ==
  \E o, p \in Offsets(t, j) : p = o + EntrySize /\ Layout(t)[o] = Calls[j].after

\* There is none in the first k calls.
Clean(t, k) == \A j \in 1..k : ~MisreadIn(t, j)

\* The reference's entry of a call is that of the code.
LEMMA EntryOfCall ==
  ASSUME NEW t \in Tables, NEW j \in 1..3, NEW k \in j..3
  PROVE  EntryOf(Calls[j], LaidOut(t, k)) = NewEntry(t, j)
<1> DEFINE at == LaidOut(t, k)
<1>1. Offsets(t, k) \subseteq Offsets(t, 3) /\ End(t, j - 1) \in Offsets(t, k)
  BY DEF Offsets
<1>2. DOMAIN at = Offsets(t, k) /\ \A o \in Offsets(t, k) : at[o] = Layout(t)[o]
  BY DEF LaidOut
<1>3. \A o \in DOMAIN at : at[o] = Calls[j].new <=> o = End(t, j - 1)
  BY <1>1, <1>2, LayoutFacts
<1>4. (CHOOSE o \in DOMAIN at : at[o] = Calls[j].new) = End(t, j - 1)
  <2> HIDE DEF at
  <2> QED BY <1>1, <1>2, <1>3
<1> QED BY <1>4 DEF EntryOf, NewEntry

\* The reference, which goes by the names in memory at the end, makes the same.
LEMMA ReferenceMakes ==
  ASSUME NEW t \in Tables, NEW j \in 1..3, NEW k \in j..3,
         NEW s \in Seq(Entries(t, k))
  PROVE  AfterCall(Calls[j], s, LaidOut(t, k)) = CallMakes(t, j, s)
<1> DEFINE at == LaidOut(t, k)
<1>1. DOMAIN at = Offsets(t, k) /\ \A o \in Offsets(t, k) : at[o] = Layout(t)[o]
  BY DEF LaidOut
<1>2. EntryOf(Calls[j], at) = NewEntry(t, j)
  BY EntryOfCall
<1>3. \A n \in 1..Len(s) : at[s[n].off] = Layout(t)[s[n].off]
  <2> HIDE DEF at
  <2>1. \A n \in 1..Len(s) : s[n] \in Entries(t, k)
    OBVIOUS
  <2> QED BY <1>1, <2>1 DEF Entries
<1>4. {n \in 1..Len(s) : at[s[n].off] = Calls[j].after}
        = {n \in 1..Len(s) : Layout(t)[s[n].off] = Calls[j].after}
  BY <1>3
<1> HIDE DEF at
<1> QED BY <1>2, <1>4 DEF AfterCall, CallMakes, Before, at

-------------------------------------------------------------------------------
(* The inductive invariant, for the firmware's table t *)

\* How many of HEN's names are there: a call adds its own before it scans.
Added == IF phase = "scan" THEN job ELSE job - 1

\* What this boot was given.
GivenInv(t) ==
  /\ firmware = t.modules /\ mode \in 1..t.nmodes
  /\ bootmode \in BootModes /\ reboot_flags \subseteq AllModes
  /\ reboot_module_after \in Names \cup {"null"}

\* The calls are made in order, all of them.
CallsInv ==
  /\ phase \in {"check", "add", "scan", "load", "read", "close", "kernel"}
  /\ phase = "check" => job = 1
  /\ phase \in {"check", "add", "scan"} => job \in 1..LastJob
  /\ phase \in {"load", "read", "close", "kernel"} => job = LastJob + 1

\* The names are those of the calls so far, and every mode searches all entries.
TableInv(t) ==
  /\ DOMAIN table = {"modules", "at", "modnameend", "nmodes", "maxsearch"}
  /\ table.nmodes = t.nmodes
  /\ table.maxsearch = [m \in 1..t.nmodes |-> Len(table.modules)]
  /\ table.at = LaidOut(t, Added) /\ table.modnameend = End(t, Added)

\* The scan: until module_after is found nothing has changed and it was not passed
\* over; then the entry is there, and wherever i goes nothing is found again.
ScanInv(t) ==
  \/ /\ hits = 0 /\ table.modules = Made(t, job - 1)
     /\ \A n \in 1..i : n <= nmodules => Layout(t)[table.modules[n].off] # Call.after
  \/ hits = 1 /\ table.modules = Made(t, job)

\* The entries have names, and are those the calls should make while none misreads.
ModulesInv(t) ==
  /\ i \in Nat /\ hits \in Nat
  /\ table.modules \in Seq(Entries(t, Added))
  /\ Clean(t, Added) =>
       /\ \A k \in 0..(job - 1) : Made(t, k) \in Seq(Entries(t, k))
       /\ IF phase = "scan" THEN ScanInv(t) ELSE table.modules = Made(t, job - 1)

\* The file of the entry that is loaded is open, in one of the two ways.
OpenInv ==
  LET name == table.at[table.modules[next].off]
  IN  IF phase \in {"read", "close"}
      THEN /\ next <= nmodules /\ Wanted(table.modules[next])
           /\ IF name \in NewNames THEN found = {name} /\ lfat = "none"
              ELSE found = {} /\ lfat = name
      ELSE found = {} /\ lfat = "none"

\* The first n entries are loaded, those that the mode wants.
LoadedTo(n) ==
  /\ Len(loaded) = LoadIndex(table.modules, n)
  /\ \A m \in 1..n : Wanted(table.modules[m]) =>
       loaded[LoadIndex(table.modules, m)] = Loads(table.modules[m], table.at)

LoadInv ==
  /\ loaded \in Seq(Names \X ({"memory", "flash"} \X Names))
  /\ next \in 1..(nmodules + 1)
  /\ phase \in {"check", "add", "scan"} => next = 1
  /\ phase = "kernel" => next = nmodules + 1
  /\ LoadedTo(IF phase = "close" THEN next ELSE next - 1)
  /\ OpenInv

IInv == \E t \in Tables : /\ GivenInv(t) /\ CallsInv /\ TableInv(t)
                          /\ ModulesInv(t) /\ LoadInv

-------------------------------------------------------------------------------
(* What follows from it for a step *)

\* Calls have flags of modes.
LEMMA CallFacts ==
  ASSUME NEW t \in Tables, GivenInv(t), NEW j \in 1..LastJob
  PROVE  j \in 1..3 /\ Calls[j].flags \subseteq AllModes
<1>1. j = 1 \/ j = 2 \/ j = 3
  BY DEF LastJob
<1>2. AllModes \ {"UNK"} \subseteq AllModes /\ {"VSH"} \subseteq AllModes
  BY DEF AllModes
<1> QED BY <1>1, <1>2, CallTable DEF GivenInv

LEMMA OffsetsGrow ==
  ASSUME NEW t, NEW j \in 0..3, NEW k \in j..3
  PROVE  /\ Offsets(t, j) \subseteq Offsets(t, k)
         /\ Entries(t, j) \subseteq Entries(t, k)
         /\ Seq(Entries(t, j)) \subseteq Seq(Entries(t, k))
<1>1. Offsets(t, j) \subseteq Offsets(t, k)
  BY DEF Offsets
<1>2. Entries(t, j) \subseteq Entries(t, k)
  BY <1>1 DEF Entries
<1> QED BY <1>1, <1>2, SeqMonotonic

\* What a step that keeps the request keeps.
LEMMA SameRequest ==
  ASSUME UNCHANGED request
  PROVE  /\ Calls' = Calls /\ LastJob' = LastJob
         /\ \A t, k : Made(t, k)' = Made(t, k) /\ (Clean(t, k)' <=> Clean(t, k))
         /\ \A t : GivenInv(t) => GivenInv(t)'
         /\ \A e : Wanted(e)' <=> Wanted(e)
<1>1. Calls' = Calls /\ LastJob' = LastJob
  BY DEF request, Calls, LastJob
<1>2. \A t, j, s : CallMakes(t, j, s)' = CallMakes(t, j, s)
  BY <1>1 DEF CallMakes, NewEntry
<1>3. \A t, k : Made(t, k)' = Made(t, k) /\ (Clean(t, k)' <=> Clean(t, k))
  BY <1>1, <1>2 DEF Made, Clean, MisreadIn
<1>4. \A t : GivenInv(t) => GivenInv(t)'
  BY DEF GivenInv, request
<1>5. \A e : Wanted(e)' <=> Wanted(e)
  BY DEF Wanted, request
<1> QED BY <1>1, <1>3, <1>4, <1>5

LEMMA SameIndex ==
  ASSUME UNCHANGED request, NEW s, NEW n
  PROVE  LoadIndex(s, n)' = LoadIndex(s, n)
BY DEF LoadIndex, Wanted, request

-------------------------------------------------------------------------------
(* The invariant holds at power on and every step keeps it *)

LEMMA InitInv ==
  ASSUME Init
  PROVE  IInv
<1>1. table \in Tables /\ WellFormed(table)
  BY TablesWellFormed DEF Init
<1>2. GivenInv(table)
  BY RebootConstants DEF Init, GivenInv
<1>3. CallsInv
  BY DEF Init, CallsInv, LastJob
<1>4. Added = 0
  BY DEF Init, Added
<1>5. Offsets(table, 0) = DOMAIN table.at
  BY DEF Offsets
<1>6. table.at = LaidOut(table, 0)
  <2>1. \A o \in DOMAIN table.at : Layout(table)[o] = table.at[o]
    BY <1>1, LayoutFacts
  <2>2. table.at \in [DOMAIN table.at -> Names \ NewNames]
    BY <1>1 DEF WellFormed
  <2> QED BY <1>5, <2>1, <2>2 DEF LaidOut
<1>7. TableInv(table)
  BY <1>1, <1>4, <1>6 DEF TableInv, WellFormed, End
<1>8. Made(table, 0) = table.modules /\ table.modules \in Seq(Entries(table, 0))
  BY <1>1, <1>5 DEF Made, Entries, WellFormed
<1>9. ModulesInv(table)
  BY <1>4, <1>8 DEF ModulesInv, Init
<1>10. LoadInv
  <2>1. nmodules \in Nat
    BY <1>8 DEF nmodules
  <2>2. LoadIndex(table.modules, 0) = 0
    BY LoadIndexFacts
  <2>3. LoadedTo(0)
    BY <2>2 DEF LoadedTo, Init
  <2> QED BY <2>1, <2>3 DEF LoadInv, OpenInv, Init
<1> QED BY <1>1, <1>2, <1>3, <1>7, <1>9, <1>10 DEF IInv

\* The steps before the loader starts leave what it keeps alone.
LEMMA NotLoading ==
  ASSUME LoadInv, phase \in {"check", "add", "scan"},
         phase' \in {"add", "scan", "load"}, UNCHANGED <<request, fileVars, next>>,
         Len(table'.modules) \in Nat
  PROVE  LoadInv'
<1>1. next = 1 /\ next' = 1 /\ Len(loaded) = 0
  <2>1. next = 1 /\ next - 1 = 0
    BY DEF LoadInv
  <2>2. Len(loaded) = LoadIndex(table.modules, 0)
    BY <2>1 DEF LoadInv, LoadedTo
  <2> QED BY <2>1, <2>2, LoadIndexFacts
<1>2. found = {} /\ lfat = "none"
  BY DEF LoadInv, OpenInv
<1>3. LoadIndex(table.modules, 0)' = 0
  <2>1. {m \in 1..0 : Wanted(table.modules[m])}' = {}
    OBVIOUS
  <2> QED BY <2>1, FS_EmptySet DEF LoadIndex
<1>4. LoadedTo(0)'
  BY <1>1, <1>3 DEF LoadedTo, fileVars
<1>5. OpenInv'
  BY <1>2 DEF OpenInv, fileVars
<1>6. 1 \in 1..(nmodules' + 1)
  BY DEF nmodules
<1>7. LoadedTo(IF phase = "close" THEN next ELSE next - 1)'
  BY <1>1, <1>4
<1> QED BY <1>1, <1>5, <1>6, <1>7 DEF LoadInv, fileVars

LEMMA CheckStep ==
  ASSUME NEW t \in Tables, GivenInv(t), CallsInv, TableInv(t), ModulesInv(t), LoadInv,
         CheckPspConfig
  PROVE  (GivenInv(t) /\ CallsInv /\ TableInv(t) /\ ModulesInv(t) /\ LoadInv)'
<1>1. UNCHANGED request /\ UNCHANGED <<table, job, i, hits>> /\ UNCHANGED <<fileVars, next>>
  BY DEF CheckPspConfig, tableVars
<1>2. phase = "check" /\ phase' = "add" /\ Added' = Added
  BY <1>1 DEF CheckPspConfig, Added
<1>3. table.modules \in Seq(Entries(t, Added))
  BY DEF ModulesInv
<1>4. GivenInv(t)' /\ CallsInv'
  BY <1>1, <1>2, SameRequest DEF CallsInv
<1>5. TableInv(t)'
  BY <1>1, <1>2 DEF TableInv
<1>6. ModulesInv(t)'
  <2>1. \A k : Made(t, k)' = Made(t, k) /\ (Clean(t, k)' <=> Clean(t, k))
    BY <1>1, SameRequest
  <2> QED BY <1>1, <1>2, <2>1 DEF ModulesInv
<1>7. LoadInv'
  BY <1>1, <1>2, <1>3, NotLoading DEF fileVars
<1> QED BY <1>4, <1>5, <1>6, <1>7

LEMMA AddStep ==
  ASSUME NEW t \in Tables, GivenInv(t), CallsInv, TableInv(t), ModulesInv(t), LoadInv,
         AddName
  PROVE  (GivenInv(t) /\ CallsInv /\ TableInv(t) /\ ModulesInv(t) /\ LoadInv)'
<1>1. UNCHANGED request /\ UNCHANGED <<fileVars, next>> /\ job' = job
  BY DEF AddName
<1>2. phase = "add" /\ phase' = "scan" /\ i' = 0 /\ hits' = 0
  BY DEF AddName
<1>3. job \in 1..LastJob /\ job \in 1..3 /\ Added = job - 1 /\ Added' = job
  BY <1>1, <1>2, CallFacts DEF CallsInv, Added
<1>4. table' = [table EXCEPT !.at = [o \in DOMAIN table.at \cup {table.modnameend} |->
                                       IF o = table.modnameend THEN Call.new
                                       ELSE table.at[o]],
                             !.modnameend = table.modnameend + NameLen[Call.new]]
  BY DEF AddName
<1>5. /\ DOMAIN table' = DOMAIN table /\ table'.modules = table.modules
      /\ table'.nmodes = table.nmodes /\ table'.maxsearch = table.maxsearch
      /\ table'.modnameend = table.modnameend + NameLen[Call.new]
      /\ table'.at = [o \in DOMAIN table.at \cup {table.modnameend} |->
                        IF o = table.modnameend THEN Call.new ELSE table.at[o]]
  BY <1>4 DEF TableInv
<1>6. table'.modnameend = End(t, job)
  BY <1>3, <1>5, EndFacts DEF TableInv, Call
<1>7. table'.at = LaidOut(t, job)
  <2>1. Offsets(t, job) = Offsets(t, job - 1) \cup {End(t, job - 1)}
    BY <1>3 DEF Offsets
  <2>2. /\ table.at = [o \in Offsets(t, job - 1) |-> Layout(t)[o]]
        /\ table.modnameend = End(t, job - 1)
    BY <1>3 DEF TableInv, LaidOut
  <2>3. Layout(t)[End(t, job - 1)] = Call.new
    BY <1>3, LayoutFacts DEF Call
  <2> QED BY <1>5, <2>1, <2>2, <2>3 DEF LaidOut
<1>8. GivenInv(t)' /\ CallsInv'
  BY <1>1, <1>2, <1>3, SameRequest DEF CallsInv
<1>9. TableInv(t)'
  BY <1>3, <1>5, <1>6, <1>7 DEF TableInv
<1>10. table.modules \in Seq(Entries(t, job - 1)) /\ table.modules \in Seq(Entries(t, job))
  BY <1>3, OffsetsGrow DEF ModulesInv
<1>11. ModulesInv(t)'
  <2>1. \A k : Made(t, k)' = Made(t, k) /\ (Clean(t, k)' <=> Clean(t, k))
    BY <1>1, SameRequest
  <2>2. ASSUME Clean(t, job)
        PROVE  ScanInv(t)' /\ \A k \in 0..(job - 1) : Made(t, k) \in Seq(Entries(t, k))
    <3>1. Clean(t, job - 1)
      BY <1>3, <2>2 DEF Clean
    <3>2. /\ table.modules = Made(t, job - 1)
          /\ \A k \in 0..(job - 1) : Made(t, k) \in Seq(Entries(t, k))
      BY <1>2, <1>3, <3>1 DEF ModulesInv
    <3> QED BY <1>1, <1>2, <1>5, <2>1, <3>2 DEF ScanInv
  <2> QED BY <1>1, <1>2, <1>3, <1>5, <1>10, <2>1, <2>2 DEF ModulesInv
<1>12. LoadInv'
  BY <1>1, <1>2, <1>5, <1>10, NotLoading DEF fileVars
<1> QED BY <1>8, <1>9, <1>11, <1>12

\* Where the scan looks.  Before the insertion it sees the entry's own name; after it
\* a name EntrySize too low, which is the one that is looked for if a name is misread.
LEMMA MatchFacts ==
  ASSUME NEW t \in Tables, GivenInv(t), CallsInv, TableInv(t), ModulesInv(t),
         phase = "scan", i < nmodules
  PROVE  /\ i + 1 \in 1..Len(table.modules)
         /\ hits = 0 => (Matches <=> Layout(t)[table.modules[i + 1].off] = Call.after)
         /\ hits = 1 /\ Matches => MisreadIn(t, job)
<1>1. job \in 1..LastJob /\ job \in 1..3 /\ Added = job
  BY CallFacts DEF CallsInv, Added
<1>2. table.modules \in Seq(Entries(t, job)) /\ i \in Nat
  BY <1>1 DEF ModulesInv
<1>3. i + 1 \in 1..Len(table.modules)
  BY <1>2 DEF nmodules
<1> DEFINE p == table.modules[i + 1].off
<1>4. p \in Offsets(t, job)
  <2>1. table.modules[i + 1] \in Entries(t, job)
    BY <1>2, <1>3
  <2> QED BY <2>1 DEF Entries
<1> HIDE DEF p
<1>5. Offsets(t, job) \subseteq Offsets(t, 3) /\ Offsets(t, 3) \subseteq Nat
  BY <1>1, OffsetsGrow, EndFacts DEF Offsets
<1>6. /\ DOMAIN table.at = Offsets(t, job)
      /\ \A o \in Offsets(t, job) : table.at[o] = Layout(t)[o]
  BY <1>1 DEF TableInv, LaidOut
<1>7. EntrySize \in Nat \ {0}
  BY RebootConstants
<1>8. ASSUME hits = 0
      PROVE  Matches <=> Layout(t)[p] = Call.after
  <2>1. p - hits * EntrySize = p
    BY <1>4, <1>5, <1>7, <1>8
  <2> QED BY <1>4, <1>6, <2>1 DEF Matches, p
<1>9. ASSUME hits = 1, Matches
      PROVE  MisreadIn(t, job)
  <2> DEFINE o == p - EntrySize
  <2>1. p - hits * EntrySize = o
    BY <1>4, <1>5, <1>7, <1>9
  <2>2. o \in Offsets(t, job) /\ Layout(t)[o] = Calls[job].after
    BY <1>6, <1>9, <2>1 DEF Matches, p, Call
  <2>3. p = o + EntrySize
    BY <1>4, <1>5, <1>7
  <2> QED BY <1>4, <2>2, <2>3 DEF MisreadIn
<1> QED BY <1>3, <1>8, <1>9 DEF p

LEMMA MissStep ==
  ASSUME NEW t \in Tables, GivenInv(t), CallsInv, TableInv(t), ModulesInv(t), LoadInv,
         ScanMiss
  PROVE  (GivenInv(t) /\ CallsInv /\ TableInv(t) /\ ModulesInv(t) /\ LoadInv)'
<1>1. UNCHANGED request /\ UNCHANGED <<table, job, hits, phase, fileVars, next>>
  BY DEF ScanMiss
<1>2. phase = "scan" /\ i < nmodules /\ ~Matches /\ i' = i + 1 /\ Added' = Added
  BY <1>1 DEF ScanMiss, Added
<1>3. GivenInv(t)' /\ CallsInv' /\ TableInv(t)'
  BY <1>1, <1>2, SameRequest DEF CallsInv, TableInv
<1>4. \A k : Made(t, k)' = Made(t, k) /\ (Clean(t, k)' <=> Clean(t, k))
  BY <1>1, SameRequest
<1>5. Call' = Call /\ nmodules' = nmodules
  BY <1>1, SameRequest DEF Call, nmodules
<1>6. ASSUME Clean(t, Added)
      PROVE  ScanInv(t)'
  <2>1. ScanInv(t) /\ i \in Nat
    BY <1>2, <1>6 DEF ModulesInv
  <2>2. CASE hits = 1 /\ table.modules = Made(t, job)
    BY <1>1, <1>2, <1>4, <2>1, <2>2 DEF ScanInv
  <2>3. CASE /\ hits = 0 /\ table.modules = Made(t, job - 1)
             /\ \A n \in 1..i : n <= nmodules =>
                  Layout(t)[table.modules[n].off] # Call.after
    <3>1. Layout(t)[table.modules[i + 1].off] # Call.after
      BY <1>2, <2>3, MatchFacts
    <3>2. \A n \in 1..(i + 1) : n \in 1..i \/ n = i + 1
      BY <2>1
    <3>3. \A n \in 1..(i + 1) : n <= nmodules =>
            Layout(t)[table.modules[n].off] # Call.after
      BY <2>3, <3>1, <3>2
    <3> QED BY <1>1, <1>2, <1>4, <1>5, <2>1, <2>3, <3>3 DEF ScanInv
  <2> QED BY <2>1, <2>2, <2>3 DEF ScanInv
<1>7. ModulesInv(t)'
  BY <1>1, <1>2, <1>4, <1>6 DEF ModulesInv
<1>8. LoadInv'
  <2>1. table'.modules \in Seq(Entries(t, Added))
    BY <1>1 DEF ModulesInv
  <2> QED BY <1>1, <1>2, <2>1, NotLoading DEF fileVars
<1> QED BY <1>3, <1>7, <1>8

LEMMA HitStep ==
  ASSUME NEW t \in Tables, GivenInv(t), CallsInv, TableInv(t), ModulesInv(t), LoadInv,
         ScanHit
  PROVE  (GivenInv(t) /\ CallsInv /\ TableInv(t) /\ ModulesInv(t) /\ LoadInv)'
<1>1. UNCHANGED request /\ UNCHANGED <<job, phase, fileVars, next>>
  BY DEF ScanHit
<1>2. /\ phase = "scan" /\ i < nmodules /\ Matches /\ Added' = Added /\ Added = job
      /\ hits' = hits + 1 /\ i' = table.nmodes + 1
  BY <1>1 DEF ScanHit, Added
<1>3. /\ job \in 1..LastJob /\ job \in 1..3 /\ Calls[job].flags \subseteq AllModes
  BY <1>2, CallFacts DEF CallsInv
<1>4. i + 1 \in 1..Len(table.modules)
  BY <1>2, MatchFacts
<1>5. ASSUME Clean(t, job)
      PROVE  /\ hits = 0 /\ table.modules = Made(t, job - 1)
             /\ \A n \in 1..i : n <= nmodules => Layout(t)[table.modules[n].off] # Call.after
             /\ Layout(t)[table.modules[i + 1].off] = Call.after
  <2>1. ~MisreadIn(t, job)
    BY <1>3, <1>5 DEF Clean
  <2>2. ScanInv(t)
    BY <1>2, <1>5 DEF ModulesInv
  <2> QED BY <1>2, <2>1, <2>2, MatchFacts DEF ScanInv
<1>6. table.modules \in Seq(Entries(t, job)) /\ Len(table.modules) \in Nat
  BY <1>2 DEF ModulesInv
<1> DEFINE made == InsertAt(table.modules, i + 1, NewEntry(t, job))
<1>7. ASSUME Clean(t, job)
      PROVE  hits = 0 /\ made = Made(t, job)
  <2>1. \A m \in 1..((i + 1) - 1) : Layout(t)[table.modules[m].off] # Calls[job].after
    <3>1. \A n \in 1..i : n <= nmodules => Layout(t)[table.modules[n].off] # Call.after
      BY <1>5, <1>7
    <3>2. i \in Nat /\ nmodules \in Nat
      BY <1>6 DEF ModulesInv, nmodules
    <3> QED BY <1>4, <3>1, <3>2 DEF nmodules, Call
  <2>2. CallMakes(t, job, table.modules) = made
    BY <1>4, <1>5, <1>6, <1>7, <2>1, CallInserts DEF Call
  <2> QED BY <1>3, <1>5, <1>7, <2>2, MadeStep
<1>8. NewEntry(t, job) \in Entries(t, job)
  <2>1. End(t, job - 1) \in Offsets(t, job)
    BY <1>3 DEF Offsets
  <2> QED BY <1>3, <2>1 DEF NewEntry, Entries
<1>9. made \in Seq(Entries(t, job)) /\ Len(made) = Len(table.modules) + 1
  BY <1>4, <1>6, <1>8, InsertAtFacts
<1>10. [off |-> NewOffset, flags |-> Call.flags] = NewEntry(t, job)
  <2>1. table.modnameend = End(t, job) /\ End(t, job) = End(t, job - 1) + NameLen[Call.new]
    BY <1>2, <1>3, EndFacts DEF TableInv, Call
  <2>2. End(t, job - 1) \in Nat /\ NameLen[Call.new] \in Nat
    <3>1. Call.new \in Names
      BY <1>3, CallTable, RebootConstants DEF Call, NewNames
    <3> QED BY <1>3, <3>1, EndFacts, RebootConstants
  <2> QED BY <2>1, <2>2 DEF NewOffset, NewEntry, Call
<1>11. table' = [table EXCEPT !.modules = made,
                              !.maxsearch = [m \in DOMAIN table.maxsearch |->
                                               table.maxsearch[m] + 1]]
  BY <1>10 DEF ScanHit, Inserted
<1> HIDE DEF made
<1>12. /\ DOMAIN table' = DOMAIN table /\ table'.modules = made
       /\ table'.nmodes = table.nmodes /\ table'.at = table.at
       /\ table'.modnameend = table.modnameend
       /\ table'.maxsearch = [m \in DOMAIN table.maxsearch |-> table.maxsearch[m] + 1]
  BY <1>11 DEF TableInv
<1>13. TableInv(t)'
  <2>1. table'.maxsearch = [m \in 1..t.nmodes |-> Len(made)]
    BY <1>9, <1>12 DEF TableInv
  <2> QED BY <1>2, <1>12, <2>1 DEF TableInv
<1>14. GivenInv(t)' /\ CallsInv'
  BY <1>1, <1>2, SameRequest DEF CallsInv
<1>15. ModulesInv(t)'
  <2>1. \A k : Made(t, k)' = Made(t, k) /\ (Clean(t, k)' <=> Clean(t, k))
    BY <1>1, SameRequest
  <2>2. ASSUME Clean(t, job)
        PROVE  ScanInv(t)'
    BY <1>1, <1>2, <1>7, <1>12, <2>1, <2>2 DEF ScanInv
  <2>3. i' \in Nat /\ hits' \in Nat
    <3>1. table.nmodes \in Nat
      BY TablesWellFormed DEF TableInv, WellFormed
    <3> QED BY <1>2, <3>1 DEF ModulesInv
  <2> QED BY <1>1, <1>2, <1>9, <1>12, <2>1, <2>2, <2>3 DEF ModulesInv
<1>16. LoadInv'
  BY <1>1, <1>2, <1>9, <1>12, NotLoading DEF fileVars
<1> QED BY <1>13, <1>14, <1>15, <1>16

LEMMA EndsStep ==
  ASSUME NEW t \in Tables, GivenInv(t), CallsInv, TableInv(t), ModulesInv(t), LoadInv,
         ScanEnds
  PROVE  (GivenInv(t) /\ CallsInv /\ TableInv(t) /\ ModulesInv(t) /\ LoadInv)'
<1>1. UNCHANGED request /\ UNCHANGED <<table, i, hits, fileVars, next>>
  BY DEF ScanEnds
<1>2. /\ phase = "scan" /\ i >= nmodules /\ job' = job + 1 /\ Added = job
      /\ phase' = IF job = LastJob THEN "load" ELSE "add"
  BY DEF ScanEnds, Added
<1>3. job \in 1..LastJob /\ job \in 1..3 /\ LastJob \in {2, 3}
  BY <1>2, CallFacts DEF CallsInv, LastJob
<1>4. Added' = job /\ phase' \in {"add", "load"}
  BY <1>2, <1>3 DEF Added
<1>5. table.modules \in Seq(Entries(t, job)) /\ Len(table.modules) \in Nat
  BY <1>2 DEF ModulesInv
<1>6. ASSUME Clean(t, job)
      PROVE  table.modules = Made(t, job)
  <2>1. CASE hits = 1 /\ table.modules = Made(t, job)
    BY <2>1
  <2>2. CASE /\ table.modules = Made(t, job - 1)
             /\ \A n \in 1..i : n <= nmodules =>
                  Layout(t)[table.modules[n].off] # Call.after
    <3>1. i \in Nat
      BY DEF ModulesInv
    <3>2. \A n \in 1..Len(table.modules) :
            Layout(t)[table.modules[n].off] # Calls[job].after
      BY <1>2, <1>5, <2>2, <3>1 DEF nmodules, Call
    <3> QED BY <1>3, <2>2, <3>2, CallLeaves, MadeStep
  <2> QED BY <1>2, <1>6, <2>1, <2>2 DEF ModulesInv, ScanInv
<1>7. GivenInv(t)' /\ TableInv(t)'
  BY <1>1, <1>2, <1>4, SameRequest DEF TableInv
<1>8. CallsInv'
  <2>1. LastJob' = LastJob
    BY <1>1, SameRequest
  <2> QED BY <1>2, <1>3, <2>1 DEF CallsInv
<1>9. ModulesInv(t)'
  <2>1. \A k : Made(t, k)' = Made(t, k) /\ (Clean(t, k)' <=> Clean(t, k))
    BY <1>1, SameRequest
  <2>2. ASSUME Clean(t, job)
        PROVE  \A k \in 0..job : Made(t, k) \in Seq(Entries(t, k))
    <3>1. \A k \in 0..(job - 1) : Made(t, k) \in Seq(Entries(t, k))
      BY <1>2, <2>2 DEF ModulesInv
    <3>2. \A k \in 0..job : k \in 0..(job - 1) \/ k = job
      BY <1>3
    <3> QED BY <1>5, <1>6, <2>2, <3>1, <3>2
  <2>3. phase' # "scan" /\ job' - 1 = job
    BY <1>2, <1>3, <1>4
  <2> QED BY <1>1, <1>4, <1>5, <1>6, <2>1, <2>2, <2>3 DEF ModulesInv
<1>10. LoadInv'
  BY <1>1, <1>2, <1>4, <1>5, NotLoading DEF fileVars
<1> QED BY <1>7, <1>8, <1>9, <1>10

\* The loader changes nothing but its own progress ...
LEMMA LoaderKeeps ==
  ASSUME NEW t \in Tables, GivenInv(t), CallsInv, TableInv(t), ModulesInv(t),
         UNCHANGED <<tableVars, request>>,
         phase \in {"load", "read", "close"}, phase' \in {"load", "read", "close", "kernel"}
  PROVE  /\ (GivenInv(t) /\ CallsInv /\ TableInv(t) /\ ModulesInv(t))'
         /\ table' = table /\ nmodules' = nmodules /\ table'.modules = table.modules
         /\ \A e : Wanted(e)' <=> Wanted(e)
<1>1. UNCHANGED request /\ table' = table /\ job' = job /\ i' = i /\ hits' = hits
  BY DEF tableVars
<1>2. Added' = Added /\ LastJob' = LastJob
  BY <1>1, SameRequest DEF Added
<1>3. GivenInv(t)' /\ CallsInv' /\ TableInv(t)'
  BY <1>1, <1>2, SameRequest DEF CallsInv, TableInv
<1>4. ModulesInv(t)'
  <2>1. \A k : Made(t, k)' = Made(t, k) /\ (Clean(t, k)' <=> Clean(t, k))
    BY <1>1, SameRequest
  <2> QED BY <1>1, <1>2, <2>1 DEF ModulesInv
<1> QED BY <1>1, <1>3, <1>4, SameRequest DEF nmodules

LEMMA StillLoaded ==
  ASSUME table' = table, UNCHANGED request, NEW n,
         n = IF phase' = "close" THEN next' ELSE next' - 1,
         Len(loaded') = LoadIndex(table.modules, n),
         \A m \in 1..n : Wanted(table.modules[m]) =>
           loaded'[LoadIndex(table.modules, m)] = Loads(table.modules[m], table.at)
  PROVE  LoadedTo(IF phase = "close" THEN next ELSE next - 1)'
BY DEF LoadedTo, LoadIndex, Loads, Wanted, request

\* ... and is at an entry of its mode whose name is one of the names.
LEMMA AtFacts ==
  ASSUME NEW t \in Tables, GivenInv(t), CallsInv, TableInv(t), ModulesInv(t), LoadInv,
         phase \in {"load", "read", "close"}
  PROVE  /\ table.maxsearch[mode] = nmodules /\ nmodules \in Nat
         /\ next \in Nat \ {0}
         /\ next <= nmodules => table.at[table.modules[next].off] \in Names
<1>1. nmodules \in Nat /\ table.modules \in Seq(Entries(t, Added))
  BY DEF ModulesInv, nmodules
<1>2. table.maxsearch[mode] = nmodules
  BY DEF GivenInv, TableInv, nmodules
<1>3. next \in Nat \ {0}
  BY <1>1 DEF LoadInv
<1>4. ASSUME next <= nmodules
      PROVE  table.at[table.modules[next].off] \in Names
  <2>1. Added \in 0..3
    BY DEF CallsInv, Added, LastJob
  <2>2. table.modules[next] \in Entries(t, Added)
    BY <1>1, <1>3, <1>4 DEF nmodules
  <2>3. table.modules[next].off \in Offsets(t, Added)
    BY <2>2 DEF Entries
  <2>4. Offsets(t, Added) \subseteq Offsets(t, 3)
    BY <2>1, OffsetsGrow
  <2> QED BY <2>3, <2>4, LayoutFacts DEF TableInv, LaidOut
<1> QED BY <1>1, <1>2, <1>3, <1>4

LEMMA SkipStep ==
  ASSUME NEW t \in Tables, GivenInv(t), CallsInv, TableInv(t), ModulesInv(t), LoadInv,
         SkipModule
  PROVE  (GivenInv(t) /\ CallsInv /\ TableInv(t) /\ ModulesInv(t) /\ LoadInv)'
<1>1. /\ phase = "load" /\ phase' = "load" /\ ~Wanted(table.modules[next])
      /\ UNCHANGED <<tableVars, request>> /\ UNCHANGED fileVars
      /\ next' = next + 1
  BY DEF SkipModule
<1>2. next \in Nat \ {0} /\ next <= nmodules /\ nmodules \in Nat
  BY <1>1, AtFacts DEF SkipModule
<1>3. /\ (GivenInv(t) /\ CallsInv /\ TableInv(t) /\ ModulesInv(t))'
      /\ table' = table /\ nmodules' = nmodules
  BY <1>1, LoaderKeeps
<1>4. LoadedTo(IF phase = "close" THEN next ELSE next - 1)'
  <2>1. LoadedTo(next - 1)
    BY <1>1 DEF LoadInv
  <2>2. (next - 1) + 1 = next /\ next - 1 \in Nat
    BY <1>2
  <2>3. LoadIndex(table.modules, next) = LoadIndex(table.modules, next - 1)
    BY <1>1, <2>2, LoadIndexFacts
  <2>4. \A m \in 1..next : m \in 1..(next - 1) \/ m = next
    BY <1>2
  <2>5. loaded' = loaded
    BY <1>1 DEF fileVars
  <2>6. /\ Len(loaded') = LoadIndex(table.modules, next)
        /\ \A m \in 1..next : Wanted(table.modules[m]) =>
             loaded'[LoadIndex(table.modules, m)] = Loads(table.modules[m], table.at)
    BY <1>1, <2>1, <2>3, <2>4, <2>5 DEF LoadedTo
  <2>7. next = IF phase' = "close" THEN next' ELSE next' - 1
    BY <1>1, <1>2
  <2> QED BY <1>1, <1>3, <2>6, <2>7, StillLoaded
<1>5. OpenInv'
  BY <1>1 DEF LoadInv, OpenInv, fileVars
<1>6. next' \in 1..(nmodules' + 1)
  BY <1>1, <1>2, <1>3
<1> QED BY <1>1, <1>3, <1>4, <1>5, <1>6 DEF LoadInv, fileVars

LEMMA OpenStep ==
  ASSUME NEW t \in Tables, GivenInv(t), CallsInv, TableInv(t), ModulesInv(t), LoadInv,
         OpenModule
  PROVE  (GivenInv(t) /\ CallsInv /\ TableInv(t) /\ ModulesInv(t) /\ LoadInv)'
<1>1. /\ phase = "load" /\ phase' = "read" /\ Wanted(table.modules[next])
      /\ UNCHANGED <<tableVars, request>> /\ UNCHANGED <<loaded, next>>
      /\ OpenPatched(table.at[table.modules[next].off])
  BY DEF OpenModule
<1>2. next \in Nat \ {0} /\ next <= nmodules /\ nmodules \in Nat
  BY <1>1, AtFacts DEF OpenModule
<1>3. /\ (GivenInv(t) /\ CallsInv /\ TableInv(t) /\ ModulesInv(t))'
      /\ table' = table /\ nmodules' = nmodules /\ \A e : Wanted(e)' <=> Wanted(e)
  BY <1>1, LoaderKeeps
<1>4. LoadedTo(IF phase = "close" THEN next ELSE next - 1)'
  <2>1. LoadedTo(next - 1)
    BY <1>1 DEF LoadInv
  <2>2. /\ Len(loaded') = LoadIndex(table.modules, next - 1)
        /\ \A m \in 1..(next - 1) : Wanted(table.modules[m]) =>
             loaded'[LoadIndex(table.modules, m)] = Loads(table.modules[m], table.at)
    BY <1>1, <2>1 DEF LoadedTo
  <2>3. next - 1 = IF phase' = "close" THEN next' ELSE next' - 1
    BY <1>1
  <2> QED BY <1>1, <1>3, <2>2, <2>3, StillLoaded
<1>5. OpenInv'
  <2> DEFINE name == table.at[table.modules[next].off]
  <2>1. name' = name
    BY <1>1, <1>3
  <2>2. found = {} /\ lfat = "none"
    BY <1>1 DEF LoadInv, OpenInv
  <2>3. IF name \in NewNames THEN found' = {name} /\ lfat' = "none"
        ELSE found' = {} /\ lfat' = name
    BY <1>1, <2>2 DEF OpenPatched
  <2>4. Wanted(table.modules[next])' /\ next' <= nmodules'
    BY <1>1, <1>2, <1>3 DEF Wanted, request
  <2> QED BY <1>1, <2>1, <2>3, <2>4 DEF OpenInv
<1> QED BY <1>1, <1>2, <1>3, <1>4, <1>5 DEF LoadInv

LEMMA ReadStep ==
  ASSUME NEW t \in Tables, GivenInv(t), CallsInv, TableInv(t), ModulesInv(t), LoadInv,
         ReadModule
  PROVE  (GivenInv(t) /\ CallsInv /\ TableInv(t) /\ ModulesInv(t) /\ LoadInv)'
<1> DEFINE name == table.at[table.modules[next].off]
<1>1. /\ phase = "read" /\ phase' = "close"
      /\ UNCHANGED <<tableVars, request>> /\ UNCHANGED <<found, lfat, next>>
      /\ loaded' = Append(loaded, <<name, ReadPatched>>)
  BY DEF ReadModule
<1>2. /\ next \in Nat \ {0} /\ nmodules \in Nat /\ Wanted(table.modules[next])
      /\ next <= nmodules /\ name \in Names
  BY <1>1, AtFacts DEF LoadInv, OpenInv
<1>3. /\ (GivenInv(t) /\ CallsInv /\ TableInv(t) /\ ModulesInv(t))'
      /\ table' = table /\ nmodules' = nmodules /\ \A e : Wanted(e)' <=> Wanted(e)
  BY <1>1, LoaderKeeps
<1>4. <<name, ReadPatched>> = Loads(table.modules[next], table.at)
  <2>1. IF name \in NewNames THEN found = {name} ELSE found = {} /\ lfat = name
    BY <1>1 DEF LoadInv, OpenInv
  <2>2. ASSUME name \in NewNames
        PROVE  ReadPatched = <<"memory", name>>
    BY <2>1, <2>2 DEF ReadPatched, First, NewNames
  <2>3. ASSUME name \notin NewNames
        PROVE  ReadPatched = <<"flash", name>>
    BY <2>1, <2>3 DEF ReadPatched
  <2> QED BY <2>2, <2>3 DEF Loads
<1>5. Loads(table.modules[next], table.at) \in Names \X ({"memory", "flash"} \X Names)
  BY <1>2 DEF Loads
<1> DEFINE file == Loads(table.modules[next], table.at)
<1>6. loaded \in Seq(Names \X ({"memory", "flash"} \X Names)) /\ loaded' = Append(loaded, file)
  BY <1>1, <1>4 DEF LoadInv
<1> HIDE DEF file, name
<1>7. /\ loaded' \in Seq(Names \X ({"memory", "flash"} \X Names))
      /\ Len(loaded') = Len(loaded) + 1 /\ Len(loaded) \in Nat
      /\ \A n \in 1..Len(loaded) : loaded'[n] = loaded[n]
      /\ loaded'[Len(loaded) + 1] = file
  BY <1>5, <1>6 DEF file
<1>8. LoadedTo(IF phase = "close" THEN next ELSE next - 1)'
  <2>1. LoadedTo(next - 1)
    BY <1>1 DEF LoadInv
  <2>2. (next - 1) + 1 = next /\ next - 1 \in Nat
    BY <1>2
  <2>3. LoadIndex(table.modules, next) = LoadIndex(table.modules, next - 1) + 1
    BY <1>2, <2>2, LoadIndexFacts
  <2>4. Len(loaded) = LoadIndex(table.modules, next - 1)
    BY <2>1 DEF LoadedTo
  <2>5. ASSUME NEW m \in 1..(next - 1), Wanted(table.modules[m])
        PROVE  loaded'[LoadIndex(table.modules, m)] = Loads(table.modules[m], table.at)
    <3>1. m \in Nat \ {0} /\ m <= next - 1
      BY <2>2
    <3>2. LoadIndex(table.modules, m) \in Nat /\ LoadIndex(table.modules, m) >= 1
      BY <2>5, <3>1, LoadIndexFacts
    <3>3. LoadIndex(table.modules, m) <= LoadIndex(table.modules, next - 1)
      BY <2>2, <3>1, LoadIndexFacts
    <3>4. LoadIndex(table.modules, m) \in 1..Len(loaded)
      BY <1>7, <2>4, <3>2, <3>3
    <3> QED BY <1>7, <2>1, <2>5, <3>4 DEF LoadedTo
  <2>6. loaded'[LoadIndex(table.modules, next)] = Loads(table.modules[next], table.at)
    BY <1>7, <2>3, <2>4 DEF file
  <2>7. \A m \in 1..next : m \in 1..(next - 1) \/ m = next
    BY <1>2
  <2>8. /\ Len(loaded') = LoadIndex(table.modules, next)
        /\ \A m \in 1..next : Wanted(table.modules[m]) =>
             loaded'[LoadIndex(table.modules, m)] = Loads(table.modules[m], table.at)
    BY <1>7, <2>3, <2>4, <2>5, <2>6, <2>7
  <2>9. next = IF phase' = "close" THEN next' ELSE next' - 1
    BY <1>1
  <2> QED BY <1>1, <1>3, <2>8, <2>9, StillLoaded
<1>9. OpenInv'
  <2>1. Wanted(table.modules[next])' /\ next' <= nmodules'
    BY <1>1, <1>2, <1>3 DEF Wanted, request
  <2> QED BY <1>1, <1>3, <2>1 DEF LoadInv, OpenInv
<1> QED BY <1>1, <1>2, <1>3, <1>7, <1>8, <1>9 DEF LoadInv

LEMMA CloseStep ==
  ASSUME NEW t \in Tables, GivenInv(t), CallsInv, TableInv(t), ModulesInv(t), LoadInv,
         CloseModule
  PROVE  (GivenInv(t) /\ CallsInv /\ TableInv(t) /\ ModulesInv(t) /\ LoadInv)'
<1>1. /\ phase = "close" /\ phase' = "load" /\ next' = next + 1
      /\ UNCHANGED <<tableVars, request>> /\ loaded' = loaded /\ ClosePatched
  BY DEF CloseModule
<1>2. next \in Nat \ {0} /\ nmodules \in Nat /\ next <= nmodules
  BY <1>1, AtFacts DEF LoadInv, OpenInv
<1>3. /\ (GivenInv(t) /\ CallsInv /\ TableInv(t) /\ ModulesInv(t))'
      /\ table' = table /\ nmodules' = nmodules
  BY <1>1, LoaderKeeps
<1>4. LoadedTo(IF phase = "close" THEN next ELSE next - 1)'
  <2>1. LoadedTo(next)
    BY <1>1 DEF LoadInv
  <2>2. /\ Len(loaded') = LoadIndex(table.modules, next)
        /\ \A m \in 1..next : Wanted(table.modules[m]) =>
             loaded'[LoadIndex(table.modules, m)] = Loads(table.modules[m], table.at)
    BY <1>1, <2>1 DEF LoadedTo
  <2>3. next = IF phase' = "close" THEN next' ELSE next' - 1
    BY <1>1, <1>2
  <2> QED BY <1>1, <1>3, <2>2, <2>3, StillLoaded
<1>5. OpenInv'
  <2> DEFINE name == table.at[table.modules[next].off]
  <2>1. IF name \in NewNames THEN found = {name} /\ lfat = "none"
        ELSE found = {} /\ lfat = name
    BY <1>1 DEF LoadInv, OpenInv
  <2> HIDE DEF name
  <2>2. found' = {} /\ lfat' = "none"
    BY <1>1, <2>1 DEF ClosePatched, First, NewNames
  <2> QED BY <1>1, <2>2 DEF OpenInv
<1>6. next' \in 1..(nmodules' + 1)
  BY <1>1, <1>2, <1>3
<1> QED BY <1>1, <1>3, <1>4, <1>5, <1>6 DEF LoadInv

LEMMA LoaderStep ==
  ASSUME NEW t \in Tables, GivenInv(t), CallsInv, TableInv(t), ModulesInv(t), LoadInv,
         LoaderEnds
  PROVE  (GivenInv(t) /\ CallsInv /\ TableInv(t) /\ ModulesInv(t) /\ LoadInv)'
<1>1. /\ phase = "load" /\ phase' = "kernel" /\ next > table.maxsearch[mode]
      /\ UNCHANGED <<tableVars, request>> /\ UNCHANGED <<found, lfat, loaded>> /\ next' = next
  BY DEF LoaderEnds, fileVars
<1>2. next = nmodules + 1 /\ nmodules \in Nat
  BY <1>1, AtFacts DEF LoadInv
<1>3. /\ (GivenInv(t) /\ CallsInv /\ TableInv(t) /\ ModulesInv(t))'
      /\ table' = table /\ nmodules' = nmodules
  BY <1>1, LoaderKeeps
<1>4. LoadedTo(IF phase = "close" THEN next ELSE next - 1)'
  <2>1. LoadedTo(next - 1)
    BY <1>1 DEF LoadInv
  <2>2. /\ Len(loaded') = LoadIndex(table.modules, next - 1)
        /\ \A m \in 1..(next - 1) : Wanted(table.modules[m]) =>
             loaded'[LoadIndex(table.modules, m)] = Loads(table.modules[m], table.at)
    BY <1>1, <2>1 DEF LoadedTo
  <2>3. next - 1 = IF phase' = "close" THEN next' ELSE next' - 1
    BY <1>1
  <2> QED BY <1>1, <1>3, <2>2, <2>3, StillLoaded
<1>5. OpenInv'
  BY <1>1 DEF LoadInv, OpenInv
<1> QED BY <1>1, <1>2, <1>3, <1>4, <1>5 DEF LoadInv

LEMMA StepInv ==
  ASSUME IInv, [Next]_vars
  PROVE  IInv'
<1>1. PICK t \in Tables : GivenInv(t) /\ CallsInv /\ TableInv(t) /\ ModulesInv(t) /\ LoadInv
  BY DEF IInv
<1> SUFFICES (GivenInv(t) /\ CallsInv /\ TableInv(t) /\ ModulesInv(t) /\ LoadInv)'
  BY DEF IInv
<1>2. CASE CheckPspConfig
  BY <1>1, <1>2, CheckStep
<1>3. CASE Insert
  BY <1>1, <1>3, AddStep, MissStep, HitStep, EndsStep DEF Insert
<1>4. CASE Load
  BY <1>1, <1>4, SkipStep, OpenStep, ReadStep, CloseStep, LoaderStep DEF Load
<1>5. CASE UNCHANGED vars
  <2>1. /\ UNCHANGED request
        /\ UNCHANGED <<table, job, i, hits, phase, found, lfat, loaded, next>>
    BY <1>5 DEF vars, tableVars, fileVars
  <2>2. \A t1, k : Made(t1, k)' = Made(t1, k) /\ (Clean(t1, k)' <=> Clean(t1, k))
    BY <2>1, SameRequest
  <2>3. GivenInv(t)' /\ Call' = Call /\ LastJob' = LastJob /\ \A e : Wanted(e)' <=> Wanted(e)
    BY <1>1, <2>1, SameRequest DEF Call
  <2>4. CallsInv' /\ TableInv(t)'
    BY <1>1, <2>1, <2>3 DEF CallsInv, TableInv, Added
  <2>5. ModulesInv(t)'
    BY <1>1, <2>1, <2>2, <2>3 DEF ModulesInv, ScanInv, Added, nmodules
  <2>6. LoadInv'
    BY <1>1, <2>1, <2>3
       DEF LoadInv, OpenInv, LoadedTo, LoadIndex, Loads, Wanted, nmodules, request
  <2> QED BY <2>3, <2>4, <2>5, <2>6
<1> QED BY <1>2, <1>3, <1>4, <1>5 DEF Next

\* In every state the calls so far have made of the firmware's table what the reference
\* makes, unless one of them had a name to misread, and the modules so far are loaded.
THEOREM Inductive == Spec => []IInv
<1>1. Init => IInv
  BY InitInv
<1>2. IInv /\ [Next]_vars => IInv'
  BY StepInv
<1> QED BY <1>1, <1>2, PTL DEF Spec

-------------------------------------------------------------------------------
(* What the calls and the loader do *)

\* When the calls are done, and none had a name to misread, the table is the reference's.
LEMMA MadeAsAsked ==
  ASSUME NEW t \in Tables, GivenInv(t), CallsInv, TableInv(t), ModulesInv(t),
         phase \in {"load", "read", "close", "kernel"}, Clean(t, LastJob)
  PROVE  table.modules = Expected
<1>1. /\ job = LastJob + 1 /\ LastJob \in {2, 3} /\ Added = LastJob
  BY DEF CallsInv, Added, LastJob
<1>2. table.at = LaidOut(t, LastJob) /\ firmware = Made(t, 0)
  BY <1>1 DEF TableInv, GivenInv, Made
<1>3. \A k \in 0..LastJob : Made(t, k) \in Seq(Entries(t, k))
  BY <1>1 DEF ModulesInv
<1>4. ASSUME NEW k \in 1..LastJob
      PROVE  AfterCall(Calls[k], Made(t, k - 1), table.at) = Made(t, k)
  <2>1. k \in 1..3 /\ k - 1 \in 0..LastJob /\ LastJob \in k..3
    BY <1>1
  <2>2. Made(t, k - 1) \in Seq(Entries(t, LastJob))
    <3>1. Seq(Entries(t, k - 1)) \subseteq Seq(Entries(t, LastJob))
      BY <2>1, OffsetsGrow
    <3> QED BY <1>3, <2>1, <3>1
  <2> QED BY <1>2, <2>1, <2>2, ReferenceMakes, MadeStep
<1>5. Expected = Made(t, LastJob)
  <2>1. /\ AfterCall(Calls[1], Made(t, 0), table.at) = Made(t, 1)
        /\ AfterCall(Calls[2], Made(t, 1), table.at) = Made(t, 2)
    <3>1. 1 \in 1..LastJob /\ 2 \in 1..LastJob /\ 1 - 1 = 0 /\ 2 - 1 = 1
      BY <1>1
    <3>2. /\ AfterCall(Calls[1], Made(t, 1 - 1), table.at) = Made(t, 1)
          /\ AfterCall(Calls[2], Made(t, 2 - 1), table.at) = Made(t, 2)
      BY <1>4, <3>1
    <3> QED BY <3>1, <3>2
  <2>2. CASE reboot_module_after = "null"
    BY <1>2, <2>1, <2>2 DEF Expected, LastJob
  <2>3. CASE reboot_module_after # "null"
    <3>1. LastJob = 3 /\ 3 \in 1..LastJob /\ 3 - 1 = 2
      BY <2>3 DEF LastJob
    <3>2. AfterCall(Calls[3], Made(t, 3 - 1), table.at) = Made(t, 3)
      BY <1>4, <3>1
    <3> QED BY <1>2, <2>1, <2>3, <3>1, <3>2 DEF Expected
  <2> QED BY <2>2, <2>3
<1> QED BY <1>1, <1>3, <1>5 DEF ModulesInv

\* What may be misread during a call is seen in the names at the end.
LEMMA MisreadSeen ==
  ASSUME NEW t \in Tables, NEW j \in 1..3, NEW k \in j..3, MisreadIn(t, j)
  PROVE  Misread(Calls[j], LaidOut(t, k))
<1>1. PICK o \in Offsets(t, j), p \in Offsets(t, j) :
        p = o + EntrySize /\ Layout(t)[o] = Calls[j].after
  BY DEF MisreadIn
<1>2. Offsets(t, j) \subseteq Offsets(t, k)
  BY OffsetsGrow
<1>3. p <= End(t, j - 1)
  <2>1. \A m \in 0..(j - 1) : End(t, m) <= End(t, j - 1)
    <3>1. \A m \in 0..(j - 1) : m < j - 1 \/ m = j - 1
      OBVIOUS
    <3> QED BY <3>1, EndFacts
  <2>2. \A q \in DOMAIN t.at : q <= End(t, j - 1)
    <3>1. End(t, 0) <= End(t, j - 1)
      BY <2>1
    <3> QED BY <3>1, EndFacts
  <2> QED BY <2>1, <2>2 DEF Offsets
<1>4. EntryOf(Calls[j], LaidOut(t, k)).off = End(t, j - 1)
  <2>1. EntryOf(Calls[j], LaidOut(t, k)) = NewEntry(t, j)
    BY EntryOfCall
  <2> QED BY <2>1 DEF NewEntry
<1>5. DOMAIN LaidOut(t, k) = Offsets(t, k) /\ LaidOut(t, k)[o] = Layout(t)[o]
  BY <1>2 DEF LaidOut
<1> QED BY <1>1, <1>2, <1>3, <1>4, <1>5 DEF Misread

\* Whatever the reused i and the stale address do, every mode searches the whole table,
\* and each new module is in it once, before its module_after, unless a name lies
\* exactly one entry behind a module_after.
THEOREM Asked == Spec => []InsertedAsAsked
<1>1. IInv => InsertedAsAsked
  <2> SUFFICES ASSUME IInv, phase \in {"load", "read", "close", "kernel"}
               PROVE  /\ \A m \in 1..table.nmodes : table.maxsearch[m] = Len(table.modules)
                      /\ \/ table.modules = Expected
                         \/ \E n \in 1..LastJob : Misread(Calls[n], table.at)
    BY DEF InsertedAsAsked
  <2>1. PICK t \in Tables : GivenInv(t) /\ CallsInv /\ TableInv(t) /\ ModulesInv(t)
    BY DEF IInv
  <2>2. CASE Clean(t, LastJob)
    <3>1. table.modules = Expected
      BY <2>1, <2>2, MadeAsAsked
    <3> QED BY <2>1, <3>1 DEF TableInv
  <2>3. CASE ~Clean(t, LastJob)
    <3>1. PICK j \in 1..LastJob : MisreadIn(t, j)
      BY <2>3 DEF Clean
    <3>2. j \in 1..3 /\ LastJob \in j..3 /\ Added = LastJob
      BY <2>1 DEF LastJob, Added, CallsInv
    <3>3. Misread(Calls[j], LaidOut(t, LastJob))
      BY <3>1, <3>2, MisreadSeen
    <3> QED BY <2>1, <3>2, <3>3 DEF TableInv
  <2> QED BY <2>2, <2>3
<1> QED BY <1>1, Inductive, PTL

\* The kernel starts with exactly the modules of its mode, each with its own content,
\* whatever the table: at most one flag is set when a file is read or closed, and it is
\* that file's.
THEOREM Booted == Spec => []BootsAsAsked
<1>1. IInv => BootsAsAsked
  <2> SUFFICES ASSUME IInv, phase = "kernel"
               PROVE  /\ Len(loaded) = LoadIndex(table.modules, Len(table.modules))
                      /\ \A n \in 1..Len(table.modules) : Wanted(table.modules[n]) =>
                           loaded[LoadIndex(table.modules, n)]
                             = Loads(table.modules[n], table.at)
    BY DEF BootsAsAsked
  <2>1. PICK t \in Tables : ModulesInv(t) /\ LoadInv
    BY DEF IInv
  <2>2. Len(table.modules) \in Nat
    BY <2>1 DEF ModulesInv
  <2>3. LoadedTo(Len(table.modules))
    <3>1. next - 1 = Len(table.modules)
      BY <2>1, <2>2 DEF LoadInv, nmodules
    <3>2. LoadedTo(next - 1)
      BY <2>1 DEF LoadInv
    <3> QED BY <3>1, <3>2
  <2> QED BY <2>3 DEF LoadedTo
<1> QED BY <1>1, Inductive, PTL

\* Offsets, names, flags and the file that is open are what their types say.
THEOREM Typing == Spec => []TypeOK
<1>1. IInv => TypeOK
  <2> SUFFICES ASSUME IInv PROVE TypeOK
    OBVIOUS
  <2>1. PICK t \in Tables : GivenInv(t) /\ CallsInv /\ TableInv(t) /\ ModulesInv(t) /\ LoadInv
    BY DEF IInv
  <2>2. Added \in 0..3 /\ job \in 1..4
    BY <2>1 DEF CallsInv, Added, LastJob
  <2>3. /\ Offsets(t, Added) \subseteq Offsets(t, 3)
        /\ \A o \in Offsets(t, Added) : o \in 0..(End(t, Added) - 1)
        /\ End(t, Added) \in Nat
    <3>1. \A m \in 0..(Added - 1) : End(t, m) < End(t, Added) /\ End(t, m) \in Nat
      BY <2>2, EndFacts
    <3>2. \A o \in DOMAIN t.at : o \in Nat /\ o < End(t, Added)
      BY <2>2, EndFacts
    <3>3. End(t, Added) \in Nat
      BY <2>2, EndFacts
    <3> QED BY <2>2, <3>1, <3>2, <3>3, OffsetsGrow DEF Offsets
  <2>4. /\ DOMAIN table.at = Offsets(t, Added)
        /\ \A o \in Offsets(t, Added) : table.at[o] \in Names
    BY <2>1, <2>3, LayoutFacts DEF TableInv, LaidOut
  <2>5. table.modules \in Seq([off : Nat, flags : SUBSET AllModes])
    <3>1. Entries(t, Added) \subseteq [off : Nat, flags : SUBSET AllModes]
      BY <2>3 DEF Entries
    <3>2. Seq(Entries(t, Added)) \subseteq Seq([off : Nat, flags : SUBSET AllModes])
      BY <3>1, SeqMonotonic
    <3> QED BY <2>1, <3>2 DEF ModulesInv
  <2>6. table.maxsearch \in [1..table.nmodes -> Nat] /\ table.modnameend \in Nat
    BY <2>1, <2>3, <2>5 DEF TableInv
  <2>7. /\ reboot_module_after \in Names \cup {"null"} /\ reboot_flags \subseteq AllModes
        /\ bootmode \in BootModes /\ mode \in 1..table.nmodes
    BY <2>1 DEF GivenInv, TableInv
  <2>8. /\ next \in Nat
        /\ loaded \in Seq(Names \X ({"memory", "flash"} \X Names))
    BY <2>1, <2>5 DEF LoadInv, nmodules
  <2>9. found \subseteq NewNames /\ lfat \in Names \cup {"none"}
    <3>1. CASE phase \in {"read", "close"}
      <4>1. table.at[table.modules[next].off] \in Names
        BY <2>1, <3>1, AtFacts DEF LoadInv, OpenInv
      <4> QED BY <2>1, <3>1, <4>1 DEF LoadInv, OpenInv
    <3>2. CASE phase \notin {"read", "close"}
      BY <2>1, <3>2 DEF LoadInv, OpenInv
    <3> QED BY <3>1, <3>2
  <2>10. DOMAIN table.at \subseteq 0..(table.modnameend - 1)
    BY <2>1, <2>3, <2>4 DEF TableInv
  <2> QED BY <2>1, <2>2, <2>4, <2>5, <2>6, <2>7, <2>8, <2>9, <2>10
     DEF TypeOK, CallsInv, ModulesInv
<1> QED BY <1>1, Inductive, PTL
===============================================================================
