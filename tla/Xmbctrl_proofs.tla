----------------------------- MODULE Xmbctrl_proofs -----------------------------
(* TN Settings shows the menu, the options and the values it means to, whatever     *)
(* the order of the XMB's calls, the settings it finds and the number of changes.   *)
(* Its Plugins page shows what systemctrl will start, and what systemctrl starts is *)
(* what was asked for, whatever characters the lists have, wherever a write ends    *)
(* and for every Limit and number of changes.                                       *)
EXTENDS XmbSettings, Plugins, FiniteSetTheorems, WellFoundedInduction, TLAPS

-------------------------------------------------------------------------------
(* TN Settings: the arrays *)

\* The items, one by one: the mode and the sense of each, and the setting behind it.
LEMMA ItemTable ==
  /\ Items = 1..17
  /\ GetItemes \in [1..17 -> [mode : 0..3, negative : BOOLEAN]]
  /\ \A i \in 1..17 :
       /\ GetItemes[i].mode = IF i \in {1, 2} THEN 1 ELSE IF i = 3 THEN 2
                              ELSE IF i = 4 THEN 3 ELSE 0
       /\ GetItemes[i].negative <=> i \in NegatedGets
<1>1. Len(GetItemes) = 17
  BY DEF GetItemes
<1>2. ASSUME NEW i \in 1..17
      PROVE  /\ GetItemes[i] \in [mode : 0..3, negative : BOOLEAN]
             /\ GetItemes[i].mode = IF i \in {1, 2} THEN 1 ELSE IF i = 3 THEN 2
                                    ELSE IF i = 4 THEN 3 ELSE 0
             /\ GetItemes[i].negative <=> i \in NegatedGets
  <2>1. \/ i = 1 \/ i = 2 \/ i = 3 \/ i = 4 \/ i = 5 \/ i = 6 \/ i = 7 \/ i = 8 \/ i = 9
        \/ i = 10 \/ i = 11 \/ i = 12 \/ i = 13 \/ i = 14 \/ i = 15 \/ i = 16 \/ i = 17
    OBVIOUS
  <2>2. GetItemes[i] = Item(GetItemes[i].mode, GetItemes[i].negative)
    BY <2>1 DEF GetItemes, Item, OnOff, OffOn
  <2>3. GetItemes[i].mode = IF i \in {1, 2} THEN 1 ELSE IF i = 3 THEN 2
                            ELSE IF i = 4 THEN 3 ELSE 0
    BY <2>1 DEF GetItemes, Item, OnOff, OffOn
  <2>4. i \in NegatedGets => GetItemes[i].negative = TRUE
    BY DEF GetItemes, Item, OnOff, OffOn, NegatedGets
  <2>5. i \notin NegatedGets => GetItemes[i].negative = FALSE
    BY <2>1 DEF GetItemes, Item, OnOff, OffOn, NegatedGets
  <2>6. GetItemes[i].negative \in BOOLEAN /\ (GetItemes[i].negative <=> i \in NegatedGets)
    BY <2>4, <2>5, Zenon
  <2>7. GetItemes[i] \in [mode : 0..3, negative : BOOLEAN]
    BY <2>2, <2>3, <2>6 DEF Item
  <2> QED BY <2>3, <2>6, <2>7
<1>3. GetItemes \in Seq([mode : 0..3, negative : BOOLEAN])
  BY DEF GetItemes, Item, OnOff, OffOn
<1> QED BY <1>1, <1>2, <1>3 DEF Items

\* No setting is behind two items, and no bus speed behind any.
LEMMA FieldTable ==
  /\ \A i, j \in 1..17 : Fields[i] = Fields[j] => i = j
  /\ \A i \in 1..17 : Fields[i] \notin {"vshbusspeed", "gamebusspeed"}
  /\ Fields[1] = "vshcpuspeed" /\ Fields[2] = "gamecpuspeed" /\ Fields[3] = "usbdevice"
BY DEF Fields

\* The lists of speeds: each speed is in its own row.
LEMMA SpeedTable ==
  /\ \A n \in 1..9 : cpu_list[n] \in 0..333 /\ bus_list[n] \in 0..333
  /\ \A m, n \in 1..9 : cpu_list[m] = cpu_list[n] => m = n
BY DEF cpu_list, bus_list

\* What the context of each item is, and that of any other.
LEMMA Modes ==
  /\ \A i \in 1..17 : ModeOf(i) = IF i \in {1, 2} THEN 1 ELSE IF i = 3 THEN 2
                                   ELSE IF i = 4 THEN 3 ELSE 0
  /\ ModeOf(Ours) = 4 /\ ModeOf(Own) = 0
  /\ N_OPTIONS[0] = 2 /\ N_OPTIONS[1] = 9 /\ N_OPTIONS[2] = 6 /\ N_OPTIONS[3] = 14
  /\ N_OPTIONS[4] = 2
BY ItemTable DEF ModeOf, Ours, Own, N_OPTIONS

-------------------------------------------------------------------------------
(* Setting a value *)

\* The row of a speed of the list is found again.
LEMMA SpeedFound ==
  ASSUME NEW v \in 0..8
  PROVE  GetCPUSpeed(cpu_list[v + 1]) = v
<1> DEFINE s == cpu_list[v + 1]
<1>1. v + 1 \in 1..9
  OBVIOUS
<1>2. \A n \in 1..9 : cpu_list[n] = s <=> n = v + 1
  BY <1>1, SpeedTable
<1> HIDE DEF s
<1>3. (\E n \in 1..9 : cpu_list[n] = s) /\ (CHOOSE n \in 1..9 : cpu_list[n] = s) = v + 1
  BY <1>1, <1>2
<1>4. GetCPUSpeed(s) = (v + 1) - 1
  BY <1>3, Zenon DEF GetCPUSpeed
<1>5. GetCPUSpeed(s) = v
  BY <1>4
<1> QED BY <1>5 DEF s

\* What can be set leaves settings that are in order ...
LEMMA ChangedOK ==
  ASSUME NEW c, ConfigOK(c), NEW i \in Items, NEW v \in 0..(N_OPTIONS[ModeOf(i)] - 1)
  PROVE  ConfigOK(Changed(c, i, v))
<1> DEFINE d == Changed(c, i, v)
<1>0. /\ i \in 1..17 /\ Settings = {Fields[k] : k \in 1..17} \cup {"vshbusspeed", "gamebusspeed"}
      /\ \A k \in 1..17 : Fields[k] \in Settings
  BY ItemTable DEF Settings
<1>1. CASE i \in {1, 2}
  <2>1. v \in 0..8 /\ v + 1 \in 1..9
    BY <1>1, <1>0, Modes
  <2>2. DOMAIN d = Settings
    BY <1>1 DEF Changed, ConfigOK
  <2>3. \A f \in Settings : d[f] \in 0..333
    BY <1>1, <2>1, SpeedTable DEF Changed, ConfigOK
  <2>4. Paired(d["vshcpuspeed"], d["vshbusspeed"]) /\ Paired(d["gamecpuspeed"], d["gamebusspeed"])
    BY <1>0, <1>1, <2>1, FieldTable DEF Changed, ConfigOK, Paired
  <2>5. \A k \in 3..17 : d[Fields[k]] = c[Fields[k]]
    BY <1>0, <1>1, FieldTable DEF Changed, ConfigOK
  <2>6. \A k \in Items : GetItemes[k].mode \in {0, 2, 3} => k \in 3..17
    BY ItemTable
  <2> QED BY <2>2, <2>3, <2>4, <2>5, <2>6 DEF ConfigOK
<1>2. CASE i \notin {1, 2}
  <2> DEFINE w == IF GetItemes[i].negative THEN Negation(v) ELSE v
  <2>1. w \in 0..(N_OPTIONS[ModeOf(i)] - 1)
    BY <1>0, <1>2, ItemTable, Modes DEF Negation, NegatedGets
  <2>2. d = [c EXCEPT ![Fields[i]] = w] /\ ModeOf(i) = GetItemes[i].mode
    BY <1>0, <1>2, ItemTable, Modes DEF Changed
  <2>3. N_OPTIONS[ModeOf(i)] \in {2, 6, 14}
    BY <1>0, <1>2, Modes
  <2> HIDE DEF d, w
  <2>4. DOMAIN d = Settings /\ \A f \in Settings : d[f] = IF f = Fields[i] THEN w ELSE c[f]
    BY <2>2 DEF ConfigOK
  <2>5. Fields[i] \notin {"vshcpuspeed", "gamecpuspeed", "vshbusspeed", "gamebusspeed"}
    BY <1>0, <1>2, FieldTable
  <2>6. \A f \in Settings : d[f] \in 0..333
    BY <2>1, <2>3, <2>4 DEF ConfigOK
  <2>7. \A f \in {"vshcpuspeed", "gamecpuspeed", "vshbusspeed", "gamebusspeed"} : d[f] = c[f]
    BY <1>0, <2>4, <2>5, FieldTable
  <2>8. ASSUME NEW k \in Items, GetItemes[k].mode \in {0, 2, 3}
        PROVE  d[Fields[k]] \in 0..(N_OPTIONS[GetItemes[k].mode] - 1)
    <3>1. CASE k = i
      BY <3>1, <1>0, <2>1, <2>2, <2>4
    <3>2. CASE k # i
      BY <3>2, <1>0, <2>4, <2>8, FieldTable, ItemTable DEF ConfigOK
    <3> QED BY <3>1, <3>2
  <2>9. Paired(d["vshcpuspeed"], d["vshbusspeed"]) /\ Paired(d["gamecpuspeed"], d["gamebusspeed"])
    BY <2>7 DEF ConfigOK
  <2>10. ConfigOK(d)
    BY <2>4, <2>6, <2>8, <2>9 DEF ConfigOK
  <2> QED BY <2>10 DEF d
<1> QED BY <1>1, <1>2

\* ... in which that item shows the value that was set, and every other what it showed.
LEMMA ChangedShown ==
  ASSUME NEW c, ConfigOK(c), NEW i \in Items, NEW v \in 0..(N_OPTIONS[ModeOf(i)] - 1),
         NEW j \in Items
  PROVE  Value(Changed(c, i, v), j) = IF j = i THEN v ELSE Value(c, j)
<1> DEFINE d == Changed(c, i, v)
<1>0. /\ i \in 1..17 /\ j \in 1..17 /\ DOMAIN c = Settings
      /\ \A k \in 1..17 : Fields[k] \in Settings
  BY ItemTable DEF Settings, ConfigOK
<1>1. CASE j # i
  <2>1. d[Fields[j]] = c[Fields[j]]
    BY <1>0, <1>1, FieldTable DEF Changed
  <2> QED BY <1>1, <2>1 DEF Value
<1>2. CASE j = i /\ i \in {1, 2}
  <2>1. v \in 0..8
    BY <1>0, <1>2, Modes
  <2>2. d[Fields[i]] = cpu_list[v + 1]
    BY <1>0, <1>2, FieldTable DEF Changed
  <2>3. Value(d, j) = GetCPUSpeed(d[Fields[i]])
    BY <1>2 DEF Value, NegatedGets
  <2> QED BY <1>2, <2>1, <2>2, <2>3, SpeedFound
<1>3. CASE j = i /\ i \in NegatedGets
  <2>1. v \in 0..1
    BY <1>0, <1>3, Modes DEF NegatedGets
  <2>2. d[Fields[i]] = Negation(v)
    BY <1>0, <1>3, ItemTable DEF Changed, NegatedGets
  <2> QED BY <1>3, <2>1, <2>2 DEF Value, Negation, NegatedGets
<1>4. CASE j = i /\ i \notin NegatedGets /\ i \notin {1, 2}
  <2>1. d[Fields[i]] = v
    BY <1>0, <1>4, ItemTable DEF Changed
  <2> QED BY <1>4, <2>1 DEF Value
<1> QED BY <1>1, <1>2, <1>3, <1>4

-------------------------------------------------------------------------------
(* The inductive invariant *)

\* The list that was backed up is the firmware's, and the firmware's is in place where
\* nothing was backed up and on every page but Configuration.
ListsInv ==
  /\ backup \in {None, Own}
  /\ backup = None \/ is_tn_config # 1 => mlist = Own

\* sysconf, while it is in memory, has the menu of the page that was opened last; and
\* unloading is asked for within an action only.
MenusInv ==
  /\ where \in {"kept", "page", "options"} => menu = is_tn_config
  /\ where = "out" => mlist = Own
  /\ unload => where = "page"

IInv == ListsInv /\ MenusInv /\ OptionsOfItem

\* The items a page has are of the page's kind.
LEMMA PageItemModes ==
  ASSUME TypeOK, MenusInv, where = "page", NEW item \in PageItems
  PROVE  /\ item \in Items \cup {Own, Ours} /\ ModeOf(item) \in 0..4
         /\ is_tn_config # 1 => ModeOf(item) = Own
<1>1. CASE menu = 1
  BY <1>1, ItemTable, Modes DEF PageItems, MenusInv
<1>2. CASE menu # 1
  BY <1>2, Modes DEF PageItems, MenusInv, Own
<1> QED BY <1>1, <1>2

LEMMA InvInit == Init => TypeOK /\ IInv
<1> SUFFICES ASSUME Init PROVE TypeOK /\ IInv
  OBVIOUS
<1>1. ConfigOK(config) /\ sets \in 0..MaxSets
  BY XmbConstants DEF Init
<1>2. unload \in BOOLEAN /\ ~unload
  BY Zenon DEF Init
<1>3. TypeOK
  BY <1>1, <1>2 DEF Init, TypeOK, None, Own
<1>4. IInv
  BY <1>2 DEF Init, IInv, ListsInv, MenusInv, OptionsOfItem, None, Own
<1> QED BY <1>3, <1>4

LEMMA InvStep == TypeOK /\ IInv /\ [Next]_vars => TypeOK' /\ IInv'
<1> SUFFICES ASSUME TypeOK, IInv, [Next]_vars PROVE TypeOK' /\ IInv'
  OBVIOUS
<1> USE DEF IInv, ListsInv, MenusInv, OptionsOfItem
<1>1. CASE OpenTNSettings
  <2>1. PICK device \in 0..5 : config' = [config EXCEPT !["usbdevice"] = device]
    BY <1>1 DEF OpenTNSettings
  <2>2. config' = Changed(config, 3, device)
    <3>1. ~GetItemes[3].negative /\ Fields[3] = "usbdevice"
      BY ItemTable, FieldTable DEF NegatedGets
    <3> QED BY <2>1, <3>1 DEF Changed
  <2>3. 3 \in Items /\ device \in 0..(N_OPTIONS[ModeOf(3)] - 1)
    BY ItemTable, Modes
  <2>4. ConfigOK(config')
    BY <2>2, <2>3, ChangedOK DEF TypeOK
  <2> QED BY <1>1, <2>4, XmbConstants DEF OpenTNSettings, TypeOK
<1>2. CASE \E page \in 0..2 : OpenPage(page)
  <2> PICK page \in 0..2 : OpenPage(page)
    BY <1>2
  <2> QED BY DEF OpenPage, ExecuteActionPatched, Built, TypeOK, None, Own
<1>3. CASE Opened
  BY <1>3 DEF Opened, TypeOK
<1>4. CASE Leaves
  BY <1>4 DEF Leaves, TypeOK, Own, None
<1>5. CASE LeavesOptions
  BY <1>5 DEF LeavesOptions, TypeOK
<1>6. CASE \E item \in PageItems : Draws(item)
  <2> PICK item \in PageItems : Draws(item)
    BY <1>6
  <2>1. ModeOf(item) \in 0..4
    BY PageItemModes DEF Draws
  <2> QED BY <2>1 DEF Draws, Sees, TypeOK
<1>7. CASE \E item \in PageItems : Selects(item)
  <2> PICK item \in PageItems : Selects(item)
    BY <1>7
  <2>1. /\ item \in Items \cup {Own, Ours} /\ ModeOf(item) \in 0..4
        /\ is_tn_config # 1 => ModeOf(item) = Own
    BY PageItemModes DEF Selects
  <2>2. CASE is_tn_config = 1
    BY <2>1, <2>2 DEF Selects, Sees, HijackContext, TypeOK, None, Own
  <2>3. CASE is_tn_config # 1
    BY <2>1, <2>3 DEF Selects, Sees, TypeOK, None, Own
  <2> QED BY <2>2, <2>3
<1>8. CASE \E v \in 0..(N_OPTIONS[mlist] - 1) : SetsValue(v)
  <2> PICK v \in 0..(N_OPTIONS[mlist] - 1) : SetsValue(v)
    BY <1>8
  <2>1. ConfigOK(config')
    BY ChangedOK DEF SetsValue, TypeOK
  <2> QED BY <2>1, XmbConstants DEF SetsValue, TypeOK
<1>9. CASE UNCHANGED vars
  BY <1>9 DEF vars, TypeOK
<1> QED BY <1>1, <1>2, <1>3, <1>4, <1>5, <1>6, <1>7, <1>8, <1>9 DEF Next

THEOREM Inductive == Spec => [](TypeOK /\ IInv)
<1>1. (TypeOK /\ IInv) /\ [Next]_vars => (TypeOK /\ IInv)'
  BY InvStep
<1> QED BY InvInit, <1>1, PTL DEF Spec

-------------------------------------------------------------------------------
\* Whichever pages follow each other, and whether sysconf stays in memory in between,
\* the menu is that of the page that was opened.
THEOREM MenuFollows == Spec => []MenuOfPage
<1>1. IInv => MenuOfPage
  BY DEF IInv, MenusInv, MenuOfPage
<1> QED BY <1>1, Inductive, PTL

\* Whichever items were selected before, and on whichever page, the options are those
\* of the selected item.
THEOREM OptionsFollow == Spec => []OptionsOfItem
<1>1. IInv => OptionsOfItem
  BY DEF IInv
<1> QED BY <1>1, Inductive, PTL

\* What a step sets, its item shows from then on, and no other item changes.
LEMMA SetStep ==
  ASSUME TypeOK, IInv, [Next]_vars, NEW i \in Items,
         where = "options", config' # config, selected = i
  PROVE  \E v \in 0..(N_OPTIONS[ModeOf(i)] - 1) :
           /\ config' = Changed(config, i, v)
           /\ \A j \in Items : Value(config', j) = IF j = i THEN v ELSE Value(config, j)
<1>1. PICK v \in 0..(N_OPTIONS[mlist] - 1) : SetsValue(v)
  BY DEF Next, OpenTNSettings, OpenPage, Opened, Leaves, LeavesOptions, Draws, Selects, vars
<1>2. v \in 0..(N_OPTIONS[ModeOf(i)] - 1) /\ config' = Changed(config, i, v)
  BY <1>1 DEF SetsValue, IInv, OptionsOfItem
<1>3. \A j \in Items : Value(config', j) = IF j = i THEN v ELSE Value(config, j)
  BY <1>2, ChangedShown DEF TypeOK
<1> QED BY <1>2, <1>3

THEOREM SetShown == Spec => SetIsShown
<1>1. TypeOK /\ IInv /\ [Next]_vars =>
        [\A i \in Items :
           (where = "options" /\ config' # config /\ selected = i) =>
             \E v \in 0..(N_OPTIONS[ModeOf(i)] - 1) :
               /\ config' = Changed(config, i, v)
               /\ \A j \in Items : Value(config', j)
                                    = IF j = i THEN v ELSE Value(config, j)]_vars
  BY SetStep
<1> QED BY <1>1, Inductive, PTL DEF Spec, SetIsShown

-------------------------------------------------------------------------------
(* The plugin lists: numbers and recursion *)

\* Numbers, if there are any, have a least one: of the intervals from 0 to each, which
\* are finite sets, one is minimal.
LEMMA LeastIn ==
  ASSUME NEW T \in SUBSET Nat, T # {}
  PROVE  Min(T) \in T /\ \A y \in T : Min(T) <= y
<1> DEFINE Upto == {0..k : k \in T}
           R == StrictSubsetOrdering(Nat)
           F == FiniteSubsetsOf(Nat)
<1>1. IsWellFoundedOn(R, F)
  BY FS_StrictSubsetOrderingWellFounded
<1>2. Upto \subseteq F /\ Upto # {}
  <2>1. ASSUME NEW k \in T PROVE 0..k \in F
    BY FS_Interval DEF FiniteSubsetsOf
  <2> QED
    BY <2>1
<1>3. \E u \in Upto : \A v \in Upto : <<v, u>> \notin R
  <2> HIDE DEF R, F, Upto
  <2> QED
    BY <1>1, <1>2, WFMin
<1>4. PICK x \in T : \A y \in T : <<0..y, 0..x>> \notin R
  BY <1>3
<1>5. ASSUME NEW y \in T PROVE x <= y
  <2>1. SUFFICES ASSUME y < x PROVE FALSE
    OBVIOUS
  <2>2. x \in 0..x /\ x \notin 0..y
    BY <2>1
  <2>3. 0..y \subseteq 0..x /\ 0..y # 0..x
    BY <2>1, <2>2
  <2>4. 0..y \in SUBSET Nat /\ 0..x \in SUBSET Nat
    OBVIOUS
  <2>5. <<0..y, 0..x>> \in R
    BY <2>3, <2>4 DEF StrictSubsetOrdering
  <2> QED
    BY <1>4, <2>5
<1> QED
  BY <1>5 DEF Min

LEMMA LeastIs ==
  ASSUME NEW T \in SUBSET Int, NEW n \in T, \A y \in T : n <= y
  PROVE  Min(T) = n
<1>0. \E x \in T : \A y \in T : x <= y
  OBVIOUS
<1>1. Min(T) \in T /\ \A y \in T : Min(T) <= y
  BY <1>0, Zenon DEF Min
<1> DEFINE m == Min(T)
<1>2. m \in Int /\ n \in Int /\ m \in T
  BY <1>1
<1> HIDE DEF m
<1> QED
  BY <1>1, <1>2 DEF m

LEMMA GreatestIs ==
  ASSUME NEW T \in SUBSET Int, NEW n \in T, \A y \in T : n >= y
  PROVE  Max(T) = n
<1>0. \E x \in T : \A y \in T : x >= y
  OBVIOUS
<1>1. Max(T) \in T /\ \A y \in T : Max(T) >= y
  BY <1>0, Zenon DEF Max
<1> DEFINE m == Max(T)
<1>2. m \in Int /\ n \in Int /\ m \in T
  BY <1>1
<1> HIDE DEF m
<1> QED
  BY <1>1, <1>2 DEF m

LEMMA SetInduction ==
  ASSUME NEW T, 0 \in T, \A n \in Nat : n \in T => n + 1 \in T
  PROVE  \A n \in Nat : n \in T
<1> SUFFICES ASSUME Nat \ T # {} PROVE FALSE
  OBVIOUS
<1>1. PICK x \in Nat \ T : \A y \in Nat \ T : x <= y
  BY LeastIn
<1>2. x # 0 /\ x - 1 \in Nat
  BY <1>1
<1>3. x - 1 \in T
  BY <1>1, <1>2
<1> QED
  BY <1>1, <1>2, <1>3

LEMMA UpTo ==
  ASSUME NEW N \in Nat, NEW T, 0 \in T, \A i \in 1..N : i - 1 \in T => i \in T
  PROVE  \A i \in 0..N : i \in T
<1> DEFINE U == {k \in Nat : k <= N => k \in T}
<1>1. 0 \in U
  OBVIOUS
<1>2. ASSUME NEW k \in Nat, k \in U PROVE k + 1 \in U
  <2>1. SUFFICES ASSUME k + 1 <= N PROVE k + 1 \in T
    OBVIOUS
  <2>2. k \in T /\ k + 1 \in 1..N /\ (k + 1) - 1 = k
    BY <1>2, <2>1
  <2> QED
    BY <2>2
<1> HIDE DEF U
<1>3. \A k \in Nat : k \in U
  BY <1>1, <1>2, SetInduction
<1> QED
  BY <1>3 DEF U

\* A function is defined by its first value and how each follows from the one before.
Defines(N, S, base, Step) == N \in Nat /\ base \in S /\ Step \in [(1..N) \X S -> S]
Defined(f, N, S, base, Step) ==
  /\ f \in [0..N -> S]
  /\ f[0] = base /\ \A i \in 1..N : f[i - 1] \in S /\ f[i] = Step[<<i, f[i - 1]>>]

LEMMA Recursion ==
  ASSUME NEW N, NEW S, NEW base, NEW Step, Defines(N, S, base, Step)
  PROVE  \E f : Defined(f, N, S, base, Step)
<1> USE DEF Defines
<1> DEFINE Solves(f, k) == f[0] = base /\ \A i \in 1..k : f[i] = Step[<<i, f[i - 1]>>]
           T == {k \in Nat : k > N \/ \E f \in [0..k -> S] : Solves(f, k)}
<1>1. 0 \in T
  <2>1. [i \in 0..0 |-> base] \in [0..0 -> S]
    OBVIOUS
  <2>2. Solves([i \in 0..0 |-> base], 0)
    OBVIOUS
  <2> QED
    BY <2>1, <2>2
<1>2. ASSUME NEW k \in Nat, k \in T PROVE k + 1 \in T
  <2>1. CASE k + 1 > N
    BY <2>1
  <2>2. CASE k + 1 <= N
    <3>1. PICK f \in [0..k -> S] : Solves(f, k)
      BY <1>2, <2>2
    <3> DEFINE g == [i \in 0..(k + 1) |-> IF i = k + 1 THEN Step[<<k + 1, f[k]>>] ELSE f[i]]
    <3>2. Step[<<k + 1, f[k]>>] \in S
      BY <2>2
    <3>3. g \in [0..(k + 1) -> S]
      BY <3>2
    <3>4. g[0] = base
      BY <3>1
    <3>5. ASSUME NEW i \in 1..(k + 1) PROVE g[i] = Step[<<i, g[i - 1]>>]
      <4>1. i - 1 \in 0..k /\ g[i - 1] = f[i - 1]
        OBVIOUS
      <4>2. CASE i = k + 1
        <5>1. g[i] = Step[<<k + 1, f[k]>>] /\ i - 1 = k
          BY <4>2
        <5> HIDE DEF g
        <5> QED
          BY <4>1, <4>2, <5>1, Zenon
      <4>3. CASE i # k + 1
        <5>1. i \in 1..k /\ g[i] = f[i]
          BY <4>3
        <5> QED
          BY <3>1, <4>1, <5>1
      <4> QED
        BY <4>2, <4>3
    <3>6. Solves(g, k + 1)
      BY <3>4, <3>5
    <3> HIDE DEF g, Solves
    <3> QED
      BY <3>3, <3>6
  <2> QED
    BY <2>1, <2>2
<1> HIDE DEF T
<1>3. N \in T
  BY <1>1, <1>2, SetInduction
<1>4. PICK f \in [0..N -> S] : Solves(f, N)
  BY <1>3 DEF T
<1>5. \A i \in 1..N : i - 1 \in 0..N
  OBVIOUS
<1> QED
  BY <1>4, <1>5 DEF Defined

-------------------------------------------------------------------------------
(* Lines *)

PathChars == Chars \ (Blank \cup {"nl"})
LineChars == Chars \ {"nl"}
Records   == [path : Seq(PathChars), activated : BOOLEAN]
Readers   == [line : Seq(LineChars), plugins : Seq(Records)]

\* The number of the characters that Trim leaves.
LEMMA TrimIs ==
  ASSUME NEW s \in Seq(Chars), NEW n \in 0..Len(s),
         n # 0 => s[n] \notin Blank, \A k \in (n + 1)..Len(s) : s[k] \in Blank
  PROVE  Trim(s) = SubSeq(s, 1, n)
<1> DEFINE S == {k \in 1..Len(s) : s[k] \notin Blank} \cup {0}
<1>1. n \in S /\ \A k \in S : n >= k
  OBVIOUS
<1>2. S \subseteq Int
  OBVIOUS
<1> HIDE DEF S
<1>3. Max(S) = n
  BY <1>1, <1>2, GreatestIs
<1> QED
  BY <1>3 DEF Trim, S

LEMMA FirstIs ==
  ASSUME NEW s \in Seq(Chars), NEW n \in 1..(Len(s) + 1), NEW S,
         n # Len(s) + 1 => s[n] \in S, \A k \in 1..(n - 1) : s[k] \notin S
  PROVE  FirstIn(s, 1, S) = n
<1> DEFINE U == {k \in 1..Len(s) : s[k] \in S} \cup {Len(s) + 1}
<1>1. n \in U /\ \A k \in U : n <= k
  OBVIOUS
<1>2. U \subseteq Int
  OBVIOUS
<1> HIDE DEF U
<1>3. Min(U) = n
  BY <1>1, <1>2, LeastIs
<1> QED
  BY <1>3 DEF FirstIn, U

LEMMA TrimLeaves ==
  ASSUME NEW s \in Seq(Chars)
  PROVE  \E n \in 0..Len(s) : Trim(s) = SubSeq(s, 1, n)
<1> DEFINE U == {n \in 0..Len(s) : \A k \in (n + 1)..Len(s) : s[k] \in Blank}
<1>1. Len(s) \in U /\ U \subseteq Nat
  OBVIOUS
<1> DEFINE n == Min(U)
<1>2. n \in U /\ \A k \in U : n <= k
  <2> HIDE DEF U
  <2> QED
    BY <1>1, LeastIn
<1>3. n \in 0..Len(s) /\ \A k \in (n + 1)..Len(s) : s[k] \in Blank
  BY <1>2
<1>4. n # 0 => s[n] \notin Blank
  <2>1. SUFFICES ASSUME n # 0, s[n] \in Blank PROVE FALSE
    OBVIOUS
  <2> HIDE DEF n
  <2>2. n - 1 \in U
    BY <1>3, <2>1
  <2> QED
    BY <1>2, <1>3, <2>2
<1> HIDE DEF n
<1> QED
  BY <1>3, <1>4, TrimIs

LEMMA ParseType ==
  ASSUME NEW line \in Seq(LineChars)
  PROVE  Parse(line) \in Records
<1> DEFINE s == Trim(line)
           U == {k \in 1..Len(s) : s[k] \in Blank} \cup {Len(s) + 1}
           p == Min(U)
<1>1. s \in Seq(LineChars)
  <2>1. line \in Seq(Chars)
    BY DEF LineChars
  <2>2. PICK n \in 0..Len(line) : s = SubSeq(line, 1, n)
    BY <2>1, TrimLeaves
  <2> QED
    BY <2>2
<1> HIDE DEF s
<1>2. p \in U /\ \A k \in U : p <= k
  <2>1. U \in SUBSET Nat /\ U # {}
    BY <1>1
  <2> HIDE DEF U
  <2> QED
    BY <2>1, LeastIn
<1>3. p \in 1..(Len(s) + 1)
  BY <1>1, <1>2
<1>4. ASSUME NEW k \in 1..(p - 1) PROVE s[k] \in PathChars
  <2>1. k \in 1..Len(s) /\ k \notin U
    BY <1>1, <1>2, <1>3
  <2>2. s[k] \in LineChars /\ s[k] \notin Blank
    BY <1>1, <2>1
  <2> QED
    BY <2>2 DEF PathChars, LineChars
<1>5. FirstIn(s, 1, Blank) = p
  BY DEF FirstIn
<1> HIDE DEF p
<1>6. SubSeq(s, 1, p - 1) \in Seq(PathChars)
  <2>1. SubSeq(s, 1, p - 1) = [k \in 1..(p - 1) |-> s[k]]
    BY <1>1, <1>3
  <2> QED
    BY <1>3, <1>4, <2>1
<1> QED
  BY <1>5, <1>6 DEF Parse, Records, s

LEMMA ParseIs ==
  ASSUME NEW line, NEW s \in Seq(Chars), Trim(line) = s,
         NEW p \in 1..(Len(s) + 1), FirstIn(s, 1, Blank) = p, NEW a \in BOOLEAN,
         a <=> SubSeq(s, p + 1, Len(s)) = <<"1">>
  PROVE  Parse(line) = [path |-> SubSeq(s, 1, p - 1), activated |-> a]
<1>1. a = (SubSeq(s, p + 1, Len(s)) = <<"1">>)
  OBVIOUS
<1> QED
  BY <1>1, Zenon DEF Parse

\* A path without its flag, or with the blank behind it only, is not activated.
LEMMA ParsePath ==
  ASSUME NEW path \in Seq(PathChars)
  PROVE  /\ Parse(path) = [path |-> path, activated |-> FALSE]
         /\ Parse(Append(path, "sp")) = [path |-> path, activated |-> FALSE]
<1> DEFINE t == Append(path, "sp")
<1>0. path \in Seq(Chars) /\ "sp" \in Chars /\ "sp" \in Blank
  BY PluginConstants DEF PathChars, Blank
<1>1. \A k \in 1..Len(path) : path[k] \notin Blank
  BY DEF PathChars
<1>2. SubSeq(path, 1, Len(path)) = path
  OBVIOUS
<1>3. Trim(path) = path
  BY <1>0, <1>1, <1>2, TrimIs
<1>4. Trim(t) = path
  <2>1. t \in Seq(Chars) /\ Len(t) = Len(path) + 1
    BY <1>0
  <2>2. SubSeq(t, 1, Len(path)) = path
    BY <1>0
  <2>3. /\ \A k \in (Len(path) + 1)..Len(t) : t[k] \in Blank
        /\ Len(path) # 0 => t[Len(path)] \notin Blank
    BY <1>0, <1>1
  <2> HIDE DEF t
  <2>4. Len(path) \in 0..Len(t)
    BY <2>1
  <2> QED
    BY <2>1, <2>2, <2>3, <2>4, TrimIs
<1>5. FirstIn(path, 1, Blank) = Len(path) + 1
  BY <1>0, <1>1, FirstIs
<1>6. SubSeq(path, (Len(path) + 1) + 1, Len(path)) # <<"1">>
  <2>1. Len(SubSeq(path, (Len(path) + 1) + 1, Len(path))) = 0
    BY <1>0
  <2> QED
    BY <2>1
<1>7. SubSeq(path, 1, (Len(path) + 1) - 1) = path
  BY <1>2
<1> HIDE DEF t
<1>8. Len(path) + 1 \in 1..(Len(path) + 1)
  OBVIOUS
<1>9. Parse(path) = [path |-> SubSeq(path, 1, (Len(path) + 1) - 1), activated |-> FALSE]
  BY <1>0, <1>3, <1>5, <1>6, <1>8, ParseIs
<1>10. Parse(t) = [path |-> SubSeq(path, 1, (Len(path) + 1) - 1), activated |-> FALSE]
  BY <1>0, <1>4, <1>5, <1>6, <1>8, ParseIs
<1> QED
  BY <1>7, <1>9, <1>10 DEF t

LEMMA ParseLine ==
  ASSUME NEW path \in Seq(PathChars), NEW flag \in {"0", "1"}
  PROVE  Parse(path \o <<"sp", flag>>) = [path |-> path, activated |-> flag = "1"]
<1> DEFINE s == path \o <<"sp", flag>>
<1>0. path \in Seq(Chars) /\ "sp" \in Chars /\ "sp" \in Blank /\ flag \in Chars \ Blank
  BY PluginConstants DEF PathChars, Blank
<1>1. /\ s \in Seq(Chars) /\ Len(s) = Len(path) + 2
      /\ s[Len(path) + 1] = "sp" /\ s[Len(path) + 2] = flag
      /\ \A k \in 1..Len(path) : s[k] = path[k]
  BY <1>0
<1>2. \A k \in 1..Len(path) : path[k] \notin Blank
  BY DEF PathChars
<1> HIDE DEF s
<1>3. SubSeq(s, 1, Len(s)) = s
  BY <1>1
<1>4. Trim(s) = s
  <2>1. Len(s) \in 0..Len(s) /\ s[Len(s)] \notin Blank
    BY <1>0, <1>1
  <2>2. \A k \in (Len(s) + 1)..Len(s) : s[k] \in Blank
    BY <1>1
  <2> QED
    BY <1>1, <1>3, <2>1, <2>2, TrimIs
<1>5. FirstIn(s, 1, Blank) = Len(path) + 1
  <2>1. Len(path) + 1 \in 1..(Len(s) + 1) /\ s[Len(path) + 1] \in Blank
    BY <1>0, <1>1
  <2>2. \A k \in 1..((Len(path) + 1) - 1) : s[k] \notin Blank
    BY <1>1, <1>2
  <2> QED
    BY <1>1, <2>1, <2>2, FirstIs
<1>6. SubSeq(s, 1, (Len(path) + 1) - 1) = path
  <2>1. SubSeq(s, 1, (Len(path) + 1) - 1) = [k \in 1..Len(path) |-> s[k]]
    BY <1>1
  <2>2. path = [k \in 1..Len(path) |-> path[k]]
    OBVIOUS
  <2> QED
    BY <1>1, <2>1, <2>2
<1>7. SubSeq(s, (Len(path) + 1) + 1, Len(s)) = <<flag>>
  <2> DEFINE rest == SubSeq(s, (Len(path) + 1) + 1, Len(s))
  <2>1. rest \in Seq(Chars) /\ Len(rest) = 1 /\ rest[1] = flag
    BY <1>1
  <2> HIDE DEF rest
  <2>2. rest = <<flag>>
    BY <2>1
  <2> QED
    BY <2>2 DEF rest
<1>8. (<<flag>> = <<"1">>) <=> (flag = "1")
  OBVIOUS
<1>9. PICK a \in BOOLEAN : a = (flag = "1")
  OBVIOUS
<1>10. Parse(s) = [path |-> SubSeq(s, 1, (Len(path) + 1) - 1), activated |-> a]
  <2>1. Len(path) + 1 \in 1..(Len(s) + 1)
    BY <1>1
  <2>2. a <=> SubSeq(s, (Len(path) + 1) + 1, Len(s)) = <<"1">>
    BY <1>7, <1>8, <1>9
  <2> QED
    BY <1>1, <1>4, <1>5, <2>1, <2>2, ParseIs
<1> QED
  BY <1>6, <1>9, <1>10, Zenon DEF s

-------------------------------------------------------------------------------
(* The loops over GetPlugin *)

LEMMA PassesType ==
  ASSUME NEW reader \in Readers, NEW c \in Chars, NEW behind
  PROVE  Passes(reader, c, behind) \in Readers
<1>1. reader.line \in Seq(LineChars) /\ reader.plugins \in Seq(Records)
  BY DEF Readers
<1>2. CASE c # "nl"
  <2>1. Append(reader.line, c) \in Seq(LineChars)
    BY <1>1, <1>2 DEF LineChars
  <2>2. [reader EXCEPT !.line = Append(@, c)]
          = [line |-> Append(reader.line, c), plugins |-> reader.plugins]
    <3> DEFINE L == Seq(LineChars)
               P == Seq(Records)
               x == Append(reader.line, c)
    <3>1. reader \in [line : L, plugins : P]
      BY DEF Readers
    <3> HIDE DEF L, P, x
    <3>2. [reader EXCEPT !.line = x] = [line |-> x, plugins |-> reader.plugins]
      BY <3>1
    <3> QED
      BY <3>2 DEF x
  <2> QED
    BY <1>1, <1>2, <2>1, <2>2 DEF Passes, Takes, Readers
<1>3. CASE c = "nl"
  <2>1. Append(reader.plugins, Parse(reader.line)) \in Seq(Records) /\ <<>> \in Seq(LineChars)
    BY <1>1, ParseType
  <2> QED
    BY <1>3, <2>1 DEF Passes, Takes, Readers
<1> QED
  BY <1>2, <1>3

LEMMA WalkIs ==
  ASSUME NEW buf \in Seq(Chars), NEW behind
  PROVE  /\ Walk(buf, behind) \in [0..Len(buf) -> Readers]
         /\ Walk(buf, behind)[0] = NothingRead
         /\ \A i \in 1..Len(buf) :
              Walk(buf, behind)[i] = Passes(Walk(buf, behind)[i - 1], buf[i], behind)
<1> DEFINE Step == [x \in (1..Len(buf)) \X Readers |-> Passes(x[2], buf[x[1]], behind)]
           Is(f) == f = [i \in 0..Len(buf) |->
                           IF i = 0 THEN NothingRead ELSE Passes(f[i - 1], buf[i], behind)]
<1>1. NothingRead \in Readers
  BY DEF NothingRead, Readers
<1>2. Defines(Len(buf), Readers, NothingRead, Step)
  BY <1>1, PassesType DEF Defines
<1> HIDE DEF Step
<1>3. PICK f : Defined(f, Len(buf), Readers, NothingRead, Step)
  BY <1>2, Recursion
<1>4. \A i \in 1..Len(buf) : f[i] = Passes(f[i - 1], buf[i], behind)
  BY <1>3 DEF Defined, Step
<1>5. Is(f)
  BY <1>3, <1>4 DEF Defined
<1>6. Is(Walk(buf, behind))
  <2> HIDE DEF Is
  <2>1. Is(CHOOSE g : Is(g))
    BY <1>5, Zenon
  <2> QED
    BY <2>1, Zenon DEF Walk, Is
<1> DEFINE w == Walk(buf, behind)
<1>7. /\ w = [i \in 0..Len(buf) |->
                IF i = 0 THEN NothingRead ELSE Passes(w[i - 1], buf[i], behind)]
  BY <1>6
<1> HIDE DEF w, Is
<1> DEFINE T == {i \in 0..Len(buf) : w[i] \in Readers}
<1>8. 0 \in T
  BY <1>1, <1>7
<1>9. ASSUME NEW i \in 1..Len(buf), i - 1 \in T PROVE i \in T
  <2>1. w[i - 1] \in Readers /\ w[i] = Passes(w[i - 1], buf[i], behind) /\ buf[i] \in Chars
    BY <1>7, <1>9
  <2> QED
    BY <2>1, PassesType
<1> HIDE DEF T
<1>10. \A i \in 0..Len(buf) : i \in T
  <2>1. Len(buf) \in Nat
    OBVIOUS
  <2> QED
    BY <1>8, <1>9, <2>1, UpTo
<1>11. \A i \in 0..Len(buf) : w[i] \in Readers
  BY <1>10 DEF T
<1>12. w \in [0..Len(buf) -> Readers]
  BY <1>7, <1>11
<1>13. \A i \in 1..Len(buf) : w[i] = Passes(w[i - 1], buf[i], behind)
  BY <1>7
<1>14. w[0] = NothingRead
  BY <1>7
<1> QED
  BY <1>12, <1>13, <1>14 DEF w

\* What is read of a list depends on the characters read so far only.
LEMMA WalksAlike ==
  ASSUME NEW s \in Seq(Chars), NEW t \in Seq(Chars), NEW behind, NEW n \in Nat,
         n <= Len(s), n <= Len(t), \A i \in 1..n : s[i] = t[i]
  PROVE  \A i \in 0..n : Walk(s, behind)[i] = Walk(t, behind)[i]
<1> DEFINE T == {i \in 0..n : Walk(s, behind)[i] = Walk(t, behind)[i]}
<1>1. 0 \in T
  BY WalkIs
<1>2. ASSUME NEW i \in 1..n, i - 1 \in T PROVE i \in T
  <2>1. i \in 1..Len(s) /\ i \in 1..Len(t) /\ s[i] = t[i]
    OBVIOUS
  <2>2. Walk(s, behind)[i - 1] = Walk(t, behind)[i - 1]
    BY <1>2
  <2>3. /\ Walk(s, behind)[i] = Passes(Walk(s, behind)[i - 1], s[i], behind)
        /\ Walk(t, behind)[i] = Passes(Walk(t, behind)[i - 1], t[i], behind)
    BY <2>1, WalkIs
  <2> QED
    BY <2>1, <2>2, <2>3
<1> HIDE DEF T
<1>3. \A i \in 0..n : i \in T
  BY <1>1, <1>2, UpTo
<1> QED
  BY <1>3 DEF T

LEMMA EndedType ==
  ASSUME NEW reader \in Readers
  PROVE  Ended(reader) \in Seq(Records)
<1>1. reader.line \in Seq(LineChars) /\ reader.plugins \in Seq(Records)
  BY DEF Readers
<1>2. Append(reader.plugins, Parse(reader.line)) \in Seq(Records)
  BY <1>1, ParseType
<1> QED
  BY <1>1, <1>2 DEF Ended

LEMMA ReadsTypes ==
  ASSUME NEW buf \in Seq(Chars)
  PROVE  SystemReads(buf) \in Seq(Records) /\ XmbReads(buf) \in Seq(Records)
<1>1. Walk(buf, {})[Len(buf)] \in Readers /\ Walk(buf, {"tab"})[Len(buf)] \in Readers
  BY WalkIs
<1>2. <<Parse(<<>>)>> \in Seq(Records)
  <2>1. <<>> \in Seq(LineChars)
    OBVIOUS
  <2>2. Parse(<<>>) \in Records
    BY <2>1, ParseType
  <2> QED
    BY <2>2
<1> QED
  BY <1>1, <1>2, EndedType DEF SystemReads, XmbReads

-------------------------------------------------------------------------------
(* The plugins with a name *)

LEMMA NamedIs ==
  ASSUME NEW plugins \in Seq(Records)
  PROVE  /\ NamedOf(plugins) \in [0..Len(plugins) -> Seq(Records)]
         /\ NamedOf(plugins)[0] = <<>>
         /\ \A i \in 1..Len(plugins) :
              NamedOf(plugins)[i] = IF plugins[i].path = <<>> THEN NamedOf(plugins)[i - 1]
                                    ELSE Append(NamedOf(plugins)[i - 1], plugins[i])
<1> DEFINE With(x, i) == IF plugins[i].path = <<>> THEN x ELSE Append(x, plugins[i])
           Step == [x \in (1..Len(plugins)) \X Seq(Records) |-> With(x[2], x[1])]
           Is(f) == f = [n \in 0..Len(plugins) |->
                           IF n = 0 THEN <<>>
                           ELSE IF plugins[n].path = <<>> THEN f[n - 1]
                           ELSE Append(f[n - 1], plugins[n])]
<1>1. \A i \in 1..Len(plugins), x \in Seq(Records) : With(x, i) \in Seq(Records)
  OBVIOUS
<1>2. Defines(Len(plugins), Seq(Records), <<>>, Step)
  <2> HIDE DEF With
  <2> QED
    BY <1>1 DEF Defines
<1> HIDE DEF Step
<1>3. PICK f : Defined(f, Len(plugins), Seq(Records), <<>>, Step)
  BY <1>2, Recursion
<1>4. \A i \in 1..Len(plugins) : f[i] = With(f[i - 1], i)
  <2> SUFFICES ASSUME NEW i \in 1..Len(plugins) PROVE f[i] = With(f[i - 1], i)
    OBVIOUS
  <2>1. f[i - 1] \in Seq(Records) /\ f[i] = Step[<<i, f[i - 1]>>]
    BY <1>3 DEF Defined
  <2> HIDE DEF With
  <2> QED
    BY <2>1 DEF Step
<1>5. Is(f)
  <2> HIDE DEF With
  <2>1. f = [n \in 0..Len(plugins) |-> IF n = 0 THEN <<>> ELSE With(f[n - 1], n)]
    BY <1>3, <1>4 DEF Defined
  <2> QED
    BY <2>1, Zenon DEF With
<1>6. Is(NamedOf(plugins))
  <2> HIDE DEF Is
  <2>1. Is(CHOOSE g : Is(g))
    BY <1>5, Zenon
  <2> QED
    BY <2>1, Zenon DEF NamedOf, Is
<1> DEFINE w == NamedOf(plugins)
           T == {i \in 0..Len(plugins) : w[i] \in Seq(Records)}
<1>7. w = [n \in 0..Len(plugins) |-> IF n = 0 THEN <<>> ELSE With(w[n - 1], n)]
  BY <1>6
<1> HIDE DEF w, Is
<1>8. 0 \in T
  BY <1>7
<1>9. ASSUME NEW i \in 1..Len(plugins), i - 1 \in T PROVE i \in T
  <2> HIDE DEF With
  <2>1. w[i - 1] \in Seq(Records) /\ w[i] = With(w[i - 1], i)
    BY <1>7, <1>9
  <2> QED
    BY <1>1, <2>1
<1> HIDE DEF T
<1>10. \A i \in 0..Len(plugins) : i \in T
  <2>1. Len(plugins) \in Nat
    OBVIOUS
  <2> QED
    BY <1>8, <1>9, <2>1, UpTo
<1>11. \A i \in 0..Len(plugins) : w[i] \in Seq(Records)
  BY <1>10 DEF T
<1>12. w \in [0..Len(plugins) -> Seq(Records)] /\ w[0] = <<>>
  <2> HIDE DEF With
  <2> QED
    BY <1>7, <1>11
<1>13. \A i \in 1..Len(plugins) : w[i] = With(w[i - 1], i)
  <2> HIDE DEF With
  <2> QED
    BY <1>7
<1> QED
  BY <1>12, <1>13 DEF w

LEMMA NamedType ==
  ASSUME NEW plugins \in Seq(Records)
  PROVE  Named(plugins) \in Seq(Records)
<1>1. Len(plugins) \in 0..Len(plugins)
  OBVIOUS
<1> QED
  BY <1>1, NamedIs DEF Named

LEMMA NamedAlike ==
  ASSUME NEW s \in Seq(Records), NEW t \in Seq(Records), NEW n \in Nat,
         n <= Len(s), n <= Len(t), \A i \in 1..n : s[i] = t[i]
  PROVE  \A i \in 0..n : NamedOf(s)[i] = NamedOf(t)[i]
<1> DEFINE T == {i \in 0..n : NamedOf(s)[i] = NamedOf(t)[i]}
<1>1. 0 \in T
  BY NamedIs
<1>2. ASSUME NEW i \in 1..n, i - 1 \in T PROVE i \in T
  <2>1. i \in 1..Len(s) /\ i \in 1..Len(t) /\ s[i] = t[i]
    OBVIOUS
  <2>2. NamedOf(s)[i - 1] = NamedOf(t)[i - 1]
    BY <1>2
  <2>3. /\ NamedOf(s)[i] = IF s[i].path = <<>> THEN NamedOf(s)[i - 1]
                           ELSE Append(NamedOf(s)[i - 1], s[i])
        /\ NamedOf(t)[i] = IF t[i].path = <<>> THEN NamedOf(t)[i - 1]
                           ELSE Append(NamedOf(t)[i - 1], t[i])
    BY <2>1, NamedIs
  <2> QED
    BY <2>1, <2>2, <2>3
<1> HIDE DEF T
<1>3. \A i \in 0..n : i \in T
  BY <1>1, <1>2, UpTo
<1> QED
  BY <1>3 DEF T

LEMMA NamedAppend ==
  ASSUME NEW s \in Seq(Records), NEW x \in Records
  PROVE  Named(Append(s, x)) = IF x.path = <<>> THEN Named(s) ELSE Append(Named(s), x)
<1> DEFINE t == Append(s, x)
           n == Len(s)
<1>1. t \in Seq(Records) /\ Len(t) = n + 1 /\ t[n + 1] = x /\ n \in Nat
      /\ \A i \in 1..n : s[i] = t[i]
  OBVIOUS
<1> HIDE DEF t
<1>2. NamedOf(t)[n] = NamedOf(s)[n]
  <2>1. n <= Len(s) /\ n <= Len(t) /\ n \in 0..n
    BY <1>1
  <2> HIDE DEF n
  <2> QED
    BY <1>1, <2>1, NamedAlike
<1>3. n + 1 \in 1..Len(t) /\ (n + 1) - 1 = n
  BY <1>1
<1>4. NamedOf(t)[n + 1] = IF x.path = <<>> THEN NamedOf(t)[n] ELSE Append(NamedOf(t)[n], x)
  BY <1>1, <1>3, NamedIs
<1> QED
  BY <1>1, <1>2, <1>4 DEF Named, t

LEMMA NamedEmpty == Named(<<>>) = <<>>
<1>1. <<>> \in Seq(Records) /\ Len(<<>>) = 0
  OBVIOUS
<1> QED
  BY <1>1, NamedIs DEF Named

LEMMA NamedConcat ==
  ASSUME NEW s \in Seq(Records), NEW t \in Seq(Records)
  PROVE  Named(s \o t) = Named(s) \o Named(t)
<1> DEFINE N == Len(t)
           head(i) == SubSeq(t, 1, i)
           T == {i \in 0..N : Named(s \o head(i)) = Named(s) \o Named(head(i))}
<1>1. 0 \in T
  <2>1. head(0) = <<>> /\ s \o head(0) = s
    OBVIOUS
  <2>2. Named(s) \o <<>> = Named(s)
    BY NamedType
  <2>3. 0 \in 0..N
    OBVIOUS
  <2> HIDE DEF head, N
  <2>4. Named(head(0)) = <<>>
    BY <2>1, NamedEmpty
  <2>5. Named(s \o head(0)) = Named(s) \o Named(head(0))
    BY <2>1, <2>2, <2>4
  <2> QED
    BY <2>3, <2>5
<1>2. ASSUME NEW i \in 1..N, i - 1 \in T PROVE i \in T
  <2>1. head(i - 1) \in Seq(Records) /\ t[i] \in Records
    OBVIOUS
  <2>2. head(i) = Append(head(i - 1), t[i])
    OBVIOUS
  <2> DEFINE h == head(i - 1)
             x == t[i]
  <2>3. Named(s \o h) = Named(s) \o Named(h) /\ h \in Seq(Records) /\ x \in Records
    BY <1>2, <2>1
  <2>4. head(i) = Append(h, x)
    BY <2>2
  <2> HIDE DEF h, x, head
  <2>5. s \o Append(h, x) = Append(s \o h, x) /\ s \o h \in Seq(Records)
    BY <2>3
  <2>6. Named(h) \in Seq(Records) /\ Named(s) \in Seq(Records)
    BY <2>3, NamedType
  <2>7. Named(s) \o Append(Named(h), x) = Append(Named(s) \o Named(h), x)
    BY <2>3, <2>6
  <2>8. Named(s \o Append(h, x)) = Named(s) \o Named(Append(h, x))
    BY <2>3, <2>5, <2>7, NamedAppend
  <2>9. Named(s \o head(i)) = Named(s) \o Named(head(i)) /\ i \in 0..N
    BY <2>4, <2>8
  <2> HIDE DEF N
  <2> QED
    BY <2>9
<1>3. head(N) = t /\ N \in Nat
  OBVIOUS
<1> HIDE DEF T, head, N
<1>4. \A i \in 0..N : i \in T
  BY <1>1, <1>2, <1>3, UpTo
<1>5. N \in 0..N
  BY <1>3
<1> QED
  BY <1>3, <1>4, <1>5 DEF T

LEMMA Nameless ==
  ASSUME NEW s \in Seq(Records), \A i \in 1..Len(s) : s[i].path = <<>>
  PROVE  Named(s) = <<>>
<1> DEFINE T == {i \in 0..Len(s) : NamedOf(s)[i] = <<>>}
<1>0. Len(s) \in Nat
  OBVIOUS
<1>1. 0 \in T
  BY NamedIs
<1>2. ASSUME NEW i \in 1..Len(s), i - 1 \in T PROVE i \in T
  BY <1>2, NamedIs
<1> HIDE DEF T
<1>3. \A i \in 0..Len(s) : i \in T
  BY <1>0, <1>1, <1>2, UpTo
<1>4. Len(s) \in 0..Len(s)
  BY <1>0
<1> QED
  BY <1>3, <1>4 DEF T, Named

\* The plugins, those that are not activated as if there were none.
On(plugins) == [n \in 1..Len(plugins) |->
                  IF plugins[n].activated THEN plugins[n] ELSE NoPlugin]
PathsOf(plugins) == [n \in 1..Len(plugins) |-> plugins[n].path]

LEMMA OnType ==
  ASSUME NEW s \in Seq(Records)
  PROVE  On(s) \in Seq(Records) /\ Len(On(s)) = Len(s)
<1>1. NoPlugin \in Records
  BY DEF NoPlugin, Records
<1>2. \A n \in 1..Len(s) : (IF s[n].activated THEN s[n] ELSE NoPlugin) \in Records
  BY <1>1
<1> QED
  BY <1>2 DEF On

LEMMA ActivatedType ==
  ASSUME NEW s \in Seq(Records)
  PROVE  Activated(s) \in Seq(Seq(PathChars)) /\ Activated(s) = PathsOf(Named(On(s)))
<1>1. Named(On(s)) \in Seq(Records)
  BY OnType, NamedType
<1>2. Activated(s) = PathsOf(Named(On(s)))
  BY DEF Activated, PathsOf, On
<1>3. ASSUME NEW t \in Seq(Records) PROVE PathsOf(t) \in Seq(Seq(PathChars))
  <2>1. ASSUME NEW n \in 1..Len(t) PROVE t[n].path \in Seq(PathChars)
    <3>1. t[n] \in Records
      OBVIOUS
    <3> QED
      BY <3>1 DEF Records
  <2> DEFINE P == Seq(PathChars)
  <2>2. \A n \in 1..Len(t) : t[n].path \in P
    BY <2>1
  <2> HIDE DEF P
  <2>3. [n \in 1..Len(t) |-> t[n].path] \in Seq(P)
    BY <2>2
  <2> QED
    BY <2>3 DEF PathsOf, P
<1> QED
  BY <1>1, <1>2, <1>3

LEMMA ActivatedEmpty == Activated(<<>>) = <<>>
<1>1. <<>> \in Seq(Records)
  OBVIOUS
<1>2. On(<<>>) = <<>> /\ PathsOf(<<>>) = <<>>
  BY DEF On, PathsOf
<1> QED
  BY <1>1, <1>2, ActivatedType, NamedEmpty

LEMMA ActivatedAppend ==
  ASSUME NEW s \in Seq(Records), NEW x \in Records
  PROVE  Activated(Append(s, x)) = IF x.activated /\ x.path # <<>>
                                   THEN Append(Activated(s), x.path) ELSE Activated(s)
<1> DEFINE y == IF x.activated THEN x ELSE NoPlugin
<1>1. y \in Records /\ Append(s, x) \in Seq(Records)
  BY DEF NoPlugin, Records
<1>2. On(Append(s, x)) = Append(On(s), y)
  BY DEF On
<1>3. On(s) \in Seq(Records) /\ Named(On(s)) \in Seq(Records)
  BY OnType, NamedType
<1>4. y.path = <<>> <=> ~(x.activated /\ x.path # <<>>)
  BY DEF NoPlugin
<1>5. Named(On(Append(s, x))) = IF y.path = <<>> THEN Named(On(s)) ELSE Append(Named(On(s)), y)
  <2> HIDE DEF y
  <2> QED
    BY <1>1, <1>2, <1>3, NamedAppend
<1>6. y.path # <<>> => y.path = x.path
  BY DEF NoPlugin
<1>7. \A t \in Seq(Records) : PathsOf(Append(t, y)) = Append(PathsOf(t), y.path)
  <2> HIDE DEF y
  <2> QED
    BY <1>1 DEF PathsOf
<1> HIDE DEF y
<1> QED
  BY <1>1, <1>3, <1>4, <1>5, <1>6, <1>7, ActivatedType
-------------------------------------------------------------------------------
(* Prefixes *)

\* t is s with u behind it, or with u and v.
Two(t, s, u) ==
  /\ Len(s) \in Nat /\ Len(u) \in Nat /\ Len(t) = Len(s) + Len(u)
  /\ \A i \in 1..Len(s) : t[i] = s[i]
  /\ \A i \in 1..Len(u) : t[Len(s) + i] = u[i]
LEMMA ConcatIs ==
  ASSUME NEW S, NEW s \in Seq(S), NEW t \in Seq(S)
  PROVE  s \o t \in Seq(S) /\ Two(s \o t, s, t)
BY DEF Two
Three(t, s, u, v) ==
         /\ Len(t) = (Len(s) + Len(u)) + Len(v)
         /\ \A i \in 1..Len(s) : t[i] = s[i]
         /\ \A i \in 1..Len(u) : t[Len(s) + i] = u[i]
         /\ \A i \in 1..Len(v) : t[(Len(s) + Len(u)) + i] = v[i]
LEMMA ConcatTwice ==
  ASSUME NEW S, NEW s \in Seq(S), NEW u \in Seq(S), NEW v \in Seq(S)
  PROVE  s \o (u \o v) \in Seq(S) /\ Three(s \o (u \o v), s, u, v)
<1> DEFINE t == u \o v
           w == s \o t
<1>1. t \in Seq(S) /\ Two(t, u, v)
  BY ConcatIs
<1> HIDE DEF t
<1>2. w \in Seq(S) /\ Two(w, s, t)
  BY <1>1, ConcatIs
<1> HIDE DEF w
<1>3. ASSUME NEW i \in 1..Len(u) PROVE w[Len(s) + i] = u[i]
  BY <1>1, <1>2 DEF Two
<1>4. ASSUME NEW i \in 1..Len(v) PROVE w[(Len(s) + Len(u)) + i] = v[i]
  <2>1. Len(u) + i \in 1..Len(t) /\ Len(s) + (Len(u) + i) = (Len(s) + Len(u)) + i
    BY <1>1, <1>2 DEF Two
  <2> QED
    BY <1>1, <1>2, <2>1 DEF Two
<1>5. Len(w) = (Len(s) + Len(u)) + Len(v) /\ \A i \in 1..Len(s) : w[i] = s[i]
  BY <1>1, <1>2 DEF Two
<1> QED
  BY <1>2, <1>3, <1>4, <1>5 DEF w, t, Three

LEMMA PrefixIs ==
  ASSUME NEW S, NEW s \in Seq(S), NEW t \in Seq(S)
  PROVE  IsPrefix(s, t) <=> Len(s) <= Len(t) /\ \A i \in 1..Len(s) : s[i] = t[i]
<1> DEFINE m == Len(s)
           n == Len(t)
<1>1. m \in Nat /\ n \in Nat
  OBVIOUS
<1>2. SubSeq(s, 1, m) = [i \in 1..m |-> s[i]]
  OBVIOUS
<1>3. CASE m <= n
  <2>1. SubSeq(t, 1, m) = [i \in 1..m |-> t[i]]
    BY <1>3
  <2> HIDE DEF m, n
  <2>2. [i \in 1..m |-> s[i]] = [i \in 1..m |-> t[i]] <=> \A i \in 1..m : s[i] = t[i]
    <3>1. ASSUME [i \in 1..m |-> s[i]] = [i \in 1..m |-> t[i]], NEW i \in 1..m
          PROVE  s[i] = t[i]
      <4>1. [j \in 1..m |-> s[j]][i] = [j \in 1..m |-> t[j]][i]
        BY <3>1, Zenon
      <4> QED
        BY <4>1
    <3> QED
      BY <3>1
  <2>3. IsPrefix(s, t) <=> SubSeq(s, 1, m) = SubSeq(t, 1, m)
    BY <1>3 DEF IsPrefix, m, n
  <2>4. (\A i \in 1..m : s[i] = t[i]) <=> SubSeq(s, 1, m) = SubSeq(t, 1, m)
    BY <1>2, <2>1, <2>2, Zenon
  <2> QED
    BY <1>3, <2>3, <2>4 DEF m, n
<1>4. CASE ~(m <= n)
  BY <1>4 DEF IsPrefix
<1> QED
  BY <1>3, <1>4

LEMMA PrefixOfConcat ==
  ASSUME NEW S, NEW s \in Seq(S), NEW t \in Seq(S), NEW u \in Seq(S), IsPrefix(s, t)
  PROVE  IsPrefix(s, t \o u)
<1>1. Len(s) <= Len(t) /\ \A i \in 1..Len(s) : s[i] = t[i]
  BY PrefixIs
<1>2. /\ t \o u \in Seq(S) /\ Len(s) <= Len(t \o u)
      /\ \A i \in 1..Len(s) : s[i] = (t \o u)[i]
  BY <1>1
<1> HIDE DEF IsPrefix
<1> QED
  BY <1>2, PrefixIs

LEMMA PrefixOfPrefix ==
  ASSUME NEW S, NEW s \in Seq(S), NEW t \in Seq(S), NEW u \in Seq(S),
         IsPrefix(s, t), IsPrefix(t, u)
  PROVE  IsPrefix(s, u)
<1>1. Len(s) <= Len(t) /\ \A i \in 1..Len(s) : s[i] = t[i]
  BY PrefixIs
<1>2. Len(t) <= Len(u) /\ \A i \in 1..Len(t) : t[i] = u[i]
  BY PrefixIs
<1>3. Len(s) <= Len(u) /\ \A i \in 1..Len(s) : s[i] = u[i]
  BY <1>1, <1>2
<1> HIDE DEF IsPrefix
<1> QED
  BY <1>3, PrefixIs

LEMMA PrefixOfSelf ==
  ASSUME NEW S, NEW s \in Seq(S)
  PROVE  IsPrefix(s, s) /\ IsPrefix(<<>>, s)
<1>1. <<>> \in Seq(S) /\ Len(<<>>) = 0 /\ Len(s) \in Nat
  OBVIOUS
<1> HIDE DEF IsPrefix
<1>2. IsPrefix(s, s)
  BY <1>1, PrefixIs
<1>3. IsPrefix(<<>>, s)
  <2> DEFINE e == <<>>
  <2>1. e \in Seq(S) /\ Len(e) <= Len(s) /\ \A i \in 1..Len(e) : e[i] = s[i]
    BY <1>1
  <2> HIDE DEF e
  <2>2. IsPrefix(e, s)
    BY <2>1, PrefixIs
  <2> QED
    BY <2>2 DEF e
<1> QED
  BY <1>2, <1>3

LEMMA PrefixOfAppend ==
  ASSUME NEW S, NEW s \in Seq(S), NEW t \in Seq(S), NEW x \in S, IsPrefix(s, t)
  PROVE  IsPrefix(s, Append(t, x))
<1>1. <<x>> \in Seq(S) /\ Append(t, x) = t \o <<x>>
  OBVIOUS
<1> QED
  BY <1>1, PrefixOfConcat

-------------------------------------------------------------------------------
(* A line as xmbctrl writes it is read as it was meant, and cut anywhere it          *)
(* activates nothing but its plugin, and that only when it is whole.                 *)

Ends == {<<>>, <<"nl", "nl">>}
Flag(activated) == IF activated THEN "1" ELSE "0"

Reader(line, plugins) == [line |-> line, plugins |-> plugins]

LEMMA ReaderIs ==
  ASSUME NEW line \in Seq(LineChars), NEW ps \in Seq(Records)
  PROVE  /\ \A c \in LineChars :
              Passes(Reader(line, ps), c, {}) = Reader(Append(line, c), ps)
         /\ line # <<>> =>
              Passes(Reader(line, ps), "nl", {}) = Reader(<<>>, Append(ps, Parse(line)))
         /\ Passes(Reader(<<>>, ps), "nl", {}) = Reader(<<>>, ps)
         /\ line # <<>> => Ended(Reader(line, ps)) = Append(ps, Parse(line))
         /\ Ended(Reader(<<>>, ps)) = ps
<1>1. ASSUME NEW c \in LineChars
      PROVE  Passes(Reader(line, ps), c, {}) = Reader(Append(line, c), ps)
  <2>1. c # "nl"
    BY DEF LineChars
  <2> DEFINE x == Append(line, c)
  <2> HIDE DEF x
  <2>2. [Reader(line, ps) EXCEPT !.line = x] = Reader(x, ps)
    BY DEF Reader
  <2>3. [Reader(line, ps) EXCEPT !.line = Append(@, c)] = Reader(x, ps)
    BY <2>2 DEF x, Reader
  <2> QED
    BY <2>1, <2>3 DEF Passes, Takes, x
<1>2. line # <<>> =>
        Passes(Reader(line, ps), "nl", {}) = Reader(<<>>, Append(ps, Parse(line)))
  BY Zenon DEF Passes, Takes, Reader
<1>3. Passes(Reader(<<>>, ps), "nl", {}) = Reader(<<>>, ps)
  BY Zenon DEF Passes, Takes, Reader
<1> QED
  BY <1>1, <1>2, <1>3, Zenon DEF Ended, Reader

\* t is s and behind it a line of the plugin x, and maybe a separator; what is read of s
\* are the plugins ps.
LineReads(t, s, ps, x, sep) ==
  /\ t \in Seq(Chars) /\ Len(t) \in Nat /\ Len(s) <= Len(t)
  /\ \A i \in 1..Len(s) : t[i] = s[i]
  /\ ps \in Seq(Records) /\ x \in Records
  /\ Ended(Walk(t, {})[Len(t)]) = Append(ps, x)
  /\ sep # <<>> => Walk(t, {})[Len(t)].line = <<>>
  /\ \A n \in Len(s)..Len(t) :
       Activated(Ended(Walk(t, {})[n])) \in {Activated(ps), Activated(Append(ps, x))}

\* The reader stands between two lines.
LEMMA LineRead ==
  ASSUME NEW s \in Seq(Chars), NEW path \in Seq(PathChars), NEW a \in BOOLEAN, NEW sep \in Ends,
         Walk(s, {})[Len(s)].line = <<>>
  PROVE  LineReads(s \o (path \o <<"sp", Flag(a)>> \o sep), s, Walk(s, {})[Len(s)].plugins,
                   [path |-> path, activated |-> a], sep)
<1> DEFINE flag == Flag(a)
           u == path \o <<"sp", flag>>
           t == s \o (u \o sep)
           L == Len(path)
           P == Len(s)
           ps == Walk(s, {})[P].plugins
           x == [path |-> path, activated |-> a]
           w == Walk(t, {})
<1>1. flag \in {"0", "1"} /\ flag = (IF a THEN "1" ELSE "0")
  BY DEF Flag
<1>2. /\ flag \in LineChars /\ "sp" \in LineChars /\ "nl" \in Chars
      /\ LineChars \subseteq Chars /\ PathChars \subseteq LineChars
  BY <1>1, PluginConstants DEF LineChars, PathChars, Blank
<1> HIDE DEF flag
<1>3. L \in Nat /\ P \in Nat /\ path \in Seq(LineChars)
  BY <1>2
<1>4. /\ u \in Seq(LineChars) /\ Len(u) = L + 2
      /\ \A k \in 1..L : u[k] = path[k]
      /\ u[L + 1] = "sp" /\ u[L + 2] = flag
  BY <1>2, <1>3
<1>5. Parse(u) = x /\ x \in Records
  <2>1. Parse(u) = [path |-> path, activated |-> flag = "1"]
    BY <1>1, ParseLine
  <2>2. (flag = "1") = a
    <3>1. CASE a = TRUE
      BY <1>1, <3>1
    <3>2. CASE a = FALSE
      BY <1>1, <3>2
    <3> QED
      BY <3>1, <3>2
  <2> QED
    BY <2>1, <2>2, Zenon DEF Records
<1>6. sep \in Seq(Chars) /\ u \in Seq(Chars)
  <2>1. sep \in Seq(Chars)
    <3>1. <<>> \in Seq(Chars) /\ <<"nl", "nl">> \in Seq(Chars)
      BY <1>2
    <3> QED
      BY <3>1, Zenon DEF Ends
  <2> HIDE DEF u, L
  <2>2. u \in Seq(Chars)
    BY <1>2, <1>4
  <2> QED
    BY <2>1, <2>2
<1> HIDE DEF u, x
<1>7. /\ t \in Seq(Chars) /\ Len(t) = (P + (L + 2)) + Len(sep)
      /\ \A i \in 1..P : t[i] = s[i]
      /\ \A j \in 1..(L + 2) : t[P + j] = u[j]
      /\ \A j \in 1..Len(sep) : t[(P + (L + 2)) + j] = sep[j]
  <2> DEFINE tt == s \o (u \o sep)
  <2>1. P = Len(s) /\ Len(u) = L + 2
    BY <1>4
  <2>2. tt \in Seq(Chars) /\ Three(tt, s, u, sep)
    BY <1>6, ConcatTwice
  <2> HIDE DEF P, L, tt
  <2>3. /\ Len(tt) = (P + (L + 2)) + Len(sep)
        /\ \A i \in 1..P : tt[i] = s[i]
        /\ \A j \in 1..(L + 2) : tt[P + j] = u[j]
        /\ \A j \in 1..Len(sep) : tt[(P + (L + 2)) + j] = sep[j]
    BY <2>1, <2>2, Zenon DEF Three
  <2> QED
    BY <2>2, <2>3 DEF tt
<1> HIDE DEF t
<1>8. /\ w \in [0..Len(t) -> Readers] /\ ps \in Seq(Records)
      /\ \A i \in 1..Len(t) : w[i] = Passes(w[i - 1], t[i], {})
      /\ w[P] = Reader(<<>>, ps)
  <2>1. /\ w \in [0..Len(t) -> Readers]
        /\ \A i \in 1..Len(t) : w[i] = Passes(w[i - 1], t[i], {})
    BY <1>7, WalkIs
  <2>2. Len(sep) \in Nat /\ P <= Len(t) /\ P \in 0..P /\ P <= Len(s)
    BY <1>3, <1>6, <1>7
  <2> DEFINE r == Walk(s, {})[P]
  <2>3. w[P] = r
    <3> HIDE DEF P
    <3> QED
      BY <1>3, <1>7, <2>2, WalksAlike
  <2>4. r \in Readers /\ r.line = <<>>
    BY <2>2, WalkIs
  <2> HIDE DEF r
  <2>5. r = Reader(r.line, r.plugins) /\ r.plugins \in Seq(Records)
    BY <2>4 DEF Readers, Reader
  <2> QED
    BY <2>1, <2>3, <2>4, <2>5 DEF r
<1> HIDE DEF P, w, ps
<1> DEFINE head(j) == SubSeq(u, 1, j)
           M == L + 2
<1>9. /\ M \in Nat /\ M = L + 2 /\ head(0) = <<>> /\ head(M) = u
      /\ \A j \in 1..M : head(j - 1) \in Seq(LineChars) /\ head(j) = Append(head(j - 1), u[j])
      /\ \A j \in 0..M : head(j) \in Seq(LineChars) /\ Len(head(j)) = j
      /\ \A j \in 0..L : head(j) = SubSeq(path, 1, j)
      /\ head(L + 1) = Append(path, "sp")
  <2> HIDE DEF L
  <2>1. /\ M \in Nat /\ head(0) = <<>> /\ head(M) = u
        /\ \A j \in 1..M : head(j - 1) \in Seq(LineChars)
    BY <1>3, <1>4
  <2>2. ASSUME NEW j \in 1..M PROVE head(j) = Append(head(j - 1), u[j])
    BY <1>3, <1>4
  <2>3. ASSUME NEW j \in 0..M PROVE head(j) \in Seq(LineChars) /\ Len(head(j)) = j
    BY <1>3, <1>4
  <2>4. ASSUME NEW j \in 0..L PROVE head(j) = SubSeq(path, 1, j)
    BY <1>3, <1>4 DEF L
  <2>5. head(L + 1) = Append(path, "sp")
    <3>1. head(L) = path
      BY <1>3, <1>4 DEF L
    <3> DEFINE k == L + 1
    <3>2. k \in 1..M /\ k - 1 = L
      BY <1>3
    <3>4. u[k] = "sp"
      BY <1>4, Zenon
    <3> HIDE DEF head, M, k
    <3>3. head(k) = Append(head(L), u[k])
      BY <2>2, <3>2
    <3> QED
      BY <3>1, <3>3, <3>4 DEF k
  <2> QED
    BY <2>1, <2>2, <2>3, <2>4, <2>5
<1> HIDE DEF head, L, M
<1>10. \A j \in 0..M : w[P + j] = Reader(head(j), ps)
  <2> DEFINE T == {j \in 0..M : w[P + j] = Reader(head(j), ps)}
  <2>1. 0 \in T
    <3>1. P + 0 = P /\ 0 \in 0..M
      BY <1>3, <1>9
    <3> QED
      BY <1>8, <1>9, <3>1
  <2>2. ASSUME NEW j \in 1..M, j - 1 \in T PROVE j \in T
    <3>1. P + j \in 1..Len(t) /\ (P + j) - 1 = P + (j - 1)
      <4>1. Len(sep) \in Nat
        BY <1>6
      <4> QED
        BY <1>3, <1>7, <1>9, <4>1
    <3>2. t[P + j] = u[j] /\ u[j] \in LineChars
      BY <1>4, <1>7, <1>9
    <3>3. w[P + (j - 1)] = Reader(head(j - 1), ps)
      BY <2>2
    <3>4. w[P + j] = Passes(Reader(head(j - 1), ps), u[j], {})
      BY <1>8, <3>1, <3>2, <3>3
    <3>5. w[P + j] = Reader(Append(head(j - 1), u[j]), ps)
      BY <1>8, <1>9, <3>2, <3>4, ReaderIs
    <3>6. head(j) = Append(head(j - 1), u[j]) /\ j \in 0..M
      BY <1>9
    <3>7. w[P + j] = Reader(head(j), ps)
      BY <3>5, <3>6, Zenon
    <3> QED
      BY <3>6, <3>7
  <2> HIDE DEF T
  <2>3. \A j \in 0..M : j \in T
    BY <1>9, <2>1, <2>2, UpTo
  <2> QED
    BY <2>3 DEF T
<1>11. M # 0 /\ u # <<>> /\ Ended(w[P + M]) = Append(ps, x)
  <2>1. M # 0 /\ u # <<>> /\ M \in 0..M
    BY <1>3, <1>4, <1>9
  <2>2. w[P + M] = Reader(u, ps)
    BY <1>9, <1>10, <2>1
  <2> QED
    BY <1>4, <1>5, <1>8, <2>1, <2>2, ReaderIs
<1>12. ASSUME NEW j \in 0..M
       PROVE  Activated(Ended(w[P + j])) \in {Activated(ps), Activated(Append(ps, x))}
  <2>1. w[P + j] = Reader(head(j), ps) /\ head(j) \in Seq(LineChars) /\ Len(head(j)) = j
    BY <1>9, <1>10
  <2>2. CASE j = 0
    <3>1. Ended(w[P + j]) = ps
      BY <1>8, <1>9, <2>1, <2>2, ReaderIs
    <3> QED
      BY <3>1
  <2>3. ASSUME j # 0, NEW q \in Seq(PathChars), Parse(head(j)) = [path |-> q, activated |-> FALSE]
        PROVE  Activated(Ended(w[P + j])) = Activated(ps)
    <3> DEFINE y == Parse(head(j))
    <3>1. head(j) # <<>>
      BY <2>1, <2>3
    <3>2. Ended(w[P + j]) = Append(ps, y)
      BY <1>8, <2>1, <3>1, ReaderIs
    <3>3. y \in Records /\ ~y.activated
      BY <2>3 DEF Records
    <3> HIDE DEF y
    <3>4. Activated(Append(ps, y)) = Activated(ps)
      BY <1>8, <3>3, ActivatedAppend
    <3> QED
      BY <3>2, <3>4
  <2>4. CASE j \in 1..L
    <3> DEFINE q == SubSeq(path, 1, j)
    <3>1. q \in Seq(PathChars) /\ j # 0 /\ j \in 0..L
      BY <1>3, <2>4 DEF L
    <3> HIDE DEF q
    <3>2. head(j) = q
      BY <1>9, <3>1 DEF q
    <3>3. Parse(head(j)) = [path |-> q, activated |-> FALSE]
      BY <3>1, <3>2, ParsePath
    <3> QED
      BY <2>3, <3>1, <3>3
  <2>5. CASE j = L + 1
    <3>1. Parse(Append(path, "sp")) = [path |-> path, activated |-> FALSE]
      BY ParsePath
    <3>2. head(j) = Append(path, "sp")
      BY <1>9, <2>5, Zenon
    <3>3. j # 0
      BY <1>3, <2>5
    <3> QED
      BY <2>3, <3>1, <3>2, <3>3
  <2>6. CASE j = M
    BY <1>11, <2>6
  <2>7. j = 0 \/ j \in 1..L \/ j = L + 1 \/ j = M
    <3>1. j \in Nat /\ j <= L + 2
      BY <1>3, <1>9
    <3> QED
      BY <1>3, <1>9, <3>1
  <2> QED
    BY <2>2, <2>4, <2>5, <2>6, <2>7
<1>13. CASE sep = <<>>
  <2>1. Len(t) = P + M /\ P <= Len(t) /\ Len(t) \in Nat
    BY <1>3, <1>7, <1>9, <1>13
  <2>2. ASSUME NEW n \in P..Len(t)
        PROVE  Activated(Ended(w[n])) \in {Activated(ps), Activated(Append(ps, x))}
    <3> DEFINE j == n - P
    <3>1. j \in 0..M /\ P + j = n
      BY <1>3, <1>9, <2>1
    <3> HIDE DEF j
    <3> QED
      BY <1>12, <3>1
  <2>3. Ended(w[Len(t)]) = Append(ps, x)
    BY <1>11, <2>1
  <2> QED
    BY <1>5, <1>7, <1>8, <1>13, <2>1, <2>2, <2>3 DEF LineReads, t, u, flag, w, ps, x, P
<1>14. CASE sep = <<"nl", "nl">>
  <2> DEFINE K == P + M
             qs == Append(ps, x)
  <2>1. K \in Nat /\ P <= K /\ Len(t) = K + 2 /\ Len(sep) = 2 /\ sep # <<>>
    BY <1>3, <1>7, <1>9, <1>14
  <2>2. t[K + 1] = "nl" /\ t[K + 2] = "nl"
    BY <1>7, <1>9, <1>14, <2>1
  <2>3. w[K] = Reader(u, ps) /\ qs \in Seq(Records) /\ <<>> \in Seq(LineChars)
    <3>1. M \in 0..M
      BY <1>9
    <3> QED
      BY <1>5, <1>8, <1>9, <1>10, <3>1
  <2> HIDE DEF K, qs
  <2>4. w[K + 1] = Reader(<<>>, qs)
    <3>1. K + 1 \in 1..Len(t) /\ (K + 1) - 1 = K
      BY <2>1
    <3>2. w[K + 1] = Passes(Reader(u, ps), "nl", {})
      BY <1>8, <2>2, <2>3, <3>1
    <3> QED
      BY <1>4, <1>5, <1>8, <1>11, <3>2, ReaderIs DEF qs
  <2>5. w[K + 2] = Reader(<<>>, qs)
    <3>1. K + 2 \in 1..Len(t) /\ (K + 2) - 1 = K + 1
      BY <2>1
    <3>2. w[K + 2] = Passes(Reader(<<>>, qs), "nl", {})
      BY <1>8, <2>2, <2>4, <3>1
    <3> QED
      BY <2>3, <3>2, ReaderIs
  <2>6. Ended(w[K + 1]) = qs /\ Ended(w[K + 2]) = qs /\ w[K + 2].line = <<>>
    <3>1. Ended(Reader(<<>>, qs)) = qs
      BY <2>3, ReaderIs
    <3>2. Reader(<<>>, qs).line = <<>>
      BY DEF Reader
    <3> QED
      BY <2>4, <2>5, <3>1, <3>2, Zenon
  <2>7. ASSUME NEW n \in P..Len(t)
        PROVE  Activated(Ended(w[n])) \in {Activated(ps), Activated(qs)}
    <3>1. CASE n \in P..K
      <4> DEFINE j == n - P
      <4>1. j \in 0..M /\ P + j = n
        BY <1>3, <1>9, <3>1 DEF K
      <4> HIDE DEF j
      <4> QED
        BY <1>12, <4>1 DEF qs
    <3>2. CASE n \in {K + 1, K + 2}
      BY <2>6, <3>2
    <3> QED
      BY <1>3, <2>1, <3>1, <3>2
  <2>8. Ended(w[Len(t)]) = qs /\ w[Len(t)].line = <<>>
    BY <2>1, <2>6
  <2>9. Len(t) \in Nat /\ P <= Len(t)
    BY <1>3, <2>1
  <2> QED
    BY <1>5, <1>7, <1>8, <2>7, <2>8, <2>9 DEF LineReads, t, u, flag, w, ps, x, P, qs
<1> QED
  BY <1>13, <1>14 DEF Ends

-------------------------------------------------------------------------------
(* What is written of a table *)

LEMMA SeqUpTo ==
  ASSUME NEW S, NEW T, <<>> \in T,
         \A s \in Seq(S), x \in S : s \in T => Append(s, x) \in T
  PROVE  \A s \in Seq(S) : s \in T
<1> SUFFICES ASSUME NEW s \in Seq(S) PROVE s \in T
  OBVIOUS
<1> DEFINE N == Len(s)
           head(i) == SubSeq(s, 1, i)
           U == {i \in 0..N : head(i) \in T}
<1>1. N \in Nat /\ head(0) = <<>> /\ head(N) = s /\ 0 \in 0..N /\ N \in 0..N
  OBVIOUS
<1>2. ASSUME NEW i \in 1..N, i - 1 \in U PROVE i \in U
  <2>1. head(i - 1) \in Seq(S) /\ s[i] \in S /\ head(i) = Append(head(i - 1), s[i])
    OBVIOUS
  <2>2. head(i - 1) \in T /\ i \in 0..N
    BY <1>2
  <2> HIDE DEF head, N
  <2>3. head(i) \in T
    BY <2>1, <2>2
  <2> QED
    BY <2>2, <2>3
<1> HIDE DEF head, N
<1>3. 0 \in U
  BY <1>1
<1> HIDE DEF U
<1>4. \A i \in 0..N : i \in U
  BY <1>1, <1>2, <1>3, UpTo
<1> QED
  BY <1>1, <1>4 DEF U

LEMMA ActivatedNamed ==
  ASSUME NEW s \in Seq(Records)
  PROVE  Activated(Named(s)) = Activated(s)
<1> DEFINE T == {t \in Seq(Records) : Activated(Named(t)) = Activated(t)}
<1>1. <<>> \in T
  <2>1. <<>> \in Seq(Records)
    OBVIOUS
  <2> QED
    BY <2>1, NamedEmpty
<1>2. ASSUME NEW t \in Seq(Records), NEW x \in Records, t \in T PROVE Append(t, x) \in T
  <2>1. Named(t) \in Seq(Records) /\ Append(t, x) \in Seq(Records)
    BY NamedType
  <2>2. Activated(Named(t)) = Activated(t)
    BY <1>2
  <2>3. Activated(Named(Append(t, x))) = Activated(Append(t, x))
    BY <2>1, <2>2, NamedAppend, ActivatedAppend
  <2> QED
    BY <2>1, <2>3
<1> HIDE DEF T
<1>3. \A t \in Seq(Records) : t \in T
  BY <1>1, <1>2, SeqUpTo
<1> QED
  BY <1>3 DEF T

TableRows == [path : Seq(PathChars), activated : BOOLEAN, mode : PluginModes]

LEMMA LineIs ==
  ASSUME NEW row \in TableRows, NEW last \in BOOLEAN, NEW m
  PROVE  /\ row.mode # m => Line(row, last, m) = <<>>
         /\ row.mode = m =>
              \E sep \in Ends :
                 /\ ~last => sep # <<>>
                 /\ Line(row, last, m) = row.path \o <<"sp", Flag(row.activated)>> \o sep
         /\ Line(row, last, m) \in Seq(Chars)
<1>1. <<>> \in Ends /\ <<"nl", "nl">> \in Ends /\ <<"nl", "nl">> # <<>>
  BY DEF Ends
<1>2. ASSUME row.mode = m
      PROVE  \E sep \in Ends :
               /\ ~last => sep # <<>>
               /\ Line(row, last, m) = row.path \o <<"sp", Flag(row.activated)>> \o sep
  <2>1. CASE last
    BY <1>1, <1>2, <2>1, Zenon DEF Line, Flag
  <2>2. CASE ~last
    BY <1>1, <1>2, <2>2, Zenon DEF Line, Flag
  <2> QED
    BY <2>1, <2>2
<1>3. row.mode # m => Line(row, last, m) = <<>>
  BY Zenon DEF Line
<1>4. Line(row, last, m) \in Seq(Chars)
  <2>1. CASE row.mode # m
    <3>1. <<>> \in Seq(Chars)
      OBVIOUS
    <3> QED
      BY <1>3, <2>1, <3>1, Zenon
  <2>2. CASE row.mode = m
    <3>1. PICK sep \in Ends : Line(row, last, m)
                                = row.path \o <<"sp", Flag(row.activated)>> \o sep
      BY <1>2, <2>2
    <3> DEFINE f == Flag(row.activated)
               e == <<"sp", f>>
               q == row.path
    <3>2. f \in Chars /\ "sp" \in Chars /\ "nl" \in Chars
      BY PluginConstants DEF Flag, Blank
    <3> HIDE DEF f
    <3>3. e \in Seq(Chars)
      BY <3>2
    <3>4. <<>> \in Seq(Chars) /\ <<"nl", "nl">> \in Seq(Chars)
      BY <3>2
    <3>5. sep \in Seq(Chars)
      BY <3>4, Zenon DEF Ends
    <3>6. q \in Seq(Chars)
      <4>1. q \in Seq(PathChars) /\ PathChars \subseteq Chars
        BY DEF TableRows, PathChars
      <4> HIDE DEF q
      <4> QED
        BY <4>1
    <3> HIDE DEF e, q
    <3>7. q \o e \o sep \in Seq(Chars)
      BY <3>3, <3>5, <3>6
    <3> QED
      BY <3>1, <3>7 DEF q, e, f
  <2> QED
    BY <2>1, <2>2
<1> QED
  BY <1>2, <1>3, <1>4

LEMMA WrittenIs ==
  ASSUME NEW rows \in Seq(TableRows), NEW m
  PROVE  /\ Written(rows, m) \in [0..Len(rows) -> Seq(Chars)]
         /\ Written(rows, m)[0] = <<>>
         /\ \A i \in 1..Len(rows) :
              Written(rows, m)[i] = Written(rows, m)[i - 1] \o Line(rows[i], i = Len(rows), m)
<1> DEFINE N == Len(rows)
           With(x, i) == x \o Line(rows[i], i = N, m)
           Step == [x \in (1..N) \X Seq(Chars) |-> With(x[2], x[1])]
           Is(f) == f = [i \in 0..N |->
                           IF i = 0 THEN <<>> ELSE f[i - 1] \o Line(rows[i], i = N, m)]
<1>1. \A i \in 1..N, x \in Seq(Chars) : With(x, i) \in Seq(Chars)
  <2> SUFFICES ASSUME NEW i \in 1..N, NEW x \in Seq(Chars) PROVE With(x, i) \in Seq(Chars)
    OBVIOUS
  <2>1. rows[i] \in TableRows /\ (i = N) \in BOOLEAN
    OBVIOUS
  <2> DEFINE l == Line(rows[i], i = N, m)
  <2>2. l \in Seq(Chars)
    BY <2>1, LineIs
  <2> HIDE DEF l
  <2>3. x \o l \in Seq(Chars)
    BY <2>2
  <2> QED
    BY <2>3 DEF l
<1>2. Defines(N, Seq(Chars), <<>>, Step)
  <2> HIDE DEF With
  <2> QED
    BY <1>1 DEF Defines
<1> HIDE DEF Step
<1>3. PICK f : Defined(f, N, Seq(Chars), <<>>, Step)
  BY <1>2, Recursion
<1>0. N \in Nat
  OBVIOUS
<1> HIDE DEF N
<1>4. \A i \in 1..N : f[i] = With(f[i - 1], i)
  <2> SUFFICES ASSUME NEW i \in 1..N PROVE f[i] = With(f[i - 1], i)
    OBVIOUS
  <2>1. f[i - 1] \in Seq(Chars) /\ f[i] = Step[<<i, f[i - 1]>>]
    BY <1>3 DEF Defined
  <2> HIDE DEF With
  <2> QED
    BY <2>1 DEF Step
<1>5. Is(f)
  <2> HIDE DEF With
  <2>1. f = [i \in 0..N |-> IF i = 0 THEN <<>> ELSE With(f[i - 1], i)]
    BY <1>0, <1>3, <1>4 DEF Defined
  <2> QED
    BY <2>1, Zenon DEF With
<1>6. Is(Written(rows, m))
  <2> HIDE DEF Is
  <2>1. Is(CHOOSE g : Is(g))
    BY <1>5, Zenon
  <2> QED
    BY <2>1, Zenon DEF Written, Is, N
<1> DEFINE w == Written(rows, m)
           T == {i \in 0..N : w[i] \in Seq(Chars)}
<1>7. w = [i \in 0..N |-> IF i = 0 THEN <<>> ELSE With(w[i - 1], i)]
  BY <1>6
<1> HIDE DEF w, Is, With
<1>8. 0 \in T
  BY <1>0, <1>7
<1>9. ASSUME NEW i \in 1..N, i - 1 \in T PROVE i \in T
  <2>1. w[i - 1] \in Seq(Chars) /\ w[i] = With(w[i - 1], i)
    BY <1>0, <1>7, <1>9
  <2> QED
    BY <1>0, <1>1, <2>1
<1> HIDE DEF T
<1>10. \A i \in 0..N : i \in T
  BY <1>0, <1>8, <1>9, UpTo
<1>11. \A i \in 0..N : w[i] \in Seq(Chars)
  BY <1>10 DEF T
<1>12. w \in [0..N -> Seq(Chars)] /\ w[0] = <<>>
  BY <1>0, <1>7, <1>11
<1>13. \A i \in 1..N : w[i] = With(w[i - 1], i)
  BY <1>0, <1>7
<1> QED
  BY <1>12, <1>13 DEF w, With, N

Meant(row, m) == IF row.mode = m THEN [path |-> row.path, activated |-> row.activated]
                 ELSE NoPlugin
MeantOf(rows, m) == [n \in 1..Len(rows) |-> Meant(rows[n], m)]

LEMMA MeantType ==
  ASSUME NEW rows \in Seq(TableRows), NEW m
  PROVE  /\ MeantOf(rows, m) \in Seq(Records) /\ Len(MeantOf(rows, m)) = Len(rows)
         /\ \A n \in 1..Len(rows) : /\ MeantOf(rows, m)[n] = Meant(rows[n], m)
                                     /\ Meant(rows[n], m) \in Records
         /\ Shown(rows, m) = Named(MeantOf(rows, m)) /\ Shown(rows, m) \in Seq(Records)
<1>1. \A row \in TableRows : Meant(row, m) \in Records
  BY DEF Meant, TableRows, Records, NoPlugin
<1>2. \A n \in 1..Len(rows) : Meant(rows[n], m) \in Records
  BY <1>1
<1>3. MeantOf(rows, m) \in Seq(Records) /\ Len(MeantOf(rows, m)) = Len(rows)
  BY <1>2 DEF MeantOf
<1>4. Shown(rows, m) = Named(MeantOf(rows, m))
  BY Zenon DEF Shown, MeantOf, Meant
<1>5. \A n \in 1..Len(rows) : MeantOf(rows, m)[n] = Meant(rows[n], m)
  BY DEF MeantOf
<1> QED
  BY <1>2, <1>3, <1>4, <1>5, NamedType

\* The reader of what is written of the first i rows has these rows' plugins, and before
\* only ever the first of those it will start.
ReadsFirst(rows, m, i) ==
  LET s == Written(rows, m)[i]
      r == Walk(s, {})[Len(s)]
  IN  /\ s \in Seq(Chars)
      /\ i < Len(rows) => r.line = <<>>
      /\ Named(Ended(r)) = NamedOf(MeantOf(rows, m))[i]
      /\ \A n \in 0..Len(s) : IsPrefix(Activated(Ended(Walk(s, {})[n])), Activated(Ended(r)))

LEMMA ReadsNone ==
  ASSUME NEW rows \in Seq(TableRows), NEW m
  PROVE  ReadsFirst(rows, m, 0)
<1> DEFINE s == Written(rows, m)[0]
<1>1. s = <<>> /\ s \in Seq(Chars) /\ Len(s) = 0
  <2>1. s = <<>>
    BY WrittenIs
  <2>2. <<>> \in Seq(Chars) /\ Len(<<>>) = 0
    OBVIOUS
  <2> QED
    BY <2>1, <2>2, Zenon
<1> HIDE DEF s
<1>2. Walk(s, {})[0] = NothingRead
  BY <1>1, WalkIs
<1>3. NothingRead.line = <<>> /\ Ended(NothingRead) = <<>>
  BY DEF NothingRead, Ended
<1>4. NamedOf(MeantOf(rows, m))[0] = <<>>
  BY MeantType, NamedIs
<1>5. Activated(<<>>) \in Seq(Seq(PathChars))
  <2>1. <<>> \in Seq(Records)
    OBVIOUS
  <2> QED
    BY <2>1, ActivatedType
<1>6. IsPrefix(Activated(<<>>), Activated(<<>>))
  BY <1>5, PrefixOfSelf
<1>7. \A n \in 0..Len(s) : n = 0
  BY <1>1
<1> QED
  BY <1>1, <1>2, <1>3, <1>4, <1>6, <1>7, NamedEmpty DEF ReadsFirst, s

LEMMA ReadsNext ==
  ASSUME NEW rows \in Seq(TableRows), NEW m, NEW i \in 1..Len(rows), ReadsFirst(rows, m, i - 1)
  PROVE  ReadsFirst(rows, m, i)
<1> DEFINE s == Written(rows, m)[i - 1]
           t == Written(rows, m)[i]
           row == rows[i]
           last == (i = Len(rows))
           named == NamedOf(MeantOf(rows, m))
           ps == Walk(s, {})[Len(s)].plugins
<1>1. /\ row \in TableRows /\ last \in BOOLEAN /\ i - 1 < Len(rows) /\ Len(rows) \in Nat
      /\ i < Len(rows) => ~last
  OBVIOUS
<1>2. t = s \o Line(row, last, m)
  BY WrittenIs
<1>3. /\ s \in Seq(Chars) /\ Walk(s, {})[Len(s)].line = <<>>
      /\ Named(Ended(Walk(s, {})[Len(s)])) = named[i - 1]
      /\ \A n \in 0..Len(s) : IsPrefix(Activated(Ended(Walk(s, {})[n])),
                                      Activated(Ended(Walk(s, {})[Len(s)])))
  BY <1>1 DEF ReadsFirst
<1>4. named[i] = IF Meant(row, m).path = <<>> THEN named[i - 1]
                 ELSE Append(named[i - 1], Meant(row, m))
  BY MeantType, NamedIs
<1>5. Ended(Walk(s, {})[Len(s)]) = ps
  BY <1>3, Zenon DEF Ended
<1> HIDE DEF s, t, row, last, named, ps
<1>6. CASE row.mode # m
  <2>1. Line(row, last, m) = <<>>
    BY <1>1, <1>6, LineIs
  <2>3. s \o <<>> = s
    BY <1>3
  <2>4. t = s
    BY <1>2, <2>1, <2>3, Zenon
  <2>2. named[i] = named[i - 1]
    BY <1>4, <1>6 DEF Meant, NoPlugin
  <2> QED
    BY <1>1, <1>3, <2>2, <2>4, Zenon DEF ReadsFirst, t, named
<1>7. CASE row.mode = m
  <2> DEFINE path == row.path
             a == row.activated
             x == [path |-> path, activated |-> a]
             qs == Append(ps, x)
  <2>1. path \in Seq(PathChars) /\ a \in BOOLEAN
    BY <1>1 DEF TableRows
  <2>2. PICK sep \in Ends : /\ ~last => sep # <<>>
                           /\ t = s \o (path \o <<"sp", Flag(a)>> \o sep)
    BY <1>1, <1>2, <1>7, LineIs
  <2>3. Meant(row, m) = x
    BY <1>7, Zenon DEF Meant
  <2> HIDE DEF path, a
  <2>4. /\ t \in Seq(Chars) /\ Len(t) \in Nat /\ Len(s) <= Len(t)
        /\ \A k \in 1..Len(s) : t[k] = s[k]
        /\ ps \in Seq(Records) /\ x \in Records
        /\ Ended(Walk(t, {})[Len(t)]) = qs
        /\ sep # <<>> => Walk(t, {})[Len(t)].line = <<>>
        /\ \A n \in Len(s)..Len(t) :
             Activated(Ended(Walk(t, {})[n])) \in {Activated(ps), Activated(qs)}
    <3> DEFINE y == path \o <<"sp", Flag(a)>> \o sep
    <3>1. LineReads(s \o y, s, Walk(s, {})[Len(s)].plugins, x, sep)
      BY <1>3, <2>1, LineRead
    <3>2. LineReads(t, s, ps, x, sep)
      BY <2>2, <3>1 DEF ps
    <3> HIDE DEF x
    <3> QED
      BY <3>2 DEF LineReads
  <2> HIDE DEF x, qs, ps
  <2>5. i < Len(rows) => Walk(t, {})[Len(t)].line = <<>>
    BY <1>1, <2>2, <2>4
  <2>6. Named(Ended(Walk(t, {})[Len(t)])) = named[i]
    <3>1. Named(qs) = IF x.path = <<>> THEN Named(ps) ELSE Append(Named(ps), x)
      BY <2>4, NamedAppend DEF qs
    <3>2. Named(ps) = named[i - 1]
      BY <1>3, <1>5
    <3> QED
      BY <1>4, <2>3, <2>4, <3>1, <3>2
  <2>7. Activated(ps) \in Seq(Seq(PathChars)) /\ IsPrefix(Activated(ps), Activated(qs))
    <3> DEFINE S == Seq(PathChars)
               b == Activated(ps)
    <3>1. b \in Seq(S) /\ x.path \in S
      BY <2>4, ActivatedType DEF Records
    <3>2. Activated(qs) = IF x.activated /\ x.path # <<>> THEN Append(b, x.path) ELSE b
      BY <2>4, ActivatedAppend DEF qs
    <3> HIDE DEF S, b, IsPrefix
    <3>3. IsPrefix(b, b) /\ IsPrefix(b, Append(b, x.path))
      BY <3>1, PrefixOfSelf, PrefixOfAppend
    <3> QED
      BY <3>1, <3>2, <3>3 DEF S, b
  <2>8. ASSUME NEW n \in 0..Len(t) PROVE IsPrefix(Activated(Ended(Walk(t, {})[n])), Activated(qs))
    <3> DEFINE S == Seq(PathChars)
               at(buf) == Activated(Ended(Walk(buf, {})[n]))
    <3>0. Activated(qs) \in Seq(S)
      <4>1. qs \in Seq(Records)
        BY <2>4 DEF qs
      <4> QED
        BY <4>1, ActivatedType
    <3>1. CASE n \in 0..Len(s)
      <4>1. Walk(t, {})[n] = Walk(s, {})[n]
        <5> DEFINE k == Len(s)
        <5>1. k \in Nat /\ k <= Len(s) /\ k <= Len(t) /\ n \in 0..k
          BY <1>3, <2>4, <3>1
        <5>2. \A j \in 1..k : s[j] = t[j]
          BY <2>4
        <5> HIDE DEF k
        <5> QED
          BY <1>3, <2>4, <5>1, <5>2, WalksAlike
      <4>2. IsPrefix(at(s), Activated(ps))
        BY <1>3, <1>5, <3>1
      <4>3. at(s) \in Seq(S)
        <5>1. Walk(s, {})[n] \in Readers
          BY <1>3, <3>1, WalkIs
        <5> QED
          BY <5>1, EndedType, ActivatedType
      <4> DEFINE b == Activated(ps)
                 c == Activated(qs)
                 d == at(s)
      <4>4. IsPrefix(d, b) /\ IsPrefix(b, c) /\ b \in Seq(S) /\ c \in Seq(S) /\ d \in Seq(S)
        BY <2>7, <3>0, <4>2, <4>3
      <4> HIDE DEF b, c, d, S
      <4>5. IsPrefix(d, c)
        BY <4>4, PrefixOfPrefix
      <4> QED
        BY <4>1, <4>5 DEF c, d
    <3>2. CASE n \in Len(s)..Len(t)
      <4>1. at(t) \in {Activated(ps), Activated(qs)}
        BY <2>4, <3>2
      <4>2. IsPrefix(Activated(qs), Activated(qs))
        BY <3>0, PrefixOfSelf
      <4> QED
        BY <2>7, <4>1, <4>2
    <3>3. Len(s) \in Nat
      BY <1>3
    <3> QED
      BY <2>4, <3>1, <3>2, <3>3
  <2> QED
    BY <2>4, <2>5, <2>6, <2>8, Zenon DEF ReadsFirst, t, named
<1> QED
  BY <1>6, <1>7

\* A list is read as it was written, and a cut one activates the first of its plugins.
LEMMA ReadBack ==
  ASSUME NEW rows \in Seq(TableRows), NEW m
  PROVE  LET list == Written(rows, m)[Len(rows)]
         IN  /\ list \in Seq(Chars)
             /\ Named(SystemReads(list)) = Shown(rows, m)
             /\ \A n \in 0..Len(list) : IsPrefix(Activated(Ended(Walk(list, {})[n])),
                                                Activated(Shown(rows, m)))
<1> DEFINE N == Len(rows)
           T == {i \in 0..N : ReadsFirst(rows, m, i)}
<1>1. N \in Nat /\ N \in 0..N /\ 0 \in 0..N
  OBVIOUS
<1>2. 0 \in T
  BY <1>1, ReadsNone
<1>3. ASSUME NEW i \in 1..N, i - 1 \in T PROVE i \in T
  <2>1. ReadsFirst(rows, m, i)
    BY <1>3, ReadsNext
  <2>2. i \in 0..N
    BY <1>1
  <2> QED
    BY <2>1, <2>2
<1> HIDE DEF T
<1>4. \A i \in 0..N : i \in T
  BY <1>1, <1>2, <1>3, UpTo
<1>5. ReadsFirst(rows, m, N)
  BY <1>1, <1>4 DEF T
<1> DEFINE list == Written(rows, m)[N]
           r == Ended(Walk(list, {})[Len(list)])
<1>6. /\ list \in Seq(Chars) /\ Named(r) = NamedOf(MeantOf(rows, m))[N]
      /\ \A n \in 0..Len(list) : IsPrefix(Activated(Ended(Walk(list, {})[n])), Activated(r))
  BY <1>5, Zenon DEF ReadsFirst
<1>7. NamedOf(MeantOf(rows, m))[N] = Shown(rows, m)
  BY MeantType, Zenon DEF Named
<1>8. r = SystemReads(list)
  BY Zenon DEF SystemReads
<1>9. r \in Seq(Records)
  BY <1>6, <1>8, ReadsTypes
<1> HIDE DEF list, r
<1>10. Activated(r) = Activated(Shown(rows, m))
  BY <1>6, <1>7, <1>9, ActivatedNamed
<1> QED
  BY <1>6, <1>7, <1>8, <1>10 DEF list, N

Lists == Seq(Chars) \cup {NoFile}

LEMMA BufferIs ==
  ASSUME NEW list \in Seq(Chars)
  PROVE  /\ Buffer(list) \in Seq(Chars) /\ Len(Buffer(list)) <= Len(list)
         /\ \A i \in 1..Len(Buffer(list)) : Buffer(list)[i] = list[i]
         /\ Len(list) <= Limit => Buffer(list) = list
<1> DEFINE N == Len(list)
           k == Min({Limit, N})
<1>1. N \in Nat /\ Limit \in Nat
  BY PluginConstants
<1> HIDE DEF N
<1>2. k \in 0..N /\ (N <= Limit => k = N)
  <2> DEFINE S == {Limit, N}
  <2>0. S \in SUBSET Int /\ N \in S /\ Limit \in S /\ k = Min(S)
    BY <1>1
  <2>1. CASE N <= Limit
    <3>1. \A y \in S : N <= y
      BY <1>1, <2>1
    <3> HIDE DEF S, k
    <3>2. k = N
      BY <2>0, <3>1, LeastIs
    <3> QED
      BY <1>1, <3>2
  <2>2. CASE ~(N <= Limit)
    <3>2. \A y \in S : Limit <= y
      BY <1>1, <2>2
    <3> HIDE DEF S, k
    <3>1. k = Limit
      BY <2>0, <3>2, LeastIs
    <3> QED
      BY <1>1, <2>2, <3>1
  <2> QED
    BY <2>1, <2>2
<1>3. list # NoFile
  BY PluginConstants
<1>4. Buffer(list) = SubSeq(list, 1, k)
  BY <1>3 DEF Buffer, N
<1> HIDE DEF k
<1> DEFINE b == SubSeq(list, 1, k)
<1>5. /\ b \in Seq(Chars) /\ Len(b) = k /\ \A i \in 1..k : b[i] = list[i]
      /\ k = N => b = list
  BY <1>1, <1>2 DEF N
<1> HIDE DEF b
<1>6. Buffer(list) = b /\ k <= N /\ (N <= Limit => b = list)
  BY <1>1, <1>2, <1>4, <1>5 DEF b
<1> QED
  BY <1>5, <1>6 DEF N

LEMMA StartsType ==
  ASSUME NEW list \in Lists
  PROVE  /\ Buffer(list) \in Seq(Chars) /\ SystemReads(Buffer(list)) \in Seq(Records)
         /\ XmbReads(Buffer(list)) \in Seq(Records)
         /\ Starts(list) \in Seq(Seq(PathChars))
<1>1. Buffer(list) \in Seq(Chars)
  <2>1. CASE list = NoFile
    BY <2>1 DEF Buffer
  <2>2. CASE list \in Seq(Chars)
    BY <2>2, BufferIs
  <2> QED
    BY <2>1, <2>2 DEF Lists
<1>2. SystemReads(Buffer(list)) \in Seq(Records) /\ XmbReads(Buffer(list)) \in Seq(Records)
  BY <1>1, ReadsTypes
<1>3. Activated(SystemReads(Buffer(list))) \in Seq(Seq(PathChars))
  BY <1>2, ActivatedType
<1> QED
  BY <1>1, <1>2, <1>3 DEF Starts

\* An empty list starts nothing.
LEMMA StartsNothing == Starts(<<>>) = <<>>
<1>1. <<>> \in Seq(Chars) /\ Len(<<>>) = 0
  OBVIOUS
<1>2. Buffer(<<>>) = <<>>
  <2>1. Len(<<>>) <= Limit
    BY <1>1, PluginConstants
  <2> QED
    BY <1>1, <2>1, BufferIs
<1>3. Walk(<<>>, {})[0] = NothingRead
  BY <1>1, WalkIs
<1>4. SystemReads(<<>>) = <<>>
  BY <1>1, <1>3 DEF SystemReads, NothingRead, Ended
<1> QED
  BY <1>2, <1>4, ActivatedEmpty DEF Starts

\* What is there of a list while it is written, and when all of it is.
LEMMA WrittenStarts ==
  ASSUME NEW rows \in Seq(TableRows), NEW m, NEW list \in Seq(Chars),
         list = Written(rows, m)[Len(rows)]
  PROVE  /\ \A n \in 0..Len(list) : IsPrefix(Starts(SubSeq(list, 1, n)), Activated(Shown(rows, m)))
         /\ Len(list) <= Limit => Named(SystemReads(Buffer(list))) = Shown(rows, m)
<1>1. /\ Named(SystemReads(list)) = Shown(rows, m)
      /\ \A n \in 0..Len(list) : IsPrefix(Activated(Ended(Walk(list, {})[n])),
                                         Activated(Shown(rows, m)))
  BY ReadBack
<1>2. ASSUME NEW n \in 0..Len(list)
      PROVE  IsPrefix(Starts(SubSeq(list, 1, n)), Activated(Shown(rows, m)))
  <2> DEFINE cut == SubSeq(list, 1, n)
             b == Buffer(cut)
             k == Len(b)
  <2>1. cut \in Seq(Chars) /\ Len(cut) = n /\ \A i \in 1..n : cut[i] = list[i]
    OBVIOUS
  <2> HIDE DEF cut
  <2>2. b \in Seq(Chars) /\ k <= n /\ k \in Nat /\ \A i \in 1..k : b[i] = cut[i]
    <3>1. Buffer(cut) \in Seq(Chars) /\ Len(Buffer(cut)) <= Len(cut)
      BY <2>1, BufferIs
    <3>2. \A i \in 1..Len(Buffer(cut)) : Buffer(cut)[i] = cut[i]
      BY <2>1, BufferIs
    <3> HIDE DEF b
    <3>3. b \in Seq(Chars) /\ k <= n
      BY <2>1, <3>1 DEF b
    <3>4. \A i \in 1..k : b[i] = cut[i]
      BY <3>2, Zenon DEF b
    <3> QED
      BY <3>3, <3>4
  <2> HIDE DEF b
  <2>3. Walk(b, {})[k] = Walk(list, {})[k]
    <3> DEFINE kk == k
    <3>1. kk \in Nat /\ kk <= Len(b) /\ kk <= Len(list) /\ kk \in 0..kk
      BY <2>2
    <3>2. \A i \in 1..kk : b[i] = list[i]
      BY <2>1, <2>2
    <3>3. kk = k
      OBVIOUS
    <3> HIDE DEF kk
    <3>4. Walk(b, {})[kk] = Walk(list, {})[kk]
      BY <2>2, <3>1, <3>2, WalksAlike
    <3> QED
      BY <3>3, <3>4
  <2>4. SystemReads(b) = Ended(Walk(list, {})[k])
    BY <2>3 DEF SystemReads
  <2>5. k \in 0..Len(list)
    BY <2>2
  <2> QED
    BY <1>1, <2>4, <2>5 DEF Starts, b, cut
<1>3. ASSUME Len(list) <= Limit PROVE Named(SystemReads(Buffer(list))) = Shown(rows, m)
  BY <1>1, <1>3, BufferIs
<1> QED
  BY <1>2, <1>3

-------------------------------------------------------------------------------
(* The two readers *)

LEMMA WalksAgree ==
  ASSUME NEW buf \in Seq(Chars), ReadAlike(buf)
  PROVE  \A i \in 0..Len(buf) : Walk(buf, {"tab"})[i] = Walk(buf, {})[i]
<1> DEFINE N == Len(buf)
           w == Walk(buf, {})
           x == Walk(buf, {"tab"})
           T == {i \in 0..N : /\ x[i] = w[i]
                              /\ w[i].line = <<>> /\ w[i].plugins # <<>> => buf[i] = "nl"}
<1>1. N \in Nat
  OBVIOUS
<1>2. /\ w \in [0..N -> Readers] /\ w[0] = NothingRead /\ x[0] = NothingRead
      /\ \A i \in 1..N : w[i] = Passes(w[i - 1], buf[i], {}) /\ x[i] = Passes(x[i - 1], buf[i], {"tab"})
  BY WalkIs
<1>3. \A i \in 2..N : buf[i - 1] = "nl" => buf[i] # "tab"
  <2> SUFFICES ASSUME NEW i \in 2..N, buf[i - 1] = "nl" PROVE buf[i] # "tab"
    OBVIOUS
  <2> DEFINE j == i - 1
  <2>1. j \in 1..(Len(buf) - 1) /\ j + 1 = i
    OBVIOUS
  <2> HIDE DEF j
  <2> QED
    BY <2>1 DEF ReadAlike, j
<1> HIDE DEF N, w, x
<1>4. 0 \in T
  BY <1>1, <1>2 DEF NothingRead
<1>5. ASSUME NEW i \in 1..N, i - 1 \in T PROVE i \in T
  <2> DEFINE r == w[i - 1]
             c == buf[i]
  <2>1. /\ r \in Readers /\ x[i - 1] = r
        /\ w[i] = Passes(r, c, {}) /\ x[i] = Passes(r, c, {"tab"})
        /\ r.line = <<>> /\ r.plugins # <<>> => buf[i - 1] = "nl"
    BY <1>1, <1>2, <1>5
  <2>2. ~(c = "tab" /\ r.line = <<>> /\ r.plugins # <<>>)
    <3> SUFFICES ASSUME c = "tab", r.line = <<>>, r.plugins # <<>> PROVE FALSE
      OBVIOUS
    <3>1. i # 1
      BY <1>2 DEF NothingRead
    <3>2. i \in 2..N
      BY <1>1, <3>1
    <3> QED
      BY <1>3, <2>1, <3>2
  <2> HIDE DEF r, c
  <2>3. x[i] = w[i] /\ w[i] = Takes(r, c)
    BY <2>1, <2>2 DEF Passes
  <2>4. ASSUME c # "nl" PROVE w[i].line # <<>>
    <3> DEFINE l == Append(r.line, c)
    <3>1. r.line \in Seq(LineChars)
      BY <2>1 DEF Readers
    <3>2. l # <<>>
      BY <3>1
    <3>3. w[i] = [r EXCEPT !.line = l]
      BY <2>3, <2>4, Zenon DEF Takes
    <3> HIDE DEF l
    <3>4. w[i].line = l
      BY <2>1, <3>3 DEF Readers
    <3> QED
      BY <3>2, <3>4
  <2> QED
    BY <1>1, <2>3, <2>4 DEF c
<1> HIDE DEF T
<1>6. \A i \in 0..N : i \in T
  BY <1>1, <1>4, <1>5, UpTo
<1> QED
  BY <1>6 DEF T, N, w, x

LEMMA ReadersAgree ==
  ASSUME NEW buf \in Seq(Chars), ReadAlike(buf)
  PROVE  Named(XmbReads(buf)) = Named(SystemReads(buf))
<1> DEFINE r == Walk(buf, {})[Len(buf)]
<1>1. Walk(buf, {"tab"})[Len(buf)] = r
  BY WalksAgree
<1>2. CASE buf # <<>> /\ r = NothingRead
  <2> DEFINE e == <<>>
             y == Parse(e)
             one == <<y>>
  <2>1. e \in Seq(PathChars) /\ e \in Seq(LineChars)
    OBVIOUS
  <2>2. y.path = e /\ y \in Records
    <3> HIDE DEF e
    <3> QED
      BY <2>1, ParsePath, ParseType
  <2> HIDE DEF y
  <2>3. one \in Seq(Records) /\ Len(one) = 1 /\ one[1] = y
    BY <2>2
  <2> HIDE DEF one
  <2>4. Named(one) = <<>>
    BY <2>2, <2>3, Nameless
  <2>5. XmbReads(buf) = one
    BY <1>1, <1>2, Zenon DEF XmbReads, one, y
  <2>6. Ended(NothingRead) = <<>>
    BY DEF Ended, NothingRead
  <2>7. SystemReads(buf) = <<>>
    BY <1>2, <2>6, Zenon DEF SystemReads
  <2> QED
    BY <2>4, <2>5, <2>7, NamedEmpty
<1>3. CASE ~(buf # <<>> /\ r = NothingRead)
  BY <1>1, <1>3, Zenon DEF XmbReads, SystemReads
<1> QED
  BY <1>2, <1>3

-------------------------------------------------------------------------------
(* The table *)

LEMMA ShownConcat ==
  ASSUME NEW rows \in Seq(TableRows), NEW more \in Seq(TableRows), NEW m
  PROVE  Shown(rows \o more, m) = Shown(rows, m) \o Shown(more, m)
<1> DEFINE a == MeantOf(rows, m)
           b == MeantOf(more, m)
           all == rows \o more
           c == MeantOf(all, m)
<1>1. all \in Seq(TableRows) /\ Two(all, rows, more)
  BY ConcatIs
<1>2. a \in Seq(Records) /\ b \in Seq(Records) /\ c \in Seq(Records)
      /\ Len(a) = Len(rows) /\ Len(b) = Len(more) /\ Len(c) = Len(all)
  BY <1>1, MeantType
<1>3. a \o b \in Seq(Records) /\ Two(a \o b, a, b)
  BY <1>2, ConcatIs
<1> DEFINE ab == a \o b
           M == Len(rows)
           N == Len(more)
<1>4. /\ M \in Nat /\ N \in Nat /\ Len(c) = M + N /\ Len(ab) = M + N
      /\ \A n \in 1..M : a[n] = Meant(rows[n], m) /\ ab[n] = a[n]
      /\ \A n \in 1..N : b[n] = Meant(more[n], m) /\ ab[M + n] = b[n]
      /\ \A n \in 1..M : all[n] = rows[n]
      /\ \A n \in 1..N : all[M + n] = more[n]
  <2> HIDE DEF a, b, c, ab
  <2>1. /\ \A n \in 1..M : a[n] = Meant(rows[n], m)
        /\ \A n \in 1..N : b[n] = Meant(more[n], m)
    BY MeantType DEF a, b
  <2>2. Two(ab, a, b)
    BY <1>3 DEF ab
  <2> QED
    BY <1>1, <1>2, <2>1, <2>2 DEF Two
<1>5. \A n \in 1..(M + N) : c[n] = Meant(all[n], m)
  <2> HIDE DEF all
  <2>1. \A n \in 1..Len(all) : c[n] = Meant(all[n], m)
    BY <1>1, MeantType
  <2>2. Len(all) = M + N
    BY <1>2, <1>4
  <2> QED
    BY <2>1, <2>2, Zenon
<1> HIDE DEF a, b, c, ab, all, M, N
<1>6. ASSUME NEW n \in 1..(M + N) PROVE c[n] = ab[n]
  <2>1. CASE n \in 1..M
    <3>1. all[n] = rows[n] /\ ab[n] = Meant(rows[n], m)
      BY <1>4, <2>1
    <3> QED
      BY <1>5, <3>1
  <2>2. CASE n \notin 1..M
    <3> DEFINE k == n - M
    <3>1. k \in 1..N /\ M + k = n
      BY <1>4, <2>2
    <3> HIDE DEF k
    <3>2. all[M + k] = more[k] /\ ab[M + k] = Meant(more[k], m)
      BY <1>4, <3>1
    <3> QED
      BY <1>5, <3>1, <3>2
  <2> QED
    BY <2>1, <2>2
<1>7. c = ab
  <2>1. c \in Seq(Records) /\ ab \in Seq(Records)
    BY <1>2, <1>3 DEF ab
  <2>2. \A n \in 1..Len(c) : c[n] = ab[n]
    BY <1>4, <1>6
  <2> QED
    BY <1>4, <2>1, <2>2
<1>8. Named(c) = Named(a) \o Named(b)
  BY <1>2, <1>7, NamedConcat DEF ab
<1> QED
  BY <1>1, <1>8, MeantType DEF a, b, c, all

\* The rows of what is read of one list.
OfMode(read, m) == [n \in 1..Len(read) |-> [path |-> read[n].path,
                                            activated |-> read[n].activated, mode |-> m]]

LEMMA OfModeShown ==
  ASSUME NEW read \in Seq(Records), NEW m \in PluginModes, NEW o
  PROVE  /\ OfMode(read, m) \in Seq(TableRows)
         /\ Shown(OfMode(read, m), o) = IF o = m THEN Named(read) ELSE <<>>
<1> DEFINE rows == OfMode(read, m)
           N == Len(read)
<1>1. \A n \in 1..N : [path |-> read[n].path, activated |-> read[n].activated, mode |-> m]
                         \in TableRows
  <2> SUFFICES ASSUME NEW n \in 1..N
               PROVE  [path |-> read[n].path, activated |-> read[n].activated, mode |-> m]
                        \in TableRows
    OBVIOUS
  <2>1. read[n] \in Records
    OBVIOUS
  <2> QED
    BY <2>1, Zenon DEF Records, TableRows
<1>2. rows \in Seq(TableRows) /\ Len(rows) = N
  BY <1>1 DEF OfMode
<1>3. ASSUME NEW n \in 1..N
      PROVE  /\ rows[n].path = read[n].path /\ rows[n].activated = read[n].activated
             /\ rows[n].mode = m
  <2>1. rows[n] = [path |-> read[n].path, activated |-> read[n].activated, mode |-> m]
    BY DEF OfMode
  <2> DEFINE y == rows[n]
             q == read[n].path
             a == read[n].activated
  <2>2. y = [path |-> q, activated |-> a, mode |-> m]
    BY <2>1
  <2> HIDE DEF y, q, a
  <2>3. y.path = q /\ y.activated = a /\ y.mode = m
    BY <2>2
  <2> QED
    BY <2>3, Zenon DEF y, q, a
<1> HIDE DEF rows
<1> DEFINE meant == MeantOf(rows, o)
<1>4. /\ meant \in Seq(Records) /\ Len(meant) = N
      /\ \A n \in 1..N : meant[n] = Meant(rows[n], o)
      /\ Shown(rows, o) = Named(meant)
  BY <1>2, MeantType
<1> HIDE DEF meant
<1>5. ASSUME o = m PROVE meant = read
  <2>1. ASSUME NEW n \in 1..N PROVE meant[n] = read[n]
    <3>1. read[n] \in Records
      OBVIOUS
    <3>2. read[n] = [path |-> read[n].path, activated |-> read[n].activated]
      BY <3>1 DEF Records
    <3>3. meant[n] = [path |-> rows[n].path, activated |-> rows[n].activated]
      <4>1. rows[n].mode = o
        BY <1>3, <1>5
      <4> QED
        BY <1>4, <4>1, Zenon DEF Meant
    <3>4. rows[n].path = read[n].path /\ rows[n].activated = read[n].activated
      BY <1>3, Zenon
    <3> QED
      BY <3>2, <3>3, <3>4, Zenon
  <2> QED
    BY <1>4, <2>1
<1>6. ASSUME o # m PROVE Named(meant) = <<>>
  <2>1. ASSUME NEW n \in 1..Len(meant) PROVE meant[n].path = <<>>
    <3>1. rows[n].mode = m
      BY <1>3, <1>4
    <3>2. meant[n] = NoPlugin
      BY <1>4, <1>6, <3>1, Zenon DEF Meant
    <3> QED
      BY <3>2 DEF NoPlugin
  <2> QED
    BY <1>4, <2>1, Nameless
<1> QED
  BY <1>2, <1>4, <1>5, <1>6 DEF rows

LEMMA ShownAlike ==
  ASSUME NEW rows \in Seq(TableRows), NEW new \in Seq(TableRows), NEW m, Len(new) = Len(rows),
         \A n \in 1..Len(rows) : Meant(new[n], m) = Meant(rows[n], m)
  PROVE  Shown(new, m) = Shown(rows, m)
<1> DEFINE a == MeantOf(rows, m)
           b == MeantOf(new, m)
<1>1. /\ a \in Seq(Records) /\ Len(a) = Len(rows)
      /\ \A n \in 1..Len(rows) : a[n] = Meant(rows[n], m)
  BY MeantType
<1>2. /\ b \in Seq(Records) /\ Len(b) = Len(new)
      /\ \A n \in 1..Len(new) : b[n] = Meant(new[n], m)
  BY MeantType
<1>3. Shown(rows, m) = Named(a) /\ Shown(new, m) = Named(b)
  BY MeantType
<1> HIDE DEF a, b
<1>4. \A n \in 1..Len(rows) : a[n] = b[n]
  BY <1>1, <1>2
<1>5. a = b
  BY <1>1, <1>2, <1>4
<1> QED
  BY <1>3, <1>5

\* A plugin is switched: the other modes show what they did.
LEMMA Switched ==
  ASSUME NEW rows \in Seq(TableRows), NEW i \in 1..Len(rows), NEW new,
         new = [rows EXCEPT ![i].activated = ~@]
  PROVE  /\ new \in Seq(TableRows) /\ Len(new) = Len(rows)
         /\ rows[i].mode \in PluginModes
         /\ \A m : m # rows[i].mode => Shown(new, m) = Shown(rows, m)
<1>1. rows[i] \in TableRows
  OBVIOUS
<1> DEFINE row == rows[i]
           x == [row EXCEPT !.activated = ~@]
<1>2. x \in TableRows /\ x.mode = row.mode /\ row.mode \in PluginModes
  <2> HIDE DEF row
  <2> QED
    BY <1>1 DEF TableRows, row
<1>3. new = [rows EXCEPT ![i] = x]
  OBVIOUS
<1> HIDE DEF row, x
<1>4. /\ new \in Seq(TableRows) /\ Len(new) = Len(rows)
      /\ \A n \in 1..Len(rows) : new[n] = IF n = i THEN x ELSE rows[n]
  BY <1>2, <1>3
<1>5. ASSUME NEW m, m # row.mode PROVE Shown(new, m) = Shown(rows, m)
  <2>1. Meant(x, m) = NoPlugin /\ Meant(rows[i], m) = NoPlugin
    BY <1>2, <1>5 DEF Meant, row
  <2>2. \A n \in 1..Len(rows) : Meant(new[n], m) = Meant(rows[n], m)
    BY <1>4, <2>1
  <2> QED
    BY <1>4, <2>2, ShownAlike
<1> QED
  BY <1>2, <1>4, <1>5 DEF row

-------------------------------------------------------------------------------
(* The lists on the devices *)

\* The list of mode m on device d is the one that is read, if it exists.
Reached(card, there, d, m) == d = "ms0" \/ "ms0" \notin there \/ card["ms0"][m] = NoFile

LEMMA FoundType ==
  ASSUME NEW card, ListsOn(card), NEW there, NEW m \in PluginModes
  PROVE  FoundOn(card, there, m) \in Lists /\ NoFile \in Lists /\ <<>> \in Lists
<1>1. \A d \in Devices : card[d][m] \in Lists
  BY DEF ListsOn, Lists
<1>2. <<>> \in Seq(Chars)
  OBVIOUS
<1> QED
  BY <1>1, <1>2 DEF FoundOn, Lists, Devices

\* A list is written.
Puts(new, card, d, m, list) == new = [card EXCEPT ![d][m] = list]

HasPut(new, card, there, d, m, list) ==
  /\ ListsOn(new) /\ new[d][m] = list
  /\ \A o \in PluginModes : o # m => FoundOn(new, there, o) = FoundOn(card, there, o)
  /\ Reached(new, there, d, m) <=> Reached(card, there, d, m)
  /\ Reached(card, there, d, m) => FoundOn(new, there, m) = list
  /\ ~Reached(card, there, d, m) => FoundOn(new, there, m) = FoundOn(card, there, m)

LEMMA Put ==
  ASSUME NEW card, ListsOn(card), NEW d \in Devices, NEW m \in PluginModes, NEW list \in Seq(Chars),
         NEW new, Puts(new, card, d, m, list), NEW there, d \in there
  PROVE  HasPut(new, card, there, d, m, list)
<1> USE DEF Puts, HasPut
<1> DEFINE L == Lists
<1>1. list \in L /\ list # NoFile
  BY PluginConstants DEF Lists
<1>2. card \in [Devices -> [PluginModes -> L]]
  BY DEF ListsOn, Lists
<1>3. Devices = {"ms0", "ef0"}
  BY DEF Devices
<1> HIDE DEF L
<1>4. /\ new \in [Devices -> [PluginModes -> L]] /\ new[d][m] = list
      /\ \A e \in Devices, o \in PluginModes : e # d \/ o # m => new[e][o] = card[e][o]
  BY <1>1, <1>2
<1>5. ListsOn(new)
  BY <1>4 DEF L, Lists, ListsOn
<1>6. \A o \in PluginModes : o # m => FoundOn(new, there, o) = FoundOn(card, there, o)
  BY <1>3, <1>4 DEF FoundOn
<1>7. CASE d = "ms0"
  BY <1>1, <1>3, <1>4, <1>5, <1>6, <1>7 DEF FoundOn, Reached
<1>8. CASE d = "ef0"
  <2>1. new["ms0"][m] = card["ms0"][m] /\ new["ef0"][m] = list
    BY <1>3, <1>4, <1>8
  <2>2. Reached(new, there, d, m) <=> Reached(card, there, d, m)
    BY <2>1 DEF Reached
  <2>3. Reached(card, there, d, m) => FoundOn(new, there, m) = list
    BY <1>8, <2>1 DEF Reached, FoundOn
  <2>4. ~Reached(card, there, d, m) => FoundOn(new, there, m) = FoundOn(card, there, m)
    BY <1>8, <2>1 DEF Reached, FoundOn
  <2> QED
    BY <1>4, <1>5, <1>6, <2>2, <2>3, <2>4
<1> QED
  BY <1>3, <1>7, <1>8

-------------------------------------------------------------------------------
(* The invariant *)

\* The types; the paths of a table's rows have no blanks and no control characters.
PluginsTyped ==
  /\ ListsOn(lists) /\ present \subseteq Devices
  /\ running \in {"boot", "xmb", "page", "write", "game"}
  /\ bootMode \in PluginModes /\ plugins_started \in BOOLEAN
  /\ started \in Seq(Seq(PathChars))
  /\ table \in Seq(TableRows)
  /\ running \in {"page", "write"} => table # <<>>
  /\ saving \in [device : Devices, mode : PluginModes] \cup {NoSaving}
  /\ running = "write" <=> saving # NoSaving
  /\ asked \in [PluginModes -> Seq(Seq(PathChars))]
  /\ unsaved \subseteq PluginModes /\ changes \in 0..MaxChanges

\* What a boot into any mode would start now is the first of what the user asked for.
AskedOn(card, there, ask) ==
  \A m \in PluginModes : IsPrefix(Starts(FoundOn(card, there, m)), ask[m])

\* The rows of a mode are what systemctrl will read of this list.
SavedAs(rows, list, m) ==
  \/ Shown(rows, m) = Named(SystemReads(Buffer(list)))
  \/ list # NoFile /\ (Len(list) > Limit \/ ~ReadAlike(list))

\* While the page is open, and while it writes a list, the other lists are as shown.
ShownOn(card, there, rows, un, save) ==
  \A m \in PluginModes \ un : save.mode = m \/ SavedAs(rows, FoundOn(card, there, m), m)

ListsShown ==
  running \in {"page", "write"} => ShownOn(lists, present, table, unsaved, saving)

\* The list being written is the first characters of what it will be; and if it is the
\* one that is read, then the user has asked for what it will be.
WritesOn(card, there, d, m, rows, ask) ==
  /\ d \in there
  /\ \E n \in 0..Len(Written(rows, m)[Len(rows)]) :
       card[d][m] = SubSeq(Written(rows, m)[Len(rows)], 1, n)
  /\ Reached(card, there, d, m) => ask[m] = Activated(Shown(rows, m))

WritesAsAsked ==
  running = "write" => WritesOn(lists, present, saving.device, saving.mode, table, asked)

BootStartsAsked == running = "boot" => IsPrefix(started, asked[bootMode])

PluginsInv == /\ PluginsTyped /\ AskedOn(lists, present, asked) /\ BootStartsAsked
              /\ ListsShown /\ WritesAsAsked

\* What the user knows is read anew.
LEMMA AskedAnew ==
  ASSUME NEW card, ListsOn(card), NEW there, NEW ask,
         ask = [m \in PluginModes |-> Starts(FoundOn(card, there, m))]
  PROVE  ask \in [PluginModes -> Seq(Seq(PathChars))] /\ AskedOn(card, there, ask)
<1>1. ASSUME NEW m \in PluginModes
      PROVE  /\ Starts(FoundOn(card, there, m)) \in Seq(Seq(PathChars))
             /\ IsPrefix(Starts(FoundOn(card, there, m)), ask[m])
  <2> DEFINE S == Seq(PathChars)
             st == Starts(FoundOn(card, there, m))
  <2>1. st \in Seq(S) /\ ask[m] = st
    BY FoundType, StartsType
  <2> HIDE DEF st, S
  <2>2. IsPrefix(st, ask[m])
    BY <2>1, PrefixOfSelf
  <2> QED
    BY <2>1, <2>2 DEF st, S
<1> QED
  BY <1>1 DEF AskedOn

LEMMA PluginsInitially == PluginInit => PluginsInv
<1> SUFFICES ASSUME PluginInit PROVE PluginsInv
  OBVIOUS
<1> USE DEF PluginInit
<1>1. ListsOn(lists) /\ present \subseteq Devices
  BY PluginConstants DEF Devices
<1>2. asked = [m \in PluginModes |-> Starts(FoundOn(lists, present, m))]
  BY DEF Found
<1>3. asked \in [PluginModes -> Seq(Seq(PathChars))] /\ AskedOn(lists, present, asked)
  BY <1>1, <1>2, AskedAnew
<1>4. PluginsTyped
  <2>1. <<>> \in Seq(Seq(PathChars)) /\ <<>> \in Seq(TableRows) /\ 0 \in 0..MaxChanges
    BY PluginConstants
  <2> QED
    BY <1>1, <1>3, <2>1 DEF PluginsTyped, PluginModes
<1>5. BootStartsAsked
  <2> DEFINE S == Seq(PathChars)
             b == asked[bootMode]
  <2>1. b \in Seq(S) /\ started = <<>>
    BY <1>3 DEF PluginModes
  <2> HIDE DEF b, S
  <2>2. IsPrefix(<<>>, b)
    BY <2>1, PrefixOfSelf
  <2> QED
    BY <2>1, <2>2 DEF BootStartsAsked, b
<1>6. ListsShown /\ WritesAsAsked
  BY DEF ListsShown, WritesAsAsked
<1> QED
  BY <1>3, <1>4, <1>5, <1>6 DEF PluginsInv

-------------------------------------------------------------------------------
(* Each step *)

LEMMA StepBoot ==
  ASSUME PluginsInv, NEW m \in PluginModes, Boot(m)
  PROVE  PluginsInv'
<1> USE DEF Boot
<1>1. PluginsTyped'
  <2>1. <<>> \in Seq(Seq(PathChars)) /\ <<>> \in Seq(TableRows)
    OBVIOUS
  <2> QED
    BY <2>1 DEF PluginsInv, PluginsTyped
<1>2. AskedOn(lists', present', asked')
  BY DEF PluginsInv
<1>3. BootStartsAsked'
  <2> DEFINE S == Seq(PathChars)
             b == asked[m]
  <2>1. b \in Seq(S) /\ started' = <<>> /\ asked'[bootMode'] = b
    BY DEF PluginsInv, PluginsTyped
  <2> HIDE DEF b, S
  <2>2. IsPrefix(<<>>, b)
    BY <2>1, PrefixOfSelf
  <2> QED
    BY <2>1, <2>2 DEF BootStartsAsked
<1>4. ListsShown' /\ WritesAsAsked'
  BY DEF ListsShown, WritesAsAsked
<1> QED
  BY <1>1, <1>2, <1>3, <1>4 DEF PluginsInv

LEMMA StepStartModule ==
  ASSUME PluginsInv, StartModule
  PROVE  PluginsInv'
<1> USE DEF StartModule
<1> DEFINE st == Starts(FoundOn(lists, present, bootMode))
           ask == asked[bootMode]
<1>1. /\ st \in Seq(Seq(PathChars)) /\ IsPrefix(st, ask) /\ ask \in Seq(Seq(PathChars))
      /\ <<>> \in Seq(Seq(PathChars)) /\ IsPrefix(<<>>, ask)
  <2>1. st \in Seq(Seq(PathChars))
    BY FoundType, StartsType DEF PluginsInv, PluginsTyped
  <2>2. IsPrefix(st, ask) /\ ask \in Seq(Seq(PathChars))
    BY DEF PluginsInv, PluginsTyped, AskedOn
  <2>3. <<>> \in Seq(Seq(PathChars))
    OBVIOUS
  <2> QED
    BY <2>1, <2>2, <2>3, PrefixOfSelf
<1> HIDE DEF ask
<1>2. started' \in {st, <<>>}
  BY DEF Found
<1> HIDE DEF st
<1>3. PluginsTyped'
  BY <1>1, <1>2 DEF PluginsInv, PluginsTyped
<1>4. BootStartsAsked'
  BY <1>1, <1>2, Zenon DEF BootStartsAsked, ask
<1>5. AskedOn(lists', present', asked')
  BY DEF PluginsInv
<1>6. ListsShown' /\ WritesAsAsked'
  BY DEF ListsShown, WritesAsAsked
<1> QED
  BY <1>3, <1>4, <1>5, <1>6 DEF PluginsInv

LEMMA StepBootDone ==
  ASSUME PluginsInv, BootDone
  PROVE  PluginsInv'
<1> USE DEF BootDone
<1>1. running' \in {"xmb", "game"} /\ running = "boot"
  OBVIOUS
<1>2. PluginsTyped'
  BY <1>1 DEF PluginsInv, PluginsTyped
<1>3. AskedOn(lists', present', asked')
  BY DEF PluginsInv
<1>4. BootStartsAsked' /\ ListsShown' /\ WritesAsAsked'
  BY <1>1 DEF BootStartsAsked, ListsShown, WritesAsAsked
<1> QED
  BY <1>2, <1>3, <1>4 DEF PluginsInv

LEMMA StepLeavePage ==
  ASSUME PluginsInv, LeavePage
  PROVE  PluginsInv'
<1> USE DEF LeavePage
<1>1. PluginsTyped'
  BY DEF PluginsInv, PluginsTyped
<1>2. AskedOn(lists', present', asked')
  BY DEF PluginsInv
<1>3. BootStartsAsked' /\ ListsShown' /\ WritesAsAsked'
  BY DEF BootStartsAsked, ListsShown, WritesAsAsked
<1> QED
  BY <1>1, <1>2, <1>3 DEF PluginsInv

LEMMA StepStickMoves ==
  ASSUME PluginsInv, StickMoves
  PROVE  PluginsInv'
<1> USE DEF StickMoves
<1>1. asked' = [m \in PluginModes |-> Starts(FoundOn(lists, present', m))]
  OBVIOUS
<1>2. ListsOn(lists)
  BY DEF PluginsInv, PluginsTyped
<1>3. asked' \in [PluginModes -> Seq(Seq(PathChars))] /\ AskedOn(lists, present', asked')
  BY <1>1, <1>2, AskedAnew
<1>4. present' \subseteq Devices /\ changes' \in 0..MaxChanges /\ running \in {"xmb", "game"}
  BY PluginConstants DEF PluginsInv, PluginsTyped, Devices, Changes
<1>5. PluginsTyped'
  BY <1>3, <1>4 DEF PluginsInv, PluginsTyped
<1>6. BootStartsAsked' /\ ListsShown' /\ WritesAsAsked'
  BY <1>4 DEF BootStartsAsked, ListsShown, WritesAsAsked
<1>7. AskedOn(lists', present', asked')
  BY <1>3
<1> QED
  BY <1>5, <1>6, <1>7 DEF PluginsInv

LEMMA StepReadPluginTable ==
  ASSUME PluginsInv, ReadPluginTable
  PROVE  PluginsInv'
<1> USE DEF ReadPluginTable
<1> DEFINE found(m) == FoundOn(lists, present, m)
           read(m) == XmbReads(Buffer(found(m)))
           rows(m) == OfMode(read(m), m)
<1>1. PluginsTyped
  BY DEF PluginsInv
<1>2. ASSUME NEW m \in PluginModes
      PROVE  /\ found(m) \in Lists /\ read(m) \in Seq(Records) /\ rows(m) \in Seq(TableRows)
             /\ Named(read(m)) \in Seq(Records) /\ Buffer(found(m)) \in Seq(Chars)
             /\ \A o : Shown(rows(m), o) = IF o = m THEN Named(read(m)) ELSE <<>>
  <2>1. found(m) \in Lists
    BY <1>1, FoundType DEF PluginsTyped
  <2> HIDE DEF found
  <2>2. read(m) \in Seq(Records) /\ Buffer(found(m)) \in Seq(Chars)
    BY <2>1, StartsType
  <2> HIDE DEF read
  <2> QED
    BY <2>1, <2>2, NamedType, OfModeShown
<1>3. \A m \in PluginModes : ReadPlugins(m) = rows(m)
  BY Zenon DEF ReadPlugins, Found, OfMode
<1>4. table' = rows("VSH") \o rows("GAME") \o rows("POPS")
  BY <1>3 DEF PluginModes
<1> HIDE DEF rows
<1>5. /\ table' \in Seq(TableRows)
      /\ \A m \in PluginModes : Shown(table', m) = Named(read(m))
  <2> DEFINE a == rows("VSH")
             b == rows("GAME")
             c == rows("POPS")
  <2>1. a \in Seq(TableRows) /\ b \in Seq(TableRows) /\ c \in Seq(TableRows)
    BY <1>2 DEF PluginModes
  <2>2. ASSUME NEW m \in PluginModes
        PROVE  /\ Shown(a, m) = IF m = "VSH" THEN Named(read(m)) ELSE <<>>
               /\ Shown(b, m) = IF m = "GAME" THEN Named(read(m)) ELSE <<>>
               /\ Shown(c, m) = IF m = "POPS" THEN Named(read(m)) ELSE <<>>
    <3> HIDE DEF read
    <3> QED
      BY <1>2 DEF PluginModes
  <2> HIDE DEF a, b, c
  <2>3. a \o b \in Seq(TableRows) /\ (a \o b) \o c \in Seq(TableRows)
    BY <2>1
  <2>4. ASSUME NEW m \in PluginModes PROVE Shown((a \o b) \o c, m) = Named(read(m))
    <3> DEFINE n == Named(read(m))
    <3>1. n \in Seq(Records)
      BY <1>2
    <3> HIDE DEF n
    <3>2. Shown((a \o b) \o c, m) = (Shown(a, m) \o Shown(b, m)) \o Shown(c, m)
      <4>1. Shown(a \o b, m) = Shown(a, m) \o Shown(b, m)
        BY <2>1, ShownConcat
      <4> DEFINE ab == a \o b
      <4>2. ab \in Seq(TableRows)
        BY <2>3
      <4> HIDE DEF ab
      <4>3. Shown(ab \o c, m) = Shown(ab, m) \o Shown(c, m)
        BY <2>1, <4>2, ShownConcat
      <4> QED
        BY <4>1, <4>3, Zenon DEF ab
    <3>3. n \o <<>> = n /\ <<>> \o n = n /\ <<>> \o <<>> = <<>>
      BY <3>1
    <3>4. CASE m = "VSH"
      BY <2>2, <3>2, <3>3, <3>4 DEF n
    <3>5. CASE m = "GAME"
      BY <2>2, <3>2, <3>3, <3>5 DEF n
    <3>6. CASE m = "POPS"
      BY <2>2, <3>2, <3>3, <3>6 DEF n
    <3> QED
      BY <3>4, <3>5, <3>6 DEF PluginModes
  <2> QED
    BY <1>4, <2>3, <2>4 DEF a, b, c
<1>6. /\ asked' \in [PluginModes -> Seq(Seq(PathChars))]
      /\ AskedOn(lists, present, asked')
  <2>1. asked' = [m \in PluginModes |-> Starts(FoundOn(lists, present, m))]
    BY DEF Found
  <2> QED
    BY <1>1, <2>1, AskedAnew DEF PluginsTyped
<1>7. PluginsTyped'
  <2>1. running = "xmb" /\ running' \in {"page", "xmb"} /\ (running' = "page" => table' # <<>>)
    OBVIOUS
  <2> QED
    BY <1>1, <1>5, <1>6, <2>1 DEF PluginsTyped
<1>8. ASSUME NEW m \in PluginModes PROVE SavedAs(table', found(m), m)
  <2> DEFINE f == found(m)
             b == Buffer(f)
  <2>1. f \in Lists /\ b \in Seq(Chars)
    BY <1>2
  <2>2. Shown(table', m) = Named(XmbReads(b))
    BY <1>5
  <2> HIDE DEF f
  <2>3. CASE ReadAlike(b)
    <3>1. Named(XmbReads(b)) = Named(SystemReads(b))
      BY <2>1, <2>3, ReadersAgree
    <3> QED
      BY <2>2, <3>1 DEF SavedAs, f
  <2>4. CASE ~ReadAlike(b)
    <3>1. f # NoFile
      BY <2>4 DEF Buffer, ReadAlike
    <3>2. Len(f) > Limit \/ ~ReadAlike(f)
      <4>1. f \in Seq(Chars)
        BY <2>1, <3>1 DEF Lists
      <4>2. Len(f) <= Limit => b = f
        BY <4>1, BufferIs
      <4> QED
        BY <2>4, <4>1, <4>2, PluginConstants
    <3> QED
      BY <3>1, <3>2 DEF SavedAs, f
  <2> QED
    BY <2>3, <2>4
<1>9. ListsShown'
  <2>1. ShownOn(lists, present, table', unsaved', saving)
    BY <1>8 DEF ShownOn
  <2>2. lists' = lists /\ present' = present /\ saving' = saving
    OBVIOUS
  <2> HIDE DEF ReadPluginTable
  <2> QED
    BY <2>1, <2>2 DEF ListsShown
<1>10. WritesAsAsked' /\ BootStartsAsked'
  BY DEF WritesAsAsked, BootStartsAsked
<1>11. AskedOn(lists', present', asked')
  BY <1>6
<1> QED
  BY <1>7, <1>9, <1>10, <1>11 DEF PluginsInv

\* The next step of the write, of which n characters are there, or its first.
LEMMA StillAsked ==
  ASSUME NEW card, ListsOn(card), NEW there, NEW d \in there, d \in Devices,
         NEW m \in PluginModes, NEW rows \in Seq(TableRows), NEW ask, AskedOn(card, there, ask),
         Reached(card, there, d, m) => ask[m] = Activated(Shown(rows, m)),
         NEW target, target = Written(rows, m)[Len(rows)], NEW n \in 0..Len(target),
         NEW new, Puts(new, card, d, m, SubSeq(target, 1, n))
  PROVE  /\ ListsOn(new) /\ AskedOn(new, there, ask) /\ WritesOn(new, there, d, m, rows, ask)
         /\ \A o \in PluginModes \ {m} : FoundOn(new, there, o) = FoundOn(card, there, o)
<1> DEFINE list == SubSeq(target, 1, n)
<1>1. target \in Seq(Chars)
  BY ReadBack
<1>2. list \in Seq(Chars)
  BY <1>1
<1>3. IsPrefix(Starts(list), Activated(Shown(rows, m)))
  BY <1>1, WrittenStarts
<1> HIDE DEF list
<1>4. Puts(new, card, d, m, list)
  BY DEF list
<1>5. /\ ListsOn(new) /\ new[d][m] = list
      /\ \A o \in PluginModes : o # m => FoundOn(new, there, o) = FoundOn(card, there, o)
      /\ Reached(new, there, d, m) <=> Reached(card, there, d, m)
      /\ Reached(card, there, d, m) => FoundOn(new, there, m) = list
      /\ ~Reached(card, there, d, m) => FoundOn(new, there, m) = FoundOn(card, there, m)
  <2>1. HasPut(new, card, there, d, m, list)
    BY <1>2, <1>4, Put
  <2> QED
    BY <2>1 DEF HasPut
<1>6. ASSUME NEW o \in PluginModes PROVE IsPrefix(Starts(FoundOn(new, there, o)), ask[o])
  <2>1. CASE o # m
    BY <1>5, <2>1, Zenon DEF AskedOn
  <2>2. CASE o = m /\ Reached(card, there, d, m)
    BY <1>3, <1>5, <2>2, Zenon
  <2>3. CASE o = m /\ ~Reached(card, there, d, m)
    BY <1>5, <2>3, Zenon DEF AskedOn
  <2> QED
    BY <2>1, <2>2, <2>3
<1>7. WritesOn(new, there, d, m, rows, ask)
  BY <1>5, Zenon DEF WritesOn, list
<1> QED
  BY <1>5, <1>6, <1>7 DEF AskedOn

LEMMA StepSetPlugin ==
  ASSUME PluginsInv, NEW i \in 1..count, NEW device \in Devices, SetPlugin(i, device)
  PROVE  PluginsInv'
<1> DEFINE m == table[i].mode
           cut == [lists EXCEPT ![device][m] = <<>>]
           reaches == FoundOn(cut, present, m) = <<>>
           new == [table EXCEPT ![i].activated = ~@]
           saves == [device |-> device, mode |-> m]
<1>1. /\ running = "page" /\ running' = "write" /\ device \in present /\ present' = present
      /\ table' = new /\ saving' = saves /\ lists' = cut
      /\ changes < MaxChanges /\ changes' = changes + 1
      /\ bootMode' = bootMode /\ plugins_started' = plugins_started /\ started' = started
  BY DEF SetPlugin, Changes
<1>2. /\ reaches => asked' = [asked EXCEPT ![m] = Activated(Shown(table', m))] /\ unsaved' = unsaved
      /\ ~reaches => asked' = asked /\ unsaved' = unsaved \cup {m}
  BY <1>1 DEF SetPlugin
<1>3. /\ table \in Seq(TableRows) /\ ListsOn(lists) /\ AskedOn(lists, present, asked)
      /\ asked \in [PluginModes -> Seq(Seq(PathChars))] /\ unsaved \subseteq PluginModes
  BY DEF PluginsInv, PluginsTyped
<1>4. /\ new \in Seq(TableRows) /\ Len(new) = Len(table) /\ m \in PluginModes
      /\ \A o : o # m => Shown(new, o) = Shown(table, o)
  BY <1>3, Switched DEF count
<1> HIDE DEF new, m
<1>5. /\ ListsOn(cut) /\ cut[device][m] = <<>>
      /\ \A o \in PluginModes : o # m => FoundOn(cut, present, o) = FoundOn(lists, present, o)
      /\ Reached(cut, present, device, m) <=> Reached(lists, present, device, m)
      /\ Reached(lists, present, device, m) => reaches
      /\ ~Reached(lists, present, device, m) =>
           FoundOn(cut, present, m) = FoundOn(lists, present, m)
  <2>1. <<>> \in Seq(Chars)
    OBVIOUS
  <2> HIDE DEF cut
  <2> DEFINE e == <<>>
  <2> HIDE DEF e
  <2>2. Puts(cut, lists, device, m, e)
    BY DEF cut, Puts, e
  <2>3. HasPut(cut, lists, present, device, m, e)
    BY <1>1, <1>3, <1>4, <2>1, <2>2, Put DEF e
  <2> QED
    BY <2>3, Zenon DEF HasPut, e
<1> HIDE DEF cut
<1>6. asked' \in [PluginModes -> Seq(Seq(PathChars))]
  <2> DEFINE S == Seq(Seq(PathChars))
             a == Activated(Shown(new, m))
  <2>1. a \in S
    BY <1>4, MeantType, ActivatedType
  <2> HIDE DEF S, a
  <2>2. [asked EXCEPT ![m] = a] \in [PluginModes -> S]
    BY <1>3, <2>1 DEF S
  <2> QED
    BY <1>1, <1>2, <1>3, <2>2 DEF S, a
<1>7. PluginsTyped'
  <2>1. new # <<>>
    BY <1>4 DEF count
  <2>2. unsaved' \subseteq PluginModes
    BY <1>2, <1>3, <1>4
  <2>3. saves \in [device : Devices, mode : PluginModes] /\ saves # NoSaving
    BY <1>4 DEF NoSaving, Devices
  <2>4. changes' \in 0..MaxChanges
    BY <1>1, PluginConstants DEF PluginsInv, PluginsTyped
  <2> HIDE DEF saves
  <2> QED
    BY <1>1, <1>4, <1>5, <1>6, <2>1, <2>2, <2>3, <2>4 DEF PluginsInv, PluginsTyped
<1>8. ASSUME NEW o \in PluginModes PROVE IsPrefix(Starts(FoundOn(cut, present, o)), asked'[o])
  <2>1. CASE o # m
    <3>1. asked'[o] = asked[o]
      BY <1>2, <1>3, <2>1
    <3> QED
      BY <1>3, <1>5, <2>1, <3>1, Zenon DEF AskedOn
  <2>2. CASE o = m /\ reaches
    <3> DEFINE S == Seq(PathChars)
               a == asked'[o]
    <3>1. a \in Seq(S) /\ Starts(FoundOn(cut, present, o)) = <<>>
      BY <1>6, <2>2, StartsNothing
    <3> HIDE DEF a, S
    <3>2. IsPrefix(<<>>, a)
      BY <3>1, PrefixOfSelf
    <3> QED
      BY <3>1, <3>2 DEF a
  <2>3. CASE o = m /\ ~reaches
    BY <1>2, <1>3, <1>5, <2>3, Zenon DEF AskedOn
  <2> QED
    BY <2>1, <2>2, <2>3
<1>9. AskedOn(lists', present', asked')
  BY <1>1, <1>8 DEF AskedOn
<1>10. ListsShown'
  <2>1. ASSUME NEW o \in PluginModes \ unsaved'
        PROVE  saves.mode = o \/ SavedAs(new, FoundOn(cut, present, o), o)
    <3> SUFFICES ASSUME o # m PROVE SavedAs(new, FoundOn(cut, present, o), o)
      OBVIOUS
    <3>1. o \in PluginModes \ unsaved
      BY <1>2
    <3>2. saving.mode # o
      BY <1>1 DEF PluginsInv, PluginsTyped, NoSaving, PluginModes
    <3>3. SavedAs(table, FoundOn(lists, present, o), o)
      BY <1>1, <3>1, <3>2, Zenon DEF PluginsInv, ListsShown, ShownOn
    <3> QED
      BY <1>4, <1>5, <3>3, Zenon DEF SavedAs
  <2> HIDE DEF saves
  <2> QED
    BY <1>1, <2>1 DEF ListsShown, ShownOn
<1>11. WritesAsAsked'
  <2>1. Reached(cut, present, device, m) => asked'[m] = Activated(Shown(new, m))
    BY <1>1, <1>2, <1>3, <1>4, <1>5
  <2>2. \E n \in 0..Len(Written(new, m)[Len(new)]) :
          cut[device][m] = SubSeq(Written(new, m)[Len(new)], 1, n)
    <3> DEFINE t == Written(new, m)[Len(new)]
    <3>1. t \in Seq(Chars)
      BY <1>4, ReadBack
    <3> HIDE DEF t
    <3>2. SubSeq(t, 1, 0) = <<>> /\ 0 \in 0..Len(t)
      BY <3>1
    <3> QED
      BY <1>5, <3>2 DEF t
  <2>3. WritesOn(cut, present, device, m, new, asked')
    BY <1>1, <2>1, <2>2 DEF WritesOn
  <2> QED
    BY <1>1, <2>3 DEF WritesAsAsked
<1>12. BootStartsAsked'
  BY <1>1 DEF BootStartsAsked
<1> QED
  BY <1>7, <1>9, <1>10, <1>11, <1>12 DEF PluginsInv

LEMMA StepSetPluginUnsaved ==
  ASSUME PluginsInv, NEW i \in 1..count, SetPluginUnsaved(i)
  PROVE  PluginsInv'
<1> DEFINE m == table[i].mode
           new == [table EXCEPT ![i].activated = ~@]
<1>1. /\ running = "page" /\ running' = "page" /\ table' = new
      /\ changes < MaxChanges /\ changes' = changes + 1 /\ unsaved' = unsaved \cup {m}
      /\ UNCHANGED <<lists, present, bootMode, plugins_started, started, saving, asked>>
  BY DEF SetPluginUnsaved, Changes
<1>2. table \in Seq(TableRows) /\ PluginsTyped
  BY DEF PluginsInv, PluginsTyped
<1>3. /\ new \in Seq(TableRows) /\ Len(new) = Len(table) /\ m \in PluginModes
      /\ \A o : o # m => Shown(new, o) = Shown(table, o)
  BY <1>2, Switched DEF count
<1> HIDE DEF new, m
<1>4. PluginsTyped'
  <2>1. new # <<>>
    BY <1>3 DEF count
  <2>2. unsaved' \subseteq PluginModes /\ changes' \in 0..MaxChanges
    BY <1>1, <1>2, <1>3, PluginConstants DEF PluginsTyped
  <2> QED
    BY <1>1, <1>2, <1>3, <2>1, <2>2 DEF PluginsTyped
<1>5. ListsShown'
  <2>1. ASSUME NEW o \in PluginModes \ unsaved'
        PROVE  saving.mode = o \/ SavedAs(new, FoundOn(lists, present, o), o)
    <3>1. o \in PluginModes \ unsaved /\ o # m
      BY <1>1
    <3>2. saving.mode = o \/ SavedAs(table, FoundOn(lists, present, o), o)
      BY <1>1, <3>1, Zenon DEF PluginsInv, ListsShown, ShownOn
    <3> QED
      BY <1>3, <3>1, <3>2, Zenon DEF SavedAs
  <2>2. ShownOn(lists, present, new, unsaved', saving)
    BY <2>1 DEF ShownOn
  <2> QED
    BY <1>1, <2>2 DEF ListsShown
<1>6. AskedOn(lists', present', asked')
  BY <1>1 DEF PluginsInv
<1>7. WritesAsAsked' /\ BootStartsAsked'
  BY <1>1 DEF WritesAsAsked, BootStartsAsked
<1> QED
  BY <1>4, <1>5, <1>6, <1>7 DEF PluginsInv

LEMMA StepWriteMore ==
  ASSUME PluginsInv, WriteMore
  PROVE  PluginsInv'
<1> DEFINE d == saving.device
           m == saving.mode
           target == Written(table, m)[Len(table)]
           content == lists[d][m]
<1>1. /\ running = "write" /\ content # target
      /\ Puts(lists', lists, d, m, SubSeq(target, 1, Len(content) + 1))
      /\ UNCHANGED <<present, running, bootMode, plugins_started, started, table, saving,
                     asked, unsaved, changes>>
  BY DEF WriteMore, Content, Target, count, Puts
<1>2. /\ PluginsTyped /\ AskedOn(lists, present, asked) /\ ListsOn(lists)
      /\ table \in Seq(TableRows)
      /\ d \in Devices /\ m \in PluginModes
  BY <1>1 DEF PluginsInv, PluginsTyped
<1>3. WritesOn(lists, present, d, m, table, asked)
  BY <1>1 DEF PluginsInv, WritesAsAsked
<1>4. target \in Seq(Chars)
  BY <1>2, ReadBack
<1>5. PICK n \in 0..Len(target) : content = SubSeq(target, 1, n)
  BY <1>3 DEF WritesOn
<1>6. d \in present /\ (Reached(lists, present, d, m) => asked[m] = Activated(Shown(table, m)))
  BY <1>3 DEF WritesOn
<1> HIDE DEF content
<1> DEFINE k == n + 1
<1>7. k \in 0..Len(target) /\ Len(content) = n /\ Len(content) + 1 = k
  <2> HIDE DEF target
  <2>1. SubSeq(target, 1, Len(target)) = target /\ Len(target) \in Nat
    BY <1>4
  <2>2. n # Len(target)
    BY <1>1, <1>5, <2>1
  <2>3. Len(SubSeq(target, 1, n)) = n
    BY <1>4
  <2>4. Len(content) = n
    BY <1>5, <2>3, Zenon
  <2> DEFINE N == Len(target)
  <2>5. N \in Nat /\ n \in 0..N /\ n # N
    BY <2>1, <2>2
  <2> HIDE DEF N
  <2>6. n + 1 \in 0..N
    BY <2>5
  <2> QED
    BY <2>4, <2>6 DEF N
<1> HIDE DEF k, d, m
<1>8. /\ ListsOn(lists') /\ AskedOn(lists', present, asked)
      /\ WritesOn(lists', present, d, m, table, asked)
      /\ \A o \in PluginModes \ {m} : FoundOn(lists', present, o) = FoundOn(lists, present, o)
  <2> DEFINE new == lists'
  <2>1. Puts(new, lists, d, m, SubSeq(target, 1, k))
    BY <1>1, <1>7
  <2>2. target = Written(table, m)[Len(table)]
    OBVIOUS
  <2> HIDE DEF new, target
  <2>3. /\ ListsOn(new) /\ AskedOn(new, present, asked)
        /\ WritesOn(new, present, d, m, table, asked)
        /\ \A o \in PluginModes \ {m} : FoundOn(new, present, o) = FoundOn(lists, present, o)
    BY <1>2, <1>6, <1>7, <2>1, <2>2, StillAsked
  <2> QED
    BY <2>3 DEF new
<1>9. PluginsTyped'
  BY <1>1, <1>2, <1>8 DEF PluginsTyped
<1>10. AskedOn(lists', present', asked')
  BY <1>1, <1>8
<1>11. WritesAsAsked'
  BY <1>1, <1>8 DEF WritesAsAsked, d, m
<1>12. ListsShown'
  <2>1. ShownOn(lists, present, table, unsaved, saving)
    BY <1>1 DEF PluginsInv, ListsShown
  <2>2. ShownOn(lists', present, table, unsaved, saving)
    BY <1>8, <2>1 DEF ShownOn, m
  <2> QED
    BY <1>1, <2>2 DEF ListsShown
<1>13. BootStartsAsked'
  BY <1>1 DEF BootStartsAsked, PluginsInv
<1> QED
  BY <1>9, <1>10, <1>11, <1>12, <1>13 DEF PluginsInv

LEMMA StepWriteEnds ==
  ASSUME PluginsInv, WriteEnds
  PROVE  PluginsInv'
<1> DEFINE m == saving.mode
           target == Written(table, m)[Len(table)]
           found(o) == FoundOn(lists, present, o)
<1>1. /\ running = "write" /\ running' = "page" /\ saving' = NoSaving
      /\ \/ unsaved' = unsaved \cup {m}
         \/ unsaved' = unsaved \ {m} /\ found(m) = target
      /\ UNCHANGED <<lists, present, bootMode, plugins_started, started, table, asked, changes>>
  BY DEF WriteEnds, Target, Found, count
<1>2. /\ PluginsTyped /\ AskedOn(lists, present, asked)
      /\ table \in Seq(TableRows) /\ m \in PluginModes
  BY <1>1 DEF PluginsInv, PluginsTyped
<1>3. ShownOn(lists, present, table, unsaved, saving)
  BY <1>1 DEF PluginsInv, ListsShown
<1>4. ASSUME found(m) = target PROVE SavedAs(table, found(m), m)
  <2>1. target \in Seq(Chars) /\ target # NoFile
    BY <1>2, ReadBack, PluginConstants
  <2>2. Len(target) <= Limit => Named(SystemReads(Buffer(target))) = Shown(table, m)
    <3> DEFINE list == target
    <3>1. list = Written(table, m)[Len(table)] /\ list \in Seq(Chars)
      BY <2>1
    <3> HIDE DEF list
    <3>2. Len(list) <= Limit => Named(SystemReads(Buffer(list))) = Shown(table, m)
      BY <1>2, <3>1, WrittenStarts
    <3> QED
      BY <3>2 DEF list
  <2> HIDE DEF target, found
  <2>3. Len(target) > Limit <=> ~(Len(target) <= Limit)
    BY <2>1, PluginConstants
  <2> QED
    BY <1>4, <2>1, <2>2, <2>3 DEF SavedAs
<1>5. ASSUME NEW o \in PluginModes \ unsaved' PROVE SavedAs(table, found(o), o)
  <2>1. CASE o = m
    BY <1>1, <1>4, <2>1
  <2>2. CASE o # m
    BY <1>1, <1>3, <2>2 DEF ShownOn
  <2> QED
    BY <2>1, <2>2
<1>6. ListsShown'
  <2>1. ShownOn(lists, present, table, unsaved', NoSaving)
    BY <1>5 DEF ShownOn
  <2> QED
    BY <1>1, <2>1 DEF ListsShown
<1>7. PluginsTyped'
  BY <1>1, <1>2 DEF PluginsTyped
<1>8. AskedOn(lists', present', asked')
  BY <1>1, <1>2
<1>9. WritesAsAsked' /\ BootStartsAsked'
  BY <1>1 DEF WritesAsAsked, BootStartsAsked
<1> QED
  BY <1>6, <1>7, <1>8, <1>9 DEF PluginsInv

LEMMA PluginsStep == PluginsInv /\ [PluginNext]_pluginVars => PluginsInv'
<1> SUFFICES ASSUME PluginsInv, [PluginNext]_pluginVars PROVE PluginsInv'
  OBVIOUS
<1>1. CASE Reboots
  <2>1. "VSH" \in PluginModes
    BY DEF PluginModes
  <2> QED
    BY <1>1, <2>1, StepBoot DEF Reboots
<1>2. CASE PowerLost
  <2>1. "VSH" \in PluginModes
    BY DEF PluginModes
  <2> QED
    BY <1>2, <2>1, StepBoot DEF PowerLost
<1>3. CASE StartModule
  BY <1>3, StepStartModule
<1>4. CASE BootDone
  BY <1>4, StepBootDone
<1>5. CASE StickMoves
  BY <1>5, StepStickMoves
<1>6. CASE ReadPluginTable
  BY <1>6, StepReadPluginTable
<1>7. CASE LeavePage
  BY <1>7, StepLeavePage
<1>8. ASSUME NEW i \in 1..count, NEW d \in Devices, SetPlugin(i, d) PROVE PluginsInv'
  BY <1>8, StepSetPlugin
<1>9. ASSUME NEW i \in 1..count, SetPluginUnsaved(i) PROVE PluginsInv'
  BY <1>9, StepSetPluginUnsaved
<1>10. CASE WriteMore
  BY <1>10, StepWriteMore
<1>11. CASE WriteEnds
  BY <1>11, StepWriteEnds
<1>12. CASE UNCHANGED pluginVars
  <2>1. PluginsTyped'
    BY <1>12 DEF PluginsInv, PluginsTyped, pluginVars
  <2>2. AskedOn(lists', present', asked')
    BY <1>12 DEF PluginsInv, pluginVars
  <2>3. ListsShown' /\ WritesAsAsked' /\ BootStartsAsked'
    BY <1>12 DEF PluginsInv, ListsShown, WritesAsAsked, BootStartsAsked, pluginVars
  <2> QED
    BY <2>1, <2>2, <2>3 DEF PluginsInv
<1> QED
  BY <1>1, <1>2, <1>3, <1>4, <1>5, <1>6, <1>7, <1>8, <1>9, <1>10, <1>11, <1>12 DEF PluginNext

\* The invariant holds throughout.
THEOREM PluginsInductive == PluginSpec => []PluginsInv
<1>1. PluginInit => PluginsInv
  BY PluginsInitially
<1>2. PluginsInv /\ [PluginNext]_pluginVars => PluginsInv'
  BY PluginsStep
<1> QED
  BY <1>1, <1>2, PTL DEF PluginSpec

\* The state always has its type (the variables of both programs).
THEOREM PluginTyping == PluginSpec => []PluginTypeOK
<1>1. PluginsInv => PluginTypeOK
  <2> SUFFICES ASSUME PluginsInv PROVE PluginTypeOK
    OBVIOUS
  <2>1. PluginsTyped
    BY DEF PluginsInv
  <2> DEFINE P == Seq(PathChars)
             C == Seq(Chars)
  <2>0. P \subseteq C
    <3>1. PathChars \subseteq Chars
      BY DEF PathChars
    <3> QED
      BY <3>1
  <2> HIDE DEF P, C
  <2>5. Seq(P) \subseteq Seq(C)
    BY <2>0
  <2>2. started \in Seq(C)
    BY <2>1, <2>5 DEF PluginsTyped, P
  <2>3. table \in Seq(Rows)
    <3>1. TableRows \subseteq Rows
      BY <2>0 DEF TableRows, Rows, P, C
    <3>2. Seq(TableRows) \subseteq Seq(Rows)
      BY <3>1
    <3> QED
      BY <2>1, <3>2 DEF PluginsTyped
  <2>4. asked \in [PluginModes -> Seq(C)]
    BY <2>1, <2>5 DEF PluginsTyped, P
  <2> QED
    BY <2>1, <2>2, <2>3, <2>4 DEF PluginsTyped, PluginTypeOK, C
<1> QED
  BY <1>1, PluginsInductive, PTL

\* Wherever a write stops or power is lost, a boot starts nothing the user has not
\* activated, and that once.
THEOREM AskedOnly == PluginSpec => []StartsOnlyAsked
<1>1. PluginsInv => StartsOnlyAsked
  BY DEF PluginsInv, StartsOnlyAsked, AskedOn, BootStartsAsked, Found
<1> QED
  BY <1>1, PluginsInductive, PTL

\* What the Plugins page shows is what the next boot of each mode starts.
THEOREM ShownStarted == PluginSpec => []ShownIsStarted
<1>1. PluginsInv => ShownIsStarted
  <2> SUFFICES ASSUME PluginsInv, running = "page", NEW m \in PluginModes \ unsaved
               PROVE  \/ Shown(table, m) = Named(SystemReads(Buffer(Found(m))))
                      \/ Found(m) # NoFile /\ (Len(Found(m)) > Limit \/ ~ReadAlike(Found(m)))
    BY DEF ShownIsStarted
  <2>1. saving.mode # m
    BY DEF PluginsInv, PluginsTyped, NoSaving, PluginModes
  <2>2. SavedAs(table, FoundOn(lists, present, m), m)
    BY <2>1 DEF PluginsInv, ListsShown, ShownOn
  <2> QED
    BY <2>2 DEF SavedAs, Found
<1> QED
  BY <1>1, PluginsInductive, PTL
===============================================================================
