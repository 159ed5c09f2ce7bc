------------------------------- MODULE MCRebootex -------------------------------
(* Tables of four names of the firmware in every order of names and of entries (but *)
(* "ge" and "display" keep theirs), and one with a second entry of the name that is *)
(* looked for; "ge" is a module of games only.  There are fewer modes than entries, *)
(* and more.  The lengths are those of real names; with them "init" and             *)
(* "me_wrapper" fill the size of an entry together, so that in some orders a name   *)
(* lies exactly one entry behind another.                                           *)
EXTENDS Rebootex

MCNameLen == [init |-> 13, me_wrapper |-> 19, ge |-> 11, display |-> 16,
              hen |-> 9, xmb |-> 9, rtm |-> 9]

Orders == {s \in [1..4 -> Names \ NewNames] :
             \A m, n \in 1..4 : m # n => s[m] # s[n]}

Place(s, name) == CHOOSE n \in 1..4 : s[n] = name

Entries == {s \in Orders : Place(s, "ge") < Place(s, "display")}
           \cup {<<"init", "me_wrapper", "ge", "init">>}

OffsetIn(names, n) == FoldSeq(LAMBDA name, sum : MCNameLen[name] + sum, 0,
                              SubSeq(names, 1, n - 1))

NamesAt(names) ==
  [o \in {OffsetIn(names, n) : n \in 1..4} |->
     names[CHOOSE n \in 1..4 : OffsetIn(names, n) = o]]

EntryFor(name, names) ==
  [off |-> OffsetIn(names, Place(names, name)),
   flags |-> IF name = "ge" THEN {"GAME"} ELSE AllModes]

TableOf(entries, names, nmodes) ==
  [modules    |-> [n \in 1..4 |-> EntryFor(entries[n], names)],
   at         |-> NamesAt(names),
   modnameend |-> OffsetIn(names, 5),
   nmodes     |-> nmodes,
   maxsearch  |-> [m \in 1..nmodes |-> 4]]

MCTables == {TableOf(e, s, m) : e \in Entries, s \in Orders, m \in {1, 5}}
===============================================================================
