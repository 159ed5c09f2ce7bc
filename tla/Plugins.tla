--------------------------------- MODULE Plugins ---------------------------------
(* The plugin lists vsh.txt, game.txt and pops.txt, which two programs read with    *)
(* code of their own: systemctrl once per boot, to start the activated plugins      *)
(* (systemctrl/plugins.c), and xmbctrl when TN Settings is opened, to show them on  *)
(* its Plugins page, each of whose changes rewrites a list (xmbctrl/main.c,         *)
(* xmbctrl/utils.c).  A list lies on the memory stick or, on a PSPgo, in the        *)
(* internal storage.  A boot and the XMB never run at once.                         *)
(*                                                                                  *)
(* A list is a sequence of characters: "sp", "tab", "nl" (any control character:    *)
(* char is signed, so the bytes above 127 are some too), "1", "0" and the rest.     *)
EXTENDS Integers, Sequences, SequencesExt, FiniteSetsExt

CONSTANTS
  NoFile,    \* the content of a list that does not exist
  Chars,     \* the characters of a list
  Cards,     \* the lists on both devices before TN Settings has changed any
  Limit,     \* the 1024 bytes that are read of a list
  MaxChanges \* bound: how often a plugin is switched or the memory stick moves

PluginModes == {"VSH", "GAME", "POPS"}
Devices == {"ms0", "ef0"}
Blank   == {"sp", "tab"}

\* A list for each mode on each device, or none.
ListsOn(card) == card \in [Devices -> [PluginModes -> Seq(Chars) \cup {NoFile}]]

ASSUME PluginConstants == /\ Limit \in Nat \ {0} /\ MaxChanges \in Nat
                          /\ Blank \cup {"nl", "1", "0"} \subseteq Chars
                          /\ NoFile \notin Seq(Chars)
                          /\ \A card \in Cards : ListsOn(card)

VARIABLES
  lists,           \* the lists on each device
  present,         \* the devices that are there
  running,         \* what runs: "boot", "xmb", "page", "write" or "game"
  bootMode,        \* the key config of this boot
  plugins_started,
  started,         \* the plugins systemctrl has started since the boot
  table,           \* xmbctrl's table; count is its length
  saving,          \* while a list is written: its device and mode
  asked,           \* history: the plugins the user knows to be activated in each mode
  unsaved,         \* history: the modes whose list could not be written as shown
  changes          \* history: the changes so far

pluginVars == <<lists, present, running, bootMode, plugins_started, started, table,
                saving, asked, unsaved, changes>>

count == Len(table)
NoSaving == [device |-> "none", mode |-> "none"]

Rows  == [path : Seq(Chars), activated : BOOLEAN, mode : PluginModes]

PluginTypeOK ==
  /\ ListsOn(lists)
  /\ present \subseteq Devices
  /\ running \in {"boot", "xmb", "page", "write", "game"}
  /\ bootMode \in PluginModes
  /\ plugins_started \in BOOLEAN
  /\ started \in Seq(Seq(Chars))
  /\ table \in Seq(Rows)
  /\ running \in {"page", "write"} => table # <<>>
  /\ saving \in [device : Devices, mode : PluginModes] \cup {NoSaving}
  /\ running = "write" <=> saving # NoSaving
  /\ asked \in [PluginModes -> Seq(Seq(Chars))]
  /\ unsaved \subseteq PluginModes /\ changes \in 0..MaxChanges

-------------------------------------------------------------------------------
(* Reading a list *)

\* sceIoOpen of the memory stick's list, else of the internal storage's.
FoundOn(card, there, m) ==
  LET on(d) == IF d \in there THEN card[d][m] ELSE NoFile
  IN  IF on("ms0") # NoFile THEN on("ms0") ELSE on("ef0")

Found(m) == FoundOn(lists, present, m)

\* What sceIoRead gets of a list.
Buffer(list) == IF list = NoFile THEN <<>> ELSE SubSeq(list, 1, Min({Limit, Len(list)}))

\* The first place from i on whose character is in S, or the end of the buffer.
FirstIn(buf, i, S) == Min({n \in i..Len(buf) : buf[n] \in S} \cup {Len(buf) + 1})

\* trim
Trim(s) == SubSeq(s, 1, Max({n \in 1..Len(s) : s[n] \notin Blank} \cup {0}))

\* Mutant: a plugin without a flag is activated.
ParseDefaultsOn(line) ==
  LET s == Trim(line)
      p == FirstIn(s, 1, Blank)
  IN  [path |-> SubSeq(s, 1, p - 1),
       activated |-> SubSeq(s, p + 1, Len(s)) \in {<<"1">>, <<>>}]

\* Up to the first blank it is the path; activated if the rest is exactly "1".
Parse(line) ==
  LET s == Trim(line)
      p == FirstIn(s, 1, Blank)
  IN  [path |-> SubSeq(s, 1, p - 1), activated |-> SubSeq(s, p + 1, Len(s)) = <<"1">>]

\* What a reader has of a list: the line it is in, and the plugins of those before.
NothingRead == [line |-> <<>>, plugins |-> <<>>]

\* GetPlugin takes a character.  A control character ends a line, and is passed over
\* where none has begun.
Takes(reader, c) ==
  IF c # "nl" THEN [reader EXCEPT !.line = Append(@, c)]
  ELSE IF reader.line = <<>> THEN reader
  ELSE [line |-> <<>>, plugins |-> Append(reader.plugins, Parse(reader.line))]

\* Those in behind are passed over, too, from the end of a line on.
Passes(reader, c, behind) ==
  IF c \in behind /\ reader.line = <<>> /\ reader.plugins # <<>> THEN reader
  ELSE Takes(reader, c)

\* Both loops over GetPlugin, after each number of characters.
Walk(buf, behind) ==
  LET after[i \in 0..Len(buf)] ==
        IF i = 0 THEN NothingRead ELSE Passes(after[i - 1], buf[i], behind)
  IN  after

\* The last line ends with the buffer.
Ended(reader) ==
  IF reader.line = <<>> THEN reader.plugins ELSE Append(reader.plugins, Parse(reader.line))

\* systemctrl's loop.  Its last call may find no line: nothing to activate.
SystemReads(buf) == Ended(Walk(buf, {})[Len(buf)])

\* xmbctrl's, whose GetPlugin takes the tabs behind a line.  If its first call finds no
\* line there is a plugin without a name.
XmbReads(buf) ==
  LET reader == Walk(buf, {"tab"})[Len(buf)]
  IN  IF buf # <<>> /\ reader = NothingRead THEN <<Parse(<<>>)>> ELSE Ended(reader)

\* Those that can be loaded at all, of each number of the plugins.
NamedOf(plugins) ==
  LET named[n \in 0..Len(plugins)] ==
        IF n = 0 THEN <<>>
        ELSE IF plugins[n].path = <<>> THEN named[n - 1]
        ELSE Append(named[n - 1], plugins[n])
  IN  named

Named(plugins) == NamedOf(plugins)[Len(plugins)]

NoPlugin == [path |-> <<>>, activated |-> FALSE]

\* The calls of LoadStartModule, but for the empty name's, which fails.
Activated(plugins) ==
  LET on == Named([n \in 1..Len(plugins) |->
                     IF plugins[n].activated THEN plugins[n] ELSE NoPlugin])
  IN  [n \in 1..Len(on) |-> on[n].path]

\* The plugins a boot starts that reads this list.
Starts(list) == Activated(SystemReads(Buffer(list)))

-------------------------------------------------------------------------------
PluginInit ==
  /\ present \in {{"ms0"}, Devices}
  /\ lists \in Cards
  /\ running = "boot" /\ bootMode = "VSH"
  /\ plugins_started = FALSE /\ started = <<>>
  /\ table = <<>>
  /\ saving = NoSaving
  /\ asked = [m \in PluginModes |-> Starts(Found(m))]
  /\ unsaved = {} /\ changes = 0

\* One more change, within the bound.
Changes == changes < MaxChanges /\ changes' = changes + 1

\* A boot into mode m loads both programs anew.
Boot(m) ==
  /\ running' = "boot" /\ bootMode' = m
  /\ plugins_started' = FALSE /\ started' = <<>>
  /\ table' = <<>> /\ saving' = NoSaving
  /\ UNCHANGED <<lists, present, asked, unsaved, changes>>

\* From the XMB a game or a PlayStation game is started; games end in the XMB; and
\* power may be lost at any time.
Reboots == \/ running = "xmb" /\ \E m \in PluginModes : Boot(m)
           \/ running = "game" /\ Boot("VSH")

PowerLost == running \in {"page", "write"} /\ Boot("VSH")

\* sceKernelStartModulePatched once sceUtility_Driver is there.  There is no memory
\* for the list, or in the XMB no scePspNpDrm_Driver yet, or its plugins are started.
StartModule ==
  /\ running = "boot" /\ ~plugins_started
  /\ plugins_started' = TRUE
  /\ started' \in {Starts(Found(bootMode)), <<>>}
  /\ UNCHANGED <<lists, present, running, bootMode, table, saving, asked, unsaved, changes>>

BootDone ==
  /\ running = "boot"
  /\ running' = IF bootMode = "VSH" THEN "xmb" ELSE "game"
  /\ UNCHANGED <<lists, present, bootMode, plugins_started, started, table, saving,
                 asked, unsaved, changes>>

\* The memory stick is put in or taken out, but not while the page is open.
StickMoves ==
  /\ running \in {"xmb", "game"}
  /\ Changes
  /\ present' = IF "ms0" \in present THEN present \ {"ms0"} ELSE present \cup {"ms0"}
  /\ asked' = [m \in PluginModes |-> Starts(FoundOn(lists, present', m))]
  /\ unsaved' = {}
  /\ UNCHANGED <<lists, running, bootMode, plugins_started, started, table, saving>>

-------------------------------------------------------------------------------
(* xmbctrl's Plugins page *)

\* readPlugins
ReadPlugins(m) == LET read == XmbReads(Buffer(Found(m)))
                  IN  [n \in 1..Len(read) |-> [path |-> read[n].path,
                                               activated |-> read[n].activated,
                                               mode |-> m]]

\* readPluginTable: without plugins there is no page.
ReadPluginTable ==
  /\ running = "xmb"
  /\ table' = ReadPlugins("VSH") \o ReadPlugins("GAME") \o ReadPlugins("POPS")
  /\ running' = IF table' # <<>> THEN "page" ELSE "xmb"
  /\ asked' = [m \in PluginModes |-> Starts(Found(m))]
  /\ unsaved' = {}
  /\ UNCHANGED <<lists, present, bootMode, plugins_started, started, saving, changes>>

LeavePage ==
  /\ running = "page"
  /\ running' = "xmb"
  /\ UNCHANGED <<lists, present, bootMode, plugins_started, started, table, saving,
                 asked, unsaved, changes>>

\* What of a row is written: nothing in the list of another mode; and each line has a
\* separator behind it unless it is the last of the whole table.
Line(row, isLast, m) ==
  IF row.mode # m THEN <<>>
  ELSE row.path \o <<"sp", IF row.activated THEN "1" ELSE "0">>
         \o (IF isLast THEN <<>> ELSE <<"nl", "nl">>)

\* Mutant: the last line but one has no separator either.
WrittenOffByOne(rows, m) ==
  LET written[i \in 0..Len(rows)] ==
        IF i = 0 THEN <<>>
        ELSE written[i - 1] \o Line(rows[i], i >= Len(rows) - 1, m)
  IN  written

\* What writePlugins writes, row for row.
Written(rows, m) ==
  LET written[i \in 0..Len(rows)] ==
        IF i = 0 THEN <<>> ELSE written[i - 1] \o Line(rows[i], i = Len(rows), m)
  IN  written

\* The rows of a mode, which the page shows.
Shown(rows, m) ==
  Named([n \in 1..Len(rows) |->
           IF rows[n].mode = m
           THEN [path |-> rows[n].path, activated |-> rows[n].activated] ELSE NoPlugin])

\* vshSetRegistryValuePatched: a plugin is switched, and its list opened to be
\* rewritten (PSP_O_CREAT | PSP_O_TRUNC), on the memory stick or, when that fails, the
\* internal storage.
SetPlugin(i, device) ==
  /\ running = "page"
  /\ device \in present
  /\ Changes
  /\ table' = [table EXCEPT ![i].activated = ~@]
  /\ saving' = [device |-> device, mode |-> table[i].mode]
  /\ lists' = [lists EXCEPT ![device][table[i].mode] = <<>>]
  /\ LET m == table[i].mode
         reaches == FoundOn(lists', present, m) = <<>>   \* this list will be read
     IN  /\ asked' = IF reaches THEN [asked EXCEPT ![m] = Activated(Shown(table', m))]
                     ELSE asked
         /\ unsaved' = IF reaches THEN unsaved ELSE unsaved \cup {m}
  /\ running' = "write"
  /\ UNCHANGED <<present, bootMode, plugins_started, started>>

\* ... or neither can be opened.
SetPluginUnsaved(i) ==
  /\ running = "page"
  /\ Changes
  /\ table' = [table EXCEPT ![i].activated = ~@]
  /\ unsaved' = unsaved \cup {table[i].mode}
  /\ UNCHANGED <<lists, present, running, bootMode, plugins_started, started, saving, asked>>

Content == lists[saving.device][saving.mode]
Target  == Written(table, saving.mode)[count]

\* The list grows.
WriteMore ==
  /\ running = "write" /\ Content # Target
  /\ lists' = [lists EXCEPT ![saving.device][saving.mode] =
                 SubSeq(Target, 1, Len(@) + 1)]
  /\ UNCHANGED <<present, running, bootMode, plugins_started, started, table, saving,
                 asked, unsaved, changes>>

\* All is written, or from some point on nothing was (no result is looked at).
WriteEnds ==
  /\ running = "write"
  /\ running' = "page" /\ saving' = NoSaving
  /\ unsaved' = IF Content = Target /\ Found(saving.mode) = Target
                THEN unsaved \ {saving.mode} ELSE unsaved \cup {saving.mode}
  /\ UNCHANGED <<lists, present, bootMode, plugins_started, started, table, asked, changes>>

PluginNext ==
  \/ Reboots \/ PowerLost \/ StartModule \/ BootDone \/ StickMoves
  \/ ReadPluginTable \/ LeavePage
  \/ \E i \in 1..count : (\E d \in Devices : SetPlugin(i, d)) \/ SetPluginUnsaved(i)
  \/ WriteMore \/ WriteEnds

PluginSpec == PluginInit /\ [][PluginNext]_pluginVars
-------------------------------------------------------------------------------
(* Properties *)

\* Where no line but the first begins with a tab: else xmbctrl drops it, and systemctrl
\* takes the path to be empty.
ReadAlike(buf) == \A i \in 1..(Len(buf) - 1) : buf[i] = "nl" => buf[i + 1] # "tab"

\* What the Plugins page shows is what the next boot of each mode starts: the two
\* readers agree on every list, and the writer's lists are read as they were meant.
\* (Lists beyond Limit are cut when they are read, and a failed write says nothing.)
ShownIsStarted ==
  running = "page" =>
    \A m \in PluginModes \ unsaved :
      \/ Shown(table, m) = Named(SystemReads(Buffer(Found(m))))
      \/ Found(m) # NoFile /\ (Len(Found(m)) > Limit \/ ~ReadAlike(Found(m)))

\* Wherever a write stops or power is lost, a boot starts nothing the user has not
\* activated, and that once: a list that is cut off anywhere activates the first of
\* what was asked.
StartsOnlyAsked ==
  /\ \A m \in PluginModes : IsPrefix(Starts(Found(m)), asked[m])
  /\ running = "boot" => IsPrefix(started, asked[bootMode])
===============================================================================
