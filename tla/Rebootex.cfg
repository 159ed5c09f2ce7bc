SPECIFICATION FairSpec
CONSTANTS
  EntrySize = 32
  BootModes = {"VSH", "GAME", "UNK"}
  RebootFlags = {{"VSH"}}
  NameLen <- MCNameLen
  Tables <- MCTables
INVARIANTS InsertedAsAsked BootsAsAsked
PROPERTY BootEnds
\* The boot is over when the kernel runs.
CHECK_DEADLOCK FALSE
