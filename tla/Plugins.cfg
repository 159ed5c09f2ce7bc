SPECIFICATION PluginSpec
CONSTANTS
  NoFile = NoFile
  MaxLen = 2
  Limit = 8
  MaxChanges = 2
  Chars <- MCChars
  Cards <- MCCards
INVARIANTS ShownIsStarted StartsOnlyAsked
