SPECIFICATION FairSpec
CONSTANTS
  MaxChoice = 1
  ReadsMayFail = TRUE
  Pads = {{"hw"}, {"hw", "cross", "right", "down"}, {"hw", "select", "cross"}}
INVARIANTS OneWriter NothingLeftBehind AgreeWhenQuiet
PROPERTY MenuCloses
