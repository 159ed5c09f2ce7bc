SPECIFICATION FairSpec
CONSTANTS
  NoName = NoName
  SdkVersion = SdkVersion
  SetClock = SetClock
  one = one
  two = two
  three = three
  dropped = dropped
  clock2 = clock2
  Files <- MCFiles
  GameFiles <- MCGameFiles
  ApiTypes = {81, 82, 288, 320, 324}
  MaxFaults = 1
  nid_table <- MCTable
  Exports <- MCExports
  Substitutes <- MCSubstitutes
  Imports <- MCImports
  Meant <- MCMeant
  Speeds = {0, 133, 222, 333}
  GameSpeeds = {0, 333}
  Half = 6
  FirstDelay = 3
  NextDelay = 1
  MaxPushes = 2
  MaxResets = 1
INVARIANTS PositionKept LoadedWhereMarked  PrivilegesOfModinfo LinksAsMeant GameKeepsItsSpeed ClockFollows
PROPERTIES SpeedArrives BootGoesOn
\* A program that is refused ends what is modelled of a boot.
CHECK_DEADLOCK FALSE
