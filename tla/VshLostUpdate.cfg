SPECIFICATION Spec
CONSTANTS
  MaxChoice = 1
  ReadsMayFail = FALSE
  Pads = {{"hw"}, {"hw", "select"}, {"hw", "cross"}, {"hw", "right"}}
PROPERTY OneSettingAtATime
