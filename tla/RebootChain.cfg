SPECIFICATION Spec
CONSTANTS
  Models = {0, 2, 4}
  Word = 256
  Sizes = {0, 8, 24, 43, 51, 213, 255}
  Modules = {m1, m2}
  NoModule = NoModule
INVARIANTS HenSurvives RequestOnce
PROPERTY MemoryAsAsked
