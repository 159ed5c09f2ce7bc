SPECIFICATION Spec
CONSTANTS
  Dirs = {d1, d2}
  Games = {shop, plain, packed}
  Original = {shop}
  Plain = {plain}
  OwnIcon = {plain}
INVARIANTS RightKeys KeyStays AllOrNothing
