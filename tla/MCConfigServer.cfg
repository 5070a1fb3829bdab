CONSTANTS
  v = v
  h1 = h1
  h2 = h2
  s1 = s1
  s2 = s2
  Handlers = {h1, h2}
  Fields = {1, 2}
  Values = {v}
  Zero = Zero
  Unsound = Unsound
  Broken = Broken
  Bodies <- MCBodies
  Absent = Absent
  Mistyped = Mistyped
  Refused = Refused
  Nulled = Nulled
  Structs = {s1, s2}
  Nil = Nil
  Null = Null
  Missing = Missing
  Empty = Empty
  None = None

SPECIFICATION Spec
SYMMETRY Symmetric
VIEW Reachable

INVARIANTS
  TypeOK
  SavedConfigStays
  QuietFileIsWhole
