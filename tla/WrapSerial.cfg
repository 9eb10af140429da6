\* Immovable wraps of three types: one in static storage, one on the heap, and
\* one in static storage that cannot be moved, so that it cannot be saved.
CONSTANTS
  Wraps = {w1, w2}
  Temp = temp
  Blocks = {b1, b2, b3}
  s1 = s1
  s2 = s2
  d1 = d1
  Types = {s1, s2, d1}
  StaticTypes = {s1, s2}
  FragileTypes = {}
  Defaulted = {s1, s2, d1}
  Can <- OnePinned
  Vals = {v1, v2}
  Hollow = hollow
  Copyable = FALSE
  Movable = FALSE
  Swappable = FALSE
  MaxRecords = 2
  Torn = torn
  Null = null
  NoWrap = nowrap
  NoType = notype
  Outside = outside
SYMMETRY Symmetry
SPECIFICATION SerialSpec
INVARIANTS SerialTypeOK NoUndefinedBehaviour OneOwnerPerHolder StorageByType TrackingFindsValues
PROPERTIES ImplementsArchive
