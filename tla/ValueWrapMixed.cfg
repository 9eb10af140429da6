\* Three wraps and every pair of storage kinds, and two types that the class refuses.
CONSTANTS
  Wraps = {w1, w2, w3}
  Temp = temp
  Blocks = {b1, b2, b3, b4}
  s1 = s1
  s2 = s2
  d1 = d1
  d2 = d2
  mo = mo
  pin = pin
  Types = {s1, s2, d1, d2, mo, pin}
  StaticTypes = {s1, s2, mo}
  FragileTypes = {s2, d2}
  Can <- Assorted
  Vals = {v1}
  Hollow = hollow
  Copyable = TRUE
  Movable = TRUE
  Swappable = TRUE
  Null = null
  NoWrap = nowrap
  NoType = notype
  Outside = outside
SYMMETRY Symmetry
SPECIFICATION Spec
INVARIANTS TypeOK NoUndefinedBehaviour OneOwnerPerHolder StorageByType
PROPERTIES MovesNeverAllocate ImplementsBox
