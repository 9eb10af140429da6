\* The same class with types that can be copy constructed but not assigned.
CONSTANTS
  Wraps = {w1, w2}
  Temp = temp
  Blocks = {b1, b2, b3}
  s1 = s1
  s2 = s2
  d1 = d1
  d2 = d2
  mo = mo
  pin = pin
  Types = {s1, s2, d1, d2}
  StaticTypes = {s1, s2}
  FragileTypes = {s2, d1}
  Can <- ConstMember
  Vals = {v1, v2}
  Hollow = hollow
  Copyable = FALSE
  Movable = FALSE
  Swappable = FALSE
  Null = null
  NoWrap = nowrap
  NoType = notype
  Outside = outside
SYMMETRY Symmetry
SPECIFICATION Spec
INVARIANTS NoUndefinedBehaviour
