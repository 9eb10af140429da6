\* The calls of two wraps step by step, without calls from user code.
CONSTANTS
  Wraps = {w1, w2}
  Temp = temp
  Local = temp
  Reentrant = FALSE
  Anything = anything
  Blocks = {b1, b2, b3}
  s1 = s1
  s2 = s2
  d1 = d1
  Types = {s1, s2, d1}
  StaticTypes = {s1, s2}
  FragileTypes = {s2, d1}
  Can <- EveryMember
  Vals = {v1, v2}
  Hollow = hollow
  Copyable = TRUE
  Movable = TRUE
  Swappable = TRUE
  Null = null
  NoWrap = nowrap
  NoType = notype
  Outside = outside
SYMMETRY Symmetry
SPECIFICATION AtomicSpec
PROPERTIES ImplementsValueWrap
