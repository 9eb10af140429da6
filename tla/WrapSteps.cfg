\* Three wraps, so that swap leaves one to user code, and a local one; user code
\* may make calls inside every call.
CONSTANTS
  Wraps = {w1, w2, w3, local}
  Temp = temp
  Local = local
  Reentrant = TRUE
  Anything = anything
  Blocks = {b1, b2, b3}
  s1 = s1
  d1 = d1
  Types = {s1, d1}
  StaticTypes = {s1}
  FragileTypes = {s1}
  Can <- EveryMember
  Vals = {v1}
  Hollow = hollow
  Copyable = TRUE
  Movable = TRUE
  Swappable = TRUE
  Null = null
  NoWrap = nowrap
  NoType = notype
  Outside = outside
SYMMETRY Symmetry
SPECIFICATION StepsSpec
INVARIANTS StepsTypeOK NoUndefinedBehaviour VisibleWrapsAreWhole
PROPERTIES GoalsAreMet
