\* Three wraps sharing up to four holders of a copyable and a non-copyable type.
CONSTANTS
  Wraps = {w1, w2, w3}
  Cells = {c1, c2, c3, c4}
  Types = {copyable, unique}
  Copyable = {copyable}
  Vals = {v1, v2}
  Swappable = TRUE
  Null = null
  NoWrap = nowrap
  Raw = raw
  Outside = outside
SYMMETRY Symmetry
SPECIFICATION Spec
INVARIANTS TypeOK CountsSharers
PROPERTIES ThrowsChangeNothing OnlyWritesChangeValues ImplementsSharedBox
