\* Two wraps, sharing or not, saved to and loaded from an archive of three records.
CONSTANTS
  Wraps = {w1, w2}
  Cells = {c1, c2, c3, c4}
  Types = {plain, nodefault}
  Copyable = {plain}
  Defaulted = {plain}
  Vals = {v1}
  Swappable = TRUE
  MaxRecords = 3
  Null = null
  NoWrap = nowrap
  Raw = raw
  Outside = outside
  Torn = torn
SYMMETRY Symmetry
SPECIFICATION SerialSpec
INVARIANTS SerialTypeOK CountsReaders SharingSurvives
