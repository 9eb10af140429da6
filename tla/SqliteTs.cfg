\* Two series and two iterators over a table of two rows.
CONSTANTS
  Series = {s1, s2}
  Iters = {i1, i2}
  Conns = {c1, c2, c3}
  Stmts = {p1, p2}
  Rows = 2
  Null = null
  NoObject = noobject
SYMMETRY Symmetry
SPECIFICATION Spec
CHECK_DEADLOCK FALSE
INVARIANTS OneIteratorPerStatement IteratorsKeepConnections CloseSucceeds OneSeriesPerConnection
