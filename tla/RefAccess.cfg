\* A const and two other wraps, of values and of references to a const and another object.
CONSTANTS
  Wraps = {w1, w2, w3}
  ConstWraps = {w3}
  Objs = {x, k}
  ConstObjs = {k}
  Vals = {v1, v2}
  Invalid = invalid
  NoWrap = nowrap
  Outside = outside
SPECIFICATION Spec
INVARIANT TypeOK
PROPERTIES ConstStaysConst ConstIsDeep OnlyUseWritesThrough
