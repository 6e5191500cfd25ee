SPECIFICATION Spec
CONSTANTS
  a = a
  b = b
  v = v
  w = w
  d = d
  e = e
  h = h
  FP = {a, b, v, w, d, e, h}
  Finding <- MCFinding
  NodeOrder <- MCNodeOrder
  Threshold = 2
  Times = {0, 1}
INVARIANT NoWaitCycle
