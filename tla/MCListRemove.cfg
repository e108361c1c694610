CONSTANTS
  Keys = {k1, k2, k3}
  Vals = {v1, v2}
  Nodes = {n1, n2, n3}
  Entries = {e1, e2, e3}
  NULL = NULL
  Free = Free
SPECIFICATION Spec
SYMMETRY MCSymmetry
PROPERTY RemoveSurvives
CHECK_DEADLOCK FALSE
