SPECIFICATION Spec
CONSTANTS
  None = None
  Fields = {f1, f2, f3, f4}
  Vals = {v1, v2}
  Threshold = 3
INVARIANT Inv
PROPERTY ImplementsFieldMap
