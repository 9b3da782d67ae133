SPECIFICATION Spec
CONSTANTS
  Items = {i1}
  Loops = {l1, l2}
  Fetches = {f1, f2}
  Capacity = 2
  MaxEpoch = 2
SYMMETRY LiveSymmetry
INVARIANT OwnChangesStay
CHECK_DEADLOCK FALSE
