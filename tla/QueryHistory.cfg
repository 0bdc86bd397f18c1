CONSTANTS
  w1 = w1
  w2 = w2
  Workers = {w1, w2}
  MaxItems = 2
  MaxAdded = 3
SYMMETRY MCSymmetry
SPECIFICATION Spec
INVARIANTS StoredAsPromised NewestFirst ReadsAgree
CHECK_DEADLOCK FALSE
