CONSTANTS
  a = a
  b = b
  price = price
  stock = stock
  Missing = Missing
  Error = Error
  Kinds <- MCAllKinds
  Ids = {a, b}
  Fields = {price, stock}
  Values <- MCValues
  NeFindsMissing = TRUE
  FilterLists <- MCFilterLists
  Limits <- MCLimits
  SearchLimit = 1
  ListLimit = 1
SYMMETRY MCSymmetry
SPECIFICATION Spec
INVARIANTS SharedFiltersHold
PROPERTIES DeletesWhatIsNamed
