SPECIFICATION MCSpec
CONSTANTS
  Ids = {1, 2, 3, 4}
  Devices = {d1}
  Procs = {p1, p2}
  None = None
  Limit = 2
  Failures = TRUE
SYMMETRY Symmetry
VIEW RowsOnly
CHECK_DEADLOCK FALSE
INVARIANTS
  TypeOK
  SingleActiveDriver
  TokenExchangedOnce
  OneActivePerFamily
  LimitWhenAlone
