SPECIFICATION Spec
CONSTANTS
  Stops = {s1, s2}
  Drivers = {d1}
  Keys = {k1, k2}
  Tickets = {t1}
  Procs = {p1, p2}
  None = None
  Failures = TRUE
SYMMETRY Symmetry
INVARIANTS
  TypeOK
  OutcomeMatchesStops
  PodSubmittedOnce
  StoredAnswerIsTrue
PROPERTIES
  FinishedStopStays
  LateUpdatesDrain
  ImplementsStopOutcome
