SPECIFICATION LiveSpec
CONSTANTS
  Stops = {s1, s2}
  Drivers = {d1}
  Keys = {k1}
  Tickets = {t1}
  Procs = {p1, p2}
  None = None
  Failures = FALSE
PROPERTIES LastStopCloses RequestsFinish
