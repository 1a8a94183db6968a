SPECIFICATION Spec
CONSTANTS
  Stops = {s1}
  Drivers = {d1}
  Keys = {k1}
  Tickets = {t1}
  Procs = {p1, p2}
  None = None
  Failures = FALSE
PROPERTY TerminalDeliveryStays
