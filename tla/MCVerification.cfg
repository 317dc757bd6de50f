SPECIFICATION Spec
CONSTANTS
  p1 = p1  p2 = p2
  Packets = {p1, p2}
  Dvns = 2
  MaxStreams = 3
INVARIANTS OneSubscription
PROPERTIES WaitsAnswered KeepsPromise
CHECK_DEADLOCK FALSE
