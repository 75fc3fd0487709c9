SPECIFICATION Spec
CONSTANTS
  m1 = m1
  m2 = m2
  m3 = m3
  d1 = d1
  d2 = d2
  Consumers = {d1}
  Msgs = {m1, m2}
  Unstorable = {}
  BatchSize = 2
  CallsMayFail = FALSE
  Redeliveries = FALSE
  MaxInterruptions = 1
PROPERTIES
  BatchCompletesAfterSignal
