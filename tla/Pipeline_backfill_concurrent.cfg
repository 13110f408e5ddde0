SPECIFICATION Spec
CONSTANTS
  o1 = o1
  o2 = o2
  bad = bad
  m1 = m1
  m2 = m2
  m3 = m3
  r1 = r1
  r2 = r2
  s1 = s1
  s2 = s2
  w1 = w1
  None = None
  Objects = {o1, o2}
  Resources = {r1, r2}
  Messages = {m1, m2}
  Slots = {s1, s2}
  Records <- SingleRecords
  ResourcesOf <- MCResourcesOf
  Unreadable = {}
  Related <- AllRelated
  BackfillEnabled = TRUE
  MaxReceives = 2
  MaxSends = 1
  Rejectable = {}
  Wires = {}
INVARIANTS
  CompleteAggregation
