\* Violation: a Set between the read and the Delete of a Get.
CONSTANTS
  k1 = k1
  k2 = k2
  v1 = v1
  v2 = v2
  g1 = g1
  g2 = g2
  NoItem = NoItem
  Keys = {k1}
  Values = {v1}
  Getters = {g1}
  MaxTTL = 1
  Interval = 2
SPECIFICATION Spec
PROPERTY FreshEntryStays
\* The program ends when Close panics.
CHECK_DEADLOCK FALSE
