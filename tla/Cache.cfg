\* Two keys and a spare address; an object is young for two ticks.
SPECIFICATION Spec
CONSTANTS
  Key = {k1, k2}
  Obj = {o1, o2, o3}
  NULL = NULL
  TIMEOUT = 2
INVARIANTS
  TypeOK
  ServedIsRight
  ServedIsYoung
  MapOwnsObjects
PROPERTIES
  ImplementsTimedMap
