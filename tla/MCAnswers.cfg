SPECIFICATION Spec
CONSTANTS
  i1 = i1
  i2 = i2
  i3 = i3
  outer = outer
  inner = inner
  n1 = n1
  p1 = p1
  p2 = p2
  a = a
  b = b
  Id = {i1, i2, i3}
  NoId = NoId
  Zone = {outer, inner}
  NameOf <- MCNameOf
  Name = {n1}
  NoName = NoName
  Suffixes <- MCSuffixes
  Record <- MCRecord
  Length <- MCLength
  Content = {a, b}
  Pool <- MCPool
  SOA_TIMEOUT = 2
  LOOKUP_TIMEOUT = 2
INVARIANTS
  TypeOK
  SettledZone
  AnswersAreOfTheZone
  EachRowHasItsShare
  NamesAreRight
