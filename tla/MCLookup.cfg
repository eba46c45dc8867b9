\* Two names that share a wildcard; lookups live for three ticks, rows for two.
SPECIFICATION Spec
CONSTANTS
  n1 = n1
  n2 = n2
  wild = wild
  A = A
  h1 = h1
  ANY = ANY
  Name = {n1, n2}
  Owner = {n1, n2, wild}
  Type = {A}
  House = {h1}
  Question <- MCQuestion
  NoOwner = NoOwner
  Candidates <- MCCandidates
  Record <- MCRecord
  LOOKUP_TIMEOUT = 3
  RECORDS_TIMEOUT = 2
  HOUSE_TIMEOUT = 2
INVARIANTS
  TypeOK
  SettledIsServed
  RowsAreRecent
PROPERTIES
  FailsBriefly
