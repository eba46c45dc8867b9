SPECIFICATION LiveSpec
CONSTANTS
  s1 = s1
  s2 = s2
  s3 = s3
  s4 = s4
  ip1 = ip1
  ip2 = ip2
  Server = {s1, s2, s3, s4}
  Ip = {ip1, ip2}
  NoIp = NoIp
  Table <- MCTable
  MaxLists = 2
INVARIANTS
  TypeOK
  NoServerTwice
  ListIsTaken
PROPERTIES
  HalfLeave
  ArrayFollowsTable
