SPECIFICATION LiveSpec
CONSTANTS
  p1 = p1
  p2 = p2
  h1 = h1
  h2 = h2
  Server = {p1, h1}
  Answering = {p1, h1}
  Check = {c1, c2}
  Fd = {f1, f2}
  NoFd = NoFd
  Noise = Noise
  PING_NUM_CHECKS = 2
  MaxInbox = 2
  MaxEcho = 1
  LENGTH = 2
  SEND_ATTEMPTS = 2
  mon_t <- MCmon_t
  THREADS = 2
INVARIANTS
  TypeOK
  UpNeedsAnAnswer
  SocketsAreOwn
  RequestIsWhole
  DiesOnlyWithoutSocket
PROPERTIES
  PromptReplyIsHeard
  ChecksEnd
