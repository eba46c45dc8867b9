SPECIFICATION Spec
CONSTANTS
  p1 = p1
  p2 = p2
  h1 = h1
  h2 = h2
  Server = {p1, p2}
  Answering = {p1}
  Check = {c1, c2}
  Fd = {f1, f2}
  NoFd = NoFd
  Noise = Noise
  PING_NUM_CHECKS = 1
  MaxInbox = 1
  MaxEcho = 1
  LENGTH = 1
  SEND_ATTEMPTS = 1
  mon_t <- MCmon_t
  THREADS = 2
INVARIANTS
  UpIsItsOwn
