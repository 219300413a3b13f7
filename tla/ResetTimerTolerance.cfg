SPECIFICATION TimedSpec
CONSTANTS
  Reqs = {r1, r2}
  r1 = r1
  r2 = r2
  Fds = {s1, s2}
  s1 = s1
  s2 = s2
  ExtraFds = {}
  NoFd = NoFd
  HTTPS_SOCKET_LIMIT = 2
  DOH_MAX_RESPONSE_SIZE = 1
  conn_loss_time = 3
INVARIANTS
  ToleratesTimeouts
