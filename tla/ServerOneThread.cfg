SPECIFICATION FairSpec
CONSTANTS
  ThreadNum = 1
  Fds = {4, 5}
  PipeCapacity = 1
  EnableSSL = TRUE
  Conns = {k1, k2, k3}
  Ctxs = {c1, c2}
  Objs = {o1, o2}
  ActivaTimeval = 1
  None = None
CHECK_DEADLOCK FALSE
INVARIANTS TypeOK ReplyToRequester CallbackContextAlive HandlersAccounted
PROPERTIES QueuedIsTaken PendingExpires
