SPECIFICATION Spec
CONSTANTS
  ThreadNum = 2
  Fds = {4, 5}
  PipeCapacity = 1
  EnableSSL = TRUE
  Conns = {k1, k2, k3}
  Ctxs = {c1, c2}
  Objs = {o1, o2, o3}
  ActivaTimeval = 1
  None = None
SYMMETRY Symmetry
CHECK_DEADLOCK FALSE
INVARIANTS HandlerOwnership DescriptorOwnership
