SPECIFICATION Spec
CONSTANTS
  Proxy = proxy
  Ep = ep
  Rec = rec
  DeferredHandler = dh
  Io = {io}
  App = {app}
  Permanent = {io}
  None = None
  MaxSubmits = 2
  MaxNum = 1
  MaxNest = 1
INVARIANTS
  TypeOK
  ContextsAlive
  NoSignalLost
  IdleOnlyIfDone
CHECK_DEADLOCK FALSE
