SPECIFICATION Spec
CONSTANTS
  Proxy = proxy
  Ep = ep
  Rec = rec
  DeferredHandler = dh
  Io = {io}
  App = {app}
  Permanent = {io}
  None = None
  MaxSubmits = 2
  MaxNum = 4
  MaxNest = 1
INVARIANT NoNotificationLost
