SPECIFICATION FairSpec
CONSTANTS
  Proxy = proxy
  Ep = ep
  Rec = rec
  DeferredHandler = dh
  Io = {io}
  App = {app}
  Permanent = {io, app}
  None = None
  MaxSubmits = 2
  MaxNum = 1
  MaxNest = 1
PROPERTY SignalsHandled
