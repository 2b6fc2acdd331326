SPECIFICATION Spec
CONSTANTS
  core = core  t1 = t1  t2 = t2  srv = srv  pd1 = pd1  pd2 = pd2
  Pd = {pd1}
  Core = Core
  Thread = {core, t1}
  PdOf <- OneClient
  Server = {core}
  Identity = {i1}
  CapId = {id1}
  RefMod = 256
  MaxCopies <- ManyCopies
  MaxSlab = 3
  Invalid = Invalid
  None = None
INVARIANT HeldHasReference
