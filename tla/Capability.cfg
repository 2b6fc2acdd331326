SPECIFICATION Spec
CONSTANTS
  core = core  t1 = t1  t2 = t2  srv = srv  pd1 = pd1  pd2 = pd2
  Pd = {pd1, pd2}
  Core = Core
  Thread = {core, t1, t2, srv}
  PdOf <- TwoDomains
  Server = {core, srv}
  Identity = {i1, i2}
  CapId = {id1, id2}
  RefMod = 256
  MaxCopies <- ClientCopies
  MaxSlab = 6
  Invalid = Invalid
  None = None
SYMMETRY Symmetry
INVARIANTS SpacesConsistent HeldIsReferenced UnusedIsDeleted
