\* Images and the rows that link to them, one table at a time.  A behaviour
\* stops when its three names are used up and no row is left.
SPECIFICATION Spec
CONSTANTS
  Files = {f1, f2, f3}
  Ids = {i1, i2}
  Reqs = {r1, r2}
  None = None
  Gone = Gone
SYMMETRY Symmetry
INVARIANT TypeOK
INVARIANT LinksServed
INVARIANT NoLitter
CHECK_DEADLOCK FALSE
