SPECIFICATION Spec
CONSTANTS
  d1 = d1
  h1 = h1
  h2 = h2
  h3 = h3
  None = None
  Devices = {d1}
  Handles = {h1, h2, h3}
  Fds = {1, 2, 3, 4, 5, 6}
  EpNums = {1, 2}
  MaxIface = 1
  MaxAlt = 1
  Descr <- MCDescr
  Relaxed = TRUE
SYMMETRY Symmetry
INVARIANTS TypeOK ClaimsAgree ClaimIsDescribed ControlStaysOpen EndpointsAreOwn NothingLost
PROPERTY ImplementsClaims
