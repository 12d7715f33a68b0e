SPECIFICATION FairSpec
CONSTANTS
  t1 = t1
  t2 = t2
  a1 = a1
  None = None
  Threads = {t1, t2}
  N = 2
  Kinds = {"success", "failure", "exclusive", "noinit"}
  Addrs = {a1}
  MaxFinds = 2
  MaxList = 1
CHECK_DEADLOCK FALSE
INVARIANTS TypeOK ListsAreTrue CallsReachOwner SeenIsSupported BussesEnd BussesLinked
PROPERTY EveryCallReturns
