CONSTANTS
  t1 = t1
  t2 = t2
  Tabs = {t1, t2}
  Opens <- MCOpens
SPECIFICATION FairSpec
INVARIANT TypeOK
INVARIANT OnlyMovedRefused
PROPERTY RefusalsEnd
