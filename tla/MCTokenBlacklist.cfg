CONSTANTS
  t1 = t1
  t2 = t2
  w1 = w1
  w2 = w2
  c1 = c1
  c2 = c2
  Tokens = {t1, t2}
  Workers = {w1, w2}
  Cleaners = {c1, c2}
  Lifetime = 2
  Second = 2
  Cooldown = 2
  BatchSize = 1
  Uptime = 0
  DatabaseFails = TRUE
  MaxTime = 4
SPECIFICATION FairSpec
INVARIANT TypeOK
INVARIANT SingleFlight
PROPERTY RevokedRefused
PROPERTY PurgeIsComplete
PROPERTY FlagComesDown
