CONSTANTS
  t1 = t1
  t2 = t2
  w1 = w1
  w2 = w2
  c1 = c1
  c2 = c2
  Tokens = {t1}
  Workers = {w1}
  Cleaners = {c1}
  Lifetime = 2
  Second = 2
  Cooldown = 2
  BatchSize = 1
  Uptime = 2
  DatabaseFails = FALSE
  MaxTime = 8
SPECIFICATION BusySpec
PROPERTY ExpiredPruned
