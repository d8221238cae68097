CONSTANTS
  s1 = s1
  s2 = s2
  s3 = s3
  ann = ann
  lobby = lobby
  attic = attic
  Sockets = {s1, s2, s3}
  Users = {ann}
  UserOf <- MCUserOf
  Names = {lobby}
  RestOps = {}
  Cascades = TRUE
  OddFrames = FALSE
  Lobby = lobby
  MaxRequests = 0
  MaxMessages = 1
SPECIFICATION Spec
PROPERTY DeadEvicted
CHECK_DEADLOCK FALSE
