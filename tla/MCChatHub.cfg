CONSTANTS
  s1 = s1
  s2 = s2
  s3 = s3
  ann = ann
  lobby = lobby
  attic = attic
  Sockets = {s1, s2}
  Users = {ann}
  UserOf <- MCUserOf
  Names = {lobby, attic}
  RestOps = {"create", "leave", "join", "delete", "edit"}
  Cascades = TRUE
  OddFrames = TRUE
  Lobby = lobby
  MaxRequests = 2
  MaxMessages = 2
SPECIFICATION FairSpec
INVARIANT TypeOK
INVARIANT ListenersRegistered
PROPERTY BroadcastReachesAll
PROPERTY ClosedForgotten
CHECK_DEADLOCK FALSE
