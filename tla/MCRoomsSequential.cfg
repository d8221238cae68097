CONSTANTS
  ann = ann
  ben = ben
  cat = cat
  lobby = lobby
  attic = attic
  w1 = w1
  w2 = w2
  Users = {ann, ben, cat}
  Names = {lobby}
  RoomTypes = {"PRIVATE", "PUBLIC"}
  Ops = {"create", "join", "leave", "kick", "delete", "apply", "review"}
  Workers = {w1}
  Backend = "sqlite"
  MaxId <- Ids242
SPECIFICATION Spec
SYMMETRY Interchangeable
INVARIANT OneApplication
INVARIANT PendingIsOutside
