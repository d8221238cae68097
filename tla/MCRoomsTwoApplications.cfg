CONSTANTS
  ann = ann
  ben = ben
  cat = cat
  lobby = lobby
  attic = attic
  w1 = w1
  w2 = w2
  Users = {ann, ben}
  Names = {lobby}
  RoomTypes = {"PRIVATE"}
  Ops = {"create", "apply"}
  Workers = {w1, w2}
  Backend = "postgresql"
  MaxId <- Ids242
SPECIFICATION Spec
INVARIANT OneApplication
