CONSTANTS
  ann = ann
  ben = ben
  cat = cat
  lobby = lobby
  attic = attic
  w1 = w1
  w2 = w2
  Users = {ann, ben}
  Names = {lobby}
  RoomTypes = {"PUBLIC"}
  Ops = {"create", "join", "delete"}
  Workers = {w1}
  Backend = "sqlite"
  MaxId <- Ids242
SPECIFICATION Spec
INVARIANT MembersHaveRooms
