CONSTANTS
  ann = ann
  ben = ben
  cat = cat
  lobby = lobby
  attic = attic
  w1 = w1
  w2 = w2
  Users = {ann, ben}
  Names = {lobby, attic}
  RoomTypes = {"PRIVATE"}
  Ops = {"create", "join", "leave", "kick", "delete", "edit", "apply", "review"}
  Workers = {w1, w2}
  Backend = "postgresql"
  MaxId <- Ids241
SPECIFICATION Spec
SYMMETRY Interchangeable
INVARIANT TypeOK
INVARIANT PrivateAdmission
INVARIANT MembersHaveRooms
PROPERTY RemovalsAuthorised
PROPERTY ApprovalsStand
PROPERTY RoomsKeptByOwner
PROPERTY CreatorIsMember
PROPERTY ImplementsBook
