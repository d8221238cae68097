CONSTANTS
  lobby = lobby
  attic = attic
  Rooms = {lobby, attic}
  NoRoom = NoRoom
  Pages = {"new-tab", "room-overview"}
  None = None
  t1 = t1
  t2 = t2
  t3 = t3
  Slots = {t1, t2, t3}
  MaxTabs = 2
  MaxPending = 2
  MaxCalls = 1
  MaxMessages = 1
SPECIFICATION Spec
SYMMETRY Interchangeable
INVARIANT TypeOK
INVARIANT OneConnection
INVARIANT SentWhereShown
INVARIANT TabsUnique
INVARIANT LogsFaithful
PROPERTY LastOneShows
