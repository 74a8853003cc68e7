\* Three clients: two to be lost in one round and one to be dropped for it.
CONSTANTS
  Client = {c1, c2, c3}
  NoClient = none
  MaxInbox = 1
SPECIFICATION Spec
INVARIANTS
  TypeOK
  DropsLeaveZombies
PROPERTIES
  DropsTakeTwoLosses
  MessagesAreRead
  HangUpsAreNoticed
