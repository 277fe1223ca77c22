SPECIFICATION Spec
CONSTANTS
  User = {u1}
  Profile = {p, q}
  NoProfile = none
  MaxVersion = 5
INVARIANTS TypeOK NewestEventIsStored SnapshotOfDirectory
PROPERTIES ContactNeverRegresses FollowsDirectory
CHECK_DEADLOCK FALSE
