\* Two events of two authors, one flag.
CONSTANTS
  KeyIds = {"root", "a1", "a2", "p1", "p2"}
  Names <- MCNames
  RingLevels = {0, 1}
  MaxHeight = 2
  Clients = {"reader", "other"}
  Readers = {"reader"}
  Holds <- MCHolds
  Genesis <- MCGenesis
  Wishes <- MCWishes
  FlagBound = 1
SPECIFICATION Spec
INVARIANTS PublicAgree GrantsFounded PendingIsActive
PROPERTY RevokedStays
CHECK_DEADLOCK FALSE
