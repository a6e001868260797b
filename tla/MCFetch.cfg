SPECIFICATION FairSpec
CONSTANTS
  Kinds = {"pools", "list", "images", "snaps", "config", "metadata", "xattr", "fixed"}
  Sizes = {0, 1, 2, 3, 4, 7, 8, 9}
  First = 2
  Limit = 8
  MaxChanges = 3
INVARIANTS  RefusesOnlyTooLong BufferInProportion
PROPERTIES FetchEnds
CHECK_DEADLOCK FALSE
