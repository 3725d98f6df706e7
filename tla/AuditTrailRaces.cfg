CONSTANTS
  Sessions = {s1, s2}
  Nobody = nobody
  user = user
  grant = grant
  code1 = code1
  code2 = code2
  Entities <- MCEntities
  Kind <- MCKind
  Key <- MCKey
  NoRow = NoRow
  Fields = {status, mfa}
  Values = {0, 1}
  Initial = 0
  Requests <- MCRequests
  MaxClock = 8
SPECIFICATION Spec
SYMMETRY Alike
INVARIANTS
  LastEditIsCurrent
  OneLife
  OldValueAsOfRead
  LinksAreTrue
CHECK_DEADLOCK FALSE
