SPECIFICATION Spec
CONSTANTS
  Files <- MCFiles
  Followed <- MCFollowed
  Numerals <- MCNumerals
  CfgZones <- MCZones
  RUsers = {u1, u2}
  RTester = rt
  RClients = {c1, c2}
  RZones = {1}
  Uninit = {0, 3}
  SUsers = {u1, u2}
  STester = st
  SClients = {d1}
  SZones = {1}
  NULL = NULL
  Absent = Absent
CHECK_DEADLOCK FALSE
INVARIANTS SettingsOfFile ReplyToCaller ClientOfZone HandleInUse
PROPERTIES EntryKept OutageEnds LookupReturns SqlOutageEnds
