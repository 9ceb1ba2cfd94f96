CONSTANTS
  Keys <- MCKeys
  Addresses = {a1, a2}
  JsonNull = JsonNull
  Absent = Absent
  Empty = Empty
  Unknown = Unknown
  NoFile = NoFile
  Torn = Torn
  MaxRequests = 2
  MaxCrashes = 2
SPECIFICATION Spec
INVARIANTS TypeOK SavedIsInMemory AddressInForce NullIsFatal
CHECK_DEADLOCK FALSE
