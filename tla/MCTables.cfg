SPECIFICATION TablesSpec
CONSTANTS
  Keys = {1, 2, 3, 4}
  UserValues = {a}
  TOMBSTONE = TOMBSTONE
  NONE = NONE
  Hashes <- MCHashes
  BitsPerElement = 2
  LeastBits = 3
  Stride = 2
  Bytes <- MCBytes
  MaxTables = 2
INVARIANTS TablesOK SizeExact SearchFindsAll OpenRestores
PROPERTY MergeKeepsNewest
