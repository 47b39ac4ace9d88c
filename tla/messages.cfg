SPECIFICATION CodecSpec
CONSTANTS
  InitialSize = 16
  Texts <- Strings
  Players <- Users
  MaxText = 4
  MaxPlayers = 3
  Numbers = {0, 9, 31684}
  Now = 77
  Uuids <- Created
  Schemas <- Written
  Abandons = {9, 40}
  Env = {"overlap"}
CHECK_DEADLOCK FALSE
INVARIANTS TypeOK ReadsInBounds ReadAsBuilt AssertsHold SchemaReadAsWritten LookupFindsAll LoginToldApart
