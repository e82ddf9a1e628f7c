SPECIFICATION Spec
CONSTANTS
  BUFFER_SIZE = 700
  RowOrder <- MCRowOrder
  Passwords <- MCPasswords
  ServerSettings <- MCServerSettings
  RowSettings <- MCRowSettings
  Addresses <- MCUserAddresses
  Macs <- MCMacs
  DefPassword <- MCDefPassword
  DefServer1 <- MCDefServer1
  DefServer2 <- MCDefServer2
  DefRow <- MCDefRow
  DefAddresses <- MCDefAddresses
  DefMac <- MCDefMac
  LeasedAddresses <- MCLeased
  Erased = erased
  Ragged = ragged
  Mixed = mixed
  Unset = unset
  MaxRequests = 3
  MaxCuts = 2
CHECK_DEADLOCK FALSE
INVARIANTS TypeOK AnsweredSaveIsDurable RamIsWhatIsSaved MarkMeansWritten PagesFit
