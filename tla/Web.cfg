SPECIFICATION Spec
CONSTANTS
  BUFFER_SIZE = 700
  Connections = {"first", "second"}
  Kinds <- MCKinds
  Times <- MCTimes
  EarlierTimes <- MCEarlierTimes
  EchoData <- MCEchoData
  MaxSyns = 2
INVARIANTS TypeOK AnswersAreAcceptable NumbersDoNotOverlap PongsCheckOut
PROPERTIES RestartsNeedALogin AskedIsAcked
