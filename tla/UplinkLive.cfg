SPECIFICATION LiveSpec
CONSTANTS
  alpha = alpha
  beta = beta
  dotted = dotted
  NoHost = NoHost
  Hosts <- MCHosts
  NumericHosts <- MCNumericHosts
  Settings <- MCNamed
  DefaultSettings <- MCNamedDefaults
  TicksPerSec = 1
  PostTimeout = 1
  DnsTimeout = 1
  SecMod = 3
  TidMod = 2
  Recharge = 1
  SensorPeriod = 0
  RebootAfter = 1
  RebootMod = 4
INVARIANT LookupAnswersItsQuestion
PROPERTIES UplinkNeverWedges DeadUplinkResetsChip
