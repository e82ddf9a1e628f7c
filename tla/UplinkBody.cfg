SPECIFICATION Spec
CONSTANTS
  alpha = alpha
  beta = beta
  dotted = dotted
  NoHost = NoHost
  Hosts <- MCHosts
  NumericHosts <- MCNumericHosts
  Settings <- MCSettings
  DefaultSettings <- MCDefaultSettings
  TicksPerSec = 1
  PostTimeout = 1
  DnsTimeout = 1
  SecMod = 3
  TidMod = 1
  Recharge = 0
  SensorPeriod = 0
  RebootAfter = 1
  RebootMod = 2
INVARIANT BodyIsTheReadings
