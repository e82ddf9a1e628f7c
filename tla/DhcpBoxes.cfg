SPECIFICATION Spec
CONSTANTS
  s1 = s1
  b1 = b1
  b2 = b2
  forever = forever
  Nobody = Nobody
  Boxes = {b1, b2}
  Servers = {s1}
  Addresses <- MCAddresses
  Terms <- MCTerms
  Forever = forever
  InitialTid <- MCInitialTid
  InitDelay = 20
  IterPerTick = 2
  CntMod = 16
  TidMod = 3
  MessageLen = 342
  BootMaxLen = 700
  RunMaxLen = 256
INVARIANT NoAddressMessUp
