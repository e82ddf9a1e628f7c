SPECIFICATION Spec
CONSTANTS
  p6 = p6
  p7 = p7
  Buses = {p6, p7}
  Ports <- MCPorts
  Loose = {}
  IdBits = 4
  DevicesOf <- MCDevicesOf
  ValidIds <- MCValidIds
  MaxSensors = 5
  FcntGarbage = {0}
INVARIANT NoRowBeyondTable
