SPECIFICATION Spec
CONSTANTS
  p6 = p6
  p7 = p7
  Buses = {p6, p7}
  Ports <- MCPorts
  Loose <- MCLoose
  IdBits = 4
  DevicesOf <- MCDevicesOf
  ValidIds <- MCValidIds
  MaxSensors = 5
  FcntGarbage = {0, 1}
INVARIANTS TypeOK OverflowHasACause TableMatchesBuses ReadingIsOfItsRow
PROPERTIES KeepsPromise SearchEnds
