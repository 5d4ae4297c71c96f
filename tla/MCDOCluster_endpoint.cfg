SPECIFICATION FairSpec
CONSTANTS
  Names = {n1, n2}
  NoName = NoName
  InitialDNS = NoName
  Ports = {6443, 8443}
  DefaultLBPort = 6443
  InitialPort = 6443
  Mishaps = {"external"}
  MaxMishaps = 0
  MaxLBs = 2
  Editable = {}
  MaxEdits = 0
PROPERTY EndpointFollowsLB
