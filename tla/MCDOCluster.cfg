SPECIFICATION FairSpec
CONSTANTS
  Names = {n1, n2}
  NoName = NoName
  InitialDNS = n1
  Ports = {6443, 8443}
  DefaultLBPort = 6443
  InitialPort = 0
  Mishaps <- AllMishaps
  MaxMishaps = 1
  MaxLBs = 2
  Editable = {"dns", "port"}
  MaxEdits = 1
INVARIANTS TypeOK RecordsReclaimed LeaksBoundedByMishaps ReadyHasEndpoint
  EndpointPortServed ReadyRecordIsAdvertised OneLBPerCluster NothingLeftBehind
  EndpointIsNamedLB
PROPERTIES KeepsContract EndpointStable RecordFollowsLB ProvisioningCompletes DeletionCompletes
