SPECIFICATION FairSpec
CONSTANTS
  Servers = {"ns1", "ns2"}
  Primary = "ns1"
  Local <- TwoLocal
  OtherLookups = TRUE
  MaxAddresses = 2
INVARIANTS PropagatedMeansServed
PROPERTY PropagationDetected
