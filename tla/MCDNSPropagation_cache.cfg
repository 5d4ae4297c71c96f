SPECIFICATION Spec
CONSTANTS
  Servers = {"ns1", "ns2"}
  Primary = "ns1"
  Local <- OneLocal
  OtherLookups = FALSE
  MaxAddresses = 1
INVARIANT SystemCachesUntouched
