SPECIFICATION Spec
CONSTANTS
  AddrBits = 4
  V4 <- TwoAddresses
  V6 = {v6}
  ClusterNetworks <- MCNetworks
  NodeNames = {1}
  NodeStates <- MCNodeStates
  BackendFlags <- MCBackendFlags
  Bad = Bad
  Nil = Nil
  InvalidIP = InvalidIP
  NotRendered = NotRendered
  Error = Error
  Panic = Panic
  MaxEvents = 2
INVARIANTS
  TypeOK
  FrontendsAreHeld
  SnatIsHeld
  PublicFilesAgree
  PairAgrees
