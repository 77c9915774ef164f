\* The disturbances under which both properties are proved in general, over inputs that
\* cannot be rendered or lack the Secret at first, on a new or a bootstrapped machine.
SPECIFICATION BootstrapSpec
CHECK_DEADLOCK FALSE
INVARIANTS QuietIsConverged ReadyIsRunning
CONSTANTS
  Files <- MCFiles
  FileSeq <- MCFileSeq
  ServiceOf <- MCServiceOf
  Services <- MCServices
  Data <- MCData
  Renders <- ReorderedRenders
  CredFiles <- MCCredFiles
  NoHash = NoHash
  Dirty = Dirty
  RenderError = RenderError
  RenderPanic = RenderPanic
  MaxSpec = 3
  MaxNodes = 3
  MaxRV = 12
  LocalText = 10
  MaxFaults = 2
  Silent = {}
  NoSecret = {1}
  ConfigRootIsSlash = TRUE
  Faults = {"crash", "api", "otherwrite", "net", "peer", "delete"}
