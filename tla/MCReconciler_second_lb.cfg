\* A second load balancer after its peer.
SPECIFICATION FairSpec
PROPERTY Registers
CONSTANTS
  Files <- MCFiles
  FileSeq <- MCFileSeq
  ServiceOf <- MCServiceOf
  Services <- MCServices
  Data <- MCData
  Renders <- FreshRenders
  CredFiles <- MCCredFiles
  NoHash = NoHash
  Dirty = Dirty
  RenderError = RenderError
  RenderPanic = RenderPanic
  MaxSpec = 1
  MaxNodes = 1
  MaxRV = 100
  LocalText = 10
  MaxFaults = 1
  Silent = {}
  NoSecret = {}
  ConfigRootIsSlash = TRUE
  Faults = {"peer"}
