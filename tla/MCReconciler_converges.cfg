\* The node converges without relying on the resync; under another config root
\* nothing is reloaded.
SPECIFICATION FairSpec
PROPERTY Converges
CONSTANTS
  Files <- MCFiles
  FileSeq <- MCFileSeq
  ServiceOf <- MCServiceOf
  Services <- MCServices
  Data <- MCData
  Renders <- FreshRenders
  CredFiles <- MCCredFiles
  NoHash = NoHash
  Dirty = Dirty
  RenderError = RenderError
  RenderPanic = RenderPanic
  MaxSpec = 2
  MaxNodes = 2
  MaxRV = 100
  LocalText = 10
  MaxFaults = 2
  Silent = {}
  NoSecret = {}
  ConfigRootIsSlash = FALSE
  Faults = {"crash", "write", "api", "otherwrite", "net"}
