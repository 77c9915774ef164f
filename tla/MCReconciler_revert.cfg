\* A spec is edited and reverted.
SPECIFICATION Spec
INVARIANT RecordedIsInstalled
CONSTANTS
  Files <- MCFiles
  FileSeq <- MCFileSeq
  ServiceOf <- MCServiceOf
  Services <- MCServices
  Data <- MCData
  Renders <- RevertingRenders
  CredFiles <- MCCredFiles
  NoHash = NoHash
  Dirty = Dirty
  RenderError = RenderError
  RenderPanic = RenderPanic
  MaxSpec = 3
  MaxNodes = 1
  MaxRV = 100
  LocalText = 10
  MaxFaults = 0
  Silent = {}
  NoSecret = {}
  ConfigRootIsSlash = TRUE
  Faults = {}
