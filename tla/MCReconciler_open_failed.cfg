\* A config file cannot be opened once.
SPECIFICATION Spec
INVARIANT RecordedIsInstalled
CONSTANTS
  Files <- MCFiles
  FileSeq <- MCFileSeq
  ServiceOf <- MCServiceOf
  Services <- MCServices
  Data <- MCData
  Renders <- FreshRenders
  CredFiles <- MCCredFiles
  NoHash = NoHash
  Dirty = Dirty
  RenderError = RenderError
  RenderPanic = RenderPanic
  MaxSpec = 2
  MaxNodes = 1
  MaxRV = 100
  LocalText = 10
  MaxFaults = 1
  Silent = {}
  NoSecret = {}
  ConfigRootIsSlash = TRUE
  Faults = {"open"}
