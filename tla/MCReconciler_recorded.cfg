\* Every disturbance but a config file that cannot be opened and a registered peer.
SPECIFICATION Spec
CHECK_DEADLOCK FALSE
INVARIANTS TypeOK RecordedIsInstalled StampIsTrue
CONSTANTS
  Files <- MCFiles
  FileSeq <- MCFileSeq
  ServiceOf <- MCServiceOf
  Services <- MCServices
  Data <- MCData
  Renders <- FreshRenders
  CredFiles <- MCCredFiles
  NoHash = NoHash
  Dirty = Dirty
  RenderError = RenderError
  RenderPanic = RenderPanic
  MaxSpec = 2
  MaxNodes = 2
  MaxRV = 100
  LocalText = 10
  MaxFaults = 2
  Silent = {2}
  NoSecret = {}
  ConfigRootIsSlash = TRUE
  Faults = {"crash", "reboot", "write", "render", "net", "reload", "api", "otherwrite", "edit", "delete"}
