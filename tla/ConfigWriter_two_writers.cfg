\* The controller and a render-from-file run writing one file.
SPECIFICATION Spec
CONSTANTS
  Files = {api}
  Writers = {controller, bootstrap}
  Data = {d1, d2}
  Gens = {1, 2}
  NoFile = NoFile
  Empty = Empty
  Torn = Torn
  Foreign = Foreign
  BadDigest = BadDigest
  Dirty = Dirty
  Idle = Idle
INVARIANTS TypeOK SuccessIsInstalled
PROPERTY ImplementsManagedFile
