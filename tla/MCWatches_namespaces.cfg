\* Nothing but a resync of the Secrets is needed to wake the object outside the namespace.
SPECIFICATION Spec
CONSTANTS
  Objects <- MCObjects
  Namespaces <- MCNamespaces
  NamespaceOf <- OneInEach
  WatchNamespace = "default"
  Contents <- MCContents
  FirstSpec <- MCFirstSpec
  FirstContent = "old"
  MaxEvents = 0
  Never = Never
  Dirty = Dirty
  Idle = Idle
INVARIANT FilesFollowTheFlag
