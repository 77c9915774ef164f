\* An object in the watched namespace and one outside, any two changes or disturbances.
SPECIFICATION FairSpec
\* Without objects and Secrets nothing ever happens again.
CHECK_DEADLOCK FALSE
CONSTANTS
  Objects <- MCObjects
  Namespaces <- MCNamespaces
  NamespaceOf <- OneInEach
  WatchNamespace = "default"
  Contents <- MCContents
  FirstSpec <- MCFirstSpec
  FirstContent = "old"
  MaxEvents = 2
  Never = Never
  Dirty = Dirty
  Idle = Idle
INVARIANT EveryObjectIsServed
PROPERTY Served
