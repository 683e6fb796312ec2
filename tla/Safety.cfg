SPECIFICATION SafetySpec
CONSTANTS
  f1 = f1  f2 = f2  f3 = f3
  h = h  c = c  s = s  w1 = w1
  None = None
  Fiber <- MCFiber
  Entry <- MCEntry
  Boundary <- MCBoundary
  PoolSize = 1
  Callback <- MCCallback
  Worker <- MCWorker
  Handlers <- MCHandlers
  Reloading = {TRUE, FALSE}
  FromScript = TRUE
  a = a  x = x  y = y  m1 = m1  m2 = m2
  Listener <- MCListener
  Matcher <- MCMatcher
  Message <- MCMessage
  Match <- MCMatch
  MaxLineBytes = 3
  Compressed = FALSE
  Receivers = {"serial", "local_server"}
  MaxFaults = 1
  Bodies <- MCBodies
  Key = {"a", "b", "materialize"}
  Datum = {"1", "2"}
  Table <- MCTable
  Retained <- MCRetained
  MapOrder <- MCMapOrder
  MaxAssigns = 2
  Names <- MCNames
  Fields = {"a", "b"}
  Depth = 2
  MaxCalls = 5
  Keys <- MCKeys
  MaxIndex = 2
  Kinds = {"holding", "coils"}
  Types = {"default", "uint32"}
  Packings <- MCPackings
  Queries <- MCQueries
  Words16 <- MCWords
  ScriptValues <- MCValues
  ToBool <- MCToBool
  ToUInt <- MCToUInt
  ToFloat <- MCToFloat
  MaxWrites = 2
  Leaves = {1, 2}
  MaxStarts = 3
  MaxSets = 3
  FieldNames = {"a", "b"}
  Cells <- MCCells
  MaxBits = 3
  Reach = 2
  Rounded <- MCRounded
  FieldMod = 4
  EnumNames <- MCEnumNames
  Memory <- MCMemory
  Variants <- MCVariants
  MapKeys = {{"a"}, {"b"}, {"c"}, {"a", "b"}}
  FieldKinds = {"bit_array", "bitmask", "unique_id", "dyn_string", "dyn_array", "enum", "fixed_array", "plain"}
SYMMETRY FiberSymmetry
CHECK_DEADLOCK FALSE
INVARIANTS
  LifecycleInv
  Resync
  ReadsLikePlain
  TagsSound
  LoopbackAgrees
  MapsAgree
  EndSeen
  CodecRoundTrip
  ValuesTravel
PROPERTIES
  ShutdownIsQuiet
  DeliveredOnce
