\* Correctness of the wire client against an in-order server: no handle
\* confusion, registries in lockstep, releases reach the server, and the
\* connection implements the Object Registry.
CONSTANTS
  c1 = c1
  c2 = c2
  DebugBuild = FALSE
  NoGen = NoGen
  NoObject = NoObject
  Clients <- MCClients
  Active <- MCActive
  MaxIds <- MCMaxIds
  MaxObjects <- MCMaxObjects
  MaxRefs <- MCMaxRefs
  RefBits <- MCRefBits
  MaxArgs <- MCMaxArgs
  MaxInFlight <- MCMaxInFlight
SPECIFICATION Spec
INVARIANTS
  TypeOK
  ClientViewIsReplay
  LastReleaseFrees
PROPERTIES
  ResolvedAsMeant
  ReleaseReachesServer
  ImplementsObjectRegistry
\* The program stops once every object, contexts included, is released.
CHECK_DEADLOCK FALSE
