\* DestroyObject sent by the last Release of an object the client
\* pre-poisoned after a connection mismatch.
CONSTANTS
  c1 = c1
  c2 = c2
  DebugBuild = FALSE
  NoGen = NoGen
  NoObject = NoObject
  Clients <- MCClients
  Active <- MCActive
  MaxIds <- MCMaxIds
  MaxObjects <- MCMaxObjects
  MaxRefs <- MCMaxRefs
  RefBits <- MCRefBits
  MaxArgs <- MCMaxArgs
  MaxInFlight <- MCMaxInFlight
SPECIFICATION Spec
INVARIANT
  DestroyAlwaysAccepted
CHECK_DEADLOCK FALSE
