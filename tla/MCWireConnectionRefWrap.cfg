\* An application that holds 2^RefBits + 1 references to one object: the
\* refcount wraps to 0 on a Reference, so a later Release that is not the
\* last one frees the object.  One refcount bit stands for the 32 of the
\* uint32_t, which wraps the same way after 2^32 References.
CONSTANTS
  c1 = c1
  c2 = c2
  DebugBuild = FALSE
  NoGen = NoGen
  NoObject = NoObject
  Clients <- MCClients
  Active <- MCActive
  MaxIds <- MCMaxIds
  MaxObjects <- MCMaxObjects
  MaxRefs = 3
  RefBits = 1
  MaxArgs <- MCMaxArgs
  MaxInFlight <- MCMaxInFlight
SPECIFICATION Spec
INVARIANT
  LastReleaseFrees
CHECK_DEADLOCK FALSE
