------------------------- MODULE MCWireConnection -------------------------
(***************************************************************************)
(* Two connections, three ids each (the context and two more), up to three*)
(* allocations per connection so that an id is freed and handed out again *)
(* at a new generation, two references per object and one object argument *)
(* per call, enough to pass an object to a call on the other connection.  *)
(* A two-bit refcount stands for the uint32_t: it never wraps while the    *)
(* application holds at most MaxRefs < 2^RefBits references.               *)
(***************************************************************************)
EXTENDS WireConnection

CONSTANTS c1, c2

MCClients == {c1, c2}
MCActive == {c1}
MCMaxIds == 3
MCMaxObjects == 3
MCMaxRefs == 2
MCRefBits == 2
MCMaxArgs == 1
MCMaxInFlight == 2

=============================================================================
