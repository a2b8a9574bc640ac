---------------------------- MODULE ObjectRegistry ----------------------------
(***************************************************************************)
(* The Object Registry of the specification, as the abstract state machine *)
(* of one registry per connection: an id is registered as a new object and *)
(* later freed; a freed id may be registered again, but only at a strictly *)
(* greater generation, so a handle of the old object can never resolve to *)
(* the new one ("ObjectHandle generation strictly increases on each reuse  *)
(* of a given id"; Unallocated -> Allocated -> Freed, never resurrected   *)
(* under the old generation).  A registry step changes one entry.         *)
(***************************************************************************)
EXTENDS Naturals

CONSTANTS
  Clients,    \* the connections
  Ids,        \* the ids of one allocator
  Uids,       \* the identities of the objects a client means
  NoObject    \* the identity of an id never registered

VARIABLE registry   \* c -> id -> [live, gen, uid]

\* At connection start every entry is at generation 0, and exactly the
\* entries registered with the connection (its context) are live.
Init ==
  /\ registry \in [Clients -> [Ids ->
        [live : BOOLEAN, gen : {0}, uid : Uids \cup {NoObject}]]]
  /\ \A c \in Clients, id \in Ids :
       registry[c][id].live <=> registry[c][id].uid # NoObject

\* Only the entry id of connection c changes, to new.
Only(c, id, new) == registry' = [registry EXCEPT ![c][id] = new]

\* Allocate: a free id takes a new object, at a generation no smaller than
\* the id's, and strictly greater if the id ever held an object.
Register(c, id) ==
  LET old == registry[c][id]
      new == registry'[c][id]
  IN  /\ ~old.live
      /\ new.live
      /\ new.uid \in Uids
      /\ new.gen \in Nat
      /\ new.gen >= old.gen
      /\ old.uid # NoObject => new.gen > old.gen
      /\ Only(c, id, new)

\* Free: a live id is released; its generation and last object stay.
Unregister(c, id) ==
  /\ registry[c][id].live
  /\ Only(c, id, [registry[c][id] EXCEPT !.live = FALSE])

Next == \E c \in Clients, id \in Ids : Register(c, id) \/ Unregister(c, id)

Spec == Init /\ [][Next]_registry

=============================================================================
