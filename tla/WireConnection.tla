--------------------------- MODULE WireConnection ---------------------------
(***************************************************************************)
(* The wire client of generator/templates/webnn_wire/client/ApiProcs.cpp  *)
(* and client/OperatorArray.cpp, talking to the wire server over one       *)
(* in-order command stream per connection.  Every client owns an object   *)
(* allocator of {id, generation} handles; the server keeps a registry per *)
(* connection that it updates as it replays the commands.  The allocator   *)
(* and the server are not in the repository and are modelled from the     *)
(* specification (Object Registry, Wire Command Codec).                   *)
(*                                                                         *)
(* All object types share one allocator here: ids of different types     *)
(* never meet, because DestroyObject and every handle carry their type.   *)
(* Every client starts with its context at id 1, known to both sides.     *)
(* Each object carries a ghost uid, the identity the client means; the    *)
(* wire never transmits it.                                               *)
(***************************************************************************)
EXTENDS Naturals, Sequences, SequencesExt

CONSTANTS
  Clients,        \* the connections (webnn_wire::client::Client objects)
  Active,         \* the connections whose application makes calls
  MaxIds,         \* ids 1..MaxIds per allocator
  MaxObjects,     \* objects a client may allocate, its context included
  MaxRefs,        \* bound on the references the application holds
  RefBits,        \* width of the refcount field (uint32_t: 32)
  MaxArgs,        \* object arguments per call
  MaxInFlight,    \* commands serialized and not yet handled, per connection
  DebugBuild,     \* DAWN_ASSERT is compiled in
  NoGen,          \* a handle sent by id alone (cmd.context, operatorArrayId)
  NoObject        \* the uid of an id never allocated

ASSUME Active \subseteq Clients /\ DebugBuild \in BOOLEAN
ASSUME MaxIds >= 2 /\ MaxObjects >= 2 /\ MaxRefs >= 1 /\ MaxArgs >= 1
       /\ RefBits >= 1
       /\ MaxInFlight >= 1

VARIABLES
  clientObj,      \* c -> id -> [live, gen, refcount, uid, registered]
  nextUid,        \* c -> the count of objects c allocated (ghost)
  channel,        \* c -> the commands serialized and not yet handled
  serverObj,      \* c -> id -> [live, gen, uid]: the server's registry
  dispatchError,  \* c -> the kinds of command the server rejected
  held,           \* c -> id -> references the application holds (ghost)
  aborted         \* c -> the client process has aborted

vars == <<clientObj, nextUid, channel, serverObj, dispatchError, held, aborted>>

Ids == 1..MaxIds
Uids == Clients \X (0..MaxObjects)
ContextId == 1
Objects == Clients \X Ids          \* <<client, id>>: a client-side pointer

Handle(c, id) == [id |-> id, gen |-> clientObj[c][id].gen,
                  uid |-> clientObj[c][id].uid]

Live(c) == {id \in Ids : clientObj[c][id].live}

\* refcount ++ and refcount -- on an unsigned field of RefBits bits.
RefMod == 2 ^ RefBits
Incr(n) == (n + 1) % RefMod
Decr(n) == (n + RefMod - 1) % RefMod

\* ObjectAllocator::New: the lowest free id, at the generation its last
\* Free left it at.
FreeIds(c) == Ids \ Live(c)
NewId(c) == CHOOSE i \in FreeIds(c) : \A j \in FreeIds(c) : i <= j
CanAllocate(c) == FreeIds(c) # {} /\ nextUid[c] < MaxObjects

Allocate(c, id, registered) ==
  /\ clientObj' = [clientObj EXCEPT ![c][id] =
        [@ EXCEPT !.live = TRUE, !.refcount = 1,
                  !.uid = <<c, nextUid[c]>>, !.registered = registered]]
  /\ nextUid' = [nextUid EXCEPT ![c] = @ + 1]
  /\ held' = [held EXCEPT ![c][id] = 1]

\* Mutant of ClientMatches: no argument is checked.
ClientMatchesNone(c, args) == TRUE

\* ClientMatches over the object arguments of a call (lines 38-83, 113-127):
\* every argument belongs to the connection of the call's target.  Absent
\* optional arguments are not in args.
ClientMatches(c, args) == \A i \in DOMAIN args : args[i][1] = c

\* Client::SerializeCommand; the model bounds the commands in flight.
Send(c, cmd) ==
  /\ Len(channel[c]) < MaxInFlight
  /\ channel' = [channel EXCEPT ![c] = Append(@, cmd)]

ArgHandles(args) == [i \in DOMAIN args |-> Handle(args[i][1], args[i][2])]

\* The argument lists a call may take: live objects of any connection.
ArgLists == UNION {[1..n -> Objects] : n \in 0..MaxArgs}
LiveArgs(args) == \A i \in DOMAIN args : args[i][2] \in Live(args[i][1])

\* Mutant of ClientCreate: the result handle carries the generation the id
\* had before its last Free.
ClientCreateStaleGen(c, self, args) ==
  LET id == NewId(c) IN
  /\ self \in Live(c) /\ LiveArgs(args) /\ CanAllocate(c)
  /\ Allocate(c, id, TRUE)
  /\ Send(c, [kind |-> "create", self |-> Handle(c, self),
              args |-> ArgHandles(args),
              result |-> [id |-> id, gen |-> clientObj[c][id].gen - 1,
                          uid |-> <<c, nextUid[c]>>]])
  /\ UNCHANGED <<serverObj, dispatchError>>

\* Client<Type><Method> for a method returning an object (lines 99-176):
\* on a connection mismatch an object is allocated that the server never
\* hears of and nothing is sent; otherwise the result handle is allocated
\* and the command carrying it is serialized.
ClientCreate(c, self, args) ==
  LET id == NewId(c) IN
  /\ self \in Live(c) /\ LiveArgs(args) /\ CanAllocate(c)
  /\ IF ClientMatches(c, args)
       THEN /\ Allocate(c, id, TRUE)
            /\ Send(c, [kind |-> "create", self |-> Handle(c, self),
                        args |-> ArgHandles(args),
                        result |-> [id |-> id, gen |-> clientObj[c][id].gen,
                                    uid |-> <<c, nextUid[c]>>]])
       ELSE /\ Allocate(c, id, FALSE)
            /\ UNCHANGED channel
  /\ UNCHANGED <<serverObj, dispatchError>>

\* Client<Type><Method> for a void method (lines 99-176): on a mismatch it
\* returns; otherwise the command is serialized.
ClientCall(c, self, args) ==
  /\ self \in Live(c) /\ LiveArgs(args)
  /\ ClientMatches(c, args)
  /\ Send(c, [kind |-> "call", self |-> Handle(c, self),
              args |-> ArgHandles(args)])
  /\ UNCHANGED <<clientObj, nextUid, serverObj, dispatchError, held>>

\* ClientCreateGraphBuilder (lines 225-237): no argument to check; the
\* context is sent by id alone.
ClientCreateGraphBuilder(c) ==
  LET id == NewId(c) IN
  /\ ContextId \in Live(c) /\ CanAllocate(c)
  /\ Allocate(c, id, TRUE)
  /\ Send(c, [kind |-> "create",
              self |-> [Handle(c, ContextId) EXCEPT !.gen = NoGen],
              args |-> <<>>,
              result |-> [id |-> id, gen |-> clientObj[c][id].gen,
                          uid |-> <<c, nextUid[c]>>]])
  /\ UNCHANGED <<serverObj, dispatchError>>

\* OperatorArray::Size (OperatorArray.cpp lines 22-31): the command names
\* the array by id alone and is queued; then DAWN_ASSERT(0) aborts a debug
\* build, while a release build, where it is compiled out, returns 0 and
\* goes on.
OperatorArraySize(c, self) ==
  /\ self \in Live(c)
  /\ Send(c, [kind |-> "call", self |-> [Handle(c, self) EXCEPT !.gen = NoGen],
              args |-> <<>>])
  /\ aborted' = [aborted EXCEPT ![c] = DebugBuild]
  /\ UNCHANGED <<clientObj, nextUid, serverObj, dispatchError, held>>

\* ClientCreateNamedInputs, ClientCreateNamedOperands, ClientCreateNamedOutputs
\* and ClientCreateOperatorArray (lines 239-257) are UNREACHABLE(): a debug
\* build aborts; in a release build reaching it is undefined behaviour, of
\* which aborting is one outcome (returning nullptr changes nothing).
ClientCreateUnreachable(c) ==
  /\ aborted' = [aborted EXCEPT ![c] = TRUE]
  /\ UNCHANGED <<clientObj, nextUid, channel, serverObj, dispatchError, held>>

\* The application gives up one of the references it holds to id.
Unhold(c, id) ==
  /\ held[c][id] > 0
  /\ held' = [held EXCEPT ![c][id] = @ - 1]

\* Mutant of Freed: the generation is not bumped.
FreedNoBump(o) == [o EXCEPT !.live = FALSE, !.refcount = 0]

\* The entry freed by ObjectAllocator::Free, its generation bumped.
Freed(o) == [o EXCEPT !.live = FALSE, !.refcount = 0, !.gen = @ + 1]

\* Mutant of ClientRelease: the allocator entry is freed but no
\* DestroyObject is serialized.
ClientReleaseNoDestroy(c, id) ==
  LET o == clientObj[c][id] IN
  /\ Unhold(c, id)
  /\ IF Decr(o.refcount) > 0
       THEN clientObj' = [clientObj EXCEPT ![c][id].refcount = Decr(@)]
       ELSE clientObj' = [clientObj EXCEPT ![c][id] = Freed(@)]
  /\ UNCHANGED <<nextUid, channel, serverObj, dispatchError>>

\* Mutant of ClientRelease: the count is tested before the decrement.
ClientReleaseOffByOne(c, id) ==
  LET o == clientObj[c][id] IN
  /\ Unhold(c, id)
  /\ IF o.refcount > 0
       THEN /\ clientObj' = [clientObj EXCEPT ![c][id].refcount = Decr(@)]
            /\ UNCHANGED channel
       ELSE /\ clientObj' = [clientObj EXCEPT ![c][id] = Freed(@)]
            /\ Send(c, [kind |-> "destroy", args |-> <<>>,
                        self |-> [id |-> id, gen |-> NoGen, uid |-> o.uid]])
  /\ UNCHANGED <<nextUid, serverObj, dispatchError>>

\* Client<Type>Release (lines 180-194), called by the application on a
\* reference it holds: refcount -- on the unsigned field; while it stays
\* above 0 nothing else happens, otherwise DestroyObject{type, id} (no
\* generation) is serialized and the id freed, bumping the generation its
\* next allocation gets.
ClientRelease(c, id) ==
  LET o == clientObj[c][id] IN
  /\ Unhold(c, id)
  /\ IF Decr(o.refcount) > 0
       THEN /\ clientObj' = [clientObj EXCEPT ![c][id].refcount = Decr(@)]
            /\ UNCHANGED channel
       ELSE /\ clientObj' = [clientObj EXCEPT ![c][id] = Freed(@)]
            /\ Send(c, [kind |-> "destroy", args |-> <<>>,
                        self |-> [id |-> id, gen |-> NoGen, uid |-> o.uid]])
  /\ UNCHANGED <<nextUid, serverObj, dispatchError>>

\* Client<Type>Reference (lines 196-199): refcount ++, unchecked; the
\* application takes one more reference, up to the model's bound.
ClientReference(c, id) ==
  /\ held[c][id] \in 1..(MaxRefs - 1)
  /\ clientObj' = [clientObj EXCEPT ![c][id].refcount = Incr(@)]
  /\ held' = [held EXCEPT ![c][id] = @ + 1]
  /\ UNCHANGED <<nextUid, channel, serverObj, dispatchError>>


-----------------------------------------------------------------------------
(* The wire server, replaying one connection's commands in send order.    *)

\* Resolve: an entry of the registry reg that is live, at the handle's
\* generation unless the handle was sent by id alone.
Resolves(reg, h) ==
  /\ reg[h.id].live
  /\ h.gen = NoGen \/ reg[h.id].gen = h.gen

CmdHandles(cmd) == <<cmd.self>> \o cmd.args

AllResolve(reg, cmd) ==
  \A i \in DOMAIN CmdHandles(cmd) : Resolves(reg, CmdHandles(cmd)[i])

\* Whether the server's dispatch accepts cmd against the registry reg: every
\* handle resolves, a create's result id is free, a destroyed id is known.
Accepts(reg, cmd) ==
  CASE cmd.kind = "create"  -> AllResolve(reg, cmd) /\ ~reg[cmd.result.id].live
    [] cmd.kind = "call"    -> AllResolve(reg, cmd)
    [] cmd.kind = "destroy" -> reg[cmd.self.id].live

\* The registry after the server replays cmd: a create registers its result
\* under the id the client chose, DestroyObject frees the entry, a method
\* leaves the registry alone (the graph state it changes is GraphBuilder's);
\* a rejected command changes nothing.
Replayed(reg, cmd) ==
  IF ~Accepts(reg, cmd) THEN reg
  ELSE CASE cmd.kind = "create"  ->
              [reg EXCEPT ![cmd.result.id] = [live |-> TRUE,
                  gen |-> cmd.result.gen, uid |-> cmd.result.uid]]
         [] cmd.kind = "destroy" -> [reg EXCEPT ![cmd.self.id].live = FALSE]
         [] cmd.kind = "call"    -> reg

\* Server::HandleCommands on the head of the stream, of the given kind: the
\* command is consumed and replayed, or rejected and recorded.
Receive(c, kind) ==
  LET cmd == Head(channel[c]) IN
  /\ channel[c] # <<>>
  /\ cmd.kind = kind
  /\ channel' = [channel EXCEPT ![c] = Tail(@)]
  /\ serverObj' = [serverObj EXCEPT ![c] = Replayed(@, cmd)]
  /\ dispatchError' =
       IF Accepts(serverObj[c], cmd) THEN dispatchError
       ELSE [dispatchError EXCEPT ![c] = @ \cup {kind}]
  /\ UNCHANGED <<clientObj, nextUid, held>>

\* An object-creating command.
ServerCreate(c) == Receive(c, "create")

\* Any other method.
ServerCall(c) == Receive(c, "call")

\* DestroyObject{type, id}.
ServerDestroy(c) == Receive(c, "destroy")

-----------------------------------------------------------------------------

Fresh(c, id) ==
  IF id = ContextId
    THEN [live |-> TRUE, gen |-> 0, refcount |-> 1, uid |-> <<c, 0>>,
          registered |-> TRUE]
    ELSE [live |-> FALSE, gen |-> 0, refcount |-> 0, uid |-> NoObject,
          registered |-> FALSE]

Init ==
  /\ clientObj = [c \in Clients |-> [id \in Ids |-> Fresh(c, id)]]
  /\ nextUid = [c \in Clients |-> 1]
  /\ channel = [c \in Clients |-> <<>>]
  /\ serverObj = [c \in Clients |-> [id \in Ids |->
        [live |-> id = ContextId, gen |-> 0, uid |-> Fresh(c, id).uid]]]
  /\ dispatchError = [c \in Clients |-> {}]
  /\ held = [c \in Clients |-> [id \in Ids |-> Fresh(c, id).refcount]]
  /\ aborted = [c \in Clients |-> FALSE]

\* The application's calls, until its process aborts.
ClientStep(c) ==
  /\ ~aborted[c]
  /\ \/ /\ \/ \E self \in Ids, args \in ArgLists :
              ClientCreate(c, self, args) \/ ClientCall(c, self, args)
           \/ ClientCreateGraphBuilder(c)
           \/ \E id \in Ids : ClientRelease(c, id) \/ ClientReference(c, id)
        /\ UNCHANGED aborted
     \/ \E self \in Ids : OperatorArraySize(c, self)
     \/ ClientCreateUnreachable(c)

\* The server replays what was queued, whether or not the client is alive.
ServerStep(c) ==
  /\ ServerCreate(c) \/ ServerCall(c) \/ ServerDestroy(c)
  /\ UNCHANGED aborted

Next == \E c \in Active : ClientStep(c) \/ ServerStep(c)

\* The server's command loop handles whatever has arrived.
Fairness == \A c \in Clients : WF_vars(ServerStep(c))

Spec == Init /\ [][Next]_vars /\ Fairness

-----------------------------------------------------------------------------

Gens == 0..MaxObjects
Handles == [id : Ids, gen : Gens \cup {NoGen}, uid : Uids \cup {NoObject}]
Commands ==
  [kind : {"create"}, self : Handles, args : Seq(Handles), result : Handles]
  \cup [kind : {"call", "destroy"}, self : Handles, args : Seq(Handles)]

TypeOK ==
  /\ clientObj \in [Clients -> [Ids -> [live : BOOLEAN, gen : Gens,
        refcount : 0..(RefMod - 1), uid : Uids \cup {NoObject},
        registered : BOOLEAN]]]
  /\ nextUid \in [Clients -> 1..MaxObjects]
  /\ channel \in [Clients -> Seq(Commands)]
  /\ serverObj \in [Clients -> [Ids -> [live : BOOLEAN, gen : Gens,
        uid : Uids \cup {NoObject}]]]
  /\ dispatchError \in [Clients -> SUBSET {"create", "call", "destroy"}]
  /\ held \in [Clients -> [Ids -> 0..MaxRefs]]
  /\ aborted \in [Clients -> BOOLEAN]

\* Handle confusion: whenever the server resolves a handle of a command it
\* replays (an argument, the target, or the id of a DestroyObject), the
\* entry it finds is the object the client meant.  Breaks if a call mixes
\* objects of two connections past ClientMatches, or ids get out of step.
ResolvedAsMeant ==
  [][\A c \in Clients :
       (channel[c] # <<>> /\ channel'[c] = Tail(channel[c])) =>
         LET hs == CmdHandles(Head(channel[c])) IN
         \A i \in DOMAIN hs :
           Resolves(serverObj[c], hs[i]) =>
             serverObj[c][hs[i].id].uid = hs[i].uid]_vars

\* The server registry reg agrees with the client's allocators of c: it
\* holds exactly the objects the client holds and registered, each at the
\* same id, generation and identity.
Agree(c, reg) ==
  \A id \in Ids :
    LET s == reg[id]
        o == clientObj[c][id]
    IN  /\ s.live <=> (o.live /\ o.registered)
        /\ s.live => (s.gen = o.gen /\ s.uid = o.uid)

\* One command of a replay: the registry after it, and whether every command
\* so far was accepted.
ReplayStep(acc, cmd) == <<Replayed(acc[1], cmd), acc[2] /\ Accepts(acc[1], cmd)>>

\* The client's view is the server's future: at every moment, replaying the
\* commands still in flight on the server's registry, if neither they nor
\* any command before them is rejected, yields exactly what the client's
\* allocators hold.  At a drained stream this is lockstep of the two
\* registries; in between it says every id, generation and Release the
\* client has acted on is already on the wire, in an order the server can
\* apply.
ClientViewIsReplay ==
  \A c \in Clients :
    LET r == FoldLeft(ReplayStep, <<serverObj[c], dispatchError[c] = {}>>,
                      channel[c])
    IN  r[2] => Agree(c, r[1])

\* The registry the server of c will hold once it has replayed every
\* command in flight.
FutureRegistry(c) == FoldLeft(Replayed, serverObj[c], channel[c])

Registry == INSTANCE ObjectRegistry
  WITH registry <- [c \in Clients |-> FutureRegistry(c)]

\* The connection implements the specification's Object Registry: seen
\* through the commands already on the wire, each server registry only
\* registers a free id or frees a live one, and an id is registered again
\* only at a strictly greater generation.  It rests on ObjectAllocator::Free
\* (reached from Release, line 193) bumping the generation, on the result
\* handle of every create (line 157) carrying the id's current generation,
\* and on DestroyObject (line 188-192) reaching the server before the id's
\* next create.
ImplementsObjectRegistry == Registry!Spec

\* A server entry for an object the client no longer holds at that id.
StaleEntry(c, id) ==
  /\ serverObj[c][id].live
  /\ ~(clientObj[c][id].live /\ clientObj[c][id].uid = serverObj[c][id].uid)

\* Release reaches the server: an entry for an object the client has let go
\* of (its last Release) is eventually dropped from the server's registry.
ReleaseReachesServer ==
  \A c \in Clients, id \in Ids : StaleEntry(c, id) ~> ~StaleEntry(c, id)

\* The last Release frees, and only it: the client's allocator keeps an
\* object exactly while the application still holds a reference to it, over
\* any sequence of Reference and Release calls (refcount ++ and -- on a
\* fixed-width field, ClientRelease's test after the decrement).
LastReleaseFrees ==
  \A c \in Clients, id \in Ids : clientObj[c][id].live <=> held[c][id] > 0

\* DestroyObject is never rejected: the last Release of any object the
\* client handed out names an entry the server knows.
DestroyAlwaysAccepted == \A c \in Clients : "destroy" \notin dispatchError[c]

=============================================================================
