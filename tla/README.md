# TLA+ models of webnn-native's graph builder, wire client and examples

This directory checks, with TLC, the two parts of webnn-native that decide
whether a graph is correct before any backend sees it, and the example
programs that build real models with it:

- the graph builder (`src/src/webnn_native/GraphBuilder.cpp`), which validates
  every operator as it is created, poisons what depends on a failed one, and
  topologically sorts the graph on `Build`;
- the wire client (`src/generator/templates/webnn_wire/client/ApiProcs.cpp`,
  `src/src/webnn_wire/client/OperatorArray.cpp`), which replays the same API
  over a command stream to a server. It uses `{id, generation}` handles and a
  per-connection ownership guard;
- the examples (`src/examples/ResNet/ResNet.cpp`,
  `src/examples/MobileNetV2/MobileNetV2.cpp`), which load a model's weights
  from `.npy` files and build its graph layer by layer.

## The system and how its parts interact

| Part | Source | State | Operations |
|---|---|---|---|
| Graph builder | `GraphBuilder.cpp` 52-389 | the operands, each owned by an operator; each operator's inputs; the builder's error flag; the context's consumed error | one factory per operator kind (`Input`, `Constant`, `Relu`, `Add`, `BatchNorm`, `Concat`, `Split`, `Gru`, ...); `Build`/`BuildImpl` |
| Topological sorter | `GraphBuilder.cpp` 409-441 | the stack `nodesToDo`, the set `nodesDone`, `result` | one loop iteration |
| Operator validation | `ops/*.h` (`OperatorBase` is not in the repository) | — | `ValidateAndInferOutputInfo` |
| Wire client procs | `ApiProcs.cpp` | per object: id, generation, refcount; per connection: the command stream | `Client<Type><Method>`, `ClientCreateGraphBuilder`, `Release`, `Reference`, `OperatorArray::Size` |
| Object allocator, wire server | not in the repository (specification §4.1, §4.4) | per connection: a registry of id → generation, object | `New`, `Free`; replaying create, method and `DestroyObject` commands |
| Backends (DirectML, OpenVINO, NNAPI) | headers only | — | `AddToGraph`, `AddOutput`, `Finish`, `Compile` |
| Examples | `ResNet.cpp`, `MobileNetV2.cpp` | none of their own: the builder they fill | one helper per layer kind (`BuildConv`, `BuildBatchNorm`, bottlenecks, fires), one loader per layout |
| Node bindings, tests | `src/node`, `src/src/tests` | — | callers of the builder API |

How the parts interact:

- A factory builds an operator and validates it through `WEBNN_VALIDATE`.
  - On failure the context records the error and the call returns an *error
    operand*, which has no operator.
  - An operator with an error input fails validation in turn.
- `Build` hands the named outputs to `TopologicalSort`, then the backend steps.
  Any error becomes an error graph plus a context error.
- Over the wire, each client call first checks that every object argument
  belongs to the target's connection (`ClientMatches`).
  - If the check passes, the client allocates the result's handle and
    serializes a command. The server replays the commands in send order
    against its own registry.
  - If the check fails, the client returns an object the server never hears of.
  - The last `Release` of an object sends `DestroyObject{type, id}`.

## Modules

**`TopologicalSort`** models the sort loop, lines 409-441. It has one action
for each branch of one iteration:

| Action | Lines | What it does |
|---|---|---|
| `SortExpand` | 423-430, `can_add` false | pushes the operators of the inputs that are not done |
| `SortEmit` | 431-435 | appends the top, pops it and marks it done |
| `SortSkip` | 436-437 | pops a top that is already done |
| `SortBegin` | 411-420 | sets up the call |
| `SortReturn` | 440 | ends the call |

The graph (`operandOperator`, `operatorInputs`) and the argument `rootNodes`
are the caller's.

**`TopoSortSpec`** is the promise of the sort, in one step. If a root is an
error, the result is empty. Otherwise the result holds exactly the operators the
roots depend on (a RECURSIVE closure), each once, each after the producers of
its inputs. `GraphBuilder` instantiates it under the mapping

- `phase` = `"sorted"` once the loop has finished, else `"idle"`;
- `sorted` = `result` once the loop has finished, else `<<>>`,

and checks it as the property `SortImplementsSpec`.

**`GraphBuilder`** EXTENDS `TopologicalSort` and adds the builder.

- Every operand-creating factory of `GraphBuilderBase` is an action of the
  same name (`Max` and `Min` are `BinaryMax` and `BinaryMin`, because the
  community modules define `Max` and `Min`; the nine `Reduce*` factories,
  which differ only in their `ReduceType`, are one action `Reduce`).
  `CreateOperand` is their disjunction.
  - An action chooses its operand arguments, and `Factory` adds the operands its
    options structure may carry (`OptionOperands`: a conv bias, `Gemm`'s `c`,
    the scale and bias of `BatchNorm` and `InstanceNorm`). `Concat` takes 0 to
    `MaxConcatInputs` inputs, `Split` an array of up to `MaxOperands` outputs,
    and `Gru` one or two.
  - Each is `CreateOperator`, the `WEBNN_VALIDATE` macro. Either the operator
    and its outputs are appended, or the context error is set and the error
    operand is returned.
  - Which check fails is abstracted to a boolean, except for poisoning by an
    error input (`OperatorValidates`).
  - `ConstantWithGpuBuffer` depends on the constant `GpuBufferEnabled`
    (`WEBNN_ENABLE_GPU_BUFFER`). When it is set, the method is `Constant`.
    When it is not, the method reaches `UNREACHABLE()` and sets `aborted`,
    after which the builder takes no more calls.
- `Build` has three parts:
  - `BuildBegin` checks the builder and the named outputs, lines 357-366, and
    starts the sort.
  - `BuildSortStep` is the sort running inside it.
  - `BuildEnd` covers lines 367-389: the empty check, then each backend step
    may fail, then the result or the error graph.
- There is a single model value `ErrorOperand` for every error operand. They
  have no operator and no identity the code ever compares, so one stands for
  all.

**`WireConnection`** has one active application per connection, its client
(the object table is the allocator's view plus refcount), the command stream
(a sequence; FIFO), and the server's registry. Its actions:

| Action | Lines |
|---|---|
| `ClientCreate` | object-returning procs, 99-176, both the mismatch branch (136-137) and the send branch (148-168) |
| `ClientCall` | void procs |
| `ClientCreateGraphBuilder` | 225-237 |
| `OperatorArraySize` | `OperatorArray.cpp` 22-31 |
| `ClientRelease` | 180-194 |
| `ClientReference` | 196-199 |
| `ClientCreateUnreachable` | 239-257, the `UNREACHABLE()` creators |

- `OperatorArraySize` queues its command and then, when the constant
  `DebugBuild` is true, aborts the client at `DAWN_ASSERT(0)`. The creators of
  `NamedInputs`, `NamedOperands`, `NamedOutputs` and `OperatorArray` abort in
  every build: in a release build `UNREACHABLE()` is undefined behaviour, and
  aborting is one of its outcomes. An aborted client makes no more calls; the
  server still replays what it had queued.
- Since `ClientCreateOperatorArray` is `UNREACHABLE()`, the wire client never
  holds an `OperatorArray`. `OperatorArraySize` lets any live id be the
  target, which over-approximates the code.

- The refcount is kept at a width of `RefBits` bits: `Incr` and `Decr` are
  `refcount ++` and `refcount --` on an unsigned field. The field is
  declared in `ObjectBase`, which is not in the repository; upstream it is a
  `uint32_t`.
- A ghost `held` counts the references the application holds. `Release` is
  called on a reference it holds, and `Reference` takes one more, up to
  `MaxRefs`.

- Every object has a ghost `uid`, the object the client means. It is never
  transmitted; the properties use it to detect handle confusion.
- Two pieces are modelled from the specification because they are not in the
  repository, and are marked `spec_modelled` in `PROJECT.json`:
  - the allocator: lowest free id, with the generation bumped by `Free`;
  - the server: `Accepts` and `Replayed` are pure functions that say whether
    a command is accepted and what it does to a registry. `ServerCreate`,
    `ServerCall` and `ServerDestroy` apply them to the head of the stream. A
    command that fails to resolve is rejected and recorded in
    `dispatchError`.

**`ObjectRegistry`** is the abstract Object Registry of the specification, one
registry per connection. A step either registers a free id as a new object or
frees a live one. A freed id may be registered again, but only at a strictly
greater generation, so a handle of the old object never resolves to the new
one. `WireConnection` instantiates it as `Registry` under the mapping

- `registry[c]` = `FutureRegistry(c)`: the server's registry with every
  command still in flight on `c` already replayed (`FoldLeft` of `Replayed`).

A server step then changes nothing in the abstract state. A client `Create`
registers, and a last `Release` unregisters, at the moment it is called. The
property `ImplementsObjectRegistry` checks that the connection implements the
abstract specification.

**`ExampleGraph`** has the builder factories as pure operators on the part of
the graph one statement of a client program adds: `B = [base, opnd, ins,
files]`, where `base` operands existed before, `opnd` and `ins` extend
`GraphBuilder`'s `operandOperator` and `operatorInputs`, and `files` lists the
weight files read. Each factory is the success path of `WEBNN_VALIDATE`: it
appends one operator and its output operand, which `Out(B)` names.

- A path is the sequence of the parts the code concatenates. Each number is
  followed by a literal separator, so two paths are the same string exactly
  when they are the same sequence.
- Operands passed in an options structure (a conv bias, `BatchNorm`'s scale
  and bias, `Gemm`'s `c`) are further inputs of the operator. The operator
  constructors that push them are in `.cpp` files that are not in the
  repository; upstream they join the inputs in this order.
- A fused activation is a `FusionOperatorBase`, not an operand, and adds
  nothing.

**`ResNet`** and **`MobileNetV2`** translate every helper of the two examples,
each with its constant `mFused` (`--fused`); `MobileNetV2` also has `mLayout`.

- A helper (`BuildNhwcConv`, `BuildNchwBottlenectV2`, `BuildFire`, ...) is an
  operator from a graph to a graph. Its `LET` chain follows the code's
  statements, with every branch on `mFused`, `relu`, `downsample`, `shortcut`
  and `shouldAdd`.
- A loader (`LoadNCHW`, `LoadNHWC`, `LoadBatchNormNCHW`) is a sequence of
  statements `Stmt(kind, ...)`, one per helper call. ResNet's tail-recursive
  `loop` and MobileNetV2's `BuildFireMore` return the statements they make,
  with their own control: `num > 22`, and the `size() >= 9` and `== 12` tests.
- `Exec` runs one statement.

**`ExampleBuild`** composes the examples with `GraphBuilder`. An example is
chosen in `ExampleInit` (model, `--fused`, layout, `--softmax`). `LoadStmt` runs
the loader's statements one at a time on the builder's variables and records
the weight files read. Then `ExampleBuildBegin` calls `Build` with the last
operand as the only named output, and `GraphBuilder`'s sort and `BuildEnd` run.

- A statement refers only to the operand the statement before it returned
  and to the operands it creates. What it adds on a builder with `n` operands
  is therefore what it adds on an empty one, with every id shifted by `n`
  (`Shifted`). The table `Loaded` of these additions is computed once, before
  exploring. `ExampleInit` copies the chosen example's row into the variable
  `loader`, which `LoadStmt` reads.
- In the helpers, an input `Last` is the operand the previous call returned,
  and `Operand(B, k)` is the k-th operand created after `B`. Each graph of a
  `LET` chain is then named once by the step after it, which keeps TLC's
  evaluation linear in the length of the chain.
- The example mains and `ExampleBase` are not in the repository. The choice of
  loader and the `Build` call are modelled from the specification.

The MC modules give the constants values: `MCGraphBuilder`,
`MCWireConnection` and `MCExampleBuild`.

## Runs

| Run | Config | Checks | Result |
|---|---|---|---|
| `builder` | `MCGraphBuilder.cfg` | `TypeOK`, `ErrorOperandNeverSorted`, `CompiledGraphIsSound`, `BuildRefusesExactlyErrorOutputs`, `BuildReturns`, `SortImplementsSpec` | pass, about 395,000 states |
| `wire` | `MCWireConnection.cfg` | `TypeOK`, `ClientViewIsReplay`, `LastReleaseFrees`, `ResolvedAsMeant`, `ReleaseReachesServer`, `ImplementsObjectRegistry` | pass, about 87,000 states |
| `wire_poison` | `MCWireConnectionPoison.cfg` | `DestroyAlwaysAccepted` | violation |
| `wire_refwrap` | `MCWireConnectionRefWrap.cfg` | `LastReleaseFrees` | violation |
| `examples` | `MCExampleBuild.cfg` | `ExampleGraphFullyUsed`, `WeightFilesReadOnce`, `CompiledGraphIsSound`, `BuildReturns`, `SortImplementsSpec` | pass, about 12,400 states |

What the `builder` run shows:

- No error operand's null operator reaches the sort stack. This holds because
  validation poisons consumers of error operands.
- Every compiled graph lists each needed operator once, after its producers,
  and includes every output.
- `BuildRefusesExactlyErrorOutputs` (an action property): a `Build` that
  reaches the sort ends in "the graph can't be built" exactly when a named
  output is an error object. This is the specification's `Build` contract.
  It needs the sort's error-root test and its never returning an empty order
  for valid roots, as well as `BuildImpl`'s empty check.
- Every `Build` returns.
- The loop implements `TopoSortSpec`.

What the `wire` run shows:

- `ResolvedAsMeant` (an action property): every handle the server resolves is
  the object the client meant. This covers arguments, targets, and the id of a
  `DestroyObject`.
- `ClientViewIsReplay`: in every state, replaying the commands still in flight
  on the server's registry (with `FoldLeft` over `ReplayStep`) gives the
  client's view: every id's liveness, generation and identity agree, unless a
  command was rejected. When the stream is drained, this says the two
  registries are in lockstep. Before that, it says every allocation, `Release`
  and generation bump the client has made is already on the wire, in an order
  the server can apply. A client that frees an object without sending
  `DestroyObject` breaks it at once, not only once the stream drains.
- `LastReleaseFrees`: the allocator holds an object exactly while the
  application holds a reference to it, over any sequence of `Reference` and
  `Release` calls.
- `ReleaseReachesServer` (liveness): an entry the client has released leaves
  the server.
- `ImplementsObjectRegistry` (refinement): the wire connection implements
  `ObjectRegistry`. This is the one property about the generation across the
  reuse of an id. If `Free` does not bump the generation, every other property
  still holds, because client and server agree. But the server then
  registers the new object at the id's old generation, and the refinement
  fails.

The `wire_poison` run finds that releasing the object a mismatched call
returned makes the server reject a `DestroyObject`. The counterexample has
three steps:

1. `c1` creates an object with `c2`'s context as argument. This is a mismatch,
   so `c1` gets an unregistered object.
2. `c1` releases it.
3. The server replays `DestroyObject` for an id it never registered.

This is recorded as a finding (`spec_gap`). The code comment and the
specification say only that *using* such an object fails. They do not say what
its release does.

The `wire_refwrap` run gives the refcount one bit and lets the application
hold three references. `refcount ++` has no overflow check, so the count wraps:

1. `c1` references its context twice. The count goes 1, 0, 1 while the
   application holds 3 references.
2. `c1` releases one reference. The count drops to 0, so the client sends
   `DestroyObject` and frees the context while 2 references remain.

With the `uint32_t` field the same happens after 2^32 `Reference` calls on
one object. It is recorded as a finding (`code_bug`): the specification says
the last release triggers `Free` exactly once.

The model keeps the aborts the code has, in `ClientCreateUnreachable`,
`OperatorArraySize` and `ConstantWithGpuBuffer`, as steps after which the
process takes no more calls. No property states that they never happen: each
is one step from the initial state and only restates an `UNREACHABLE()` or a
`DAWN_ASSERT(0)`. The passing `wire` run takes the release build and includes
the aborts, so its properties hold for a client that dies part-way. The
`builder` run sets `GpuBufferEnabled` and so keeps its deadlock check.

What the `examples` run shows, for all 20 configurations at full size (a few
hundred operators each):

- `ExampleGraphFullyUsed`: every operator an example creates is in the
  compiled graph. No helper builds a layer and then returns or passes on the
  wrong operand.
- `WeightFilesReadOnce`: no weight file is read twice. The paths come from
  hand-written index lists and arithmetic: the `atoi(...) + 1` names of the
  NCHW bottleneck, the bound of `loop`, and the conv lists of MobileNetV2.
- The builder properties hold on these real graphs. In particular, the sort
  emits each of the hundreds of operators once, after its producers.

Each property of a passing run has a mutant in `PROJECT.json`: an operator
defined next to the definition it replaces, modelling a plausible bug. Under
the run's own configuration, TLC finds each one violated.

## Bounds

**`MCGraphBuilder`** uses 3 operands, 2 named outputs, 3 `Concat` inputs and
operators of up to 4 inputs when options add operands (so `BatchNorm` may take
one of its scale and bias). These are enough for:

- a diamond `x, f(x), g(x, f(x))`, where a shared input is pushed on two paths;
- a two-output `Split` or `Gru` whose outputs are both named, and a
  three-output `Split`;
- a `Concat` that repeats an input;
- an error root next to a valid one.

The error operand is always available, so a poisoned consumer can occur in
every state. With 4 operands the space grows past what TLC explores in
minutes.

**`MCWireConnection`** uses two connections, of which `c1` is active:

- 3 ids, so the context, a builder and an operand can be live at once;
- 3 allocations, the context's included, so an id is freed and handed out
  again at the next generation, and two objects besides the context can be
  live at once. With 4 the run takes over three minutes without coverage;
  every mutant is caught at 3;
- up to 2 references held per object, with a 2-bit refcount that therefore
  never wraps (`wire_refwrap` is the run where it does);
- one object argument, and 2 commands in flight, so a
  `DestroyObject` and the create that reuses its id can both be queued.

The other connection (`c2`) holds only its context. A connection sees another
connection only through `ClientMatches`, which compares the argument's
connection and nothing else about it. So any foreign object leads to the same
branch, and a second active application would only multiply the space by
interleavings that do not interact. (Measured: two active connections exceed
27 million states.)

**`MCExampleBuild`** has no bound to choose: the examples' graphs are fixed by
their code, so all 20 configurations run in full. Only `MaxOperands` must be
above the largest graph (2000). The one other nondeterministic choice, which
backend step fails, comes from `GraphBuilder`.

## Fairness

| Module | Fairness | Why the code justifies it |
|---|---|---|
| `GraphBuilder` | weak fairness on `BuildSortStep` and `BuildEnd` | `Build` is one synchronous call: once it has started, the loop and the backend steps run to the end without waiting on anything |
| `ExampleBuild` | weak fairness on `ExampleNext` | an example is one thread making synchronous calls, from loading to `Build` |
| `WireConnection` | weak fairness on each connection's server step | the server's command loop handles every command that has arrived, in send order |

Nothing is assumed of the application, which may stop at any time. In the wire
model, a state where every object has been released is a real end. That run
therefore does not check deadlock.

## What is not modelled

- The backends are external. Only which backend step fails is modelled.
- Numeric shape inference of each operator kind is a nondeterministic pass or
  fail, because its formulas are in `.cpp` files that are not in the
  repository.
- The fusion-activation factories (`ClampOperator`, `ReluOperator`, ...) change
  no builder state.
- Command encoding and decoding (byte layout, the round trip) are pure
  functions of data the model abstracts.
- The node bindings and the tests only call the API.
- The examples' `ParseAndCheckExampleOptions` only sets preprocessing data
  (labels, image size, mean, std), and their `main` and `ExampleBase` are not
  in the repository. Tensor shapes and the weights' values are data the
  properties do not tell apart.
- Thread-safety is a caller obligation: the specification makes a connection
  single-threaded and says reference counts need not be atomic, so concurrent
  `Release` calls are not a behaviour of the system.

## Plan for later work

1. Give the wire server the operator calls, by replaying create commands into
   a `GraphBuilder` per connection. The server is not in the repository, and
   `Build` cannot be reached over the wire: its `NamedOperands` can only be
   made by `ClientCreateNamedOperands`, which is `UNREACHABLE()`. So this
   would check operand creation end to end, and little that
   `ClientViewIsReplay` does not already say.
2. Model the generation width with `% 2^w` at a small `w`. The client only
   sends handles of live objects; generation-tagged handles are checked in
   `ObjectRegistry`. A wrap matters only for a handle the application keeps
   after its last `Release`, which is a use after free by the caller.
3. Model the fusion-activation objects, if a property about them arises.
4. Add a second object type to the wire model, to show that ids of different
   types never meet.
