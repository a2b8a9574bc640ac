---------------------------- MODULE ExampleBuild ----------------------------
(***************************************************************************)
(* The example programs composed with the graph builder.  Each example    *)
(* main loads one model (ResNet or MobileNetV2, in one of its layouts,    *)
(* fused or not, with or without the final Softmax) and then calls Build  *)
(* with the returned operand as its only named output.  The graph the     *)
(* loader built is the builder's state when Build begins; Build then runs  *)
(* GraphBuilder's BuildBegin, the sort loop step by step, and BuildEnd.   *)
(***************************************************************************)
EXTENDS GraphBuilder

VARIABLES
  example,               \* the model, --fused, the layout and softmax
  loader,                \* what each statement of its loader adds
  pc,                    \* the next statement of the loader to run
  weightFiles            \* the paths npy_load has read, in order

exampleVars == <<example, loader, pc, weightFiles>>
allVars == <<vars, exampleVars>>

RN(f) == INSTANCE ResNet WITH mFused <- f
MN(f, l) == INSTANCE MobileNetV2 WITH mFused <- f, mLayout <- l
EG == INSTANCE ExampleGraph

\* The options an example main accepts that change the graph.
Examples ==
  {[model |-> "ResNet", fused |-> f, layout |-> l, softmax |-> s] :
     f \in BOOLEAN, l \in RN(FALSE)!Layouts, s \in BOOLEAN}
  \cup
  {[model |-> "MobileNetV2", fused |-> f, layout |-> l, softmax |-> s] :
     f \in BOOLEAN, l \in MN(FALSE, "nchw")!Layouts, s \in BOOLEAN}

Program(e) ==
  IF e.model = "ResNet" THEN RN(FALSE)!Program(e.layout, e.softmax)
                        ELSE MN(FALSE, "nchw")!Program(e.layout, e.softmax)

\* What statement st of example e adds to a builder holding n operands.
\* The batch-norm variant runs with mLayout "nchw".
StmtGraph(e, st, n) ==
  IF e.model = "ResNet"
    THEN RN(e.fused)!Exec(EG!From(n), st)
    ELSE MN(e.fused, IF e.layout = "nhwc" THEN "nhwc" ELSE "nchw")!Exec(EG!From(n), st)

\* For every example, what each statement of its loader adds to a builder
\* holding no operand.  A statement only refers to the operand the one
\* before it returned and to those it creates itself, so on a builder with
\* n operands it adds the same, with every operand id shifted by n.
Loaded ==
  [e \in Examples |->
     LET p == Program(e) IN [k \in DOMAIN p |-> StmtGraph(e, p[k], 0)]]

\* Operand ids x of a statement's additions on a builder with n operands.
Shifted(ids, n) == [i \in DOMAIN ids |-> ids[i] + n]

\* The example has parsed its options and created a context and a builder;
\* nothing is built yet.
ExampleInit ==
  /\ example \in Examples
  /\ loader = Loaded[example]
  /\ pc = 1
  /\ weightFiles = <<>>
  /\ operandOperator = <<>>
  /\ operatorInputs = <<>>
  /\ SortInit
  /\ isErrorBuilder = FALSE
  /\ contextError = FALSE
  /\ graph = ErrorGraph("none")
  /\ aborted = FALSE

\* The loader runs its next statement st on the builder.
Load(st) ==
  /\ operandOperator' =
       operandOperator \o Shifted(st.opnd, Len(operandOperator))
  /\ operatorInputs' =
       operatorInputs \o [o \in DOMAIN st.ins |-> Shifted(st.ins[o], Len(operandOperator))]
  /\ weightFiles' = weightFiles \o st.files
  /\ pc' = pc + 1
  /\ UNCHANGED <<rootNodes, nodesToDo, nodesDone, result, sortPc,
                 isErrorBuilder, aborted, contextError, graph, example, loader>>

LoadStmt ==
  /\ pc <= Len(loader)
  /\ Load(loader[pc])

\* builder.Build({{"output", output}}) once the loader has returned: the
\* operand it returned, the last one created, is the one named output.
ExampleBuildBegin ==
  /\ pc = Len(loader) + 1
  /\ graph.status = "none"
  /\ BuildBegin(<<Len(operandOperator)>>)
  /\ UNCHANGED exampleVars

ExampleNext ==
  \/ LoadStmt
  \/ ExampleBuildBegin
  \/ BuildSortStep /\ UNCHANGED exampleVars
  \/ BuildEnd /\ UNCHANGED exampleVars

\* The example is one thread making synchronous calls, so every step it can
\* take it eventually takes.
ExampleSpec ==
  /\ ExampleInit /\ [][ExampleNext]_allVars
  /\ WF_allVars(ExampleNext)

\* Every operator an example creates -- every weight file it loads and every
\* layer it adds -- is among the operators a compiled graph was given: no
\* helper of ResNet.cpp or MobileNetV2.cpp builds a layer and then drops it
\* by returning or passing on the wrong operand.
ExampleGraphFullyUsed ==
  graph.status = "compiled" => Range(graph.ops) = OperatorIds

\* No example reads a weight file twice: every BuildConstantFromNpy call of
\* a loader builds a path that no earlier call built, so no two layers are
\* given the same weights (leaving the file meant for one of them unread).
\* The paths come from name indices computed by hand (atoi(...) + 1, the
\* unit counter of ResNet's loop, the conv index lists of MobileNetV2).
WeightFilesReadOnce ==
  Cardinality(Range(weightFiles)) = Len(weightFiles)

=============================================================================
