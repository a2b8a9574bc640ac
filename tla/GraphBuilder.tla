----------------------------- MODULE GraphBuilder -----------------------------
(***************************************************************************)
(* GraphBuilderBase (src/webnn_native/GraphBuilder.cpp): one factory call *)
(* per operator kind, each running ValidateAndInferOutputInfo at once and *)
(* handing back an error operand on failure, and Build, which sorts the    *)
(* operators the named outputs depend on and hands them to the backend.   *)
(*                                                                         *)
(* Operands and operators are numbered in creation order.  An operand is  *)
(* either an output of an operator or an error object (OperandBase::      *)
(* MakeError), which has no operator.  Operator kinds are abstracted to    *)
(* their number of inputs and outputs; shape and option checks to a       *)
(* nondeterministic verdict.  Build runs the TopologicalSort loop step by *)
(* step while no other call can run (the call is synchronous).            *)
(***************************************************************************)
EXTENDS TopologicalSort

CONSTANTS
  MaxOperands,           \* bound on the operands created in a behaviour
  MaxNamedOutputs,       \* bound on the records of one NamedOperands
  MaxConcatInputs,       \* bound on inputsCount of one Concat
  MaxOperatorInputs,     \* bound on the inputs of an operator with options
  GpuBufferEnabled       \* WEBNN_ENABLE_GPU_BUFFER is defined

ASSUME MaxOperands \in Nat /\ MaxNamedOutputs \in Nat \ {0}
ASSUME MaxConcatInputs \in Nat \ {0} /\ MaxOperatorInputs \in Nat
ASSUME GpuBufferEnabled \in BOOLEAN

VARIABLES
  isErrorBuilder,        \* this->IsError() of the GraphBuilderBase
  contextError,          \* an error was consumed by the context
  graph,                 \* what the last Build returned
  aborted                \* the process has aborted

vars == <<operandOperator, operatorInputs, rootNodes, nodesToDo, nodesDone,
          result, sortPc, isErrorBuilder, contextError, graph, aborted>>

Operands == 1..Len(operandOperator) \cup {ErrorOperand}

\* What GraphBase::AddToGraph, AddOutput, Finish and Compile may report; the
\* backend is an external collaborator, so each step may fail.
BackendResults ==
  {"compiled", "addToGraphFailed", "addOutputFailed", "finishFailed", "compileFailed"}

BuildStatus ==
  BackendResults \cup {"none", "builderError", "emptyOutputs", "cannotBuild"}

\* GraphBase::MakeError: a graph with nothing added.
ErrorGraph(status) == [status |-> status, ops |-> <<>>, outputs |-> <<>>]

(***************************************************************************)
(* Operator creation.                                                      *)
(***************************************************************************)

\* Mutant of OperatorValidates: an error input does not poison the operator.
OperatorValidatesUnpoisoned(ins, checksPass) == checksPass

\* OperatorBase::ValidateAndInferOutputInfo, called by every kind before its
\* own checks (not under src/): an error input makes the operator an error
\* without running the kind's checks; otherwise the kind's checks decide.
OperatorValidates(ins, checksPass) ==
  /\ \A i \in DOMAIN ins : ~IsErrorOperand(ins[i])
  /\ checksPass

\* Mutant of CreateOperator: the outputs name the last existing operator.
CreateOperatorOffByOne(ins, nOutputs, checksPass) ==
  /\ sortPc = "idle"
  /\ Len(operandOperator) + nOutputs <= MaxOperands
  /\ \/ /\ OperatorValidates(ins, checksPass)
        /\ operatorInputs' = Append(operatorInputs, ins)
        /\ operandOperator' =
             operandOperator \o [k \in 1..nOutputs |-> Len(operatorInputs)]
        /\ UNCHANGED contextError
     \/ /\ ~OperatorValidates(ins, checksPass)
        /\ contextError' = TRUE
        /\ UNCHANGED <<operandOperator, operatorInputs>>
  /\ UNCHANGED <<rootNodes, nodesToDo, nodesDone, result, sortPc,
                 isErrorBuilder, aborted, graph>>

\* WEBNN_VALIDATE, VALIDATE_FOR_OPERAND and VALIDATE_ARRAY_OPERAND: the new
\* operator is validated; on success its outputs are handed back, on failure
\* the error is consumed by the context, the operator is released and an
\* error object (ErrorOperand, or an array of it) is handed back.
CreateOperator(ins, nOutputs, checksPass) ==
  /\ sortPc = "idle"
  /\ Len(operandOperator) + nOutputs <= MaxOperands
  /\ \/ /\ OperatorValidates(ins, checksPass)
        /\ operatorInputs' = Append(operatorInputs, ins)
        /\ operandOperator' =
             operandOperator \o [k \in 1..nOutputs |-> Len(operatorInputs) + 1]
        /\ UNCHANGED contextError
     \/ /\ ~OperatorValidates(ins, checksPass)
        /\ contextError' = TRUE
        /\ UNCHANGED <<operandOperator, operatorInputs>>
  /\ UNCHANGED <<rootNodes, nodesToDo, nodesDone, result, sortPc,
                 isErrorBuilder, aborted, graph>>

\* Operands an options structure may carry (Conv2d's bias, Gemm's c,
\* BatchNorm's and InstanceNorm's scale and bias): the present ones follow
\* the positional inputs.  The op constructors are not in the repository.
OptionOperands(n) == UNION {[1..k -> Operands] : k \in 0..n}

\* A factory whose operator takes the operands args, up to nOpt more from
\* its options, and has nOutputs outputs; the kind's checks may fail.  The
\* model bounds the inputs that options add.
Factory(args, nOpt, nOutputs) ==
  \E opt \in OptionOperands(nOpt), ok \in BOOLEAN :
    /\ opt = <<>> \/ Len(args \o opt) <= MaxOperatorInputs
    /\ CreateOperator(args \o opt, nOutputs, ok)

\* Input: op::Input::ValidateAndInferOutputInfo never fails.
Input == CreateOperator(<<>>, 1, TRUE)

\* Constant: no operand inputs; its descriptor and buffer are checked.
Constant == Factory(<<>>, 0, 1)

\* ConstantWithGpuBuffer (lines 119-125): with WEBNN_ENABLE_GPU_BUFFER the
\* constant is validated as Constant's is; without it the body is
\* UNREACHABLE(), which aborts a debug build and is undefined behaviour in a
\* release build, of which aborting is one outcome (returning nullptr
\* changes nothing).
ConstantWithGpuBuffer ==
  IF GpuBufferEnabled
    THEN Constant
    ELSE /\ aborted' = TRUE
         /\ UNCHANGED <<operandOperator, operatorInputs, rootNodes, nodesToDo,
                        nodesDone, result, sortPc, isErrorBuilder,
                        contextError, graph>>

\* The op::Unary, op::Pool2d, op::Reduce and other one-input kinds.
UnaryFactory == \E x \in Operands : Factory(<<x>>, 0, 1)

\* The op::Binary kinds and the other two-input kinds.
BinaryFactory == \E a, b \in Operands : Factory(<<a, b>>, 0, 1)

Abs == UnaryFactory
Add == BinaryFactory
AveragePool2d == UnaryFactory
BatchNorm == \E x, m, v \in Operands : Factory(<<x, m, v>>, 2, 1)
Clamp == UnaryFactory
Ceil == UnaryFactory

\* Concat copies inputsCount operands into a vector, in order; a count of 0
\* makes an operator with no inputs, left to op::Concat to refuse.
Concat ==
  \E n \in 0..MaxConcatInputs :
    \E ins \in [1..n -> Operands], ok \in BOOLEAN : CreateOperator(ins, 1, ok)

Conv2d == \E x, f \in Operands : Factory(<<x, f>>, 1, 1)
ConvTranspose2d == \E x, f \in Operands : Factory(<<x, f>>, 1, 1)
Cos == UnaryFactory
Div == BinaryFactory
Exp == UnaryFactory
Floor == UnaryFactory
Gemm == \E a, b \in Operands : Factory(<<a, b>>, 1, 1)

\* Gru(input, weight, recurrentWeight): an array of one output, or two when
\* its options ask for the whole sequence too.
Gru == \E x, w, r \in Operands, n \in 1..2 : Factory(<<x, w, r>>, 0, n)

HardSwish == UnaryFactory
InstanceNorm == \E x \in Operands : Factory(<<x>>, 2, 1)
LeakyRelu == UnaryFactory
Log == UnaryFactory
L2Pool2d == UnaryFactory
Matmul == BinaryFactory
BinaryMax == BinaryFactory
MaxPool2d == UnaryFactory
BinaryMin == BinaryFactory
Mul == BinaryFactory
Neg == UnaryFactory
Pad == BinaryFactory
Pow == BinaryFactory
\* ReduceArgMax, ReduceArgMin, ReduceL2, ReduceL1, ReduceMax, ReduceMean,
\* ReduceMin, ReduceProduct and ReduceSum differ only in their ReduceType.
Reduce == UnaryFactory
Relu == UnaryFactory
Resample2d == UnaryFactory
Reshape == UnaryFactory
Sigmoid == UnaryFactory
Sin == UnaryFactory
Slice == UnaryFactory
Softmax == UnaryFactory

\* Split: one input and an array of as many outputs as it splits into.
Split == \E x \in Operands, n \in 1..MaxOperands : Factory(<<x>>, 0, n)

Squeeze == UnaryFactory
Sub == BinaryFactory
Tan == UnaryFactory
Tanh == UnaryFactory
Transpose == UnaryFactory

\* Every operand-creating factory of GraphBuilderBase; none can run during
\* the synchronous Build.
CreateOperand ==
  /\ sortPc = "idle"
  /\ ~aborted
  /\ \/ Abs \/ Add \/ AveragePool2d \/ BatchNorm \/ Clamp \/ Ceil \/ Concat
     \/ Constant \/ ConstantWithGpuBuffer \/ Conv2d \/ ConvTranspose2d \/ Cos
     \/ Div \/ Exp \/ Floor
     \/ Gemm \/ Gru \/ HardSwish \/ Input \/ InstanceNorm \/ LeakyRelu \/ Log
     \/ L2Pool2d \/ Matmul \/ BinaryMax \/ MaxPool2d \/ BinaryMin \/ Mul
     \/ Neg \/ Pad \/ Pow \/ Reduce \/ Relu \/ Resample2d \/ Reshape
     \/ Sigmoid \/ Sin \/ Slice \/ Softmax \/ Split \/ Squeeze \/ Sub \/ Tan
     \/ Tanh \/ Transpose

(***************************************************************************)
(* Build.                                                                  *)
(***************************************************************************)

\* Build and BuildImpl up to the sort (lines 357-366, 382-384): an error
\* builder and empty named operands fail at once; otherwise the named
\* outputs, in record order, are the roots of the sort.
BuildBegin(named) ==
  /\ sortPc = "idle"
  /\ ~aborted
  /\ \/ /\ isErrorBuilder
        /\ graph' = ErrorGraph("builderError")
        /\ contextError' = TRUE
        /\ UNCHANGED <<rootNodes, nodesToDo, nodesDone, result, sortPc>>
     \/ /\ ~isErrorBuilder
        /\ named = <<>>
        /\ graph' = ErrorGraph("emptyOutputs")
        /\ contextError' = TRUE
        /\ UNCHANGED <<rootNodes, nodesToDo, nodesDone, result, sortPc>>
     \/ /\ ~isErrorBuilder
        /\ named # <<>>
        /\ SortBegin(named)
        /\ UNCHANGED <<graph, contextError>>
  /\ UNCHANGED <<operandOperator, operatorInputs, isErrorBuilder, aborted>>

\* Mutant of BuildEnd: the empty-order check of line 367 is dropped.
BuildEndNoEmptyCheck ==
  /\ sortPc = "done"
  /\ \E status \in BackendResults :
       graph' = IF status = "compiled"
                  THEN [status |-> status, ops |-> result, outputs |-> rootNodes]
                  ELSE ErrorGraph(status)
  /\ contextError' = (contextError \/ graph'.status # "compiled")
  /\ SortReturn
  /\ UNCHANGED <<operandOperator, operatorInputs, isErrorBuilder, aborted>>

\* BuildImpl after the sort (lines 367-379, 384-388): an empty order cannot
\* be built; otherwise every sorted operator is added to a fresh backend
\* graph, then every named output, then the graph is finished and compiled;
\* any failing step makes Build return an error graph.
BuildEnd ==
  /\ sortPc = "done"
  /\ \/ /\ result = <<>>
        /\ graph' = ErrorGraph("cannotBuild")
     \/ /\ result # <<>>
        /\ \E status \in BackendResults :
             graph' = IF status = "compiled"
                        THEN [status |-> status, ops |-> result, outputs |-> rootNodes]
                        ELSE ErrorGraph(status)
  /\ contextError' = (contextError \/ graph'.status # "compiled")
  /\ SortReturn
  /\ UNCHANGED <<operandOperator, operatorInputs, isErrorBuilder, aborted>>

\* One iteration of the sort loop inside BuildImpl.
BuildSortStep ==
  /\ SortStep
  /\ UNCHANGED <<isErrorBuilder, aborted, contextError, graph>>

Build ==
  \E n \in 0..MaxNamedOutputs :
    \E named \in [1..n -> Operands] : BuildBegin(named)

(***************************************************************************)
(* Specification.                                                          *)
(***************************************************************************)

Init ==
  /\ operandOperator = <<>>
  /\ operatorInputs = <<>>
  /\ SortInit
  /\ isErrorBuilder \in BOOLEAN
  /\ contextError = FALSE
  /\ graph = ErrorGraph("none")
  /\ aborted = FALSE

Next ==
  \/ CreateOperand
  \/ Build
  \/ BuildSortStep \/ BuildEnd

\* Build is one synchronous call: once begun, the loop and the rest of
\* BuildImpl run to the end without waiting on anything.
Fairness == WF_vars(BuildSortStep) /\ WF_vars(BuildEnd)

Spec == Init /\ [][Next]_vars /\ Fairness

(***************************************************************************)
(* Properties.                                                             *)
(***************************************************************************)

OperatorIds == 1..Len(operatorInputs)

TypeOK ==
  /\ operandOperator \in Seq(OperatorIds)
  /\ operatorInputs \in Seq(Seq(Operands))
  /\ rootNodes \in Seq(Operands)
  /\ nodesToDo \in Seq(OperatorIds \cup {NoOperator})
  /\ nodesDone \subseteq OperatorIds
  /\ result \in Seq(OperatorIds)
  /\ sortPc \in {"idle", "sorting", "done"}
  /\ isErrorBuilder \in BOOLEAN
  /\ contextError \in BOOLEAN
  /\ graph.status \in BuildStatus
  /\ aborted \in BOOLEAN

\* The sort never holds the operator of an error operand: an error object
\* has no operator, so node->Inputs() in TopologicalSort (line 425) would
\* dereference nullptr.  It holds only if error roots are refused (line 416)
\* and every operator consuming an error operand is itself an error.
ErrorOperandNeverSorted ==
  \A i \in DOMAIN nodesToDo : nodesToDo[i] # NoOperator

\* A graph Build hands back as compiled was given each operator once, every
\* operator after the operators producing its inputs, and the operator of
\* every named output: the backend never sees an operator before its
\* inputs or an output it was not given.
CompiledGraphIsSound ==
  graph.status = "compiled" =>
    /\ IsInjective(graph.ops)
    /\ \A i \in DOMAIN graph.outputs :
         OperatorOf(graph.outputs[i]) \in Range(graph.ops)
    /\ \A i \in DOMAIN graph.ops :
         \A d \in Range(InputOperatorSeq(graph.ops[i])) :
           \E j \in 1..(i - 1) : graph.ops[j] = d

\* Build's contract (specification, Build): a Build that reached the sort
\* fails as "cannot be built" (BuildImpl line 367) exactly when one of the
\* named outputs is an error object.  It ties the error-root test of
\* TopologicalSort (line 416) and the sort never returning an empty order
\* for valid roots to BuildImpl's empty check.
BuildRefusesExactlyErrorOutputs ==
  [][sortPc = "done" /\ sortPc' = "idle" =>
       (graph'.status = "cannotBuild" <=>
          \E i \in DOMAIN rootNodes : IsErrorOperand(rootNodes[i]))]_vars

\* Every Build that starts the sort returns: the while loop of
\* TopologicalSort terminates on every graph the builder can make.
BuildReturns == sortPc # "idle" ~> sortPc = "idle"

\* The sort loop implements its one-step specification: the result is a
\* topological order of exactly the operators the roots depend on, or empty
\* when a root is an error object.
TopoSort == INSTANCE TopoSortSpec WITH
  phase  <- IF sortPc = "done" THEN "sorted" ELSE "idle",
  sorted <- IF sortPc = "done" THEN result ELSE <<>>

SortImplementsSpec == TopoSort!Spec

=============================================================================
