--------------------------- MODULE TopologicalSort ---------------------------
(***************************************************************************)
(* GraphBuilderBase::TopologicalSort (src/webnn_native/GraphBuilder.cpp,   *)
(* lines 409-441): an iterative depth-first traversal with an explicit    *)
(* stack nodesToDo and a set nodesDone.  One step of SortStep is one      *)
(* iteration of the while loop.  The graph it reads (operandOperator,     *)
(* operatorInputs) and its argument rootNodes belong to the caller, which *)
(* composes these actions into its Build (see GraphBuilder).              *)
(***************************************************************************)
EXTENDS Naturals, Sequences, SequencesExt

CONSTANTS
  NoOperator,            \* Operator() of an error operand: nullptr
  ErrorOperand           \* any error object (OperandBase::MakeError); all
                         \* error operands behave alike, so one stands for all

VARIABLES
  operandOperator,       \* valid operand -> its owning operator
  operatorInputs,        \* operator -> Inputs(), a sequence of operands
  rootNodes,             \* the argument rootNodes (operands)
  nodesToDo,             \* std::stack of operators; the top is Last
  nodesDone,             \* std::unordered_set of operators
  result,                \* the std::vector returned
  sortPc                 \* "idle" (not running), "sorting", "done"

sortVars == <<nodesToDo, nodesDone, result, sortPc>>

IsErrorOperand(x) == x = ErrorOperand

\* Operand::Operator(): an error object has none.
OperatorOf(x) == IF IsErrorOperand(x) THEN NoOperator ELSE operandOperator[x]

\* dep->Operator() for every dep of node->Inputs(), in order.
InputOperatorSeq(node) ==
  [i \in DOMAIN operatorInputs[node] |-> OperatorOf(operatorInputs[node][i])]

\* The dependencies the for loop of lines 425-430 pushes: each input whose
\* operator is not yet done, duplicates included, in input order.
PendingDeps(node) ==
  SelectSeq(InputOperatorSeq(node), LAMBDA d : d \notin nodesDone)

SortInit ==
  /\ rootNodes = <<>>
  /\ nodesToDo = <<>>
  /\ nodesDone = {}
  /\ result = <<>>
  /\ sortPc = "idle"

\* Mutant of SortBegin: an error root is skipped instead of ending the
\* call with the empty order.
SortBeginSkipErrors(roots) ==
  LET valid == SelectSeq(roots, LAMBDA x : ~IsErrorOperand(x)) IN
  /\ sortPc = "idle"
  /\ rootNodes' = roots
  /\ nodesDone' = {}
  /\ result' = <<>>
  /\ nodesToDo' = [i \in DOMAIN valid |-> OperatorOf(valid[i])]
  /\ sortPc' = IF valid = <<>> THEN "done" ELSE "sorting"

\* Lines 411-420, called with roots: an error root returns the empty order
\* at once; otherwise the operator of every root is pushed, the last root
\* ending on top.
SortBegin(roots) ==
  /\ sortPc = "idle"
  /\ rootNodes' = roots
  /\ nodesDone' = {}
  /\ result' = <<>>
  /\ \/ /\ \E i \in DOMAIN roots : IsErrorOperand(roots[i])
        /\ nodesToDo' = <<>>
        /\ sortPc' = "done"
     \/ /\ \A i \in DOMAIN roots : ~IsErrorOperand(roots[i])
        /\ nodesToDo' = [i \in DOMAIN roots |-> OperatorOf(roots[i])]
        /\ sortPc' = IF roots = <<>> THEN "done" ELSE "sorting"

\* Lines 423-430 with can_add false: the top is not done and some of its
\* inputs are not done; those are pushed and the top stays.
SortExpand ==
  LET node == Last(nodesToDo) IN
  /\ sortPc = "sorting"
  /\ node \notin nodesDone
  /\ PendingDeps(node) # <<>>
  /\ nodesToDo' = nodesToDo \o PendingDeps(node)
  /\ UNCHANGED <<nodesDone, result, sortPc, rootNodes>>

\* Mutant of SortEmit: the top is emitted without waiting for its inputs.
SortEmitEager ==
  LET node == Last(nodesToDo) IN
  /\ sortPc = "sorting"
  /\ node \notin nodesDone
  /\ result' = Append(result, node)
  /\ nodesToDo' = Front(nodesToDo)
  /\ nodesDone' = nodesDone \cup {node}
  /\ sortPc' = IF nodesToDo' = <<>> THEN "done" ELSE "sorting"
  /\ UNCHANGED rootNodes

\* Lines 431-435: every input of the top is done; it is appended to the
\* result, popped and marked done.
SortEmit ==
  LET node == Last(nodesToDo) IN
  /\ sortPc = "sorting"
  /\ node \notin nodesDone
  /\ PendingDeps(node) = <<>>
  /\ result' = Append(result, node)
  /\ nodesToDo' = Front(nodesToDo)
  /\ nodesDone' = nodesDone \cup {node}
  /\ sortPc' = IF nodesToDo' = <<>> THEN "done" ELSE "sorting"
  /\ UNCHANGED rootNodes

\* Mutant of SortSkip: a top that is already done is not popped.
SortSkipNoPop ==
  /\ sortPc = "sorting"
  /\ Last(nodesToDo) \in nodesDone
  /\ UNCHANGED <<nodesToDo, nodesDone, result, sortPc, rootNodes>>

\* Lines 436-437: the top was already done through another path; pop it.
SortSkip ==
  /\ sortPc = "sorting"
  /\ Last(nodesToDo) \in nodesDone
  /\ nodesToDo' = Front(nodesToDo)
  /\ sortPc' = IF nodesToDo' = <<>> THEN "done" ELSE "sorting"
  /\ UNCHANGED <<nodesDone, result, rootNodes>>

\* One iteration of the while loop; the graph is only read.
SortStep ==
  /\ SortExpand \/ SortEmit \/ SortSkip
  /\ UNCHANGED <<operandOperator, operatorInputs>>

\* Line 440 and the caller taking the result: the locals and the argument
\* vector are gone.
SortReturn ==
  /\ sortPc = "done"
  /\ rootNodes' = <<>>
  /\ nodesToDo' = <<>>
  /\ nodesDone' = {}
  /\ result' = <<>>
  /\ sortPc' = "idle"

=============================================================================
