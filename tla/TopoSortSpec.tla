---------------------------- MODULE TopoSortSpec ----------------------------
(***************************************************************************)
(* What GraphBuilderBase::TopologicalSort promises BuildImpl, in one step. *)
(* Given root operands none of which is an error object, the result holds *)
(* exactly the operators the roots depend on, each once, each after every *)
(* operator that produces one of its inputs.  If a root is an error       *)
(* object the result is empty.  The graph and the roots are set by the     *)
(* caller (Env) while no sort is in progress.                              *)
(***************************************************************************)
EXTENDS Naturals, Sequences, SequencesExt

CONSTANTS
  NoOperator,            \* Operator() of an error operand (no operator)
  ErrorOperand           \* the error object

VARIABLES
  operandOperator,       \* operand -> the operator that produced it
  operatorInputs,        \* operator -> its input operands, in order
  rootNodes,             \* the operands handed to the sort
  phase,                 \* "idle" or "sorted"
  sorted                 \* the order handed back

vars == <<operandOperator, operatorInputs, rootNodes, phase, sorted>>

OperatorOf(x) == IF x = ErrorOperand THEN NoOperator ELSE operandOperator[x]

InputOperators(o) ==
  {OperatorOf(operatorInputs[o][i]) : i \in DOMAIN operatorInputs[o]}

\* The least set containing S that is closed under "is an input of".
RECURSIVE DependencyClosure(_)
DependencyClosure(S) ==
  LET grown == S \cup UNION {InputOperators(o) : o \in S \ {NoOperator}}
  IN  IF grown = S THEN S ELSE DependencyClosure(grown)

RootOperators == {OperatorOf(rootNodes[i]) : i \in DOMAIN rootNodes}

HasErrorRoot == NoOperator \in RootOperators

IsTopologicalOrderOf(s, S) ==
  /\ IsInjective(s)
  /\ Range(s) = S
  /\ \A i \in DOMAIN s :
       \A d \in InputOperators(s[i]) : \E j \in 1..(i - 1) : s[j] = d

Init ==
  /\ phase = "idle"
  /\ sorted = <<>>

\* The roots are those of the new state: the caller may pass them in the
\* same step that the order is produced.
Sort ==
  /\ phase = "idle"
  /\ phase' = "sorted"
  /\ UNCHANGED <<operandOperator, operatorInputs>>
  /\ IF HasErrorRoot'
       THEN sorted' = <<>>
       ELSE IsTopologicalOrderOf(sorted', DependencyClosure(RootOperators'))

\* The caller takes the order and drops its argument.
Return ==
  /\ phase = "sorted"
  /\ phase' = "idle"
  /\ sorted' = <<>>
  /\ UNCHANGED <<operandOperator, operatorInputs>>

Env ==
  /\ phase = "idle"
  /\ UNCHANGED <<phase, sorted>>

Spec == Init /\ [][Sort \/ Return \/ Env]_vars

=============================================================================
