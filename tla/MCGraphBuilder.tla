---------------------------- MODULE MCGraphBuilder ----------------------------
(* Model-checking instance of GraphBuilder.  Three operands are enough for *)
(* a diamond (x, f(x), g(x, f(x))), for a two-output Split feeding two     *)
(* named outputs, and for a three-input Concat with a repeated input; the  *)
(* error operand exists beside them in every state, so poisoned consumers *)
(* and error roots occur at every size.                                    *)
EXTENDS GraphBuilder

MCMaxOperands == 3
MCMaxNamedOutputs == 2
MCMaxConcatInputs == 3
MCMaxOperatorInputs == 4

=============================================================================
