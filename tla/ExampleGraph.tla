---------------------------- MODULE ExampleGraph ----------------------------
(***************************************************************************)
(* The GraphBuilderBase factories a client program calls, as pure         *)
(* operators on the part B = [base, opnd, ins] of the builder's graph one  *)
(* statement of the program adds: base operands exist before it, and       *)
(* B.opnd[x], B.ins[o] are the operator of operand base + x and the input  *)
(* operands of operator base + o, in order -- the representation of       *)
(* GraphBuilder's variables operandOperator and operatorInputs.  Every    *)
(* factory returns the new graph; the operand it returned is Out of that   *)
(* graph (each creates one operator and one operand).  B.files lists the  *)
(* weight files read, in order: a path is the sequence of the parts the   *)
(* code concatenates, each part a string literal or a number that          *)
(* std::to_string renders; every number in a path is followed by a        *)
(* literal separator, so two paths are equal as strings exactly when they  *)
(* are equal as sequences.  An empty name index ("") is 0.  The example   *)
(* programs only build graphs that pass validation, so every call here is  *)
(* the success path of WEBNN_VALIDATE.  Operands in an options structure   *)
(* (a bias, BatchNorm's scale and bias, Gemm's c) are further inputs of    *)
(* the operator, after the positional ones; a fused activation is a       *)
(* FusionOperatorBase, not an operand, and adds nothing to the graph.      *)
(* An input given as Last is the operand the graph's last call returned;   *)
(* helpers pass it on, and Operand(B, k) names the k-th operand created   *)
(* after B, so that no graph is named twice by the steps that follow it.  *)
(***************************************************************************)
EXTENDS Integers, Sequences

\* Nothing added yet to a builder holding n operands, no file read yet.
From(n) == [base |-> n, opnd |-> <<>>, ins |-> <<>>, files |-> <<>>]

\* A statement of a loader (LoadNCHW, LoadNHWC, ...): the helper call of one
\* source statement, named by kind, with its boolean arguments x, y and its
\* integer argument n.  A loader is the sequence of its statements; the
\* example runs them one at a time on the builder.
Stmt(kind, x, y, n) == [kind |-> kind, x |-> x, y |-> y, n |-> n]

\* The operand the last factory call returned.
Out(B) == B.base + Len(B.opnd)

\* The operand of the k-th factory call made on B and the graphs after it.
Operand(B, k) == Out(B) + k

\* The operand the last factory call on B returned, as an input.
Last == -1
Resolve(B, x) == IF x = Last THEN Out(B) ELSE x

\* WEBNN_VALIDATE / VALIDATE_FOR_OPERAND when validation succeeds: the
\* operator joins the graph and its primary output is returned.
AddOperator(B, ins) ==
  [B EXCEPT !.opnd = Append(@, B.base + Len(B.ins) + 1),
            !.ins = Append(@, [i \in DOMAIN ins |-> Resolve(B, ins[i])])]

Input(B)                  == AddOperator(B, <<>>)
Constant(B)               == AddOperator(B, <<>>)
\* utils::BuildConstant of the data cnpy::npy_load read from path.
ConstantFromFile(B, path) ==
  [AddOperator(B, <<>>) EXCEPT !.files = Append(@, path)]
Add(B, a, b)              == AddOperator(B, <<a, b>>)
Mul(B, a, b)              == AddOperator(B, <<a, b>>)
Relu(B, x)                == AddOperator(B, <<x>>)
Softmax(B, x)             == AddOperator(B, <<x>>)
Clamp(B, x)               == AddOperator(B, <<x>>)
AveragePool2d(B, x)       == AddOperator(B, <<x>>)
MaxPool2d(B, x)           == AddOperator(B, <<x>>)
ReduceMean(B, x)          == AddOperator(B, <<x>>)
Reshape(B, x)             == AddOperator(B, <<x>>)
Pad(B, x, padding)        == AddOperator(B, <<x, padding>>)
Conv2d(B, x, filter, opt) == AddOperator(B, <<x, filter>> \o opt)
Gemm(B, a, b, opt)        == AddOperator(B, <<a, b>> \o opt)
BatchNorm(B, x, mean, variance, opt) ==
  AddOperator(B, <<x, mean, variance>> \o opt)

=============================================================================
