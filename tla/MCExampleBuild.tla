--------------------------- MODULE MCExampleBuild ---------------------------
(* Model-checking instance of ExampleBuild.  The example graphs are fixed  *)
(* by the loaders; only Build runs, so the factory bounds of GraphBuilder  *)
(* are never reached and are set to the size of the largest graph.        *)
EXTENDS ExampleBuild

MCMaxOperands == 2000
MCMaxNamedOutputs == 1
MCMaxConcatInputs == 1
MCMaxOperatorInputs == 0

=============================================================================
