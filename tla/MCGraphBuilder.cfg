CONSTANTS
  NoOperator = NoOperator
  ErrorOperand = ErrorOperand
  MaxOperands <- MCMaxOperands
  MaxNamedOutputs <- MCMaxNamedOutputs
  MaxConcatInputs <- MCMaxConcatInputs
  MaxOperatorInputs <- MCMaxOperatorInputs
  \* A build with WEBNN_ENABLE_GPU_BUFFER: ConstantWithGpuBuffer is Constant.
  GpuBufferEnabled = TRUE

SPECIFICATION Spec

INVARIANTS
  TypeOK
  ErrorOperandNeverSorted
  CompiledGraphIsSound

PROPERTIES
  BuildRefusesExactlyErrorOutputs
  BuildReturns
  SortImplementsSpec
