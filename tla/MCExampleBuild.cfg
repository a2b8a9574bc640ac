CONSTANTS
  NoOperator = NoOperator
  ErrorOperand = ErrorOperand
  MaxOperands <- MCMaxOperands
  MaxNamedOutputs <- MCMaxNamedOutputs
  MaxConcatInputs <- MCMaxConcatInputs
  MaxOperatorInputs <- MCMaxOperatorInputs
  GpuBufferEnabled = FALSE

SPECIFICATION ExampleSpec

CHECK_DEADLOCK FALSE

INVARIANTS
  ExampleGraphFullyUsed
  WeightFilesReadOnce
  CompiledGraphIsSound

PROPERTIES
  BuildReturns
  SortImplementsSpec
