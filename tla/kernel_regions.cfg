SPECIFICATION Spec
CONSTANTS
  Kernels <- AllKernels
  MaxTotal = 3
INVARIANTS
  IInv
  SerialResult
  StatusDeterministic
  OutputExact
  InputsIntact
