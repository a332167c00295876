SPECIFICATION Spec
CONSTANTS
  Kernels <- AcceptedViews
  MaxTotal = 2
INVARIANT
  SerialResult
