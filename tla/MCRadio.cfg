CONSTANTS
  Sizes <- FrameSizes
SPECIFICATION Spec
INVARIANTS TypeOK PayloadWhole ReportsBelong
PROPERTIES OperationsReported
CHECK_DEADLOCK FALSE
