CONSTANTS
  MaxRetries = 2
SPECIFICATION Spec
INVARIANTS
  TypeOK
  MockOnlyAsConfigured
  RequestsAreBounded
PROPERTIES
  EveryTaskSettles
\* The task settles: there is nothing left to do.
CHECK_DEADLOCK FALSE
