SPECIFICATION Spec
CONSTANTS
  Execution = {e1}
  Request = {r1}
  Ops = {"terminate", "unstop"}
  ReactivableStates = {"Terminated"}
  Engines = {"KeyValue", "Ontology", "Rds"}
  Faults = {}
  Exclusive = TRUE
INVARIANT UnstopPossible
CHECK_DEADLOCK FALSE
