SPECIFICATION Spec
CONSTANTS
  Execution = {e1, e2}
  Request = {r1, r2}
  Ops = {"run", "pause", "finish", "terminate", "unstop"}
  ReactivableStates = {"Terminated"}
  Engines = {"KeyValue", "Ontology", "Rds"}
  Faults = {}
  Exclusive = TRUE
PROPERTIES ImplementsLifecycle
SYMMETRY Symmetry
CHECK_DEADLOCK FALSE
