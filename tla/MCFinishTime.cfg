SPECIFICATION Spec
CONSTANTS
  Execution = {e1}
  Request = {r1, r2}
  Ops = {"finish", "put"}
  ReactivableStates = {"Terminated"}
  Engines = {"KeyValue", "Ontology", "Rds"}
  Faults = {}
  Exclusive = TRUE
INVARIANT NoTimeUnlessFinished
CHECK_DEADLOCK FALSE
