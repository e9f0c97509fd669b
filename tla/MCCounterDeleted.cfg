SPECIFICATION CountSpec
CONSTANTS
  Execution = {e1}
  Request = {r1}
  Ops = {}
  ReactivableStates = {}
  Engines = {"KeyValue", "Ontology", "Rds"}
  Faults = {}
  Exclusive = TRUE
INVARIANT CountsStored
CHECK_DEADLOCK FALSE
