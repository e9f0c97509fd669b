SPECIFICATION Spec
CONSTANTS
  Execution = {e1}
  Request = {r1, r2}
  Ops = {"run", "pause", "finish"}
  ReactivableStates = {"Terminated"}
  Engines = {"KeyValue", "Ontology", "Rds"}
  Faults = {}
  Exclusive = FALSE
PROPERTY RunResumesResumable
CHECK_DEADLOCK FALSE
