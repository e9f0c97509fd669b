SPECIFICATION CountSpec
CONSTANTS
  Execution = {e1, e2}
  Request = {r1, r2}
  Ops = {"pause", "finish", "unstop"}
  ReactivableStates = {"Finished"}
  Engines = {"KeyValue", "Ontology", "Rds"}
  Faults = {"crash", "sqlError"}
  Exclusive = FALSE
SYMMETRY Symmetry
INVARIANTS CountsHeard NeverNegative CountsStoredOrDeleted
CONSTRAINT Orderly
CHECK_DEADLOCK FALSE
