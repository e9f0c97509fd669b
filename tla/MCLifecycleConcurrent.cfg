SPECIFICATION Spec
CONSTANTS
  Execution = {e1}
  Request = {r1, r2}
  Ops = {"run", "pause", "finish", "terminate", "unstop", "put"}
  ReactivableStates = {"Terminated"}
  Engines = {"KeyValue", "Ontology", "Rds"}
  Faults = {"crash", "sqlError"}
  Exclusive = FALSE
INVARIANTS TypeOK AuditExact ReactivationsHeard FinishedHasTime
PROPERTIES EventsChain NoSpuriousReactivation RevivalNeedsStaleCopy RevivalPermitted TimeKept
SYMMETRY Symmetry
CHECK_DEADLOCK FALSE
