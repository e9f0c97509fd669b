SPECIFICATION Spec
CONSTANTS
  u1 = u1
  u2 = u2
  d1 = d1
  d2 = d2
  e1 = e1
  e2 = e2
  e3 = e3
  User = {u1, u2}
  Delivery = {d1, d2}
  Execution = {e1, e2, e3}
  UserOf <- MCUserOf
  DeliveryOf <- MCDeliveryOf
  StatesToExclude = {"Terminated"}
INVARIANTS TypeOK IndexExact AttemptsExact
PROPERTY ImplementsRegistry
