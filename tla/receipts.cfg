CONSTANTS
  orders = orders
  audit = audit
  k1 = k1
  k2 = k2
  k3 = k3
  old = old
  new = new
  Table = {orders, audit}
  Key = {k1, k2, k3}
  Payload = {old, new}
  Source <- MCSource
  Contents <- MCContents
  Composite = {orders}
  Faults <- MCFaults
  Inputs <- MCInputs
  Selections <- MCSelections
  MaxRuns = 2
  Absent = Absent
  Torn = Torn
SPECIFICATION Spec
CHECK_DEADLOCK FALSE
INVARIANTS
  TypeOK
  CreditedWasProved
PROPERTIES
  ReceiptIsNewest
  PassIsOfThisRun
