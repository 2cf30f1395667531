CONSTANTS
  customers = customers
  orders = orders
  full = full
  again = again
  part = part
  Run = {full, part, again}
  Table = {customers, orders}
  Plan <- MCPlan
  Content <- MCContent
  Owning = {customers, orders}
  Refs <- MCRefs
  Rank <- MCRank
  Other = Other
  None = None
SPECIFICATION LiveSpec
CHECK_DEADLOCK FALSE
INVARIANTS
  TypeOK
  NeverMixed
  HonestReport
  NoSequenceForgotten
  TargetsNeverDeadlock
PROPERTIES
  KeepsLoadPromise
  RunsEnd
