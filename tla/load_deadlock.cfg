CONSTANTS
  customers = customers
  orders = orders
  full = full
  again = again
  part = part
  Run = {full, part}
  Table = {customers, orders}
  Plan <- MCPlan
  Content <- MCContent
  Owning = {customers}
  Refs <- MCRefs
  Rank <- MCRank
  Other = Other
  None = None
SPECIFICATION Spec
CHECK_DEADLOCK FALSE
INVARIANTS
  NoDeadlock
