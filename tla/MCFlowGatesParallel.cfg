CONSTANTS
  ann = ann
  bob = bob
  cy = cy
  NoUser = NoUser
  Users = {ann, bob}
  Flows = {"amount"}
  Nodes = {"manager", "legal"}
  FlowOf <- ParallelFlowOf
  Roots <- ParallelRoots
  Then <- ParallelThen
  Acts = {"manager", "legal"}
  AllOf = {}
  Assignees <- ParallelAssignees
  EscalateTo <- ParallelEscalateTo
  MaxSubmissions = 1
SPECIFICATION Spec
CHECK_DEADLOCK FALSE
INVARIANTS EveryBranchRuns
