CONSTANTS
  ann = ann
  bob = bob
  cy = cy
  NoUser = NoUser
  Users = {ann, bob, cy}
  Flows = {"amount", "contract"}
  Nodes = {"manager", "cfo", "legal"}
  FlowOf <- MCFlowOf
  Roots <- MCRoots
  Then <- MCThen
  Acts = {"cfo", "legal"}
  AllOf = {"manager"}
  Assignees <- MCAssignees
  EscalateTo <- MCEscalateTo
  MaxSubmissions = 2
SPECIFICATION FairSpec
CHECK_DEADLOCK FALSE
INVARIANTS
  ReleasedMeansApproved
  NothingDangling
  EveryBranchRuns
PROPERTIES
  ActionsAfterRelease
  EveryRequestIsDecided
