\* Somebody deploys between two stages of a rotation.
SPECIFICATION Spec
CONSTANTS
  NoCA = NoCA
  VM = {v1, v2}
  CA = {c1, c2, c3, c4}
  Iaas = "AWS"
  Faults = {}
  DeployStages <- AnyStage
  DeployKinds = {"deploy"}
  StageFlags = {}
INVARIANT AgentsReachable
CHECK_DEADLOCK FALSE
