\* A deploy on GCP fails, and the next one goes on with what it stored.
SPECIFICATION Spec
CONSTANTS
  NoCA = NoCA
  VM = {v1, v2}
  CA = {c1, c2, c3, c4}
  Iaas = "GCP"
  Faults = {}
  DeployStages <- Idle
  DeployKinds = {"deploy"}
  StageFlags = {}
INVARIANT AgentsReachable
CHECK_DEADLOCK FALSE
