\* A run of maintain is killed, and the next one determines the stage itself.
SPECIFICATION Spec
CONSTANTS
  NoCA = NoCA
  VM = {v1, v2}
  CA = {c1, c2, c3, c4}
  Iaas = "AWS"
  Faults = {"crash"}
  DeployStages <- Idle
  DeployKinds = {}
  StageFlags = {}
INVARIANT NextStageCanRun
CHECK_DEADLOCK FALSE
