\* Rotations whose runs are repeated until they succeed, with VMs that are
\* resurrected meanwhile.
SPECIFICATION FairSpec
CONSTANTS
  NoCA = NoCA
  VM = {v1, v2}
  CA = {c1, c2, c3}
  Iaas = "AWS"
  Faults = {"resurrect"}
  DeployStages <- Idle
  DeployKinds = {"self-update"}
  StageFlags = {}
INVARIANTS NextStageCanRun
PROPERTIES RotationCompletes
\* The model ends when its CAs are used up.
CHECK_DEADLOCK FALSE
