\* Rotations on AWS: every command may fail, runs are killed, uploads fail, and
\* deploys happen between rotations.
SPECIFICATION Spec
CONSTANTS
  NoCA = NoCA
  VM = {v1, v2}
  CA = {c1, c2, c3, c4}
  Iaas = "AWS"
  Faults = {"crash", "store"}
  DeployStages <- Idle
  DeployKinds = {"deploy", "self-update"}
  StageFlags = {}
INVARIANTS TypeOK AgentsReachable RenewedMeansRotated UsedCAsAreHeld
PROPERTIES RecreatesRunToTheirEnd ImplementsRollover
\* The model ends when its CAs are used up.
CHECK_DEADLOCK FALSE
