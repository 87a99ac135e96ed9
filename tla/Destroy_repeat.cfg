\* Destroys that fail or are killed at any step and are repeated, while VMs are
\* lost and the director creates them again.
SPECIFICATION FairSpec
CONSTANTS
  VM = {director, web, worker}
  Director = director
  Deployments <- DeploysToBosh
  Fails = {"vms", "terraform", "volumes", "bucket", "crash", "lost"}
INVARIANTS TypeOK ConfigOutlivesTheRest FoundVolumesGo
PROPERTIES CloudIsCleared
