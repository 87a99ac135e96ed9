\* Terraform fails once, and destroy is run again.
SPECIFICATION Spec
CONSTANTS
  VM = {director, web, worker}
  Director = director
  Deployments <- DeploysToBosh
  Fails = {"terraform"}
INVARIANT NoVolumeIsLeft
