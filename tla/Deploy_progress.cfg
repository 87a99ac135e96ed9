\* Runs that fail and are repeated, one at a time.
SPECIFICATION FairSpec
CONSTANTS
  None = None
  User = {user}
  Job = {job}
  AtATime = 1
  Domain = {d1}
  CertId = {t1, t2, t3}
  MaxAge = 2
  Secret = {s1, s2, s3}
  Iaas = "AWS"
  Faults = {}
INVARIANTS DirectorIsTracked
PROPERTIES CertIsRenewed DeployCompletes
