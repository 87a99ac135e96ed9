\* A job of the pipeline runs while somebody deploys.
SPECIFICATION Spec
CONSTANTS
  None = None
  User = {user}
  Job = {job}
  AtATime = 2
  Domain = {d1}
  CertId = {t1, t2, t3}
  MaxAge = 1
  Secret = {s1, s2, s3}
  Iaas = "AWS"
  Faults = {}
INVARIANT DomainPersists
