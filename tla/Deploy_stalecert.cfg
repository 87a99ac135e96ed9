\* A deploy with a new --domain that fails is repeated.
SPECIFICATION Spec
CONSTANTS
  None = None
  User = {user}
  Job = {job}
  AtATime = 1
  Domain = {d1}
  CertId = {t1, t2, t3}
  MaxAge = 1
  Secret = {s1, s2, s3}
  Iaas = "AWS"
  Faults = {}
INVARIANT CertFitsDomain
