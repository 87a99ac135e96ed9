\* Deploys and self-updates on AWS, one at a time: every step may fail, runs are
\* killed and uploads fail.
SPECIFICATION Spec
CONSTANTS
  None = None
  User = {user}
  Job = {job}
  AtATime = 1
  Domain = {d1, d2}
  CertId = {t1, t2, t3}
  MaxAge = 0
  Secret = {s1, s2, s3}
  Iaas = "AWS"
  Faults = {"crash", "store"}
SYMMETRY Symmetry
INVARIANTS TypeOK KeyIsKept LoginWorks ServedAsConfigured DomainPersists
PROPERTIES SecretsStay CertFitsNewDomain
