-------------------------- MODULE ConfigBucketProofs --------------------------
(***************************************************************************)
(* That commands find the config they stored, for any number of regions,   *)
(* namespaces and commands, or lose sight of it in the one way that        *)
(* MadeElsewhere says.  The argument: a command that makes a bucket never  *)
(* changes which bucket the flags of an existing one lead to, unless it    *)
(* has another region.                                                     *)
(***************************************************************************)
EXTENDS ConfigBucket, TLAPS

\* Flags lead to a bucket that is there, or did before the namespace was used in
\* another region.
Led(f, b) ==
  /\ b \in buckets
  /\ BucketName(f) = b \/ (b = f[1] /\ MadeElsewhere(f))

\* A config is in a bucket its own region and namespace lead to, alone.
ConfigsInv ==
  /\ \A c \in configs : Led(<<c.region, c.namespace>>, c.bucket)
  /\ \A c, d \in configs : c.bucket = d.bucket => c = d

StoredInv ==
  \A f \in Flags : storedIn[f] # Nowhere =>
    Led(f, storedIn[f]) /\ HasConfig(storedIn[f])

BucketIInv == BucketTypeOK /\ ConfigsInv /\ StoredInv

-----------------------------------------------------------------------------
LEMMA FlagsTyped ==
  ASSUME NEW f \in Flags
  PROVE  /\ f = <<f[1], f[2]>> /\ f[1] \in Region /\ f[2] \in Namespace \union {NoNamespace}
         /\ DetermineNamespace(f) \in Ext /\ BucketName(f) \in Ext
         /\ f[2] # NoNamespace => DetermineNamespace(f) = f[2] /\ f[2] \in Namespace
         /\ f[2] = NoNamespace => DetermineNamespace(f) = f[1]
  BY FlagsAreKnown DEF DetermineNamespace, BucketName, Ext

\* The bucket a command makes, or finds, is that of its flags from then on.
LEMMA MakingLeads ==
  ASSUME NEW f \in Flags, MakeBucket(f)
  PROVE  BucketName(f)' = BucketName(f) /\ BucketName(f) \in buckets'
  BY FlagsTyped DEF MakeBucket, BucketName, DetermineNamespace

LEMMA MakingTyped ==
  ASSUME BucketTypeOK, NEW f \in Flags, MakeBucket(f)
  PROVE  /\ buckets' \subseteq Ext
         /\ maker' \in [Ext -> Region \union {Nowhere}]
  BY FlagsTyped DEF MakeBucket, BucketTypeOK

\* Of flags that lead to a bucket that is there, a new bucket misleads those of
\* other regions only.
LEMMA MakingKeeps ==
  ASSUME BucketTypeOK, NEW f \in Flags, MakeBucket(f), NEW g, NEW b, Led(g, b)
  PROVE  Led(g, b)'
  <1> DEFINE x == BucketName(f)
             e == DetermineNamespace(g)
  <1>0. x \in Ext
    BY FlagsTyped
  <1>1. CASE x \in buckets \/ x # e
    BY <1>1, <1>0 DEF MakeBucket, Led, MadeElsewhere, BucketName, DetermineNamespace,
                      BucketTypeOK
  <1>2. CASE x \notin buckets /\ x = e
    <2>1. b = g[1] /\ b \in buckets
      BY <1>2 DEF Led, MadeElsewhere, BucketName
    <2>2. f[1] # g[1]
      BY <1>2, <2>1 DEF BucketName
    <2>3. e \in buckets' /\ maker'[e] = f[1]
      BY <1>0, <1>2 DEF MakeBucket, BucketTypeOK
    <2>4. MadeElsewhere(g)'
      BY <2>2, <2>3 DEF MadeElsewhere, DetermineNamespace
    <2> QED BY <2>1, <2>4 DEF Led, MakeBucket
  <1> QED BY <1>1, <1>2

\* Nor does one that is deleted mislead flags with another one.
LEMMA DeletingKeeps ==
  ASSUME BucketTypeOK, NEW g, NEW b, Led(g, b),
         NEW d \in Ext, d # b, buckets' \in {buckets, buckets \ {d}},
         maker' = [e \in Ext |-> IF e \in buckets' THEN maker[e] ELSE Nowhere]
  PROVE  Led(g, b)'
  <1> DEFINE e == DetermineNamespace(g)
  <1>1. \A x \in buckets' : x \in Ext /\ maker'[x] = maker[x]
    BY DEF BucketTypeOK
  <1>2. CASE e \in buckets'
    BY <1>1, <1>2 DEF Led, MadeElsewhere, BucketName, DetermineNamespace
  <1>3. CASE e \notin buckets'
    BY <1>3 DEF Led, MadeElsewhere, BucketName, DetermineNamespace
  <1> QED BY <1>2, <1>3

\* The flags of the pipeline lead where those of the deploy do.
LEMMA JobsFlags ==
  ASSUME NEW f \in Flags
  PROVE  /\ DetermineNamespace(<<f[1], DetermineNamespace(f)>>) = DetermineNamespace(f)
         /\ BucketName(<<f[1], DetermineNamespace(f)>>) = BucketName(f)
  <1>1. DetermineNamespace(<<f[1], DetermineNamespace(f)>>) = DetermineNamespace(f)
    BY FlagsTyped, FlagsAreKnown DEF DetermineNamespace
  <1> QED BY <1>1 DEF BucketName, DetermineNamespace

-----------------------------------------------------------------------------
LEMMA BucketInitInv == BucketInit => BucketIInv
  BY DEF BucketInit, BucketIInv, BucketTypeOK, ConfigsInv, StoredInv, Ext

LEMMA LookInv ==
  ASSUME BucketIInv, NEW f \in Flags, Look(f)
  PROVE  BucketIInv'
  <1>0. MakeBucket(f) /\ BucketTypeOK
    BY DEF Look, BucketIInv
  <1>1. BucketTypeOK'
    BY <1>0, MakingTyped DEF BucketTypeOK, Look
  <1>2. \A g, b : Led(g, b) => Led(g, b)'
    BY <1>0, MakingKeeps
  <1>3. ConfigsInv'
    BY <1>2 DEF BucketIInv, ConfigsInv, Look
  <1>4. StoredInv'
    <2> SUFFICES ASSUME NEW g \in Flags, storedIn[g] # Nowhere
                 PROVE  Led(g, storedIn[g])' /\ HasConfig(storedIn[g])
      BY DEF StoredInv, HasConfig, Look, Led, BucketName, MadeElsewhere
    <2>1. Led(g, storedIn[g]) /\ HasConfig(storedIn[g])
      BY DEF BucketIInv, StoredInv
    <2>2. \A b : Led(g, b) => Led(g, b)'
      BY <1>2
    <2> QED BY <2>1, <2>2 DEF Look
  <1> QED BY <1>1, <1>3, <1>4 DEF BucketIInv

LEMMA FirstDeployInv ==
  ASSUME BucketIInv, NEW f \in Flags, FirstDeploy(f)
  PROVE  BucketIInv'
  <1> DEFINE b == BucketName(f)
             n == NewConfig(f)
  <1>0. MakeBucket(f) /\ BucketTypeOK
    BY DEF FirstDeploy, BucketIInv
  <1>1. /\ b \in Ext /\ BucketName(f)' = b /\ b \in buckets'
        /\ n = [region |-> f[1], namespace |-> DetermineNamespace(f), bucket |-> b]
    BY <1>0, MakingLeads, FlagsTyped DEF NewConfig
  <1>2. BucketTypeOK'
    <2>1. n \in Conf
      BY <1>1, FlagsTyped DEF Conf
    <2> QED BY <1>0, <1>1, <2>1, MakingTyped DEF BucketTypeOK, FirstDeploy
  <1>3. \A g, d : Led(g, d) => Led(g, d)'
    BY <1>0, MakingKeeps
  <1>4. ConfigsInv'
    <2>1. \A c \in configs : Led(<<c.region, c.namespace>>, c.bucket)'
      BY <1>3 DEF BucketIInv, ConfigsInv
    <2>2. \A c : c = n => Led(<<c.region, c.namespace>>, c.bucket)'
      <3>1. BucketName(<<f[1], DetermineNamespace(f)>>)' = BucketName(f)'
        BY JobsFlags DEF BucketName, DetermineNamespace
      <3> QED BY <3>1, <1>1 DEF Led
    <2>3. \A c \in configs : c.bucket # n.bucket
      BY <1>1 DEF FirstDeploy, HasConfig
    <2> QED BY <2>1, <2>2, <2>3 DEF BucketIInv, ConfigsInv, FirstDeploy
  <1>5. StoredInv'
    <2> SUFFICES ASSUME NEW g \in Flags, storedIn'[g] # Nowhere
                 PROVE  (Led(g, storedIn[g]) /\ HasConfig(storedIn[g]))'
      BY DEF StoredInv
    <2>1. CASE g = f
      <3>1. storedIn'[g] = b
        BY <2>1 DEF FirstDeploy, BucketIInv, BucketTypeOK
      <3>2. n \in configs'
        BY DEF FirstDeploy
      <3> QED BY <3>1, <3>2, <2>1, <1>1 DEF HasConfig, Led
    <2>2. CASE g # f
      <3>1. storedIn'[g] = storedIn[g]
        BY <2>2 DEF FirstDeploy, BucketIInv, BucketTypeOK
      <3>2. Led(g, storedIn[g]) /\ HasConfig(storedIn[g])
        BY <3>1 DEF BucketIInv, StoredInv
      <3>3. \A d : Led(g, d) => Led(g, d)'
        BY <1>3
      <3> QED BY <3>1, <3>2, <3>3 DEF HasConfig, FirstDeploy
    <2> QED BY <2>1, <2>2
  <1> QED BY <1>2, <1>4, <1>5 DEF BucketIInv

LEMMA DeployAgainInv ==
  ASSUME BucketIInv, NEW f \in Flags, DeployAgain(f)
  PROVE  BucketIInv'
  <1>1. PICK c \in configs : c.bucket = BucketName(f)
    BY DEF DeployAgain
  <1>2. Led(f, BucketName(f)) /\ HasConfig(BucketName(f))
    BY <1>1 DEF Led, HasConfig, BucketIInv, ConfigsInv
  <1>3. BucketTypeOK'
    BY FlagsTyped DEF BucketIInv, BucketTypeOK, DeployAgain
  <1>4. ConfigsInv'
    BY DEF BucketIInv, ConfigsInv, DeployAgain, Led, BucketName, MadeElsewhere
  <1>5. StoredInv'
    <2> SUFFICES ASSUME NEW g \in Flags, storedIn'[g] # Nowhere
                 PROVE  Led(g, storedIn'[g]) /\ HasConfig(storedIn'[g])
      BY DEF StoredInv, DeployAgain, Led, HasConfig, BucketName, MadeElsewhere
    <2> QED BY <1>2 DEF DeployAgain, BucketIInv, StoredInv, BucketTypeOK
  <1> QED BY <1>3, <1>4, <1>5 DEF BucketIInv

LEMMA DestroyInInv ==
  ASSUME BucketIInv, NEW f \in Flags, DestroyIn(f)
  PROVE  BucketIInv'
  <1>1. PICK c \in configs :
          /\ c.bucket = BucketName(f)
          /\ buckets' \in {buckets, buckets \ {c.bucket}}
          /\ maker' = [e \in Ext |-> IF e \in buckets' THEN maker[e] ELSE Nowhere]
          /\ configs' = configs \ {c}
          /\ storedIn' = [g \in Flags |-> IF storedIn[g] = c.bucket THEN Nowhere
                                          ELSE storedIn[g]]
    BY DEF DestroyIn
  <1>2. \A d \in configs' : d \in configs /\ d.bucket # c.bucket
    BY <1>1 DEF BucketIInv, ConfigsInv
  <1>3. BucketTypeOK'
    BY <1>1 DEF BucketIInv, BucketTypeOK, Ext
  <1>4. \A g, d : Led(g, d) /\ d # c.bucket => Led(g, d)'
    <2>1. c.bucket \in Ext /\ BucketTypeOK
      BY DEF BucketIInv, BucketTypeOK, Conf
    <2> QED BY <1>1, <2>1, DeletingKeeps
  <1>5. ConfigsInv'
    BY <1>2, <1>4 DEF BucketIInv, ConfigsInv
  <1>6. StoredInv'
    <2> SUFFICES ASSUME NEW g \in Flags, storedIn'[g] # Nowhere
                 PROVE  (Led(g, storedIn[g]) /\ HasConfig(storedIn[g]))'
      BY DEF StoredInv
    <2>1. storedIn'[g] = storedIn[g] /\ storedIn[g] # c.bucket
      BY <1>1
    <2>2. Led(g, storedIn[g]) /\ HasConfig(storedIn[g])
      BY <2>1 DEF BucketIInv, StoredInv
    <2>3. \A d : Led(g, d) /\ d # c.bucket => Led(g, d)'
      BY <1>4
    <2> QED BY <2>1, <2>2, <2>3, <1>1 DEF HasConfig
  <1> QED BY <1>3, <1>5, <1>6 DEF BucketIInv

LEMMA BucketStepInv == BucketIInv /\ [BucketNext]_bucketVars => BucketIInv'
  <1> SUFFICES ASSUME BucketIInv, [BucketNext]_bucketVars PROVE BucketIInv'
    OBVIOUS
  <1>1. CASE UNCHANGED bucketVars
    BY <1>1 DEF bucketVars, BucketIInv, BucketTypeOK, ConfigsInv, StoredInv, HasConfig,
                Led, BucketName, MadeElsewhere
  <1> QED BY <1>1, LookInv, FirstDeployInv, DeployAgainInv, DestroyInInv DEF BucketNext

-----------------------------------------------------------------------------
\* Flags lead to the config they were used to store, whatever commands do with
\* other flags, until it is destroyed or another region's command takes the
\* namespace: nothing else misleads config.New.
THEOREM BucketIsFoundAgain == BucketSpec => []SameFlagsSameBucket
  <1>1. BucketIInv => SameFlagsSameBucket
    BY DEF BucketIInv, StoredInv, Led, SameFlagsSameBucket
  <1> QED BY <1>1, BucketInitInv, BucketStepInv, PTL DEF BucketSpec

\* The jobs of the pipeline, which are given the region and the namespace of the
\* config, find that config, with the same exception.
THEOREM JobsFindTheirConfig == BucketSpec => []JobFindsConfig
  <1>1. BucketIInv => JobFindsConfig
    BY DEF BucketIInv, ConfigsInv, Led, JobFindsConfig
  <1> QED BY <1>1, BucketInitInv, BucketStepInv, PTL DEF BucketSpec
=============================================================================
