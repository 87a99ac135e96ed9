---------------------------- MODULE ConfigBucket ----------------------------
(***************************************************************************)
(* How commands find the bucket with the config of a deployment            *)
(* (config/client.go).  Its name ends with the namespace or, for           *)
(* deployments older than namespaces, with the region.  Every command,     *)
(* `info` and `destroy` too, makes a bucket when it finds none.  Commands  *)
(* run one after the other, for one project on one provider.  Nothing      *)
(* keeps a namespace from being used in two regions, or from having the    *)
(* name of a region.                                                       *)
(***************************************************************************)
CONSTANTS Region, Namespace,
          NoNamespace,  \* --namespace is not given
          Flags         \* the pairs of --region and --namespace commands are given

ASSUME FlagsAreKnown ==
  /\ Flags \subseteq Region \X (Namespace \union {NoNamespace})
  /\ NoNamespace \notin Region \union Namespace

VARIABLES buckets,      \* the buckets there are
          configs,      \* the configs in them
          storedIn,     \* history: where the config of the flags was last stored
          maker         \* history: the region given to the command that made a bucket

bucketVars == <<buckets, configs, storedIn, maker>>

Ext == Region \union Namespace
Nowhere == "nowhere"
Conf == [region : Region, namespace : Ext, bucket : Ext]

BucketTypeOK ==
  /\ buckets \subseteq Ext
  /\ configs \subseteq Conf
  /\ storedIn \in [Flags -> Ext \union {Nowhere}]
  /\ maker \in [Ext -> Region \union {Nowhere}]

BucketInit ==
  /\ buckets = {} /\ configs = {}
  /\ storedIn = [f \in Flags |-> Nowhere] /\ maker = [e \in Ext |-> Nowhere]

\* determineNamespace
DetermineNamespace(f) == IF f[2] = NoNamespace THEN f[1] ELSE f[2]

\* Mutant: of two buckets the one named after the region is taken.
RegionFirst(f) ==
  IF f[1] \in buckets THEN f[1] ELSE DetermineNamespace(f)

\* determineBucketName: a bucket named after the region is taken only when there
\* is none named after the namespace.
BucketName(f) ==
  IF f[1] \in buckets /\ DetermineNamespace(f) \notin buckets
  THEN f[1] ELSE DetermineNamespace(f)

\* Mutant: the config has the region for its namespace.
NewConfigOfRegion(f) == [region |-> f[1], namespace |-> f[1], bucket |-> BucketName(f)]

\* NewConfig.  What namespace and region it has is what the jobs of the pipeline
\* are given, and `destroy` deletes the bucket it names.
NewConfig(f) ==
  [region |-> f[1], namespace |-> DetermineNamespace(f), bucket |-> BucketName(f)]

-----------------------------------------------------------------------------
\* config.New makes the bucket it names, if there is none.
MakeBucket(f) ==
  /\ buckets' = buckets \union {BucketName(f)}
  /\ maker' = IF BucketName(f) \in buckets THEN maker
              ELSE [maker EXCEPT ![BucketName(f)] = f[1]]

\* That is all that info, maintain and destroy do without a config, and commands
\* that fail early.
Look(f) ==
  /\ MakeBucket(f)
  /\ UNCHANGED <<configs, storedIn>>

HasConfig(e) == \E c \in configs : c.bucket = e

\* deploy makes a config where there is none.
FirstDeploy(f) ==
  /\ ~HasConfig(BucketName(f))
  /\ MakeBucket(f)
  /\ configs' = configs \union {NewConfig(f)}
  /\ storedIn' = [storedIn EXCEPT ![f] = BucketName(f)]

\* deploy keeps a config it finds, but refuses one of another region.
DeployAgain(f) ==
  /\ \E c \in configs : c.bucket = BucketName(f) /\ c.region = f[1]
  /\ storedIn' = [storedIn EXCEPT ![f] = BucketName(f)]
  /\ UNCHANGED <<buckets, configs, maker>>

\* destroy deletes the bucket the config names.  An object that cannot be deleted
\* keeps the bucket.
DestroyIn(f) ==
  \E c \in configs :
    /\ c.bucket = BucketName(f)
    /\ buckets' \in {buckets, buckets \ {c.bucket}}
    /\ maker' = [e \in Ext |-> IF e \in buckets' THEN maker[e] ELSE Nowhere]
    /\ configs' = configs \ {c}
    /\ storedIn' = [g \in Flags |-> IF storedIn[g] = c.bucket THEN Nowhere
                                    ELSE storedIn[g]]

BucketNext ==
  \E f \in Flags : Look(f) \/ FirstDeploy(f) \/ DeployAgain(f) \/ DestroyIn(f)

BucketSpec == BucketInit /\ [][BucketNext]_bucketVars
-----------------------------------------------------------------------------
\* The bucket named after the namespace was made with flags of another region.
MadeElsewhere(f) ==
  /\ DetermineNamespace(f) \in buckets
  /\ maker[DetermineNamespace(f)] # f[1]

\* The flags a config was stored under lead to it until it is destroyed, whatever
\* buckets other commands make meanwhile (determineBucketName), with one exception:
\* a config of a namespace that is in the bucket of its region is lost sight of as
\* soon as a command for another region makes a bucket for that namespace, or for
\* the region of that name.
SameFlagsSameBucket ==
  \A f \in Flags : storedIn[f] # Nowhere =>
    /\ HasConfig(storedIn[f])
    /\ \/ BucketName(f) = storedIn[f]
       \/ storedIn[f] = f[1] /\ MadeElsewhere(f)

\* The flags of the pipeline's jobs, which are the region and the namespace that
\* the config has (NewConfig), lead to that config, with the same exception.
JobFindsConfig ==
  \A c \in configs :
    \/ BucketName(<<c.region, c.namespace>>) = c.bucket
    \/ c.bucket = c.region /\ MadeElsewhere(<<c.region, c.namespace>>)
=============================================================================
