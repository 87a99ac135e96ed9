# A TLA+ development for concourse-up

concourse-up deploys a BOSH director and, on it, a Concourse to AWS or GCP, keeps
it up to date from within that Concourse, rotates the director's NATS CA, and
destroys it all again. This directory holds models of its control flow, runs of
the model checker TLC on small instances of them, and proofs that TLAPS checks.

Nearly everything that can go wrong in this program goes wrong *between* steps.
Each command is a straight line of calls to things that keep state of their own
(bucket, cloud, director, Concourse), any of which can fail; there is no lock
and no transaction, and the remedy for a failure is to run the command again. The
models are about what such a repeated command finds.

## 1. Inventory

| Component | Source | State it keeps | Operations |
|---|---|---|---|
| Command line | `commands/` | flags of one run | `deploy`, `destroy`, `info`, `maintain` |
| Deploy | `concourse/deploy.go`, `config.go` | in memory: config, "domain updated" | load, Terraform, certificates, BOSH, pipeline, two `Update`s |
| Maintain | `concourse/maintain.go` | `maintenance.json` (stage done last) | five stages of the NATS CA rotation |
| Destroy | `concourse/destroy.go` | list of volumes, in memory | VMs, Terraform, volumes, bucket |
| Configuration bucket | `config/client.go`, `iaas/s3.go`, `iaas/gcp.go` | `config.json`, `director-state.json`, `director-creds.yml`, its backup, `maintenance.json` | read or replace an object, create and delete the bucket |
| BOSH client | `bosh/` | a temporary directory | `create-env`, cloud config, stemcell, databases, `deploy`, `recreate`, `locks` |
| bosh CLI wrapper | `bosh/internal/boshcli` | the two files of create-env | the command lines; detaching |
| Director manifest | `resource/assets/manifest.yml`, `maintenance/*.yml` | – | NATS keys before, during and after a rotation |
| Pipeline | `fly/` | the `self-update` pipeline in Concourse | log in, set, jobs `self-update` and `renew-https-cert` |
| Certificates | `certs/` | – | self-signed or ACME |
| Terraform | `terraform/`, `resource/assets/*/infrastructure.tf` | its state file in the bucket | apply, destroy, outputs |
| Cloud providers | `iaas/` | – | hosted zones, VMs, volumes, buckets |
| Info | `concourse/info.go`, `commands/info.go` | – | read the config, Terraform's outputs and, when its caller is let in, the director's VMs |
| Database proxy | `bosh/aws_db.go`, `gcp_db.go` | an ssh tunnel | create the databases |
| Binary cache | `util/bincache` | `~/.concourse-up/bin` | download once |
| Local files | `terraform/`, `bosh/internal/boshcli`, `bosh/internal/workingdir`, `fly/`, `util/` | files with secrets for the binaries it runs | write, run, read back, remove |

How they interact. A command reads `config.json`, changes it in memory and
writes all of it back, twice. `deploy` and `maintain` hand
`director-state.json` and `director-creds.yml` to `create-env` as files and
store what comes back. The director goes on with its tasks (deploy, recreate,
resurrection of VMs) after the command that asked for them is gone. The
pipeline that `deploy` sets runs `deploy` again, inside the Concourse it
deploys, so a self-update detaches from its own deployment. Nothing tells two
runs apart or orders them, except that a pipeline's two jobs share a serial
group.

What is hard, and the properties that make each part correct:

- *Rotation*: five stages, each of them two to four writes in different places,
  resumed from a recorded index. Correct when no VM and director ever stop
  accepting each other, a success means the CA was replaced everywhere, and what
  was started can be completed.
- *Deploy*: a run that fails at any step is followed by another that must find
  its way: to the director there is, with the keys there are, to a certificate for
  the name that is served. Correct when secrets in use are never lost, a
  success leaves what the config says, certificates are renewed in time, and a
  repeated deploy succeeds in the end.
- *Concurrent runs*: whole objects are read, changed and written back. Correct
  when no setting is lost to another run's copy.
- *Destroy*: ordered deletion that must be repeatable and leave nothing behind.
- *Settings*: a flag counts for the run that has it and, merged into the config, for all
  later ones. Correct when a setting is what it was given last, what infrastructure
  stands on never changes, and a deploy that failed may be repeated as it was.
- *Configuration bucket*: found by names that depend on which buckets there are. Correct
  when the flags that led to a config lead to it again.
- *Pipeline*: several calls of fly against a web node that may go away, beside users of
  the UI. Correct when success means that the pipeline is set, its job does not run
  unasked, and the wait ends.
- *Database proxy, binary cache*: goroutines and processes sharing a tunnel or a file;
  correct when success means that the databases are there, an interrupted run can be
  repeated, and a binary that was downloaded is not damaged.
- *Local files*: removed by deferred calls between steps that fail. Correct when nothing
  confidential is left and the caller gets what create-env made.
- *Address ranges*: one check of five flags. Correct when the subnets it lets through lie in the
  network and apart.
- *Hosted zones*: a search over pages that may not all come. Correct when a deploy goes on only with
  the longest zone that matches.

`PROJECT.json` lists every hazard with its line in the source, and the properties
that watch it.

## 2. Modules

| Module | Models |
|---|---|
| `Bucket` | writing one object, with the failures of both clouds |
| `NatsKeys` | NATS certificates of director and agents, `director-creds.yml`, and the director that each operations file builds |
| `NatsRotation` | `maintain --renew-nats-cert`, and the BOSH part of `deploy`, against the director and its VMs |
| `CaRollover` | the abstract promise of a rotation: keys only change make-before-break. It is a specification, not translated code |
| `Deploy` | `deploy` by hand and by the pipeline's jobs |
| `Destroy` | `destroy` on both providers, beside a director that is still up |
| `Settings` | how flags, config and Terraform's variables follow each other over deploys, self-updates and `info` |
| `ConfigBucket` | the bucket that `--region` and `--namespace` lead to |
| `FlyPipeline` | how a deploy sets the self-update pipeline |
| `Databases` | the creation of the databases through the tunnel |
| `Attempt` | the abstract promise of a step that may fail and be repeated, which `FlyPipeline` and `Databases` implement; a specification, not translated code |
| `BinCache` | commands that download the same binary |
| `LocalFiles` | the files written for terraform, `create-env`, `bosh deploy` and fly |
| `AddressRanges` | the ranges that `deploy` accepts |
| `HostedZone` | the DNS record of a domain |
| `MCNatsRotation`, `MCDeploy`, `MCDestroy`, `MCCommands` | instances and fairness for TLC |
| `CaRolloverProofs`, `NatsRotationProofs`, `DeployProofs`, `DestroyProofs` | theorems and proofs of the modules they are named after |
| `SettingsProofs`, `ConfigBucketProofs` | the same |
| `AttemptProofs` | of `Databases` and `FlyPipeline`, the two refinements of `Attempt` |
| `CommandsProofs` | of `AddressRanges`, `HostedZone`, `BinCache`, `LocalFiles`, and of their composition with the other small modules |

`NatsRotation` and `Deploy` both extend `Bucket`, `NatsRotation` extends
`NatsKeys`, and instantiates `CaRollover` on its variables `director` and
`agent` (the refinement mapping is the identity on these and forgets the rest).

### NatsRotation

`creds`, `backup` and `status` are three objects of the bucket; `director`,
`agent`, `task` and `todo` the keys in force and the task the director runs; `cmd`,
`pc`, `index`, `mem`, `ok` the running command. A certificate is represented by the
CA that signed it, which is all that NATS compares. `index` and `status` are the
variable of the loop in `renewCert` and `StatusIndex`; a stage is

    0 CreateEnv(add-new-ca)     StoreCreds  Record      createEnv
    1 Recreate  RecreateVM*     RecreateDone Record     recreate
    2 CreateEnv(remove-old-ca)  StoreCreds  Record      createEnv
    3 Recreate  RecreateVM*     RecreateDone Record     recreate
    4 Backup    Cleanup         Record      Reset       cleanup

A deploy comes in as `StartDeploy`, `CreateEnv`, `BoshDeploy`, `StoreCreds`. `BoshDeploy` starts a task
of the director, and the command waits for it (`pc = "deploy"`), unless it is a self-update. The
tasks of recreate and deploy go on when the command is killed (`Crash`) or its bosh CLI gives up
(`ConnectionLost`), and whatever command comes next meets them.

The result of `waitForBOSHLocks` is dropped by its caller, so it guards nothing
here either: create-env cuts short the task that runs. `TaskFails`, `DeployFails`, the failing half of
`CreateEnv`, the errors of `Put`, `RecreateFails`, `ConnectionLost` and `Crash` are the ways to end
early. `renewed`
and `used` are history: whether the last `renewCert` succeeded, and which CAs
were ever generated, so that a new one is new.

### Deploy

`config`, `creds` and `tracked` are objects of the bucket; `tracked` says whether
`director-state.json` names the director VM there is. `dns`, `director`, `web`,
`task` and `pipeline` are what Terraform, `create-env`, `bosh deploy` and `fly` have
made; `pc`, `conf`, `updated`, `mem`, `ok` belong to a run. The order of steps,
which differs for the pipeline's jobs because they detach from their deployment:

    by hand:     Load Apply Save Certs CreateEnv BoshDeploy (wait) StoreState
                 StoreCreds SetPipeline Final
    by a job:    Load Apply Save Certs SetPipeline CreateEnv BoshDeploy
                 StoreState StoreCreds Final

`--domain` is chosen in `Load`, where it is read, and the user's own certificate in
`Certs`. `wanted` is history: the domain of the last run that changed it and of which some
write reached the bucket (`Wants`). A certificate is a name and an identity whose `age` is 0, 1 (28 days
left, when a deploy renews it) or 2 (two days left, when the job starts one). `Ageing`
happens between runs only: it counts days where a run takes an hour. `create-env`
is external; what is used of it is that the director has a fixed
address, so that it cannot build one beside a director it does not know of, and
that it stops the old VM before it starts the new. Settings that are only copied
(sizes, tags, CIDRs, GitHub) are in `Settings`.

Secrets and certificate identities are taken again when nothing holds
them, so runs of any length need only as many as can be live at once: config,
web node and one run's task.

### Destroy

`files` are the objects of the bucket, `vm` and `disk` each VM and its volume, `infra` what
Terraform made, `todo` and `volumes` what the run holds in memory; the provider is
a variable, so that one run covers both. The order of steps:

    AWS: Start ListVMs TerminateVMs TerraformDestroy DeleteVolumes DeleteAll
    GCP: Start ListVMs DeleteVM* AllAskedFor NoneLeft TerraformDestroy DeleteAll

`VMGone`, `VMLost` and `DirectorCreates` go on beside them. Two things are assumed of the
cloud: a network is not deleted while a VM is on it, and Terraform's output names the
VPC as long as there is one.

### Settings

Many fields of the config follow one of four patterns, and one field of each is modelled:
`scale` (replaced when its flag is given), `zone` (fixed by the first deploy), `ranges` (given to
the first deploy, filled in by the first one of a release that knows them), `source` (who is let
in to the director, replaced by deploys by hand). `stored` is the config in the bucket, `conf` the one in the
hands of the run, `live` what Terraform applied last. The steps are those of `Deploy`, with
everything from the certificates to the pipeline as one (`DeployBosh`). Here every upload does
what it says: the failures of uploads are in `Deploy`.

### ConfigBucket

`buckets`, `configs` and, as history, `storedIn` (where the config of some flags is) and `maker` (the
region given to the command that made a bucket). `config.New` is called by every command and makes the
bucket when there is none, so the same pair of flags may be looked up before and after
other flags have made a bucket with a name that fits. A namespace may be used in several regions, or be
named like one. Both properties name the one case in which flags are misled
(`MadeElsewhere`): `info` without a namespace makes the bucket of region r2, `deploy` in r2 with namespace
n finds it and stores its config there, `deploy` in r1 with namespace n makes the bucket of n, and from
then on r2 and n lead to that one. Uploads are not split from the
creation of the bucket, and one project on one provider is modelled.

### FlyPipeline and Databases

Both follow one step of a deploy through calls that may fail, and through repetitions of the
deploy. In `FlyPipeline` the web node (`atc`) may go away at any time and users click in the UI
between runs; `tries` counts the logins that found no server; `inSync` tells whether fly has the version
of the Concourse it talks to, which a self-update has to bring about first. In `Databases`,
`tunnel` is what became of `ssh.Dial`, whose error its goroutine drops, and `conn` is the driver's
connection, which the system accepts for a listener that nobody serves: that is how a deploy hangs
(`Hanging`), until somebody interrupts it. Both instantiate `Attempt` with what was asked
for (`done`: the databases are there; the pipeline is set as wanted and unpaused) and what the caller was
told (`answer`).

### BinCache, LocalFiles

`BinCache` has `Download` step by step (`Stat`, `Open`, `Get`, `Copy`), for any number of commands that share
one file; `left` records that a kill, or an answer that was not the binary, left something else there,
which nothing in the code repairs. `LocalFiles` has the files of the four binaries, one after the
other; `director`, `held` and `store` count the changes of the director VM that the cloud, the
state file and the caller's copy know.

### AddressRanges, HostedZone

A range is the set of its addresses. A flag holds a range, or something that is none (`NoRange`), or
is not given (`NoFlag`), which `validateCidrRanges` tells apart: only when none is given are the
defaults taken.

A name is a sequence of letters, one of which is the dot. `HostedZone` goes through the loop of
`FindLongestMatchingHostedZone` zone by zone (`LookAt`), in any order, since pages come in none that
the program relies on; `longest` is what it has found so far. A page that cannot be had ends the
search (`ListingFails`): AWS returns nothing, GCP what it found together with the error, and
`setHostedZone` drops it.

## 3. Runs

| Run | Instance | Shows |
|---|---|---|
| `NatsRotation_safety` | 2 VMs, 4 CAs, AWS, crashes, lost connections, failing uploads, deploys and self-updates between rotations | `AgentsReachable`, `RenewedMeansRotated`, `UsedCAsAreHeld`, `RecreatesRunToTheirEnd`, and `ImplementsRollover` |
| `NatsRotation_progress` | 2 VMs, 3 CAs, AWS, VMs resurrected, self-updates | `NextStageCanRun`, `RotationCompletes` |
| `NatsRotation_stuck` | as safety, crashes | finds `NextStageCanRun` violated |
| `NatsRotation_middeploy` | deploys at any stage | finds `AgentsReachable` violated |
| `NatsRotation_gcpwipe` | GCP | finds `AgentsReachable` violated |
| `Deploy_safety` | 1 user, 1 job, one run at a time, 2 domains, 3 certificates that do not age, 3 secrets, AWS, crashes, failing uploads | `KeyIsKept`, `LoginWorks`, `ServedAsConfigured`, `DomainPersists`, `SecretsStay`, `CertFitsNewDomain` |
| `Deploy_progress` | the same with 1 domain, certificates that age, steps that fail but no kills | `DirectorIsTracked`, `CertIsRenewed`, `DeployCompletes` |
| `Deploy_stalecert` | as progress | finds `CertFitsDomain` violated |
| `Deploy_lostdomain` | two runs at the same time | finds `DomainPersists` violated |
| `Destroy_repeat` | director and 2 VMs, both providers, every step fails, kills, VMs lost; on GCP only deployments that came as far as BOSH | `ConfigOutlivesTheRest`, `FoundVolumesGo`, `CloudIsCleared` |
| `Destroy_volumes` | the same, Terraform fails | finds `NoVolumeIsLeft` violated |
| `Commands` | the eight small modules; a behaviour is one of one part, chosen at its start | all their properties |

### Bounds

Two VMs are enough to have agents with keys of different generations at one
time; more add no new combination of two, and the theorems hold for any number.
Four CAs allow three renewals, or one renewal and two generations that an
interruption threw away. `CALeft` stops new commands when they are used up, which is
why the rotation's runs do not check deadlock. In `Deploy` three
certificates and three secrets of each are those that can be live together;
one domain besides "none" and the public IP is enough to change, drop and
restore one; `Deploy_safety` has two, so that one asked for can be replaced by another. They
are symmetric, which is sound because the code compares domains and does nothing else with
them, and the run has no liveness property. `AtATime` is how many runs there are at once. `MaxAge` is 0 in the
safety run, where certificates are replaced because of a new domain or by one that is given,
and 2 in the progress run, where jobs and deploys renew them. Everything else is unbounded: failures, repetitions, kills.

In `Commands` the parts share no variable, so that checking them one at a time loses
nothing; `MCCommands` only keeps the others still. Three commands share the binary, so that one can find the
file, one write it and one come to open it at the same moment. The three databases are the code's. `Attempts`
is 3 where the code has 50: enough to tell the first, a middle and the last try apart. Two sets of
pipeline parameters and two scales, zones and hosts are one to keep and one to change to. The flags
are two regions without a namespace, one namespace in both, one in one of them, and one that has
the name of a region, so that names of both kinds meet in every way. The ranges are five nested blocks of 64
addresses, with sizes on either side of the limits of the network and of its subnets. The zones include two within
each other, one that a domain ends with inside a label, and one of its own. `MaxChange` 2 lets create-env change the
director, fail, and change it again.

### Fairness

*Rotation*: a new run is started while there is something to run (weak); each step of
a run and of the director's tasks is taken (weak); create-env, the start of
recreate, and the backup succeed if attempted again and again (strong: every
attempt may fail before it gets there); a recreate task whose VMs all answer does not
fail for ever, nor is the connection to the director lost for ever. All of that
is what an operator who repeats the command, and a cloud that recovers, provide; nothing
else is assumed, and VMs may be resurrected at any time.

*Deploy*: somebody repeats `deploy` until it once succeeded (strong, since another run
may be up); the job `renew-https-cert` is run when it is due, again and again (its
timer); a run's steps are taken (weak); `NeedlessFailure`, a step that fails though it could
have been taken, does not go on for ever; `TaskDone`
is strong because each run's create-env may cut short the task the run before it
left, and without it every task may be cut short that way.

*Destroy*: the command is repeated until it succeeded, its steps are taken, VMs that
are to go go, and neither needless failures nor lost VMs go on for ever.

*Commands*: commands are repeated and a server that is asked again and again answers with the
binary some time (`BinCache`); a deploy is repeated, its steps are taken, and one that hangs is interrupted
some time (`Databases`; `DatabasesCreated` speaks of behaviours in which, from some point on, nothing
fails outside, and `CalmDown` marks that point); a run of fly goes on by itself (`FlyPipeline`, which is all
that `RunEnds` needs, because attempts are counted). The other parts have safety properties only.

In the first three, failures that nothing could avoid (a login with the wrong password, a
create-env that does not know the director, an agent that does not answer, Terraform with a VM on its
network) are left free to happen for ever: a state in which only they are possible is
a counterexample, not a behaviour that fairness excludes.

### Disagreements found

1. `NatsRotation_stuck`: `README.md:289` says the stage is determined automatically.
   A run killed between `cleanup`'s store and `updateStage(4)` leaves a stage that
   fails for ever; one killed before `updateStage(-1)` leaves "stage 5", which is
   refused.
2. `NatsRotation_middeploy`: `deploy` between stages of a rotation builds the director from the
   plain manifest, with keys the agents no longer accept. Nothing in `deploy` looks at
   `maintenance.json`.
3. `NatsRotation_gcpwipe`: on GCP an error in `deployConcourse` hands back empty
   credentials, which `deployBosh` stores before it looks at the error.
4. `Deploy_stalecert`: "domain updated" is computed against a config that a failed
   run's first `Update` has changed already, so the repeated run keeps the old
   domain's certificate.
5. `Deploy_lostdomain`: a job that started before `deploy --domain` writes the
   old domain back.
6. `Destroy_volumes`: the volumes to delete are known to the run that terminated the
   VMs only; a run that repeats it after Terraform failed deletes none of them and
   reports success. The system test (`ci/tasks/lib/destroy.sh:23`) asserts that none are left.

Seen while modelling `Destroy`, in the model but with no run of their own: on AWS an object
that cannot be deleted ends `DeleteVersionedBucket` with success; on GCP
`config.json` is deleted first and three other objects must exist, so that a deployment that
failed in Terraform cannot be destroyed to the end; a disk that `SetDiskAutoDelete` could not
mark outlives its VM (`auto-delete`, which no run has in `Fails`). The second of these is
why the run has only GCP
deployments that came as far as BOSH. Lastly, any later destroy makes an empty bucket
(`config.New`) and finds no config in it.

Seen while modelling the small modules, and in them where it changes state, with no run of their own:

- `--allow-ips` is applied by every run whether or not it was given (`concourse/config.go:121`),
  where `README.md:137` lists it among the settings that persist.
- `--zone` is ignored on GCP, where Terraform's zone is `<region>-b` (`README.md:230` has
  no such exception), and with `--zone` alone `commands/deploy.go:259` announces a region
  that nothing uses.
- A first deploy with a wrong `--zone` stores it, and a later one with the right one is
  refused (`concourse/config.go:132`).
- `README.md:303` says that the pipeline is paused by default. The code unpauses the pipeline and
  pauses the job `self-update`, once more in every deploy (`RunsWhenAsked`).
- The messages of `validateCidrRanges` ask for a /26; a /27 is accepted. On GCP nothing but sizes of
  the two subnets is checked.
- `bosh/aws_concourse.go` returns no error when `buildTagsYaml` has one.
- The binary cache keeps whatever the server answers, an error page too, and runs it from
  then on. The director's certificate is valid for two years
  (`certs/generate.go:217`) and nothing renews it.
- A domain that is the name of a hosted zone itself, the example of `README.md:144`, is not cut off
  (`concourse/deploy.go:550`), so that on GCP the record gets the domain twice
  (`resource/assets/gcp/infrastructure.tf:104`); Route 53 completes a name only where the zone is missing.
  A zone that the domain ends with inside a label matches too, and is taken if it is the longest.
  `LongestZoneIsTaken` says which zone is taken, not how the record is named.
- `README.md:236-239` wants the ranges of the database within the network. `validateCidrRanges` looks at
  their first address only (`commands/deploy.go:348-354`), and at no overlap of theirs: a database subnet
  may be larger than the network. `PublicAndPrivateFit` is about the other two, for which the test for
  overlaps makes up.
- A namespace that is used in two regions can mislead commands, as said under `ConfigBucket`, and two
  namespaces of a region that has a bucket of its own share that bucket and the config in it.
  `README.md:99` knows of neither.
- The task of a `deploy` by hand whose CLI was killed or lost its connection is cut short by the next
  create-env, since nobody looks at the result of `waitForBOSHLocks` (`concourse/maintain.go:51`) and
  `deploy` does not wait at all. `RecreatesRunToTheirEnd` is about the tasks of the rotation, which its
  own stages protect; what the cut leaves behind is within what the other properties go through.
- `info --env` leaves a private key in a temporary file for its caller (`concourse/info.go:201`), by intent.
- `destroy --namespace` that is repeated after its bucket is gone may lead to the bucket of the
  region, if one is there.

## 4. Proofs

A theorem holds for every value of the constants that satisfies the assumptions named in the
module (`NoCAIsNoCA`, `FaultsAreKnown`, `NoneIsNoRecord`, ...); TLC evaluates these in every run.
Properties are first checked by TLC, then proved from an invariant that is
inductive.

| Theorem | Proves | Premises |
|---|---|---|
| `RolloverKeepsAgents` | of the abstract rollover: agents and director accept each other | – |
| `TypesHold` | `NatsRotation`'s `TypeOK`, with every fault and flag | – |
| `AlwaysReachable`, `RenewalsAreComplete`, `RotationRefinesRollover` | `AgentsReachable`, `RenewedMeansRotated`, and `Spec => Rollover!Spec` | `PlainUse` |
| `UsedCAsStayHeld` | `UsedCAsAreHeld` | `PlainUse`, no VM resurrected |
| `RecreatesAreLeftAlone` | `RecreatesRunToTheirEnd`, an action property | `PlainUse` |
| `StagesCanBeRun` | `NextStageCanRun`, on both clouds | `PlainStages`: no kills, no failing uploads |
| `DeployTyped` | `Deploy`'s `TypeOK`, any number of runs at once, every fault | – |
| `DirectorStaysTracked` | `DirectorIsTracked` | one run at a time, no kills, no failing uploads |
| `LoginStays`, `SuccessIsServed` | `LoginWorks`, `ServedAsConfigured`, with every failing step and kill | one run at a time; on GCP no failing uploads |
| `NewDomainIsCertified` | `CertFitsNewDomain`, an action property | one run at a time; on GCP no failing uploads |
| `KeyStays`, `SecretsNeverChange` | `KeyIsKept`, and `SecretsStay`, an action property, with every fault | one run at a time, AWS |
| `DomainStays` | `DomainPersists`, on both clouds, with every fault | one run at a time |
| `DestroyTyped`, `DestroyCanBeRepeated` | `TypeOK`, `ConfigOutlivesTheRest` | – |
| `SuccessClearsForGood` | after a success nothing but volumes is in the cloud, now and ever after | – |
| `FoundVolumesAreDeleted` | `FoundVolumesGo` | every disk can be marked (`auto-delete` is not in `Fails`) |
| `AllVolumesAreDeleted` | `NoVolumeIsLeft` | that, no VM lost and, for deployments on AWS, no kill and no failure of Terraform or of the deletion of volumes |
| `BucketIsFoundAgain`, `JobsFindTheirConfig` | `SameFlagsSameBucket`, `JobFindsConfig`, which name their exception | – |
| `ScaleIsKept`, `FoundationsAreKept`, `SameFlagsAccepted`, `DeployerStaysLetIn` | the four properties of `Settings` | – |
| `DatabasesImplementAttempt`, `PipelineImplementsAttempt` | the refinements of `Attempt` | – |
| `JobIsPausedFirst` | `RunsWhenAsked` | – |
| `AcceptedPairFits` | `PublicAndPrivateFit` | ranges nest or are apart, as CIDR blocks do (`BlocksNest`) |
| `DeploysTakeTheLongestZone` | `LongestZoneIsTaken`, for names of any letters and length | – |
| `BinaryStays` | `WholeStays` | – |
| `NoSecretsStay`, `StateIsReturned` | `NothingIsLeft`, `CallerKnowsDirector` | – |
| `PartsAreThemselves`, `CommandsTyped` | `CommandsSpec` implies the specification of each small module; `CommandsTypeOK` | – |

### The rotation

None of the rotation's properties is inductive. Whether an interrupted stage may be done
again depends on what is recorded, which keys are in force at that record, and what
the running command has in its hands; `IInv` says all three:

- `CredsInv` and `KeysInv`: which keys the file, the director and the agents may have at each
  recorded `status`. It has to allow for a stage whose effect took place and whose
  record did not, hence the disjunctions.
- `ControlInv` and `TasksInv`: where a command can be, at which stage, and which
  task the director may be running then.
- `WorkInv`: what the stage that is about to be recorded has done (`Done`).
- `RenewedInv`: what a success leaves, until the next run.
- `ResurrectInv`: where VMs are resurrected, the second CA of the director is the one in the file
  or the one about to be stored, since a VM may hold a certificate of it by then.

Each action has a lemma that it keeps `IInv`; `Inductive` puts them together, and the
refinement follows from the same invariant, with `Widen`, `Withdraw`, `Reissue` and `Narrow` as the images
of create-env and of `RecreateVM`.

`StagesCanBeRun` needs little of that. `StageInv` says where a command can be at each stage
(`StagePoints`: the last stage is on record only while its run is on the way to take it back) and
that the second CA stays, in the file and in the hands of whoever writes it, until the
cleanup moves it (`SecondCAStays`). It holds where agents are lost too: with deploys between any two
stages on AWS and with every other stage asked for by `--stage`. With a kill `NatsRotation_stuck`
violates it, so does an upload of the stage that fails, and `--stage 3` records a third
stage of which there was no first.

`PlainUse`, and the premises of two theorems, exclude what TLC shows to break the properties:

| Dropped condition | What then fails |
|---|---|
| on GCP, no deploys and no failing uploads | `AgentsReachable` (`NatsRotation_gcpwipe`); an upload may also fail silently |
| deploys only between rotations | `AgentsReachable` (`NatsRotation_middeploy`), and `RecreatesRunToTheirEnd`: a deploy replaces the director under the recreate of a rotation that was killed |
| no `--stage` | `AgentsReachable`: stage 2 done first makes a director with a CA no agent knows |
| VMs resurrected only where nobody deploys, nothing is killed and no upload fails | `AgentsReachable`: a VM resurrected after create-env made a CA that is then lost has a certificate that no later director knows |
| no VM resurrected at all | `UsedCAsAreHeld`: a VM resurrected between create-env and the store of its new CA |

### Deploy

`AtATime = 1` gives `OneRun`: of all runs, one is anywhere but idle. A self-update's task outlives
its run all the same, so the next run meets it.

- `TrackedInv`: the object in the bucket is right, or somebody is on the way to the step that stores
  what create-env wrote, and whoever is there has a state that is right.
- `SecretsInv` says which copies of the secrets agree at each step. `CopiesInv`: the config's
  password is the one of `director-creds.yml` and, once a deploy succeeded, that of the
  Concourse that is up *and* of the one a task is bringing up. `HandsInv`: a run's copies agree with
  the bucket's, unless the bucket has none yet. `WorkInv`: what a run without an error has brought
  about at each step. `SettledInv`: what the last of them leaves, until the next run starts.
- `DomainInv`: the bucket has the domain that is wanted (`BucketWanted`), and a run on its way to an
  `Update` either has it too or was told another (`WantedInv`). That needs no premise on failures:
  a write that is lost leaves the object, and what is wanted, as they were.
- `NewCertInv`: a run that found the domain updated has a certificate for it in its config from
  `Certs` on, however many runs there are. That this is what Concourse serves when the
  run succeeds (`NewDomainIsCertified`) is `WorkInv`'s part, and needs one run at a time. A
  run that repeats one which failed after the first `Update` finds nothing updated: that is
  `Deploy_stalecert`.

The step that matters is a task that fails, or is cut short, after the web node got new
secrets. It is harmless because `BoshDeploy` makes new ones only for variables that nothing
had (`BoshDeploySecrets`). `SecretsNeverChange` follows since what brings a Concourse up
(`WebComesAlone`) writes neither credentials nor config: before and after the step both agree with
the same copies.

On GCP a `deployConcourse` that fails returns no credentials, and an empty `director-creds.yml` is
stored. CredHub's key is lost by that, and `KeyIsKept` is false. The password is not: the
config has a copy that is put in its place. `OrLost` is the difference between the clouds in the
invariant, and it makes the two properties about passwords hold on GCP as long as an upload that is
taken for done was done (`Sure`); otherwise the config that should bring the password
back may not have been written. Two runs at once break `OneRun`: TLC shows that the
properties then fail.

### Destroy

`ClearedInv` has what each step has deleted by then; that nothing comes back afterwards is
inductive by itself, because the director that might create VMs is one of those that are gone.
`FoundInv` follows the disks of the VMs that a run found. For all volumes, `Living` are those that are
not deleted: on AWS each of them has its VM while a run may still find it, is then
in the hands of the run, and at the end there is none (`LivingInv`). A kill or a failing Terraform in
between (`Undisturbed`) is what loses them; on GCP the disks go with the VMs, and no such premise is
needed.

### The small modules

`ConfigBucketProofs`: a bucket that flags led to goes on being the one they lead to while it is there,
or is the region's and hidden by one that another region made (`Led`). A bucket made for other flags
has another name, or the region's, which comes second; one that is made with the name of the namespace while
the region's is there cannot be of the same region, or `determineBucketName` had taken the region's.
`SettingsProofs`: the config that is stored, the one of a run and what is built agree on zone and
ranges at every step (`FoundationInv`), which needs the config to be stored before anything is
built; who deployed by hand last is the source in all three (`SourceInv`).
`AttemptProofs`: the databases before `next` are there; a pipeline at the steps after `set` has the
parameters that are wanted, and only `Begin`, `WebNode` and users come between.
`CommandsProofs`: one command writes the file at a time (`OneWrites`); a file is there only while a step is
that removes it (`FilesInv`). Of zones,
the one kept is the longest of those looked at that match (`ZoneInv`), and the search ends well only when
all were looked at. Of ranges, two that begin in a third and not in each other are within it
(`TwoBeginIn`). At its end every step of
the composition is shown to be a step of one part or to leave it alone (`PartsMove`), so that the
theorems about parts and the run `Commands` are about the same behaviours.

### Only model-checked

Liveness (`RotationCompletes`, `CertIsRenewed`, `DeployCompletes`, `CloudIsCleared`,
`CommandsRunBinary`, `DatabasesCreated`, `RunEnds`): it is outside what the prover does. Of
`CloudIsCleared` the safety half is proved (`SuccessClearsForGood`). Every invariant, action
property and refinement of a passing run has a theorem. Of the properties that some run finds violated,
the table says under which premises they are theorems, but for `CertFitsDomain`: what is proved of it
is the half about the run that changes the domain itself (`CertFitsNewDomain`).

## 5. Plan

1. Done: the rotation and its proofs; `Deploy` and `Destroy`, with proofs; the small modules, their
   composition and their proofs.
2. Next:
   - two runs at once in `Deploy`: which of its properties hold for a job beside a deploy by hand, given that the
     pipeline's jobs share a serial group;
   - what of `NextStageCanRun` is left when runs are killed: the states that are stuck, and that there are no others;
   - the rest of `CertFitsDomain`: that it holds as long as no run fails between its two `Update`s
     with a domain that it changed.

## 6. Not modelled

- Terraform's and BOSH's templates: they are declarative and have no steps. What is used of them is
  the NATS block (`NatsKeys`) and which variables are given (`Settings`).
- Cloud APIs, the ACME exchange, key generation and Terraform are external: each is one step that may
  fail, before or after it took effect.
- The values that only pass through to a manifest, and what commands print.
- The checks of single flags (sizes by name, tags, a certificate without a key): each is one guard
  before anything happens.
- `--allow-ips`: a field that every run replaces has no history to say anything about.
- The project's own CI (`ci/`), its fakes and its tests: they are not part of the program.
