------------------------------ MODULE Destroy ------------------------------
(***************************************************************************)
(* `concourse-up destroy` (concourse/destroy.go): the VMs, what Terraform  *)
(* made, the volumes on AWS, and the bucket, in this order, while the      *)
(* director may still create VMs.  A run that failed is repeated, and      *)
(* starts from config.json.                                                *)
(***************************************************************************)
EXTENDS Naturals, Sequences

CONSTANTS VM, Director,   \* the VMs of a deployment, the director among them
          Deployments,    \* <<"AWS" or "GCP", how far its deploy came>>
          Fails           \* the steps of destroy that may fail

ASSUME DirectorIsAVM == Director \in VM
ASSUME DeploymentsAreKnown ==
  Deployments \subseteq {"AWS", "GCP"} \X {"config", "terraform", "bosh"}
ASSUME FailsAreKnown ==
  Fails \subseteq {"vms", "auto-delete", "terraform", "volumes", "bucket", "crash", "lost"}

File == {"config.json", "tfstate", "director-creds.yml", "director-state.json",
         "maintenance.json", "director-creds-backup.yml"}

VARIABLES
  iaas,
  bucket, files,  \* the bucket is there, and the objects in it
  infra,          \* the network and all else Terraform made: "all", "part", "none"
  vm,             \* "up", "going" once its deletion was asked for, "none"
  disk,           \* the volume of a VM: "kept", "auto" if it goes with it, "deleted"
  pc,
  todo,           \* the VMs that this run found and has not deleted
  volumes,        \* the volumes it has to delete
  found,          \* history: the VMs that the last run to list them found
  done            \* history: some run ended without an error

cloudVars == <<infra, vm, disk>>
bucketVars == <<bucket, files>>
vars == <<iaas, bucketVars, cloudVars, pc, todo, volumes, found, done>>

TypeOK ==
  /\ iaas \in {"AWS", "GCP"}
  /\ bucket \in BOOLEAN /\ files \subseteq File
  /\ infra \in {"all", "part", "none"}
  /\ vm \in [VM -> {"up", "going", "none"}]
  /\ disk \in [VM -> {"kept", "auto", "deleted"}]
  /\ pc \in {"idle", "list", "vms", "wait", "terraform", "volumes", "bucket"}
  /\ todo \subseteq VM /\ volumes \subseteq VM /\ found \subseteq VM
  /\ done \in BOOLEAN
  /\ pc = "volumes" \/ volumes # {} => iaas = "AWS"
  /\ pc = "wait" => iaas = "GCP"

\* What a deploy that succeeded, or failed in Terraform or before, left.
Init ==
  \E d \in Deployments :
    /\ iaas = d[1]
    /\ bucket = TRUE
    /\ LET bosh == d[2] = "bosh" IN
         /\ vm = [v \in VM |-> IF bosh THEN "up" ELSE "none"]
         /\ disk = [v \in VM |-> IF bosh THEN "kept" ELSE "deleted"]
    /\ \/ d[2] = "config" /\ infra = "none" /\ files = {"config.json"}
       \/ d[2] = "terraform" /\ infra = "part" /\ files = {"config.json", "tfstate"}
       \/ /\ d[2] = "bosh" /\ infra = "all"
          /\ files \in {File, File \ {"director-creds-backup.yml"},
                       File \ {"director-creds-backup.yml", "maintenance.json"}}
    /\ pc = "idle" /\ todo = {} /\ volumes = {} /\ found = {} /\ done = FALSE

-----------------------------------------------------------------------------
Goto(l) == pc' = l

\* The run ends, and what it held in memory is gone.
Exit == pc' = "idle" /\ todo' = {} /\ volumes' = {}

Present == {v \in VM : vm[v] # "none"}

\* config.New makes the bucket if there is none, and Load wants the config.
Start ==
  /\ pc = "idle"
  /\ bucket' = TRUE
  /\ Goto(IF "config.json" \in files THEN "list" ELSE "idle")
  /\ UNCHANGED <<iaas, files, cloudVars, todo, volumes, found, done>>

\* Mutant: the director is overlooked.
ListManagedVMs ==
  /\ pc = "list"
  /\ todo' = (IF iaas = "AWS" /\ infra = "none" THEN {} ELSE Present) \ {Director}
  /\ volumes' = IF iaas = "AWS" THEN todo' ELSE {}
  /\ found' = todo'
  /\ Goto("vms")
  /\ UNCHANGED <<iaas, bucketVars, cloudVars, done>>

\* The VMs in the VPC, or in the deployment's network.  Terraform's output
\* names the VPC as long as there is one.
ListVMs ==
  /\ pc = "list"
  /\ todo' = IF iaas = "AWS" /\ infra = "none" THEN {} ELSE Present
  /\ volumes' = IF iaas = "AWS" THEN todo' ELSE {}
  /\ found' = todo'
  /\ Goto("vms")
  /\ UNCHANGED <<iaas, bucketVars, cloudVars, done>>

\* DeleteVMsInVPC asks for all of them at once and does not wait.
TerminateVMs ==
  /\ pc = "vms" /\ iaas = "AWS"
  /\ vm' = [v \in VM |-> IF v \in todo /\ vm[v] = "up" THEN "going" ELSE vm[v]]
  /\ todo' = {}
  /\ Goto("terraform")
  /\ UNCHANGED <<iaas, bucketVars, infra, disk, volumes, found, done>>

\* DeleteVMsInDeployment asks for one after the other, with its disk: the error
\* of SetDiskAutoDelete is dropped.
DeleteVM(v) ==
  /\ pc = "vms" /\ iaas = "GCP" /\ v \in todo /\ vm[v] # "none"
  /\ disk' \in {[disk EXCEPT ![v] = "auto"]}
                 \union (IF "auto-delete" \in Fails THEN {disk} ELSE {})
  /\ vm' = [vm EXCEPT ![v] = "going"]
  /\ todo' = todo \ {v}
  /\ UNCHANGED <<iaas, bucketVars, infra, pc, volumes, found, done>>

\* ... and waits until none is left, which gives up after three minutes.
AllAskedFor ==
  /\ pc = "vms" /\ iaas = "GCP" /\ todo = {}
  /\ Goto("wait")
  /\ UNCHANGED <<iaas, bucketVars, cloudVars, todo, volumes, found, done>>

NoneLeft ==
  /\ pc = "wait" /\ Present = {}
  /\ Goto("terraform")
  /\ UNCHANGED <<iaas, bucketVars, cloudVars, todo, volumes, found, done>>

\* A call to the cloud fails.
VMsFail ==
  /\ pc \in {"list", "vms", "wait"} /\ "vms" \in Fails
  /\ Exit
  /\ UNCHANGED <<iaas, bucketVars, cloudVars, found, done>>

\* On GCP a VM that was found is gone when its turn comes, or some VM is still
\* there when the time is over.
GivesUp ==
  /\ iaas = "GCP"
  /\ \/ pc = "vms" /\ \E v \in todo : vm[v] = "none"
     \/ pc = "wait" /\ Present # {}
  /\ Exit
  /\ UNCHANGED <<iaas, bucketVars, cloudVars, found, done>>

\* Mutant: volumes are deleted whatever the provider.
AlwaysVolumes == "volumes"

\* Volumes are deleted on AWS only.
AfterTerraform == IF iaas = "AWS" THEN "volumes" ELSE "bucket"

\* terraform destroy.  The cloud keeps a network that a VM is on; Terraform waits
\* for those that are going and leaves its state in the bucket.
TerraformDestroy ==
  /\ pc = "terraform" /\ Present = {}
  /\ infra' = "none"
  /\ files' = files \union {"tfstate"}
  /\ Goto(AfterTerraform)
  /\ UNCHANGED <<iaas, bucket, vm, disk, todo, volumes, found, done>>

\* Mutant: the error of terraform destroy is dropped.
TerraformErrorDropped ==
  /\ pc = "terraform" /\ "terraform" \in Fails
  /\ infra' \in {infra} \union (IF infra = "none" THEN {} ELSE {"part"})
  /\ Goto(AfterTerraform)
  /\ UNCHANGED <<iaas, bucketVars, vm, disk, todo, volumes, found, done>>

TerraformFails ==
  /\ pc = "terraform" /\ "terraform" \in Fails
  /\ infra' \in {infra} \union (IF infra = "none" THEN {} ELSE {"part"})
  /\ Exit
  /\ UNCHANGED <<iaas, bucketVars, vm, disk, found, done>>

\* A VM that the run did not find keeps the network from going.
NetworkInUse ==
  /\ pc = "terraform" /\ \E v \in VM : vm[v] = "up"
  /\ infra' \in {infra, "part"}
  /\ Exit
  /\ UNCHANGED <<iaas, bucketVars, vm, disk, found, done>>

\* Mutant: the request for the volumes names the same one again and again.
OneVolumeOnly ==
  /\ pc = "volumes"
  /\ \E one \in VM :
       /\ volumes # {} => one \in volumes
       /\ disk' = [disk EXCEPT ![one] = IF volumes # {} /\ vm[one] = "none" THEN "deleted" ELSE @]
  /\ Goto("bucket")
  /\ UNCHANGED <<iaas, bucketVars, infra, vm, todo, volumes, found, done>>

\* DeleteVolumes deletes those that are not in use.
DeleteVolumes ==
  /\ pc = "volumes"
  /\ disk' = [v \in VM |-> IF v \in volumes /\ vm[v] = "none" THEN "deleted" ELSE disk[v]]
  /\ Goto("bucket")
  /\ UNCHANGED <<iaas, bucketVars, infra, vm, todo, volumes, found, done>>

VolumesFail ==
  /\ pc = "volumes" /\ "volumes" \in Fails
  /\ \E some \in SUBSET volumes :
       disk' = [v \in VM |-> IF v \in some /\ vm[v] = "none" THEN "deleted" ELSE disk[v]]
  /\ Exit
  /\ UNCHANGED <<iaas, bucketVars, infra, vm, found, done>>

\* The order in which DeleteVersionedBucket deletes the objects: as S3 lists
\* them, or as the GCP provider names them.
Order ==
  IF iaas = "AWS"
  THEN <<"config.json", "director-creds-backup.yml", "director-creds.yml",
         "director-state.json", "maintenance.json", "tfstate">>
  ELSE <<"config.json", "tfstate", "director-creds.yml", "director-state.json",
         "maintenance.json", "director-creds-backup.yml">>

\* What is left once the first n of them are deleted.
LeftAfter(n) == {f \in files : \E i \in (n + 1)..Len(Order) : Order[i] = f}

\* On GCP these have to be there.
Missing == IF iaas = "AWS" THEN {}
           ELSE {"tfstate", "director-creds.yml", "director-state.json"} \ files

DeleteAll ==
  /\ pc = "bucket" /\ Missing = {}
  /\ files' = {} /\ bucket' = FALSE
  /\ done' = TRUE
  /\ Exit
  /\ UNCHANGED <<iaas, cloudVars, found>>

\* Deleting an object fails, or the bucket itself.  On AWS an object that cannot
\* be deleted ends DeleteVersionedBucket without an error.
DeleteAllFails(n) ==
  /\ pc = "bucket"
  /\ "bucket" \in Fails \/ (n < Len(Order) /\ Order[n + 1] \in Missing)
  /\ \A i \in 1..n : Order[i] \notin Missing
  /\ files' = LeftAfter(n)
  /\ done' \in {done} \union (IF iaas = "AWS" /\ n < Len(Order) THEN {TRUE} ELSE {})
  /\ Exit
  /\ UNCHANGED <<iaas, bucket, cloudVars, found>>

\* The process is killed.
Crash ==
  /\ "crash" \in Fails
  /\ pc # "idle"
  /\ files' \in {files} \union (IF pc = "bucket" THEN {LeftAfter(n) : n \in 0..Len(Order)} ELSE {})
  /\ Exit
  /\ UNCHANGED <<iaas, bucket, cloudVars, found, done>>

-----------------------------------------------------------------------------
\* The cloud and the director go on by themselves.

\* A VM whose deletion was asked for is gone, and its volume with it if it was
\* marked for that.
VMGone(v) ==
  /\ vm[v] = "going"
  /\ vm' = [vm EXCEPT ![v] = "none"]
  /\ disk' = [disk EXCEPT ![v] = IF @ = "auto" THEN "deleted" ELSE @]
  /\ UNCHANGED <<iaas, bucketVars, infra, pc, todo, volumes, found, done>>

\* A VM fails, and is missing until the director has created it again.
VMLost(v) ==
  /\ "lost" \in Fails
  /\ vm[v] = "up"
  /\ vm' = [vm EXCEPT ![v] = "none"]
  /\ disk' = [disk EXCEPT ![v] = IF @ = "auto" THEN "deleted" ELSE @]
  /\ UNCHANGED <<iaas, bucketVars, infra, pc, todo, volumes, found, done>>

\* The director creates a VM that is missing, with the volume it had.
DirectorCreates(v) ==
  /\ vm[Director] = "up" /\ infra # "none"
  /\ vm[v] = "none" /\ disk[v] # "deleted"
  /\ vm' = [vm EXCEPT ![v] = "up"]
  /\ UNCHANGED <<iaas, bucketVars, infra, disk, pc, todo, volumes, found, done>>

Step ==
  \/ ListVMs \/ TerminateVMs \/ AllAskedFor \/ NoneLeft \/ TerraformDestroy
  \/ DeleteVolumes \/ DeleteAll
  \/ \E v \in VM : DeleteVM(v)

Failure ==
  \/ VMsFail \/ GivesUp \/ TerraformFails \/ NetworkInUse \/ VolumesFail \/ Crash
  \/ \E n \in 0..Len(Order) : DeleteAllFails(n)

Cloud == \E v \in VM : VMGone(v) \/ VMLost(v) \/ DirectorCreates(v)

Next == Start \/ Step \/ Failure \/ Cloud

Spec == Init /\ [][Next]_vars
-----------------------------------------------------------------------------
\* As long as the cloud holds anything of the deployment but volumes, the config
\* that a destroy has to start from is in the bucket: no failure may end in a
\* state that can only be cleaned up by hand (the order of Destroy).
ConfigOutlivesTheRest ==
  infra # "none" \/ Present # {} => "config.json" \in files

\* The volumes of the VMs that a successful run found are deleted, whatever the
\* VMs and the director did meanwhile: they are deleted after the VMs are gone.
FoundVolumesGo == done => \A v \in found : disk[v] = "deleted"

\* A destroy that is repeated until it succeeds takes everything but volumes
\* out of the cloud, whatever step fails or is cut short, and though the
\* director may still create VMs.
CloudIsCleared == <>[](infra = "none" /\ Present = {})

\* After a success no volume of a VM is left (what the system test of the
\* repository asserts, ci/tasks/lib/destroy.sh).
NoVolumeIsLeft == done => \A v \in VM : disk[v] = "deleted"
=============================================================================
