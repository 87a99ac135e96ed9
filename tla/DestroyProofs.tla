---------------------------- MODULE DestroyProofs ----------------------------
(***************************************************************************)
(* That a destroy can always be repeated from the config in the bucket,    *)
(* that one which succeeds leaves nothing but volumes, and that it deletes *)
(* the volumes of the VMs it found, or all of them where nobody and        *)
(* nothing comes in between, for any number of VMs, steps that fail and    *)
(* runs that are cut short.                                                *)
(***************************************************************************)
EXTENDS Destroy, TLAPS

\* Past terraform destroy, and after a success, there is no VM and no director to
\* create one.
ClearedInv == pc \in {"volumes", "bucket"} \/ done => infra = "none" /\ Present = {}

\* A VM has its volume, and one that is marked to go with its VM does so.
DisksInv ==
  \A v \in VM : /\ vm[v] # "none" => disk[v] # "deleted"
                /\ vm[v] = "none" => disk[v] # "auto"

\* Where a run is with the volumes of the VMs it found.
FoundInv ==
  /\ iaas = "AWS" /\ pc \in {"vms", "terraform", "volumes"} => volumes = found
  /\ iaas = "GCP" /\ pc \in {"vms", "wait", "terraform"} =>
       \A v \in found \ todo : disk[v] # "kept"
  /\ pc \in {"wait", "terraform"} => todo = {}
  /\ pc = "bucket" \/ done => \A v \in found : disk[v] = "deleted"

DestroyInv == TypeOK /\ ConfigOutlivesTheRest /\ ClearedInv

-----------------------------------------------------------------------------
LEMMA DestroyInitInv == Init => DestroyInv
  <1> SUFFICES ASSUME Init PROVE DestroyInv
    OBVIOUS
  <1>1. PICK d \in Deployments :
          /\ iaas = d[1]
          /\ LET bosh == d[2] = "bosh" IN
               /\ vm = [v \in VM |-> IF bosh THEN "up" ELSE "none"]
               /\ disk = [v \in VM |-> IF bosh THEN "kept" ELSE "deleted"]
          /\ \/ d[2] = "config" /\ infra = "none" /\ files = {"config.json"}
             \/ d[2] = "terraform" /\ infra = "part" /\ files = {"config.json", "tfstate"}
             \/ /\ d[2] = "bosh" /\ infra = "all"
                /\ files \in {File, File \ {"director-creds-backup.yml"},
                             File \ {"director-creds-backup.yml", "maintenance.json"}}
    BY DEF Init
  <1>2. bucket = TRUE /\ pc = "idle" /\ todo = {} /\ volumes = {} /\ found = {} /\ done = FALSE
    BY DEF Init
  <1>3. iaas \in {"AWS", "GCP"}
    BY <1>1, DeploymentsAreKnown
  <1>4. /\ files \subseteq File /\ "config.json" \in files
        /\ infra \in {"all", "part", "none"}
    BY <1>1 DEF File
  <1>5. /\ vm \in [VM -> {"up", "going", "none"}]
        /\ disk \in [VM -> {"kept", "auto", "deleted"}]
    BY <1>1
  <1> QED BY <1>2, <1>3, <1>4, <1>5
          DEF DestroyInv, TypeOK, ConfigOutlivesTheRest, ClearedInv

\* What is deleted of the bucket was in it.
LEMMA LeftWasThere == \A n : LeftAfter(n) \subseteq files
  BY DEF LeftAfter

\* Listing, and what the run does with the VMs.
LEMMA VMSteps ==
  ASSUME DestroyInv,
         \/ Start \/ ListVMs \/ TerminateVMs \/ AllAskedFor \/ NoneLeft
         \/ VMsFail \/ GivesUp \/ \E v \in VM : DeleteVM(v)
  PROVE  DestroyInv'
  <1> USE DEF DestroyInv, TypeOK, ConfigOutlivesTheRest, ClearedInv, Present, Goto, Exit,
              bucketVars, cloudVars
  <1>1. CASE Start
    BY <1>1 DEF Start
  <1>2. CASE ListVMs
    BY <1>2 DEF ListVMs
  <1>3. CASE TerminateVMs
    BY <1>3 DEF TerminateVMs
  <1>4. CASE AllAskedFor \/ NoneLeft
    BY <1>4 DEF AllAskedFor, NoneLeft
  <1>5. CASE VMsFail \/ GivesUp
    BY <1>5 DEF VMsFail, GivesUp
  <1>6. ASSUME NEW v \in VM, DeleteVM(v) PROVE DestroyInv'
    BY <1>6 DEF DeleteVM
  <1> QED BY <1>1, <1>2, <1>3, <1>4, <1>5, <1>6

LEMMA TerraformSteps ==
  ASSUME DestroyInv, TerraformDestroy \/ TerraformFails \/ NetworkInUse
  PROVE  DestroyInv'
  <1> USE DEF DestroyInv, TypeOK, ConfigOutlivesTheRest, ClearedInv, Present, Goto, Exit,
              bucketVars, cloudVars
  <1>1. CASE TerraformDestroy
    BY <1>1 DEF TerraformDestroy, AfterTerraform, File
  <1>2. CASE TerraformFails
    BY <1>2 DEF TerraformFails
  <1>3. CASE NetworkInUse
    BY <1>3 DEF NetworkInUse
  <1> QED BY <1>1, <1>2, <1>3

LEMMA LastSteps ==
  ASSUME DestroyInv,
         \/ DeleteVolumes \/ VolumesFail \/ DeleteAll \/ Crash
         \/ \E n \in 0..Len(Order) : DeleteAllFails(n)
  PROVE  DestroyInv'
  <1> USE DEF DestroyInv, TypeOK, ConfigOutlivesTheRest, ClearedInv, Present, Goto, Exit,
              bucketVars, cloudVars
  <1>1. CASE DeleteVolumes \/ VolumesFail
    BY <1>1 DEF DeleteVolumes, VolumesFail
  <1>2. CASE DeleteAll
    BY <1>2 DEF DeleteAll
  <1>3. CASE Crash
    <2>1. files' \subseteq files /\ (pc = "bucket" \/ files' = files)
      BY <1>3, LeftWasThere DEF Crash
    <2> QED BY <1>3, <2>1 DEF Crash
  <1>4. ASSUME NEW n, DeleteAllFails(n) PROVE DestroyInv'
    <2>1. files' \subseteq files /\ done' \in BOOLEAN
      BY <1>4, LeftWasThere DEF DeleteAllFails
    <2> QED BY <1>4, <2>1 DEF DeleteAllFails
  <1> QED BY <1>1, <1>2, <1>3, <1>4

LEMMA CloudSteps ==
  ASSUME DestroyInv, Cloud
  PROVE  DestroyInv'
  <1> USE DEF DestroyInv, TypeOK, ConfigOutlivesTheRest, ClearedInv, Present, bucketVars
  <1>1. ASSUME NEW v \in VM, VMGone(v) \/ VMLost(v) PROVE DestroyInv'
    BY <1>1 DEF VMGone, VMLost
  <1>2. ASSUME NEW v \in VM, DirectorCreates(v) PROVE DestroyInv'
    BY <1>2, DirectorIsAVM DEF DirectorCreates
  <1> QED BY <1>1, <1>2 DEF Cloud

LEMMA DestroyStepInv == DestroyInv /\ [Next]_vars => DestroyInv'
  <1> SUFFICES ASSUME DestroyInv, [Next]_vars PROVE DestroyInv'
    OBVIOUS
  <1>1. CASE UNCHANGED vars
    BY <1>1 DEF vars, bucketVars, cloudVars, DestroyInv, TypeOK, ConfigOutlivesTheRest,
                ClearedInv, Present
  <1> QED BY <1>1, VMSteps, TerraformSteps, LastSteps, CloudSteps DEF Next, Step, Failure

\* Every state of a destroy has its type, volumes to delete on AWS only.
THEOREM DestroyTyped == Spec => []TypeOK
  <1>1. DestroyInv => TypeOK
    BY DEF DestroyInv
  <1> QED BY <1>1, DestroyInitInv, DestroyStepInv, PTL DEF Spec

\* Whatever fails, the config is there as long as there is anything but volumes.
THEOREM DestroyCanBeRepeated == Spec => []ConfigOutlivesTheRest
  <1>1. DestroyInv => ConfigOutlivesTheRest
    BY DEF DestroyInv
  <1> QED BY <1>1, DestroyInitInv, DestroyStepInv, PTL DEF Spec

\* A success means that the cloud holds nothing but volumes, and whatever is run,
\* fails or is created afterwards, it never holds anything again: what is left of
\* CloudIsCleared is that some run succeeds.
THEOREM SuccessClearsForGood ==
  Spec => [](done => [](infra = "none" /\ Present = {}))
  <1> DEFINE Cleared == infra = "none" /\ Present = {}
  <1>1. DestroyInv /\ done => Cleared
    BY DEF DestroyInv, ClearedInv
  <1>2. Cleared /\ [Next]_vars => Cleared'
    <2> SUFFICES ASSUME Cleared, [Next]_vars PROVE Cleared'
      OBVIOUS
    <2> USE DEF Present
    <2>1. CASE Start \/ Step
      BY <2>1 DEF Start, Step, ListVMs, TerminateVMs, AllAskedFor, NoneLeft, TerraformDestroy,
                  DeleteVolumes, DeleteAll, DeleteVM, cloudVars
    <2>2. CASE Failure
      BY <2>2 DEF Failure, VMsFail, GivesUp, TerraformFails, NetworkInUse, VolumesFail, Crash,
                  DeleteAllFails, cloudVars
    <2>3. CASE Cloud
      BY <2>3, DirectorIsAVM DEF Cloud, VMGone, VMLost, DirectorCreates
    <2>4. CASE UNCHANGED vars
      BY <2>4 DEF vars, cloudVars
    <2> QED BY <2>1, <2>2, <2>3, <2>4 DEF Next
  <1> HIDE DEF Cleared
  <1>3. Spec => [](done => []Cleared)
    BY <1>1, <1>2, DestroyInitInv, DestroyStepInv, PTL DEF Spec
  <1> QED BY <1>3 DEF Cleared

-----------------------------------------------------------------------------
\* The volumes.

LEMMA VolumesInit == Init => DisksInv /\ FoundInv
  <1> SUFFICES ASSUME Init PROVE DisksInv /\ FoundInv
    OBVIOUS
  <1>1. pc = "idle" /\ found = {} /\ done = FALSE
    BY DEF Init
  <1>2. \E b \in BOOLEAN : /\ vm = [v \in VM |-> IF b THEN "up" ELSE "none"]
                          /\ disk = [v \in VM |-> IF b THEN "kept" ELSE "deleted"]
    BY DEF Init
  <1> QED BY <1>1, <1>2 DEF DisksInv, FoundInv

LEMMA DisksStep ==
  ASSUME TypeOK, DisksInv, [Next]_vars
  PROVE  DisksInv'
  <1> USE DEF TypeOK, DisksInv
  <1>1. ASSUME UNCHANGED <<vm, disk>> PROVE DisksInv'
    BY <1>1
  <1>2. CASE TerminateVMs
    BY <1>2 DEF TerminateVMs
  <1>3. ASSUME NEW v \in VM, DeleteVM(v) PROVE DisksInv'
    BY <1>3 DEF DeleteVM
  <1>4. CASE DeleteVolumes \/ VolumesFail
    BY <1>4 DEF DeleteVolumes, VolumesFail
  <1>5. ASSUME NEW v \in VM, VMGone(v) \/ VMLost(v) PROVE DisksInv'
    BY <1>5 DEF VMGone, VMLost
  <1>6. ASSUME NEW v \in VM, DirectorCreates(v) PROVE DisksInv'
    BY <1>6 DEF DirectorCreates
  <1>7. CASE \/ Start \/ ListVMs \/ AllAskedFor \/ NoneLeft \/ VMsFail \/ GivesUp
             \/ TerraformDestroy \/ TerraformFails \/ NetworkInUse \/ DeleteAll \/ Crash
             \/ \E n \in 0..Len(Order) : DeleteAllFails(n)
    BY <1>1, <1>7 DEF Start, ListVMs, AllAskedFor, NoneLeft, VMsFail, GivesUp, TerraformDestroy,
                      TerraformFails, NetworkInUse, DeleteAll, Crash, DeleteAllFails, cloudVars
  <1>8. CASE UNCHANGED vars
    BY <1>1, <1>8 DEF vars, cloudVars
  <1> QED BY <1>2, <1>3, <1>4, <1>5, <1>6, <1>7, <1>8 DEF Next, Step, Failure, Cloud

\* Once there is no VM, a volume that was to go with its VM is gone.
LEMMA AllGone ==
  ASSUME TypeOK, DisksInv, Present = {}, NEW v \in VM, disk[v] # "kept"
  PROVE  disk[v] = "deleted"
  BY DEF TypeOK, DisksInv, Present

LEMMA FoundSteps ==
  ASSUME "auto-delete" \notin Fails, DestroyInv, DisksInv, FoundInv,
         \/ Start \/ ListVMs \/ TerminateVMs \/ AllAskedFor \/ NoneLeft
         \/ \E v \in VM : DeleteVM(v)
  PROVE  FoundInv'
  <1> USE DEF FoundInv, Goto
  <1>1. CASE Start
    BY <1>1 DEF Start, cloudVars, DestroyInv, TypeOK
  <1>2. CASE ListVMs
    <2>1. done => found' = {}
      BY <1>2 DEF ListVMs, DestroyInv, ClearedInv
    <2> QED BY <1>2, <2>1 DEF ListVMs, cloudVars
  <1>3. CASE TerminateVMs
    BY <1>3 DEF TerminateVMs
  <1>4. CASE AllAskedFor \/ NoneLeft
    BY <1>4 DEF AllAskedFor, NoneLeft, cloudVars, DestroyInv, TypeOK
  <1>5. ASSUME NEW v \in VM, DeleteVM(v) PROVE FoundInv'
    <2>1. /\ pc = "vms" /\ iaas = "GCP" /\ todo' = todo \ {v} /\ vm[v] # "none"
          /\ disk' = [disk EXCEPT ![v] = "auto"]
          /\ UNCHANGED <<iaas, pc, volumes, found, done>>
      BY <1>5 DEF DeleteVM
    <2>2. ~done
      BY <2>1 DEF DestroyInv, ClearedInv, Present
    <2> QED BY <2>1, <2>2 DEF DestroyInv, TypeOK
  <1> QED BY <1>1, <1>2, <1>3, <1>4, <1>5

LEMMA VolumeSteps ==
  ASSUME DestroyInv, DisksInv, FoundInv, TerraformDestroy \/ DeleteVolumes \/ DeleteAll
  PROVE  FoundInv'
  <1> USE DEF FoundInv, Goto
  <1>1. CASE TerraformDestroy
    <2>1. iaas = "GCP" => \A v \in found : disk[v] = "deleted"
      BY <1>1, AllGone DEF TerraformDestroy, DestroyInv, TypeOK
    <2> QED BY <1>1, <2>1 DEF TerraformDestroy, AfterTerraform, DestroyInv, TypeOK
  <1>2. CASE DeleteVolumes
    <2>1. volumes = found /\ Present = {} /\ found \subseteq VM
      BY <1>2 DEF DeleteVolumes, DestroyInv, TypeOK, ClearedInv
    <2>2. \A v \in found : disk'[v] = "deleted"
      BY <1>2, <2>1 DEF DeleteVolumes, Present
    <2> QED BY <1>2, <2>2 DEF DeleteVolumes
  <1>3. CASE DeleteAll
    BY <1>3 DEF DeleteAll, Exit, cloudVars
  <1> QED BY <1>1, <1>2, <1>3

\* A run that ends in a failure leaves the volumes of the one before deleted.
LEMMA EndingSteps ==
  ASSUME DestroyInv, DisksInv, FoundInv, Failure
  PROVE  FoundInv'
  <1> USE DEF FoundInv, Exit
  <1>1. CASE VMsFail \/ GivesUp \/ TerraformFails \/ NetworkInUse \/ Crash
    BY <1>1 DEF VMsFail, GivesUp, TerraformFails, NetworkInUse, Crash, cloudVars
  <1>2. CASE VolumesFail
    BY <1>2 DEF VolumesFail, DestroyInv, TypeOK
  <1>3. ASSUME NEW n, DeleteAllFails(n) PROVE FoundInv'
    BY <1>3 DEF DeleteAllFails, cloudVars
  <1> QED BY <1>1, <1>2, <1>3 DEF Failure

LEMMA CloudKeepsFound ==
  ASSUME DestroyInv, DisksInv, FoundInv, Cloud \/ UNCHANGED vars
  PROVE  FoundInv'
  <1> USE DEF FoundInv
  <1>1. ASSUME NEW v \in VM, VMGone(v) \/ VMLost(v) PROVE FoundInv'
    <2>1. /\ disk' = [disk EXCEPT ![v] = IF @ = "auto" THEN "deleted" ELSE @]
          /\ UNCHANGED <<iaas, pc, todo, volumes, found, done>>
      BY <1>1 DEF VMGone, VMLost
    <2> QED BY <2>1 DEF DestroyInv, TypeOK
  <1>2. ASSUME NEW v \in VM, DirectorCreates(v) PROVE FoundInv'
    BY <1>2 DEF DirectorCreates
  <1>3. CASE UNCHANGED vars
    BY <1>3 DEF vars, cloudVars
  <1> QED BY <1>1, <1>2, <1>3 DEF Cloud

\* A run that succeeds deletes the volumes of the VMs it found, on AWS by naming
\* them once their VMs are gone, on GCP with their VMs, if these can be marked.
THEOREM FoundVolumesAreDeleted ==
  ASSUME "auto-delete" \notin Fails PROVE Spec => []FoundVolumesGo
  <1> DEFINE Inv == DestroyInv /\ DisksInv /\ FoundInv
  <1>1. Init => Inv
    BY DestroyInitInv, VolumesInit
  <1>2. Inv /\ [Next]_vars => Inv'
    <2> SUFFICES ASSUME Inv, [Next]_vars PROVE Inv'
      OBVIOUS
    <2>1. DestroyInv' /\ DisksInv'
      BY DestroyStepInv, DisksStep DEF DestroyInv
    <2>2. FoundInv'
      BY FoundSteps, VolumeSteps, EndingSteps, CloudKeepsFound DEF Next, Step
    <2> QED BY <2>1, <2>2
  <1>3. Inv => FoundVolumesGo
    BY DEF FoundInv, FoundVolumesGo
  <1> QED BY <1>1, <1>2, <1>3, PTL DEF Spec

-----------------------------------------------------------------------------
\* All volumes.

Living == {v \in VM : disk[v] # "deleted"}

\* On AWS only the run that asked for the deletion of the VMs knows their volumes,
\* and it has to come to its end.  On GCP a volume goes with its VM.
Undisturbed == iaas = "GCP" \/ {"terraform", "volumes", "crash"} \intersect Fails = {}

\* Where the volumes are that are not deleted: with a VM that is up and that the
\* next run will find, or in the hands of this run.
LivingInv ==
  IF iaas = "GCP" THEN \A v \in VM : disk[v] = "kept" => vm[v] = "up"
  ELSE /\ pc \in {"idle", "list", "vms"} => \A v \in Living : vm[v] = "up" /\ infra # "none"
       /\ pc \in {"vms", "terraform", "volumes"} => Living \subseteq volumes
       /\ pc = "vms" => Living \subseteq todo
       /\ pc = "terraform" => \A v \in Living : vm[v] # "up"
       /\ pc = "bucket" \/ done => Living = {}

VolumesInv == DestroyInv /\ DisksInv /\ Undisturbed /\ LivingInv

LEMMA LivingInit ==
  ASSUME \A d \in Deployments :
           d[1] = "GCP" \/ {"terraform", "volumes", "crash"} \intersect Fails = {},
         Init
  PROVE  VolumesInv
  <1>1. PICK d \in Deployments :
          /\ iaas = d[1]
          /\ LET bosh == d[2] = "bosh" IN
               /\ vm = [v \in VM |-> IF bosh THEN "up" ELSE "none"]
               /\ disk = [v \in VM |-> IF bosh THEN "kept" ELSE "deleted"]
          /\ d[2] = "bosh" => infra = "all"
    BY DEF Init
  <1>2. pc = "idle" /\ done = FALSE
    BY DEF Init
  <1>3. Undisturbed
    BY <1>1 DEF Undisturbed
  <1>4. LivingInv
    BY <1>1, <1>2 DEF LivingInv, Living
  <1> QED BY <1>3, <1>4, DestroyInitInv, VolumesInit DEF VolumesInv

\* A VM that a volume is left of is there.
LEMMA LivingHasVM ==
  ASSUME VolumesInv, iaas = "AWS", pc \in {"idle", "list", "vms"}, NEW v \in Living
  PROVE  vm[v] = "up" /\ infra # "none"
  BY DEF VolumesInv, LivingInv

LEMMA RunKeepsLiving ==
  ASSUME "auto-delete" \notin Fails, VolumesInv, Start \/ Step
  PROVE  LivingInv'
  <1> USE DEF Goto, Exit, cloudVars, bucketVars
  <1>1. /\ iaas \in {"AWS", "GCP"} /\ iaas' = iaas /\ LivingInv
        /\ vm \in [VM -> {"up", "going", "none"}] /\ disk \in [VM -> {"kept", "auto", "deleted"}]
    BY DEF VolumesInv, DestroyInv, TypeOK, Start, Step, ListVMs, TerminateVMs, AllAskedFor,
           NoneLeft, TerraformDestroy, DeleteVolumes, DeleteAll, DeleteVM
  <1>2. CASE iaas = "GCP"
    <2>1. CASE \E v \in VM : DeleteVM(v)
      BY <1>1, <1>2, <2>1 DEF LivingInv, DeleteVM
    <2>2. CASE UNCHANGED <<vm, disk>>
      BY <1>1, <1>2, <2>2 DEF LivingInv
    <2>3. ~TerminateVMs /\ ~DeleteVolumes
      BY <1>2 DEF TerminateVMs, DeleteVolumes, VolumesInv, DestroyInv, TypeOK
    <2> QED BY <2>1, <2>2, <2>3 DEF Start, Step, ListVMs, AllAskedFor, NoneLeft,
                                    TerraformDestroy, DeleteAll
  <1>3. CASE iaas = "AWS"
    <2> USE <1>1, <1>3 DEF LivingInv, Living
    <2>1. CASE Start
      BY <2>1 DEF Start
    <2>2. CASE ListVMs
      <3>1. \A v \in Living : v \in volumes' /\ v \in todo'
        BY <2>2, LivingHasVM DEF ListVMs, Present
      <3> QED BY <2>2, <3>1 DEF ListVMs
    <2>3. CASE TerminateVMs
      <3>1. \A v \in VM : vm'[v] = "up" => v \notin todo
        BY <2>3 DEF TerminateVMs
      <3> QED BY <2>3, <3>1 DEF TerminateVMs
    <2>4. CASE TerraformDestroy
      BY <2>4 DEF TerraformDestroy, AfterTerraform
    <2>5. CASE DeleteVolumes
      <3>1. \A v \in VM : vm[v] = "none"
        BY <2>5 DEF DeleteVolumes, VolumesInv, DestroyInv, ClearedInv, Present
      <3> QED BY <2>5, <3>1 DEF DeleteVolumes
    <2>6. CASE DeleteAll
      BY <2>6 DEF DeleteAll
    <2>7. ~AllAskedFor /\ ~NoneLeft /\ ~(\E v \in VM : DeleteVM(v))
      BY DEF AllAskedFor, NoneLeft, DeleteVM, VolumesInv, DestroyInv, TypeOK
    <2> QED BY <2>1, <2>2, <2>3, <2>4, <2>5, <2>6, <2>7 DEF Step
  <1> QED BY <1>1, <1>2, <1>3

LEMMA FailuresKeepLiving ==
  ASSUME VolumesInv, Failure
  PROVE  LivingInv'
  <1> USE DEF Exit, cloudVars
  <1>1. iaas \in {"AWS", "GCP"} /\ iaas' = iaas /\ LivingInv
    BY DEF VolumesInv, DestroyInv, TypeOK, Failure, VMsFail, GivesUp, TerraformFails,
           NetworkInUse, VolumesFail, Crash, DeleteAllFails
  <1>2. CASE iaas = "GCP"
    <2>1. ~VolumesFail
      BY <1>2 DEF VolumesFail, VolumesInv, DestroyInv, TypeOK
    <2>2. UNCHANGED <<vm, disk>>
      BY <2>1 DEF Failure, VMsFail, GivesUp, TerraformFails, NetworkInUse, Crash, DeleteAllFails
    <2> QED BY <1>1, <1>2, <2>2 DEF LivingInv
  <1>3. CASE iaas = "AWS"
    <2> USE <1>1, <1>3 DEF LivingInv, Living
    <2>1. ~GivesUp /\ ~TerraformFails /\ ~VolumesFail /\ ~Crash
      BY DEF VolumesInv, Undisturbed, GivesUp, TerraformFails, VolumesFail, Crash
    <2>2. ~NetworkInUse
      BY DEF NetworkInUse, VolumesInv, DisksInv
    <2>3. CASE VMsFail
      BY <2>3 DEF VMsFail, VolumesInv, DestroyInv, TypeOK
    <2>4. ASSUME NEW n, DeleteAllFails(n) PROVE LivingInv'
      BY <2>4 DEF DeleteAllFails
    <2> QED BY <2>1, <2>2, <2>3, <2>4 DEF Failure
  <1> QED BY <1>1, <1>2, <1>3

\* The director has no VM to create: those whose volume is left are up, or it is
\* not up itself.
LEMMA CloudKeepsLiving ==
  ASSUME "lost" \notin Fails, VolumesInv, Cloud
  PROVE  LivingInv'
  <1> USE DEF LivingInv, Living
  <1>1. /\ iaas \in {"AWS", "GCP"} /\ LivingInv /\ DisksInv
        /\ vm \in [VM -> {"up", "going", "none"}] /\ disk \in [VM -> {"kept", "auto", "deleted"}]
        /\ pc \in {"idle", "list", "vms", "wait", "terraform", "volumes", "bucket"}
        /\ pc = "wait" => iaas = "GCP"
        /\ pc = "volumes" => \A v \in VM : vm[v] = "none"
    BY DEF VolumesInv, DestroyInv, TypeOK, ClearedInv, Present
  <1>2. ASSUME NEW v \in VM, VMGone(v) PROVE LivingInv'
    <2>1. /\ vm[v] = "going" /\ disk[v] # "deleted"
          /\ vm' = [vm EXCEPT ![v] = "none"]
          /\ disk' = [disk EXCEPT ![v] = IF @ = "auto" THEN "deleted" ELSE @]
          /\ UNCHANGED <<iaas, infra, pc, todo, volumes, done>>
      BY <1>1, <1>2 DEF VMGone, DisksInv
    <2> QED BY <1>1, <2>1
  <1>3. ASSUME NEW v \in VM, DirectorCreates(v) PROVE FALSE
    <2>1. /\ vm[Director] = "up" /\ vm[v] = "none" /\ disk[v] = "kept"
          /\ disk[Director] # "deleted"
      BY <1>1, <1>3, DirectorIsAVM DEF DirectorCreates, DisksInv
    <2> QED BY <1>1, <2>1, DirectorIsAVM
  <1> QED BY <1>2, <1>3 DEF Cloud, VMLost

\* After a success no volume of a VM is left, if no VM is lost, disks can be marked
\* on GCP, and on AWS every run that asked for the deletion of the VMs comes to its
\* last step: one that does not leaves them for good (concourse/destroy.go).
THEOREM AllVolumesAreDeleted ==
  ASSUME {"lost", "auto-delete"} \intersect Fails = {},
         \A d \in Deployments :
           d[1] = "GCP" \/ {"terraform", "volumes", "crash"} \intersect Fails = {}
  PROVE  Spec => []NoVolumeIsLeft
  <1>1. Init => VolumesInv
    BY LivingInit
  <1>2. VolumesInv /\ [Next]_vars => VolumesInv'
    <2> SUFFICES ASSUME VolumesInv, [Next]_vars PROVE VolumesInv'
      OBVIOUS
    <2>1. DestroyInv' /\ DisksInv'
      BY DestroyStepInv, DisksStep DEF VolumesInv, DestroyInv
    <2>2. Undisturbed'
      <3>1. iaas' = iaas
        BY DEF Next, Start, Step, ListVMs, TerminateVMs, AllAskedFor, NoneLeft, TerraformDestroy,
               DeleteVolumes, DeleteAll, DeleteVM, Failure, VMsFail, GivesUp, TerraformFails,
               NetworkInUse, VolumesFail, Crash, DeleteAllFails, Cloud, VMGone, VMLost,
               DirectorCreates, vars
      <3> QED BY <3>1 DEF VolumesInv, Undisturbed
    <2>3. CASE UNCHANGED vars
      <3>1. LivingInv'
        BY <2>3 DEF vars, cloudVars, VolumesInv, LivingInv, Living
      <3> QED BY <2>1, <2>2, <3>1 DEF VolumesInv
    <2>4. CASE Next
      BY <2>1, <2>2, <2>4, RunKeepsLiving, FailuresKeepLiving, CloudKeepsLiving
      DEF Next, VolumesInv
    <2> QED BY <2>3, <2>4
  <1>3. VolumesInv => NoVolumeIsLeft
    <2> SUFFICES ASSUME VolumesInv, done, NEW v \in VM PROVE disk[v] = "deleted"
      BY DEF NoVolumeIsLeft
    <2>1. CASE iaas = "GCP"
      BY <2>1 DEF VolumesInv, DestroyInv, TypeOK, ClearedInv, Present, DisksInv, LivingInv
    <2>2. CASE iaas = "AWS"
      BY <2>2 DEF VolumesInv, LivingInv, Living
    <2> QED BY <2>1, <2>2 DEF VolumesInv, DestroyInv, TypeOK
  <1> QED BY <1>1, <1>2, <1>3, PTL DEF Spec
=============================================================================
