----------------------------- MODULE MCDestroy -----------------------------
(* Instances of Destroy for TLC, and the fairness of its liveness property. *)
EXTENDS Destroy

\* On AWS a deployment that came any way, on GCP one that came as far as BOSH.
DeploysToBosh ==
  ({"AWS"} \X {"config", "terraform", "bosh"}) \union {<<"GCP", "bosh">>}

\* A step fails that could have been taken.  A failure that nothing could avoid,
\* such as that of Terraform while a VM is on the network, is not among these.
NeedlessFailure ==
  ENABLED Step /\ (VMsFail \/ TerraformFails \/ VolumesFail \/ Crash)

\* Somebody repeats the command until it succeeded, the run is taken to its end,
\* VMs that are to go go, and neither steps nor VMs fail for ever.
Fairness ==
  /\ WF_vars(~done /\ Start)
  /\ WF_vars(Step \/ Failure)
  /\ \A v \in VM : WF_vars(VMGone(v))
  /\ <>[][~(NeedlessFailure \/ \E v \in VM : VMLost(v))]_vars

FairSpec == Spec /\ Fairness
=============================================================================
