--------------------------- MODULE MCNatsRotation ---------------------------
(* Instances of NatsRotation for TLC, and the fairness of its liveness run. *)
EXTENDS NatsRotation

\* Recorded stages at which somebody deploys: between rotations only, or any.
Idle == {-1}
AnyStage == -1..4

\* A recreate task fails though all agents that are left would answer it.
NeedlessFailure == RecreateFails /\ \A v \in todo : Connected(director, agent[v])

\* Runs are repeated until the rotation is over, every step of a run is taken,
\* a run does not fail each time before create-env, `bosh recreate` or the
\* backup, and recreate tasks do not fail needlessly, nor is the director lost
\* while one runs, for ever.
Fairness ==
  /\ WF_vars(\E s \in 0..4 : StartMaintain(s))
  /\ WF_vars(Cli) /\ WF_vars(Bosh)
  /\ SF_vars(CreateEnv /\ ok')
  /\ SF_vars(Recreate) /\ SF_vars(Backup)
  /\ <>[][~NeedlessFailure /\ ~ConnectionLost]_vars

FairSpec == Spec /\ Fairness
=============================================================================
