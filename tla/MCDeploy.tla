------------------------------ MODULE MCDeploy ------------------------------
(* Instances of Deploy for TLC, and the fairness of its liveness run. *)
EXTENDS Deploy, TLC

\* Which domain comes first makes no difference.
Symmetry == Permutations(Domain)

\* A step fails that could have been taken.  A failure that nothing could avoid,
\* such as a login with the wrong password, is not among these.
NeedlessFailure == TaskFails \/ \E p \in Proc : ENABLED Run(p) /\ Failure(p)

\* Steps do not fail for ever, a run that has started is taken to its end, and
\* not every task is cut short by the next run.  Somebody repeats the deploy
\* until it succeeded; afterwards only the pipeline's jobs are sure to run.
Fairness ==
  /\ \A p \in User : SF_vars(~deployed /\ StartDeploy(p))
  /\ \A p \in Job : SF_vars(StartRenewal(p))
  /\ \A p \in Proc : WF_vars(Run(p) \/ Failure(p))
  /\ SF_vars(TaskDone)
  /\ <>[][~NeedlessFailure]_vars

FairSpec == Spec /\ Fairness
=============================================================================
