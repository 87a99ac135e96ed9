---------------------------- MODULE NatsRotation ----------------------------
(***************************************************************************)
(* `concourse-up maintain --renew-nats-cert` (concourse/maintain.go) and   *)
(* the BOSH part of `concourse-up deploy` (deployBosh in                   *)
(* concourse/deploy.go, Deploy in bosh/aws_deploy.go and gcp_deploy.go),   *)
(* which share director-creds.yml in the bucket and the director itself.   *)
(* One command runs at a time; it can fail or be killed at every step.     *)
(***************************************************************************)
EXTENDS NatsKeys, Bucket, Integers

CONSTANTS VM,             \* the VMs of the concourse deployment
          DeployStages,   \* the recorded stages at which somebody deploys
          DeployKinds,    \* "deploy", and "self-update" for the pipeline's job
          StageFlags      \* the values given to --stage

ASSUME VMIsFinite == IsFiniteSet(VM) /\ VM # {}
ASSUME FaultsAreKnown == Faults \subseteq {"crash", "store", "resurrect"}
ASSUME DeploysAreKnown ==
  DeployStages \subseteq -1..4 /\ DeployKinds \subseteq {"deploy", "self-update"}
ASSUME FlagsAreStages == StageFlags \subseteq 0..4

VARIABLES
  \* the bucket
  creds,      \* director-creds.yml
  backup,     \* director-creds-backup.yml
  status,     \* StatusIndex of maintenance.json; -1 also stands for no file
  \* the director and the VMs
  director, agent,
  task,       \* the director task that holds the deployment lock, if any;
              \* it goes on when the command that waits for it is gone
  todo,       \* the VMs a recreate task has not come to
  \* the running command
  cmd, pc,
  index,      \* the stage renewCert is at
  mem,        \* the credentials it holds in memory
  ok,         \* no error so far
  \* history
  renewed,    \* the last renewCert ended without an error
  used        \* the CAs generated so far

bucketVars == <<creds, backup, status>>
boshVars == <<director, agent, task, todo>>
cliVars == <<cmd, pc, index, mem, ok>>
vars == <<bucketVars, boshVars, cliVars, renewed, used>>

TypeOK ==
  /\ creds \in Creds /\ backup \in Creds /\ mem \in Creds
  /\ status \in -1..4 /\ index \in 0..4
  /\ director \in DirectorKeys
  /\ agent \in [VM -> AgentKeys]
  /\ task \in {"none", "recreate", "deploy"}
  /\ todo \subseteq VM
  /\ cmd \in {"none", "maintain", "deploy", "self-update"}
  /\ pc \in {"idle", "task", "store", "wait", "clean", "record", "reset", "bosh",
             "deploy"}
  /\ ok \in BOOLEAN /\ renewed \in BOOLEAN
  /\ used \subseteq CA

\* A deployment that `concourse-up deploy` has just brought up.
Init ==
  \E c \in CA :
    /\ creds = [ca |-> c, ca2 |-> NoCA]
    /\ backup = NoCreds
    /\ status = -1
    /\ director = Steady(c)
    /\ agent = [v \in VM |-> Issued(Steady(c))]
    /\ task = "none" /\ todo = {}
    /\ cmd = "none" /\ pc = "idle" /\ index = 0 /\ mem = NoCreds /\ ok = TRUE
    /\ renewed = FALSE
    /\ used = {c}

-----------------------------------------------------------------------------
\* The process is gone, and what it held in memory with it.
Exit ==
  /\ cmd' = "none" /\ pc' = "idle" /\ index' = 0 /\ mem' = NoCreds /\ ok' = TRUE

Goto(l) == pc' = l /\ UNCHANGED <<cmd, index>>

\* CAs are left for the run to generate: the bound on the model's runs.
CALeft == Cardinality(CA \ used) >= Cardinality({NoCA} \intersect {creds.ca})
                                    + Cardinality({NoCA} \intersect {creds.ca2})

\* retrieveStage and determineStage: the stage after the recorded one, unless
\* --stage names another.
Determined == {status + 1} \union StageFlags

\* renewCert up to its loop.  The wait for the director's locks gives up after
\* ten minutes or at the first error and its result is dropped, so it holds
\* nothing back; a stage beyond the last one is refused.
StartMaintain(s) ==
  /\ pc = "idle"
  /\ s \in Determined
  /\ s < 5
  /\ CALeft
  /\ cmd' = "maintain" /\ pc' = "task" /\ index' = s
  /\ renewed' = FALSE
  /\ UNCHANGED <<mem, ok, bucketVars, boshVars, used>>

\* deploy, up to deployBosh; a self-update is deploy --self-update.
StartDeploy(kind) ==
  /\ pc = "idle"
  /\ status \in DeployStages
  /\ CALeft
  /\ cmd' = kind /\ pc' = "task"
  /\ UNCHANGED <<index, mem, ok, bucketVars, boshVars, renewed, used>>

\* Reading the configuration, the Terraform outputs or the credentials fails,
\* or cleanup finds no nats_ca_2 to move: the command ends with the error.
TaskFails ==
  /\ pc = "task"
  /\ Exit
  /\ UNCHANGED <<bucketVars, boshVars, renewed, used>>

\* The operations file a create-env of the running command is given.
Ops == CASE cmd # "maintain" -> "base"
         [] cmd = "maintain" /\ index = 0 -> "add-new-ca"
         [] OTHER -> "remove-old-ca"

\* create-env got as far as starting the director with the new manifest; a
\* task the old one was running is gone.
Restart(d) ==
  /\ director' = d /\ task' = "none" /\ todo' = {}
  /\ UNCHANGED agent

\* xEnv on the credentials of the bucket.  It generates what is missing, then
\* builds the director unless nothing changed; whether it fails before, between
\* or after these, the files it left are taken back.
CreateEnv ==
  /\ pc = "task" /\ (cmd = "maintain" => index \in {0, 2})
  /\ \E filled \in Filled(Ops, creds, used) :
       LET d == DirectorFrom(Ops, filled) IN
       \/ /\ ok' = TRUE
          /\ mem' = filled /\ used' = used \union Held(filled)
          /\ \/ Restart(d)
             \/ director = d /\ UNCHANGED boshVars
       \/ /\ ok' = FALSE
          /\ \/ mem' = filled /\ used' = used \union Held(filled) /\ Restart(d)
             \/ /\ mem' = filled /\ used' = used \union Held(filled)
                /\ UNCHANGED boshVars
             \/ mem' = creds /\ UNCHANGED <<used, boshVars>>
  /\ Goto(IF cmd # "maintain" /\ ok' THEN "bosh" ELSE "store")
  /\ UNCHANGED <<bucketVars, renewed>>

\* Deploy returns an error: AWS hands back the credentials it was given, but on
\* GCP a failing deployConcourse hands back none.
DeployFails ==
  /\ ok' = FALSE
  /\ mem' \in {mem} \union (IF Iaas = "GCP" THEN {NoCreds} ELSE {})
  /\ Goto("store")

\* The rest of Deploy: cloud config, stemcell, databases and `bosh deploy`,
\* which starts a task if it finds the deployment unlocked.  A self-update
\* returns once the deployment is being prepared.
BoshDeploy ==
  /\ pc = "bosh"
  /\ \/ /\ task = "none" /\ task' = "deploy"
        /\ Goto(IF cmd = "self-update" THEN "store" ELSE "deploy")
        /\ UNCHANGED <<ok, mem>>
     \/ DeployFails /\ UNCHANGED task
  /\ UNCHANGED <<bucketVars, director, agent, todo, renewed, used>>

\* createEnv and deployBosh store the state and the credentials whether or not
\* the command before failed, and only then report the error.
StoreCreds ==
  /\ pc = "store"
  /\ \E put \in Put(creds, mem) :
       /\ creds' = put.val
       /\ IF cmd = "maintain" /\ ok /\ put.res = "ok"
          THEN Goto("record") /\ mem' = NoCreds /\ UNCHANGED ok
          ELSE Exit
  /\ UNCHANGED <<backup, status, boshVars, renewed, used>>

\* Mutant: recreate returns without waiting for the task it started.
RecreateDetached ==
  /\ pc = "task" /\ cmd = "maintain" /\ index \in {1, 3}
  /\ task = "none"
  /\ task' = "recreate" /\ todo' = VM
  /\ Goto("record")
  /\ UNCHANGED <<mem, ok, bucketVars, director, agent, renewed, used>>

\* recreate: `bosh recreate` starts a task that takes the deployment lock.
Recreate ==
  /\ pc = "task" /\ cmd = "maintain" /\ index \in {1, 3}
  /\ task = "none"
  /\ task' = "recreate" /\ todo' = VM
  /\ Goto("wait")
  /\ UNCHANGED <<mem, ok, bucketVars, director, agent, renewed, used>>

\* cleanup first keeps the credentials aside ...
Backup ==
  /\ pc = "task" /\ cmd = "maintain" /\ index = 4
  /\ creds.ca2 # NoCA
  /\ \E put \in Put(backup, creds) :
       /\ backup' = put.val
       /\ IF put.res = "error" THEN Exit
          ELSE mem' = creds /\ Goto("clean") /\ UNCHANGED ok
  /\ UNCHANGED <<creds, status, boshVars, renewed, used>>

\* Mutant: cleanup drops nats_ca_2 and leaves nats_ca.
CleanupDropsNew ==
  /\ pc = "clean"
  /\ \E put \in Put(creds, [ca |-> mem.ca, ca2 |-> NoCA]) :
       /\ creds' = put.val
       /\ IF put.res = "error" THEN Exit
          ELSE mem' = NoCreds /\ Goto("record") /\ UNCHANGED ok
  /\ UNCHANGED <<backup, status, boshVars, renewed, used>>

\* Mutant: cleanup copies nats_ca_2 over nats_ca and leaves it in its place.
CleanupKeepsBoth ==
  /\ pc = "clean"
  /\ \E put \in Put(creds, [ca |-> mem.ca2, ca2 |-> mem.ca2]) :
       /\ creds' = put.val
       /\ IF put.res = "error" THEN Exit
          ELSE mem' = NoCreds /\ Goto("record") /\ UNCHANGED ok
  /\ UNCHANGED <<backup, status, boshVars, renewed, used>>

\* ... then stores them with nats_ca_2 in the place of nats_ca.
Cleanup ==
  /\ pc = "clean"
  /\ \E put \in Put(creds, [ca |-> mem.ca2, ca2 |-> NoCA]) :
       /\ creds' = put.val
       /\ IF put.res = "error" THEN Exit
          ELSE mem' = NoCreds /\ Goto("record") /\ UNCHANGED ok
  /\ UNCHANGED <<backup, status, boshVars, renewed, used>>

\* Mutant: the stage recorded is the one to do next.
RecordNext ==
  /\ pc = "record"
  /\ \E put \in Put(status, IF index < 4 THEN index + 1 ELSE 4) :
       /\ status' = put.val
       /\ \/ put.res = "error" /\ Exit
          \/ put.res = "ok" /\ index = 4 /\ Goto("reset") /\ UNCHANGED <<mem, ok>>
          \/ /\ put.res = "ok" /\ index < 4
             /\ pc' = "task" /\ index' = index + 1 /\ mem' = NoCreds
             /\ UNCHANGED <<cmd, ok>>
  /\ UNCHANGED <<creds, backup, boshVars, renewed, used>>

\* Mutant: the loop goes one stage too far.
RecordPastEnd ==
  /\ pc = "record"
  /\ \E put \in Put(status, index) :
       /\ status' = put.val
       /\ \/ put.res = "error" /\ Exit
          \/ /\ put.res = "ok"
             /\ pc' = "task" /\ index' = index + 1 /\ mem' = NoCreds
             /\ UNCHANGED <<cmd, ok>>
  /\ UNCHANGED <<creds, backup, boshVars, renewed, used>>

\* updateStage(i), and the loop's step to the next stage.
Record ==
  /\ pc = "record"
  /\ \E put \in Put(status, index) :
       /\ status' = put.val
       /\ \/ put.res = "error" /\ Exit
          \/ put.res = "ok" /\ index = 4 /\ Goto("reset") /\ UNCHANGED <<mem, ok>>
          \/ /\ put.res = "ok" /\ index < 4
             /\ pc' = "task" /\ index' = index + 1 /\ mem' = NoCreds
             /\ UNCHANGED <<cmd, ok>>
  /\ UNCHANGED <<creds, backup, boshVars, renewed, used>>

\* Mutant: renewCert returns after its loop without the last updateStage.
ResetForgotten ==
  /\ pc = "reset"
  /\ renewed' = TRUE
  /\ Exit
  /\ UNCHANGED <<bucketVars, boshVars, used>>

\* updateStage(-1) after the loop.
Reset ==
  /\ pc = "reset"
  /\ \E put \in Put(status, -1) : status' = put.val /\ renewed' = (put.res = "ok")
  /\ Exit
  /\ UNCHANGED <<creds, backup, boshVars, used>>

\* The process is killed between two steps.
Crash ==
  /\ "crash" \in Faults
  /\ pc # "idle"
  /\ Exit
  /\ UNCHANGED <<bucketVars, boshVars, renewed, used>>

-----------------------------------------------------------------------------
\* The director's side, which goes on when the command that asked is gone.

\* The recreate task replaces one VM; it stops the old one through its agent.
RecreateVM(v) ==
  /\ task = "recreate" /\ v \in todo
  /\ Connected(director, agent[v])
  /\ agent' = [agent EXCEPT ![v] = Issued(director)]
  /\ todo' = todo \ {v}
  /\ UNCHANGED <<director, task, cliVars, bucketVars, renewed, used>>

\* The task ends well, and with it the `bosh recreate` that waits for it.
RecreateDone ==
  /\ task = "recreate" /\ todo = {}
  /\ task' = "none"
  /\ IF pc = "wait" THEN Goto("record") /\ UNCHANGED <<mem, ok>>
     ELSE UNCHANGED cliVars
  /\ UNCHANGED <<director, agent, todo, bucketVars, renewed, used>>

\* The task fails: an agent does not answer, or the cloud does not.
RecreateFails ==
  /\ task = "recreate"
  /\ task' = "none" /\ todo' = {}
  /\ IF pc = "wait" THEN Exit ELSE UNCHANGED cliVars
  /\ UNCHANGED <<director, agent, bucketVars, renewed, used>>

\* A deploy task ends, well only if it could talk to every agent, and with it the
\* `bosh deploy` that waits for it; nobody waits for the one of a self-update, or of
\* a deploy that was killed.
DeployTaskEnds ==
  /\ task = "deploy"
  /\ task' = "none"
  /\ \/ pc # "deploy" /\ UNCHANGED cliVars
     \/ /\ pc = "deploy" /\ Goto("store")
        /\ \A v \in VM : Connected(director, agent[v])
        /\ UNCHANGED <<ok, mem>>
     \/ pc = "deploy" /\ DeployFails
  /\ UNCHANGED <<director, agent, todo, bucketVars, renewed, used>>

\* The bosh CLI loses the director and gives up on a task that goes on.
ConnectionLost ==
  /\ \/ pc = "wait" /\ Exit
     \/ pc = "deploy" /\ DeployFails
  /\ UNCHANGED <<boshVars, bucketVars, renewed, used>>

\* The health monitor's resurrector replaces a VM that went missing.
Resurrect(v) ==
  /\ "resurrect" \in Faults
  /\ agent' = [agent EXCEPT ![v] = Issued(director)]
  /\ UNCHANGED <<director, task, todo, cliVars, bucketVars, renewed, used>>

Cli ==
  \/ TaskFails \/ CreateEnv \/ BoshDeploy \/ StoreCreds
  \/ Recreate \/ Backup \/ Cleanup \/ Record \/ Reset

Bosh ==
  \/ RecreateDone \/ RecreateFails \/ DeployTaskEnds
  \/ \E v \in VM : RecreateVM(v)

Next ==
  \/ \E s \in 0..4 : StartMaintain(s)
  \/ \E kind \in DeployKinds : StartDeploy(kind)
  \/ Cli \/ Bosh \/ ConnectionLost \/ Crash
  \/ \E v \in VM : Resurrect(v)

Spec == Init /\ [][Next]_vars
-----------------------------------------------------------------------------
\* Every agent of the deployment and the director accept each other: no
\* create-env or recreate of a rotation, however it is interrupted and resumed,
\* may leave a VM that the director cannot talk to (renewCert's stages).
AgentsReachable == \A v \in VM : Connected(director, agent[v])

\* A renewCert that ended without an error has replaced the CA everywhere: the
\* director and every agent use the CA that director-creds.yml now calls
\* nats_ca and no other, which is not the one kept in the backup.
RenewedMeansRotated ==
  renewed =>
    /\ director = Steady(creds.ca)
    /\ \A v \in VM : agent[v] = Issued(Steady(creds.ca))
    /\ creds.ca2 = NoCA
    /\ backup.ca \notin {NoCA, creds.ca}

\* Every CA that signed a certificate in use by an agent, and the one that
\* signed the server's, is in director-creds.yml, so that the next create-env
\* can still name it (createEnv and deployBosh store it before they return).
UsedCAsAreHeld ==
  /\ \A v \in VM : agent[v].cert \in Held(creds)
  /\ director.server \in Held(creds)

\* The stage that renewCert would determine now can be carried out: it is a
\* stage, and the cleanup stage finds the second CA it moves (determineStage).
NextStageCanRun ==
  pc = "idle" =>
    /\ status + 1 < 5
    /\ status + 1 = 4 => creds.ca2 # NoCA

\* create-env never replaces the director under a task that recreates VMs,
\* although such a task goes on when its maintain was killed or lost the director,
\* and the result of waitForBOSHLocks is dropped: the next run has to come through
\* `bosh recreate` first, which needs the lock.  (The task of a deploy has no such
\* protection.)
RecreatesRunToTheirEnd ==
  [][~(task = "recreate" /\ task' = "none" /\ director' # director)]_vars

\* A rotation that is under way is completed, if runs that fail are repeated
\* with no --stage and BOSH does not fail for ever.
RotationCompletes == (status = 0) ~> (status = -1 /\ renewed)

Rollover == INSTANCE CaRollover WITH director <- director, agent <- agent

\* The rotation implements make-before-break.
ImplementsRollover == Rollover!Spec
=============================================================================
