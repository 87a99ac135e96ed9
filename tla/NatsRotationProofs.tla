------------------------- MODULE NatsRotationProofs -------------------------
(***************************************************************************)
(* That a rotation keeps every agent reachable, for any number of VMs and  *)
(* CAs, if nobody deploys in the middle of it or gives a --stage (where    *)
(* VMs are resurrected while it runs, or on GCP, nobody may deploy at all, *)
(* and no upload fail); and that it implements CaRollover.  With a         *)
(* condition dropped, TLC refutes AgentsReachable, UsedCAsAreHeld or       *)
(* ImplementsRollover; the README lists the counterexamples.               *)
(***************************************************************************)
EXTENDS NatsRotation, TLAPS

\* The use of the program that the theorems are about.
PlainUse ==
  /\ Iaas = "AWS" \/ ("store" \notin Faults /\ DeployStages = {})
  /\ "resurrect" \in Faults => Faults = {"resurrect"} /\ DeployStages = {}
  /\ DeployStages \subseteq {-1}
  /\ StageFlags = {}

-----------------------------------------------------------------------------
\* The inductive invariant.

\* The CA that the agents end up with: cleanup may have moved it already.
NewCA == IF creds.ca2 = NoCA THEN creds.ca ELSE creds.ca2

\* A VM that was resurrected has the keys of the director there is.
Resurrected == IF "resurrect" \in Faults THEN {Issued(director)} ELSE {}

Agents(keys) == \A v \in VM : agent[v] \in keys \union Resurrected

\* director-creds.yml always names the CA in force, and a second one only if
\* it differs from it.
CredsInv ==
  /\ creds.ca \in CA /\ creds.ca2 # creds.ca
  /\ status \in {0, 1, 2} => creds.ca2 # NoCA
  /\ status = 4 => creds.ca2 = NoCA

\* The keys in use after each recorded stage.
KeysInv ==
  /\ status = -1 =>
       /\ \/ director = Steady(creds.ca)
          \/ \E m \in CA \ {creds.ca} : director = Overlap(creds.ca, m)
       /\ Agents({Issued(Steady(creds.ca))})
  /\ status = 0 =>
       /\ director = Overlap(creds.ca, creds.ca2)
       /\ Agents({Issued(Steady(creds.ca)), Issued(Overlap(creds.ca, creds.ca2))})
  /\ status = 1 =>
       /\ director \in {Overlap(creds.ca, creds.ca2), Steady(creds.ca2)}
       /\ Agents({Issued(Overlap(creds.ca, creds.ca2))})
  /\ status = 2 =>
       /\ director = Steady(creds.ca2)
       /\ Agents({Issued(Overlap(creds.ca, creds.ca2)), Issued(Steady(creds.ca2))})
  /\ status \in {3, 4} =>
       /\ director = Steady(NewCA)
       /\ Agents({Issued(Steady(NewCA))})

\* Where VMs are resurrected, the CA that the director is moving to is the one
\* in the file, or is about to be stored: a VM may hold a certificate of it.
ResurrectInv ==
  "resurrect" \in Faults /\ status = -1 =>
    \/ director = Steady(creds.ca)
    \/ director = Overlap(creds.ca, IF pc = "store" THEN mem.ca2 ELSE creds.ca2)

Deploying == cmd \in {"deploy", "self-update"}

\* Where the running command can be, and at which stage.
ControlInv ==
  /\ (pc = "idle") <=> (cmd = "none")
  /\ cmd \in {"none", "maintain"} \/ Deploying
  /\ Deploying =>
       status = -1 /\ status \in DeployStages /\ pc \in {"task", "bosh", "deploy", "store"}
  /\ pc \in {"bosh", "deploy"} => Deploying
  /\ cmd = "maintain" /\ pc # "reset" => index = status + 1
  /\ cmd = "maintain" /\ pc = "store" => index \in {0, 2}
  /\ pc = "wait" => index \in {1, 3}
  /\ pc = "clean" => index = 4
  /\ pc = "reset" => status = 4

\* A recreate task runs only while a recreate stage is due.
TasksInv ==
  /\ task = "recreate" => status \in {0, 2} /\ pc \in {"idle", "task", "wait"}
  /\ pc = "wait" =>
       /\ task = "recreate"
       /\ \A v \in VM \ todo : agent[v] = Issued(director)

\* The effect of stage i, which is recorded next.
Done(i) ==
  /\ i = 0 => creds.ca2 # NoCA /\ director = Overlap(creds.ca, creds.ca2)
  /\ i \in {1, 3} => Agents({Issued(director)})
  /\ i = 2 => director = Steady(creds.ca2)
  /\ i = 4 => creds.ca2 = NoCA /\ backup.ca \notin {NoCA, creds.ca}

\* What the running command holds in memory and has done.
WorkInv ==
  /\ pc \in {"bosh", "deploy"} => mem = creds
  /\ pc = "store" =>
       /\ Deploying \/ status # -1 => mem = creds
       /\ mem.ca = creds.ca /\ mem.ca2 # creds.ca
       /\ cmd = "maintain" /\ ok /\ status = -1 =>
            mem.ca2 # NoCA /\ director = Overlap(mem.ca, mem.ca2)
       /\ cmd = "maintain" /\ ok /\ status = 1 => director = Steady(creds.ca2)
  /\ pc = "clean" => mem = creds /\ backup = creds /\ creds.ca2 # NoCA
  /\ pc = "record" => Done(index)
  /\ pc = "reset" => Done(4)

\* A completed renewal, until the next one starts.
RenewedInv ==
  renewed =>
    /\ status = -1 /\ cmd # "maintain"
    /\ director = Steady(creds.ca)
    /\ creds.ca2 = NoCA /\ backup.ca \notin {NoCA, creds.ca}

KeysAndWork ==
  CredsInv /\ KeysInv /\ ResurrectInv /\ ControlInv /\ TasksInv /\ WorkInv /\ RenewedInv

IInv == TypeOK /\ KeysAndWork

-----------------------------------------------------------------------------
\* What the operators of NatsKeys and the bucket give back.

LEMMA KeysTyped ==
  ASSUME NEW c \in CA, NEW n \in CA
  PROVE  Steady(c) \in DirectorKeys /\ Overlap(c, n) \in DirectorKeys
  BY DEF Steady, Overlap, DirectorKeys

LEMMA IssuedTyped ==
  ASSUME NEW d \in DirectorKeys
  PROVE  Issued(d) \in AgentKeys
  BY DEF Issued, DirectorKeys, AgentKeys

\* The four pairs of director and agent that a rotation goes through.
LEMMA MakeBeforeBreak ==
  ASSUME NEW c, NEW n
  PROVE  /\ Connected(Steady(c), Issued(Steady(c)))
         /\ Connected(Overlap(c, n), Issued(Steady(c)))
         /\ Connected(Overlap(c, n), Issued(Overlap(c, n)))
         /\ Connected(Steady(n), Issued(Overlap(c, n)))
  BY DEF Connected, Steady, Overlap, Issued

\* create-env keeps the CAs of the file and only adds those that are missing.
LEMMA FilledKeeps ==
  ASSUME NEW k \in Creds, NEW seen, NEW ops, NEW f \in Filled(ops, k, seen)
  PROVE  /\ f \in Creds /\ f.ca \in CA
         /\ k.ca # NoCA => f.ca = k.ca
         /\ ops = "base" => f.ca2 = k.ca2
         /\ ops # "base" => f.ca2 \in CA
         /\ ops # "base" /\ k.ca2 # NoCA => f.ca2 = k.ca2
         /\ ops # "base" /\ k.ca2 = NoCA => f.ca2 # f.ca
  BY DEF Filled, Creds

LEMMA CredsEqual ==
  ASSUME NEW k \in Creds, NEW f \in Creds, f.ca = k.ca, f.ca2 = k.ca2
  PROVE  f = k
  BY DEF Creds

\* A write leaves the old object or the new one, and the new one if it
\* reports no error, except that on GCP a failed upload may go unreported.
LEMMA PutKeeps ==
  ASSUME NEW old, NEW new, NEW put \in Put(old, new)
  PROVE  /\ put.val \in {old, new} /\ put.res \in {"ok", "error"}
         /\ Iaas # "GCP" \/ "store" \notin Faults => (put.res = "ok" => put.val = new)
  <1>1. \/ put = [val |-> new, res |-> "ok"] \/ put = [val |-> new, res |-> "error"]
        \/ put = [val |-> old, res |-> "error"]
        \/ Iaas = "GCP" /\ "store" \in Faults /\ put = [val |-> old, res |-> "ok"]
    BY DEF Put
  <1> QED BY <1>1

\* Without failing uploads, a write leaves the new object and says so.
LEMMA PutWorks ==
  ASSUME "store" \notin Faults, NEW old, NEW new, NEW put \in Put(old, new)
  PROVE  put.val = new /\ put.res = "ok"
  BY DEF Put

\* What create-env may leave behind, whether it fails or not.
LEMMA CreateEnvKeeps ==
  ASSUME CreateEnv
  PROVE  \E f \in Filled(Ops, creds, used) :
           /\ mem' \in {f, creds} /\ ok' \in BOOLEAN
           /\ used' \in {used, used \union Held(f)}
           /\ director' \in {director, DirectorFrom(Ops, f)}
           /\ mem' # f => director' = director
           /\ ok' => mem' = f /\ director' = DirectorFrom(Ops, f)
           /\ <<task', todo'>> \in {<<task, todo>>, <<"none", {}>>}
           /\ agent' = agent
  BY DEF CreateEnv, Restart, boshVars

-----------------------------------------------------------------------------
\* Type correctness, whatever the constants.

LEMMA InitTyped == Init => TypeOK
  <1> SUFFICES ASSUME Init PROVE TypeOK
    OBVIOUS
  <1>1. PICK c \in CA :
          /\ creds = [ca |-> c, ca2 |-> NoCA] /\ used = {c}
          /\ director = Steady(c) /\ agent = [v \in VM |-> Issued(Steady(c))]
    BY DEF Init
  <1>2. Steady(c) \in DirectorKeys /\ Issued(Steady(c)) \in AgentKeys
    BY <1>1, KeysTyped, IssuedTyped
  <1>3. creds \in Creds /\ NoCreds \in Creds
    BY <1>1 DEF Creds, NoCreds
  <1>4. agent \in [VM -> AgentKeys]
    BY <1>1, <1>2
  <1>5. ok \in BOOLEAN /\ renewed \in BOOLEAN
    BY Zenon DEF Init
  <1> QED BY <1>1, <1>2, <1>3, <1>4, <1>5 DEF Init, TypeOK

\* The part of TypeOK about the running command.
CliTypeOK ==
  /\ cmd \in {"none", "maintain", "deploy", "self-update"}
  /\ pc \in {"idle", "task", "store", "wait", "clean", "record", "reset", "bosh",
             "deploy"}
  /\ index \in 0..4 /\ mem \in Creds /\ ok \in BOOLEAN

LEMMA ExitTyped == Exit => CliTypeOK'
  <1> SUFFICES ASSUME Exit PROVE CliTypeOK'
    OBVIOUS
  <1>1. ok' \in BOOLEAN
    BY Zenon DEF Exit
  <1>2. mem' \in Creds
    BY DEF Exit, NoCreds, Creds
  <1>3. cmd' = "none" /\ pc' = "idle" /\ index' = 0
    BY DEF Exit
  <1> QED BY <1>1, <1>2, <1>3 DEF CliTypeOK

LEMMA DeployFailsTyped == TypeOK /\ DeployFails => CliTypeOK'
  <1> SUFFICES ASSUME TypeOK, DeployFails PROVE CliTypeOK'
    OBVIOUS
  <1>1. mem' \in Creds
    BY DEF DeployFails, TypeOK, NoCreds, Creds
  <1>2. ok' \in BOOLEAN
    BY Zenon DEF DeployFails
  <1>3. pc' = "store" /\ UNCHANGED <<cmd, index>>
    BY DEF DeployFails, Goto
  <1> QED BY <1>1, <1>2, <1>3 DEF CliTypeOK, TypeOK

LEMMA CreateEnvTyped == TypeOK /\ CreateEnv => TypeOK'
  <1> SUFFICES ASSUME TypeOK, CreateEnv PROVE TypeOK'
    OBVIOUS
  <1>1. PICK f \in Filled(Ops, creds, used) :
           /\ mem' \in {f, creds} /\ ok' \in BOOLEAN
           /\ used' \in {used, used \union Held(f)}
           /\ director' \in {director, DirectorFrom(Ops, f)}
           /\ <<task', todo'>> \in {<<task, todo>>, <<"none", {}>>}
           /\ agent' = agent
    BY CreateEnvKeeps
  <1>2. Ops \in {"base", "add-new-ca", "remove-old-ca"}
    BY DEF Ops
  <1>3. f \in Creds /\ f.ca \in CA /\ (Ops # "base" => f.ca2 \in CA)
    BY <1>1, FilledKeeps DEF TypeOK
  <1>4. DirectorFrom(Ops, f) \in DirectorKeys
    BY <1>2, <1>3, KeysTyped DEF DirectorFrom
  <1>5. Held(f) \subseteq CA
    BY <1>3 DEF Held, Creds
  <1>6. /\ pc' \in {"bosh", "store"}
        /\ UNCHANGED <<cmd, index, creds, backup, status, renewed>>
    BY DEF CreateEnv, Goto, bucketVars
  <1> QED BY <1>1, <1>3, <1>4, <1>5, <1>6 DEF TypeOK

LEMMA CliTyped == TypeOK /\ Cli => TypeOK'
  <1> SUFFICES ASSUME TypeOK, Cli PROVE TypeOK'
    OBVIOUS
  <1> USE DEF bucketVars, boshVars, Goto
  <1>0. NoCreds \in Creds
    BY DEF NoCreds, Creds
  <1>1. CASE TaskFails
    BY <1>1, ExitTyped DEF TypeOK, CliTypeOK, TaskFails
  <1>2. CASE CreateEnv
    BY <1>2, CreateEnvTyped
  <1>3. CASE BoshDeploy
    <2>1. CliTypeOK'
      BY <1>3, DeployFailsTyped DEF TypeOK, CliTypeOK, BoshDeploy
    <2>2. task' \in {task, "deploy"}
      BY <1>3 DEF BoshDeploy
    <2>3. UNCHANGED <<bucketVars, director, agent, todo, renewed, used>>
      BY <1>3 DEF BoshDeploy
    <2> QED BY <2>1, <2>2, <2>3 DEF TypeOK, CliTypeOK
  <1>4. CASE StoreCreds
    <2>1. PICK put \in Put(creds, mem) :
            /\ creds' = put.val
            /\ \/ Goto("record") /\ mem' = NoCreds /\ UNCHANGED ok
               \/ Exit
      BY <1>4 DEF StoreCreds
    <2>2. creds' \in Creds
      BY <2>1, PutKeeps DEF TypeOK
    <2>3. UNCHANGED <<backup, status, boshVars, renewed, used>>
      BY <1>4 DEF StoreCreds
    <2>4. CliTypeOK'
      BY <1>0, <2>1, ExitTyped DEF TypeOK, CliTypeOK
    <2> QED BY <2>2, <2>3, <2>4 DEF TypeOK, CliTypeOK
  <1>5. CASE Recreate
    BY <1>5 DEF TypeOK, Recreate
  <1>6. CASE Backup
    <2>1. PICK put \in Put(backup, creds) :
            /\ backup' = put.val
            /\ \/ mem' = creds /\ Goto("clean") /\ UNCHANGED ok
               \/ Exit
      BY <1>6 DEF Backup
    <2>2. backup' \in Creds
      BY <2>1, PutKeeps DEF TypeOK
    <2>3. UNCHANGED <<creds, status, boshVars, renewed, used>>
      BY <1>6 DEF Backup
    <2>4. CliTypeOK'
      BY <1>0, <2>1, ExitTyped DEF TypeOK, CliTypeOK
    <2> QED BY <2>2, <2>3, <2>4 DEF TypeOK, CliTypeOK
  <1>7. CASE Cleanup
    <2>1. [ca |-> mem.ca2, ca2 |-> NoCA] \in Creds
      BY DEF TypeOK, Creds
    <2>2. PICK put \in Put(creds, [ca |-> mem.ca2, ca2 |-> NoCA]) :
            /\ creds' = put.val
            /\ \/ mem' = NoCreds /\ Goto("record") /\ UNCHANGED ok
               \/ Exit
      BY <1>7 DEF Cleanup
    <2>3. creds' \in Creds
      BY <2>1, <2>2, PutKeeps DEF TypeOK
    <2>4. UNCHANGED <<backup, status, boshVars, renewed, used>>
      BY <1>7 DEF Cleanup
    <2>5. CliTypeOK'
      BY <1>0, <2>2, ExitTyped DEF TypeOK, CliTypeOK
    <2> QED BY <2>3, <2>4, <2>5 DEF TypeOK, CliTypeOK
  <1>8. CASE Record
    <2>1. PICK put \in Put(status, index) :
            /\ status' = put.val
            /\ \/ Exit
               \/ Goto("reset") /\ UNCHANGED <<mem, ok>>
               \/ /\ index < 4
                  /\ pc' = "task" /\ index' = index + 1 /\ mem' = NoCreds
                  /\ UNCHANGED <<cmd, ok>>
      BY <1>8 DEF Record
    <2>2. status' \in -1..4
      BY <2>1, PutKeeps DEF TypeOK
    <2>3. UNCHANGED <<creds, backup, boshVars, renewed, used>>
      BY <1>8 DEF Record
    <2>4. CliTypeOK'
      BY <1>0, <2>1, ExitTyped DEF TypeOK, CliTypeOK
    <2> QED BY <2>2, <2>3, <2>4 DEF TypeOK, CliTypeOK
  <1>9. CASE Reset
    <2>1. PICK put \in Put(status, -1) : status' = put.val /\ renewed' = (put.res = "ok")
      BY <1>9 DEF Reset
    <2>2. status' \in -1..4
      BY <2>1, PutKeeps DEF TypeOK
    <2>3. renewed' \in BOOLEAN
      BY <2>1, Zenon
    <2>4. CliTypeOK'
      BY <1>9, ExitTyped DEF Reset
    <2>5. UNCHANGED <<creds, backup, boshVars, used>>
      BY <1>9 DEF Reset
    <2> QED BY <2>2, <2>3, <2>4, <2>5 DEF TypeOK, CliTypeOK
  <1> QED BY <1>1, <1>2, <1>3, <1>4, <1>5, <1>6, <1>7, <1>8, <1>9 DEF Cli

LEMMA StepTyped == TypeOK /\ [Next]_vars => TypeOK'
  <1> SUFFICES ASSUME TypeOK, [Next]_vars PROVE TypeOK'
    OBVIOUS
  <1> USE DEF bucketVars, boshVars, cliVars, Goto
  <1>0. NoCreds \in Creds /\ Issued(director) \in AgentKeys
    BY IssuedTyped DEF NoCreds, Creds, TypeOK
  <1>1. ASSUME NEW s \in 0..4, StartMaintain(s) PROVE TypeOK'
    BY <1>1 DEF TypeOK, StartMaintain
  <1>2. ASSUME NEW kind \in DeployKinds, StartDeploy(kind) PROVE TypeOK'
    BY <1>2, DeploysAreKnown DEF TypeOK, StartDeploy
  <1>3. CASE Cli
    BY <1>3, CliTyped
  <1>4. CASE RecreateDone
    BY <1>4 DEF TypeOK, RecreateDone
  <1>5. CASE RecreateFails
    <2>1. Exit \/ UNCHANGED cliVars
      BY <1>5 DEF RecreateFails
    <2>2. /\ task' = "none" /\ todo' = {}
          /\ UNCHANGED <<director, agent, bucketVars, renewed, used>>
      BY <1>5 DEF RecreateFails
    <2>3. CliTypeOK'
      BY <2>1, ExitTyped DEF TypeOK, CliTypeOK
    <2> QED BY <2>2, <2>3 DEF TypeOK, CliTypeOK
  <1>6. CASE DeployTaskEnds
    <2>1. CliTypeOK'
      BY <1>6, DeployFailsTyped DEF TypeOK, CliTypeOK, DeployTaskEnds
    <2>2. task' = "none" /\ UNCHANGED <<director, agent, todo, bucketVars, renewed, used>>
      BY <1>6 DEF DeployTaskEnds
    <2> QED BY <2>1, <2>2 DEF TypeOK, CliTypeOK
  <1>7. ASSUME NEW v \in VM, RecreateVM(v) PROVE TypeOK'
    BY <1>0, <1>7 DEF TypeOK, RecreateVM
  <1>8. CASE Crash
    BY <1>8, ExitTyped DEF TypeOK, CliTypeOK, Crash
  <1>8a. CASE ConnectionLost
    BY <1>8a, ExitTyped, DeployFailsTyped DEF TypeOK, CliTypeOK, ConnectionLost
  <1>9. ASSUME NEW v \in VM, Resurrect(v) PROVE TypeOK'
    BY <1>0, <1>9 DEF TypeOK, Resurrect
  <1>10. CASE UNCHANGED vars
    BY <1>10 DEF TypeOK, vars
  <1> QED BY <1>1, <1>2, <1>3, <1>4, <1>5, <1>6, <1>7, <1>8, <1>8a, <1>9, <1>10
      DEF Next, Bosh

\* Every variable keeps its type.
THEOREM TypesHold == Spec => []TypeOK
  BY InitTyped, StepTyped, PTL DEF Spec

-----------------------------------------------------------------------------
\* The inductive invariant, action by action.

LEMMA InitInv == Init => KeysAndWork
  <1> SUFFICES ASSUME Init PROVE KeysAndWork
    OBVIOUS
  <1>1. PICK c \in CA :
          /\ creds = [ca |-> c, ca2 |-> NoCA]
          /\ director = Steady(c) /\ agent = [v \in VM |-> Issued(Steady(c))]
    BY DEF Init
  <1>2. creds.ca = c /\ creds.ca2 = NoCA /\ c # NoCA
    BY <1>1, NoCAIsNoCA
  <1>3. status = -1 /\ pc = "idle" /\ cmd = "none" /\ task = "none" /\ ~renewed
    BY DEF Init
  <1>4. KeysInv /\ ResurrectInv
    BY <1>1, <1>2, <1>3 DEF KeysInv, ResurrectInv, Agents
  <1> QED BY <1>2, <1>3, <1>4
          DEF KeysAndWork, CredsInv, ControlInv, Deploying, TasksInv, WorkInv, RenewedInv

\* Steps that leave the credentials, the stage and all keys alone.
LEMMA KeysFrame ==
  ASSUME CredsInv, KeysInv, ResurrectInv, UNCHANGED <<creds, status, director, agent>>,
         \/ "resurrect" \notin Faults
         \/ pc # "store" /\ pc' # "store"
         \/ UNCHANGED <<pc, mem>>
  PROVE  CredsInv' /\ KeysInv' /\ ResurrectInv'
  <1>1. Resurrected' = Resurrected
    BY DEF Resurrected
  <1>2. CredsInv' /\ KeysInv'
    BY <1>1 DEF CredsInv, KeysInv, Agents, NewCA
  <1>3. ResurrectInv'
    BY DEF ResurrectInv
  <1> QED BY <1>2, <1>3

\* The end of a command, at whatever point.
LEMMA ExitInv ==
  ASSUME KeysAndWork, Exit, CredsInv', KeysInv', ResurrectInv', RenewedInv',
         task' \in {task, "none"}, task' = "recreate" => status' = status
  PROVE  KeysAndWork'
  <1>1. pc' = "idle" /\ cmd' = "none"
    BY DEF Exit
  <1>2. ControlInv' /\ WorkInv'
    BY <1>1 DEF ControlInv, Deploying, WorkInv
  <1>3. TasksInv'
    BY <1>1 DEF TasksInv, KeysAndWork
  <1> QED BY <1>2, <1>3 DEF KeysAndWork

LEMMA StartInv ==
  ASSUME PlainUse, IInv,
         \/ \E s \in 0..4 : StartMaintain(s)
         \/ \E kind \in DeployKinds : StartDeploy(kind)
  PROVE  KeysAndWork'
  <1> USE DEF bucketVars, boshVars
  <1>1. CASE \E s \in 0..4 : StartMaintain(s)
    <2>1. PICK s \in 0..4 : StartMaintain(s)
      BY <1>1
    <2>2. /\ s = status + 1 /\ pc = "idle" /\ pc' = "task"
          /\ cmd' = "maintain" /\ index' = s /\ ~renewed'
          /\ UNCHANGED <<creds, status, director, agent, task, todo>>
      BY <2>1 DEF StartMaintain, Determined, PlainUse
    <2>3. CredsInv' /\ KeysInv' /\ ResurrectInv'
      BY <2>2, KeysFrame DEF IInv, KeysAndWork
    <2> QED BY <2>2, <2>3
            DEF IInv, KeysAndWork, ControlInv, Deploying, TasksInv, WorkInv, RenewedInv
  <1>2. CASE \E kind \in DeployKinds : StartDeploy(kind)
    <2>1. PICK kind \in DeployKinds : StartDeploy(kind)
      BY <1>2
    <2>2. /\ status = -1 /\ status \in DeployStages
          /\ pc = "idle" /\ pc' = "task" /\ cmd' \in {"deploy", "self-update"}
          /\ UNCHANGED <<creds, backup, status, director, agent, task, todo, renewed>>
      BY <2>1, DeploysAreKnown DEF StartDeploy, PlainUse
    <2>3. CredsInv' /\ KeysInv' /\ ResurrectInv'
      BY <2>2, KeysFrame DEF IInv, KeysAndWork
    <2> QED BY <2>2, <2>3
            DEF IInv, KeysAndWork, ControlInv, Deploying, TasksInv, WorkInv, RenewedInv
  <1> QED BY <1>1, <1>2

\* The command ends and nothing else changes.
LEMMA EndInv ==
  ASSUME PlainUse, IInv, TaskFails \/ Crash
  PROVE  KeysAndWork'
  <1>1. /\ Exit /\ UNCHANGED <<creds, backup, status, director, agent, task, renewed>>
        /\ pc = "task" \/ "crash" \in Faults
    BY DEF TaskFails, Crash, bucketVars, boshVars
  <1>2. CredsInv' /\ KeysInv' /\ ResurrectInv'
    BY <1>1, KeysFrame DEF IInv, KeysAndWork, Exit, PlainUse
  <1>3. RenewedInv'
    BY <1>1 DEF IInv, KeysAndWork, RenewedInv, Exit
  <1> QED BY <1>1, <1>2, <1>3, ExitInv DEF IInv

\* A director in between two CAs tells which they are.
LEMMA OverlapIsOne ==
  ASSUME NEW c, NEW n, NEW m
  PROVE  /\ Overlap(c, m) = Overlap(c, n) => m = n
         /\ Steady(c) = Overlap(c, n) => c = n
  <1>1. Overlap(c, m).client = m /\ Overlap(c, n).client = n
    BY DEF Overlap
  <1>2. Steady(c).client = c
    BY DEF Steady
  <1> QED BY <1>1, <1>2

\* Where VMs are resurrected, a stage 0 that is done again finds the director
\* as it was, or where the first create-env left it.
LEMMA OneSecondCA ==
  ASSUME "resurrect" \in Faults, CredsInv, KeysInv, ResurrectInv, status = -1,
         pc # "store", NEW n, creds.ca2 # NoCA => n = creds.ca2
  PROVE  director = Steady(creds.ca) \/ director = Overlap(creds.ca, n)
  <1>1. PICK m \in CA : director \in {Steady(creds.ca), Overlap(creds.ca, m)}
    BY DEF KeysInv, CredsInv
  <1> QED BY <1>1, OverlapIsOne, NoCAIsNoCA DEF ResurrectInv

\* create-env of a deploy, of stage 0 and of stage 2.
LEMMA CreateEnvInv ==
  ASSUME PlainUse, IInv, CreateEnv
  PROVE  KeysAndWork'
  <1> USE DEF bucketVars, Goto
  <1>1. PICK f \in Filled(Ops, creds, used) :
           /\ mem' \in {f, creds}
           /\ director' \in {director, DirectorFrom(Ops, f)}
           /\ mem' # f => director' = director
           /\ ok' => mem' = f /\ director' = DirectorFrom(Ops, f)
           /\ <<task', todo'>> \in {<<task, todo>>, <<"none", {}>>}
           /\ agent' = agent
    BY CreateEnvKeeps
  <1>2. /\ pc = "task" /\ (cmd = "maintain" => index \in {0, 2})
        /\ pc' = (IF cmd # "maintain" /\ ok' THEN "bosh" ELSE "store")
        /\ UNCHANGED <<cmd, index, creds, backup, status, renewed>>
    BY DEF CreateEnv
  <1>3. /\ CredsInv /\ KeysInv /\ ResurrectInv /\ ControlInv /\ TasksInv /\ RenewedInv
        /\ creds \in Creds /\ status \in -1..4
    BY DEF IInv, KeysAndWork, TypeOK
  <1>4. /\ f \in Creds /\ f.ca = creds.ca
        /\ Ops = "base" => f.ca2 = creds.ca2
        /\ Ops # "base" => f.ca2 \in CA
        /\ Ops # "base" /\ creds.ca2 # NoCA => f.ca2 = creds.ca2
        /\ Ops # "base" /\ creds.ca2 = NoCA => f.ca2 # f.ca
    BY <1>3, FilledKeeps, NoCAIsNoCA DEF CredsInv
  <1>5. f.ca2 # creds.ca /\ CredsInv'
    BY <1>2, <1>3, <1>4 DEF CredsInv
  <1>6. /\ status \in {-1, 1}
        /\ cmd = "maintain" => index = status + 1
        /\ Deploying => status = -1 /\ "resurrect" \notin Faults
        /\ cmd = "maintain" \/ Deploying
        /\ ~(cmd = "maintain" /\ Deploying)
    BY <1>2, <1>3 DEF ControlInv, Deploying, PlainUse
  <1>7. task' # "recreate" /\ pc' \in {"bosh", "store"}
    BY <1>1, <1>2, <1>3, <1>6 DEF TasksInv
  <1>8. ControlInv' /\ TasksInv'
    BY <1>2, <1>3, <1>6, <1>7 DEF ControlInv, Deploying, TasksInv
  <1>9. CASE Deploying
    <2>0. Ops = "base"
      BY <1>6, <1>9 DEF Ops
    <2>1. DirectorFrom(Ops, f) = Steady(creds.ca)
      BY <1>4, <2>0 DEF DirectorFrom
    <2>2. f = creds
      BY <1>3, <1>4, <2>0, CredsEqual
    <2>3. KeysInv' /\ ResurrectInv'
      BY <1>1, <1>2, <1>3, <1>6, <1>9, <2>1
         DEF KeysInv, Agents, Resurrected, ResurrectInv
    <2>4. WorkInv'
      BY <1>1, <1>2, <1>3, <1>7, <1>9, <2>2 DEF WorkInv, CredsInv, Deploying
    <2>5. RenewedInv'
      BY <1>1, <1>2, <1>3, <2>1 DEF RenewedInv
    <2> QED BY <1>5, <1>8, <2>3, <2>4, <2>5 DEF KeysAndWork
  <1>10. CASE cmd = "maintain" /\ status = -1
    <2>1. Ops = "add-new-ca" /\ index = 0
      BY <1>6, <1>10 DEF Ops
    <2>2. DirectorFrom(Ops, f) = Overlap(creds.ca, f.ca2) /\ f.ca2 \in CA \ {creds.ca}
      BY <1>4, <1>5, <2>1 DEF DirectorFrom
    <2>3. KeysInv' /\ ResurrectInv'
      <3>2. ASSUME "resurrect" \in Faults
            PROVE  /\ director' \in {Steady(creds.ca), Overlap(creds.ca, mem'.ca2)}
                   /\ director' = director \/ director = Steady(creds.ca)
        <4>1. creds.ca2 # NoCA => f.ca2 = creds.ca2 /\ mem'.ca2 = creds.ca2
          BY <1>1, <1>4, <2>1
        <4>2. /\ director = Steady(creds.ca) \/ director = Overlap(creds.ca, f.ca2)
              /\ director = Steady(creds.ca) \/ director = Overlap(creds.ca, mem'.ca2)
          BY <1>2, <1>3, <1>10, <3>2, <4>1, OneSecondCA
        <4> QED BY <1>1, <2>2, <4>2
      <3>3. ResurrectInv'
        BY <1>2, <1>6, <1>10, <3>2 DEF ResurrectInv
      <3>4. \A v \in VM :
              agent[v] = Issued(Steady(creds.ca)) \/ agent[v] \in Resurrected
        BY <1>3, <1>10 DEF KeysInv, Agents
      <3>5. \A v \in VM :
              agent[v] = Issued(Steady(creds.ca)) \/ agent[v] \in Resurrected'
        BY <3>2, <3>4 DEF Resurrected
      <3>6. KeysInv'
        BY <1>1, <1>2, <1>3, <1>10, <2>2, <3>5 DEF KeysInv, Agents
      <3> QED BY <3>3, <3>6
    <2>4. WorkInv'
      BY <1>1, <1>2, <1>3, <1>4, <1>5, <1>6, <1>10, <2>2, NoCAIsNoCA
         DEF WorkInv, CredsInv, Deploying
    <2>5. RenewedInv'
      BY <1>2, <1>3, <1>10 DEF RenewedInv
    <2> QED BY <1>5, <1>8, <2>3, <2>4, <2>5 DEF KeysAndWork
  <1>11. CASE cmd = "maintain" /\ status = 1
    <2>1. Ops = "remove-old-ca" /\ creds.ca2 # NoCA
      BY <1>3, <1>6, <1>11 DEF Ops, CredsInv
    <2>2. f = creds /\ DirectorFrom(Ops, f) = Steady(creds.ca2)
      BY <1>3, <1>4, <2>1, CredsEqual DEF DirectorFrom
    <2>3. KeysInv' /\ ResurrectInv'
      BY <1>1, <1>2, <1>3, <1>11, <2>2 DEF KeysInv, Agents, Resurrected, ResurrectInv
    <2>4. WorkInv'
      BY <1>1, <1>2, <1>3, <1>6, <1>11, <2>2 DEF WorkInv, CredsInv, Deploying
    <2>5. RenewedInv'
      BY <1>2, <1>3, <1>11 DEF RenewedInv
    <2> QED BY <1>5, <1>8, <2>3, <2>4, <2>5 DEF KeysAndWork
  <1> QED BY <1>6, <1>9, <1>10, <1>11

\* Deploy fails, before its task, with it or without it.
LEMMA DeployFailsInv ==
  ASSUME PlainUse, IInv, pc \in {"bosh", "deploy"}, DeployFails,
         UNCHANGED <<creds, backup, status, director, agent, renewed>>,
         task' \in {task, "none"}
  PROVE  KeysAndWork'
  <1>1. pc' = "store" /\ (mem' = mem \/ Iaas = "GCP") /\ UNCHANGED <<cmd, index>>
    BY DEF DeployFails, Goto
  <1>2. CredsInv /\ KeysInv /\ ResurrectInv /\ ControlInv /\ TasksInv /\ WorkInv /\ RenewedInv
    BY DEF IInv, KeysAndWork
  <1>3. Deploying /\ status = -1 /\ status \in DeployStages /\ mem = creds
    BY <1>1, <1>2 DEF ControlInv, WorkInv
  <1>4. mem' = mem /\ "resurrect" \notin Faults
    BY <1>1, <1>3 DEF PlainUse
  <1>5. task' # "recreate"
    BY <1>2, <1>3 DEF TasksInv
  <1>6. CredsInv' /\ KeysInv' /\ ResurrectInv'
    BY <1>1, <1>2, <1>4, KeysFrame
  <1> QED BY <1>1, <1>2, <1>3, <1>4, <1>5, <1>6
          DEF KeysAndWork, CredsInv, ControlInv, Deploying, TasksInv, WorkInv, RenewedInv

LEMMA BoshDeployInv ==
  ASSUME PlainUse, IInv, BoshDeploy
  PROVE  KeysAndWork'
  <1>1. /\ pc = "bosh"
        /\ UNCHANGED <<creds, backup, status, director, agent, todo, renewed>>
    BY DEF BoshDeploy, bucketVars
  <1>2. CASE DeployFails /\ UNCHANGED task
    BY <1>1, <1>2, DeployFailsInv
  <1>3. CASE ~(DeployFails /\ UNCHANGED task)
    <2>1. /\ task' = "deploy" /\ pc' \in {"store", "deploy"}
          /\ UNCHANGED <<cmd, index, mem, ok>>
      BY <1>3 DEF BoshDeploy, Goto
    <2>2. CredsInv /\ KeysInv /\ ResurrectInv /\ ControlInv /\ WorkInv /\ RenewedInv
      BY DEF IInv, KeysAndWork
    <2>3. Deploying /\ status = -1 /\ status \in DeployStages /\ mem = creds
      BY <1>1, <2>2 DEF ControlInv, WorkInv
    <2>4. "resurrect" \notin Faults
      BY <2>3 DEF PlainUse
    <2>5. CredsInv' /\ KeysInv' /\ ResurrectInv'
      BY <1>1, <2>1, <2>2, <2>4, KeysFrame
    <2> QED BY <1>1, <2>1, <2>2, <2>3, <2>5
            DEF KeysAndWork, CredsInv, ControlInv, Deploying, TasksInv, WorkInv, RenewedInv
  <1> QED BY <1>2, <1>3

LEMMA StoreCredsInv ==
  ASSUME PlainUse, IInv, StoreCreds
  PROVE  KeysAndWork'
  <1> USE DEF boshVars, Goto
  <1>1. PICK put \in Put(creds, mem) :
          /\ creds' = put.val
          /\ \/ /\ cmd = "maintain" /\ ok /\ put.res = "ok"
                /\ pc' = "record" /\ UNCHANGED <<cmd, index>>
             \/ Exit
    BY DEF StoreCreds
  <1>2. pc = "store" /\ UNCHANGED <<backup, status, director, agent, task, todo, renewed>>
    BY DEF StoreCreds
  <1>3. /\ CredsInv /\ KeysInv /\ ResurrectInv /\ ControlInv /\ TasksInv /\ WorkInv
        /\ RenewedInv
    BY DEF IInv, KeysAndWork
  <1>4. /\ creds' \in {creds, mem} /\ (put.res = "ok" => creds' = mem)
        /\ "resurrect" \in Faults => creds' = mem
    BY <1>1, PutKeeps, PutWorks DEF PlainUse
  <1>5. /\ mem.ca = creds.ca /\ mem.ca2 # creds.ca
        /\ Deploying \/ status # -1 => mem = creds
    BY <1>2, <1>3 DEF WorkInv
  <1>6. CredsInv'
    BY <1>2, <1>3, <1>4, <1>5 DEF CredsInv
  <1>7. KeysInv'
    <2>1. Resurrected' = Resurrected
      BY <1>2 DEF Resurrected
    <2>2. CASE creds' = creds
      BY <1>2, <1>3, <2>1, <2>2 DEF KeysInv, Agents, NewCA
    <2>3. CASE status = -1
      BY <1>2, <1>3, <1>4, <1>5, <2>1, <2>3 DEF KeysInv, Agents
    <2> QED BY <1>4, <1>5, <2>2, <2>3
  <1>7a. ResurrectInv'
    <2>1. pc' # "store"
      BY <1>1 DEF Exit
    <2> QED BY <1>2, <1>3, <1>4, <1>5, <2>1 DEF ResurrectInv
  <1>8. RenewedInv'
    <2>1. ASSUME renewed PROVE creds' = creds /\ cmd # "maintain"
      BY <1>2, <1>3, <1>4, <1>5, <2>1 DEF RenewedInv, ControlInv, Deploying
    <2>2. cmd' \in {cmd, "none"}
      BY <1>1 DEF Exit
    <2> QED BY <1>2, <1>3, <2>1, <2>2 DEF RenewedInv
  <1>9. CASE Exit
    BY <1>2, <1>6, <1>7, <1>8, <1>9, <1>7a, ExitInv DEF IInv
  <1>10. CASE /\ cmd = "maintain" /\ ok /\ put.res = "ok"
              /\ pc' = "record" /\ UNCHANGED <<cmd, index>>
    <2>1. creds' = mem /\ index = status + 1 /\ index \in {0, 2}
      BY <1>2, <1>3, <1>4, <1>10 DEF ControlInv
    <2>2. /\ index = 0 => mem.ca2 # NoCA /\ director = Overlap(mem.ca, mem.ca2)
          /\ index = 2 => director = Steady(mem.ca2)
      BY <1>2, <1>3, <1>5, <1>10, <2>1 DEF WorkInv, IInv, TypeOK
    <2>3. ControlInv' /\ TasksInv' /\ WorkInv'
      BY <1>2, <1>3, <1>10, <2>1, <2>2 DEF ControlInv, Deploying, TasksInv, WorkInv, Done
    <2> QED BY <1>6, <1>7, <1>8, <1>7a, <2>3 DEF KeysAndWork
  <1> QED BY <1>1, <1>9, <1>10

LEMMA RecreateInv ==
  ASSUME IInv, Recreate
  PROVE  KeysAndWork'
  <1>1. /\ pc = "task" /\ cmd = "maintain" /\ index \in {1, 3}
        /\ pc' = "wait" /\ task' = "recreate" /\ todo' = VM
        /\ UNCHANGED <<cmd, index, mem, creds, backup, status, director, agent, renewed>>
    BY DEF Recreate, bucketVars, Goto
  <1>2. CredsInv' /\ KeysInv' /\ ResurrectInv'
    BY <1>1, KeysFrame DEF IInv, KeysAndWork
  <1>3. index = status + 1 /\ status \in -1..4
    BY <1>1 DEF IInv, TypeOK, KeysAndWork, ControlInv
  <1> QED BY <1>1, <1>2, <1>3
          DEF IInv, KeysAndWork, ControlInv, Deploying, TasksInv, WorkInv, RenewedInv

LEMMA BackupInv ==
  ASSUME PlainUse, IInv, Backup
  PROVE  KeysAndWork'
  <1> USE DEF boshVars, Goto
  <1>1. PICK put \in Put(backup, creds) :
          /\ backup' = put.val
          /\ \/ put.res = "error" /\ Exit
             \/ /\ put.res # "error" /\ mem' = creds
                /\ pc' = "clean" /\ UNCHANGED <<cmd, index>>
    BY DEF Backup
  <1>2. /\ pc = "task" /\ cmd = "maintain" /\ index = 4 /\ creds.ca2 # NoCA
        /\ UNCHANGED <<creds, status, director, agent, task, todo, renewed>>
    BY DEF Backup
  <1>3. /\ CredsInv /\ KeysInv /\ ResurrectInv /\ ControlInv /\ TasksInv /\ RenewedInv
        /\ status \in -1..4
    BY DEF IInv, KeysAndWork, TypeOK
  <1>4. CredsInv' /\ KeysInv' /\ ResurrectInv'
    BY <1>1, <1>2, <1>3, KeysFrame DEF Exit
  <1>5. RenewedInv'
    BY <1>2, <1>3 DEF RenewedInv
  <1>6. CASE Exit
    BY <1>2, <1>4, <1>5, <1>6, ExitInv DEF IInv
  <1>7. CASE /\ put.res # "error" /\ mem' = creds
             /\ pc' = "clean" /\ UNCHANGED <<cmd, index>>
    <2>1. backup' = creds
      BY <1>1, <1>7, PutKeeps DEF PlainUse
    <2>2. status = 3 /\ task # "recreate"
      BY <1>2, <1>3 DEF ControlInv, TasksInv
    <2>3. ControlInv' /\ TasksInv' /\ WorkInv'
      BY <1>2, <1>3, <1>7, <2>1, <2>2 DEF ControlInv, Deploying, TasksInv, WorkInv
    <2> QED BY <1>4, <1>5, <2>3 DEF KeysAndWork
  <1> QED BY <1>1, <1>6, <1>7

LEMMA CleanupInv ==
  ASSUME PlainUse, IInv, Cleanup
  PROVE  KeysAndWork'
  <1> USE DEF boshVars, Goto
  <1> DEFINE moved == [ca |-> mem.ca2, ca2 |-> NoCA]
  <1>1. PICK put \in Put(creds, moved) :
          /\ creds' = put.val
          /\ \/ put.res = "error" /\ Exit
             \/ put.res # "error" /\ pc' = "record" /\ UNCHANGED <<cmd, index>>
    BY DEF Cleanup
  <1>2. pc = "clean" /\ UNCHANGED <<backup, status, director, agent, task, todo, renewed>>
    BY DEF Cleanup
  <1>3. /\ CredsInv /\ KeysInv /\ ControlInv /\ TasksInv /\ WorkInv /\ RenewedInv
        /\ creds \in Creds /\ status \in -1..4
    BY DEF IInv, KeysAndWork, TypeOK
  <1>4. /\ cmd = "maintain" /\ index = 4 /\ status = 3 /\ ~renewed
        /\ mem = creds /\ backup = creds /\ creds.ca2 # NoCA
    BY <1>2, <1>3 DEF ControlInv, WorkInv, RenewedInv
  <1>5. creds' \in {creds, moved} /\ (put.res # "error" => creds' = moved)
    BY <1>1, PutKeeps DEF PlainUse
  <1>6. moved.ca = creds.ca2 /\ moved.ca2 = NoCA /\ creds.ca2 \in CA
    BY <1>3, <1>4 DEF Creds
  <1>7. CredsInv'
    BY <1>2, <1>3, <1>4, <1>5, <1>6, NoCAIsNoCA DEF CredsInv
  <1>8. NewCA' = NewCA
    BY <1>4, <1>5, <1>6 DEF NewCA
  <1>9. KeysInv' /\ ResurrectInv'
    BY <1>2, <1>3, <1>4, <1>8 DEF KeysInv, Agents, Resurrected, ResurrectInv
  <1>10. RenewedInv'
    BY <1>2, <1>4 DEF RenewedInv
  <1>11. CASE Exit
    BY <1>2, <1>7, <1>9, <1>10, <1>11, ExitInv DEF IInv
  <1>12. CASE put.res # "error" /\ pc' = "record" /\ UNCHANGED <<cmd, index>>
    <2>1. creds'.ca2 = NoCA /\ backup'.ca \notin {NoCA, creds'.ca}
      BY <1>2, <1>3, <1>4, <1>5, <1>6, <1>12, NoCAIsNoCA DEF CredsInv
    <2>2. ControlInv' /\ TasksInv' /\ WorkInv'
      BY <1>2, <1>3, <1>4, <1>12, <2>1 DEF ControlInv, Deploying, TasksInv, WorkInv, Done
    <2> QED BY <1>7, <1>9, <1>10, <2>2 DEF KeysAndWork
  <1> QED BY <1>1, <1>11, <1>12

\* The stage recorded is the one whose effect is there.
LEMMA RecordInv ==
  ASSUME PlainUse, IInv, Record
  PROVE  KeysAndWork'
  <1> USE DEF boshVars, Goto
  <1>1. PICK put \in Put(status, index) :
          /\ status' = put.val
          /\ \/ put.res = "error" /\ Exit
             \/ /\ put.res = "ok" /\ index = 4
                /\ pc' = "reset" /\ UNCHANGED <<cmd, index>>
             \/ /\ put.res = "ok" /\ index < 4
                /\ pc' = "task" /\ index' = index + 1 /\ UNCHANGED cmd
    BY DEF Record
  <1>2. /\ pc = "record"
        /\ UNCHANGED <<creds, backup, director, agent, task, todo, renewed>>
    BY DEF Record
  <1>3. /\ CredsInv /\ KeysInv /\ ResurrectInv /\ ControlInv /\ TasksInv /\ WorkInv
        /\ RenewedInv /\ status \in -1..4 /\ index \in 0..4
    BY DEF IInv, KeysAndWork, TypeOK
  <1>4. /\ cmd = "maintain" /\ index = status + 1 /\ status \in -1..3
        /\ task # "recreate" /\ ~renewed /\ Done(index) /\ ~Deploying
    BY <1>2, <1>3 DEF ControlInv, Deploying, TasksInv, WorkInv, RenewedInv
  <1>5. status' \in {status, index} /\ (put.res = "ok" => status' = index)
    BY <1>1, PutKeeps DEF PlainUse
  <1>6. CredsInv' /\ KeysInv' /\ ResurrectInv'
    <2>0. pc' # "store" /\ Resurrected' = Resurrected
      BY <1>1, <1>2 DEF Exit, Resurrected
    <2>1. CASE status' = status
      BY <1>2, <1>3, <2>0, <2>1, KeysFrame
    <2>2. CASE status' = index
      <3> USE <2>0
      <3>0. ResurrectInv'
        BY <1>3, <2>2 DEF ResurrectInv
      <3>1. CredsInv'
        BY <1>2, <1>3, <1>4, <2>2 DEF CredsInv, Done
      <3>2. ASSUME index = 0 PROVE KeysInv'
        BY <1>2, <1>3, <1>4, <2>2, <3>2 DEF KeysInv, Done, Agents
      <3>3. ASSUME index = 1 PROVE KeysInv'
        BY <1>2, <1>3, <1>4, <2>2, <3>3 DEF KeysInv, Done, Agents
      <3>4. ASSUME index = 2 PROVE KeysInv'
        BY <1>2, <1>3, <1>4, <2>2, <3>4 DEF KeysInv, Done, Agents
      <3>5. ASSUME index = 3 PROVE KeysInv'
        <4>1. NewCA = creds.ca2
          BY <1>3, <1>4, <3>5 DEF CredsInv, NewCA
        <4> QED BY <1>2, <1>3, <1>4, <2>2, <3>5, <4>1 DEF KeysInv, Done, Agents, NewCA
      <3>6. ASSUME index = 4 PROVE KeysInv'
        BY <1>2, <1>3, <1>4, <2>2, <3>6 DEF KeysInv, Done, Agents, NewCA
      <3> QED BY <1>3, <3>0, <3>1, <3>2, <3>3, <3>4, <3>5, <3>6
    <2> QED BY <1>5, <2>1, <2>2
  <1>7. RenewedInv'
    BY <1>2, <1>4 DEF RenewedInv
  <1>8. CASE Exit
    BY <1>2, <1>4, <1>6, <1>7, <1>8, ExitInv DEF IInv
  <1>9. CASE put.res = "ok" /\ index = 4 /\ pc' = "reset" /\ UNCHANGED <<cmd, index>>
    <2>1. ControlInv' /\ TasksInv' /\ WorkInv'
      BY <1>2, <1>3, <1>4, <1>5, <1>9 DEF ControlInv, Deploying, TasksInv, WorkInv, Done
    <2> QED BY <1>6, <1>7, <2>1 DEF KeysAndWork
  <1>10. CASE /\ put.res = "ok" /\ index < 4
              /\ pc' = "task" /\ index' = index + 1 /\ UNCHANGED cmd
    <2>1. ControlInv' /\ TasksInv' /\ WorkInv'
      BY <1>2, <1>3, <1>4, <1>5, <1>10 DEF ControlInv, Deploying, TasksInv, WorkInv
    <2> QED BY <1>6, <1>7, <2>1 DEF KeysAndWork
  <1> QED BY <1>1, <1>8, <1>9, <1>10

LEMMA ResetInv ==
  ASSUME PlainUse, IInv, Reset
  PROVE  KeysAndWork'
  <1> USE DEF boshVars
  <1>1. PICK put \in Put(status, -1) : status' = put.val /\ renewed' = (put.res = "ok")
    BY DEF Reset
  <1>2. Exit /\ pc = "reset" /\ UNCHANGED <<creds, backup, director, agent, task, todo>>
    BY DEF Reset
  <1>3. CredsInv /\ KeysInv /\ ControlInv /\ TasksInv /\ WorkInv
    BY DEF IInv, KeysAndWork
  <1>4. status = 4 /\ task # "recreate" /\ Done(4) /\ creds.ca2 = NoCA /\ NewCA = creds.ca
    BY <1>2, <1>3 DEF ControlInv, TasksInv, WorkInv, CredsInv, NewCA
  <1>5. status' \in {4, -1} /\ (renewed' => status' = -1)
    <2>1. /\ put.val \in {4, -1}
          /\ put.res = "ok" => put.val = -1
      BY <1>4, PutKeeps DEF PlainUse
    <2> QED BY <1>1, <2>1
  <1>6. director = Steady(creds.ca) /\ Agents({Issued(Steady(creds.ca))})
    BY <1>3, <1>4 DEF KeysInv
  <1>7. CredsInv' /\ KeysInv' /\ ResurrectInv'
    <2>1. Resurrected' = Resurrected
      BY <1>2 DEF Resurrected
    <2> QED BY <1>2, <1>3, <1>4, <1>5, <1>6, <2>1
            DEF CredsInv, KeysInv, ResurrectInv, Agents, NewCA
  <1>8. RenewedInv'
    BY <1>2, <1>4, <1>5, <1>6 DEF RenewedInv, Done, Exit
  <1> QED BY <1>2, <1>4, <1>7, <1>8, ExitInv DEF IInv

\* The steps of the director's task.
LEMMA RecreateVMInv ==
  ASSUME IInv, NEW v \in VM, RecreateVM(v)
  PROVE  KeysAndWork'
  <1> USE DEF bucketVars, cliVars
  <1>1. /\ task = "recreate" /\ agent' = [agent EXCEPT ![v] = Issued(director)]
        /\ todo' = todo \ {v}
        /\ UNCHANGED <<creds, backup, status, director, task, cmd, pc, index, mem, ok, renewed>>
    BY DEF RecreateVM
  <1>2. CredsInv /\ KeysInv /\ ResurrectInv /\ ControlInv /\ TasksInv /\ WorkInv /\ RenewedInv
    BY DEF IInv, KeysAndWork
  <1>3. agent \in [VM -> AgentKeys]
    BY DEF IInv, TypeOK
  <1>4. status \in {0, 2} /\ pc \in {"idle", "task", "wait"} /\ pc # "record"
    BY <1>1, <1>2 DEF TasksInv
  <1>5. CredsInv' /\ ResurrectInv' /\ ControlInv' /\ WorkInv' /\ RenewedInv'
    BY <1>1, <1>2, <1>4
       DEF CredsInv, ResurrectInv, ControlInv, Deploying, WorkInv, RenewedInv
  <1>6. \A w \in VM : agent'[w] = IF w = v THEN Issued(director) ELSE agent[w]
    BY <1>1, <1>3
  <1>7. KeysInv'
    BY <1>1, <1>2, <1>4, <1>6 DEF KeysInv, Agents, Resurrected
  <1>8. TasksInv'
    BY <1>1, <1>2, <1>6 DEF TasksInv
  <1> QED BY <1>5, <1>7, <1>8 DEF KeysAndWork

LEMMA RecreateDoneInv ==
  ASSUME IInv, RecreateDone
  PROVE  KeysAndWork'
  <1> USE DEF bucketVars, cliVars, Goto
  <1>1. /\ task = "recreate" /\ todo = {} /\ task' = "none"
        /\ pc' = (IF pc = "wait" THEN "record" ELSE pc)
        /\ UNCHANGED <<creds, backup, status, director, agent, todo, cmd, index, mem, ok, renewed>>
    BY DEF RecreateDone
  <1>2. CredsInv /\ KeysInv /\ ResurrectInv /\ ControlInv /\ TasksInv /\ WorkInv /\ RenewedInv
    BY DEF IInv, KeysAndWork
  <1>3. CredsInv' /\ KeysInv' /\ ResurrectInv'
    BY <1>1, <1>2, KeysFrame DEF TasksInv, Exit
  <1>4. pc \in {"idle", "task", "wait"}
    BY <1>1, <1>2 DEF TasksInv
  <1>5. pc = "wait" => Agents({Issued(director)}) /\ index \in {1, 3}
    BY <1>1, <1>2 DEF TasksInv, ControlInv, Agents
  <1>6. ControlInv' /\ TasksInv' /\ RenewedInv'
    BY <1>1, <1>2, <1>4 DEF ControlInv, Deploying, TasksInv, RenewedInv
  <1>7. WorkInv'
    BY <1>1, <1>2, <1>4, <1>5 DEF WorkInv, Done, Agents, Resurrected
  <1> QED BY <1>3, <1>6, <1>7 DEF KeysAndWork

LEMMA RecreateFailsInv ==
  ASSUME IInv, RecreateFails
  PROVE  KeysAndWork'
  <1> USE DEF bucketVars, cliVars
  <1>1. /\ task = "recreate" /\ task' = "none"
        /\ UNCHANGED <<creds, backup, status, director, agent, renewed>>
        /\ IF pc = "wait" THEN Exit ELSE UNCHANGED <<cmd, pc, index, mem, ok>>
    BY DEF RecreateFails
  <1>2. CredsInv /\ KeysInv /\ ResurrectInv /\ ControlInv /\ TasksInv /\ WorkInv /\ RenewedInv
    BY DEF IInv, KeysAndWork
  <1>3. CredsInv' /\ KeysInv' /\ ResurrectInv'
    BY <1>1, <1>2, KeysFrame DEF TasksInv, Exit
  <1>4. CASE pc = "wait"
    <2>1. RenewedInv'
      BY <1>1, <1>2, <1>4 DEF RenewedInv, Exit
    <2> QED BY <1>1, <1>3, <1>4, <2>1, ExitInv DEF IInv
  <1>5. CASE pc # "wait"
    BY <1>1, <1>2, <1>3, <1>5
       DEF KeysAndWork, ControlInv, Deploying, TasksInv, WorkInv, RenewedInv, Done
  <1> QED BY <1>4, <1>5

\* A deploy task ends, and the deploy that waits for it goes on with what it had.
LEMMA DeployTaskEndsInv ==
  ASSUME PlainUse, IInv, DeployTaskEnds
  PROVE  KeysAndWork'
  <1> USE DEF bucketVars, cliVars
  <1>1. /\ task = "deploy" /\ task' = "none"
        /\ UNCHANGED <<creds, backup, status, director, agent, todo, renewed>>
    BY DEF DeployTaskEnds
  <1>2. CredsInv /\ KeysInv /\ ResurrectInv /\ ControlInv /\ TasksInv /\ WorkInv /\ RenewedInv
    BY DEF IInv, KeysAndWork
  <1>3. CASE UNCHANGED <<cmd, pc, index, mem, ok>>
    <2>1. CredsInv' /\ KeysInv' /\ ResurrectInv'
      BY <1>1, <1>2, <1>3, KeysFrame
    <2> QED BY <1>1, <1>2, <1>3, <2>1
            DEF KeysAndWork, ControlInv, Deploying, TasksInv, WorkInv, RenewedInv, Done,
                Agents, Resurrected
  <1>4. CASE pc = "deploy" /\ pc' = "store" /\ UNCHANGED <<cmd, index, mem, ok>>
    <2>1. Deploying /\ status = -1 /\ status \in DeployStages /\ mem = creds
      BY <1>2, <1>4 DEF ControlInv, WorkInv
    <2>2. "resurrect" \notin Faults
      BY <2>1 DEF PlainUse
    <2>3. CredsInv' /\ KeysInv' /\ ResurrectInv'
      BY <1>1, <1>2, <2>2, KeysFrame
    <2> QED BY <1>1, <1>2, <1>4, <2>1, <2>3
            DEF KeysAndWork, CredsInv, ControlInv, Deploying, TasksInv, WorkInv, RenewedInv
  <1>5. CASE pc = "deploy" /\ DeployFails
    BY <1>1, <1>5, DeployFailsInv
  <1> QED BY <1>3, <1>4, <1>5 DEF DeployTaskEnds, Goto

\* A command that gives up on a task leaves it as it is.
LEMMA ConnectionLostInv ==
  ASSUME PlainUse, IInv, ConnectionLost
  PROVE  KeysAndWork'
  <1>1. UNCHANGED <<creds, backup, status, director, agent, task, todo, renewed>>
    BY DEF ConnectionLost, bucketVars, boshVars
  <1>2. CASE pc = "deploy" /\ DeployFails
    BY <1>1, <1>2, DeployFailsInv
  <1>3. CASE pc = "wait" /\ Exit
    <2>1. CredsInv' /\ KeysInv' /\ ResurrectInv'
      BY <1>1, <1>3, KeysFrame DEF IInv, KeysAndWork, Exit
    <2>2. RenewedInv'
      BY <1>1, <1>3 DEF IInv, KeysAndWork, RenewedInv, Exit
    <2> QED BY <1>1, <1>3, <2>1, <2>2, ExitInv DEF IInv
  <1> QED BY <1>2, <1>3 DEF ConnectionLost

\* A VM that is replaced gets the keys of the director there is.
LEMMA ResurrectedInv ==
  ASSUME PlainUse, IInv, NEW v \in VM, Resurrect(v)
  PROVE  KeysAndWork'
  <1> USE DEF bucketVars, cliVars
  <1>1. /\ "resurrect" \in Faults /\ agent' = [agent EXCEPT ![v] = Issued(director)]
        /\ UNCHANGED <<creds, backup, status, director, task, todo, cmd, pc, index, mem, ok, renewed>>
    BY DEF Resurrect
  <1>2. CredsInv /\ KeysInv /\ ResurrectInv /\ ControlInv /\ TasksInv /\ WorkInv /\ RenewedInv
    BY DEF IInv, KeysAndWork
  <1>3. \A w \in VM : agent'[w] = IF w = v THEN Issued(director) ELSE agent[w]
    BY <1>1 DEF IInv, TypeOK
  <1>4. Resurrected' = Resurrected /\ Issued(director) \in Resurrected
    BY <1>1 DEF Resurrected
  <1>5. CredsInv' /\ ResurrectInv' /\ ControlInv' /\ TasksInv' /\ RenewedInv'
    BY <1>1, <1>2, <1>3 DEF CredsInv, ResurrectInv, ControlInv, Deploying, TasksInv, RenewedInv
  <1>6. ASSUME NEW keys, Agents(keys) PROVE \A w \in VM : agent'[w] \in keys \union Resurrected'
    BY <1>3, <1>4, <1>6 DEF Agents
  <1>7. KeysInv'
    BY <1>1, <1>2, <1>6 DEF KeysInv, Agents, NewCA
  <1>8. WorkInv'
    BY <1>1, <1>2, <1>6 DEF WorkInv, Deploying, Done, Agents
  <1> QED BY <1>5, <1>7, <1>8 DEF KeysAndWork

LEMMA StepInv ==
  ASSUME PlainUse, IInv, [Next]_vars
  PROVE  IInv'
  <1>1. TypeOK'
    BY StepTyped DEF IInv
  <1>2. CASE \/ \E s \in 0..4 : StartMaintain(s)
             \/ \E kind \in DeployKinds : StartDeploy(kind)
    BY <1>1, <1>2, StartInv DEF IInv
  <1>3. CASE TaskFails \/ Crash
    BY <1>1, <1>3, EndInv DEF IInv
  <1>4. CASE CreateEnv
    BY <1>1, <1>4, CreateEnvInv DEF IInv
  <1>5. CASE BoshDeploy
    BY <1>1, <1>5, BoshDeployInv DEF IInv
  <1>6. CASE StoreCreds
    BY <1>1, <1>6, StoreCredsInv DEF IInv
  <1>7. CASE Recreate
    BY <1>1, <1>7, RecreateInv DEF IInv
  <1>8. CASE Backup
    BY <1>1, <1>8, BackupInv DEF IInv
  <1>9. CASE Cleanup
    BY <1>1, <1>9, CleanupInv DEF IInv
  <1>10. CASE Record
    BY <1>1, <1>10, RecordInv DEF IInv
  <1>11. CASE Reset
    BY <1>1, <1>11, ResetInv DEF IInv
  <1>12. CASE RecreateDone
    BY <1>1, <1>12, RecreateDoneInv DEF IInv
  <1>13. CASE RecreateFails
    BY <1>1, <1>13, RecreateFailsInv DEF IInv
  <1>14. CASE DeployTaskEnds
    BY <1>1, <1>14, DeployTaskEndsInv DEF IInv
  <1>14a. CASE ConnectionLost
    BY <1>1, <1>14a, ConnectionLostInv DEF IInv
  <1>15. ASSUME NEW v \in VM, RecreateVM(v) PROVE IInv'
    BY <1>1, <1>15, RecreateVMInv DEF IInv
  <1>16. ASSUME NEW v \in VM, Resurrect(v) PROVE IInv'
    BY <1>1, <1>16, ResurrectedInv DEF IInv
  <1>17. CASE UNCHANGED vars
    <2> USE DEF vars, bucketVars, boshVars, cliVars
    <2>1. CredsInv' /\ KeysInv' /\ ResurrectInv'
      BY <1>17, KeysFrame DEF IInv, KeysAndWork
    <2>2. ControlInv' /\ TasksInv' /\ RenewedInv'
      BY <1>17 DEF IInv, KeysAndWork, ControlInv, Deploying, TasksInv, RenewedInv
    <2>3. WorkInv'
      BY <1>17 DEF IInv, KeysAndWork, WorkInv, Deploying, Done, Agents, Resurrected
    <2> QED BY <1>1, <2>1, <2>2, <2>3 DEF IInv, KeysAndWork
  <1> QED BY <1>2, <1>3, <1>4, <1>5, <1>6, <1>7, <1>8, <1>9, <1>10, <1>11, <1>12,
             <1>13, <1>14, <1>14a, <1>15, <1>16, <1>17 DEF Next, Cli, Bosh

\* The conjunction of types, keys and work in progress is inductive.
THEOREM Inductive ==
  ASSUME PlainUse
  PROVE  Spec => []IInv
  <1>1. Init => IInv
    BY InitTyped, InitInv DEF IInv
  <1>2. IInv /\ [Next]_vars => IInv'
    BY StepInv
  <1> QED BY <1>1, <1>2, PTL DEF Spec

-----------------------------------------------------------------------------
\* What the invariant gives: no VM is ever cut off from the director.
THEOREM AlwaysReachable ==
  ASSUME PlainUse
  PROVE  Spec => []AgentsReachable
  <1>1. IInv => AgentsReachable
    <2> SUFFICES ASSUME IInv, NEW v \in VM PROVE Connected(director, agent[v])
      BY DEF AgentsReachable
    <2>1. KeysInv /\ status \in -1..4
      BY DEF IInv, KeysAndWork, TypeOK
    <2>2. agent[v] = Issued(director) => Connected(director, agent[v])
      BY <2>1, MakeBeforeBreak DEF KeysInv
    <2> QED BY <2>1, <2>2, MakeBeforeBreak DEF KeysInv, Agents, Resurrected
  <1> QED BY <1>1, Inductive, PTL

\* A renewal that reported success has replaced the CA everywhere and kept the
\* old one in the backup.
THEOREM RenewalsAreComplete ==
  ASSUME PlainUse
  PROVE  Spec => []RenewedMeansRotated
  <1>1. IInv => RenewedMeansRotated
    BY DEF IInv, KeysAndWork, KeysInv, RenewedInv, RenewedMeansRotated, Agents,
           Resurrected
  <1> QED BY <1>1, Inductive, PTL

\* No CA that is in use is missing from director-creds.yml, if no VM is given a
\* certificate of a CA that create-env made and the command has yet to store.
THEOREM UsedCAsStayHeld ==
  ASSUME PlainUse, "resurrect" \notin Faults
  PROVE  Spec => []UsedCAsAreHeld
  <1>1. ASSUME NEW c, NEW n
        PROVE  /\ Steady(c).server = c /\ Overlap(c, n).server = c
               /\ Issued(Steady(c)).cert = c /\ Issued(Overlap(c, n)).cert = n
    BY DEF Steady, Overlap, Issued
  <1>2. IInv => UsedCAsAreHeld
    <2> SUFFICES ASSUME IInv PROVE UsedCAsAreHeld
      OBVIOUS
    <2>1. /\ CredsInv /\ KeysInv /\ status \in -1..4
          /\ creds.ca # NoCA
      BY NoCAIsNoCA DEF IInv, KeysAndWork, TypeOK, CredsInv
    <2>2. director.server \in Held(creds)
      BY <1>1, <2>1 DEF KeysInv, CredsInv, Held, NewCA
    <2>3. ASSUME NEW v \in VM PROVE agent[v].cert \in Held(creds)
      BY <1>1, <2>1 DEF KeysInv, CredsInv, Held, NewCA, Agents, Resurrected
    <2> QED BY <2>2, <2>3 DEF UsedCAsAreHeld
  <1> QED BY <1>2, Inductive, PTL

\* create-env comes to the director only when no task recreates VMs: while one
\* does, the stage that is due is one that waits for the lock, and nobody deploys.
THEOREM RecreatesAreLeftAlone ==
  ASSUME PlainUse
  PROVE  Spec => RecreatesRunToTheirEnd
  <1>1. IInv /\ [Next]_vars
          => [~(task = "recreate" /\ task' = "none" /\ director' # director)]_vars
    <2> SUFFICES ASSUME IInv, Next, task = "recreate", director' # director
                 PROVE  FALSE
      OBVIOUS
    <2>1. CreateEnv
      BY DEF Next, Cli, Bosh, StartMaintain, StartDeploy, TaskFails, BoshDeploy,
             StoreCreds, Recreate, Backup, Cleanup, Record, Reset, Crash, RecreateVM,
             RecreateDone, RecreateFails, DeployTaskEnds, ConnectionLost, Resurrect, boshVars
    <2>2. /\ pc = "task" /\ (cmd = "maintain" => index \in {0, 2})
          /\ status \in {0, 2} /\ ControlInv
      BY <2>1 DEF CreateEnv, IInv, KeysAndWork, TasksInv
    <2> QED BY <2>2 DEF ControlInv, Deploying
  <1> QED BY <1>1, Inductive, PTL DEF RecreatesRunToTheirEnd, Spec

-----------------------------------------------------------------------------
\* Every step of the program is a make-before-break step of CaRollover, or
\* changes no keys.

\* CaRollover's key operators are the ones this module sees.
LEMMA SameKeys ==
  ASSUME NEW c, NEW n, NEW d
  PROVE  /\ Rollover!Steady(c) = Steady(c)
         /\ Rollover!Overlap(c, n) = Overlap(c, n)
         /\ Rollover!Issued(d) = Issued(d)
  BY DEF Rollover!Steady, Rollover!Overlap, Rollover!Issued, Steady, Overlap, Issued

LEMMA CreateEnvRolls ==
  ASSUME PlainUse, IInv, CreateEnv
  PROVE  Rollover!Next \/ UNCHANGED <<director, agent>>
  <1>1. PICK f \in Filled(Ops, creds, used) :
           /\ director' \in {director, DirectorFrom(Ops, f)}
           /\ agent' = agent
    BY CreateEnvKeeps
  <1>2. SUFFICES ASSUME director' = DirectorFrom(Ops, f), director' # director
                 PROVE  Rollover!Next
    BY <1>1
  <1>3. pc = "task" /\ (cmd = "maintain" => index \in {0, 2})
    BY DEF CreateEnv
  <1>4. /\ CredsInv /\ KeysInv /\ ResurrectInv /\ ControlInv
        /\ creds \in Creds /\ status \in -1..4
    BY DEF IInv, KeysAndWork, TypeOK
  <1>5. /\ f.ca = creds.ca
        /\ Ops # "base" => f.ca2 \in CA
        /\ Ops # "base" /\ creds.ca2 # NoCA => f.ca2 = creds.ca2
        /\ Ops # "base" /\ creds.ca2 = NoCA => f.ca2 # f.ca
    BY <1>4, FilledKeeps, NoCAIsNoCA DEF CredsInv
  <1>6. /\ Deploying \/ (cmd = "maintain" /\ status \in {-1, 1})
        /\ Deploying => status = -1 /\ cmd # "maintain" /\ "resurrect" \notin Faults
        /\ cmd = "maintain" => index = status + 1
    BY <1>3, <1>4 DEF ControlInv, Deploying, PlainUse
  <1>7. CASE Deploying
    <2>1. Ops = "base"
      BY <1>6, <1>7 DEF Ops
    <2>2. director' = Steady(creds.ca)
      BY <1>2, <1>5, <2>1 DEF DirectorFrom
    <2>3. PICK m \in CA : director = Overlap(creds.ca, m)
      BY <1>2, <1>4, <1>6, <1>7, <2>2 DEF KeysInv
    <2>4. Rollover!Withdraw(creds.ca, m)
      BY <1>1, <1>4, <1>6, <1>7, <2>2, <2>3, SameKeys
         DEF KeysInv, Agents, Resurrected, Rollover!Withdraw, Rollover!AllAgents
    <2> QED BY <1>4, <2>4 DEF CredsInv, Rollover!Next
  <1>8. CASE cmd = "maintain" /\ status = -1
    <2>1. Ops = "add-new-ca"
      BY <1>6, <1>8 DEF Ops
    <2>2. director' = Overlap(creds.ca, f.ca2) /\ f.ca2 \in CA /\ f.ca2 # creds.ca
      BY <1>2, <1>4, <1>5, <2>1 DEF DirectorFrom, CredsInv
    <2>3. "resurrect" \in Faults => director = Steady(creds.ca)
      BY <1>2, <1>3, <1>4, <1>5, <1>8, <2>1, <2>2, OneSecondCA
    <2>4. Rollover!AllAgents(Issued(Steady(creds.ca)))
      BY <1>4, <1>8, <2>3 DEF KeysInv, Agents, Resurrected, Rollover!AllAgents
    <2>5. Rollover!Widen(creds.ca, f.ca2)
      BY <1>1, <1>4, <1>8, <2>2, <2>4, SameKeys DEF KeysInv, Rollover!Widen
    <2> QED BY <1>4, <2>2, <2>5 DEF CredsInv, Rollover!Next
  <1>9. CASE cmd = "maintain" /\ status = 1
    <2>1. Ops = "remove-old-ca" /\ creds.ca2 # NoCA /\ creds.ca2 \in CA
      BY <1>4, <1>6, <1>9 DEF Ops, CredsInv, Creds
    <2>2. director' = Steady(creds.ca2)
      BY <1>2, <1>5, <2>1 DEF DirectorFrom
    <2>3. Rollover!Narrow(creds.ca, creds.ca2)
      BY <1>1, <1>2, <1>4, <1>9, <2>2, SameKeys
         DEF KeysInv, Agents, Resurrected, Rollover!Narrow, Rollover!AllAgents
    <2> QED BY <1>4, <2>1, <2>3 DEF CredsInv, Rollover!Next
  <1> QED BY <1>6, <1>7, <1>8, <1>9

LEMMA StepRolls ==
  ASSUME PlainUse, IInv, [Next]_vars
  PROVE  Rollover!Next \/ UNCHANGED <<director, agent>>
  <1>1. CASE CreateEnv
    BY <1>1, CreateEnvRolls
  <1>2. ASSUME NEW v \in VM, RecreateVM(v) PROVE Rollover!Next
    BY <1>2, SameKeys DEF RecreateVM, Rollover!Next, Rollover!Reissue
  <1>3. ASSUME NEW v \in VM, Resurrect(v) PROVE Rollover!Next
    BY <1>3, SameKeys DEF Resurrect, Rollover!Next, Rollover!Reissue
  <1>4. CASE ~CreateEnv /\ ~(\E v \in VM : RecreateVM(v) \/ Resurrect(v))
    BY <1>4 DEF Next, Cli, Bosh, StartMaintain, StartDeploy, TaskFails, BoshDeploy,
                StoreCreds, Recreate, Backup, Cleanup, Record, Reset, Crash,
                RecreateDone, RecreateFails, DeployTaskEnds, ConnectionLost, boshVars, vars
  <1> QED BY <1>1, <1>2, <1>3, <1>4

\* The rotation implements CaRollover.
THEOREM RotationRefinesRollover ==
  ASSUME PlainUse
  PROVE  Spec => ImplementsRollover
  <1>1. Init => Rollover!Init
    BY SameKeys DEF Init, Rollover!Init
  <1>2. IInv /\ [Next]_vars => [Rollover!Next]_Rollover!vars
    BY StepRolls DEF Rollover!vars
  <1> QED BY <1>1, <1>2, Inductive, PTL DEF Spec, ImplementsRollover, Rollover!Spec

-----------------------------------------------------------------------------
\* The stage that is determined can be carried out, unless a run is killed, an
\* upload fails, recreate is asked for by name, or a deploy on GCP may hand
\* back no credentials while the second CA is still to be moved.
PlainStages ==
  /\ Faults \subseteq {"resurrect"}
  /\ 3 \notin StageFlags
  /\ Iaas = "AWS" \/ DeployStages \intersect {2, 3} = {}

\* Where a command can be: the last stage is recorded only on the way to the
\* step that takes the record back.
StagePoints ==
  /\ (pc = "idle") <=> (cmd = "none")
  /\ cmd \in {"deploy", "self-update"} =>
       pc \in {"task", "bosh", "deploy", "store"} /\ status \in DeployStages
  /\ pc \in {"bosh", "deploy"} => cmd # "maintain"
  /\ pc = "wait" => index \in {1, 3}
  /\ pc = "clean" => cmd = "maintain" /\ index = 4
  /\ pc = "store" /\ cmd = "maintain" => index \in {0, 2}
  /\ pc \in {"idle", "task", "wait", "store", "bosh", "deploy"} => status # 4

\* From the end of stage 2 to the cleanup, the second CA is in the file, and
\* in the hands of whoever is about to write it.
SecondCAStays ==
  /\ status \in {2, 3} /\ ~(pc = "record" /\ index = 4) => creds.ca2 # NoCA
  /\ cmd = "maintain" /\ index = 3 => creds.ca2 # NoCA
  /\ pc = "record" /\ index = 2 => creds.ca2 # NoCA
  /\ pc \in {"bosh", "deploy", "store"} /\ status \in {2, 3} => mem.ca2 # NoCA
  /\ pc = "store" /\ cmd = "maintain" /\ index = 2 /\ ok => mem.ca2 # NoCA

StageInv == TypeOK /\ StagePoints /\ SecondCAStays

\* Steps that end a command or start one, or that are the director's: they
\* write neither the credentials nor the stage.
LEMMA StageStartEnd ==
  ASSUME PlainStages, StageInv,
         \/ \E s \in 0..4 : StartMaintain(s)
         \/ \E kind \in DeployKinds : StartDeploy(kind)
         \/ TaskFails \/ Recreate \/ RecreateDone \/ RecreateFails
         \/ \E v \in VM : RecreateVM(v) \/ Resurrect(v)
         \/ UNCHANGED vars
  PROVE  StagePoints' /\ SecondCAStays'
  <1> USE DEF StageInv, StagePoints, SecondCAStays, bucketVars, boshVars, cliVars, Goto
  <1>1. ASSUME NEW s \in 0..4, StartMaintain(s) PROVE StagePoints' /\ SecondCAStays'
    BY <1>1 DEF StartMaintain, Determined, PlainStages, TypeOK
  <1>2. ASSUME NEW kind \in DeployKinds, StartDeploy(kind)
        PROVE  StagePoints' /\ SecondCAStays'
    BY <1>2, DeploysAreKnown DEF StartDeploy
  <1>3. CASE TaskFails
    BY <1>3 DEF TaskFails, Exit
  <1>4. CASE Recreate
    BY <1>4 DEF Recreate
  <1>5. CASE RecreateDone
    BY <1>5 DEF RecreateDone
  <1>6. CASE RecreateFails
    BY <1>6 DEF RecreateFails, Exit
  <1>7. CASE (\E v \in VM : RecreateVM(v) \/ Resurrect(v)) \/ UNCHANGED vars
    <2>1. UNCHANGED <<cliVars, bucketVars>>
      BY <1>7 DEF RecreateVM, Resurrect, vars
    <2> QED BY <2>1
  <1> QED BY <1>1, <1>2, <1>3, <1>4, <1>5, <1>6, <1>7

LEMMA StageCreateEnv ==
  ASSUME PlainStages, StageInv, CreateEnv
  PROVE  StagePoints' /\ SecondCAStays'
  <1>1. PICK f \in Filled(Ops, creds, used) :
           mem' \in {f, creds} /\ ok' \in BOOLEAN /\ (ok' => mem' = f)
    BY CreateEnvKeeps
  <1>2. /\ pc = "task" /\ (cmd = "maintain" => index \in {0, 2})
        /\ pc' = (IF cmd # "maintain" /\ ok' THEN "bosh" ELSE "store")
        /\ UNCHANGED <<cmd, index, creds, status>>
    BY DEF CreateEnv, Goto, bucketVars
  <1>3. StagePoints /\ SecondCAStays /\ creds \in Creds
    BY DEF StageInv, TypeOK
  <1>4. cmd # "none" /\ cmd \in {"none", "maintain", "deploy", "self-update"}
    BY <1>2, <1>3 DEF StagePoints, StageInv, TypeOK
  <1>5. StagePoints'
    BY <1>2, <1>3, <1>4 DEF StagePoints
  <1>6. creds.ca2 # NoCA => mem'.ca2 # NoCA
    BY <1>1, <1>3, FilledKeeps, NoCAIsNoCA
  <1>7. cmd = "maintain" /\ index = 2 /\ ok' => mem'.ca2 # NoCA
    BY <1>1, <1>3, FilledKeeps, NoCAIsNoCA DEF Ops
  <1>8. SecondCAStays'
    BY <1>2, <1>3, <1>6, <1>7 DEF SecondCAStays
  <1> QED BY <1>5, <1>8

\* A deploy that fails hands back the second CA, if it is still to be moved.
LEMMA StageBoshDeploy ==
  ASSUME PlainStages, StageInv, BoshDeploy \/ DeployTaskEnds \/ ConnectionLost
  PROVE  StagePoints' /\ SecondCAStays'
  <1> USE DEF bucketVars, cliVars, Goto
  <1>1. UNCHANGED <<creds, status>>
    BY DEF BoshDeploy, DeployTaskEnds, ConnectionLost
  <1>2. /\ StagePoints /\ SecondCAStays
        /\ cmd \in {"none", "maintain", "deploy", "self-update"}
    BY DEF StageInv, TypeOK
  <1>3. CASE pc = "wait" /\ Exit
    BY <1>1, <1>2, <1>3 DEF StagePoints, SecondCAStays, Exit
  <1>4. CASE /\ pc \in {"bosh", "deploy"} /\ pc' \in {"deploy", "store"}
             /\ mem' = mem \/ Iaas = "GCP"
             /\ UNCHANGED <<cmd, index>>
    <2>1. cmd \in {"deploy", "self-update"} /\ status \in DeployStages
      BY <1>2, <1>4 DEF StagePoints
    <2>2. status \in {2, 3} => mem' = mem
      BY <1>4, <2>1 DEF PlainStages
    <2> QED BY <1>1, <1>2, <1>4, <2>1, <2>2 DEF StagePoints, SecondCAStays
  <1>5. CASE pc \in {"bosh", "deploy"} /\ DeployFails
    BY <1>4, <1>5 DEF DeployFails
  <1>6. CASE BoshDeploy
    BY <1>4, <1>5, <1>6 DEF BoshDeploy
  <1>7. CASE DeployTaskEnds
    <2>1. \/ UNCHANGED <<cmd, pc, index, mem, ok>>
          \/ pc = "deploy" /\ pc' = "store" /\ UNCHANGED <<cmd, index, ok, mem>>
          \/ pc = "deploy" /\ DeployFails
      BY <1>7 DEF DeployTaskEnds
    <2>2. CASE pc = "deploy" /\ pc' = "store" /\ UNCHANGED <<cmd, index, ok, mem>>
      BY <1>4, <2>2
    <2>3. CASE UNCHANGED <<cmd, pc, index, mem, ok>>
      BY <1>1, <1>2, <2>3 DEF StagePoints, SecondCAStays
    <2>4. CASE pc = "deploy" /\ DeployFails
      BY <1>5, <2>4
    <2> QED BY <2>1, <2>2, <2>3, <2>4
  <1>8. CASE ConnectionLost
    BY <1>3, <1>5, <1>8 DEF ConnectionLost
  <1> QED BY <1>6, <1>7, <1>8

LEMMA StageStoreCreds ==
  ASSUME PlainStages, StageInv, StoreCreds
  PROVE  StagePoints' /\ SecondCAStays'
  <1>1. /\ pc = "store" /\ creds' = mem /\ status' = status
        /\ \/ cmd = "maintain" /\ ok /\ pc' = "record" /\ UNCHANGED <<cmd, index>>
           \/ Exit
    BY PutWorks DEF StoreCreds, Goto, PlainStages
  <1>2. StagePoints /\ SecondCAStays
    BY DEF StageInv
  <1> QED BY <1>1, <1>2 DEF StagePoints, SecondCAStays, Exit

LEMMA StageCleanup ==
  ASSUME PlainStages, StageInv, Backup \/ Cleanup
  PROVE  StagePoints' /\ SecondCAStays'
  <1>1. StagePoints /\ SecondCAStays
    BY DEF StageInv
  <1>2. CASE Backup
    <2>1. /\ pc = "task" /\ cmd = "maintain" /\ index = 4 /\ creds.ca2 # NoCA
          /\ pc' = "clean" /\ UNCHANGED <<cmd, index, creds, status>>
      BY <1>2, PutWorks DEF Backup, Goto, PlainStages
    <2> QED BY <1>1, <2>1 DEF StagePoints, SecondCAStays
  <1>3. CASE Cleanup
    <2>1. pc = "clean" /\ pc' = "record" /\ UNCHANGED <<cmd, index, status>>
      BY <1>3, PutWorks DEF Cleanup, Goto, PlainStages
    <2> QED BY <1>1, <2>1 DEF StagePoints, SecondCAStays
  <1> QED BY <1>2, <1>3

LEMMA StageRecord ==
  ASSUME PlainStages, StageInv, Record \/ Reset
  PROVE  StagePoints' /\ SecondCAStays'
  <1>1. /\ StagePoints /\ SecondCAStays /\ index \in 0..4
        /\ cmd \in {"none", "maintain", "deploy", "self-update"}
    BY DEF StageInv, TypeOK
  <1>2. CASE Record
    <2>1. /\ pc = "record" /\ status' = index /\ UNCHANGED <<cmd, creds>>
          /\ \/ index = 4 /\ pc' = "reset" /\ UNCHANGED index
             \/ index < 4 /\ pc' = "task" /\ index' = index + 1
      BY <1>2, PutWorks DEF Record, Goto, PlainStages
    <2>2. cmd = "maintain"
      BY <1>1, <2>1 DEF StagePoints
    <2> QED BY <1>1, <2>1, <2>2 DEF StagePoints, SecondCAStays
  <1>3. CASE Reset
    <2>1. Exit /\ status' = -1
      BY <1>3, PutWorks DEF Reset, PlainStages
    <2> QED BY <1>1, <2>1 DEF StagePoints, SecondCAStays, Exit
  <1> QED BY <1>2, <1>3

\* The stage that the next renewCert determines is one it can carry out.
THEOREM StagesCanBeRun ==
  ASSUME PlainStages
  PROVE  Spec => []NextStageCanRun
  <1>1. Init => StageInv
    <2> SUFFICES ASSUME Init PROVE StageInv
      OBVIOUS
    <2>1. pc = "idle" /\ cmd = "none" /\ status = -1
      BY DEF Init
    <2> QED BY <2>1, InitTyped DEF StageInv, StagePoints, SecondCAStays
  <1>2. StageInv /\ [Next]_vars => StageInv'
    <2> SUFFICES ASSUME StageInv, [Next]_vars PROVE StageInv'
      OBVIOUS
    <2>1. TypeOK'
      BY StepTyped DEF StageInv
    <2>2. ~Crash
      BY DEF Crash, PlainStages
    <2>3. StagePoints' /\ SecondCAStays'
      BY <2>2, StageStartEnd, StageCreateEnv, StageBoshDeploy, StageStoreCreds,
         StageCleanup, StageRecord DEF Next, Cli, Bosh
    <2> QED BY <2>1, <2>3 DEF StageInv
  <1>3. StageInv => NextStageCanRun
    BY DEF StageInv, StagePoints, SecondCAStays, NextStageCanRun, TypeOK
  <1> QED BY <1>1, <1>2, <1>3, PTL DEF Spec
=============================================================================
