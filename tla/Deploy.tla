------------------------------- MODULE Deploy -------------------------------
(***************************************************************************)
(* `concourse-up deploy` (Deploy in concourse/deploy.go) and the same      *)
(* command run with SELF_UPDATE by the jobs of the pipeline it sets        *)
(* (fly/pipeline.go): what they read and write in the bucket, in the       *)
(* cloud, on the director and on the Concourse they deploy.  A command may *)
(* fail at every step, and users and jobs do not wait for each other.      *)
(***************************************************************************)
EXTENDS Bucket, FiniteSets, Naturals

CONSTANTS User, Job,      \* runs of the command by hand, and by the pipeline
          AtATime,        \* how many of them there are at the same time
          Domain,         \* the domain names of hosted zones
          CertId,         \* certificates, told apart
          MaxAge,         \* how far certificates age: 2, or less to bound a run
          Secret,         \* generated passwords and keys, told apart
          None            \* an object, flag or value that is not there

Proc == User \union Job

\* conf.Domain when no domain was ever given, and the public IP of the ATC.
NoDomain == "no domain"
Address == "public IP"
Name == Domain \union {NoDomain, Address}

ASSUME ProcsAreDistinct == User \intersect Job = {} /\ User # {} /\ IsFiniteSet(Proc)
ASSUME NoneIsNothing ==
  /\ None \notin Domain \union CertId \union Secret \union {NoDomain, Address}
  /\ \A n \in Name, i \in CertId : None # [name |-> n, id |-> i]
ASSUME NamesAreDistinct == {NoDomain, Address} \intersect Domain = {}
ASSUME AgesAreThree == MaxAge \in 0..2

Cert == [name : Name \ {NoDomain}, id : CertId]
\* config.json: the fields that more than one step of a deploy depends on.
Config == [domain : Name, cert : Cert \union {None}, password : Secret \union {None}]
\* director-creds.yml: the variables of the concourse manifest.
Creds == [atc : Secret \union {None}, key : Secret \union {None}]
\* The Concourse that `bosh deploy` brings up.
Web == [domain : Name \ {NoDomain}, cert : Cert, atc : Secret, key : Secret]

ASSUME NoneIsNoRecord == None \notin Config \union Web

NoCreds == [atc |-> None, key |-> None]

VARIABLES
  \* the bucket
  config, creds,
  tracked,    \* director-state.json tells which director VM there is
  \* what Terraform, the director and fly made of it
  dns,        \* the domain in the last Terraform run; None before the first
  director,   \* there is a director VM
  web,        \* the Concourse that is up
  task,       \* the one the running `bosh deploy` is bringing up
  pipeline,   \* the domain written into the self-update pipeline
  age,        \* of a certificate: 0, 1 when 28 days are left, 2 when 2 are
  \* the runs
  pc, conf,
  updated,    \* isDomainUpdated
  mem,        \* the director's state and credentials, as read or returned
  ok,         \* err is nil
  \* history
  deployed,   \* some deploy ended without an error
  settled,    \* the last run was one of those
  wanted      \* the --domain of the last run that saved one

bucketVars == <<config, creds, tracked>>
cloudVars == <<dns, director, web, task, pipeline>>
procVars == <<pc, conf, updated, mem, ok>>
historyVars == <<deployed, settled, wanted>>
vars == <<bucketVars, cloudVars, age, procVars, historyVars>>

Steps == {"idle", "load", "apply", "save", "certs", "env", "bosh", "wait",
          "state", "creds", "pipeline", "final"}

TypeOK ==
  /\ config \in Config \union {None} /\ creds \in Creds /\ tracked \in BOOLEAN
  /\ dns \in Domain \union {NoDomain, None}
  /\ director \in BOOLEAN
  /\ web \in Web \union {None} /\ task \in Web \union {None}
  /\ pipeline \in (Name \ {NoDomain}) \union {None}
  /\ age \in [CertId -> 0..2]
  /\ pc \in [Proc -> Steps]
  /\ conf \in [Proc -> Config \union {None}]
  /\ updated \in [Proc -> BOOLEAN] /\ ok \in [Proc -> BOOLEAN]
  /\ mem \in [Proc -> [tracked : BOOLEAN, creds : Creds]]
  /\ deployed \in BOOLEAN /\ settled \in BOOLEAN
  /\ wanted \in Domain \union {None}

NoMem == [tracked |-> FALSE, creds |-> NoCreds]

Init ==
  /\ config = None /\ creds = NoCreds /\ tracked = TRUE
  /\ dns = None /\ director = FALSE /\ web = None /\ task = None
  /\ pipeline = None
  /\ age = [i \in CertId |-> 0]
  /\ pc = [p \in Proc |-> "idle"]
  /\ conf = [p \in Proc |-> None]
  /\ updated = [p \in Proc |-> FALSE]
  /\ mem = [p \in Proc |-> NoMem]
  /\ ok = [p \in Proc |-> TRUE]
  /\ deployed = FALSE /\ settled = FALSE /\ wanted = None

-----------------------------------------------------------------------------
Idle == \A p \in Proc : pc[p] = "idle"
Goto(p, l) == pc' = [pc EXCEPT ![p] = l]

\* Process p is gone, and what it held in memory with it.
Exit(p) ==
  /\ Goto(p, "idle")
  /\ conf' = [conf EXCEPT ![p] = None]
  /\ updated' = [updated EXCEPT ![p] = FALSE]
  /\ mem' = [mem EXCEPT ![p] = NoMem]
  /\ ok' = [ok EXCEPT ![p] = TRUE]

\* The run goes to its last Update with the error of the step it is at.
FailTo(p, l) == Goto(p, l) /\ ok' = [ok EXCEPT ![p] = FALSE]

\* Where a run is after it set the pipeline and after it stored the credentials:
\* a self-update sets the pipeline first, since it detaches from the deploy.
AfterPipeline(p) == IF p \in Job THEN "env" ELSE "final"
AfterCerts(p) == IF p \in Job THEN "pipeline" ELSE "env"
AfterCreds(p) == IF p \in Job THEN "final" ELSE "pipeline"

\* A name that the DNS, or the cloud for an address, leads to the web node.
Leads(n) == web # None /\ (n \in {NoDomain, Address} \/ n = dns)

\* One that is not the name of anything any more stands for a new one.
New(ids, live) == CHOOSE i \in ids : i \notin live

LiveCerts ==
  {w.cert.id : w \in {web, task} \ {None}}
    \union {c.cert.id : c \in {d \in ({config} \union {conf[p] : p \in Proc}) \ {None} :
                                 d.cert # None}}

LiveSecrets ==
  {creds.atc, creds.key}
    \union {w.atc : w \in {web, task} \ {None}} \union {w.key : w \in {web, task} \ {None}}
    \union {c.password : c \in ({config} \union {conf[p] : p \in Proc}) \ {None}}
    \union {mem[p].creds.atc : p \in Proc} \union {mem[p].creds.key : p \in Proc}

-----------------------------------------------------------------------------
CanStart == Cardinality({p \in Proc : pc[p] # "idle"}) < AtATime

Start(p) ==
  /\ pc[p] = "idle" /\ CanStart
  /\ Goto(p, "load")
  /\ settled' = FALSE
  /\ age' = [i \in CertId |-> IF i \in LiveCerts THEN age[i] ELSE 0]
  /\ UNCHANGED <<bucketVars, cloudVars, conf, updated, mem, ok, deployed, wanted>>

\* Somebody deploys.
StartDeploy(p) == Start(p)

\* The job self-update: there is a new release.
StartUpdate(p) == pipeline # None /\ web # None /\ Start(p)

\* renewCertsDateCheck looks at the certificate served under the domain of the
\* pipeline, and stops the job unless two days or less are left.
Expiring == Leads(pipeline) /\ age[web.cert.id] = 2

\* The job renew-https-cert.
StartRenewal(p) == pipeline # None /\ Expiring /\ Start(p)

\* Mutant: merging starts from the defaults of a new config.
MergedAnew(given) ==
  [config EXCEPT !.domain = IF given # None THEN given ELSE @, !.password = None]

\* Mutant: --domain is taken as it came, given or not.
MergedReplacesDomain(given) ==
  [config EXCEPT !.domain = IF given # None THEN given ELSE NoDomain]

\* populateConfigWithDefaultsOrProvidedArguments on the config there is: a
\* domain that is given comes in, an address that came from a deploy goes.
Merged(given) ==
  [config EXCEPT !.domain = IF given # None THEN given
                            ELSE IF @ = Address THEN NoDomain ELSE @]

\* A domain that a run was told is the one wanted as soon as the bucket has it.
Wants(told, c) ==
  wanted' = IF told /\ config' = c /\ c.domain \in Domain THEN c.domain ELSE wanted

\* getInitialConfig: a config that is there is merged with the flags, one that
\* is not is made and stored at once.  The jobs of the pipeline give no --domain.
Load(p) ==
  /\ pc[p] = "load"
  /\ \E given \in {None} \union (IF p \in User THEN Domain ELSE {}) :
     IF config = None
     THEN LET new == [domain |-> IF given = None THEN NoDomain ELSE given,
                      cert |-> None, password |-> None]
          IN \E put \in Put(config, new) :
               /\ config' = put.val /\ Wants(TRUE, new)
               /\ IF put.res = "error" THEN Exit(p)
                  ELSE /\ Goto(p, "apply")
                       /\ conf' = [conf EXCEPT ![p] = new]
                       /\ updated' = [updated EXCEPT ![p] = TRUE]
                       /\ UNCHANGED <<mem, ok>>
     ELSE /\ Goto(p, "apply")
          /\ conf' = [conf EXCEPT ![p] = Merged(given)]
          /\ updated' = [updated EXCEPT ![p] = given \notin {None, config.domain}]
          /\ UNCHANGED <<config, mem, ok, wanted>>
  /\ UNCHANGED <<creds, tracked, cloudVars, age, deployed, settled>>

\* terraform apply.
Apply(p) ==
  /\ pc[p] = "apply"
  /\ dns' = conf[p].domain
  /\ Goto(p, "save")
  /\ UNCHANGED <<bucketVars, director, web, task, pipeline, age, conf,
                 updated, mem, ok, historyVars>>

\* The first Update, before the certificates and the deployment.
Save(p) ==
  /\ pc[p] = "save"
  /\ \E put \in Put(config, conf[p]) :
       /\ config' = put.val /\ Wants(updated[p], conf[p])
       /\ IF put.res = "error" THEN Exit(p)
          ELSE Goto(p, "certs") /\ UNCHANGED <<conf, updated, mem, ok>>
  /\ UNCHANGED <<creds, tracked, cloudVars, age, deployed, settled>>

\* Mutant: the domain is taken as it is.
ServedNameAsIs(n) == n

\* The name of a deployment without a domain is the public IP of the ATC.
ServedName(n) == IF n = NoDomain THEN Address ELSE n

\* Mutant: a certificate is kept however old it is.
KeepsCertForEver(p) == conf[p].cert # None /\ ~updated[p]

\* Mutant: it is not asked whether the domain was updated.
KeepsOldCert(p) == conf[p].cert # None /\ age[conf[p].cert.id] = 0

\* ensureConcourseCerts keeps the certificate the config has unless the domain
\* was updated by this run or 28 days or less are left.
KeepsCert(p) == conf[p].cert # None /\ ~updated[p] /\ age[conf[p].cert.id] = 0

\* certs.Generate: a certificate for the name, with a key of its own.
Generated(name) == [name |-> name, id |-> New(CertId, LiveCerts)]

\* checkPreDeployConfigRequirements.  Whoever deploys may give a certificate of
\* his own, which comes before the one the config has.
Certs(p) ==
  /\ pc[p] = "certs"
  /\ LET name == ServedName(conf[p].domain) IN
     \/ /\ KeepsCert(p)
        /\ conf' = [conf EXCEPT ![p].domain = name]
        /\ UNCHANGED age
     \/ /\ ~KeepsCert(p) \/ p \in User
        /\ CertId \ LiveCerts # {}
        /\ conf' = [conf EXCEPT ![p].domain = name,
                                ![p].cert = Generated(name)]
        /\ age' = [age EXCEPT ![Generated(name).id] = 0]
  /\ Goto(p, AfterCerts(p))
  /\ UNCHANGED <<bucketVars, cloudVars, updated, mem, ok, historyVars>>

\* create-env came to the director VM, which director-state.json in the bucket
\* did not foresee: the old one is gone with the task it was running, and there
\* is a new one, or none.  The state p has in its hands is right.
NewDirector(p, l) ==
  /\ director' \in {TRUE} \union (IF l = "state" THEN {FALSE} ELSE {})
  /\ tracked' = FALSE
  /\ mem' = [q \in Proc |-> IF q = p THEN [tracked |-> TRUE, creds |-> creds]
                            ELSE [mem[q] EXCEPT !.tracked = FALSE]]
  /\ task' = None
  /\ web' \in {web} \union ({task} \ {None})
  /\ pc' = [q \in Proc |-> IF q = p THEN l
                           ELSE IF pc[q] = "wait" THEN "state" ELSE pc[q]]
  /\ ok' = [q \in Proc |-> ok[q] /\ IF q = p THEN l = "bosh" ELSE pc[q] # "wait"]

\* The director VM is as it should be, or create-env did not get that far.
SameDirector(p) ==
  /\ mem' = [mem EXCEPT ![p] = [tracked |-> tracked, creds |-> creds]]
  /\ UNCHANGED <<director, tracked, task, web>>

\* The load of the director's state and credentials, and create-env.  The
\* director has a fixed address: while one is up, only a run that knows it can
\* build another.
CreateEnv(p) ==
  /\ pc[p] = "env"
  /\ tracked \/ ~director
  /\ \/ NewDirector(p, "bosh")
     \/ director /\ SameDirector(p) /\ Goto(p, "bosh") /\ UNCHANGED ok
  /\ UNCHANGED <<config, creds, dns, pipeline, age, conf, updated, historyVars>>

CreateEnvFails(p) ==
  /\ pc[p] = "env"
  /\ \/ (tracked \/ ~director) /\ NewDirector(p, "state")
     \/ SameDirector(p) /\ FailTo(p, "state")
  /\ UNCHANGED <<config, creds, dns, pipeline, age, conf, updated, historyVars>>

\* Mutant: of what bosh made, the password alone is read back.
StoredPassword(p, w) ==
  [mem[p].creds EXCEPT !.atc = IF conf[p].password = None THEN w.atc ELSE @]

\* The variables store of `bosh deploy` once it made what is missing: the
\* password of the config, when it has one, takes the place of the variable.
Stored(p, w) ==
  [atc |-> IF conf[p].password = None THEN w.atc ELSE mem[p].creds.atc, key |-> w.key]

\* deployConcourse up to where the task starts, which is where a self-update
\* leaves it.
BoshDeploy(p) ==
  /\ pc[p] = "bosh"
  /\ director /\ task = None
  /\ LET k == mem[p].creds
         set == IF conf[p].password # None THEN conf[p].password ELSE k.atc
         atc == IF set # None THEN set ELSE New(Secret, LiveSecrets)
         key == IF k.key # None THEN k.key ELSE New(Secret, LiveSecrets)
         w == [domain |-> conf[p].domain, cert |-> conf[p].cert, atc |-> atc, key |-> key]
     IN /\ Secret \ LiveSecrets # {}
        /\ task' = w
        /\ IF p \in Job
           THEN Goto(p, "state") /\ mem' = [mem EXCEPT ![p].creds = Stored(p, w)]
           ELSE Goto(p, "wait") /\ UNCHANGED mem
  /\ UNCHANGED <<bucketVars, dns, director, web, pipeline, age, conf, updated,
                 ok, historyVars>>

\* Mutant: a failing deployConcourse hands no credentials back.
ReturnedNothing(k) == {NoCreds}

\* What Deploy returns when a step after create-env failed: on AWS what it was
\* given, on GCP nothing when it was deployConcourse that failed.
Returned(k) == IF Iaas = "GCP" THEN {k, NoCreds} ELSE {k}

\* Cloud config, stemcell, databases, or `bosh deploy` before its task starts.
BoshDeployFails(p) ==
  /\ pc[p] = "bosh"
  /\ FailTo(p, "state")
  /\ \E k \in Returned(mem[p].creds) : mem' = [mem EXCEPT ![p].creds = k]
  /\ UNCHANGED <<bucketVars, cloudVars, age, conf, updated, historyVars>>

Waiting == {p \in Proc : pc[p] = "wait"}

\* The task brought the new Concourse up; the command that waits goes on.
TaskDone ==
  /\ task # None
  /\ web' = task /\ task' = None
  /\ pc' = [p \in Proc |-> IF p \in Waiting THEN "state" ELSE pc[p]]
  /\ mem' = [p \in Proc |-> IF p \in Waiting
                            THEN [mem[p] EXCEPT !.creds = Stored(p, task)] ELSE mem[p]]
  /\ UNCHANGED <<bucketVars, dns, director, pipeline, age, conf, updated, ok,
                 historyVars>>

\* The task failed, before or after it came to the web node.
TaskFails ==
  /\ task # None
  /\ web' \in {web, task} /\ task' = None
  /\ pc' = [p \in Proc |-> IF p \in Waiting THEN "state" ELSE pc[p]]
  /\ ok' = [p \in Proc |-> ok[p] /\ p \notin Waiting]
  /\ \E lost \in SUBSET Waiting :
       /\ \A p \in lost : NoCreds \in Returned(mem[p].creds)
       /\ mem' = [p \in Proc |-> IF p \in lost
                                 THEN [mem[p] EXCEPT !.creds = NoCreds] ELSE mem[p]]
  /\ UNCHANGED <<bucketVars, dns, director, pipeline, age, conf, updated,
                 historyVars>>

\* Mutant: deployBosh reports the error of Deploy before it stores the state.
StoreStateAfterSuccess(p) ==
  /\ pc[p] = "state"
  /\ \E put \in Put(tracked, IF ok[p] THEN mem[p].tracked ELSE tracked) :
       /\ tracked' = put.val
       /\ ok' = [ok EXCEPT ![p] = @ /\ put.res = "ok"]
  /\ Goto(p, "creds")
  /\ UNCHANGED <<config, creds, cloudVars, age, conf, updated, mem, historyVars>>

\* deployBosh stores director-state.json and then director-creds.yml whether or
\* not Deploy failed, and only then reports the first error.
StoreState(p) ==
  /\ pc[p] = "state"
  /\ \E put \in Put(tracked, mem[p].tracked) :
       /\ tracked' = put.val
       /\ ok' = [ok EXCEPT ![p] = @ /\ put.res = "ok"]
  /\ Goto(p, "creds")
  /\ UNCHANGED <<config, creds, cloudVars, age, conf, updated, mem, historyVars>>

\* A password the store has is the config's from then on.
StoreCreds(p) ==
  /\ pc[p] = "creds"
  /\ \E put \in Put(creds, mem[p].creds) :
       /\ creds' = put.val
       /\ IF ok[p] /\ put.res = "ok"
          THEN /\ Goto(p, AfterCreds(p))
               /\ conf' = [conf EXCEPT ![p].password =
                             IF mem[p].creds.atc = None THEN @ ELSE mem[p].creds.atc]
               /\ UNCHANGED ok
          ELSE FailTo(p, "final") /\ UNCHANGED conf
  /\ mem' = [mem EXCEPT ![p] = NoMem]
  /\ UNCHANGED <<config, tracked, cloudVars, age, updated, historyVars>>

\* fly logs in with the password of the config at its domain and sets the
\* pipeline.
SetPipeline(p) ==
  /\ pc[p] = "pipeline"
  /\ Leads(conf[p].domain) /\ web.atc = conf[p].password
  /\ pipeline' = conf[p].domain
  /\ Goto(p, AfterPipeline(p))
  /\ UNCHANGED <<bucketVars, dns, director, web, task, age, conf, updated, mem,
                 ok, historyVars>>

\* fly cannot log in, or fails before or after it set the pipeline.
SetPipelineFails(p) ==
  /\ pc[p] = "pipeline"
  /\ \/ UNCHANGED pipeline
     \/ /\ Leads(conf[p].domain) /\ web.atc = conf[p].password
        /\ pipeline' = conf[p].domain
  /\ FailTo(p, "final")
  /\ UNCHANGED <<bucketVars, dns, director, web, task, age, conf, updated, mem,
                 historyVars>>

\* Mutant: the second Update is left out.
FinalUnsaved(p) ==
  /\ pc[p] = "final"
  /\ LET good == p \in User /\ ok[p] IN deployed' = (deployed \/ good) /\ settled' = good
  /\ Exit(p)
  /\ UNCHANGED <<bucketVars, cloudVars, age, wanted>>

\* The second Update, which is made whether or not there was an error.
Final(p) ==
  /\ pc[p] = "final"
  /\ \E put \in Put(config, conf[p]) :
       /\ config' = put.val /\ Wants(updated[p], conf[p])
       /\ LET good == p \in User /\ ok[p] /\ put.res = "ok" IN
            deployed' = (deployed \/ good) /\ settled' = good
  /\ Exit(p)
  /\ UNCHANGED <<creds, tracked, cloudVars, age>>

\* Reading an object, a flag the existing config refuses, the hosted zone,
\* Terraform before or after it changed the DNS, the ACME server: the command
\* ends with nothing more saved.
EarlyFailure(p) ==
  /\ pc[p] \in {"load", "apply", "certs"}
  /\ dns' \in {dns} \union (IF pc[p] = "apply" THEN {conf[p].domain} ELSE {})
  /\ Exit(p)
  /\ UNCHANGED <<bucketVars, director, web, task, pipeline, age, historyVars>>

\* The process is killed.
Crash(p) ==
  /\ "crash" \in Faults
  /\ pc[p] # "idle"
  /\ Exit(p)
  /\ UNCHANGED <<bucketVars, cloudVars, age, historyVars>>

\* Time passes for a certificate: days, while a run and its task take an hour.
Ageing(i) ==
  /\ Idle /\ task = None
  /\ i \in LiveCerts /\ age[i] < MaxAge
  /\ age' = [age EXCEPT ![i] = @ + 1]
  /\ UNCHANGED <<bucketVars, cloudVars, procVars, historyVars>>

Run(p) ==
  \/ Load(p) \/ Apply(p) \/ Save(p) \/ Certs(p) \/ CreateEnv(p) \/ BoshDeploy(p)
  \/ StoreState(p) \/ StoreCreds(p) \/ SetPipeline(p) \/ Final(p)

Failure(p) ==
  \/ EarlyFailure(p) \/ CreateEnvFails(p) \/ BoshDeployFails(p)
  \/ SetPipelineFails(p) \/ Crash(p)

Next ==
  \/ \E p \in User : StartDeploy(p)
  \/ \E p \in Job : StartUpdate(p) \/ StartRenewal(p)
  \/ \E p \in Proc : Run(p) \/ Failure(p)
  \/ TaskDone \/ TaskFails
  \/ \E i \in CertId : Ageing(i)

Spec == Init /\ [][Next]_vars
-----------------------------------------------------------------------------
\* Once a deploy succeeded, the key that CredHub's data is encrypted with is in
\* director-creds.yml, however later runs fail: the next `bosh deploy` would
\* make another one (deployBosh stores what Deploy returned).
KeyIsKept == deployed => creds.key = web.key

\* Once a deploy succeeded, no later one, however it ends, brings up a Concourse
\* with another key for CredHub's data or another password (deployConcourse makes
\* the secrets it does not find, and bosh stores those it used).
SecretsStay ==
  [][deployed => web' # None /\ web'.key = web.key /\ web'.atc = web.atc]_vars

\* Once a deploy succeeded, the password in the config is the one that fly can
\* log in with: `info` prints it and a self-update cannot do without it.
LoginWorks == deployed => config.password = web.atc

\* What a successful deploy leaves behind is what the config says: the name
\* leads to the web node, the pipeline looks there, and the certificate and the
\* domain are those saved by its last Update.
ServedAsConfigured ==
  settled =>
    /\ web.domain = config.domain /\ web.cert = config.cert
    /\ pipeline = config.domain
    /\ Leads(config.domain)

\* Between runs director-state.json names the director VM there is, although
\* create-env may replace it and fail (Deploy returns the state with the error).
DirectorIsTracked == Idle => tracked

\* The certificate of a Concourse that was deployed is one for its domain
\* (ensureConcourseCerts keeps an old one unless the domain has changed).
CertFitsDomain == settled => web.cert.name = web.domain

\* A deploy that changes the domain itself and succeeds leaves a certificate for
\* the new one (isDomainUpdated of ensureConcourseCerts).  One that repeats a run
\* which failed finds the domain changed already, and has no such promise.
CertFitsNewDomain ==
  [][\A p \in User : updated[p] /\ settled' /\ ~settled => web.cert.name = web.domain]_vars

\* A domain that was given with --domain and saved is the domain of the config
\* until another one is given (getInitialConfig).
DomainPersists == Idle /\ wanted # None => config.domain = wanted

\* Concourse serves a certificate that is about to expire, to a pipeline that
\* looks where it serves it.
ServesDue ==
  /\ pipeline # None /\ Leads(pipeline) /\ Leads(config.domain)
  /\ age[web.cert.id] = 2

\* The certificate is renewed before it expires, by the job renew-https-cert:
\* no run that fails may leave a state in which no later run renews it.
CertIsRenewed == []<>~ServesDue

\* A deploy that is repeated as long as it fails succeeds: whatever step fails,
\* the files it leaves let the next run go on.
DeployCompletes == <>deployed
=============================================================================
