----------------------------- MODULE DeployProofs -----------------------------
(***************************************************************************)
(* What deploys and self-updates keep, for any number of users, jobs,      *)
(* domains, certificates and secrets.  Types are kept however many run at  *)
(* the same time.  The rest holds of runs one at a time: beside each other *)
(* they overwrite what the other one did.                                  *)
(***************************************************************************)
EXTENDS Deploy, FiniteSetTheorems, TLAPS

\* What a run has in its hands once it loaded the config: the name it serves and
\* a certificate once it has been through checkPreDeployConfigRequirements.
ConfInv ==
  \A p \in Proc :
    /\ pc[p] \notin {"idle", "load"} => conf[p] \in Config
    /\ pc[p] \in {"apply", "save", "certs"} => conf[p].domain # Address
    /\ pc[p] \in {"env", "bosh", "wait", "state", "creds", "pipeline", "final"} =>
         conf[p].domain # NoDomain /\ conf[p].cert # None

TypeInv == TypeOK /\ ConfInv

-----------------------------------------------------------------------------
\* A new certificate or secret is one that nothing else has.
LEMMA NewIsNew ==
  ASSUME NEW ids, NEW live, ids \ live # {}
  PROVE  New(ids, live) \in ids /\ New(ids, live) \notin live
  BY DEF New

LEMMA ConfigTyped ==
  ASSUME NEW c \in Config
  PROVE  /\ c.domain \in Name /\ c.cert \in Cert \union {None}
         /\ c.password \in Secret \union {None}
         /\ \A n \in Name : [c EXCEPT !.domain = n] \in Config
         /\ \A n \in Name, t \in Cert : [c EXCEPT !.domain = n, !.cert = t] \in Config
         /\ \A s \in Secret \union {None} : [c EXCEPT !.password = s] \in Config
  BY DEF Config

LEMMA GeneratedTyped ==
  ASSUME CertId \ LiveCerts # {}, NEW n \in Name \ {NoDomain}
  PROVE  Generated(n) \in Cert /\ Generated(n).id \in CertId
  BY NewIsNew DEF Generated, Cert

LEMMA ServedNameTyped ==
  ASSUME NEW n \in Name
  PROVE  ServedName(n) \in Name \ {NoDomain}
  BY NamesAreDistinct DEF ServedName, Name, NoDomain, Address

LEMMA PutTyped ==
  ASSUME NEW old, NEW new, NEW put \in Put(old, new)
  PROVE  put.val \in {old, new} /\ put.res \in {"ok", "error"}
  BY DEF Put

LEMMA WantsTyped ==
  ASSUME TypeInv, NEW told \in BOOLEAN, NEW c, Wants(told, c)
  PROVE  wanted' \in Domain \union {None}
  BY DEF Wants, TypeInv, TypeOK

LEMMA TypeInit == Init => TypeInv
  <1> SUFFICES ASSUME Init PROVE TypeInv
    OBVIOUS
  <1>1. NoCreds \in Creds /\ NoMem \in [tracked : BOOLEAN, creds : Creds]
    BY DEF NoCreds, NoMem, Creds
  <1>2. age \in [CertId -> 0..2] /\ pc \in [Proc -> Steps]
    BY DEF Init, Steps
  <1>3. /\ conf \in [Proc -> Config \union {None}] /\ updated \in [Proc -> BOOLEAN]
        /\ ok \in [Proc -> BOOLEAN]
        /\ mem \in [Proc -> [tracked : BOOLEAN, creds : Creds]]
    BY <1>1 DEF Init
  <1>4. TypeOK
    BY <1>1, <1>2, <1>3 DEF Init, TypeOK
  <1> QED BY <1>4 DEF Init, TypeInv, ConfInv

\* A run that is over has nothing in its hands.
LEMMA ExitTyped ==
  ASSUME TypeInv, NEW p \in Proc, Exit(p)
  PROVE  /\ pc' \in [Proc -> Steps] /\ conf' \in [Proc -> Config \union {None}]
         /\ updated' \in [Proc -> BOOLEAN] /\ ok' \in [Proc -> BOOLEAN]
         /\ mem' \in [Proc -> [tracked : BOOLEAN, creds : Creds]]
         /\ ConfInv'
  <1>1. NoMem \in [tracked : BOOLEAN, creds : Creds]
    BY DEF NoCreds, NoMem, Creds
  <1>2. /\ pc' \in [Proc -> Steps] /\ conf' \in [Proc -> Config \union {None}]
        /\ updated' \in [Proc -> BOOLEAN] /\ ok' \in [Proc -> BOOLEAN]
        /\ mem' \in [Proc -> [tracked : BOOLEAN, creds : Creds]]
    BY <1>1 DEF TypeInv, TypeOK, Exit, Goto, Steps
  <1>3. ConfInv'
    BY DEF TypeInv, TypeOK, ConfInv, Exit, Goto
  <1> QED BY <1>2, <1>3

\* A step that goes to another one with the same config in its hands, and past
\* what has to be decided before that.
LEMMA GotoTyped ==
  ASSUME TypeInv, NEW p \in Proc, NEW l \in Steps, pc' = [pc EXCEPT ![p] = l], conf' = conf,
         \/ /\ pc[p] \in {"env", "bosh", "wait", "state", "creds", "pipeline"}
            /\ l \notin {"apply", "save", "certs"}
         \/ pc[p] = "idle" /\ l = "load"
         \/ pc[p] = "apply" /\ l = "save"
         \/ pc[p] = "save" /\ l = "certs"
  PROVE  pc' \in [Proc -> Steps] /\ ConfInv'
  BY DEF TypeInv, TypeOK, ConfInv

LEMMA StartTyped ==
  ASSUME TypeInv, NEW p \in Proc, Start(p)
  PROVE  TypeInv'
  <1>1. age' \in [CertId -> 0..2]
    BY DEF Start, TypeInv, TypeOK
  <1>2. pc' \in [Proc -> Steps] /\ ConfInv'
    <2>1. "load" \in Steps
      BY DEF Steps
    <2>2. pc[p] = "idle" /\ pc' = [pc EXCEPT ![p] = "load"] /\ conf' = conf
      BY DEF Start, Goto
    <2> QED BY <2>1, <2>2, GotoTyped
  <1> QED BY <1>1, <1>2 DEF Start, TypeInv, TypeOK, bucketVars, cloudVars

LEMMA LoadTyped ==
  ASSUME TypeInv, NEW p \in Proc, Load(p)
  PROVE  TypeInv'
  <1>1. PICK given \in {None} \union Domain :
     IF config = None
     THEN LET new == [domain |-> IF given = None THEN NoDomain ELSE given,
                      cert |-> None, password |-> None]
          IN \E put \in Put(config, new) :
               /\ config' = put.val /\ Wants(TRUE, new)
               /\ IF put.res = "error" THEN Exit(p)
                  ELSE /\ Goto(p, "apply")
                       /\ conf' = [conf EXCEPT ![p] = new]
                       /\ updated' = [updated EXCEPT ![p] = TRUE]
                       /\ UNCHANGED <<mem, ok>>
     ELSE /\ Goto(p, "apply")
          /\ conf' = [conf EXCEPT ![p] = Merged(given)]
          /\ updated' = [updated EXCEPT ![p] = given \notin {None, config.domain}]
          /\ UNCHANGED <<config, mem, ok, wanted>>
    BY DEF Load
  <1>2. /\ pc[p] = "load"
        /\ UNCHANGED <<creds, tracked, dns, director, web, task, pipeline, age, deployed,
                       settled>>
    BY DEF Load, cloudVars
  <1>3. ASSUME NEW c \in Config, c.domain # Address, NEW u \in BOOLEAN,
               Goto(p, "apply"), conf' = [conf EXCEPT ![p] = c],
               updated' = [updated EXCEPT ![p] = u], UNCHANGED <<mem, ok>>
        PROVE  /\ pc' \in [Proc -> Steps] /\ conf' \in [Proc -> Config \union {None}]
               /\ updated' \in [Proc -> BOOLEAN] /\ ok' \in [Proc -> BOOLEAN]
               /\ mem' \in [Proc -> [tracked : BOOLEAN, creds : Creds]]
               /\ ConfInv'
    <2>1. /\ pc' \in [Proc -> Steps] /\ conf' \in [Proc -> Config \union {None}]
          /\ updated' \in [Proc -> BOOLEAN]
      BY <1>3 DEF TypeInv, TypeOK, Goto, Steps
    <2>2. ConfInv'
      BY <1>3 DEF TypeInv, TypeOK, ConfInv, Goto
    <2> QED BY <1>3, <2>1, <2>2 DEF TypeInv, TypeOK
  <1>4. CASE config = None
    <2> DEFINE new == [domain |-> IF given = None THEN NoDomain ELSE given,
                       cert |-> None, password |-> None]
    <2>1. new \in Config /\ new.domain # Address
      BY NamesAreDistinct DEF Config, Name, NoDomain, Address
    <2> HIDE DEF new
    <2>2. PICK put \in Put(config, new) :
               /\ config' = put.val /\ Wants(TRUE, new)
               /\ IF put.res = "error" THEN Exit(p)
                  ELSE /\ Goto(p, "apply")
                       /\ conf' = [conf EXCEPT ![p] = new]
                       /\ updated' = [updated EXCEPT ![p] = TRUE]
                       /\ UNCHANGED <<mem, ok>>
      BY <1>1, <1>4 DEF new
    <2>3. config' \in Config \union {None} /\ wanted' \in Domain \union {None}
      <3>1. config' \in Config \union {None}
        BY <2>1, <2>2, <1>4, PutTyped
      <3>2. Wants(TRUE, new)
        BY <2>2
      <3> QED BY <3>1, <3>2, WantsTyped
    <2> QED BY <1>2, <1>3, <2>1, <2>2, <2>3, ExitTyped DEF TypeInv, TypeOK
  <1>5. CASE config # None
    <2>1. Merged(given) \in Config /\ Merged(given).domain # Address
      <3>1. config \in Config
        BY <1>5 DEF TypeInv, TypeOK
      <3> QED BY <3>1, NamesAreDistinct, NoneIsNothing
              DEF Merged, Config, Name, NoDomain, Address
    <2>2. PICK u \in BOOLEAN :
            /\ Goto(p, "apply") /\ conf' = [conf EXCEPT ![p] = Merged(given)]
            /\ updated' = [updated EXCEPT ![p] = u]
            /\ UNCHANGED <<config, mem, ok, wanted>>
      BY <1>1, <1>5
    <2>3. /\ pc' \in [Proc -> Steps] /\ conf' \in [Proc -> Config \union {None}]
          /\ updated' \in [Proc -> BOOLEAN] /\ ok' \in [Proc -> BOOLEAN]
          /\ mem' \in [Proc -> [tracked : BOOLEAN, creds : Creds]]
          /\ ConfInv'
      BY <1>3, <2>1, <2>2
    <2> QED BY <1>2, <2>2, <2>3 DEF TypeInv, TypeOK
  <1> QED BY <1>4, <1>5

LEMMA SaveTyped ==
  ASSUME TypeInv, NEW p \in Proc, Apply(p) \/ Save(p)
  PROVE  TypeInv'
  <1>1. CASE Apply(p)
    <2>1. pc' \in [Proc -> Steps] /\ ConfInv'
      <3>1. "save" \in Steps
        BY DEF Steps
      <3>2. pc[p] = "apply" /\ pc' = [pc EXCEPT ![p] = "save"] /\ conf' = conf
        BY <1>1 DEF Apply, Goto
      <3> QED BY <3>1, <3>2, GotoTyped
    <2>2. dns' \in Domain \union {NoDomain, None}
      BY <1>1 DEF Apply, TypeInv, ConfInv, Config, Name
    <2> QED BY <1>1, <2>1, <2>2 DEF Apply, TypeInv, TypeOK, bucketVars, historyVars
  <1>2. CASE Save(p)
    <2>1. PICK put \in Put(config, conf[p]) :
            /\ config' = put.val /\ Wants(updated[p], conf[p])
            /\ IF put.res = "error" THEN Exit(p)
               ELSE Goto(p, "certs") /\ UNCHANGED <<conf, updated, mem, ok>>
      BY <1>2 DEF Save
    <2>2. /\ pc[p] = "save" /\ conf[p] \in Config
          /\ UNCHANGED <<creds, tracked, dns, director, web, task, pipeline, age, deployed,
                         settled>>
      BY <1>2 DEF Save, TypeInv, ConfInv, cloudVars
    <2>3. config' \in Config \union {None} /\ wanted' \in Domain \union {None}
      BY <2>1, <2>2, PutTyped, WantsTyped DEF TypeInv, TypeOK
    <2>4. CASE put.res = "error"
      BY <2>1, <2>2, <2>3, <2>4, ExitTyped DEF TypeInv, TypeOK
    <2>5. CASE put.res # "error"
      <3>1. pc' \in [Proc -> Steps] /\ ConfInv'
        <4>1. "certs" \in Steps
          BY DEF Steps
        <4>2. pc' = [pc EXCEPT ![p] = "certs"] /\ conf' = conf
          BY <2>1, <2>5 DEF Goto
        <4> QED BY <2>2, <4>1, <4>2, GotoTyped
      <3> QED BY <2>1, <2>2, <2>3, <2>5, <3>1 DEF TypeInv, TypeOK
    <2> QED BY <2>4, <2>5
  <1> QED BY <1>1, <1>2

\* The certificate and the name are there from here on.
LEMMA CertsTyped ==
  ASSUME TypeInv, NEW p \in Proc, Certs(p)
  PROVE  TypeInv'
  <1> DEFINE n == ServedName(conf[p].domain)
  <1>1. /\ pc[p] = "certs" /\ pc' = [pc EXCEPT ![p] = AfterCerts(p)]
        /\ UNCHANGED <<config, creds, tracked, dns, director, web, task, pipeline, updated,
                       mem, ok, deployed, settled, wanted>>
    BY DEF Certs, Goto, bucketVars, cloudVars, historyVars
  <1>2. conf[p] \in Config /\ n \in Name \ {NoDomain}
    BY <1>1, ServedNameTyped, ConfigTyped DEF TypeInv, ConfInv
  <1>3. AfterCerts(p) \in {"pipeline", "env"} /\ pc' \in [Proc -> Steps]
    BY <1>1 DEF AfterCerts, TypeInv, TypeOK, Steps
  <1>4. PICK c \in Config : /\ conf' = [conf EXCEPT ![p] = c]
                           /\ c.domain = n /\ c.cert # None
                           /\ age' \in [CertId -> 0..2]
    <2>1. CASE KeepsCert(p) /\ conf' = [conf EXCEPT ![p].domain = n] /\ UNCHANGED age
      <3>1. [conf[p] EXCEPT !.domain = n] \in Config
        BY <1>2, ConfigTyped
      <3>2. conf' = [conf EXCEPT ![p] = [conf[p] EXCEPT !.domain = n]]
        BY <2>1
      <3>3. /\ [conf[p] EXCEPT !.domain = n].domain = n
            /\ [conf[p] EXCEPT !.domain = n].cert # None
        BY <1>2, <2>1 DEF KeepsCert, Config
      <3> QED BY <2>1, <3>1, <3>2, <3>3 DEF TypeInv, TypeOK
    <2>2. CASE /\ CertId \ LiveCerts # {}
               /\ conf' = [conf EXCEPT ![p].domain = n, ![p].cert = Generated(n)]
               /\ age' = [age EXCEPT ![Generated(n).id] = 0]
      <3>1. Generated(n) \in Cert /\ Generated(n).id \in CertId
        BY <1>2, <2>2, GeneratedTyped
      <3>2. [conf[p] EXCEPT !.domain = n, !.cert = Generated(n)] \in Config
        BY <1>2, <3>1, ConfigTyped
      <3>3. conf' = [conf EXCEPT ![p] = [conf[p] EXCEPT !.domain = n, !.cert = Generated(n)]]
        BY <2>2
      <3>4. /\ [conf[p] EXCEPT !.domain = n, !.cert = Generated(n)].domain = n
            /\ [conf[p] EXCEPT !.domain = n, !.cert = Generated(n)].cert = Generated(n)
        BY <1>2 DEF Config
      <3>5. Generated(n) # None
        BY <1>2, <2>2, NewIsNew, NoneIsNothing DEF Generated
      <3>6. age' \in [CertId -> 0..2]
        BY <2>2, <3>1 DEF TypeInv, TypeOK
      <3> QED BY <3>2, <3>3, <3>4, <3>5, <3>6
    <2> QED BY <2>1, <2>2 DEF Certs
  <1>5. ConfInv'
    BY <1>1, <1>2, <1>3, <1>4 DEF TypeInv, TypeOK, ConfInv
  <1> QED BY <1>1, <1>3, <1>4, <1>5 DEF TypeInv, TypeOK

\* What create-env leaves of the runs and of the director.
LEMMA CreateEnvTyped ==
  ASSUME TypeInv, NEW p \in Proc, CreateEnv(p) \/ CreateEnvFails(p)
  PROVE  TypeInv'
  <1>1. /\ pc[p] = "env" /\ conf' = conf
        /\ UNCHANGED <<config, creds, dns, pipeline, age, updated, deployed, settled, wanted>>
    BY DEF CreateEnv, CreateEnvFails, historyVars
  <1>2. ASSUME NEW t \in BOOLEAN
        PROVE  [tracked |-> t, creds |-> creds] \in [tracked : BOOLEAN, creds : Creds]
    BY DEF TypeInv, TypeOK
  <1>3. ASSUME NEW l \in {"bosh", "state"}, NewDirector(p, l)
        PROVE  TypeInv'
    <2>1. /\ director' \in BOOLEAN /\ tracked' \in BOOLEAN
          /\ task' \in Web \union {None} /\ web' \in Web \union {None}
      BY <1>3 DEF NewDirector, TypeInv, TypeOK
    <2>2. mem' \in [Proc -> [tracked : BOOLEAN, creds : Creds]]
      BY <1>2, <1>3 DEF NewDirector, TypeInv, TypeOK
    <2>3. pc' \in [Proc -> Steps] /\ ok' \in [Proc -> BOOLEAN]
      BY <1>3 DEF NewDirector, TypeInv, TypeOK, Steps
    <2>4. ConfInv'
      BY <1>1, <1>3 DEF NewDirector, TypeInv, TypeOK, ConfInv
    <2> QED BY <1>1, <2>1, <2>2, <2>3, <2>4 DEF TypeInv, TypeOK
  <1>4. ASSUME NEW l \in {"bosh", "state"}, SameDirector(p), Goto(p, l), ok' \in [Proc -> BOOLEAN]
        PROVE  TypeInv'
    <2>1. mem' \in [Proc -> [tracked : BOOLEAN, creds : Creds]]
      BY <1>2, <1>4 DEF SameDirector, TypeInv, TypeOK
    <2>2. pc' \in [Proc -> Steps] /\ ConfInv'
      <3>1. l \in Steps /\ l \notin {"apply", "save", "certs"} /\ pc' = [pc EXCEPT ![p] = l]
        BY <1>4 DEF Steps, Goto
      <3> QED BY <1>1, <3>1, GotoTyped
    <2> QED BY <1>1, <1>4, <2>1, <2>2 DEF SameDirector, TypeInv, TypeOK
  <1>5. CASE CreateEnv(p)
    BY <1>3, <1>4, <1>5 DEF CreateEnv, TypeInv, TypeOK
  <1>6. CASE CreateEnvFails(p)
    BY <1>3, <1>4, <1>6 DEF CreateEnvFails, FailTo, TypeInv, TypeOK
  <1> QED BY <1>5, <1>6

LEMMA StoredTyped ==
  ASSUME TypeInv, NEW p \in Proc, NEW w \in Web
  PROVE  Stored(p, w) \in Creds
  BY DEF TypeInv, TypeOK, Stored, Creds, Web

LEMMA ReturnedTyped ==
  ASSUME NEW k \in Creds, NEW r \in Returned(k)
  PROVE  r \in Creds
  BY DEF Returned, NoCreds, Creds

LEMMA BoshDeployTyped ==
  ASSUME TypeInv, NEW p \in Proc, BoshDeploy(p) \/ BoshDeployFails(p)
  PROVE  TypeInv'
  <1>1. /\ pc[p] = "bosh" /\ conf' = conf
        /\ conf[p] \in Config /\ conf[p].domain # NoDomain /\ conf[p].cert # None
        /\ mem[p] \in [tracked : BOOLEAN, creds : Creds]
        /\ UNCHANGED <<config, creds, tracked, dns, director, web, pipeline, age, updated,
                       deployed, settled, wanted>>
    BY DEF BoshDeploy, BoshDeployFails, TypeInv, TypeOK, ConfInv, bucketVars, cloudVars, historyVars
  <1>2. ASSUME NEW k \in Creds
        PROVE  [mem EXCEPT ![p].creds = k] \in [Proc -> [tracked : BOOLEAN, creds : Creds]]
    BY <1>1 DEF TypeInv, TypeOK
  <1>3. ASSUME NEW l \in {"wait", "state"}, Goto(p, l)
        PROVE  pc' \in [Proc -> Steps] /\ ConfInv'
    <2>1. l \in Steps /\ l \notin {"apply", "save", "certs"} /\ pc' = [pc EXCEPT ![p] = l]
      BY <1>3 DEF Steps, Goto
    <2> QED BY <1>1, <2>1, GotoTyped
  <1>4. CASE BoshDeploy(p)
    <2> DEFINE k == mem[p].creds
               set == IF conf[p].password # None THEN conf[p].password ELSE k.atc
               atc == IF set # None THEN set ELSE New(Secret, LiveSecrets)
               key == IF k.key # None THEN k.key ELSE New(Secret, LiveSecrets)
               w == [domain |-> conf[p].domain, cert |-> conf[p].cert, atc |-> atc, key |-> key]
    <2>1. New(Secret, LiveSecrets) \in Secret
      BY <1>4, NewIsNew DEF BoshDeploy
    <2>2. atc \in Secret /\ key \in Secret
      BY <1>1, <2>1 DEF Config, Creds
    <2>3. w \in Web
      BY <1>1, <2>2 DEF Web, Config
    <2>4. /\ task' = w /\ ok' = ok
          /\ \/ Goto(p, "state") /\ mem' = [mem EXCEPT ![p].creds = Stored(p, w)]
             \/ Goto(p, "wait") /\ UNCHANGED mem
      BY <1>4 DEF BoshDeploy
    <2> HIDE DEF w
    <2>5. mem' \in [Proc -> [tracked : BOOLEAN, creds : Creds]]
      BY <1>2, <2>3, <2>4, StoredTyped DEF TypeInv, TypeOK
    <2>6. pc' \in [Proc -> Steps] /\ ConfInv'
      BY <1>3, <2>4
    <2> QED BY <1>1, <2>3, <2>4, <2>5, <2>6 DEF TypeInv, TypeOK
  <1>5. CASE BoshDeployFails(p)
    <2>1. /\ Goto(p, "state") /\ ok' = [ok EXCEPT ![p] = FALSE] /\ task' = task
          /\ \E k \in Returned(mem[p].creds) : mem' = [mem EXCEPT ![p].creds = k]
      BY <1>5 DEF BoshDeployFails, FailTo, cloudVars
    <2>2. mem' \in [Proc -> [tracked : BOOLEAN, creds : Creds]]
      BY <1>1, <1>2, <2>1, ReturnedTyped
    <2>3. pc' \in [Proc -> Steps] /\ ConfInv'
      BY <1>3, <2>1
    <2> QED BY <1>1, <2>1, <2>2, <2>3 DEF TypeInv, TypeOK
  <1> QED BY <1>4, <1>5

LEMMA TaskTyped ==
  ASSUME TypeInv, TaskDone \/ TaskFails
  PROVE  TypeInv'
  <1>1. /\ task \in Web /\ task' = None /\ web' \in {web, task} /\ conf' = conf
        /\ pc' = [p \in Proc |-> IF p \in Waiting THEN "state" ELSE pc[p]]
        /\ UNCHANGED <<config, creds, tracked, dns, director, pipeline, age, updated,
                       deployed, settled, wanted>>
    BY DEF TaskDone, TaskFails, TypeInv, TypeOK, bucketVars, historyVars
  <1>2. pc' \in [Proc -> Steps] /\ ConfInv'
    BY <1>1 DEF TypeInv, TypeOK, ConfInv, Waiting, Steps
  <1>3. CASE TaskDone
    <2>1. \A p \in Proc : [mem[p] EXCEPT !.creds = Stored(p, task)]
                              \in [tracked : BOOLEAN, creds : Creds]
      BY <1>1, StoredTyped DEF TypeInv, TypeOK
    <2>2. mem' \in [Proc -> [tracked : BOOLEAN, creds : Creds]] /\ ok' = ok
      BY <1>3, <2>1 DEF TaskDone, TypeInv, TypeOK
    <2> QED BY <1>1, <1>2, <2>2 DEF TypeInv, TypeOK
  <1>4. CASE TaskFails
    <2>1. ok' \in [Proc -> BOOLEAN]
      BY <1>4 DEF TaskFails, TypeInv, TypeOK
    <2>2. mem' \in [Proc -> [tracked : BOOLEAN, creds : Creds]]
      <3>1. NoCreds \in Creds
        BY DEF NoCreds, Creds
      <3> QED BY <1>4, <3>1 DEF TaskFails, TypeInv, TypeOK
    <2> QED BY <1>1, <1>2, <2>1, <2>2 DEF TypeInv, TypeOK
  <1> QED BY <1>3, <1>4

LEMMA StoreTyped ==
  ASSUME TypeInv, NEW p \in Proc, StoreState(p) \/ StoreCreds(p)
  PROVE  TypeInv'
  <1>1. NoMem \in [tracked : BOOLEAN, creds : Creds]
    BY DEF NoCreds, NoMem, Creds
  <1>2. CASE StoreState(p)
    <2>1. /\ pc[p] = "state" /\ pc' = [pc EXCEPT ![p] = "creds"] /\ conf' = conf
          /\ UNCHANGED <<config, creds, dns, director, web, task, pipeline, age, updated, mem,
                         deployed, settled, wanted>>
      BY <1>2 DEF StoreState, Goto, cloudVars, historyVars
    <2>2. tracked' \in BOOLEAN /\ ok' \in [Proc -> BOOLEAN]
      BY <1>2, PutTyped DEF StoreState, TypeInv, TypeOK
    <2>3. pc' \in [Proc -> Steps] /\ ConfInv'
      <3>1. "creds" \in Steps
        BY DEF Steps
      <3> QED BY <2>1, <3>1, GotoTyped
    <2> QED BY <2>1, <2>2, <2>3 DEF TypeInv, TypeOK
  <1>3. CASE StoreCreds(p)
    <2>1. /\ pc[p] = "creds" /\ conf[p] \in Config
          /\ conf[p].domain # NoDomain /\ conf[p].cert # None
          /\ mem' = [mem EXCEPT ![p] = NoMem]
          /\ UNCHANGED <<config, tracked, dns, director, web, task, pipeline, age, updated,
                         deployed, settled, wanted>>
      BY <1>3 DEF StoreCreds, TypeInv, ConfInv, cloudVars, historyVars
    <2>2. mem[p].creds \in Creds /\ mem' \in [Proc -> [tracked : BOOLEAN, creds : Creds]]
      BY <1>1, <2>1 DEF TypeInv, TypeOK
    <2>3. creds' \in Creds
      BY <1>3, <2>2, PutTyped DEF StoreCreds, TypeInv, TypeOK
    <2>4. PICK l \in {"pipeline", "final"}, c \in Config :
            /\ pc' = [pc EXCEPT ![p] = l] /\ conf' = [conf EXCEPT ![p] = c]
            /\ c.domain = conf[p].domain /\ c.cert = conf[p].cert
            /\ ok' \in [Proc -> BOOLEAN]
      <3> DEFINE s == IF mem[p].creds.atc = None THEN conf[p].password ELSE mem[p].creds.atc
      <3>1. s \in Secret \union {None}
        BY <2>1, <2>2 DEF Config, Creds
      <3>2. [conf[p] EXCEPT !.password = s] \in Config
        BY <2>1, <3>1, ConfigTyped
      <3>3. /\ [conf[p] EXCEPT !.password = s].domain = conf[p].domain
            /\ [conf[p] EXCEPT !.password = s].cert = conf[p].cert
        BY <2>1 DEF Config
      <3>4. \/ /\ pc' = [pc EXCEPT ![p] = AfterCreds(p)]
               /\ conf' = [conf EXCEPT ![p] = [conf[p] EXCEPT !.password = s]] /\ ok' = ok
            \/ /\ pc' = [pc EXCEPT ![p] = "final"]
               /\ conf' = conf /\ ok' = [ok EXCEPT ![p] = FALSE]
        BY <1>3 DEF StoreCreds, Goto, FailTo
      <3>5. conf = [conf EXCEPT ![p] = conf[p]] /\ AfterCreds(p) \in {"pipeline", "final"}
        BY DEF TypeInv, TypeOK, AfterCreds
      <3> HIDE DEF s
      <3> QED BY <2>1, <3>2, <3>3, <3>4, <3>5 DEF TypeInv, TypeOK
    <2>5. /\ pc' \in [Proc -> Steps] /\ conf' \in [Proc -> Config \union {None}]
          /\ ConfInv'
      BY <2>1, <2>4 DEF TypeInv, TypeOK, ConfInv, Steps
    <2> QED BY <2>1, <2>2, <2>3, <2>4, <2>5 DEF TypeInv, TypeOK
  <1> QED BY <1>2, <1>3

LEMMA PipelineTyped ==
  ASSUME TypeInv, NEW p \in Proc, SetPipeline(p) \/ SetPipelineFails(p)
  PROVE  TypeInv'
  <1>1. /\ pc[p] = "pipeline" /\ conf[p] \in Config /\ conf[p].domain # NoDomain
        /\ conf' = conf
        /\ UNCHANGED <<config, creds, tracked, dns, director, web, task, age, updated, mem,
                       deployed, settled, wanted>>
        /\ pipeline' \in {pipeline, conf[p].domain} /\ ok' \in [Proc -> BOOLEAN]
    BY DEF SetPipeline, SetPipelineFails, FailTo, TypeInv, TypeOK, ConfInv, bucketVars, historyVars
  <1>2. PICK l \in {"env", "final"} : pc' = [pc EXCEPT ![p] = l]
    BY DEF SetPipeline, SetPipelineFails, FailTo, Goto, AfterPipeline
  <1>3. pc' \in [Proc -> Steps] /\ ConfInv'
    <2>1. l \in Steps /\ l \notin {"apply", "save", "certs"}
      BY DEF Steps
    <2> QED BY <1>1, <1>2, <2>1, GotoTyped
  <1> QED BY <1>1, <1>3 DEF TypeInv, TypeOK, Config

LEMMA LeavingTyped ==
  ASSUME TypeInv, NEW p \in Proc, Final(p) \/ EarlyFailure(p) \/ Crash(p)
  PROVE  TypeInv'
  <1>1. Exit(p)
    BY DEF Final, EarlyFailure, Crash
  <1>2. /\ pc' \in [Proc -> Steps] /\ conf' \in [Proc -> Config \union {None}]
        /\ updated' \in [Proc -> BOOLEAN] /\ ok' \in [Proc -> BOOLEAN]
        /\ mem' \in [Proc -> [tracked : BOOLEAN, creds : Creds]]
        /\ ConfInv'
    BY <1>1, ExitTyped
  <1>3. /\ config' \in Config \union {None} /\ dns' \in Domain \union {NoDomain, None}
        /\ deployed' \in BOOLEAN /\ settled' \in BOOLEAN
        /\ wanted' \in Domain \union {None}
        /\ UNCHANGED <<creds, tracked, director, web, task, pipeline, age>>
    <2>1. CASE Final(p)
      <3>1. conf[p] \in Config
        BY <2>1 DEF Final, TypeInv, ConfInv
      <3>2. PICK put \in Put(config, conf[p]) :
              /\ config' = put.val /\ Wants(updated[p], conf[p])
              /\ LET good == p \in User /\ ok[p] /\ put.res = "ok" IN
                   deployed' = (deployed \/ good) /\ settled' = good
        BY <2>1 DEF Final
      <3>3. config' \in Config \union {None} /\ wanted' \in Domain \union {None}
        BY <3>1, <3>2, PutTyped, WantsTyped DEF TypeInv, TypeOK
      <3> QED BY <2>1, <3>2, <3>3 DEF Final, TypeInv, TypeOK, cloudVars
    <2>2. CASE EarlyFailure(p)
      <3>1. dns' \in Domain \union {NoDomain, None}
        BY <2>2 DEF EarlyFailure, TypeInv, TypeOK, ConfInv, Config, Name
      <3> QED BY <2>2, <3>1 DEF EarlyFailure, TypeInv, TypeOK, bucketVars, historyVars
    <2>3. CASE Crash(p)
      BY <2>3 DEF Crash, TypeInv, TypeOK, bucketVars, cloudVars, historyVars
    <2> QED BY <2>1, <2>2, <2>3
  <1> QED BY <1>2, <1>3 DEF TypeInv, TypeOK

LEMMA StepTyped == TypeInv /\ [Next]_vars => TypeInv'
  <1> SUFFICES ASSUME TypeInv, [Next]_vars PROVE TypeInv'
    OBVIOUS
  <1>1. ASSUME NEW p \in Proc, StartDeploy(p) \/ StartUpdate(p) \/ StartRenewal(p)
        PROVE  TypeInv'
    BY <1>1, StartTyped DEF StartDeploy, StartUpdate, StartRenewal
  <1>2. ASSUME NEW p \in Proc, Run(p) PROVE TypeInv'
    BY <1>2, LoadTyped, SaveTyped, CertsTyped, CreateEnvTyped, BoshDeployTyped, StoreTyped,
       PipelineTyped, LeavingTyped DEF Run
  <1>3. ASSUME NEW p \in Proc, Failure(p) PROVE TypeInv'
    BY <1>3, CreateEnvTyped, BoshDeployTyped, PipelineTyped, LeavingTyped DEF Failure
  <1>4. ASSUME NEW i \in CertId, Ageing(i) PROVE TypeInv'
    <2>1. age' \in [CertId -> 0..2]
      BY <1>4, AgesAreThree DEF Ageing, TypeInv, TypeOK
    <2> QED BY <1>4, <2>1
            DEF Ageing, TypeInv, TypeOK, ConfInv, bucketVars, cloudVars, procVars, historyVars
  <1>5. CASE UNCHANGED vars
    <2>1. UNCHANGED <<config, creds, tracked, dns, director, web, task, pipeline, age, pc, conf,
                      updated, mem, ok, deployed, settled, wanted>>
      BY <1>5 DEF vars, bucketVars, cloudVars, procVars, historyVars
    <2>2. TypeOK'
      BY <2>1 DEF TypeInv, TypeOK
    <2>3. ConfInv'
      BY <2>1 DEF TypeInv, ConfInv
    <2> QED BY <2>2, <2>3 DEF TypeInv
  <1> QED BY <1>1, <1>2, <1>3, <1>4, <1>5, TaskTyped DEF Next, Proc

LEMMA TypeInvariant == Spec => []TypeInv
  BY TypeInit, StepTyped, PTL DEF Spec

\* Everything a deploy reads and writes keeps its type, whatever fails and however
\* many runs there are: a config that is stored is one a later run can go on from,
\* and what is deployed has a name and a certificate (concourse/deploy.go).
THEOREM DeployTyped == Spec => []TypeOK
  BY TypeInvariant, PTL DEF TypeInv

-----------------------------------------------------------------------------
(* One run at a time. *)

OneRun == \A p, q \in Proc : pc[p] # "idle" /\ pc[q] # "idle" => p = q

LEMMA PcTyped ==
  ASSUME TypeInv
  PROVE  pc \in [Proc -> Steps]
  BY DEF TypeInv, TypeOK

LEMMA AloneAtStart ==
  ASSUME AtATime = 1, CanStart
  PROVE  \A q \in Proc : pc[q] = "idle"
  <1> DEFINE busy == {q \in Proc : pc[q] # "idle"}
  <1>1. IsFiniteSet(busy)
    BY ProcsAreDistinct, FS_Subset
  <1>2. Cardinality(busy) \in Nat /\ Cardinality(busy) < 1
    BY <1>1, FS_CardinalityType DEF CanStart
  <1>3. busy = {}
    BY <1>1, <1>2, FS_EmptySet
  <1> QED BY <1>3

\* Steps but those that start a run start none.
LEMMA NobodyElseStarts ==
  ASSUME TypeInv, [Next]_vars, ~(\E p \in Proc : Start(p))
  PROVE  \A q \in Proc : pc'[q] # "idle" => pc[q] # "idle"
  <1> USE PcTyped
  <1>1. ASSUME NEW p \in Proc, pc[p] # "idle", NEW l, pc' = [pc EXCEPT ![p] = l]
        PROVE  \A q \in Proc : pc'[q] # "idle" => pc[q] # "idle"
    BY <1>1
  <1>2. ASSUME NEW p \in Proc, Run(p) \/ Failure(p)
        PROVE  \A q \in Proc : pc'[q] # "idle" => pc[q] # "idle"
    <2>1. CASE Load(p) \/ Apply(p) \/ Save(p) \/ Certs(p)
      BY <1>1, <2>1 DEF Load, Apply, Save, Certs, Goto, Exit
    <2>2. CASE CreateEnv(p) \/ CreateEnvFails(p)
      BY <1>1, <2>2 DEF CreateEnv, CreateEnvFails, NewDirector, SameDirector, Goto, FailTo
    <2>3. CASE BoshDeploy(p) \/ BoshDeployFails(p) \/ StoreState(p) \/ StoreCreds(p)
      BY <1>1, <2>3 DEF BoshDeploy, BoshDeployFails, StoreState, StoreCreds, Goto, FailTo
    <2>4. CASE SetPipeline(p) \/ SetPipelineFails(p)
      BY <1>1, <2>4 DEF SetPipeline, SetPipelineFails, Goto, FailTo
    <2>5. CASE Final(p) \/ EarlyFailure(p) \/ Crash(p)
      BY <1>1, <2>5 DEF Final, EarlyFailure, Crash, Exit, Goto
    <2> QED BY <1>2, <2>1, <2>2, <2>3, <2>4, <2>5 DEF Run, Failure
  <1>3. CASE TaskDone \/ TaskFails
    BY <1>3 DEF TaskDone, TaskFails, Waiting
  <1>4. CASE (\E i \in CertId : Ageing(i)) \/ UNCHANGED vars
    BY <1>4 DEF Ageing, procVars, vars
  <1> QED BY <1>2, <1>3, <1>4 DEF Next, StartDeploy, StartUpdate, StartRenewal, Proc

LEMMA OneRunKept ==
  ASSUME AtATime = 1, TypeInv, OneRun, [Next]_vars
  PROVE  OneRun'
  <1>1. CASE \E p \in Proc : Start(p)
    <2>1. PICK p \in Proc : Start(p)
      BY <1>1
    <2>2. (\A q \in Proc : pc[q] = "idle") /\ pc' = [pc EXCEPT ![p] = "load"]
      BY <2>1, AloneAtStart DEF Start, Goto
    <2> QED BY <2>2, PcTyped DEF OneRun
  <1>2. CASE ~(\E p \in Proc : Start(p))
    BY <1>2, NobodyElseStarts DEF OneRun
  <1> QED BY <1>1, <1>2

-----------------------------------------------------------------------------
(* The director VM that director-state.json names. *)

\* A run that replaced the director, or may have, is on its way to the step that
\* stores what create-env wrote.
Returning == {"bosh", "wait", "state"}

TrackedInv ==
  /\ \A p \in Proc : pc[p] \in Returning => mem[p].tracked
  /\ tracked \/ \E p \in Proc : pc[p] \in Returning

\* A step of p that leaves the director and what others know of it alone.
LEMMA SameTracked ==
  ASSUME TypeInv, OneRun, TrackedInv, NEW p \in Proc, pc[p] # "idle",
         NEW l, pc' = [pc EXCEPT ![p] = l], tracked' = tracked,
         IF pc[p] \in Returning THEN l \in Returning /\ mem'[p].tracked = mem[p].tracked
                                ELSE l \notin Returning
  PROVE  TrackedInv'
  BY PcTyped DEF TrackedInv, Returning, OneRun

LEMMA CreateEnvTracked ==
  ASSUME TypeInv, OneRun, TrackedInv, NEW p \in Proc, CreateEnv(p) \/ CreateEnvFails(p)
  PROVE  TrackedInv'
  <1>1. pc[p] = "env" /\ (\A q \in Proc \ {p} : pc[q] = "idle") /\ tracked
    BY DEF CreateEnv, CreateEnvFails, OneRun, TrackedInv, Returning
  <1>2. PICK l \in {"bosh", "state"} :
          NewDirector(p, l) \/ (SameDirector(p) /\ pc' = [pc EXCEPT ![p] = l])
    BY DEF CreateEnv, CreateEnvFails, FailTo, Goto
  <1>3. mem'[p].tracked /\ pc'[p] = l /\ \A q \in Proc \ {p} : pc'[q] = "idle"
    <2>1. mem \in [Proc -> [tracked : BOOLEAN, creds : Creds]] /\ pc \in [Proc -> Steps]
      BY DEF TypeInv, TypeOK
    <2>2. CASE NewDirector(p, l)
      BY <1>1, <2>1, <2>2 DEF NewDirector
    <2>3. CASE SameDirector(p) /\ pc' = [pc EXCEPT ![p] = l]
      BY <1>1, <2>1, <2>3 DEF SameDirector
    <2> QED BY <1>2, <2>2, <2>3
  <1> QED BY <1>2, <1>3 DEF TrackedInv, Returning

LEMMA StepTracked ==
  ASSUME AtATime = 1, "crash" \notin Faults, "store" \notin Faults,
         TypeInv, OneRun, TrackedInv, [Next]_vars
  PROVE  TrackedInv'
  <1> USE PcTyped
  <1>0. mem \in [Proc -> [tracked : BOOLEAN, creds : Creds]]
    BY DEF TypeInv, TypeOK
  <1>1. ASSUME NEW p \in Proc, Start(p) PROVE TrackedInv'
    BY <1>1 DEF Start, Goto, bucketVars, TrackedInv, Returning
  <1>2. ASSUME NEW p \in Proc, Load(p) \/ Apply(p) \/ Save(p) \/ Certs(p)
        PROVE  TrackedInv'
    <2>1. pc[p] \in {"load", "apply", "save", "certs"} /\ tracked' = tracked
      BY <1>2 DEF Load, Apply, Save, Certs, bucketVars
    <2>2. \/ pc' = [pc EXCEPT ![p] = "idle"] \/ pc' = [pc EXCEPT ![p] = "apply"]
          \/ pc' = [pc EXCEPT ![p] = "save"] \/ pc' = [pc EXCEPT ![p] = "certs"]
          \/ pc' = [pc EXCEPT ![p] = AfterCerts(p)]
      BY <1>2 DEF Load, Apply, Save, Certs, Goto, Exit
    <2>3. PICK l : pc' = [pc EXCEPT ![p] = l] /\ l \notin Returning
      BY <2>2 DEF AfterCerts, Returning
    <2> QED BY <2>1, <2>3, SameTracked DEF Returning
  <1>3. ASSUME NEW p \in Proc, BoshDeploy(p) \/ BoshDeployFails(p)
        PROVE  TrackedInv'
    <2>1. /\ pc[p] = "bosh" /\ tracked' = tracked
          /\ mem'[p].tracked = mem[p].tracked
          /\ \E l : pc' = [pc EXCEPT ![p] = l] /\ l \in Returning
      BY <1>0, <1>3 DEF BoshDeploy, BoshDeployFails, Goto, FailTo, Returning, bucketVars
    <2> QED BY <2>1, SameTracked DEF Returning
  <1>4. ASSUME NEW p \in Proc, StoreState(p) PROVE TrackedInv'
    <2>1. pc[p] = "state" /\ mem[p].tracked /\ \A q \in Proc \ {p} : pc[q] = "idle"
      BY <1>4 DEF StoreState, OneRun, TrackedInv, Returning
    <2>2. tracked' = mem[p].tracked /\ pc' = [pc EXCEPT ![p] = "creds"]
      BY <1>4 DEF StoreState, Put, Goto
    <2> QED BY <2>1, <2>2 DEF TrackedInv, Returning
  <1>5. ASSUME NEW p \in Proc, StoreCreds(p) \/ SetPipeline(p) \/ SetPipelineFails(p)
        PROVE  TrackedInv'
    <2>1. /\ pc[p] \in {"creds", "pipeline"} /\ tracked' = tracked
          /\ \E l : pc' = [pc EXCEPT ![p] = l] /\ l \notin Returning
      BY <1>5 DEF StoreCreds, SetPipeline, SetPipelineFails, Goto, FailTo, AfterCreds,
                  AfterPipeline, Returning, bucketVars
    <2> QED BY <2>1, SameTracked DEF Returning
  <1>6. ASSUME NEW p \in Proc, Final(p) \/ EarlyFailure(p) PROVE TrackedInv'
    <2>1. /\ pc[p] \in {"load", "apply", "certs", "final"} /\ tracked' = tracked
          /\ pc' = [pc EXCEPT ![p] = "idle"]
      BY <1>6 DEF Final, EarlyFailure, Exit, Goto, bucketVars
    <2> QED BY <2>1, SameTracked DEF Returning
  <1>7. CASE TaskDone \/ TaskFails
    <2>1. /\ pc' = [p \in Proc |-> IF p \in Waiting THEN "state" ELSE pc[p]]
          /\ tracked' = tracked /\ \A p \in Proc : mem'[p].tracked = mem[p].tracked
      BY <1>0, <1>7 DEF TaskDone, TaskFails, bucketVars
    <2> QED BY <2>1 DEF TrackedInv, Returning, Waiting
  <1>8. CASE (\E i \in CertId : Ageing(i)) \/ UNCHANGED vars
    BY <1>8 DEF Ageing, vars, bucketVars, procVars, TrackedInv
  <1> QED
    BY <1>1, <1>2, <1>3, <1>4, <1>5, <1>6, <1>7, <1>8, CreateEnvTracked
    DEF Next, StartDeploy, StartUpdate, StartRenewal, Run, Failure, Crash, Proc

\* Between runs director-state.json names the director VM there is, if runs are
\* neither killed nor beside each other and the bucket takes what they store.
THEOREM DirectorStaysTracked ==
  ASSUME AtATime = 1, "crash" \notin Faults, "store" \notin Faults
  PROVE  Spec => []DirectorIsTracked
  <1> DEFINE Inv == OneRun /\ TrackedInv
  <1>1. Init => Inv
    BY DEF Init, OneRun, TrackedInv, Returning
  <1>2. TypeInv /\ Inv /\ [Next]_vars => Inv'
    BY OneRunKept, StepTracked
  <1>3. Inv => DirectorIsTracked
    BY DEF TrackedInv, DirectorIsTracked, Idle, Returning
  <1> QED BY <1>1, <1>2, <1>3, TypeInvariant, PTL DEF Spec

-----------------------------------------------------------------------------
(* The secrets of a Concourse that was deployed, and what is said of it.  A      *)
(* password is in five places: the config and the credentials in the bucket, the *)
(* config and the credentials in the hands of a run, and the Concourse or the    *)
(* task that brings it up.  A step may fail between any two of them, and on GCP  *)
(* the credentials are lost to the bucket when deployConcourse fails.            *)

Holding == {"bosh", "wait", "state", "creds"}
Loaded(p) == pc[p] \notin {"idle", "load"}

\* The password in credentials that agree with s.
OrLost(s) == {s} \union (IF Iaas = "GCP" THEN {None} ELSE {})

\* A config agrees with the two files in the bucket.
Fits(c) ==
  /\ c.password # None => creds.atc \in OrLost(c.password)
  /\ config # None /\ config.password # None => c.password = config.password

\* What is in the bucket agrees with itself and, once a deploy succeeded, with the
\* Concourse that is up or coming up.
CopiesInv ==
  /\ config # None => Fits(config)
  /\ deployed =>
       /\ config # None /\ web # None /\ config.password = web.atc
       /\ task # None => task.atc = web.atc
       /\ Iaas = "AWS" => creds.key = web.key /\ (task # None => task.key = web.key)

\* What a run has in its hands agrees with the bucket.
HandsInv(p) ==
  /\ Loaded(p) => Fits(conf[p])
  /\ pc[p] \in Holding =>
       /\ creds.atc # None => mem[p].creds.atc \in OrLost(creds.atc)
       /\ conf[p].password # None => mem[p].creds.atc \in OrLost(conf[p].password)
       /\ pc[p] \in {"bosh", "wait"} => mem[p].creds.atc = creds.atc
       /\ deployed /\ Iaas = "AWS" => mem[p].creds.key = creds.key

Brought(p) ==
  /\ task = None /\ web # None
  /\ web.domain = conf[p].domain /\ web.cert = conf[p].cert

\* The password that the config of a run will have once StoreCreds is done.
Password(p) == IF mem[p].creds.atc = None THEN conf[p].password ELSE mem[p].creds.atc

\* What a run by hand that had no error yet has achieved.
WorkInv(p) ==
  /\ pc[p] = "wait" =>
       /\ task # None /\ task.domain = conf[p].domain /\ task.cert = conf[p].cert
       /\ creds.atc # None => task.atc = creds.atc
       /\ conf[p].password # None => task.atc = conf[p].password
  /\ p \in User /\ ok[p] =>
       /\ pc[p] \in {"state", "creds"} =>
            Brought(p) /\ mem[p].creds.key = web.key /\ Password(p) = web.atc
       /\ pc[p] \in {"pipeline", "final"} =>
            Brought(p) /\ creds.key = web.key /\ conf[p].password = web.atc
       /\ pc[p] = "final" => pipeline = conf[p].domain /\ Leads(conf[p].domain)

SettledInv == settled => Idle /\ task = None /\ deployed /\ ServedAsConfigured

SecretsInv ==
  OneRun /\ CopiesInv /\ SettledInv /\ \A p \in Proc : HandsInv(p) /\ WorkInv(p)

LEMMA SecretsInit == Init => SecretsInv
  <1> SUFFICES ASSUME Init PROVE SecretsInv
    OBVIOUS
  <1>1. \A p \in Proc : pc[p] = "idle"
    BY DEF Init
  <1>2. OneRun /\ CopiesInv /\ SettledInv
    BY <1>1 DEF Init, OneRun, CopiesInv, SettledInv
  <1>3. \A p \in Proc : HandsInv(p) /\ WorkInv(p)
    BY <1>1 DEF HandsInv, WorkInv, Loaded, Holding
  <1> QED BY <1>2, <1>3 DEF SecretsInv

\* A write that is reported as done was done: on AWS always, on GCP unless sending
\* the object fails unseen.
Sure == Iaas = "AWS" \/ "store" \notin Faults

LEMMA PutIsSure ==
  ASSUME Sure, NEW old, NEW new, NEW put \in Put(old, new), put.res = "ok"
  PROVE  put.val = new
  BY DEF Sure, Put

\* The step of one run: nothing is said of runs that are not.
LEMMA OnlyRunMoves ==
  ASSUME SecretsInv, OneRun', NEW p \in Proc, pc[p] # "idle",
         \A q \in Proc \ {p} : pc'[q] = pc[q],
         CopiesInv', settled' = settled \/ SettledInv', HandsInv(p)', WorkInv(p)'
  PROVE  SecretsInv'
  <1>1. \A q \in Proc \ {p} : pc'[q] = "idle"
    BY DEF SecretsInv, OneRun
  <1>2. \A q \in Proc \ {p} : HandsInv(q)' /\ WorkInv(q)'
    BY <1>1 DEF HandsInv, WorkInv, Loaded, Holding
  <1>3. SettledInv'
    BY DEF SecretsInv, SettledInv, Idle
  <1> QED BY <1>2, <1>3 DEF SecretsInv

\* A step to where the run has no credentials in its hands and nothing to show.
LEMMA PlainMove ==
  ASSUME NEW p \in Proc, pc'[p] \notin Holding,
         p \in User /\ ok'[p] => pc'[p] \notin {"pipeline", "final"},
         pc'[p] \notin {"idle", "load"} => Fits(conf[p])'
  PROVE  HandsInv(p)' /\ WorkInv(p)'
  BY DEF HandsInv, WorkInv, Loaded, Holding

\* The config in the bucket is replaced by one that agrees with the rest.
LEMMA ConfigCopied ==
  ASSUME CopiesInv, UNCHANGED <<creds, web, task, deployed>>,
         \/ config' = config
         \/ /\ config' # None
            /\ config'.password # None => creds.atc \in OrLost(config'.password)
            /\ deployed => config'.password = web.atc
  PROVE  CopiesInv'
  BY DEF CopiesInv, Fits, OrLost

\* A run that is over, or gone.
LEMMA ExitSecrets ==
  ASSUME TypeInv, SecretsInv, OneRun', NEW p \in Proc, pc[p] # "idle", Exit(p),
         CopiesInv', settled' = settled \/ SettledInv'
  PROVE  SecretsInv'
  <1>1. pc'[p] = "idle" /\ \A q \in Proc \ {p} : pc'[q] = pc[q]
    BY PcTyped DEF Exit, Goto
  <1>2. HandsInv(p)' /\ WorkInv(p)'
    BY <1>1, PlainMove DEF Holding
  <1> QED BY <1>1, <1>2, OnlyRunMoves

\* A step up to create-env, with a config that agrees with the rest.
LEMMA EarlyMove ==
  ASSUME TypeInv, SecretsInv, OneRun', NEW p \in Proc, pc[p] # "idle", CopiesInv',
         settled' = settled,
         NEW l \in {"apply", "save", "certs", "env"} \union (IF p \in Job THEN {"pipeline"} ELSE {}),
         pc' = [pc EXCEPT ![p] = l], Fits(conf[p])'
  PROVE  SecretsInv'
  <1>1. pc'[p] = l /\ \A q \in Proc \ {p} : pc'[q] = pc[q]
    BY PcTyped
  <1>2. p \in User => l # "pipeline"
    BY ProcsAreDistinct
  <1>3. HandsInv(p)' /\ WorkInv(p)'
    BY <1>1, <1>2, PlainMove DEF Holding
  <1> QED BY <1>1, <1>3, OnlyRunMoves

\* A config is something.
LEMMA NoneNotConfig == None \notin Config
  BY NoneIsNoRecord

\* The secrets a deployed Concourse has are never nothing.
LEMMA WebSecrets ==
  ASSUME TypeInv, web # None
  PROVE  web.atc # None /\ web.key # None
  BY NoneIsNothing DEF TypeInv, TypeOK, Web

\* Once a deploy succeeded, a run has the password of Concourse in its config.
LEMMA PasswordLoaded ==
  ASSUME TypeInv, CopiesInv, deployed, NEW p \in Proc, HandsInv(p), Loaded(p)
  PROVE  conf[p].password = web.atc /\ web.atc # None /\ web.key # None
  BY WebSecrets DEF CopiesInv, HandsInv, Fits

LEMMA LoadSecrets ==
  ASSUME TypeInv, SecretsInv, OneRun', NEW p \in Proc, Load(p)
  PROVE  SecretsInv'
  <1>1. /\ pc[p] = "load" /\ UNCHANGED <<creds, web, task, deployed, settled>>
        /\ conf \in [Proc -> Config \union {None}] /\ CopiesInv
    BY DEF Load, cloudVars, historyVars, TypeInv, TypeOK, SecretsInv
  <1>2. CASE config = None
    <2>1. PICK d : LET new == [domain |-> d, cert |-> None, password |-> None] IN
            \E put \in Put(config, new) :
               /\ config' = put.val
               /\ IF put.res = "error" THEN Exit(p)
                  ELSE Goto(p, "apply") /\ conf' = [conf EXCEPT ![p] = new]
      BY <1>2 DEF Load
    <2> DEFINE new == [domain |-> d, cert |-> None, password |-> None]
    <2>2. PICK put \in Put(config, new) :
               /\ config' = put.val
               /\ IF put.res = "error" THEN Exit(p)
                  ELSE Goto(p, "apply") /\ conf' = [conf EXCEPT ![p] = new]
      BY <2>1
    <2>3. ~deployed /\ config' \in {None, new} /\ new.password = None
      BY <1>1, <1>2, <2>2, PutTyped DEF CopiesInv
    <2>4. CopiesInv'
      BY <1>1, <2>3 DEF CopiesInv, Fits
    <2>5. CASE Exit(p)
      BY <1>1, <2>4, <2>5, ExitSecrets
    <2>6. CASE Goto(p, "apply") /\ conf' = [conf EXCEPT ![p] = new]
      <3>1. conf'[p].password = None
        BY <1>1, <2>6
      <3>2. Fits(conf[p])'
        BY <2>3, <3>1 DEF Fits
      <3> QED BY <1>1, <2>4, <2>6, <3>2, EarlyMove DEF Goto
    <2> QED BY <2>2, <2>5, <2>6
  <1>3. CASE config # None
    <2>1. PICK given : /\ Goto(p, "apply") /\ conf' = [conf EXCEPT ![p] = Merged(given)]
                       /\ config' = config
      BY <1>3 DEF Load
    <2>2. conf'[p].password = config.password
      <3>1. config \in Config
        BY <1>3 DEF TypeInv, TypeOK
      <3> QED BY <1>1, <2>1, <3>1 DEF Merged, Config
    <2>3. CopiesInv'
      BY <1>1, <2>1, ConfigCopied
    <2>4. Fits(conf[p])'
      BY <1>1, <1>3, <2>1, <2>2 DEF CopiesInv, Fits
    <2> QED BY <1>1, <2>1, <2>3, <2>4, EarlyMove DEF Goto
  <1> QED BY <1>2, <1>3

LEMMA SaveSecrets ==
  ASSUME TypeInv, SecretsInv, OneRun', NEW p \in Proc, Apply(p) \/ Save(p)
  PROVE  SecretsInv'
  <1>1. /\ pc[p] \in {"apply", "save"} /\ UNCHANGED <<creds, web, task, deployed, settled>>
        /\ CopiesInv /\ HandsInv(p) /\ conf[p] \in Config
    <2>1. pc[p] \in {"apply", "save"} /\ UNCHANGED <<creds, web, task, deployed, settled>>
      BY DEF Apply, Save, bucketVars, cloudVars, historyVars
    <2> QED BY <2>1 DEF TypeInv, ConfInv, SecretsInv
  <1>2. Fits(conf[p]) /\ (deployed => conf[p].password = web.atc)
    BY <1>1, PasswordLoaded DEF HandsInv, Loaded
  <1>3. CASE Apply(p)
    <2>1. CopiesInv' /\ Fits(conf[p])'
      BY <1>1, <1>2, <1>3, ConfigCopied DEF Apply, bucketVars, Fits
    <2> QED BY <1>1, <1>3, <2>1, EarlyMove DEF Apply, Goto
  <1>4. CASE Save(p)
    <2>1. PICK put \in Put(config, conf[p]) :
               /\ config' = put.val
               /\ Exit(p) \/ (Goto(p, "certs") /\ conf' = conf)
      BY <1>4 DEF Save
    <2>2. config' \in {config, conf[p]} /\ conf[p] # None
      <3>1. None \notin Config
        BY NoneNotConfig
      <3> QED BY <1>1, <2>1, <3>1, PutTyped
    <2>3. CopiesInv'
      BY <1>1, <1>2, <2>2, ConfigCopied DEF Fits
    <2>4. CASE Exit(p)
      BY <1>1, <2>3, <2>4, ExitSecrets
    <2>5. CASE Goto(p, "certs") /\ conf' = conf
      <3>1. Fits(conf[p])'
        BY <1>1, <1>2, <2>2, <2>5 DEF Fits
      <3> QED BY <1>1, <2>3, <2>5, <3>1, EarlyMove DEF Goto
    <2> QED BY <2>1, <2>4, <2>5
  <1> QED BY <1>3, <1>4

LEMMA CertsSecrets ==
  ASSUME TypeInv, SecretsInv, OneRun', NEW p \in Proc, Certs(p)
  PROVE  SecretsInv'
  <1>1. /\ pc[p] = "certs" /\ UNCHANGED <<config, creds, web, task, deployed, settled>>
        /\ pc' = [pc EXCEPT ![p] = AfterCerts(p)]
        /\ CopiesInv /\ HandsInv(p) /\ conf[p] \in Config
        /\ conf \in [Proc -> Config \union {None}]
    BY DEF Certs, Goto, bucketVars, cloudVars, historyVars, TypeInv, TypeOK, ConfInv, SecretsInv
  <1>2. conf'[p].password = conf[p].password
    <2> DEFINE n == ServedName(conf[p].domain)
    <2>1. \/ conf' = [conf EXCEPT ![p].domain = n]
          \/ conf' = [conf EXCEPT ![p].domain = n, ![p].cert = Generated(n)]
      BY DEF Certs
    <2> HIDE DEF n
    <2> QED BY <1>1, <2>1 DEF Config
  <1>3. Fits(conf[p])'
    BY <1>1, <1>2 DEF HandsInv, Loaded, Fits
  <1>4. CopiesInv'
    BY <1>1, ConfigCopied
  <1> QED BY <1>1, <1>3, <1>4, EarlyMove DEF AfterCerts

\* A director that is replaced takes its task along, or the task came first.
LEMMA CreateEnvSecrets ==
  ASSUME TypeInv, SecretsInv, OneRun', NEW p \in Proc, CreateEnv(p) \/ CreateEnvFails(p)
  PROVE  SecretsInv'
  <1>1. /\ pc[p] = "env" /\ UNCHANGED <<config, creds, conf, deployed, settled>>
        /\ CopiesInv /\ HandsInv(p)
    BY DEF CreateEnv, CreateEnvFails, historyVars, SecretsInv
  <1>2. /\ mem \in [Proc -> [tracked : BOOLEAN, creds : Creds]] /\ pc \in [Proc -> Steps]
        /\ ok \in [Proc -> BOOLEAN]
    BY DEF TypeInv, TypeOK
  <1>3. PICK l \in {"bosh", "state"} :
          /\ \/ NewDirector(p, l)
             \/ SameDirector(p) /\ pc' = [pc EXCEPT ![p] = l]
          /\ l = "state" => ok'[p] = FALSE
    <2>1. CASE CreateEnv(p)
      BY <2>1 DEF CreateEnv, Goto
    <2>2. CASE CreateEnvFails(p)
      BY <1>2, <2>2 DEF CreateEnvFails, NewDirector, FailTo, Goto
    <2> QED BY <2>1, <2>2
  <1>4. /\ mem'[p].creds = creds /\ pc'[p] = l
        /\ task' \in {task, None} /\ web' \in {web} \union ({task} \ {None})
        /\ \A q \in Proc \ {p} : pc'[q] = pc[q]
    <2>1. \A q \in Proc \ {p} : pc[q] = "idle"
      BY <1>1 DEF SecretsInv, OneRun
    <2>2. CASE NewDirector(p, l)
      BY <1>2, <2>1, <2>2 DEF NewDirector
    <2>3. CASE SameDirector(p) /\ pc' = [pc EXCEPT ![p] = l]
      BY <1>2, <2>3 DEF SameDirector
    <2> QED BY <1>3, <2>2, <2>3
  <1>5. CopiesInv'
    BY <1>1, <1>4 DEF CopiesInv, Fits
  <1>6. HandsInv(p)'
    BY <1>1, <1>4 DEF HandsInv, Loaded, Holding, Fits, OrLost
  <1>7. WorkInv(p)'
    BY <1>3, <1>4 DEF WorkInv
  <1> QED BY <1>1, <1>4, <1>5, <1>6, <1>7, OnlyRunMoves

\* The variables that `bosh deploy` finds are the ones it uses.
LEMMA BoshDeploySecrets ==
  ASSUME TypeInv, SecretsInv, OneRun', NEW p \in Proc, BoshDeploy(p)
  PROVE  SecretsInv'
  <1> DEFINE k == mem[p].creds
             set == IF conf[p].password # None THEN conf[p].password ELSE k.atc
             atc == IF set # None THEN set ELSE New(Secret, LiveSecrets)
             key == IF k.key # None THEN k.key ELSE New(Secret, LiveSecrets)
             w == [domain |-> conf[p].domain, cert |-> conf[p].cert, atc |-> atc, key |-> key]
  <1>1. /\ pc[p] = "bosh" /\ UNCHANGED <<config, creds, web, conf, deployed, settled>>
        /\ task' = w /\ CopiesInv /\ HandsInv(p)
        /\ \/ p \in Job /\ pc' = [pc EXCEPT ![p] = "state"]
              /\ mem' = [mem EXCEPT ![p].creds = Stored(p, w)]
           \/ pc' = [pc EXCEPT ![p] = "wait"] /\ mem' = mem
    BY DEF BoshDeploy, Goto, bucketVars, historyVars, SecretsInv
  <1>2. mem \in [Proc -> [tracked : BOOLEAN, creds : Creds]] /\ pc \in [Proc -> Steps]
    BY DEF TypeInv, TypeOK
  <1>3. /\ k.atc = creds.atc
        /\ conf[p].password # None => creds.atc \in OrLost(conf[p].password)
        /\ deployed => conf[p].password = web.atc /\ web.atc # None /\ web.key # None
        /\ deployed /\ Iaas = "AWS" => k.key = creds.key /\ creds.key = web.key
    BY <1>1, PasswordLoaded DEF CopiesInv, HandsInv, Holding, Loaded, Fits
  <1>4. /\ creds.atc # None => atc = creds.atc
        /\ conf[p].password # None => atc = conf[p].password
        /\ deployed => atc = web.atc
        /\ deployed /\ Iaas = "AWS" => key = web.key
    BY <1>3 DEF OrLost
  <1>5. w.atc = atc /\ w.key = key /\ w.domain = conf[p].domain /\ w.cert = conf[p].cert
    OBVIOUS
  <1>6. task' # None
    <2>1. New(Secret, LiveSecrets) \in Secret
      BY NewIsNew DEF BoshDeploy
    <2>2. w \in Web
      BY <2>1 DEF TypeInv, TypeOK, ConfInv, BoshDeploy, Web, Config, Creds
    <2> QED BY <1>1, <2>2, NoneIsNoRecord
  <1> HIDE DEF w, atc, key
  <1>7. CopiesInv'
    BY <1>1, <1>4, <1>5 DEF CopiesInv, Fits
  <1>8. /\ creds.atc # None => mem'[p].creds.atc = creds.atc
        /\ conf[p].password # None => mem'[p].creds.atc = creds.atc
        /\ mem' = mem => mem'[p].creds.atc = creds.atc
        /\ deployed /\ Iaas = "AWS" => mem'[p].creds.key = creds.key
    <2>1. CASE mem' = mem
      BY <1>3, <2>1
    <2>2. CASE mem' = [mem EXCEPT ![p].creds = Stored(p, w)] /\ mem' # mem
      <3>1. mem'[p].creds = Stored(p, w)
        BY <1>2, <2>2
      <3> QED BY <1>3, <1>4, <1>5, <2>2, <3>1 DEF Stored
    <2> QED BY <1>1, <2>1, <2>2
  <1>9. pc'[p] \in Holding /\ \A q \in Proc \ {p} : pc'[q] = pc[q]
    BY <1>1, <1>2 DEF Holding
  <1>10. HandsInv(p)'
    <2>1. pc'[p] = "state" \/ (pc'[p] = "wait" /\ mem' = mem)
      BY <1>1, <1>2
    <2>2. Fits(conf[p])'
      BY <1>1 DEF HandsInv, Loaded, Fits
    <2> QED BY <1>1, <1>3, <1>8, <2>1, <2>2 DEF HandsInv, OrLost
  <1>11. WorkInv(p)'
    <2>1. pc'[p] = "wait" \/ (pc'[p] = "state" /\ p \in Job)
      BY <1>1, <1>2
    <2>2. ~(p \in User /\ p \in Job)
      BY ProcsAreDistinct
    <2> QED BY <1>1, <1>4, <1>5, <1>6, <2>1, <2>2 DEF WorkInv
  <1> QED BY <1>1, <1>7, <1>9, <1>10, <1>11, OnlyRunMoves

\* A deploy that fails returns the credentials it was given, or on GCP none.
LEMMA BoshDeployFailsSecrets ==
  ASSUME TypeInv, SecretsInv, OneRun', NEW p \in Proc, BoshDeployFails(p)
  PROVE  SecretsInv'
  <1>1. mem \in [Proc -> [tracked : BOOLEAN, creds : Creds]] /\ pc \in [Proc -> Steps]
        /\ ok \in [Proc -> BOOLEAN]
    BY DEF TypeInv, TypeOK
  <1>2. /\ pc[p] = "bosh" /\ UNCHANGED <<config, creds, web, task, conf, deployed, settled>>
        /\ pc' = [pc EXCEPT ![p] = "state"] /\ ok' = [ok EXCEPT ![p] = FALSE]
        /\ mem'[p].creds \in Returned(mem[p].creds) /\ CopiesInv /\ HandsInv(p)
    BY <1>1 DEF BoshDeployFails, FailTo, Goto, bucketVars, cloudVars, historyVars, SecretsInv
  <1>3. CopiesInv'
    BY <1>2 DEF CopiesInv, Fits
  <1>4. HandsInv(p)'
    BY <1>1, <1>2 DEF HandsInv, Loaded, Holding, Fits, OrLost, Returned, NoCreds
  <1>5. WorkInv(p)'
    BY <1>1, <1>2 DEF WorkInv
  <1> QED BY <1>1, <1>2, <1>3, <1>4, <1>5, OnlyRunMoves

\* The password that comes of the variables a run finds stored is that of the
\* Concourse its task brought up.
LEMMA StoredAgrees ==
  ASSUME TypeInv, NEW p \in Proc, HandsInv(p), WorkInv(p), pc[p] = "wait",
         NEW k, k = Stored(p, task)
  PROVE  /\ creds.atc # None => k.atc \in OrLost(creds.atc)
         /\ conf[p].password # None => k.atc \in OrLost(conf[p].password)
         /\ (IF k.atc = None THEN conf[p].password ELSE k.atc) = task.atc
         /\ k.key = task.key
  <1>1. task.atc # None
    BY NoneIsNothing DEF WorkInv, TypeInv, TypeOK, Web
  <1> QED BY <1>1 DEF HandsInv, WorkInv, Loaded, Holding, Stored, OrLost

\* The task of a run ends, or that of a self-update which is gone.
LEMMA TaskSecrets ==
  ASSUME TypeInv, SecretsInv, OneRun', TaskDone \/ TaskFails
  PROVE  SecretsInv'
  <1>1. /\ task # None /\ task' = None /\ web' \in {web, task} /\ conf' = conf
        /\ UNCHANGED <<config, creds, dns, pipeline, deployed, settled>>
        /\ pc' = [q \in Proc |-> IF q \in Waiting THEN "state" ELSE pc[q]]
        /\ CopiesInv /\ SettledInv /\ \A q \in Proc : HandsInv(q) /\ WorkInv(q)
    BY DEF TaskDone, TaskFails, bucketVars, historyVars, SecretsInv
  <1>2. /\ mem \in [Proc -> [tracked : BOOLEAN, creds : Creds]] /\ pc \in [Proc -> Steps]
        /\ ok \in [Proc -> BOOLEAN]
    BY DEF TypeInv, TypeOK
  <1>3. CopiesInv'
    BY <1>1 DEF CopiesInv, Fits
  <1>4. SettledInv' /\ ~settled
    BY <1>1 DEF SettledInv
  <1>5. ASSUME NEW q \in Proc, pc[q] = "wait"
        PROVE  /\ creds.atc # None => mem'[q].creds.atc \in OrLost(creds.atc)
               /\ conf[q].password # None => mem'[q].creds.atc \in OrLost(conf[q].password)
               /\ deployed /\ Iaas = "AWS" => mem'[q].creds.key = creds.key
               /\ ok'[q] => /\ web' = task /\ Password(q)' = task.atc
                            /\ mem'[q].creds.key = task.key
    <2>1. HandsInv(q) /\ WorkInv(q) /\ q \in Waiting
      BY <1>1, <1>5 DEF Waiting
    <2>2. CASE TaskDone
      <3>1. mem'[q].creds = Stored(q, task) /\ web' = task
        BY <1>2, <2>1, <2>2 DEF TaskDone
      <3>2. /\ creds.atc # None => mem'[q].creds.atc \in OrLost(creds.atc)
            /\ conf[q].password # None => mem'[q].creds.atc \in OrLost(conf[q].password)
            /\ Password(q)' = task.atc /\ mem'[q].creds.key = task.key
        BY <1>1, <1>5, <2>1, <3>1, StoredAgrees DEF Password
      <3>3. deployed /\ Iaas = "AWS" => task.key = creds.key
        BY <1>1 DEF CopiesInv
      <3> QED BY <3>1, <3>2, <3>3
    <2>3. CASE TaskFails
      <3>1. ok'[q] = FALSE
        BY <1>2, <2>1, <2>3 DEF TaskFails
      <3>2. mem'[q].creds \in Returned(mem[q].creds)
        BY <1>2, <2>1, <2>3 DEF TaskFails, Returned
      <3> QED BY <1>5, <2>1, <3>1, <3>2 DEF HandsInv, Holding, OrLost, Returned, NoCreds
    <2> QED BY <2>2, <2>3
  <1>6. ASSUME NEW q \in Proc, pc[q] # "wait"
        PROVE  mem'[q] = mem[q] /\ ok'[q] = ok[q] /\ pc'[q] = pc[q]
    <2>1. q \notin Waiting
      BY <1>6 DEF Waiting
    <2>2. pc'[q] = pc[q]
      BY <1>1, <2>1
    <2>3. CASE TaskDone
      BY <1>2, <2>1, <2>2, <2>3 DEF TaskDone
    <2>4. CASE TaskFails
      BY <1>2, <2>1, <2>2, <2>4 DEF TaskFails
    <2> QED BY <2>3, <2>4
  <1>7. ASSUME NEW q \in Proc PROVE HandsInv(q)'
    <2>1. Loaded(q)' => Fits(conf[q])'
      <3>1. Loaded(q)' => Loaded(q)
        BY <1>1 DEF Loaded, Waiting
      <3> QED BY <1>1, <3>1 DEF HandsInv, Fits
    <2>2. CASE pc[q] = "wait"
      <3>1. pc'[q] = "state"
        BY <1>1, <2>2 DEF Waiting
      <3> QED BY <1>1, <1>5, <2>1, <2>2, <3>1 DEF HandsInv
    <2>3. CASE pc[q] # "wait"
      BY <1>1, <1>6, <2>1, <2>3 DEF HandsInv
    <2> QED BY <2>2, <2>3
  <1>8. ASSUME NEW q \in Proc PROVE WorkInv(q)'
    <2>1. CASE pc[q] = "wait"
      <3>1. WorkInv(q) /\ pc'[q] = "state"
        BY <1>1, <2>1 DEF Waiting
      <3> QED BY <1>1, <1>5, <2>1, <3>1 DEF WorkInv, Brought
    <2>2. CASE pc[q] # "wait"
      <3>1. WorkInv(q)
        BY <1>1
      <3> QED BY <1>1, <1>6, <2>2, <3>1 DEF WorkInv, Brought
    <2> QED BY <2>1, <2>2
  <1> QED BY <1>3, <1>4, <1>7, <1>8 DEF SecretsInv

\* What comes back from a deploy, failed or not, may be stored over what there is.
LEMMA StoreSecrets ==
  ASSUME Sure, TypeInv, SecretsInv, OneRun', NEW p \in Proc,
         StoreState(p) \/ StoreCreds(p)
  PROVE  SecretsInv'
  <1>1. /\ mem \in [Proc -> [tracked : BOOLEAN, creds : Creds]] /\ pc \in [Proc -> Steps]
        /\ ok \in [Proc -> BOOLEAN] /\ conf \in [Proc -> Config \union {None}]
    BY DEF TypeInv, TypeOK
  <1>2. /\ pc[p] \in {"state", "creds"} /\ UNCHANGED <<config, web, task, deployed, settled>>
        /\ UNCHANGED <<dns, pipeline>> /\ CopiesInv /\ HandsInv(p) /\ WorkInv(p)
    BY DEF StoreState, StoreCreds, cloudVars, historyVars, SecretsInv
  <1>3. CASE StoreState(p)
    <2>1. /\ pc' = [pc EXCEPT ![p] = "creds"] /\ UNCHANGED <<creds, conf, mem>>
          /\ pc[p] = "state" /\ (ok'[p] => ok[p])
      BY <1>1, <1>3 DEF StoreState, Goto
    <2>2. CopiesInv'
      BY <1>2, <2>1 DEF CopiesInv, Fits
    <2>3. HandsInv(p)'
      BY <1>1, <1>2, <2>1 DEF HandsInv, Loaded, Holding, Fits, OrLost
    <2>4. WorkInv(p)'
      BY <1>1, <1>2, <2>1 DEF WorkInv, Brought, Password
    <2> QED BY <1>1, <1>2, <2>1, <2>2, <2>3, <2>4, OnlyRunMoves
  <1>4. CASE StoreCreds(p)
    <2> DEFINE k == mem[p].creds
    <2>1. PICK put \in Put(creds, k) :
            /\ creds' = put.val
            /\ IF ok[p] /\ put.res = "ok"
               THEN /\ Goto(p, AfterCreds(p)) /\ UNCHANGED ok
                    /\ conf' = [conf EXCEPT ![p].password = IF k.atc = None THEN @ ELSE k.atc]
               ELSE FailTo(p, "final") /\ UNCHANGED conf
      BY <1>4 DEF StoreCreds
    <2>2. /\ creds' \in {creds, k} /\ (put.res = "ok" => creds' = k)
      BY <2>1, PutTyped, PutIsSure
    <2>3. /\ creds.atc # None => k.atc \in OrLost(creds.atc)
          /\ conf[p].password # None =>
               k.atc \in OrLost(conf[p].password) /\ creds.atc \in OrLost(conf[p].password)
          /\ config # None /\ config.password # None => conf[p].password = config.password
          /\ deployed /\ Iaas = "AWS" => k.key = creds.key
      BY <1>2, <1>4 DEF StoreCreds, HandsInv, Holding, Loaded, Fits
    <2>4. CopiesInv'
      BY <1>2, <2>2, <2>3 DEF CopiesInv, Fits
    <2>5. CASE ok[p] /\ put.res = "ok"
      <3>1. /\ creds' = k /\ pc' = [pc EXCEPT ![p] = AfterCreds(p)] /\ ok' = ok
            /\ conf'[p].password = Password(p)
            /\ conf'[p].domain = conf[p].domain /\ conf'[p].cert = conf[p].cert
        <4>1. conf[p] \in Config
          BY <1>2 DEF TypeInv, ConfInv
        <4> QED BY <1>1, <2>1, <2>2, <2>5, <4>1 DEF Goto, Config, Password
      <3>2. AfterCreds(p) \in {"final", "pipeline"} /\ (p \in User => AfterCreds(p) = "pipeline")
        BY ProcsAreDistinct DEF AfterCreds
      <3>3. Fits(conf[p])'
        BY <1>2, <2>3, <3>1 DEF Fits, OrLost, Password
      <3>4. HandsInv(p)'
        BY <1>1, <3>1, <3>2, <3>3 DEF HandsInv, Holding
      <3>5. WorkInv(p)'
        <4>1. p \in User => Brought(p) /\ k.key = web.key /\ Password(p) = web.atc
          BY <1>2, <2>5 DEF WorkInv
        <4> QED BY <1>1, <1>2, <3>1, <3>2, <4>1 DEF WorkInv, Brought
      <3> QED BY <1>1, <1>2, <2>4, <3>1, <3>4, <3>5, OnlyRunMoves
    <2>6. CASE ~(ok[p] /\ put.res = "ok")
      <3>1. /\ pc' = [pc EXCEPT ![p] = "final"] /\ ok'[p] = FALSE /\ conf' = conf
        BY <1>1, <2>1, <2>6 DEF FailTo, Goto
      <3>2. Fits(conf[p])'
        BY <1>2, <2>2, <2>3, <3>1 DEF Fits
      <3>3. HandsInv(p)' /\ WorkInv(p)'
        BY <1>1, <3>1, <3>2, PlainMove DEF Holding
      <3> QED BY <1>1, <1>2, <2>4, <3>1, <3>3, OnlyRunMoves
    <2> QED BY <2>5, <2>6
  <1> QED BY <1>3, <1>4

LEMMA PipelineSecrets ==
  ASSUME TypeInv, SecretsInv, OneRun', NEW p \in Proc, SetPipeline(p) \/ SetPipelineFails(p)
  PROVE  SecretsInv'
  <1>1. pc \in [Proc -> Steps] /\ ok \in [Proc -> BOOLEAN]
    BY DEF TypeInv, TypeOK
  <1>2. /\ pc[p] = "pipeline" /\ UNCHANGED <<config, creds, dns, web, task, conf, deployed, settled>>
        /\ CopiesInv /\ HandsInv(p) /\ WorkInv(p)
    BY DEF SetPipeline, SetPipelineFails, bucketVars, historyVars, SecretsInv
  <1>3. PICK l \in {"env", "final"} :
          /\ pc' = [pc EXCEPT ![p] = l]
          /\ p \in User /\ ok'[p] => /\ ok[p] /\ l = "final" /\ Leads(conf[p].domain)
                                     /\ pipeline' = conf[p].domain
    <2>1. CASE SetPipeline(p)
      BY <1>1, <2>1, ProcsAreDistinct DEF SetPipeline, AfterPipeline, Goto
    <2>2. CASE SetPipelineFails(p)
      BY <1>1, <2>2 DEF SetPipelineFails, FailTo, Goto
    <2> QED BY <2>1, <2>2
  <1>4. CopiesInv'
    BY <1>2 DEF CopiesInv, Fits
  <1>5. HandsInv(p)'
    BY <1>1, <1>2, <1>3 DEF HandsInv, Loaded, Holding, Fits
  <1>6. WorkInv(p)'
    BY <1>1, <1>2, <1>3 DEF WorkInv, Brought, Leads
  <1> QED BY <1>1, <1>2, <1>3, <1>4, <1>5, <1>6, OnlyRunMoves

\* The last Update, with which a deploy by hand may have succeeded.
LEMMA FinalSecrets ==
  ASSUME Sure, TypeInv, SecretsInv, OneRun', NEW p \in Proc, Final(p)
  PROVE  SecretsInv'
  <1>1. /\ pc[p] = "final" /\ UNCHANGED <<creds, dns, web, task, pipeline>> /\ Exit(p)
        /\ CopiesInv /\ HandsInv(p) /\ WorkInv(p) /\ pc \in [Proc -> Steps]
    BY DEF Final, cloudVars, SecretsInv, TypeInv, TypeOK
  <1>2. PICK put \in Put(config, conf[p]) :
          /\ config' = put.val
          /\ LET good == p \in User /\ ok[p] /\ put.res = "ok" IN
               deployed' = (deployed \/ good) /\ settled' = good
    BY DEF Final
  <1> DEFINE good == p \in User /\ ok[p] /\ put.res = "ok"
  <1>3. /\ config' \in {config, conf[p]} /\ (put.res = "ok" => config' = conf[p])
        /\ conf[p] # None /\ Fits(conf[p])
        /\ deployed => conf[p].password = web.atc
    <2>1. conf[p] \in Config /\ None \notin Config
      BY <1>1, NoneNotConfig DEF TypeInv, ConfInv
    <2>2. Fits(conf[p]) /\ (deployed => conf[p].password = web.atc)
      BY <1>1, PasswordLoaded DEF HandsInv, Loaded
    <2> QED BY <1>2, <2>1, <2>2, PutTyped, PutIsSure
  <1>4. good => /\ Brought(p) /\ creds.key = web.key /\ conf[p].password = web.atc
                /\ pipeline = conf[p].domain /\ Leads(conf[p].domain)
    BY <1>1 DEF WorkInv
  <1>5. CopiesInv'
    BY <1>1, <1>2, <1>3, <1>4 DEF CopiesInv, Brought, Fits
  <1>6. \A q \in Proc : pc'[q] = "idle"
    BY <1>1 DEF SecretsInv, OneRun, Exit, Goto
  <1>7. SettledInv'
    BY <1>1, <1>2, <1>3, <1>4, <1>6 DEF SettledInv, Idle, ServedAsConfigured, Leads, Brought
  <1> QED BY <1>1, <1>5, <1>7, ExitSecrets

LEMMA LeavingSecrets ==
  ASSUME TypeInv, SecretsInv, OneRun', NEW p \in Proc, EarlyFailure(p) \/ Crash(p)
  PROVE  SecretsInv'
  <1>1. /\ pc[p] # "idle" /\ Exit(p) /\ CopiesInv
        /\ UNCHANGED <<config, creds, web, task, deployed, settled>>
    BY DEF EarlyFailure, Crash, bucketVars, cloudVars, historyVars, SecretsInv
  <1>2. CopiesInv'
    BY <1>1 DEF CopiesInv, Fits
  <1> QED BY <1>1, <1>2, ExitSecrets

LEMMA StartSecrets ==
  ASSUME AtATime = 1, TypeInv, SecretsInv, OneRun', NEW p \in Proc, Start(p)
  PROVE  SecretsInv'
  <1>1. /\ \A q \in Proc : pc'[q] \in {"idle", "load"}
        /\ settled' = FALSE /\ UNCHANGED <<config, creds, web, task, deployed>> /\ CopiesInv
    BY AloneAtStart, PcTyped DEF Start, Goto, bucketVars, cloudVars, SecretsInv
  <1>2. CopiesInv' /\ SettledInv'
    BY <1>1 DEF CopiesInv, SettledInv, Fits
  <1>3. \A q \in Proc : HandsInv(q)' /\ WorkInv(q)'
    BY <1>1 DEF HandsInv, WorkInv, Loaded, Holding
  <1> QED BY <1>2, <1>3 DEF SecretsInv

LEMMA StillSecrets ==
  ASSUME TypeInv, SecretsInv, OneRun', (\E i \in CertId : Ageing(i)) \/ UNCHANGED vars
  PROVE  SecretsInv'
  <1>1. UNCHANGED <<config, creds, dns, web, task, pipeline, pc, conf, mem, ok, deployed, settled>>
    BY DEF Ageing, vars, bucketVars, cloudVars, procVars, historyVars
  <1>2. CopiesInv' /\ SettledInv'
    BY <1>1 DEF SecretsInv, CopiesInv, SettledInv, Idle, ServedAsConfigured, Leads, Fits
  <1>3. \A q \in Proc : HandsInv(q)' /\ WorkInv(q)'
    <2>1. \A q \in Proc : HandsInv(q)'
      BY <1>1 DEF SecretsInv, HandsInv, Loaded, Holding, Fits
    <2>2. \A q \in Proc : WorkInv(q)'
      BY <1>1 DEF SecretsInv, WorkInv, Brought, Leads, Password
    <2> QED BY <2>1, <2>2
  <1> QED BY <1>2, <1>3 DEF SecretsInv

LEMMA StepSecrets ==
  ASSUME AtATime = 1, Sure, TypeInv, SecretsInv, [Next]_vars
  PROVE  SecretsInv'
  <1>1. OneRun'
    BY OneRunKept DEF SecretsInv
  <1>2. ASSUME NEW p \in Proc, Run(p) PROVE SecretsInv'
    BY <1>1, <1>2, LoadSecrets, SaveSecrets, CertsSecrets, CreateEnvSecrets, BoshDeploySecrets,
       StoreSecrets, PipelineSecrets, FinalSecrets DEF Run
  <1>3. ASSUME NEW p \in Proc, Failure(p) PROVE SecretsInv'
    BY <1>1, <1>3, CreateEnvSecrets, BoshDeployFailsSecrets, PipelineSecrets, LeavingSecrets
    DEF Failure
  <1>4. ASSUME NEW p \in Proc, Start(p) PROVE SecretsInv'
    BY <1>1, <1>4, StartSecrets
  <1> QED
    BY <1>1, <1>2, <1>3, <1>4, TaskSecrets, StillSecrets
    DEF Next, StartDeploy, StartUpdate, StartRenewal, Proc

LEMMA SecretsInvariant ==
  ASSUME AtATime = 1, Sure
  PROVE  Spec => []SecretsInv
  <1>1. Init => SecretsInv
    BY SecretsInit
  <1>2. TypeInv /\ SecretsInv /\ [Next]_vars => SecretsInv'
    BY StepSecrets
  <1> QED BY <1>1, <1>2, TypeInvariant, PTL DEF Spec

\* Runs one at a time on AWS keep the key that CredHub's data is encrypted with,
\* whatever step fails, is killed or is done twice.  On GCP a deployConcourse that
\* fails loses it.
THEOREM KeyStays ==
  ASSUME AtATime = 1, Iaas = "AWS"
  PROVE  Spec => []KeyIsKept
  <1>1. SecretsInv => KeyIsKept
    BY DEF SecretsInv, CopiesInv, KeyIsKept
  <1> QED BY <1>1, SecretsInvariant, PTL DEF Sure

\* Runs one at a time leave the password of Concourse in the config, on AWS
\* whatever fails, on GCP unless an upload that failed is taken for one that was
\* done.
THEOREM LoginStays ==
  ASSUME AtATime = 1, Iaas = "AWS" \/ "store" \notin Faults
  PROVE  Spec => []LoginWorks
  <1>1. SecretsInv => LoginWorks
    BY DEF SecretsInv, CopiesInv, LoginWorks
  <1> QED BY <1>1, SecretsInvariant, PTL DEF Sure

\* A deploy by hand that ends without an error, run alone, leaves what the config
\* says: the Concourse, its certificate, its name and the pipeline; on GCP unless
\* an upload that failed is taken for one that was done.
THEOREM SuccessIsServed ==
  ASSUME AtATime = 1, Iaas = "AWS" \/ "store" \notin Faults
  PROVE  Spec => []ServedAsConfigured
  <1>1. SecretsInv => ServedAsConfigured
    BY DEF SecretsInv, SettledInv, ServedAsConfigured
  <1> QED BY <1>1, SecretsInvariant, PTL DEF Sure

\* A Concourse is brought up by its task, or found up by create-env: neither makes
\* or loses a secret.
LEMMA WebComesAlone ==
  ASSUME TypeInv, [Next]_vars, web' # web
  PROVE  UNCHANGED <<config, creds, deployed>>
  <1>1. ASSUME NEW p \in Proc, Run(p) \/ Failure(p), ~CreateEnv(p), ~CreateEnvFails(p)
        PROVE  FALSE
    BY <1>1 DEF Run, Failure, Load, Apply, Save, Certs, BoshDeploy, StoreState, StoreCreds,
                SetPipeline, Final, EarlyFailure, BoshDeployFails, SetPipelineFails, Crash,
                cloudVars
  <1>2. ASSUME NEW p \in Proc, CreateEnv(p) \/ CreateEnvFails(p)
        PROVE  UNCHANGED <<config, creds, deployed>>
    BY <1>2 DEF CreateEnv, CreateEnvFails, historyVars
  <1>3. CASE TaskDone \/ TaskFails
    BY <1>3 DEF TaskDone, TaskFails, bucketVars, historyVars
  <1>4. ASSUME NEW p \in Proc, Start(p) PROVE FALSE
    BY <1>4 DEF Start, cloudVars
  <1>5. CASE (\E i \in CertId : Ageing(i)) \/ UNCHANGED vars
    BY <1>5 DEF Ageing, vars, cloudVars
  <1> QED BY <1>1, <1>2, <1>3, <1>4, <1>5
          DEF Next, StartDeploy, StartUpdate, StartRenewal, Proc

\* Runs one at a time on AWS never replace a secret of the Concourse that a deploy
\* left: no step, failed or not, brings one up that has others.
THEOREM SecretsNeverChange ==
  ASSUME AtATime = 1, Iaas = "AWS"
  PROVE  Spec => SecretsStay
  <1> DEFINE Keeps == deployed => web' # None /\ web'.key = web.key /\ web'.atc = web.atc
  <1>1. TypeInv /\ SecretsInv /\ SecretsInv' /\ [Next]_vars => [Keeps]_vars
    <2> SUFFICES ASSUME TypeInv, SecretsInv, SecretsInv', [Next]_vars, deployed
                 PROVE  web' # None /\ web'.key = web.key /\ web'.atc = web.atc
      OBVIOUS
    <2>1. web # None /\ creds.key = web.key /\ config.password = web.atc
      BY DEF SecretsInv, CopiesInv
    <2>2. CASE web' = web
      BY <2>1, <2>2
    <2>3. CASE web' # web
      <3>1. config' = config /\ creds' = creds /\ deployed'
        BY <2>3, WebComesAlone
      <3>2. web' # None /\ creds'.key = web'.key /\ config'.password = web'.atc
        BY <3>1 DEF SecretsInv, CopiesInv
      <3> QED BY <2>1, <3>1, <3>2
    <2> QED BY <2>2, <2>3
  <1> QED BY <1>1, SecretsInvariant, TypeInvariant, PTL DEF Sure, Spec, SecretsStay

-----------------------------------------------------------------------------
(* The domain that was asked for.                                              *)

\* The bucket has it, once some run told it to the bucket.
BucketWanted == wanted # None => config # None /\ config.domain = wanted

\* A run that was told no domain has the one wanted in its hands; one that was
\* told, or made the first config, has nothing else there if that is no domain.
WantedInv(p) ==
  Loaded(p) =>
    /\ ~updated[p] /\ wanted # None => conf[p].domain = wanted
    /\ updated[p] /\ conf[p].domain \notin Domain => wanted = None

DomainInv == OneRun /\ BucketWanted /\ \A p \in Proc : WantedInv(p)

\* The step of one run: nothing is said of those that are not.
LEMMA OnlyRunWants ==
  ASSUME DomainInv, OneRun', NEW p \in Proc, pc[p] # "idle",
         \A q \in Proc \ {p} : pc'[q] = pc[q], BucketWanted', WantedInv(p)'
  PROVE  DomainInv'
  <1>1. \A q \in Proc \ {p} : pc'[q] = "idle"
    BY DEF DomainInv, OneRun
  <1> QED BY <1>1 DEF DomainInv, WantedInv, Loaded

\* A step that leaves the domains there are where they are.
LEMMA DomainsStay ==
  ASSUME DomainInv, OneRun', UNCHANGED <<config, wanted>>,
         \A q \in Proc : Loaded(q)' => /\ Loaded(q) /\ conf'[q].domain = conf[q].domain
                                       /\ updated'[q] = updated[q]
  PROVE  DomainInv'
  BY DEF DomainInv, BucketWanted, WantedInv

LEMMA ExitDomains ==
  ASSUME TypeInv, DomainInv, OneRun', NEW p \in Proc, pc[p] # "idle", Exit(p), BucketWanted'
  PROVE  DomainInv'
  <1>1. pc'[p] = "idle" /\ \A q \in Proc \ {p} : pc'[q] = pc[q]
    BY PcTyped DEF Exit, Goto
  <1> QED BY <1>1, OnlyRunWants DEF WantedInv, Loaded

\* An Update brings the domain in, leaves the one there is, or has the same one.
LEMMA UpdateWants ==
  ASSUME TypeInv, DomainInv, NEW p \in Proc, Loaded(p), NEW put \in Put(config, conf[p]),
         config' = put.val, Wants(updated[p], conf[p])
  PROVE  /\ BucketWanted'
         /\ conf' = conf /\ updated' = updated => WantedInv(p)'
  <1>1. /\ conf[p] # None /\ config' \in {config, conf[p]} /\ updated[p] \in BOOLEAN
        /\ BucketWanted /\ WantedInv(p)
    <2>1. conf[p] \in Config
      BY DEF TypeInv, ConfInv, Loaded
    <2> QED BY <2>1, NoneNotConfig, PutTyped DEF TypeInv, TypeOK, DomainInv
  <1>2. CASE wanted' = wanted
    <2>1. ASSUME updated[p], config' = conf[p], wanted # None PROVE conf[p].domain = wanted
      BY <1>1, <1>2, <2>1 DEF Wants, WantedInv
    <2> QED BY <1>1, <1>2, <2>1 DEF BucketWanted, WantedInv, Loaded
  <1>3. CASE wanted' # wanted
    <2>1. updated[p] /\ config' = conf[p] /\ wanted' = conf[p].domain /\ conf[p].domain \in Domain
      BY <1>3 DEF Wants
    <2> QED BY <1>1, <2>1 DEF BucketWanted, WantedInv
  <1> QED BY <1>2, <1>3

LEMMA LoadDomains ==
  ASSUME TypeInv, DomainInv, OneRun', NEW p \in Proc, Load(p)
  PROVE  DomainInv'
  <1>1. /\ pc[p] = "load" /\ pc \in [Proc -> Steps] /\ updated \in [Proc -> BOOLEAN]
        /\ conf \in [Proc -> Config \union {None}] /\ BucketWanted
    BY DEF Load, TypeInv, TypeOK, DomainInv
  <1>2. CASE config = None
    <2>1. PICK d \in Domain \union {NoDomain} :
            LET new == [domain |-> d, cert |-> None, password |-> None] IN
            \E put \in Put(config, new) :
               /\ config' = put.val /\ Wants(TRUE, new)
               /\ IF put.res = "error" THEN Exit(p)
                  ELSE /\ Goto(p, "apply") /\ conf' = [conf EXCEPT ![p] = new]
                       /\ updated' = [updated EXCEPT ![p] = TRUE]
      BY <1>2 DEF Load
    <2> DEFINE new == [domain |-> d, cert |-> None, password |-> None]
    <2>2. PICK put \in Put(config, new) :
               /\ config' = put.val /\ Wants(TRUE, new)
               /\ IF put.res = "error" THEN Exit(p)
                  ELSE /\ Goto(p, "apply") /\ conf' = [conf EXCEPT ![p] = new]
                       /\ updated' = [updated EXCEPT ![p] = TRUE]
      BY <2>1
    <2>3. new \in Config /\ new # None /\ new.domain = d /\ wanted = None
      <3>1. new \in Config
        BY DEF Config, Name
      <3>2. wanted = None
        BY <1>1, <1>2 DEF BucketWanted
      <3> QED BY <3>1, <3>2, NoneNotConfig
    <2> HIDE DEF new
    <2>4. wanted' = None \/ (wanted' = d /\ d \in Domain /\ config' = new)
      BY <2>2, <2>3 DEF Wants
    <2>5. BucketWanted'
      BY <2>3, <2>4 DEF BucketWanted
    <2>6. CASE Exit(p)
      BY <1>1, <2>5, <2>6, ExitDomains
    <2>7. CASE /\ Goto(p, "apply") /\ conf' = [conf EXCEPT ![p] = new]
               /\ updated' = [updated EXCEPT ![p] = TRUE]
      <3>1. /\ conf'[p] = new /\ updated'[p] = TRUE
            /\ \A q \in Proc \ {p} : pc'[q] = pc[q]
        BY <1>1, <2>7 DEF Goto
      <3>2. d \notin Domain => wanted' = None
        BY <2>4
      <3>3. WantedInv(p)'
        BY <2>3, <3>1, <3>2 DEF WantedInv
      <3> QED BY <1>1, <2>5, <3>1, <3>3, OnlyRunWants
    <2> QED BY <2>2, <2>6, <2>7
  <1>3. CASE config # None
    <2>1. PICK given \in {None} \union Domain :
            /\ pc' = [pc EXCEPT ![p] = "apply"]
            /\ conf' = [conf EXCEPT ![p] = Merged(given)]
            /\ updated' = [updated EXCEPT ![p] = given \notin {None, config.domain}]
            /\ UNCHANGED <<config, wanted>>
      BY <1>3 DEF Load, Goto
    <2>2. /\ given # None => Merged(given).domain = given
          /\ given = None /\ config.domain \in Domain => Merged(given).domain = config.domain
      <3>1. config \in Config
        BY <1>3 DEF TypeInv, TypeOK
      <3> QED BY <3>1, NamesAreDistinct DEF Merged, Config
    <2>3. wanted # None => wanted \in Domain /\ config.domain = wanted
      BY <1>1 DEF BucketWanted, TypeInv, TypeOK
    <2>4. /\ conf'[p] = Merged(given) /\ updated'[p] = (given \notin {None, config.domain})
          /\ \A q \in Proc \ {p} : pc'[q] = pc[q]
      BY <1>1, <2>1
    <2>5. WantedInv(p)'
      BY <2>1, <2>2, <2>3, <2>4 DEF WantedInv
    <2>6. BucketWanted'
      BY <1>1, <2>1 DEF BucketWanted
    <2> QED BY <1>1, <2>4, <2>5, <2>6, OnlyRunWants
  <1> QED BY <1>2, <1>3

LEMMA SaveDomains ==
  ASSUME TypeInv, DomainInv, OneRun', NEW p \in Proc, Save(p) \/ Final(p)
  PROVE  DomainInv'
  <1>1. pc[p] \in {"save", "final"} /\ Loaded(p) /\ pc \in [Proc -> Steps]
    BY DEF Save, Final, Loaded, TypeInv, TypeOK
  <1>2. PICK put \in Put(config, conf[p]) :
          /\ config' = put.val /\ Wants(updated[p], conf[p])
          /\ Exit(p) \/ (Goto(p, "certs") /\ conf' = conf /\ updated' = updated)
    BY DEF Save, Final
  <1>3. BucketWanted' /\ (conf' = conf /\ updated' = updated => WantedInv(p)')
    BY <1>1, <1>2, UpdateWants
  <1>4. CASE Exit(p)
    BY <1>1, <1>3, <1>4, ExitDomains
  <1>5. CASE Goto(p, "certs") /\ conf' = conf /\ updated' = updated
    <2>1. \A q \in Proc \ {p} : pc'[q] = pc[q]
      BY <1>1, <1>5 DEF Goto
    <2> QED BY <1>1, <1>3, <1>5, <2>1, OnlyRunWants
  <1> QED BY <1>2, <1>4, <1>5

\* A deployment that has a domain keeps its name when the certificate is chosen.
LEMMA CertsDomains ==
  ASSUME TypeInv, DomainInv, OneRun', NEW p \in Proc, Certs(p)
  PROVE  DomainInv'
  <1> DEFINE n == ServedName(conf[p].domain)
  <1>1. /\ pc[p] = "certs" /\ pc' = [pc EXCEPT ![p] = AfterCerts(p)]
        /\ UNCHANGED <<config, updated, wanted>> /\ pc \in [Proc -> Steps]
        /\ conf \in [Proc -> Config \union {None}] /\ conf[p] \in Config
        /\ BucketWanted /\ WantedInv(p)
    BY DEF Certs, Goto, bucketVars, historyVars, TypeInv, TypeOK, ConfInv, DomainInv
  <1>2. conf'[p].domain = n
    <2>1. \/ conf' = [conf EXCEPT ![p].domain = n]
          \/ conf' = [conf EXCEPT ![p].domain = n, ![p].cert = Generated(n)]
      BY DEF Certs
    <2> HIDE DEF n
    <2> QED BY <1>1, <2>1 DEF Config
  <1>3. /\ conf[p].domain \in Domain => n = conf[p].domain
        /\ conf[p].domain \notin Domain => n \notin Domain
    BY NamesAreDistinct DEF ServedName
  <1> HIDE DEF n
  <1>4. WantedInv(p)'
    <2>1. wanted # None => wanted \in Domain
      BY DEF TypeInv, TypeOK
    <2> QED BY <1>1, <1>2, <1>3, <2>1 DEF WantedInv, Loaded
  <1>5. BucketWanted' /\ \A q \in Proc \ {p} : pc'[q] = pc[q]
    BY <1>1 DEF BucketWanted
  <1> QED BY <1>1, <1>4, <1>5, OnlyRunWants

\* Between the certificates and the last Update the domain is passed on.
LEMMA DeployingDomains ==
  ASSUME TypeInv, DomainInv, OneRun', NEW p \in Proc,
         \/ Apply(p) \/ CreateEnv(p) \/ CreateEnvFails(p) \/ BoshDeploy(p) \/ BoshDeployFails(p)
         \/ StoreState(p) \/ StoreCreds(p) \/ SetPipeline(p) \/ SetPipelineFails(p)
  PROVE  DomainInv'
  <1>1. pc \in [Proc -> Steps] /\ conf \in [Proc -> Config \union {None}]
    BY DEF TypeInv, TypeOK
  <1>2. Loaded(p) /\ UNCHANGED <<config, updated, wanted>>
    BY DEF Loaded, Apply, CreateEnv, CreateEnvFails, BoshDeploy, BoshDeployFails, StoreState,
           StoreCreds, SetPipeline, SetPipelineFails, bucketVars, historyVars
  <1>3. ASSUME NEW q \in Proc, q # p PROVE pc'[q] = "idle"
    <2>1. pc[q] = "idle"
      BY <1>2, <1>3 DEF DomainInv, OneRun, Loaded
    <2>2. CASE \E l \in {"bosh", "state"} : NewDirector(p, l)
      BY <1>3, <2>1, <2>2 DEF NewDirector
    <2>3. CASE \E l : pc' = [pc EXCEPT ![p] = l]
      BY <1>1, <1>3, <2>1, <2>3
    <2> QED BY <2>2, <2>3 DEF Apply, CreateEnv, CreateEnvFails, BoshDeploy, BoshDeployFails,
                StoreState, StoreCreds, SetPipeline, SetPipelineFails, Goto, FailTo
  <1>4. conf'[p].domain = conf[p].domain
    <2>1. CASE StoreCreds(p)
      <3>1. conf[p] \in Config
        BY <1>2 DEF TypeInv, ConfInv, Loaded
      <3> QED BY <1>1, <2>1, <3>1 DEF StoreCreds, Config
    <2>2. CASE ~StoreCreds(p)
      BY <2>2 DEF Apply, CreateEnv, CreateEnvFails, BoshDeploy, BoshDeployFails, StoreState,
                  SetPipeline, SetPipelineFails
    <2> QED BY <2>1, <2>2
  <1> QED BY <1>2, <1>3, <1>4, DomainsStay DEF Loaded

LEMMA StepDomains ==
  ASSUME AtATime = 1, TypeInv, DomainInv, [Next]_vars
  PROVE  DomainInv'
  <1>1. OneRun'
    BY OneRunKept DEF DomainInv
  <1>2. ASSUME NEW p \in Proc, Start(p) PROVE DomainInv'
    <2>1. UNCHANGED <<config, conf, updated, wanted>> /\ pc' = [pc EXCEPT ![p] = "load"]
      BY <1>2 DEF Start, Goto, bucketVars
    <2> QED BY <1>1, <2>1, PcTyped, DomainsStay DEF Loaded
  <1>3. ASSUME NEW p \in Proc, EarlyFailure(p) \/ Crash(p) PROVE DomainInv'
    <2>1. pc[p] # "idle" /\ Exit(p) /\ UNCHANGED <<config, wanted>>
      BY <1>3 DEF EarlyFailure, Crash, bucketVars, historyVars
    <2>2. BucketWanted'
      BY <2>1 DEF DomainInv, BucketWanted
    <2> QED BY <1>1, <2>1, <2>2, ExitDomains
  <1>4. CASE TaskDone \/ TaskFails
    <2>1. /\ UNCHANGED <<config, conf, updated, wanted>>
          /\ pc' = [q \in Proc |-> IF q \in Waiting THEN "state" ELSE pc[q]]
      BY <1>4 DEF TaskDone, TaskFails, bucketVars, historyVars
    <2> QED BY <1>1, <2>1, DomainsStay DEF Loaded, Waiting
  <1>5. CASE (\E i \in CertId : Ageing(i)) \/ UNCHANGED vars
    <2>1. UNCHANGED <<config, pc, conf, updated, wanted>>
      BY <1>5 DEF Ageing, vars, bucketVars, procVars, historyVars
    <2> QED BY <1>1, <2>1, DomainsStay DEF Loaded
  <1>6. ASSUME NEW p \in Proc, Run(p) PROVE DomainInv'
    BY <1>1, <1>6, LoadDomains, SaveDomains, CertsDomains, DeployingDomains DEF Run
  <1>7. ASSUME NEW p \in Proc, Failure(p) PROVE DomainInv'
    BY <1>1, <1>3, <1>7, DeployingDomains DEF Failure
  <1> QED
    BY <1>1, <1>2, <1>4, <1>5, <1>6, <1>7 DEF Next, StartDeploy, StartUpdate, StartRenewal, Proc

\* Runs one at a time keep a domain that was given and saved until another one is
\* given, on both clouds and whatever step fails, is killed or is done twice.
THEOREM DomainStays ==
  ASSUME AtATime = 1
  PROVE  Spec => []DomainPersists
  <1>1. Init => DomainInv
    BY DEF Init, DomainInv, OneRun, BucketWanted, WantedInv, Loaded
  <1>2. TypeInv /\ DomainInv /\ [Next]_vars => DomainInv'
    BY StepDomains
  <1>3. DomainInv => DomainPersists
    BY DEF DomainInv, BucketWanted, DomainPersists
  <1> QED BY <1>1, <1>2, <1>3, TypeInvariant, PTL DEF Spec

-----------------------------------------------------------------------------
(* The certificate for a new domain, for any number of runs at once up to the  *)
(* end of each.                                                                *)

Certified == {"env", "bosh", "wait", "state", "creds", "pipeline", "final"}

\* A run that updated the domain has a certificate for it in its config, from
\* checkPreDeployConfigRequirements to its end.
NewCertInv(p) ==
  updated[p] => /\ Loaded(p)
                /\ pc[p] \in Certified => conf[p].cert.name = conf[p].domain

\* A step that leaves the certificate of a run and what it is for.
LEMMA SameCert ==
  ASSUME NEW q \in Proc, NewCertInv(q),
         updated'[q] => /\ updated[q] /\ Loaded(q)'
                        /\ pc'[q] \in Certified =>
                             /\ pc[q] \in Certified /\ conf'[q].cert = conf[q].cert
                             /\ conf'[q].domain = conf[q].domain
  PROVE  NewCertInv(q)'
  BY DEF NewCertInv

\* The step of a run that ends with it, or leads on to where it needs no certificate.
LEMMA FirstSteps ==
  ASSUME TypeInv, NEW p \in Proc, \A q \in Proc : NewCertInv(q),
         Load(p) \/ Apply(p) \/ Save(p) \/ EarlyFailure(p) \/ Crash(p) \/ Final(p)
  PROVE  \A q \in Proc : NewCertInv(q)'
  <1>1. /\ pc \in [Proc -> Steps] /\ updated \in [Proc -> BOOLEAN]
        /\ conf \in [Proc -> Config \union {None}]
    BY DEF TypeInv, TypeOK
  <1>2. \A q \in Proc \ {p} : pc'[q] = pc[q] /\ updated'[q] = updated[q] /\ conf'[q] = conf[q]
    <2>1. CASE Load(p) \/ Apply(p) \/ Save(p)
      BY <1>1, <2>1 DEF Load, Apply, Save, Goto, Exit
    <2>2. CASE EarlyFailure(p) \/ Crash(p) \/ Final(p)
      BY <1>1, <2>2 DEF EarlyFailure, Crash, Final, Goto, Exit
    <2> QED BY <2>1, <2>2
  <1>3. \/ updated'[p] = FALSE
        \/ pc'[p] \in {"apply", "save", "certs"}
    <2>1. CASE Load(p) \/ Apply(p) \/ Save(p)
      BY <1>1, <2>1 DEF Load, Apply, Save, Goto, Exit
    <2>2. CASE EarlyFailure(p) \/ Crash(p) \/ Final(p)
      BY <1>1, <2>2 DEF EarlyFailure, Crash, Final, Goto, Exit
    <2> QED BY <2>1, <2>2
  <1>4. NewCertInv(p)'
    BY <1>3 DEF NewCertInv, Loaded, Certified
  <1>5. ASSUME NEW q \in Proc \ {p} PROVE NewCertInv(q)'
    BY <1>2 DEF NewCertInv, Loaded
  <1> QED BY <1>4, <1>5

\* A run that updated the domain keeps no certificate: it has a new one made, or
\* brings its own.
LEMMA CertIsForName ==
  ASSUME TypeInv, NEW p \in Proc, \A q \in Proc : NewCertInv(q), Certs(p)
  PROVE  \A q \in Proc : NewCertInv(q)'
  <1> DEFINE n == ServedName(conf[p].domain)
  <1>1. /\ pc \in [Proc -> Steps] /\ updated' = updated
        /\ conf \in [Proc -> Config \union {None}] /\ conf[p] \in Config
        /\ pc[p] = "certs" /\ pc' = [pc EXCEPT ![p] = AfterCerts(p)]
    BY DEF TypeInv, TypeOK, ConfInv, Certs, Goto
  <1>2. \/ KeepsCert(p) /\ conf' = [conf EXCEPT ![p].domain = n]
        \/ conf' = [conf EXCEPT ![p].domain = n, ![p].cert = Generated(n)]
    BY DEF Certs
  <1> HIDE DEF n
  <1>3. updated[p] => conf'[p].cert.name = conf'[p].domain
    <2>1. CASE KeepsCert(p)
      <3>1. CASE conf' = [conf EXCEPT ![p].domain = n, ![p].cert = Generated(n)]
        BY <1>1, <3>1 DEF Config, Generated
      <3> QED BY <1>2, <2>1, <3>1 DEF KeepsCert
    <2>2. CASE ~KeepsCert(p)
      BY <1>1, <1>2, <2>2 DEF Config, Generated
    <2> QED BY <2>1, <2>2
  <1>4. NewCertInv(p)'
    BY <1>1, <1>3 DEF NewCertInv, Loaded, AfterCerts
  <1>5. ASSUME NEW q \in Proc \ {p} PROVE NewCertInv(q)'
    <2>1. conf'[q] = conf[q] /\ pc'[q] = pc[q]
      BY <1>1, <1>2
    <2> QED BY <1>1, <2>1 DEF NewCertInv, Loaded
  <1> QED BY <1>4, <1>5

\* From there on nothing changes the name, the certificate or what was updated.
LEMMA LaterSteps ==
  ASSUME TypeInv, \A q \in Proc : NewCertInv(q),
         \/ TaskDone \/ TaskFails
         \/ \E p \in Proc :
              \/ CreateEnv(p) \/ CreateEnvFails(p) \/ BoshDeploy(p) \/ BoshDeployFails(p)
              \/ StoreState(p) \/ StoreCreds(p) \/ SetPipeline(p) \/ SetPipelineFails(p)
  PROVE  \A q \in Proc : NewCertInv(q)'
  <1>1. /\ pc \in [Proc -> Steps] /\ conf \in [Proc -> Config \union {None}]
        /\ \A q \in Proc : pc[q] \in Certified => conf[q] \in Config
    BY DEF TypeInv, TypeOK, ConfInv, Certified
  <1> DEFINE Moves(q) == pc[q] \in Certified /\ pc'[q] \in Certified
             Keeps(q) == conf'[q].cert = conf[q].cert /\ conf'[q].domain = conf[q].domain
  <1>2. /\ updated' = updated
        /\ \A q \in Proc : Keeps(q) /\ (pc'[q] = pc[q] \/ Moves(q))
    <2>1. CASE TaskDone \/ TaskFails
      <3>1. updated' = updated /\ conf' = conf
            /\ pc' = [q \in Proc |-> IF q \in Waiting THEN "state" ELSE pc[q]]
        BY <2>1 DEF TaskDone, TaskFails
      <3> QED BY <1>1, <3>1 DEF Waiting, Certified
    <2>2. ASSUME NEW p \in Proc, CreateEnv(p) \/ CreateEnvFails(p)
          PROVE  updated' = updated /\ \A q \in Proc : Keeps(q) /\ (pc'[q] = pc[q] \/ Moves(q))
      <3>1. updated' = updated /\ conf' = conf /\ pc[p] = "env"
        BY <2>2 DEF CreateEnv, CreateEnvFails
      <3>2. \A q \in Proc : pc'[q] = pc[q] \/ Moves(q)
        <4>1. CASE CreateEnv(p)
          BY <1>1, <3>1, <4>1 DEF CreateEnv, NewDirector, Goto, Certified
        <4>2. CASE CreateEnvFails(p)
          BY <1>1, <3>1, <4>2 DEF CreateEnvFails, NewDirector, FailTo, Goto, Certified
        <4> QED BY <2>2, <4>1, <4>2
      <3> QED BY <3>1, <3>2
    <2>3. ASSUME NEW p \in Proc,
                 \/ BoshDeploy(p) \/ BoshDeployFails(p) \/ StoreState(p) \/ SetPipeline(p)
                 \/ SetPipelineFails(p)
          PROVE  updated' = updated /\ \A q \in Proc : Keeps(q) /\ (pc'[q] = pc[q] \/ Moves(q))
      <3>1. updated' = updated /\ conf' = conf /\ pc[p] \in Certified
        BY <2>3 DEF BoshDeploy, BoshDeployFails, StoreState, SetPipeline, SetPipelineFails, Certified
      <3>2. \E l \in Certified : pc' = [pc EXCEPT ![p] = l]
        BY <2>3 DEF BoshDeploy, BoshDeployFails, StoreState, SetPipeline, SetPipelineFails, Goto,
                    FailTo, AfterPipeline, Certified
      <3> QED BY <1>1, <3>1, <3>2
    <2>4. ASSUME NEW p \in Proc, StoreCreds(p)
          PROVE  updated' = updated /\ \A q \in Proc : Keeps(q) /\ (pc'[q] = pc[q] \/ Moves(q))
      <3>1. updated' = updated /\ pc[p] = "creds"
        BY <2>4 DEF StoreCreds
      <3>2. \E l \in Certified : pc' = [pc EXCEPT ![p] = l]
        BY <2>4 DEF StoreCreds, Goto, FailTo, AfterCreds, Certified
      <3>3. conf' = conf \/ \E s : conf' = [conf EXCEPT ![p].password = s]
        BY <2>4 DEF StoreCreds
      <3>4. \A q \in Proc : Keeps(q)
        BY <1>1, <3>1, <3>3 DEF Certified, Config
      <3>5. \A q \in Proc : pc'[q] = pc[q] \/ Moves(q)
        BY <1>1, <3>1, <3>2 DEF Certified
      <3> QED BY <3>1, <3>4, <3>5
    <2> QED BY <2>1, <2>2, <2>3, <2>4
  <1> HIDE DEF Keeps
  <1>3. ASSUME NEW q \in Proc PROVE NewCertInv(q)'
    <2>1. NewCertInv(q) /\ (pc'[q] = pc[q] \/ Moves(q)) /\ updated' = updated
      BY <1>2
    <2>2. Loaded(q) => Loaded(q)'
      BY <2>1 DEF Loaded, Certified
    <2> QED BY <1>2, <2>1, <2>2, SameCert DEF Keeps, NewCertInv
  <1> QED BY <1>3

LEMMA NewCertStep ==
  ASSUME TypeInv, \A q \in Proc : NewCertInv(q), [Next]_vars
  PROVE  \A q \in Proc : NewCertInv(q)'
  <1>1. ASSUME NEW p \in Proc, Start(p) PROVE \A q \in Proc : NewCertInv(q)'
    <2>1. /\ pc[p] = "idle" /\ pc' = [pc EXCEPT ![p] = "load"]
          /\ updated' = updated /\ conf' = conf
      BY <1>1 DEF Start, Goto
    <2> QED BY <2>1, PcTyped DEF NewCertInv, Loaded
  <1>2. CASE (\E i \in CertId : Ageing(i)) \/ UNCHANGED vars
    <2>1. UNCHANGED <<pc, updated, conf>>
      BY <1>2 DEF Ageing, vars, procVars
    <2> QED BY <2>1 DEF NewCertInv, Loaded
  <1> QED
    BY <1>1, <1>2, FirstSteps, CertIsForName, LaterSteps
    DEF Next, StartDeploy, StartUpdate, StartRenewal, Run, Failure, Proc

\* A deploy that changes the domain and succeeds, run alone, leaves a certificate
\* for the new one; on GCP unless an upload that failed is taken for one that was
\* done.
THEOREM NewDomainIsCertified ==
  ASSUME AtATime = 1, Iaas = "AWS" \/ "store" \notin Faults
  PROVE  Spec => CertFitsNewDomain
  <1> DEFINE Inv == \A q \in Proc : NewCertInv(q)
             Fits2 == \A p \in User : updated[p] /\ settled' /\ ~settled
                                        => web.cert.name = web.domain
  <1>1. Init => Inv
    BY DEF Init, NewCertInv
  <1>2. TypeInv /\ Inv /\ [Next]_vars => Inv'
    BY NewCertStep
  <1>3. TypeInv /\ SecretsInv /\ Inv /\ [Next]_vars => [Fits2]_vars
    <2> SUFFICES ASSUME TypeInv, SecretsInv, Inv, Next, NEW p \in User, updated[p],
                        settled', ~settled
                 PROVE  web.cert.name = web.domain
      OBVIOUS
    <2>1. PICK r \in Proc : Final(r)
      BY DEF Next, StartDeploy, StartUpdate, StartRenewal, Start, Run, Failure, Load, Apply, Save,
             Certs, CreateEnv, CreateEnvFails, BoshDeploy, BoshDeployFails, StoreState,
             StoreCreds, SetPipeline, SetPipelineFails, EarlyFailure, Crash, TaskDone, TaskFails,
             Ageing, historyVars, Proc
    <2>2. p \in Proc /\ pc[p] # "idle" /\ pc[r] = "final"
      BY <2>1 DEF NewCertInv, Loaded, Proc, Final
    <2>3. p = r
      BY <2>2 DEF SecretsInv, OneRun
    <2>4. ok[p] /\ WorkInv(p) /\ pc[p] = "final"
      BY <2>1, <2>2, <2>3 DEF Final, SecretsInv
    <2>5. Brought(p)
      BY <2>4 DEF WorkInv
    <2>6. conf[p].cert.name = conf[p].domain
      BY <2>2, <2>4 DEF NewCertInv, Certified
    <2> QED BY <2>5, <2>6 DEF Brought
  <1> QED
    BY <1>1, <1>2, <1>3, SecretsInvariant, TypeInvariant, PTL
    DEF Sure, Spec, CertFitsNewDomain
=============================================================================
