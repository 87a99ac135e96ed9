------------------------------ MODULE Settings ------------------------------
(***************************************************************************)
(* What the flags of `deploy` do to the config and to the infrastructure   *)
(* that Terraform builds from it, over deploys and self-updates of one     *)
(* deployment, one after the other, that fail or are killed at any step    *)
(* (getInitialConfig in concourse/config.go, Deploy in concourse/deploy.go)*)
(* Settings differ in how they are merged; one of each kind is modelled:   *)
(*   scale   replaced when its flag is given, as are the number and size   *)
(*           of workers, the size of the web node and of the database,     *)
(*           spot, the type of workers, tags and the GitHub client         *)
(*   zone    never changes (on GCP, Terraform's is <region>-b throughout)  *)
(*   ranges  of the network and its subnets, given to the first deploy     *)
(*   source  the address of who deploys, who is let in to the director     *)
(***************************************************************************)
CONSTANTS Scale, DefaultScale, Zone, Ranges, Host,
          NotGiven      \* a flag that is not given, or no host: a self-update

DefaultRanges == "default"
MissingRanges == "missing"      \* in configs of releases that knew none

ASSUME SettingsAreKnown ==
  /\ DefaultScale \in Scale /\ Zone # {} /\ Host # {}
  /\ DefaultRanges \notin Ranges /\ MissingRanges \notin Ranges
  /\ NotGiven \notin Scale \union Zone \union Ranges \union Host
                       \union {DefaultRanges, MissingRanges}

Settings == [scale : Scale, zone : Zone, source : Host \union {NotGiven},
             ranges : Ranges \union {DefaultRanges, MissingRanges}]
\* What Terraform is given of them: the number of workers is BOSH's.
Vars == [zone : Zone, source : Host \union {NotGiven},
         ranges : Ranges \union {DefaultRanges, MissingRanges}]
Args == [scale : Scale \union {NotGiven}, zone : Zone \union {NotGiven},
         ranges : Ranges \union {NotGiven}, host : Host \union {NotGiven}]

\* The jobs of the pipeline give none of these flags.
SelfUpdate ==
  [scale |-> NotGiven, zone |-> NotGiven, ranges |-> NotGiven, host |-> NotGiven]

VARIABLES stored,       \* the config in the bucket: a set of at most one
          live,         \* what Terraform applied last: at most one
          at,           \* where the run is
          args,         \* the flags of the run
          conf,         \* the config in its hands: at most one
          refused,      \* history: the flags of a run that were refused
          given,        \* history: the scale given last, in a run that saved it
          madeWith,     \* history: the --zone that the config was made with
          letIn,        \* history: who last deployed by hand, to the last step
          shown         \* what the last `info` answered, and to whom: at most one

settingsVars == <<stored, live, at, args, conf, refused, given, madeWith, letIn,
                  shown>>
historyVars == <<refused, given, madeWith, letIn, shown>>

SettingsTypeOK ==
  /\ stored \subseteq Settings /\ live \subseteq Vars /\ conf \subseteq Settings
  /\ at \in {"idle", "load", "apply", "save", "bosh", "final"}
  /\ args \in Args /\ madeWith \in Zone \union {NotGiven}
  /\ refused \subseteq Args
  /\ given \in Scale
  /\ letIn \in Host \union {NotGiven}
  /\ shown \subseteq [to : Host, answered : BOOLEAN]

\* NewInputVars; on GCP the zone is the one of the region that has the letter b.
InputVars(c) == [zone |-> c.zone, source |-> c.source, ranges |-> c.ranges]

\* Nothing is there yet, or the deployment of a release whose networks were fixed.
SettingsInit ==
  /\ \/ stored = {} /\ live = {}
     \/ \E z \in Zone, h \in Host :
          LET old == [scale |-> DefaultScale, zone |-> z, source |-> h,
                      ranges |-> MissingRanges]
          IN stored = {old} /\ live = {InputVars([old EXCEPT !.ranges = DefaultRanges])}
  /\ at = "idle" /\ args = SelfUpdate /\ conf = {} /\ refused = {}
  /\ given = DefaultScale /\ madeWith = NotGiven /\ letIn = NotGiven
  /\ shown = {}

Stop == at' = "idle" /\ conf' = {} /\ args' = SelfUpdate

-----------------------------------------------------------------------------
\* Somebody deploys, or the pipeline of a deployment does.
Give ==
  /\ at = "idle"
  /\ at' = "load" /\ refused' = {} /\ shown' = {}
  /\ \/ args' \in {a \in Args : a.host # NotGiven} /\ letIn' = NotGiven
     \/ args' = SelfUpdate /\ live # {} /\ UNCHANGED letIn
  /\ UNCHANGED <<stored, live, conf, given, madeWith>>

\* Without --zone the provider proposes some zone, one that has offers for the
\* type of the workers if it finds one.
ZoneFor(z) == IF args.zone = NotGiven THEN z ELSE args.zone

\* hasCIDRFlagsSet, populateConfigWithDeployArgsCIDRs
NewRanges == IF args.ranges = NotGiven THEN DefaultRanges ELSE args.ranges

\* Mutant: the zone of a new config is the proposed one, whatever was given.
NewConfigInAnyZone(z) ==
  [scale |-> IF args.scale = NotGiven THEN DefaultScale ELSE args.scale,
   zone |-> z, source |-> NotGiven, ranges |-> NewRanges]

\* newConfig
NewSettings(z) ==
  [scale |-> IF args.scale = NotGiven THEN DefaultScale ELSE args.scale,
   zone |-> ZoneFor(z), source |-> NotGiven, ranges |-> NewRanges]

\* Mutant: the new config is stored by the Update after Terraform only.
FirstLoadUnstored ==
  /\ at = "load" /\ stored = {}
  /\ \E z \in Zone : conf' = {NewSettings(z)} /\ given' = NewSettings(z).scale
  /\ madeWith' = args.zone
  /\ at' = "apply"
  /\ UNCHANGED <<stored, live, args, refused, letIn, shown>>

\* getInitialConfig stores a config it makes, before anything is built from it.
FirstLoad ==
  /\ at = "load" /\ stored = {}
  /\ \E z \in Zone :
       /\ conf' = {NewSettings(z)} /\ stored' = conf'
       /\ given' = NewSettings(z).scale
  /\ madeWith' = args.zone
  /\ at' = "apply"
  /\ UNCHANGED <<live, args, refused, letIn, shown>>

\* Mutant: the flag's default counts, whether or not the flag is given.
MergedAlways(c) ==
  [c EXCEPT !.scale = IF args.scale = NotGiven THEN DefaultScale ELSE args.scale,
            !.ranges = IF @ = MissingRanges THEN DefaultRanges ELSE @]

\* populateConfigWithDefaultsOrProvidedArguments
MergedSettings(c) ==
  [c EXCEPT !.scale = IF args.scale = NotGiven THEN @ ELSE args.scale,
            !.ranges = IF @ = MissingRanges THEN DefaultRanges ELSE @]

\* Ranges are refused whatever they are, a zone when it is another one.
Refuses(c) == args.ranges # NotGiven \/ args.zone \notin {NotGiven, c.zone}

LoadAgain ==
  /\ at = "load"
  /\ \E c \in stored :
       IF Refuses(c) THEN Stop /\ refused' = {args}
       ELSE /\ at' = "apply" /\ conf' = {MergedSettings(c)}
            /\ UNCHANGED <<args, refused>>
  /\ UNCHANGED <<stored, live, given, madeWith, letIn, shown>>

\* Mutant: a self-update lets in whatever address it runs at.
SourceOfRun(c) == CHOOSE h \in Host : h # c.source

\* checkPreTerraformConfigRequirements: who deploys by hand is let in, a
\* self-update leaves that as it is.
Source(c) == IF args.host = NotGiven THEN c.source ELSE args.host

\* terraform apply, which may fail once it changed what is there.
TerraformApply ==
  /\ at = "apply"
  /\ \E c \in conf :
       /\ conf' = {[c EXCEPT !.source = Source(c)]}
       /\ live' = {InputVars([c EXCEPT !.source = Source(c)])}
  /\ at' = "save"
  /\ UNCHANGED <<stored, args, historyVars>>

\* The first Update.
SaveSettings ==
  /\ at = "save"
  /\ stored' = conf
  /\ given' = IF args.scale = NotGiven THEN given ELSE args.scale
  /\ at' = "bosh"
  /\ UNCHANGED <<live, args, conf, refused, madeWith, letIn, shown>>

\* Certificates, the director, Concourse and the pipeline.
DeployBosh ==
  /\ at = "bosh"
  /\ at' = "final"
  /\ UNCHANGED <<stored, live, args, conf, historyVars>>

\* The last Update.
FinalSave ==
  /\ at = "final"
  /\ stored' = conf
  /\ letIn' = IF args.host = NotGiven THEN letIn ELSE args.host
  /\ Stop
  /\ UNCHANGED <<live, refused, given, madeWith, shown>>

\* A step fails before it changed anything, or the process is killed.
StopsShort ==
  /\ at # "idle"
  /\ Stop
  /\ UNCHANGED <<stored, live, historyVars>>

\* CheckForWhitelistedIP: the address is let in on each of the director's ports.
Whitelisted(h) == \E i \in live : i.source = h

\* `info`, which asks the director when its user is let in, and changes nothing.
FetchInfo ==
  /\ at = "idle" /\ stored # {} /\ live # {}
  /\ \E h \in Host : shown' = {[to |-> h, answered |-> Whitelisted(h)]}
  /\ UNCHANGED <<stored, live, at, args, conf, refused, given, madeWith, letIn>>

SettingsNext ==
  \/ Give \/ FirstLoad \/ LoadAgain \/ TerraformApply \/ SaveSettings \/ DeployBosh
  \/ FinalSave \/ StopsShort \/ FetchInfo

SettingsSpec == SettingsInit /\ [][SettingsNext]_settingsVars
-----------------------------------------------------------------------------
\* A setting stays what it was given last, through deploys without its flag and
\* self-updates, however they end ("settings provided via flags will persist",
\* README.md; merged in getInitialConfig).
SettingsPersist == at = "idle" => \A c \in stored : c.scale = given

\* The zone and the address ranges that infrastructure was built with are those
\* of every later deploy, although the first one may have been cut short right
\* after it built it (getInitialConfig stores the config first).
FoundationsStay ==
  [][\A old \in live, new \in live' : old.zone = new.zone /\ old.ranges = new.ranges]_settingsVars

\* A deploy that failed can be repeated with the flags it had, but for address
\* ranges (getInitialConfig refuses zones and ranges that change).
RepeatIsAccepted ==
  \A a \in refused : a.ranges = NotGiven => a.zone # madeWith

\* Who deployed by hand last, to the end, gets an answer of `info` until somebody
\* deploys by hand again, through any number of self-updates that fail or succeed
\* (the source address of the config is kept by these).
DeployerIsLetIn == \A i \in shown : i.to = letIn => i.answered
=============================================================================
