---------------------------- MODULE FlyPipeline -----------------------------
(***************************************************************************)
(* How a deploy sets the pipeline concourse-up-self-update of the          *)
(* Concourse it deploys (fly/fly.go): it downloads fly, waits for the ATC, *)
(* sets the pipeline, pauses its job self-update and unpauses the          *)
(* pipeline.  A run by hand does that after `bosh deploy`, with a fly of   *)
(* the version it deployed; a self-update does it before, with a fly newer *)
(* than the Concourse it talks to.  Users pause and unpause in the UI.     *)
(***************************************************************************)
EXTENDS Naturals

CONSTANTS Attempts,     \* how often login is tried: 50 in the code
          Params        \* what pipelines are rendered from: region, domain, ...

Unset == "unset"

ASSUME AttemptsAreSome == Attempts \in Nat \ {0}
ASSUME UnsetIsNothing == Unset \notin Params

VARIABLES atc,          \* whether the ATC answers
          pipe,         \* the pipeline on the ATC
          flyStep,      \* where the run is
          update,       \* it is a self-update
          inSync,       \* its fly has the version of the ATC
          want,         \* what it renders the pipeline from
          tries,        \* logins that did not reach the ATC
          flyAnswer,    \* what the step of the deploy returned
          enabled       \* history: a user unpaused the pipeline or its job self-update

flyVars == <<atc, pipe, flyStep, update, inSync, want, tries, flyAnswer, enabled>>
runVars == <<flyStep, update, inSync, want, tries, flyAnswer>>

NoPipe == [params |-> Unset, paused |-> TRUE, jobPaused |-> FALSE]

FlyTypeOK ==
  /\ atc \in {"off", "starting", "on"}
  /\ pipe \in [params : Params \union {Unset}, paused : BOOLEAN, jobPaused : BOOLEAN]
  /\ flyStep \in {"idle", "new", "connect", "login", "sync", "login again", "set",
                  "pause job", "unpause"}
  /\ update \in BOOLEAN /\ inSync \in BOOLEAN /\ enabled \in BOOLEAN
  /\ want \in Params \union {Unset}
  /\ tries \in 0..Attempts
  /\ flyAnswer \in {"none", "ok", "error"}

FlyInit ==
  /\ atc = "off" /\ pipe = NoPipe
  /\ flyStep = "idle" /\ update = FALSE /\ inSync = TRUE /\ want = Unset /\ tries = 0
  /\ flyAnswer = "error" /\ enabled = FALSE

Fail == flyStep' = "idle" /\ flyAnswer' = "error"

-----------------------------------------------------------------------------
\* The step of the deploy begins: NewClient and what it downloads are ahead.
Begin ==
  /\ flyStep = "idle"
  /\ flyStep' = "new" /\ flyAnswer' = "none"
  /\ update' \in {FALSE} \union {pipe.params # Unset}
  /\ inSync' = ~update'
  /\ want' \in Params
  /\ UNCHANGED <<atc, pipe, tries, enabled>>

\* New.  updateBoshAndPipeline wants a Concourse that is running.
New ==
  /\ flyStep = "new"
  /\ flyStep' = IF update THEN "connect" ELSE "login"
  /\ tries' = 0
  /\ UNCHANGED <<atc, pipe, update, inSync, want, flyAnswer, enabled>>

\* CanConnect of a self-update: an ATC that does not answer is an error.
CanConnect ==
  /\ flyStep = "connect"
  /\ IF atc = "on" THEN flyStep' = "login" /\ UNCHANGED flyAnswer ELSE Fail
  /\ UNCHANGED <<atc, pipe, update, inSync, want, tries, enabled>>

LoggingIn == flyStep \in {"login", "login again"}

\* Where SetDefaultPipeline goes on after a login.
AfterLogin ==
  IF update /\ flyStep = "login" THEN "sync" ELSE "set"

\* login reaches an ATC that is up.
Login ==
  /\ LoggingIn /\ atc = "on"
  /\ flyStep' = AfterLogin /\ tries' = 0
  /\ UNCHANGED <<atc, pipe, update, inSync, want, flyAnswer, enabled>>

\* Mutant: attempts are not counted.
LoginAgainForEver ==
  /\ LoggingIn /\ atc = "off"
  /\ UNCHANGED flyVars

\* Mutant: the attempt that is one too many is made.
LoginOnceMore ==
  /\ LoggingIn /\ atc = "off"
  /\ IF tries < Attempts + 1
     THEN tries' = tries + 1 /\ UNCHANGED <<flyStep, flyAnswer>>
     ELSE Fail /\ UNCHANGED tries
  /\ UNCHANGED <<atc, pipe, update, inSync, want, enabled>>

\* fly could not reach the server: login sleeps and tries again, so many times.
LoginAgain ==
  /\ LoggingIn /\ atc = "off"
  /\ IF tries + 1 < Attempts
     THEN tries' = tries + 1 /\ UNCHANGED <<flyStep, flyAnswer>>
     ELSE Fail /\ UNCHANGED tries
  /\ UNCHANGED <<atc, pipe, update, inSync, want, enabled>>

\* Any other error ends login at once: one of an ATC whose load balancer or web
\* process answers before it is ready is among them.
LoginRefused ==
  /\ LoggingIn /\ atc # "off"
  /\ Fail
  /\ UNCHANGED <<atc, pipe, update, inSync, want, tries, enabled>>

\* fly sync replaces fly by that of the ATC.
Sync ==
  /\ flyStep = "sync" /\ atc = "on"
  /\ inSync' = TRUE
  /\ flyStep' = "login again"
  /\ UNCHANGED <<atc, pipe, update, want, tries, flyAnswer, enabled>>

\* Mutant: the error of set-pipeline is dropped.
SetPipelineUnchecked ==
  /\ flyStep = "set" /\ atc = "on"
  /\ pipe' \in {pipe, [pipe EXCEPT !.params = want]}
  /\ flyStep' = "pause job"
  /\ UNCHANGED <<atc, update, inSync, want, tries, flyAnswer, enabled>>

\* writePipelineConfig and set-pipeline, by a fly of the ATC's version.  A
\* pipeline that is new is paused, its jobs are not; one that is there keeps
\* whether it is.
SetPipeline ==
  /\ flyStep = "set" /\ atc = "on" /\ inSync
  /\ pipe' = [pipe EXCEPT !.params = want]
  /\ flyStep' = "pause job"
  /\ UNCHANGED <<atc, update, inSync, want, tries, flyAnswer, enabled>>

\* Mutant: the pipeline is unpaused before its job is paused.
PauseJobLast ==
  /\ flyStep = "pause job" /\ atc = "on"
  /\ pipe' = [pipe EXCEPT !.paused = FALSE]
  /\ flyStep' = "unpause"
  /\ UNCHANGED <<atc, update, inSync, want, tries, flyAnswer, enabled>>

\* The job is paused again by every deploy, whoever had unpaused it.
PauseJob ==
  /\ flyStep = "pause job" /\ atc = "on"
  /\ pipe' = [pipe EXCEPT !.jobPaused = TRUE]
  /\ enabled' = FALSE
  /\ flyStep' = "unpause"
  /\ UNCHANGED <<atc, update, inSync, want, tries, flyAnswer>>

UnpausePipeline ==
  /\ flyStep = "unpause" /\ atc = "on"
  /\ pipe' = [pipe EXCEPT !.paused = FALSE]
  /\ flyStep' = "idle" /\ flyAnswer' = "ok"
  /\ UNCHANGED <<atc, update, inSync, want, tries, enabled>>

\* A download, the credentials, the ATC, a file, or fly itself: any step but
\* login may end the run, once it has done its work or before.
StepFails ==
  /\ flyStep \notin {"idle", "login", "login again"}
  /\ \/ UNCHANGED pipe
     \/ atc = "on" /\ flyStep = "set" /\ inSync /\ pipe' = [pipe EXCEPT !.params = want]
     \/ atc = "on" /\ flyStep = "pause job" /\ pipe' = [pipe EXCEPT !.jobPaused = TRUE]
     \/ atc = "on" /\ flyStep = "unpause" /\ pipe' = [pipe EXCEPT !.paused = FALSE]
  /\ enabled' = (enabled /\ ~pipe'.jobPaused)
  /\ Fail
  /\ UNCHANGED <<atc, update, inSync, want, tries>>

\* The web node comes up, is replaced, or is lost; its database stays.
WebNode ==
  /\ \/ atc = "off" /\ atc' \in {"starting", "on"}
     \/ atc = "starting" /\ atc' \in {"off", "on"}
     \/ atc = "on" /\ atc' = "off"
  /\ UNCHANGED <<pipe, runVars, enabled>>

\* A user pauses or unpauses the pipeline or its job in the UI.
UserPauses ==
  /\ atc = "on" /\ flyStep = "idle" /\ pipe.params # Unset
  /\ \E b \in BOOLEAN :
       \/ pipe' = [pipe EXCEPT !.paused = b] /\ enabled' = (~b \/ enabled)
       \/ pipe' = [pipe EXCEPT !.jobPaused = b] /\ enabled' = ~b
  /\ UNCHANGED <<atc, runVars>>

FlyStep ==
  \/ New \/ CanConnect \/ Login \/ LoginAgain \/ LoginRefused \/ Sync \/ SetPipeline
  \/ PauseJob \/ UnpausePipeline \/ StepFails

FlyNext == Begin \/ FlyStep \/ WebNode \/ UserPauses

FlySpec == FlyInit /\ [][FlyNext]_flyVars

\* A run goes on by itself.
FlyFairness == WF_flyVars(FlyStep)
-----------------------------------------------------------------------------
\* The job self-update runs only for who asked for it, by unpausing it or a
\* pipeline in which it was not paused yet (SetDefaultPipeline pauses the job
\* before it unpauses the pipeline).
RunsWhenAsked ==
  pipe.params # Unset /\ ~pipe.paused /\ ~pipe.jobPaused => enabled

\* A deploy that reports success leaves a pipeline that runs and is rendered
\* from what it was to be rendered from; no step of its takes that back.
PipelineAttempt ==
  INSTANCE Attempt WITH done <- pipe.params = want /\ ~pipe.paused, answer <- flyAnswer

PipelineIsSet == PipelineAttempt!Spec

\* A run ends, whatever becomes of the ATC it waits for (login counts).
RunEnds == flyStep # "idle" ~> flyStep = "idle"
=============================================================================
