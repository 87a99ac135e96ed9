---------------------------- MODULE AttemptProofs ----------------------------
(***************************************************************************)
(* That the two steps of a deploy which answer to Attempt implement it:    *)
(* the creation of the databases, for any number of them, and the setting  *)
(* of the pipeline, for any parameters and number of logins.  And that the *)
(* pipeline's job self-update does not run for who did not ask for it.     *)
(***************************************************************************)
EXTENDS Databases, FlyPipeline, TLAPS

-----------------------------------------------------------------------------
\* The databases.

\* Those before the one that createDefaultDatabases is at are there.
DatabasesInv ==
  /\ DatabasesTypeOK
  /\ Creating => next \in 1..Len(DbNames)
  /\ Creating => \A i \in 1..Len(DbNames) : i < next => DbNames[i] \in dbs

LEMMA NamesInSeq ==
  /\ Len(DbNames) \in Nat \ {0}
  /\ ToSet(DbNames) = {DbNames[i] : i \in 1..Len(DbNames)}
  <1>1. Len(DbNames) \in Nat /\ DOMAIN DbNames = 1..Len(DbNames)
    BY DbNamesAreDistinct
  <1>2. Len(DbNames) # 0
    BY DbNamesAreDistinct
  <1> QED BY <1>1, <1>2 DEF ToSet

LEMMA DatabasesInitInv == DatabasesInit => DatabasesInv
  <1>1. 1 \in 1..(Len(DbNames) + 1)
    BY NamesInSeq
  <1> QED BY <1>1 DEF DatabasesInit, DatabasesInv, DatabasesTypeOK, Creating

\* Create goes on to the next database, or is done with all of them.
LEMMA CreateStep ==
  ASSUME DatabasesInv, Create
  PROVE  /\ DatabasesInv' /\ dbs \subseteq dbs'
         /\ dbAnswer' = "none" \/ (dbAnswer' = "ok" /\ ToSet(DbNames) \subseteq dbs')
  <1>1. Creating /\ next \in 1..Len(DbNames) /\ Len(DbNames) \in Nat
    BY NamesInSeq DEF Create, DatabasesInv
  <1>2. /\ dbs' = dbs \union {DbNames[next]} /\ next' = next + 1
        /\ dbAnswer' = IF next = Len(DbNames) THEN "ok" ELSE "none"
    BY DEF Create, AlreadyExists
  <1>3. \A i \in 1..Len(DbNames) : i < next' => DbNames[i] \in dbs'
    BY <1>1, <1>2 DEF DatabasesInv
  <1>4. DatabasesTypeOK'
    <2>1. DbNames[next] \in ToSet(DbNames)
      BY <1>1, NamesInSeq
    <2>2. dbs' \subseteq ToSet(DbNames) /\ next' \in 1..(Len(DbNames) + 1)
      BY <1>1, <1>2, <2>1 DEF DatabasesInv, DatabasesTypeOK
    <2>3. dbAnswer' \in {"none", "ok", "error"}
      BY <1>2
    <2>4. UNCHANGED <<tunnel, conn, calm>>
      BY DEF Create
    <2> QED BY <2>2, <2>3, <2>4 DEF DatabasesInv, DatabasesTypeOK
  <1>5. Creating' => next' \in 1..Len(DbNames)
    BY <1>1, <1>2 DEF Creating
  <1>6. next = Len(DbNames) => ToSet(DbNames) \subseteq dbs'
    BY <1>1, <1>2, <1>3, NamesInSeq
  <1> QED BY <1>2, <1>3, <1>4, <1>5, <1>6 DEF DatabasesInv

\* Whatever else happens while databases are created.
LEMMA OtherStep ==
  ASSUME DatabasesInv,
         \/ Connect \/ Accept \/ DialFails \/ CreateFails \/ ServerLost
         \/ Interrupt \/ CalmDown
  PROVE  /\ DatabasesInv' /\ dbs \subseteq dbs'
         /\ \/ dbAnswer' = dbAnswer /\ dbs' = dbs
            \/ dbAnswer = "none" /\ dbAnswer' = "error"
  <1>1. CASE Connect \/ Accept \/ ServerLost \/ CalmDown
    BY <1>1 DEF Connect, Accept, ServerLost, CalmDown, DatabasesInv, DatabasesTypeOK, Creating
  <1>2. CASE DialFails \/ Interrupt
    BY <1>2 DEF DialFails, Interrupt, DatabasesInv, DatabasesTypeOK, Creating
  <1>3. CASE CreateFails
    <2>1. DbNames[next] \in ToSet(DbNames)
      BY <1>3, NamesInSeq DEF CreateFails, DatabasesInv
    <2> QED BY <1>3, <2>1 DEF CreateFails, DatabasesInv, DatabasesTypeOK, Creating
  <1> QED BY <1>1, <1>2, <1>3

LEMMA OpenStep ==
  ASSUME DatabasesInv, OpenDatabase
  PROVE  DatabasesInv' /\ dbAnswer # "none" /\ dbAnswer' = "none" /\ dbs' = dbs
  BY NamesInSeq DEF OpenDatabase, DatabasesInv, DatabasesTypeOK, Creating

LEMMA DatabasesStepInv == DatabasesInv /\ [DatabasesNext]_dbVars => DatabasesInv'
  <1>1. DatabasesInv /\ UNCHANGED dbVars => DatabasesInv'
    BY DEF dbVars, DatabasesInv, DatabasesTypeOK, Creating
  <1> QED BY <1>1, CreateStep, OtherStep, OpenStep DEF DatabasesNext

\* A step of createDefaultDatabases is one of Attempt, or leaves it as it is.
LEMMA DatabasesSimulate ==
  ASSUME DatabasesInv, [DatabasesNext]_dbVars
  PROVE  [DatabasesAttempt!Next]_<<DatabasesDone, dbAnswer>>
  <1> USE DEF DatabasesAttempt!Next, DatabasesAttempt!Ask, DatabasesAttempt!Work,
              DatabasesAttempt!Succeed, DatabasesAttempt!Fail, DatabasesDone
  <1>1. CASE OpenDatabase
    BY <1>1, OpenStep
  <1>2. CASE Create
    BY <1>2, CreateStep DEF Create, Creating
  <1>3. CASE \/ Connect \/ Accept \/ DialFails \/ CreateFails \/ ServerLost
             \/ Interrupt \/ CalmDown
    BY <1>3, OtherStep
  <1>4. CASE UNCHANGED dbVars
    BY <1>4 DEF dbVars
  <1> QED BY <1>1, <1>2, <1>3, <1>4 DEF DatabasesNext

\* createDefaultDatabases implements Attempt: it reports success only when all the
\* databases are there, wherever earlier deploys stopped, and never drops one.
THEOREM DatabasesImplementAttempt == DatabasesSpec => ImplementsAttempt
  <1>1. DatabasesInit => DatabasesAttempt!Init
    BY DEF DatabasesInit, DatabasesAttempt!Init, DatabasesDone
  <1> QED BY <1>1, DatabasesInitInv, DatabasesStepInv, DatabasesSimulate, PTL
          DEF DatabasesSpec, ImplementsAttempt, DatabasesAttempt!Spec

-----------------------------------------------------------------------------
\* The pipeline.

\* A run has an answer when it is over.  What it has done by the last step, users
\* leave alone meanwhile.
FlyInv ==
  /\ FlyTypeOK
  /\ flyStep = "idle" <=> flyAnswer # "none"
  /\ flyStep \in {"set", "pause job", "unpause"} => want # Unset
  /\ flyStep # "idle" => want \in Params
  /\ flyStep \in {"pause job", "unpause"} => pipe.params = want
  /\ flyStep = "unpause" => pipe.jobPaused
  /\ pipe.params = Unset => pipe.paused
  /\ RunsWhenAsked

LEMMA FlyInitInv == FlyInit => FlyInv
  <1>1. 0 \in 0..Attempts
    BY AttemptsAreSome
  <1>2. FlyInit => FlyTypeOK
    <2>1. NoPipe \in [params : Params \union {Unset}, paused : BOOLEAN, jobPaused : BOOLEAN]
      BY DEF NoPipe
    <2> QED BY <1>1, <2>1 DEF FlyInit, FlyTypeOK
  <1> QED BY <1>2 DEF FlyInit, NoPipe, FlyInv, RunsWhenAsked

\* The steps before the pipeline is set leave it as it is.
LEMMA LoginSteps ==
  ASSUME FlyInv, Begin \/ New \/ CanConnect \/ Login \/ LoginRefused \/ Sync
  PROVE  FlyInv' /\ UNCHANGED pipe
  <1>0. 0 \in 0..Attempts
    BY AttemptsAreSome
  <1> USE DEF FlyInv, FlyTypeOK, RunsWhenAsked, Fail
  <1>1. CASE Begin
    BY <1>1, UnsetIsNothing DEF Begin
  <1>2. CASE New
    BY <1>2, <1>0 DEF New
  <1>3. CASE CanConnect
    BY <1>3 DEF CanConnect
  <1>4. CASE Login
    BY <1>4, <1>0, UnsetIsNothing DEF Login, LoggingIn, AfterLogin
  <1>5. CASE LoginRefused
    BY <1>5 DEF LoginRefused, LoggingIn
  <1>6. CASE Sync
    BY <1>6 DEF Sync
  <1> QED BY <1>1, <1>2, <1>3, <1>4, <1>5, <1>6

LEMMA LoginAgainStep ==
  ASSUME FlyInv, LoginAgain
  PROVE  FlyInv' /\ UNCHANGED pipe
  <1>1. tries' \in 0..Attempts
    <2>1. tries \in 0..Attempts
      BY DEF FlyInv, FlyTypeOK
    <2>2. tries' = tries \/ (tries + 1 < Attempts /\ tries' = tries + 1)
      BY DEF LoginAgain
    <2> QED BY <2>1, <2>2, AttemptsAreSome
  <1>2. /\ flyStep \in {"login", "login again"}
        /\ UNCHANGED <<atc, pipe, update, inSync, want, enabled>>
    BY DEF LoginAgain, LoggingIn
  <1>3. \/ UNCHANGED <<flyStep, flyAnswer>>
        \/ flyStep' = "idle" /\ flyAnswer' = "error"
    BY DEF LoginAgain, Fail
  <1>4. FlyTypeOK'
    BY <1>1, <1>2, <1>3 DEF FlyInv, FlyTypeOK
  <1>5. RunsWhenAsked'
    BY <1>2 DEF FlyInv, RunsWhenAsked
  <1> QED BY <1>2, <1>3, <1>4, <1>5 DEF FlyInv

\* The three calls of fly that change the pipeline.
LEMMA PipelineSteps ==
  ASSUME FlyInv, SetPipeline \/ PauseJob \/ UnpausePipeline
  PROVE  FlyInv'
  <1> USE DEF FlyInv, FlyTypeOK, RunsWhenAsked
  <1>1. CASE SetPipeline
    BY <1>1 DEF SetPipeline
  <1>2. CASE PauseJob
    BY <1>2 DEF PauseJob
  <1>3. CASE UnpausePipeline
    BY <1>3 DEF UnpausePipeline
  <1> QED BY <1>1, <1>2, <1>3

LEMMA StepFailsStep ==
  ASSUME FlyInv, StepFails
  PROVE  FlyInv'
  <1> USE DEF StepFails, Fail, FlyInv, FlyTypeOK, RunsWhenAsked
  <1>1. CASE UNCHANGED pipe
    BY <1>1
  <1>2. CASE flyStep = "set" /\ pipe' = [pipe EXCEPT !.params = want]
    BY <1>2
  <1>3. CASE flyStep = "pause job" /\ pipe' = [pipe EXCEPT !.jobPaused = TRUE]
    BY <1>3
  <1>4. CASE flyStep = "unpause" /\ pipe' = [pipe EXCEPT !.paused = FALSE]
    BY <1>4
  <1> QED BY <1>1, <1>2, <1>3, <1>4

LEMMA OthersStep ==
  ASSUME FlyInv, WebNode \/ UserPauses
  PROVE  FlyInv'
  <1>1. CASE WebNode
    <2>1. atc' \in {"off", "starting", "on"} /\ UNCHANGED <<pipe, runVars, enabled>>
      BY <1>1 DEF WebNode
    <2>2. FlyTypeOK' /\ RunsWhenAsked'
      BY <2>1 DEF runVars, FlyInv, FlyTypeOK, RunsWhenAsked
    <2> QED BY <2>1, <2>2 DEF runVars, FlyInv
  <1>2. CASE UserPauses
    <2> USE DEF FlyInv, FlyTypeOK, RunsWhenAsked, runVars
    <2>1. PICK b \in BOOLEAN :
            \/ pipe' = [pipe EXCEPT !.paused = b] /\ enabled' = (~b \/ enabled)
            \/ pipe' = [pipe EXCEPT !.jobPaused = b] /\ enabled' = ~b
      BY <1>2 DEF UserPauses
    <2>2. /\ flyStep = "idle" /\ pipe.params # Unset /\ UNCHANGED <<atc, flyStep, update>>
          /\ UNCHANGED <<inSync, want, tries, flyAnswer>>
      BY <1>2 DEF UserPauses
    <2>3. CASE pipe' = [pipe EXCEPT !.paused = b] /\ enabled' = (~b \/ enabled)
      <3>1. /\ pipe' \in [params : Params \union {Unset}, paused : BOOLEAN, jobPaused : BOOLEAN]
            /\ enabled' \in BOOLEAN
        BY <2>3
      <3>2. pipe'.params = pipe.params /\ pipe'.jobPaused = pipe.jobPaused /\ pipe'.paused = b
        BY <2>3
      <3>3. RunsWhenAsked'
        BY <3>2, <2>3
      <3> QED BY <2>2, <3>1, <3>2, <3>3
    <2>4. CASE pipe' = [pipe EXCEPT !.jobPaused = b] /\ enabled' = ~b
      <3>1. /\ pipe' \in [params : Params \union {Unset}, paused : BOOLEAN, jobPaused : BOOLEAN]
            /\ enabled' \in BOOLEAN
        BY <2>4
      <3>2. pipe'.params = pipe.params /\ pipe'.paused = pipe.paused /\ pipe'.jobPaused = b
        BY <2>4
      <3>3. RunsWhenAsked'
        BY <3>2, <2>4
      <3> QED BY <2>2, <3>1, <3>2, <3>3
    <2> QED BY <2>1, <2>3, <2>4
  <1> QED BY <1>1, <1>2

LEMMA FlyStepInv == FlyInv /\ [FlyNext]_flyVars => FlyInv'
  <1> SUFFICES ASSUME FlyInv, [FlyNext]_flyVars PROVE FlyInv'
    OBVIOUS
  <1>1. CASE UNCHANGED flyVars
    <2>1. FlyTypeOK' /\ RunsWhenAsked'
      BY <1>1 DEF flyVars, FlyInv, FlyTypeOK, RunsWhenAsked
    <2> QED BY <1>1, <2>1 DEF flyVars, FlyInv
  <1> QED BY <1>1, LoginSteps, LoginAgainStep, PipelineSteps, StepFailsStep, OthersStep
          DEF FlyNext, FlyStep

\* The job self-update is not left to run by a deploy: only a user makes it run.
THEOREM JobIsPausedFirst == FlySpec => []RunsWhenAsked
  <1>1. FlyInv => RunsWhenAsked
    BY DEF FlyInv
  <1> QED BY <1>1, FlyInitInv, FlyStepInv, PTL DEF FlySpec

LEMMA FlySimulate ==
  ASSUME FlyInv, [FlyNext]_flyVars
  PROVE  [PipelineAttempt!Next]_<<pipe.params = want /\ ~pipe.paused, flyAnswer>>
  <1> USE DEF PipelineAttempt!Next, PipelineAttempt!Ask, PipelineAttempt!Work,
              PipelineAttempt!Succeed, PipelineAttempt!Fail, PipelineAttempt!Change,
              FlyInv, FlyTypeOK, Fail
  <1>1. CASE Begin
    BY <1>1 DEF Begin
  <1>2. CASE New \/ CanConnect \/ Login \/ LoginAgain \/ LoginRefused \/ Sync
    BY <1>2 DEF New, CanConnect, Login, LoginAgain, LoginRefused, Sync, LoggingIn
  <1>3. CASE SetPipeline
    BY <1>3 DEF SetPipeline
  <1>4. CASE PauseJob
    BY <1>4 DEF PauseJob
  <1>5. CASE UnpausePipeline
    BY <1>5 DEF UnpausePipeline
  <1>6. CASE StepFails
    BY <1>6 DEF StepFails
  <1>7. CASE WebNode \/ UserPauses
    BY <1>7 DEF WebNode, UserPauses, runVars
  <1>8. CASE UNCHANGED flyVars
    BY <1>8 DEF flyVars
  <1> QED BY <1>1, <1>2, <1>3, <1>4, <1>5, <1>6, <1>7, <1>8 DEF FlyNext, FlyStep

\* A deploy that reports success has set the pipeline it was to set and unpaused
\* it, and none of its steps takes back what one before did.
THEOREM PipelineImplementsAttempt == FlySpec => PipelineIsSet
  <1>1. FlyInit => PipelineAttempt!Init
    BY DEF FlyInit, NoPipe, PipelineAttempt!Init
  <1> QED BY <1>1, FlyInitInv, FlyStepInv, FlySimulate, PTL
          DEF FlySpec, PipelineIsSet, PipelineAttempt!Spec
=============================================================================
