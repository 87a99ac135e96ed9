--------------------------- MODULE SettingsProofs ---------------------------
(***************************************************************************)
(* What deploys with flags and self-updates do to the settings of a        *)
(* deployment, for any number of values of each setting and any sequence   *)
(* of runs that fail or are killed at any step.                            *)
(***************************************************************************)
EXTENDS Settings, TLAPS

\* What ranges a config of a release that knew none stands for.
Norm(r) == IF r = MissingRanges THEN DefaultRanges ELSE r

\* A run has a config in its hands when it has loaded one, which is stored by
\* then; and nothing is built before a config is stored.
ControlInv ==
  /\ \A c, d \in stored : c = d
  /\ \A c, d \in conf : c = d
  /\ at \in {"idle", "load"} <=> conf = {}
  /\ live # {} \/ conf # {} => stored # {}
  /\ at \in {"bosh", "final"} => conf = stored
  /\ at = "load" => refused = {}
  /\ at # "idle" => shown = {}

\* The scale in the bucket is the one given last; a run carries the one it was
\* given, if it was given any.
ScaleInv ==
  /\ \A c \in stored : c.scale = given
  /\ \A c \in conf : c.scale = IF args.scale = NotGiven THEN given ELSE args.scale

\* What is built, and what a run is about to build, stands on what is stored.
FoundationInv ==
  /\ \A c \in stored : madeWith \in {NotGiven, c.zone}
  /\ \A c \in stored, i \in live : i.zone = c.zone /\ i.ranges = Norm(c.ranges)
  /\ \A c \in stored, d \in conf : d.zone = c.zone /\ d.ranges = Norm(c.ranges)
  /\ RepeatIsAccepted

\* The last who deployed by hand is let in by all there is, until somebody else
\* deploys; who deploys is let in once Terraform was run.
SourceInv ==
  /\ letIn # NotGiven =>
       stored # {} /\ \A c \in stored \union conf \union live : c.source = letIn
  /\ at # "idle" /\ args.host # NotGiven => letIn = NotGiven
  /\ at \in {"save", "bosh", "final"} /\ args.host # NotGiven =>
       \A c \in conf \union live : c.source = args.host
  /\ DeployerIsLetIn

SettingsInv == SettingsTypeOK /\ ControlInv /\ ScaleInv /\ FoundationInv /\ SourceInv

-----------------------------------------------------------------------------
LEMMA InputVarsTyped ==
  ASSUME NEW c \in Settings
  PROVE  /\ InputVars(c) \in Vars
         /\ InputVars(c).zone = c.zone /\ InputVars(c).ranges = c.ranges
         /\ InputVars(c).source = c.source
  BY DEF InputVars, Settings, Vars

LEMMA SelfUpdateTyped == SelfUpdate \in Args /\ SelfUpdate.host = NotGiven
  BY DEF SelfUpdate, Args

LEMMA NewSettingsTyped ==
  ASSUME args \in Args, NEW z \in Zone
  PROVE  /\ NewSettings(z) \in Settings
         /\ NewSettings(z).scale = IF args.scale = NotGiven THEN DefaultScale ELSE args.scale
         /\ NewSettings(z).source = NotGiven
         /\ args.zone \in {NotGiven, NewSettings(z).zone}
         /\ Norm(NewSettings(z).ranges) = NewSettings(z).ranges
  <1>1. args.scale \in Scale \union {NotGiven} /\ args.zone \in Zone \union {NotGiven}
        /\ args.ranges \in Ranges \union {NotGiven}
    BY DEF Args
  <1> QED BY <1>1, SettingsAreKnown
          DEF NewSettings, ZoneFor, NewRanges, Settings, Norm, DefaultRanges,
              MissingRanges

LEMMA MergedSettingsTyped ==
  ASSUME args \in Args, NEW c \in Settings
  PROVE  /\ MergedSettings(c) \in Settings
         /\ MergedSettings(c).scale = IF args.scale = NotGiven THEN c.scale ELSE args.scale
         /\ MergedSettings(c).zone = c.zone /\ MergedSettings(c).source = c.source
         /\ MergedSettings(c).ranges = Norm(c.ranges)
  <1>1. args.scale \in Scale \union {NotGiven}
    BY DEF Args
  <1> QED BY <1>1 DEF MergedSettings, Settings, Norm, DefaultRanges, MissingRanges

LEMMA SettingsInitInv == SettingsInit => SettingsInv
  <1> SUFFICES ASSUME SettingsInit PROVE SettingsInv
    OBVIOUS
  <1> USE DEF SettingsInit
  <1>1. CASE stored = {} /\ live = {}
    <2>1. SettingsTypeOK
      BY <1>1, SettingsAreKnown, SelfUpdateTyped DEF SettingsTypeOK
    <2> QED BY <1>1, <2>1 DEF SettingsInv, ControlInv, ScaleInv, FoundationInv, SourceInv,
                              RepeatIsAccepted, DeployerIsLetIn
  <1>2. ASSUME NEW z \in Zone, NEW h \in Host, NEW old,
               old = [scale |-> DefaultScale, zone |-> z, source |-> h,
                      ranges |-> MissingRanges],
               stored = {old}, live = {InputVars([old EXCEPT !.ranges = DefaultRanges])}
        PROVE  SettingsInv
    <2>1. old \in Settings /\ [old EXCEPT !.ranges = DefaultRanges] \in Settings
      BY <1>2, SettingsAreKnown DEF Settings
    <2>2. \A i \in live : i \in Vars /\ i.zone = old.zone /\ i.ranges = Norm(old.ranges)
      BY <1>2, <2>1, InputVarsTyped DEF Norm, Settings
    <2>3. SettingsTypeOK
      BY <1>2, <2>1, <2>2, SettingsAreKnown, SelfUpdateTyped DEF SettingsTypeOK
    <2> QED BY <1>2, <2>2, <2>3 DEF SettingsInv, ControlInv, ScaleInv, FoundationInv,
                                    SourceInv, RepeatIsAccepted, DeployerIsLetIn
  <1> QED BY <1>1, <1>2

LEMMA GiveInv ==
  ASSUME SettingsInv, Give
  PROVE  SettingsInv'
  <1>1. args' \in Args
    BY SelfUpdateTyped DEF Give
  <1>2. SettingsTypeOK'
    BY <1>1 DEF Give, SettingsInv, SettingsTypeOK
  <1>3. args'.host # NotGiven => letIn' = NotGiven
    BY SelfUpdateTyped DEF Give
  <1>4. letIn' \in {letIn, NotGiven}
    BY DEF Give
  <1>5. /\ at = "idle" /\ conf = {} /\ at' = "load" /\ refused' = {} /\ shown' = {}
        /\ UNCHANGED <<stored, live, conf, given, madeWith>>
    BY DEF Give, SettingsInv, ControlInv
  <1>6. ControlInv' /\ ScaleInv'
    BY <1>5 DEF SettingsInv, ControlInv, ScaleInv
  <1>7. FoundationInv'
    BY <1>5 DEF SettingsInv, FoundationInv, RepeatIsAccepted
  <1>8. SourceInv'
    BY <1>3, <1>4, <1>5 DEF SettingsInv, SourceInv, DeployerIsLetIn
  <1> QED BY <1>2, <1>6, <1>7, <1>8 DEF SettingsInv

LEMMA FirstLoadInv ==
  ASSUME SettingsInv, FirstLoad
  PROVE  SettingsInv'
  <1>1. PICK z \in Zone : /\ conf' = {NewSettings(z)} /\ stored' = conf'
                          /\ given' = NewSettings(z).scale
    BY DEF FirstLoad
  <1>2. /\ at = "load" /\ stored = {} /\ live = {} /\ refused = {} /\ shown = {}
        /\ at' = "apply" /\ madeWith' = args.zone /\ letIn = NotGiven
        /\ UNCHANGED <<live, args, refused, letIn, shown>>
    BY DEF FirstLoad, SettingsInv, ControlInv, SourceInv
  <1>3. args \in Args
    BY DEF SettingsInv, SettingsTypeOK
  <1> DEFINE c == NewSettings(z)
  <1>4. /\ c \in Settings /\ c.scale \in Scale /\ args.zone \in {NotGiven, c.zone}
        /\ args.scale # NotGiven => c.scale = args.scale
        /\ Norm(c.ranges) = c.ranges
    BY <1>3, NewSettingsTyped DEF Settings
  <1>5. args.zone \in Zone \union {NotGiven}
    BY <1>3 DEF Args
  <1> HIDE DEF c
  <1>6. conf' = {c} /\ stored' = {c} /\ given' = c.scale
    BY <1>1 DEF c
  <1>7. SettingsTypeOK'
    BY <1>2, <1>4, <1>5, <1>6 DEF SettingsInv, SettingsTypeOK
  <1>8. ControlInv' /\ ScaleInv'
    BY <1>2, <1>4, <1>6 DEF ControlInv, ScaleInv
  <1>9. FoundationInv'
    BY <1>2, <1>4, <1>6 DEF FoundationInv, RepeatIsAccepted
  <1>10. SourceInv'
    BY <1>2, <1>6 DEF SettingsInv, SourceInv, DeployerIsLetIn
  <1> QED BY <1>7, <1>8, <1>9, <1>10 DEF SettingsInv

\* A run that ends leaves the bucket and the cloud as they are at that point.
LEMMA StopInv ==
  ASSUME SettingsInv, Stop, at # "idle", UNCHANGED <<stored, live, given, madeWith, shown>>,
         letIn' = letIn, refused' \subseteq Args,
         refused' = refused \/ \A a \in refused' : a.ranges = NotGiven => a.zone # madeWith
  PROVE  SettingsInv'
  <1>1. at' = "idle" /\ conf' = {} /\ args' = SelfUpdate
    BY DEF Stop
  <1>2. SettingsTypeOK'
    BY <1>1, SelfUpdateTyped DEF SettingsInv, SettingsTypeOK
  <1>3. ControlInv' /\ ScaleInv'
    BY <1>1 DEF SettingsInv, ControlInv, ScaleInv
  <1>4. FoundationInv'
    BY <1>1 DEF SettingsInv, FoundationInv, RepeatIsAccepted
  <1>5. SourceInv'
    BY <1>1 DEF SettingsInv, SourceInv, DeployerIsLetIn
  <1> QED BY <1>2, <1>3, <1>4, <1>5 DEF SettingsInv

LEMMA LoadAgainInv ==
  ASSUME SettingsInv, LoadAgain
  PROVE  SettingsInv'
  <1>1. PICK c \in stored :
          IF Refuses(c) THEN Stop /\ refused' = {args}
          ELSE /\ at' = "apply" /\ conf' = {MergedSettings(c)}
               /\ UNCHANGED <<args, refused>>
    BY DEF LoadAgain
  <1>2. /\ at = "load" /\ UNCHANGED <<stored, live, given, madeWith, letIn, shown>>
        /\ args \in Args /\ c \in Settings /\ stored = {c}
    BY DEF LoadAgain, SettingsInv, SettingsTypeOK, ControlInv
  <1>3. CASE Refuses(c)
    <2>1. args.ranges = NotGiven => args.zone # madeWith
      BY <1>2, <1>3 DEF Refuses, SettingsInv, FoundationInv
    <2> QED BY <1>1, <1>2, <1>3, <2>1, StopInv
  <1>4. CASE ~Refuses(c)
    <2> DEFINE d == MergedSettings(c)
    <2>1. /\ d \in Settings /\ d.zone = c.zone /\ d.source = c.source
          /\ d.ranges = Norm(c.ranges)
          /\ d.scale = IF args.scale = NotGiven THEN given ELSE args.scale
      BY <1>2, MergedSettingsTyped DEF SettingsInv, ScaleInv
    <2>2. at' = "apply" /\ conf' = {d} /\ UNCHANGED <<args, refused>>
      BY <1>1, <1>4
    <2> HIDE DEF d
    <2>3. SettingsTypeOK'
      BY <1>2, <2>1, <2>2 DEF SettingsInv, SettingsTypeOK
    <2>4. ControlInv' /\ ScaleInv'
      BY <1>2, <2>1, <2>2 DEF SettingsInv, ControlInv, ScaleInv
    <2>5. FoundationInv'
      BY <1>2, <2>1, <2>2 DEF SettingsInv, FoundationInv, RepeatIsAccepted
    <2>6. SourceInv'
      BY <1>2, <2>1, <2>2 DEF SettingsInv, SourceInv, DeployerIsLetIn
    <2> QED BY <2>3, <2>4, <2>5, <2>6 DEF SettingsInv
  <1> QED BY <1>3, <1>4

\* What Terraform builds stands on what the config in the bucket stands on.
LEMMA TerraformApplyInv ==
  ASSUME SettingsInv, TerraformApply
  PROVE  /\ SettingsInv'
         /\ \A i \in live, j \in live' : i.zone = j.zone /\ i.ranges = j.ranges
  <1>1. PICK c \in conf : /\ conf' = {[c EXCEPT !.source = Source(c)]}
                          /\ live' = {InputVars([c EXCEPT !.source = Source(c)])}
    BY DEF TerraformApply
  <1> DEFINE d == [c EXCEPT !.source = Source(c)]
  <1>2. /\ at = "apply" /\ at' = "save"
        /\ UNCHANGED <<stored, args, refused, given, madeWith, letIn, shown>>
    BY DEF TerraformApply, historyVars
  <1>3. c \in Settings /\ args \in Args /\ conf = {c}
    BY DEF SettingsInv, SettingsTypeOK, ControlInv
  <1>4. Source(c) = IF args.host = NotGiven THEN c.source ELSE args.host
    BY DEF Source
  <1>5. Source(c) \in Host \union {NotGiven}
    BY <1>3, <1>4 DEF Settings, Args
  <1>6. /\ d \in Settings /\ d.scale = c.scale /\ d.zone = c.zone /\ d.ranges = c.ranges
        /\ d.source = Source(c)
    BY <1>3, <1>5 DEF Settings
  <1> HIDE DEF d
  <1>7. PICK i \in Vars : /\ conf' = {d} /\ live' = {i} /\ i.zone = c.zone
                          /\ i.ranges = c.ranges /\ i.source = Source(c)
    BY <1>1, <1>6, InputVarsTyped DEF d
  <1>8. SettingsTypeOK'
    BY <1>2, <1>6, <1>7 DEF SettingsInv, SettingsTypeOK
  <1>9. ControlInv' /\ ScaleInv'
    BY <1>2, <1>3, <1>6, <1>7 DEF SettingsInv, ControlInv, ScaleInv
  <1>10. FoundationInv'
    BY <1>2, <1>3, <1>6, <1>7 DEF SettingsInv, FoundationInv, RepeatIsAccepted
  <1>11. SourceInv'
    BY <1>2, <1>3, <1>4, <1>6, <1>7 DEF SettingsInv, SourceInv, DeployerIsLetIn
  <1>12. \A j \in live, k \in live' : j.zone = k.zone /\ j.ranges = k.ranges
    BY <1>3, <1>7 DEF SettingsInv, FoundationInv, ControlInv
  <1> QED BY <1>8, <1>9, <1>10, <1>11, <1>12 DEF SettingsInv

LEMMA SaveSettingsInv ==
  ASSUME SettingsInv, SaveSettings
  PROVE  SettingsInv'
  <1>1. /\ at = "save" /\ at' = "bosh" /\ stored' = conf
        /\ given' = IF args.scale = NotGiven THEN given ELSE args.scale
        /\ UNCHANGED <<live, args, conf, refused, madeWith, letIn, shown>>
    BY DEF SaveSettings
  <1>2. args.scale \in Scale \union {NotGiven} /\ conf # {}
    BY <1>1 DEF SettingsInv, SettingsTypeOK, Args, ControlInv
  <1>3. SettingsTypeOK'
    BY <1>1, <1>2 DEF SettingsInv, SettingsTypeOK
  <1>4. ControlInv' /\ ScaleInv'
    BY <1>1, <1>2 DEF SettingsInv, ControlInv, ScaleInv
  <1>5. \A c \in conf : Norm(c.ranges) = c.ranges
    BY <1>2 DEF SettingsInv, FoundationInv, ControlInv, Norm, DefaultRanges, MissingRanges
  <1>6. FoundationInv'
    BY <1>1, <1>2, <1>5 DEF SettingsInv, FoundationInv, ControlInv, RepeatIsAccepted
  <1>7. SourceInv'
    BY <1>1, <1>2 DEF SettingsInv, SourceInv, DeployerIsLetIn
  <1> QED BY <1>3, <1>4, <1>6, <1>7 DEF SettingsInv

LEMMA DeployBoshInv ==
  ASSUME SettingsInv, DeployBosh
  PROVE  SettingsInv'
  <1>1. /\ at = "bosh" /\ at' = "final"
        /\ UNCHANGED <<stored, live, args, conf, refused, given, madeWith, letIn, shown>>
    BY DEF DeployBosh, historyVars
  <1> QED BY <1>1 DEF SettingsInv, SettingsTypeOK, ControlInv, ScaleInv, FoundationInv,
                      SourceInv, RepeatIsAccepted, DeployerIsLetIn

LEMMA FinalSaveInv ==
  ASSUME SettingsInv, FinalSave
  PROVE  SettingsInv'
  <1>1. /\ at = "final" /\ stored' = conf /\ conf = stored /\ Stop
        /\ UNCHANGED <<live, refused, given, madeWith, shown>>
    BY DEF FinalSave, SettingsInv, ControlInv
  <1>2. CASE args.host = NotGiven
    BY <1>1, <1>2, StopInv DEF FinalSave, SettingsInv, SettingsTypeOK
  <1>3. CASE args.host # NotGiven
    <2>1. letIn' = args.host /\ at' = "idle" /\ conf' = {} /\ args' = SelfUpdate
      BY <1>3 DEF FinalSave, Stop
    <2>2. args.host \in Host
      BY <1>3 DEF SettingsInv, SettingsTypeOK, Args
    <2>3. SettingsTypeOK'
      BY <1>1, <2>1, <2>2, SelfUpdateTyped DEF SettingsInv, SettingsTypeOK
    <2>4. ControlInv' /\ ScaleInv'
      BY <1>1, <2>1 DEF SettingsInv, ControlInv, ScaleInv
    <2>5. FoundationInv'
      BY <1>1, <2>1 DEF SettingsInv, FoundationInv, RepeatIsAccepted
    <2>6. SourceInv'
      BY <1>1, <1>3, <2>1 DEF SettingsInv, SourceInv, ControlInv, DeployerIsLetIn
    <2> QED BY <2>3, <2>4, <2>5, <2>6 DEF SettingsInv
  <1> QED BY <1>2, <1>3

LEMMA StopsShortInv ==
  ASSUME SettingsInv, StopsShort
  PROVE  SettingsInv'
  BY StopInv DEF StopsShort, historyVars, SettingsInv, SettingsTypeOK

LEMMA FetchInfoInv ==
  ASSUME SettingsInv, FetchInfo
  PROVE  SettingsInv'
  <1>1. PICK h \in Host : shown' = {[to |-> h, answered |-> Whitelisted(h)]}
    BY DEF FetchInfo
  <1>2. /\ at = "idle" /\ live # {}
        /\ UNCHANGED <<stored, live, at, args, conf, refused, given, madeWith, letIn>>
    BY DEF FetchInfo
  <1>3. Whitelisted(h) \in BOOLEAN
    BY DEF Whitelisted
  <1>4. SettingsTypeOK'
    BY <1>1, <1>2, <1>3 DEF SettingsInv, SettingsTypeOK
  <1>5. ControlInv' /\ ScaleInv'
    BY <1>2 DEF SettingsInv, ControlInv, ScaleInv
  <1>6. FoundationInv'
    BY <1>2 DEF SettingsInv, FoundationInv, RepeatIsAccepted
  <1>7. DeployerIsLetIn'
    <2>1. letIn = h => Whitelisted(h)
      BY <1>2, SettingsAreKnown DEF SettingsInv, SourceInv, Whitelisted
    <2> QED BY <1>1, <1>2, <2>1 DEF DeployerIsLetIn
  <1>8. SourceInv'
    BY <1>2, <1>7 DEF SettingsInv, SourceInv
  <1> QED BY <1>4, <1>5, <1>6, <1>8 DEF SettingsInv

LEMMA SettingsStepInv == SettingsInv /\ [SettingsNext]_settingsVars => SettingsInv'
  <1> SUFFICES ASSUME SettingsInv, [SettingsNext]_settingsVars PROVE SettingsInv'
    OBVIOUS
  <1>1. CASE UNCHANGED settingsVars
    BY <1>1 DEF settingsVars, SettingsInv, SettingsTypeOK, ControlInv, ScaleInv,
                FoundationInv, SourceInv, RepeatIsAccepted, DeployerIsLetIn
  <1> QED BY <1>1, GiveInv, FirstLoadInv, LoadAgainInv, TerraformApplyInv, SaveSettingsInv,
             DeployBoshInv, FinalSaveInv, StopsShortInv, FetchInfoInv DEF SettingsNext

-----------------------------------------------------------------------------
\* A setting is what it was given last, whatever runs without its flag did since.
THEOREM ScaleIsKept == SettingsSpec => []SettingsPersist
  <1>1. SettingsInv => SettingsPersist
    BY DEF SettingsInv, ScaleInv, SettingsPersist
  <1> QED BY <1>1, SettingsInitInv, SettingsStepInv, PTL DEF SettingsSpec

\* Zone and ranges of what is built never change, even if the first deploy was cut
\* short right after Terraform built it.
THEOREM FoundationsAreKept == SettingsSpec => FoundationsStay
  <1>1. SettingsInv /\ [SettingsNext]_settingsVars =>
          [\A old \in live, new \in live' :
              old.zone = new.zone /\ old.ranges = new.ranges]_settingsVars
    <2> SUFFICES ASSUME SettingsInv, SettingsNext
                 PROVE  \A old \in live, new \in live' :
                          old.zone = new.zone /\ old.ranges = new.ranges
      OBVIOUS
    <2>1. CASE TerraformApply
      BY <2>1, TerraformApplyInv
    <2>2. CASE ~TerraformApply
      <3>1. live' = live
        BY <2>2 DEF SettingsNext, Give, FirstLoad, LoadAgain, SaveSettings, DeployBosh,
                    FinalSave, StopsShort, FetchInfo
      <3>2. live = {} \/ stored # {}
        BY DEF SettingsInv, ControlInv
      <3> QED BY <3>1, <3>2 DEF SettingsInv, FoundationInv
    <2> QED BY <2>1, <2>2
  <1> QED BY <1>1, SettingsInitInv, SettingsStepInv, PTL DEF SettingsSpec, FoundationsStay

\* The flags a config was made with are never refused, but for address ranges.
THEOREM SameFlagsAccepted == SettingsSpec => []RepeatIsAccepted
  <1>1. SettingsInv => RepeatIsAccepted
    BY DEF SettingsInv, FoundationInv
  <1> QED BY <1>1, SettingsInitInv, SettingsStepInv, PTL DEF SettingsSpec

\* Self-updates keep the director open to who deployed by hand last.
THEOREM DeployerStaysLetIn == SettingsSpec => []DeployerIsLetIn
  <1>1. SettingsInv => DeployerIsLetIn
    BY DEF SettingsInv, SourceInv
  <1> QED BY <1>1, SettingsInitInv, SettingsStepInv, PTL DEF SettingsSpec
=============================================================================
