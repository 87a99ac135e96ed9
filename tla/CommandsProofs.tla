--------------------------- MODULE CommandsProofs ---------------------------
(***************************************************************************)
(* What commands do beside a deployment: for any ranges that nest, the     *)
(* public and private subnets deploy accepts on AWS fit the network; for   *)
(* any domains, hosted zones and order of these, no deploy goes on with a  *)
(* zone another one beats; for any number of commands, a binary in the cache stays; and of the files of a command,   *)
(* nothing confidential is left and the state of the director VM is not    *)
(* lost, however often bosh changes it.  At the end, that the run of TLC   *)
(* that has all these parts in it says of each what its own module does.   *)
(***************************************************************************)
EXTENDS MCCommands, AttemptProofs, ConfigBucketProofs, SettingsProofs,
        SequenceTheorems, TLAPS

-----------------------------------------------------------------------------
\* Address ranges.

\* What a deploy to AWS was accepted with is what validateCidrRanges accepts.
RangesInv ==
  /\ RangesTypeOK
  /\ verdict = "AWS" => AcceptedOnAWS(ranges)

\* Looking at first addresses is enough to tell whether ranges overlap.
LEMMA FirstTells ==
  ASSUME NEW x \in Block, NEW y \in Block, First[x] \notin y, First[y] \notin x
  PROVE  x \intersect y = {}
  BY BlocksNest

\* It is not enough to tell whether one is within the other, unless two that
\* begin in it do not overlap.
LEMMA TwoBeginIn ==
  ASSUME NEW n \in Block, NEW x \in Block, NEW y \in Block,
         First[x] \in n, First[y] \in n, First[x] \notin y, First[y] \notin x
  PROVE  x \subseteq n
  BY BlocksNest

LEMMA AcceptedFits ==
  ASSUME RangesInv, verdict = "AWS", ~NoneGiven(ranges)
  PROVE  PublicAndPrivateFit
  <1> DEFINE n == ranges["network"]
             x == ranges["public"]
             y == ranges["private"]
  <1>1. /\ NetworkIsRange(ranges) /\ SubnetsAreRanges(ranges) /\ ~SubnetsOverlap(ranges)
        /\ \A f \in Flag \ {"network"} : WithinNetwork(ranges, f)
    BY DEF RangesInv, AcceptedOnAWS
  <1>2. n \in Block /\ x \in Block /\ y \in Block
    BY <1>1 DEF NetworkIsRange, SubnetsAreRanges, IsRange
  <1>3. First[x] \in n /\ First[y] \in n
    BY <1>1 DEF WithinNetwork, Flag
  <1>4. First[x] \notin y /\ First[y] \notin x
    BY <1>1 DEF SubnetsOverlap
  <1>5. x \subseteq n /\ y \subseteq n
    BY <1>2, <1>3, <1>4, TwoBeginIn
  <1>6. x \intersect y = {}
    BY <1>2, <1>4, FirstTells
  <1> QED BY <1>5, <1>6 DEF PublicAndPrivateFit

LEMMA RangesInitInv == RangesInit => RangesInv
  BY DEF RangesInit, RangesInv, RangesTypeOK, Value

LEMMA RangesStepInv == RangesInv /\ [RangesNext]_rangesVars => RangesInv'
  <1> SUFFICES ASSUME RangesInv, [RangesNext]_rangesVars PROVE RangesInv'
    OBVIOUS
  <1>1. CASE ValidateOnAWS
    BY <1>1 DEF ValidateOnAWS, RangesInv, RangesTypeOK
  <1>2. CASE ValidateOnGCP
    BY <1>2 DEF ValidateOnGCP, RangesInv, RangesTypeOK
  <1>3. CASE NextCommand
    BY <1>3 DEF NextCommand, RangesInv, RangesTypeOK, Value
  <1>4. CASE UNCHANGED rangesVars
    BY <1>4 DEF rangesVars, RangesInv, RangesTypeOK
  <1> QED BY <1>1, <1>2, <1>3, <1>4 DEF RangesNext

\* The public and the private subnet that deploy accepts on AWS, whatever the flags
\* are given, are in the network and apart; of the other two it is not true.
THEOREM AcceptedPairFits == RangesSpec => []PublicAndPrivateFit
  <1>1. RangesInv => PublicAndPrivateFit
    BY AcceptedFits DEF PublicAndPrivateFit
  <1> QED BY <1>1, RangesInitInv, RangesStepInv, PTL DEF RangesSpec

-----------------------------------------------------------------------------
\* Hosted zones.

\* What the loop over the zones keeps.
ZoneInv ==
  /\ ZoneTypeOK
  /\ search \in {"listing", "found"} =>
       /\ listed \subseteq zones
       /\ longest # <<>> => longest \in zones /\ Matches(longest, domain)
       /\ \A z \in listed : Matches(z, domain) => Len(z) <= Len(longest)
  /\ search = "found" => listed = zones /\ longest # <<>>

\* The lengths of zones can be compared.
LEMMA ZonesAreLong ==
  /\ \A z \in ZoneName \union {<<>>} : z \in Seq(Letter) /\ Len(z) \in Nat
  /\ \A d \in DomainName \union {<<>>} : d \in Seq(Letter)
  <1>1. <<>> \in Seq(Letter)
    BY EmptySeq
  <1> QED BY <1>1, NamesAreOfLetters, LenProperties

LEMMA PrefixTyped ==
  ASSUME NEW d \in Seq(Letter), NEW z \in Seq(Letter)
  PROVE  Prefix(d, z) \in Seq(Letter)
  <1> DEFINE n == Len(d) - Len(z) - 1
  <1>1. Len(d) \in Nat /\ Len(z) \in Nat /\ n \in Int /\ n <= Len(d)
    BY LenProperties
  <1>2. \A i \in 1..n : d[i] \in Letter
    BY <1>1, ElementOfSeq
  <1>3. SubSeq(d, 1, n) \in Seq(Letter)
    BY <1>1, <1>2, SubSeqProperties
  <1> QED BY <1>3 DEF Prefix

LEMMA ZoneInitInv == ZoneInit => ZoneInv
  BY ZonesAreLong DEF ZoneInit, ZoneInv, ZoneTypeOK

LEMMA LookAtInv ==
  ASSUME ZoneInv, NEW z \in ZoneName, LookAt(z)
  PROVE  ZoneInv'
  <1>1. \A y \in ZoneName \union {<<>>} : Len(y) \in Nat
    BY ZonesAreLong
  <1>2. CASE Matches(z, domain) /\ Len(z) > Len(longest)
    <2>1. longest' = z /\ z # <<>> /\ z \in zones
      BY <1>1, <1>2 DEF LookAt, ZoneInv, ZoneTypeOK
    <2>2. \A y \in listed' : Matches(y, domain) => Len(y) <= Len(z)
      BY <1>1, <1>2 DEF LookAt, ZoneInv, ZoneTypeOK
    <2> QED BY <1>2, <2>1, <2>2 DEF LookAt, ZoneInv, ZoneTypeOK
  <1>3. CASE ~(Matches(z, domain) /\ Len(z) > Len(longest))
    <2>1. \A y \in listed' : Matches(y, domain) => Len(y) <= Len(longest)
      BY <1>1, <1>3 DEF LookAt, ZoneInv, ZoneTypeOK
    <2> QED BY <1>3, <2>1 DEF LookAt, ZoneInv, ZoneTypeOK
  <1> QED BY <1>2, <1>3

LEMMA ZoneStepInv == ZoneInv /\ [ZoneNext]_zoneVars => ZoneInv'
  <1> SUFFICES ASSUME ZoneInv, [ZoneNext]_zoneVars PROVE ZoneInv'
    OBVIOUS
  <1>1. CASE ZonesChange
    BY <1>1 DEF ZonesChange, ZoneInv, ZoneTypeOK
  <1>2. CASE ListZones
    BY <1>2 DEF ListZones, ZoneInv, ZoneTypeOK
  <1>3. CASE ListingFails \/ NoMatchingZone \/ SearchEnds
    BY <1>3 DEF ListingFails, NoMatchingZone, SearchEnds, ZoneInv, ZoneTypeOK
  <1>4. CASE SetHostedZone
    <2>1. prefix' \in Seq(Letter)
      BY <1>4, ZonesAreLong, PrefixTyped DEF SetHostedZone, ZoneInv, ZoneTypeOK
    <2> QED BY <1>4, <2>1 DEF SetHostedZone, ZoneInv, ZoneTypeOK
  <1>5. CASE UNCHANGED zoneVars
    BY <1>5 DEF zoneVars, ZoneInv, ZoneTypeOK
  <1> QED BY <1>1, <1>2, <1>3, <1>4, <1>5, LookAtInv DEF ZoneNext

\* A deploy goes on only with the longest zone of the account that its domain ends
\* with, for any domains and zones, in whatever order these are listed and wherever
\* a listing breaks off.
THEOREM DeploysTakeTheLongestZone == ZoneSpec => []LongestZoneIsTaken
  <1>1. ZoneInv => LongestZoneIsTaken
    BY DEF ZoneInv, LongestZoneIsTaken
  <1> QED BY <1>1, ZoneInitInv, ZoneStepInv, PTL DEF ZoneSpec

-----------------------------------------------------------------------------
\* The cache of the binaries.

\* Only one command writes, and while it does there is no whole file.
OneWrites ==
  /\ \A c \in Command : Writing(c) => file = "part"
  /\ \A c, d \in Command : Writing(c) /\ Writing(d) => c = d

CacheInv == CacheTypeOK /\ OneWrites

LEMMA CacheInitInv == CacheInit => CacheInv
  BY DEF CacheInit, CacheInv, CacheTypeOK, OneWrites, Writing

LEMMA CacheStepInv == CacheInv /\ [CacheNext]_cacheVars => CacheInv'
  <1> SUFFICES ASSUME CacheInv, [CacheNext]_cacheVars PROVE CacheInv'
    OBVIOUS
  <1> USE DEF CacheInv, CacheTypeOK, OneWrites, Writing, To
  <1>1. ASSUME NEW c \in Command, Stat(c) PROVE CacheInv'
    BY <1>1 DEF Stat
  <1>2. ASSUME NEW c \in Command, Open(c) PROVE CacheInv'
    BY <1>2 DEF Open
  <1>3. ASSUME NEW c \in Command, Get(c) \/ GetFails(c) PROVE CacheInv'
    BY <1>3 DEF Get, GetFails
  <1>4. ASSUME NEW c \in Command, Copy(c) \/ CopyFails(c) \/ BadArchive(c) PROVE CacheInv'
    BY <1>4 DEF Copy, CopyFails, BadArchive
  <1>5. ASSUME NEW c \in Command, RunBinary(c) \/ Kill(c) PROVE CacheInv'
    BY <1>5 DEF RunBinary, Kill
  <1>6. CASE UNCHANGED cacheVars
    BY <1>6 DEF cacheVars
  <1> QED BY <1>1, <1>2, <1>3, <1>4, <1>5, <1>6 DEF CacheNext

\* No command replaces or removes a binary that was downloaded.
THEOREM BinaryStays == CacheSpec => WholeStays
  <1>1. CacheInv /\ [CacheNext]_cacheVars =>
          [file = "whole" => file' = "whole"]_cacheVars
    <2> SUFFICES ASSUME CacheInv, CacheNext, file = "whole" PROVE file' = "whole"
      OBVIOUS
    <2>1. \A c \in Command : ~Writing(c)
      BY DEF CacheInv, OneWrites
    <2> QED BY <2>1 DEF CacheNext, Writing, Stat, Open, Get, GetFails, BadArchive, Copy,
                        CopyFails, RunBinary, Kill
  <1> QED BY <1>1, CacheInitInv, CacheStepInv, PTL DEF CacheSpec, WholeStays

-----------------------------------------------------------------------------
\* The files of a command.

\* When each confidential file may be there, if no command was killed.
FilesInv ==
  ~killed => \A f \in files :
    /\ f = "tf" => doing \in {"init", "terraform"}
    /\ f \in EnvFile => doing \in {"vars", "manifest", "create-env", "return"}
    /\ f = "creds" => doing \in {"login", "deploy", "clean up"}
    /\ f = "pipeline" => doing \in {"set", "fly clean up"}

\* The caller has the state of the director VM, unless create-env has just run,
\* when the state file has it.
DirectorInv ==
  ~killed =>
    /\ doing \in {"vars", "manifest", "create-env", "return"} => held = director
    /\ doing # "return" => store = director

LocalInv == FilesTypeOK /\ FilesInv /\ DirectorInv

LEMMA LocalInitInv == FilesInit => LocalInv
  <1>1. 0 \in 0..MaxChange
    BY ChangesAreCounted
  <1>2. FilesInit => FilesTypeOK
    BY <1>1 DEF FilesInit, FilesTypeOK
  <1> QED BY <1>2 DEF FilesInit, LocalInv, FilesInv, DirectorInv

LEMMA TerraformStep ==
  ASSUME LocalInv, WriteConfig \/ InitSucceeds \/ InitFails \/ RunTerraform
  PROVE  LocalInv'
  BY DEF WriteConfig, InitSucceeds, InitFails, RunTerraform, LocalInv, FilesTypeOK, FilesInv,
         DirectorInv, Confidential, File, EnvFile, WorkFile, FlyFile, Goes, Writes,
         Removes, boshVars

LEMMA CreateEnvStep ==
  ASSUME LocalInv,
         WriteState \/ WriteVars \/ WriteManifest \/ WriteFails \/ RunCreateEnv \/ Return
  PROVE  LocalInv'
  <1> USE DEF LocalInv, FilesTypeOK, FilesInv, DirectorInv, Confidential, File,
              EnvFile, WorkFile, FlyFile, Goes, Writes, Removes, boshVars
  <1>1. CASE WriteState \/ WriteVars \/ WriteManifest \/ WriteFails
    BY <1>1 DEF WriteState, WriteVars, WriteManifest, WriteFails
  <1>2. CASE RunCreateEnv
    BY <1>2, ChangesAreCounted DEF RunCreateEnv
  <1>3. CASE Return
    BY <1>3 DEF Return
  <1> QED BY <1>1, <1>2, <1>3

LEMMA DeployStep ==
  ASSUME LocalInv,
         MakeWorkingDir \/ SaveFiles \/ WriteCA \/ RunDeploy \/ DeployEndsEarly \/ Cleanup
  PROVE  LocalInv'
  BY DEF MakeWorkingDir, SaveFiles, WriteCA, RunDeploy, DeployEndsEarly, Cleanup, LocalInv,
         FilesTypeOK, FilesInv, DirectorInv, Confidential, File, EnvFile, WorkFile,
         FlyFile, Goes, Writes, Removes, boshVars

LEMMA PipelineFilesStep ==
  ASSUME LocalInv,
         DownloadFly \/ WritePipeline \/ RemovePipeline \/ FlyReturns \/ FlyCleanup
  PROVE  LocalInv'
  BY DEF DownloadFly, WritePipeline, RemovePipeline, FlyReturns, FlyCleanup, LocalInv,
         FilesTypeOK, FilesInv, DirectorInv, Confidential, File, EnvFile, WorkFile,
         FlyFile, Goes, Writes, Removes, boshVars

LEMMA LocalStepInv == LocalInv /\ [FilesNext]_filesVars => LocalInv'
  <1> SUFFICES ASSUME LocalInv, [FilesNext]_filesVars PROVE LocalInv'
    OBVIOUS
  <1>1. CASE KillCommand
    BY <1>1 DEF KillCommand, LocalInv, FilesTypeOK, FilesInv, DirectorInv, boshVars
  <1>2. CASE UNCHANGED filesVars
    BY <1>2 DEF filesVars, LocalInv, FilesTypeOK, FilesInv, DirectorInv
  <1> QED BY <1>1, <1>2, TerraformStep, CreateEnvStep, DeployStep, PipelineFilesStep DEF FilesNext

\* Commands that come to an end leave nothing confidential on the disk.
THEOREM NoSecretsStay == FilesSpec => []NothingIsLeft
  <1>1. LocalInv => NothingIsLeft
    BY DEF LocalInv, FilesInv, NothingIsLeft, FilesTypeOK, Confidential, File, EnvFile, WorkFile,
           FlyFile
  <1> QED BY <1>1, LocalInitInv, LocalStepInv, PTL DEF FilesSpec

\* The caller of create-env has the state of the director VM there is.
THEOREM StateIsReturned == FilesSpec => []CallerKnowsDirector
  <1>1. LocalInv => CallerKnowsDirector
    BY DEF LocalInv, DirectorInv, CallerKnowsDirector
  <1> QED BY <1>1, LocalInitInv, LocalStepInv, PTL DEF FilesSpec

-----------------------------------------------------------------------------
\* All the parts together.

LEMMA PartsBegin ==
  ASSUME CommandsInit
  PROVE  /\ CacheInit /\ DatabasesInit /\ FlyInit /\ BucketInit /\ SettingsInit
         /\ RangesInit /\ ZoneInit /\ FilesInit
  BY DEF CommandsInit

\* A step is one of the part that was chosen, and leaves the others alone.
LEMMA PartsMove ==
  ASSUME [CommandsNext]_commandsVars
  PROVE  /\ [CacheNext]_cacheVars /\ [DatabasesNext]_dbVars /\ [FlyNext]_flyVars
         /\ [BucketNext]_bucketVars /\ [SettingsNext]_settingsVars
         /\ [RangesNext]_rangesVars /\ [ZoneNext]_zoneVars /\ [FilesNext]_filesVars
  <1>1. CASE CacheStep
    BY <1>1 DEF CacheStep
  <1>2. CASE DatabasesStep
    BY <1>2 DEF DatabasesStep
  <1>3. CASE PipelineStep
    BY <1>3 DEF PipelineStep
  <1>4. CASE BucketStep
    BY <1>4 DEF BucketStep
  <1>5. CASE SettingsStep
    BY <1>5 DEF SettingsStep
  <1>6. CASE RangesStep
    BY <1>6 DEF RangesStep
  <1>7. CASE ZoneStep
    BY <1>7 DEF ZoneStep
  <1>8. CASE FilesStep
    BY <1>8 DEF FilesStep
  <1>9. CASE UNCHANGED commandsVars
    BY <1>9 DEF commandsVars
  <1> QED BY <1>1, <1>2, <1>3, <1>4, <1>5, <1>6, <1>7, <1>8, <1>9 DEF CommandsNext

\* A behaviour of the composition is one of every part: what is proved of the
\* behaviours of a part holds of those that TLC goes through.
THEOREM PartsAreThemselves ==
  CommandsSpec => /\ CacheSpec /\ DatabasesSpec /\ FlySpec /\ BucketSpec /\ SettingsSpec
                  /\ RangesSpec /\ ZoneSpec /\ FilesSpec
  BY PartsBegin, PartsMove, PTL
  DEF CommandsSpec, CacheSpec, DatabasesSpec, FlySpec, BucketSpec, SettingsSpec, RangesSpec,
      ZoneSpec, FilesSpec

\* The types of all the parts hold, for any instances of them.
THEOREM CommandsTyped == CommandsSpec => []CommandsTypeOK
  <1> DEFINE Inv == /\ CacheInv /\ DatabasesInv /\ FlyInv /\ BucketIInv /\ SettingsInv
                    /\ RangesInv /\ ZoneInv /\ LocalInv
  <1>1. CommandsInit => Inv
    BY PartsBegin, CacheInitInv, DatabasesInitInv, FlyInitInv, BucketInitInv, SettingsInitInv,
       RangesInitInv, ZoneInitInv, LocalInitInv
  <1>2. Inv /\ [CommandsNext]_commandsVars => Inv'
    BY PartsMove, CacheStepInv, DatabasesStepInv, FlyStepInv, BucketStepInv, SettingsStepInv,
       RangesStepInv, ZoneStepInv, LocalStepInv
  <1>3. Inv => CommandsTypeOK
    BY DEF CommandsTypeOK, CacheInv, DatabasesInv, FlyInv, BucketIInv, SettingsInv, RangesInv,
           ZoneInv, LocalInv
  <1> QED BY <1>1, <1>2, <1>3, PTL DEF CommandsSpec
=============================================================================
