----------------------------- MODULE MCCommands -----------------------------
(***************************************************************************)
(* The parts of a command that share no state with each other, in one run  *)
(* of TLC: a behaviour is one of one part, which is chosen at the start.   *)
(***************************************************************************)
EXTENDS BinCache, Databases, FlyPipeline, ConfigBucket, Settings, AddressRanges,
        HostedZone, LocalFiles

CONSTANTS r1, r2, n1, n2, none, a, b, dot

\* Two regions without a namespace, one namespace in both of them, one in one of
\* them, and one that has the name of a region.
SomeFlags == {<<r1, none>>, <<r2, none>>, <<r1, n1>>, <<r2, n1>>, <<r2, n2>>, <<r1, r2>>}

SomeDbNames == <<"concourse_atc", "uaa", "credhub">>

SomeBlocks == {0..63, 0..31, 32..63, 0..15, 0..7}
SomeFirst == [x \in SomeBlocks |-> CHOOSE n \in x : \A m \in x : n <= m]

\* Zones within each other, one that ends inside a label, and one of its own.
SomeDomains == {<<a, dot, b>>, <<b, dot, a, dot, b>>, <<b, a, dot, b>>}
SomeZones == {<<b>>, <<a, dot, b>>, <<b, a, dot, b>>, <<a>>}

VARIABLE part

Part == {"cache", "databases", "fly", "bucket", "settings", "ranges", "zone", "files"}

CommandsInit ==
  /\ part \in Part
  /\ CacheInit /\ DatabasesInit /\ FlyInit /\ BucketInit /\ SettingsInit /\ RangesInit
  /\ ZoneInit /\ FilesInit
  /\ part # "settings" => stored = {}

CacheStep ==
  /\ part = "cache" /\ CacheNext
  /\ UNCHANGED <<part, dbVars, flyVars, bucketVars, settingsVars,
                 rangesVars, zoneVars, filesVars>>

DatabasesStep ==
  /\ part = "databases" /\ DatabasesNext
  /\ UNCHANGED <<part, cacheVars, flyVars, bucketVars, settingsVars,
                 rangesVars, zoneVars, filesVars>>

PipelineStep ==
  /\ part = "fly" /\ FlyNext
  /\ UNCHANGED <<part, cacheVars, dbVars, bucketVars, settingsVars,
                 rangesVars, zoneVars, filesVars>>

BucketStep ==
  /\ part = "bucket" /\ BucketNext
  /\ UNCHANGED <<part, cacheVars, dbVars, flyVars, settingsVars,
                 rangesVars, zoneVars, filesVars>>

SettingsStep ==
  /\ part = "settings" /\ SettingsNext
  /\ UNCHANGED <<part, cacheVars, dbVars, flyVars, bucketVars,
                 rangesVars, zoneVars, filesVars>>

RangesStep ==
  /\ part = "ranges" /\ RangesNext
  /\ UNCHANGED <<part, cacheVars, dbVars, flyVars, bucketVars,
                 settingsVars, zoneVars, filesVars>>

ZoneStep ==
  /\ part = "zone" /\ ZoneNext
  /\ UNCHANGED <<part, cacheVars, dbVars, flyVars, bucketVars,
                 settingsVars, rangesVars, filesVars>>

FilesStep ==
  /\ part = "files" /\ FilesNext
  /\ UNCHANGED <<part, cacheVars, dbVars, flyVars, bucketVars,
                 settingsVars, rangesVars, zoneVars>>

CommandsNext ==
  \/ CacheStep \/ DatabasesStep \/ PipelineStep \/ BucketStep \/ SettingsStep \/ RangesStep
  \/ ZoneStep \/ FilesStep

commandsVars ==
  <<part, cacheVars, dbVars, flyVars, bucketVars, settingsVars, rangesVars,
    zoneVars, filesVars>>

\* The fairness of the part that is chosen.
CommandsFairness ==
  \/ part = "cache" /\ CacheFairness
  \/ part = "databases" /\ DatabasesFairness
  \/ part = "fly" /\ FlyFairness
  \/ part \notin {"cache", "databases", "fly"}

CommandsSpec == CommandsInit /\ [][CommandsNext]_commandsVars /\ CommandsFairness
-----------------------------------------------------------------------------
\* The types of all the parts: each may be in any state its module allows.
CommandsTypeOK ==
  /\ CacheTypeOK /\ DatabasesTypeOK /\ FlyTypeOK /\ BucketTypeOK /\ SettingsTypeOK
  /\ RangesTypeOK /\ ZoneTypeOK /\ FilesTypeOK

\* BinaryIsRun, of behaviours of the cache.
CommandsRunBinary == part = "cache" => BinaryIsRun
=============================================================================
