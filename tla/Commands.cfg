SPECIFICATION CommandsSpec
CONSTANTS
  Command = {c1, c2, c3}
  DbNames <- SomeDbNames
  Attempts = 3
  Params = {p1, p2}
  r1 = r1
  r2 = r2
  n1 = n1
  n2 = n2
  none = none
  Region = {r1, r2}
  Namespace = {n1, n2, r2}
  NoNamespace = none
  Flags <- SomeFlags
  Scale = {one, two}
  DefaultScale = one
  Zone = {za, zb}
  Ranges = {own}
  Host = {h1, h2}
  NotGiven = notGiven
  Block <- SomeBlocks
  First <- SomeFirst
  NoFlag = noFlag
  NoRange = noRange
  a = a
  b = b
  dot = dot
  Dot = dot
  Letter = {a, b, dot}
  DomainName <- SomeDomains
  ZoneName <- SomeZones
  MaxChange = 2
INVARIANTS
  CommandsTypeOK
  RunsWhenAsked
  SameFlagsSameBucket
  JobFindsConfig
  SettingsPersist
  RepeatIsAccepted
  DeployerIsLetIn
  PublicAndPrivateFit
  LongestZoneIsTaken
  NothingIsLeft
  CallerKnowsDirector
PROPERTIES
  WholeStays
  CommandsRunBinary
  ImplementsAttempt
  DatabasesCreated
  PipelineIsSet
  RunEnds
  FoundationsStay
