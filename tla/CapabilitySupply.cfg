SPECIFICATION Spec
CONSTANTS
  p1 = p1
  p2 = p2
  p3 = p3
  v1 = v1
  v2 = v2
  g1 = g1
  g2 = g2
  g3 = g3
  form = form
  host = host
  chromium = chromium
  NoFile = NoFile
  NoRow = NoRow
  NoTask = NoTask
  Other = Other
  Publishers = {p1, p2, p3}
  Versions = {v1, v2}
  VersionOf <- MCVersionOf
  Registrations = {g1, g2, g3}
  ResourceVersions = {v1, v2}
  Resources = {form}
  ResourceOf <- MCResourceOf
  Registers <- MCRegisters
  StatusOf <- MCStatusOf
  CriteriaOf <- MCCriteriaOf
  Contents <- MCContents
  Declared <- MCDeclared
  ArtifactOf <- MCArtifactOf
  Tasks <- MCTasks
  HostOf <- MCHostOf
  Runtime = chromium
  MayRestart = {"server", "desktop"}
  MaxFaults = 1
INVARIANT TypeOK
INVARIANT PublishedStays
INVARIANT NothingHalfPublished
INVARIANT ActiveIsRunnable
INVARIANT ChosenCanBeRun
INVARIANT RunsWithinTheTask
PROPERTY RowsAreImmutable
PROPERTY StoreIsWriteOnce
CHECK_DEADLOCK FALSE
