CONSTANTS
  hub = hub
  ghcr = ghcr
  quay = quay
  gcr = gcr
  corp = corp
  bare = bare
  spaces = spaces
  path = path
  upperHub = upperHub
  none = none
  bad = bad
  DockerHub = hub
  GHCR = ghcr
  Quay = quay
  GCR = gcr
  OtherHosts = {corp, bare}
  Bare = {bare}
  Written = {hub, ghcr, quay, gcr, corp, bare, spaces, path, upperHub}
  HostOf <- SpellHost
  Blank = none
  Malformed = bad
  Configs <- SomeConfigs
  Repos = {"a", "b"}
  MaxPerRegistry = 1
  HubAnswers <- UpToThree
SPECIFICATION SearchSpec
INVARIANTS
  NothingLost
  OffersOnlyBuildable
PROPERTY
  SearchReturns
CHECK_DEADLOCK FALSE
