CONSTANTS
  Names <- AllNames
  Files <- Paths
  Items <- GivenItems
  Lines <- Line
  Hosts <- SiteHosts
  Defs <- ADefs
SPECIFICATION Spec
INVARIANTS HostBuilds RestartSeesAll ParentsFirst ScriptsShaped ConfigWatched
