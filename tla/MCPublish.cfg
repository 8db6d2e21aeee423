CONSTANTS
  Hosts = {h1, h2}
  MaxBuilds = 3
SPECIFICATION FairSpec
INVARIANTS TreeKept
PROPERTIES WholeTree PublishesWholeTrees EventuallyServed
CHECK_DEADLOCK FALSE
