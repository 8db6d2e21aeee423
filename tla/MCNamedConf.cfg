CONSTANTS
  Configs = {"one", "two", "bad"}
  Content <- AContent
  Rank <- ARank
  home = home  other = other
  Zones = {home, other}
  Nets <- ANets
  Octets = {0, 1}
  Home = home
  Servers = {ns1, ns2}
  Primary = ns1
  PerDay = 2
  MaxDay = 3
  MaxGens = 2
  NoZone = nozone
SPECIFICATION Spec
INVARIANTS ListedHaveFiles PtrsMatch EntryIsOneAddress
PROPERTIES SerialsGrow
