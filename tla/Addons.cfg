SPECIFICATION FairSpec
CONSTANTS
  u1 = u1
  u2 = u2
  u3 = u3
  a = a
  b = b
  name = name
  Urls = {u1, u2, u3}
  IdOf <- MCIdOf
  NameOf <- MCNameOf
  Seeds <- MCSeeds
  MaxOps = 3
  MaxFaults = 2
  NoManifest = NoManifest
INVARIANTS InOrder ManifestOfUrl
PROPERTIES MissingArrives
CHECK_DEADLOCK FALSE
