SPECIFICATION FairSpec
CONSTANTS
  k1 = k1
  k2 = k2
  k3 = k3
  v1 = v1
  v2 = v2
  Keys <- MCKeys
  Values <- MCValues
  Hash <- MCHash
  NoKey = NoKey
  NoValue = NoValue
  InitialCapacity = 4
  MaxCapacity = 16
INVARIANTS
  TypeOK
  ProbeReachesKey
  KeysAreUnique
  CountersExact
  ProbeTerminates
PROPERTIES
  ResizeEnds
  ImplementsDict
