CONSTANTS
  s1 = s1
  s2 = s2
  s3 = s3
  s4 = s4
  s5 = s5
  Server <- MCServer
  Replicas <- MCReplicas
  Hashes <- MCHashes
  MaxCall = 2
SPECIFICATION Spec
INVARIANTS
  TreeIsSound
  LookupsAgree
PROPERTIES
  ImplementsHashRing
