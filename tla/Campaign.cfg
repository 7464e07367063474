SPECIFICATION Spec
CONSTANTS
  seedA = seedA
  seedB = seedB
  w1 = w1
  i1 = i1
  i2 = i2
  None = None
  Seeds <- MCSeeds
  Keys <- MCKeys
  Score <- MCScore
  Preferred <- MCPreferred
  Watchers <- MCWatchers
  Images <- MCImages
  MaxUpsets = 1
SYMMETRY MCSymmetry
INVARIANTS
  TypeOK
  OneActiveAttempt
  VerifiedIsProven
  ExtensionHasProvenParent
PROPERTIES
  JobsAreKept
