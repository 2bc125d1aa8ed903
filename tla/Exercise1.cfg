SPECIFICATION Spec
CONSTANTS
  encode1 = encode1
  encode2 = encode2
  decode1 = decode1
  decode2 = decode2
  zip1 = zip1
  zip2 = zip2
  unzip1 = unzip1
  NoFile = NoFile
  Coders <- MCCoders
  Zippers <- MCZippers
  Program <- MCProgram
  Key <- MCKey
  Originals <- MCOriginals
  Missing <- MCMissing
  Garbage <- MCGarbage
  AtOnce = 2
  Together <- MCTogether
SYMMETRY MCSymmetry
INVARIANT TypeOK
INVARIANT TextRecoverable
INVARIANT ZippedAlone
INVARIANT UnzippedAlone
INVARIANT NoLeftovers
CHECK_DEADLOCK FALSE
