CONSTANTS
  worker = worker
  other = other
  here = here
  there = there
  odd = odd
  gone = gone
  imu = imu
  pose = pose
  header = header
  Nobody = Nobody
  Callers <- MCCallers
  Sources <- MCSources
  FileName <- MCFileName
  Kind <- MCKind
  Named <- MCNamed
  Requested <- MCRequested
  Offers <- MCOffers
  ChannelOf <- MCChannelOf
  Closure <- MCClosure
SYMMETRY SymmetricCallers
SPECIFICATION Spec
INVARIANTS ResourcesIntact ManifestTrue 
PROPERTIES AcquireAgrees
CHECK_DEADLOCK FALSE
