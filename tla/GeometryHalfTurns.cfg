CONSTANTS
  Frames <- MCFrames
  Place <- MCPlace
  Surveyed <- MCSurveyed
  Factors = {1, 3}
SPECIFICATION Spec
INVARIANTS EveryPairComposes
CHECK_DEADLOCK FALSE
