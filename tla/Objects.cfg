SPECIFICATION MCSpec
CONSTANTS
  Frames <- MCFrames
  Place <- MCPlace
  Surveyed <- MCSurveyed
  Factors = {1, 3}
  Regions = {r1, r2, r3}
  Files = {f1, f2}
  Descriptors = {3, 4}
  Counts = {0, 1}
  HalfFile = 3
  Tokens = {t1, t2, t3}
  Effects = {e1, e2, e3}
INVARIANTS PoseMatchesFrames ViewsReadTheTruth MrpAgrees HandlesOwnedOnce ExitsOnce
CHECK_DEADLOCK FALSE
