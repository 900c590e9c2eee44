CONSTANTS
  PerPiece <- MCPerPiece
  Cards <- MCCards
SPECIFICATION Spec
INVARIANTS CardsAddUp 
CHECK_DEADLOCK FALSE
PROPERTIES GameEnds
