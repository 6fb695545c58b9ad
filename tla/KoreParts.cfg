SPECIFICATION KoreSpec
CONSTANTS
  c1 = c1
  c2 = c2
INVARIANTS
  KoreTypeOK JanusOK  MessagingOK ParsersOK BitrateOK DatabaseOK
PROPERTY
  StepsOK
SYMMETRY Symmetry
CHECK_DEADLOCK FALSE
