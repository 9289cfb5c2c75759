\* Two shards; every model of one to six parameters of numel 1..3 (this
\* includes <<3, 3, 2, 2, 2>>, on which the LPT bound is tight).
CONSTANTS
  NumShards = 2
  MaxParams = 6
  MaxNumel = 3
SPECIFICATION Spec
INVARIANTS TypeOK SlotsAgree Balanced LPTBound
