SPECIFICATION Spec
CONSTANTS
  w1 = w1
  w2 = w2
  Workers <- MCWorkers
  DefaultTTL = 2
  TTLs <- MCTTLs
  MaxVersion = 3
  Nulls <- MCNulls
INVARIANT
  TypeOK
PROPERTIES
  AnswersInvalidated
  SettlesFresh
