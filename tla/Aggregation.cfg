SPECIFICATION Spec
CONSTANTS
  la = la
  lb = lb
  lc = lc
  ld = ld
  le = le
  lf = lf
  lg = lg
  key1 = key1
  key2 = key2
  red = red
  blue = blue
  Nil = Nil
  EvalError = EvalError
  Lines <- MCLines
  Timestamp <- MCTimestamp
  Keys <- MCKeys
  AttrValues <- MCAttrValues
  ResourceAttributes <- MCResourceAttributes
  Metrics <- MCMetrics
  LogInputs <- MCLogInputs
INVARIANTS
  TypeOK
  KeysUnique
  NothingLost
  CountsExact
  ValuesExact
  FailsOnlyForCause
  ResponseComplete
  LinesInWindow
PROPERTIES
  PointsKept
