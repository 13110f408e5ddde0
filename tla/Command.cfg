SPECIFICATION Spec
CONSTANTS
  Exprs <- MCExprs
  NoExpr = ""
  Values <- MCValues
  GoType <- MCGoType
  True = "true"
  Null = "null"
  ObjectValue = "object"
  ZeroValue <- MCZeroValue
  Variables <- MCVariables
  ZeroVariables = "zero"
  EvalError = "error"
  Result <- MCResult
  Environment <- MCEnvironment
  NotText = "{}"
  Duration <- MCDuration
  Millisecond = 10
  HTTP = {"http://localhost:4317", "https://example.com", "http://127.0.0.1:4317"}
  DefaultHistogramBoundaries <- MCBoundaries
  Starts <- MCStarts
  URLs <- MCURLs
  NoURL = ""
  S3Part <- MCS3Part
  CollectorURL = "http://127.0.0.1:4317"
INVARIANTS
  TypeOK
  AcceptedIsUsable
  EvaluatesAsWritten
  RenderedMeansSame
  EveryNotificationOnce
