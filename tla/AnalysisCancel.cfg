SPECIFICATION Spec
CONSTANTS
  Analyses = {a1}
  Callers = {c1, c2}
  Options <- EveryOption
  NoAnalysis = NoAnalysis
  MaxGeneration = 1
INVARIANTS TypeOK AnalysesAreKept CompletionIsTrue
PROPERTIES CancelIsFinal ImplementsContract AnalysesEnd
CHECK_DEADLOCK FALSE
