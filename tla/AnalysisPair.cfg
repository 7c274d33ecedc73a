SPECIFICATION Spec
CONSTANTS
  Analyses = {a1, a2}
  Callers = {c1}
  Options <- DefaultOption
  NoAnalysis = NoAnalysis
  MaxGeneration = 1
INVARIANTS
  WorkspaceBindingIsCurrent
SYMMETRY AnalysisSymmetry
CHECK_DEADLOCK FALSE
