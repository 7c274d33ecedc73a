------------------------ MODULE MCAnalysisLifecycle ------------------------
(* Instances of AnalysisLifecycle for TLC.                                 *)
EXTENDS AnalysisLifecycle, TLC

\* Every combination of the two options that steer the pipeline, and the
\* default ones (defaultOptions).
EveryOption == [ml : BOOLEAN, security : BOOLEAN]
DefaultOption == {[ml |-> TRUE, security |-> TRUE]}

AnalysisSymmetry == Permutations(Analyses)
=============================================================================
