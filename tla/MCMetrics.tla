----------------------------- MODULE MCMetrics ------------------------------
(* MetricsPipeline on small instances.                                     *)
EXTENDS MetricsPipeline, TLC

\* The workers that are not late are interchangeable; only the runs without
\* a temporal property use it.
Symmetry == Permutations(Workers \ Late)
=============================================================================
