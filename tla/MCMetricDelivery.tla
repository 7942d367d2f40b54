-------------------------- MODULE MCMetricDelivery --------------------------
(* Instances of MetricDelivery for TLC. *)
EXTENDS MetricDelivery, TLC

CONSTANTS a1, a2, a3, a4, a5, h1, h2

Interchangeable == Permutations(Samples) \cup Permutations(Handlers)
=============================================================================
