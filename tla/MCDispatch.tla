----------------------------- MODULE MCDispatch -----------------------------
(* Instances of MessageDispatch for TLC. *)
EXTENDS MessageDispatch, TLC

CONSTANTS a, b, c, w1, w2, x

\* Worker w1 takes one message per turn (weight -1), w2 the whole queue (0).
MixedWeights == [t \in Worker |-> IF t = w1 THEN 0 ELSE 1]

\* The services of dispatch_kill are interchangeable: all are there at boot and
\* none is special.
Sym == Permutations(Service)
=============================================================================
