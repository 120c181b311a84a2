------------------------------ MODULE MCAppCtx ------------------------------
(* Small instances of AppCtx for TLC. *)
EXTENDS AppCtxStack, TLC

CONSTANTS w1, w2, c1, c2, c3, r1, r2

TwoWorkers == {w1, w2}
TwoCtxs    == {c1, c2}
ThreeCtxs  == {c1, c2, c3}
MCReqs     == {r1, r2}

\* Workers, contexts and requests are interchangeable.
Symmetry == Permutations(TwoWorkers) \cup Permutations(ThreeCtxs) \cup Permutations(MCReqs)
Symmetry2 == Permutations(TwoWorkers) \cup Permutations(TwoCtxs) \cup Permutations(MCReqs)
=============================================================================
