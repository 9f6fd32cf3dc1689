----------------------------- MODULE MCSessionStore -----------------------------
(* The session store on three keys that compete for two places.              *)
EXTENDS SessionStore, TLC

CONSTANTS k1, k2, k3, t1, t2, t3

MCKeys  == {k1, k2, k3}
MCTurns == {t1, t2, t3}
Symmetry == Permutations(MCKeys) \cup Permutations(MCTurns)
================================================================================
