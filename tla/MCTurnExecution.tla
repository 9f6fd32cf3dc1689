---------------------------- MODULE MCTurnExecution ----------------------------
(* Two turns, two keys and one place in the store.  Without symmetry: the    *)
(* run checks a liveness property as well.                                   *)
EXTENDS TurnExecution

CONSTANTS k1, k2, t1, t2

MCKeys  == {k1, k2}
MCTurns == {t1, t2}
================================================================================
