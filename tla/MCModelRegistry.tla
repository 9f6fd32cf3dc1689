---------------------------- MODULE MCModelRegistry ----------------------------
(* One URL and one file, and two threads that refresh.                       *)
EXTENDS ModelRegistry, TLC

CONSTANTS url, file, r1, r2

MCUrls       == {url}
MCFiles      == {file}
MCRefreshers == {r1, r2}
Symmetry     == Permutations(MCRefreshers)
================================================================================
