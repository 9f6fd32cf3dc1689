----------------------------- MODULE MCEventDecoder -----------------------------
(* Two texts and one tool, bodies of up to six lines, and line  sizes on     *)
(* both sides of the event limit and of the response limit.                  *)
EXTENDS EventDecoder

CONSTANTS hello, world, call, tokens

MCTexts == {hello, world}
MCSizes == {0, MaxEventBytes, MaxEventBytes + 1}
================================================================================
