------------------------------ MODULE TurnRequest ------------------------------
(***************************************************************************)
(* The two readings of one request in prepareTurn of executor.go: first    *)
(* explicitSessionKey decides to which conversation it belongs, then       *)
(* buildEnvelopeForSession translates it.  A request without a key is      *)
(* translated all the same, for a conversation of its own.                 *)
(***************************************************************************)
EXTENDS SessionIdentity, RequestTranslation

CONSTANT Turns \* pairs of a request's evidence and its chat payload

ASSUME TurnsAssumption == Turns \subseteq Requests \X Chats

requestVars == <<identityVars, translationVars>>

Init == /\ \E t \in Turns : request = t[1] /\ chat = t[2]
        /\ IdentityStart /\ TranslationStart

Identify == IdentityNext /\ UNCHANGED translationVars

Translate == at = "done" /\ TranslationNext /\ UNCHANGED identityVars

Prepared == stage \in {"sent", "failed"} /\ UNCHANGED requestVars

Next == Identify \/ Translate \/ Prepared

Spec == Init /\ [][Next]_requestVars
================================================================================
