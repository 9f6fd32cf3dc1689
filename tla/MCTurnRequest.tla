----------------------------- MODULE MCTurnRequest -----------------------------
(* The instance of TurnRequest that TLC checks.                             *)
EXTENDS TurnRequest, TLC

CONSTANTS v1, v2, listed, bad,     \* values of evidence
          xid, XID, tid, misc,     \* headers
          sessionId, threadId,     \* what they spell
          piece, fun1, fun2,       \* a piece of text, two functions
          callId, limit            \* a call's id, constraints

MCFold == [h \in Spellings |-> CASE h \in {xid, XID} -> sessionId [] h = tid -> threadId [] OTHER -> Other]

(* Any headers; any body after few headers; a few failing callers.          *)
Plain == [caller |-> v1, auth |-> v1, headers |-> [h \in Spellings |-> Absent],
          execution |-> Absent, original |-> Absent, payload |-> Absent]
WithHeaders == {[Plain EXCEPT !.headers = h, !.execution = e] :
                  h \in [Spellings -> {v1, v2, listed, Several, Absent}], e \in {v1, Absent}}
WithBodies  == {[Plain EXCEPT !.headers[xid] = h, !.execution = e, !.original = o, !.payload = q] :
                  h \in {v1, Absent}, e \in {v1, bad, Absent},
                  o \in {Absent, Broken} \cup [Fields -> {v1, v2, bad, Absent, Broken}],
                  q \in {Absent, Broken, [i \in Fields |-> v1]}}
WithCallers == {[Plain EXCEPT !.caller = s, !.auth = t, !.headers[xid] = v1] : s, t \in {v1, bad}}

MCRequests == WithHeaders \cup WithBodies \cup WithCallers

Piece(t, v) == [type |-> t, value |-> v]
Turn(r, content, reasoning, calls, id, name) ==
    [role |-> r, content |-> content, reasoning |-> reasoning, calls |-> calls, id |-> id, name |-> name]
ACall(id, name, valid) == [id |-> id, name |-> name, valid |-> valid]
Saying(r, content) == Turn(r, content, <<>>, <<>>, NoId, Unnamed)
Calling(calls) == Turn("assistant", <<>>, <<>>, calls, NoId, Unnamed)
Answering(id, name) == Turn("tool", <<Piece("other", piece), Piece("image", piece)>>, <<>>, <<>>, id, name)

MCMessages ==
    {Saying("system", <<Piece("text", piece), Piece("image", piece)>>),
     Saying("user", <<Piece("text", piece), Piece("image", piece), Piece("text", Nothing), Piece("text", piece)>>),
     Saying("user", <<Piece("json", piece), Piece("reasoning", piece)>>),
     Turn("assistant", <<Piece("thinking", piece), Piece("text", piece)>>, <<Nothing, piece>>, <<>>, NoId, Unnamed),
     Calling(<<ACall(callId, fun1, TRUE), ACall(NoId, fun2, TRUE)>>),
     Calling(<<ACall(NoId, fun1, TRUE), ACall(callId, fun2, TRUE), ACall(callId, fun1, TRUE)>>),
     Calling(<<ACall(callId, Unnamed, TRUE)>>),
     Calling(<<ACall(callId, fun2, TRUE), ACall(callId, fun1, FALSE)>>),
     Answering(callId, Unnamed), Answering(NoId, Unnamed), Answering(callId, fun2)}

Chatting(sound, messages, tools, none) ==
    [sound |-> sound, messages |-> messages, tools |-> tools, none |-> none]

MCSchemas == {s \in Schema : s.constraints = limit}
MCTools == [function : {TRUE}, name : {fun1, Unnamed}, schema : MCSchemas]
           \cup [function : {FALSE}, name : {fun2}, schema : MCSchemas]

MCChats == {Chatting(TRUE, m, <<>>, FALSE) : m \in SeqOf(MCMessages, 4)}
           \cup {Chatting(TRUE, <<>>, t, n) : t \in SeqOf(MCTools, 2), n \in BOOLEAN}
           \cup {Chatting(FALSE, <<>>, <<>>, FALSE)}

(* Identity and translation do not meet, so each is varied alone.           *)
MCTurns == (MCRequests \X {Chatting(TRUE, <<>>, <<>>, FALSE)}) \cup ({Plain} \X MCChats)
================================================================================
