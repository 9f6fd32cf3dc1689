--------------------------- MODULE RequestTranslation ---------------------------
(***************************************************************************)
(* buildEnvelopeForSession of request.go: an OpenAI chat payload becomes   *)
(* the gateway's messages, system text and tools.  The messages are walked *)
(* once, and the names of the calls seen so far are kept on the way, since *)
(* OpenAI's tool results carry an id only and the gateway wants a name.    *)
(*                                                                         *)
(* A text is the sequence of the pieces it is joined from.  A content is a *)
(* sequence of parts, whatever JSON spelled it: a string is one part, and  *)
(* a value that is neither a string nor an array is one part of type json. *)
(* The efforts and the output budget of the envelope are Catalog's.        *)
(***************************************************************************)
EXTENDS Integers, Sequences, SequencesExt

CONSTANTS Pieces, Nothing,           \* texts and images; an empty one
          FunctionNames, Unnamed,    \* names of functions; the empty name
          Unknown,                   \* the name of a result that has none
          CallIds, NoId,             \* ids of calls; the empty id
          Constraints, Unrestricted, \* what a schema says; a schema that says nothing
          Chats                      \* payloads

(* A reasoning part holds its text under "text", a thinking part under      *)
(* another key; "other" is any other type with a "text".                    *)
Part == [type : {"text", "image", "reasoning", "thinking", "other", "json"},
         value : Pieces \cup {Nothing}]

Call == [id : CallIds \cup {NoId}, name : FunctionNames \cup {Unnamed}, valid : BOOLEAN]

(* Developers are systems, and what is none of the four is a user.          *)
Message == [role : {"system", "assistant", "tool", "user"}, content : Seq(Part),
            reasoning : Seq(Pieces \cup {Nothing}), calls : Seq(Call),
            id : CallIds \cup {NoId}, name : FunctionNames \cup {Unnamed}]

(* The shape of a schema, or of the text within an encoded one.             *)
Schema == [encoded : BOOLEAN,
           shape : {"missing", "object", "typeless", "mistyped", "unreadable"},
           constraints : Constraints]

Tool == [function : BOOLEAN, name : FunctionNames \cup {Unnamed}, schema : Schema]

(* A payload is sound if it is one JSON value and its effort is accepted.   *)
Chat == [sound : BOOLEAN, messages : Seq(Message), tools : Seq(Tool), none : BOOLEAN]

ASSUME ChatsAssumption == Chats \subseteq Chat
ASSUME EmptiesAssumption == /\ Nothing \notin Pieces /\ Unrestricted \notin Constraints
                            /\ NoId \notin CallIds
                            /\ Unnamed \notin FunctionNames /\ Unknown \notin FunctionNames
ASSUME IdsAssumption == (CallIds \cup {NoId}) \cap Seq(Nat) = {}

VARIABLES chat,      \* the payload
          stage,     \* what is translated
          index,     \* the message, of chat.messages
          call,      \* the call, of an assistant's message
          parts,     \* parts of that message so far
          toolNames, \* id -> name of the call, for the calls so far
          minted,    \* ids minted by newID
          system, wire, offered

translationVars == <<chat, stage, index, call, parts, toolNames, minted, system, wire, offered>>

--------------------------------------------------------------------------------
(* Messages                                                                 *)

(* The elements of a sequence that are in a set, up to its i-th element.    *)
KeptUpTo(s, S) ==
    LET kept[i \in 0 .. Len(s)] == IF i = 0 THEN <<>>
                                   ELSE IF s[i] \in S THEN Append(kept[i - 1], s[i]) ELSE kept[i - 1]
    IN  kept

Kept(s, S) == KeptUpTo(s, S)[Len(s)]

Filled(c, types) == Kept(c, [type : types, value : Pieces])

Joined(c, types) == LET kept == Filled(c, types) IN [i \in DOMAIN kept |-> kept[i].value]

messageText(c) == Joined(c, {"text"})

messageReasoning(m) == Kept(m.reasoning, Pieces) \o Joined(m.content, {"reasoning", "thinking"})

toolResultText(c) == Joined(c, {"text", "reasoning", "other", "json"})

orderedUserParts(c) == Filled(c, {"text", "image"})

TextPart(kind, text) == IF text = <<>> THEN <<>> ELSE <<[kind |-> kind, text |-> text]>>

Now(role) == /\ stage = "messages" /\ index <= Len(chat.messages)
             /\ chat.messages[index].role = role

Add(role, content) == wire' = Append(wire, [role |-> role, parts |-> content])

Fail == stage' = "failed" /\ UNCHANGED <<chat, index, call, parts, toolNames, minted, system, wire, offered>>

Decode == /\ stage = "payload"
          /\ \/ ~chat.sound /\ Fail
             \/ /\ chat.sound /\ stage' = "messages"
                /\ UNCHANGED <<chat, index, call, parts, toolNames, minted, system, wire, offered>>

System == /\ Now("system")
          /\ system' = system \o TextPart("system", messageText(chat.messages[index].content))
          /\ index' = index + 1
          /\ UNCHANGED <<chat, stage, call, parts, toolNames, minted, wire, offered>>

Assistant == /\ Now("assistant")
             /\ LET m == chat.messages[index]
                IN  parts' = TextPart("reasoning", messageReasoning(m)) \o TextPart("text", messageText(m.content))
             /\ stage' = "calls" /\ call' = 1
             /\ UNCHANGED <<chat, index, toolNames, minted, system, wire, offered>>

AtCall == stage = "calls" /\ call <= Len(chat.messages[index].calls)

(* newID never repeats an id, nor meets one of the client.                  *)
IdOf(c) == IF c.id = NoId THEN <<minted + 1>> ELSE c.id

TranslateCallByGivenId ==
    /\ AtCall
    /\ LET c == chat.messages[index].calls[call]
       IN  \/ ~c.valid /\ Fail
           \/ /\ c.valid
              /\ toolNames' = [id \in DOMAIN toolNames \cup {c.id} |->
                                  IF id = c.id THEN c.name ELSE toolNames[id]]
              /\ parts' = Append(parts, [kind |-> "tool-call", id |-> IdOf(c), name |-> c.name])
              /\ minted' = IF c.id = NoId THEN minted + 1 ELSE minted
              /\ call' = call + 1
              /\ UNCHANGED <<chat, stage, index, system, wire, offered>>

TranslateCall ==
    /\ AtCall
    /\ LET c == chat.messages[index].calls[call]
       IN  \/ ~c.valid /\ Fail
           \/ /\ c.valid
              /\ toolNames' = [id \in DOMAIN toolNames \cup {IdOf(c)} |->
                                  IF id = IdOf(c) THEN c.name ELSE toolNames[id]]
              /\ parts' = Append(parts, [kind |-> "tool-call", id |-> IdOf(c), name |-> c.name])
              /\ minted' = IF c.id = NoId THEN minted + 1 ELSE minted
              /\ call' = call + 1
              /\ UNCHANGED <<chat, stage, index, system, wire, offered>>

EndAssistant == /\ stage = "calls" /\ ~AtCall
                /\ Add("assistant", parts)
                /\ stage' = "messages" /\ index' = index + 1
                /\ UNCHANGED <<chat, call, parts, toolNames, minted, system, offered>>

(* The message's own name, or that of the call, or "unknown".               *)
NameFor(m) == LET called == IF m.id \in DOMAIN toolNames THEN toolNames[m.id] ELSE Unnamed
              IN  IF m.name # Unnamed THEN m.name
                  ELSE IF called # Unnamed THEN called ELSE Unknown

ToolResult == /\ Now("tool")
              /\ LET m == chat.messages[index]
                 IN  Add("tool", <<[kind |-> "tool-result", id |-> m.id, name |-> NameFor(m),
                                    text |-> toolResultText(m.content)]>>)
              /\ index' = index + 1
              /\ UNCHANGED <<chat, stage, call, parts, toolNames, minted, system, offered>>

User == /\ Now("user")
        /\ LET content == orderedUserParts(chat.messages[index].content)
           IN  \/ content = <<>> /\ UNCHANGED wire
               \/ content # <<>> /\ Add("user", content)
        /\ index' = index + 1
        /\ UNCHANGED <<chat, stage, call, parts, toolNames, minted, system, offered>>

EndMessages == /\ stage = "messages" /\ index > Len(chat.messages)
               /\ stage' = "tools"
               /\ UNCHANGED <<chat, index, call, parts, toolNames, minted, system, wire, offered>>

--------------------------------------------------------------------------------
(* Tools                                                                    *)

Missing(s)  == s.shape = "missing" /\ ~s.encoded
Readable(s) == s.shape \in {"object", "typeless"}

(* A schema that is sent has the type object; what else it says is kept.    *)
normalizeSchema(s) == IF Missing(s) THEN Unrestricted ELSE s.constraints

Declared == Kept(chat.tools, [function : {TRUE}, name : FunctionNames, schema : Schema])

TranslateTools ==
    /\ stage = "tools"
    /\ \/ /\ \E i \in DOMAIN Declared : ~(Missing(Declared[i].schema) \/ Readable(Declared[i].schema))
          /\ Fail
       \/ /\ \A i \in DOMAIN Declared : Missing(Declared[i].schema) \/ Readable(Declared[i].schema)
          /\ offered' = IF chat.none THEN <<>>
                        ELSE [i \in DOMAIN Declared |->
                                [name |-> Declared[i].name, schema |-> normalizeSchema(Declared[i].schema)]]
          /\ stage' = "sent"
          /\ UNCHANGED <<chat, index, call, parts, toolNames, minted, system, wire>>

TranslationStart == /\ stage = "payload" /\ index = 1 /\ call = 1 /\ parts = <<>>
                    /\ toolNames = [id \in {} |-> Unnamed] /\ minted = 0
                    /\ system = <<>> /\ wire = <<>> /\ offered = <<>>

TranslationInit == chat \in Chats /\ TranslationStart

TranslationNext == \/ Decode
                   \/ System \/ Assistant \/ TranslateCall \/ EndAssistant \/ ToolResult \/ User
                   \/ EndMessages \/ TranslateTools

TranslationSpec == TranslationInit /\ [][TranslationNext]_translationVars

--------------------------------------------------------------------------------
(* Properties                                                               *)

(* The messages that the gateway is to see, and the calls of the messages w *)
(* on the wire, with the place of each.                                     *)
Reaching(m) == /\ m.role # "system"
               /\ m.role = "user" => \E p \in Range(m.content) : p.type \in {"text", "image"} /\ p.value # Nothing

Carried == Kept(chat.messages, {m \in Range(chat.messages) : Reaching(m)})

CallPlaces(w) == UNION {{<<i, k>> : k \in {k \in DOMAIN w[i].parts : w[i].parts[k].kind = "tool-call"}} :
                         i \in {i \in DOMAIN w : w[i].role = "assistant"}}

At(w, p) == w[p[1]].parts[p[2]]

Before(p, q) == p[1] < q[1] \/ (p[1] = q[1] /\ p[2] < q[2])

Says(w, kind, v) == \E q \in Range(w.parts) : q.kind = kind /\ v \in Range(q.text)

(* A user's texts and images stay in their order and among each other; an   *)
(* assistant keeps its reasoning, its text and its calls, a tool its text.  *)
TurnKept(m, w) ==
    /\ w.role = m.role
    /\ m.role = "user" =>
         /\ w.parts = Kept(m.content, Range(w.parts))
         /\ \A q \in Range(m.content) :
               q \in Range(w.parts) <=> q.type \in {"text", "image"} /\ q.value # Nothing
    /\ m.role = "assistant" =>
         LET sentCalls == Kept(w.parts, {q \in Range(w.parts) : q.kind = "tool-call"})
             said      == {q \in Range(m.content) : q.value # Nothing}
         IN  /\ Len(sentCalls) = Len(m.calls)
             /\ \A k \in DOMAIN m.calls : /\ sentCalls[k].name = m.calls[k].name
                                          /\ m.calls[k].id # NoId => sentCalls[k].id = m.calls[k].id
             /\ \A v \in Range(m.reasoning) \ {Nothing} : Says(w, "reasoning", v)
             /\ \A q \in said : /\ q.type \in {"reasoning", "thinking"} => Says(w, "reasoning", q.value)
                                /\ q.type = "text" => Says(w, "text", q.value)
    /\ m.role = "tool" =>
         /\ w.parts[1].id = m.id
         /\ \A q \in Range(m.content) : q.type \in {"text", "json"} /\ q.value # Nothing
                                         => Says(w, "tool-result", q.value)

HistoryKept == /\ Len(wire) = Len(Carried)
               /\ \A i \in DOMAIN wire : TurnKept(Carried[i], wire[i])

(* A call without an id gets one that no other call and no result has.      *)
MintedIdsAreFresh ==
    \A p, q \in CallPlaces(wire) : At(wire, p).id = At(wire, q).id /\ p # q => At(wire, p).id \in CallIds

(* A result that has no name of its own has the one of the latest call with *)
(* its id that precedes it, and never one of a call that had no id.         *)
ResultsNameTheirCalls ==
    \A i \in DOMAIN wire : wire[i].role = "tool" /\ Carried[i].name = Unnamed =>
        LET mine == {p \in CallPlaces(wire) : p[1] < i /\ At(wire, p).id = wire[i].parts[1].id}
        IN  \/ mine = {} /\ wire[i].parts[1].name = Unknown
            \/ \E p \in mine : /\ \A q \in mine : ~Before(p, q)
                               /\ wire[i].parts[1].name =
                                    IF At(wire, p).name = Unnamed THEN Unknown ELSE At(wire, p).name

(* A tool is offered with what the client demanded of it, and without       *)
(* restrictions only if the client stated none.                             *)
ToolsKept == \A i \in DOMAIN offered : \E t \in Range(chat.tools) :
                /\ t.function /\ t.name = offered[i].name
                /\ \/ offered[i].schema = Unrestricted /\ t.schema.shape = "missing" /\ ~t.schema.encoded
                   \/ offered[i].schema = t.schema.constraints

Refusable == \/ ~chat.sound
             \/ \E m \in Range(chat.messages) : m.role = "assistant" /\ \E c \in Range(m.calls) : ~c.valid
             \/ \E t \in Range(chat.tools) : /\ t.function /\ t.name # Unnamed
                                             /\ \/ t.schema.shape \in {"mistyped", "unreadable"}
                                                \/ t.schema.shape = "missing" /\ t.schema.encoded

(* A payload is refused exactly when a part of it cannot be translated; one *)
(* that is sent keeps its turns in their order, results fit their calls,    *)
(* and no tool is widened.                                                  *)
RequestIsKept ==
    /\ stage = "failed" => Refusable
    /\ stage = "sent" => /\ ~Refusable
                         /\ HistoryKept /\ MintedIdsAreFresh /\ ResultsNameTheirCalls /\ ToolsKept
================================================================================
