------------------------------ MODULE EventDecoder ------------------------------
(***************************************************************************)
(* The NDJSON decoder of go/event_decoder.go with the event folding and    *)
(* the framing of go/response.go, in both of its modes at once.            *)
(*                                                                         *)
(* The same gateway body can be consumed in two ways: streaming, where     *)
(* each event becomes a frame that the host takes or refuses and only      *)
(* counters are kept, and buffered, where the answer is accumulated and    *)
(* rendered at the end.  One decoder per mode reads one body here, line    *)
(* by line, so that what the two clients are told can be compared.         *)
(*                                                                         *)
(* A line has a number of bytes and an event.  Texts, tool calls and usage *)
(* are opaque values; identifiers minted for a tool call that has none are *)
(* left out.  json.Compact cannot fail on a json.RawMessage that the       *)
(* decoder just validated, so that return of applyEvent is left out too.   *)
(***************************************************************************)
EXTENDS Integers, Sequences, SequencesExt

CONSTANTS Texts, Tools,     \* contents of deltas and of tool calls
          Usages,           \* values of totalUsage
          NoUsage,          \* totalUsage is absent: reported as zeros
          Sizes,            \* bytes of a line, without its terminator
          MaxEventBytes, MaxResponseBytes,
          MaxLines          \* bound: lines in a body

ASSUME LimitsAssumption == MaxEventBytes \in Nat \ {0} /\ MaxResponseBytes \in Nat \ {0}
ASSUME SizesAssumption  == Sizes \subseteq Nat /\ 0 \in Sizes
ASSUME UsageAssumption  == NoUsage \notin Usages

VARIABLES dec,      \* mode -> the EventDecoder and what its sink collected
          queue,    \* streaming: frames of the last push, not yet emitted
          sent,     \* streaming: frames the host took
          verdict,  \* mode -> what Consume returned, "reading" before it does
          counted,  \* mode -> the usageTurns counter this turn incremented
          body      \* the body so far: its lines, their bytes with the line
                    \* feeds and the longest, and whether it had its last,
                    \* unterminated line and a finish event

vars == <<dec, queue, sent, verdict, counted, body>>

Modes == {"streaming", "buffered"}

--------------------------------------------------------------------------------
(* Lines                                                                    *)

FinishReasons == {"stop", "length", "tool-calls"}

NoContent == [n |-> "none"]

Event(t, d, u) == [type |-> t, data |-> d, usage |-> u]

(* A delta may be empty; "ignored" is a blank line or an event of another   *)
(* type, "malformed" one without a type or that is no JSON.                 *)
Events ==
    {Event(t, d, NoUsage) : t \in {"text-delta", "reasoning-delta"}, d \in Texts \cup {NoContent}}
    \cup {Event("tool-call", d, NoUsage) : d \in Tools}
    \cup {Event("finish", r, u) : r \in FinishReasons, u \in Usages \cup {NoUsage}}
    \cup {Event(t, NoContent, NoUsage) : t \in {"ignored", "malformed", "error", "abort"}}

(* A line ends in a line feed, in a carriage return and a line feed, or, at *)
(* the end of the body or where the connection broke, in nothing: then it   *)
(* is scanned only if it has a byte.  An empty line has no event.           *)
Lines == {l \in [event : Events, size : Sizes, end : {"lf", "crlf", "none"}] :
             l.size = 0 => l.event.type = "ignored" /\ l.end # "none"}

(* What the scanner holds besides the line to know that it is whole: its    *)
(* terminator, or room for one more byte, which the end of the body leaves  *)
(* empty.  (If the read that fills the buffer also reports the end, the     *)
(* line is scanned, and push refuses it: one refusal is modelled.)          *)
Terminator(l) == IF l.end = "crlf" THEN 2 ELSE 1

(* The scanner's buffer is full before it holds the whole line.             *)
TooLongToScan(l) == l.size + Terminator(l) > MaxEventBytes + 2

--------------------------------------------------------------------------------
(* Frames                                                                   *)

mapFinishReason(r) == IF r = "tool-calls" THEN "tool_calls" ELSE r

Frame(kind, data, index, role) ==
    [kind |-> kind, data |-> data, index |-> index, role |-> role,
     finish |-> "", usage |-> NoUsage]

(* openAIUsage: zeros stand for an absent totalUsage.                       *)
FinalFrame(finish, usage) ==
    [kind |-> "final", data |-> <<>>, index |-> 0, role |-> FALSE,
     finish |-> finish, usage |-> usage]

--------------------------------------------------------------------------------
(* push                                                                     *)

NewDecoder == [texts |-> <<>>, reasonings |-> <<>>, calls |-> <<>>, tools |-> 0,
               finish |-> "", usage |-> NoUsage, sentRole |-> FALSE,
               done |-> FALSE, fatal |-> "", consumed |-> 0, frames |-> <<>>]

Fatal(d, why) == [d EXCEPT !.fatal = why]

(* emit, in streaming mode: the first frame carries the role.               *)
Emit(m, d, kind, data) ==
    IF m = "buffered" THEN d
    ELSE [d EXCEPT !.frames = Append(@, Frame(kind, data, d.tools, ~d.sentRole)),
                   !.sentRole = TRUE]

(* An answer is kept only when it is not streamed (acc.discard).            *)
Kept(m, seq, x) == IF m = "buffered" THEN Append(seq, x) ELSE seq

FoldText(m, d, x) == Emit(m, [d EXCEPT !.texts = Kept(m, @, x)], "content", <<x>>)

FoldReasoning(m, d, x) ==
    Emit(m, [d EXCEPT !.reasonings = Kept(m, @, x)], "reasoning_content", <<x>>)

FoldToolUncounted(m, d, x) ==
    Emit(m, [d EXCEPT !.calls = Kept(m, @, x)], "tool_calls", <<x>>)

(* The index is the number of calls emitted before.                         *)
FoldTool(m, d, x) ==
    LET e == Emit(m, [d EXCEPT !.calls = Kept(m, @, x)], "tool_calls", <<x>>)
    IN  IF m = "streaming" THEN [e EXCEPT !.tools = @ + 1] ELSE e

FoldFinishBare(m, d, reason, usage) ==
    LET e == [d EXCEPT !.finish = mapFinishReason(reason), !.usage = usage, !.done = TRUE]
    IN  IF m = "buffered" THEN e
        ELSE [e EXCEPT !.frames = Append(@, FinalFrame(e.finish, e.usage))]

(* The finish event: the final frame follows at least one with the role.    *)
FoldFinish(m, d, reason, usage) ==
    LET e == [d EXCEPT !.finish = mapFinishReason(reason), !.usage = usage, !.done = TRUE]
        r == IF d.sentRole THEN e ELSE Emit(m, e, "role", <<>>)
    IN  IF m = "buffered" THEN e
        ELSE [r EXCEPT !.frames = Append(@, FinalFrame(e.finish, e.usage))]

applyEvent(m, d, e) ==
    CASE e.type = "text-delta" /\ e.data # NoContent      -> FoldText(m, d, e.data)
      [] e.type = "reasoning-delta" /\ e.data # NoContent -> FoldReasoning(m, d, e.data)
      [] e.type = "tool-call"                             -> FoldTool(m, d, e.data)
      [] e.type = "finish"                                -> FoldFinish(m, d, e.data, e.usage)
      [] e.type \in {"malformed", "error", "abort"}       -> Fatal(d, e.type)
      [] OTHER                                            -> d

OversizedInAll(d, l) == d.consumed + l.size + 1 > MaxResponseBytes

(* Every line counts one byte more, whatever ends it and if nothing does.   *)
Oversized(d, l) == \/ l.size > MaxEventBytes
                   \/ d.consumed + l.size + 1 > MaxResponseBytes

(* The sink starts empty on every push.                                     *)
push(m, d, l) ==
    LET e == [d EXCEPT !.consumed = @ + l.size + 1, !.frames = <<>>]
    IN  IF Oversized(d, l) THEN Fatal(e, "size") ELSE applyEvent(m, e, l.event)

--------------------------------------------------------------------------------
(* Consume                                                                  *)

Reading == {m \in Modes : verdict[m] = "reading"}

AfterPush(d) == IF d.fatal # "" THEN d.fatal ELSE IF d.done THEN "ok" ELSE "reading"

Longer(l) == [lines    |-> body.lines + 1,
              bytes    |-> body.bytes + l.size + (IF l.end = "none" THEN 0 ELSE 1),
              longest  |-> IF l.size > body.longest THEN l.size ELSE body.longest,
              ended    |-> l.end = "none",
              finished |-> body.finished \/ (l.event.type = "finish" /\ ~TooLongToScan(l))]

(* noteTerminal runs in applyEvent, before anything is emitted.             *)
Outcome(d) == IF ~d.done THEN "" ELSE IF d.usage = NoUsage THEN "without" ELSE "with"

(* A streaming Consume returns only after the frames are emitted.           *)
ReadLine(l) ==
    /\ Reading # {} /\ queue = <<>>
    /\ ~body.ended /\ body.lines < MaxLines
    /\ ~TooLongToScan(l)
    /\ LET pushed == [m \in Modes |-> IF m \in Reading THEN push(m, dec[m], l) ELSE dec[m]]
       IN  /\ dec' = pushed
           /\ queue' = IF "streaming" \in Reading THEN pushed["streaming"].frames ELSE <<>>
           /\ counted' = [m \in Modes |-> Outcome(pushed[m])]
           /\ verdict' = [m \in Modes |->
                            IF m \notin Reading \/ (m = "streaming" /\ queue' # <<>>)
                            THEN verdict[m] ELSE AfterPush(pushed[m])]
    /\ body' = Longer(l)
    /\ UNCHANGED sent

(* bufio.ErrTooLong: the scanner stops and the decoder sees no more lines.  *)
ScanTooLong(l) ==
    /\ Reading # {} /\ queue = <<>>
    /\ ~body.ended /\ body.lines < MaxLines
    /\ TooLongToScan(l)
    /\ verdict' = [m \in Modes |-> IF m \in Reading THEN "scan" ELSE verdict[m]]
    /\ body' = Longer(l)
    /\ UNCHANGED <<dec, queue, sent, counted>>

(* The connection breaks, or a context ends, before the body does.          *)
ReadBreaks ==
    /\ Reading # {} /\ queue = <<>>
    /\ verdict' = [m \in Modes |-> IF m \in Reading THEN "broken" ELSE verdict[m]]
    /\ UNCHANGED <<dec, queue, sent, counted, body>>

BodyEndsQuietly ==
    /\ Reading # {} /\ queue = <<>>
    /\ verdict' = [m \in Modes |-> IF m \in Reading THEN "ok" ELSE verdict[m]]
    /\ UNCHANGED <<dec, queue, sent, counted, body>>

(* finish(): the body ended in order, and no finish event was seen.         *)
BodyEnds ==
    /\ Reading # {} /\ queue = <<>>
    /\ dec' = [m \in Modes |-> IF m \in Reading THEN Fatal(dec[m], "truncated") ELSE dec[m]]
    /\ verdict' = [m \in Modes |-> IF m \in Reading THEN "truncated" ELSE verdict[m]]
    /\ counted' = [m \in Modes |-> IF m \in Reading THEN "truncated" ELSE counted[m]]
    /\ UNCHANGED <<queue, sent, body>>

EmitFrame ==
    /\ queue # <<>>
    /\ sent' = Append(sent, Head(queue))
    /\ queue' = Tail(queue)
    /\ verdict' = IF queue' = <<>>
                  THEN [verdict EXCEPT !["streaming"] = AfterPush(dec["streaming"])]
                  ELSE verdict
    /\ UNCHANGED <<dec, counted, body>>

(* The host refused the frame, or the stream's context had ended.           *)
EmitFails ==
    /\ queue # <<>>
    /\ queue' = <<>>
    /\ verdict' = [verdict EXCEPT !["streaming"] = "emit"]
    /\ UNCHANGED <<dec, sent, counted, body>>

Returned == Reading = {} /\ UNCHANGED vars

Init == /\ dec = [m \in Modes |-> NewDecoder]
        /\ queue = <<>> /\ sent = <<>>
        /\ verdict = [m \in Modes |-> "reading"]
        /\ counted = [m \in Modes |-> ""]
        /\ body = [lines |-> 0, bytes |-> 0, longest |-> 0,
                   ended |-> FALSE, finished |-> FALSE]

Next == \/ \E l \in Lines : ReadLine(l) \/ ScanTooLong(l)
        \/ ReadBreaks \/ BodyEnds
        \/ EmitFrame \/ EmitFails
        \/ Returned

Spec == Init /\ [][Next]_vars

--------------------------------------------------------------------------------
(* Rendering the buffered answer                                            *)

Chunk(cond, kind, data) == IF cond THEN <<Frame(kind, data, 0, FALSE)>> ELSE <<>>

ToolChunks(calls) == [i \in DOMAIN calls |-> Frame("tool_calls", <<calls[i]>>, i - 1, FALSE)]

(* toOpenAIChunks: reasoning, text, tool calls, each kind in one piece, the *)
(* role on whichever comes first, and the final frame.                      *)
toOpenAIChunks(a) ==
    LET some == Chunk(a.reasonings # <<>>, "reasoning_content", a.reasonings)
                \o Chunk(a.texts # <<>>, "content", a.texts)
                \o ToolChunks(a.calls)
        full == IF some = <<>> THEN Chunk(TRUE, "role", <<>>) ELSE some
    IN  Append([full EXCEPT ![1].role = TRUE], FinalFrame(a.finish, a.usage))

(* toOpenAIResponse: the same answer as one chat.completion.                *)
toOpenAIResponse(a) == [content   |-> a.texts,
                        reasoning |-> a.reasonings,
                        calls     |-> {<<i - 1, <<a.calls[i]>>>> : i \in DOMAIN a.calls},
                        finish    |-> a.finish,
                        usage     |-> a.usage]

--------------------------------------------------------------------------------
(* Properties                                                               *)

Verdicts == {"reading", "ok", "size", "scan", "malformed", "error", "abort", "truncated",
             "broken", "emit"}

(* How an answer ended, "" while it has not; how a decoder failed.          *)
Finishes == {"", "stop", "length", "tool_calls"}
Failures == {"", "size", "malformed", "error", "abort", "truncated"}

FrameSet == [kind : {"content", "reasoning_content", "tool_calls", "role", "final"},
             data : Seq(Texts \cup Tools), index : Nat, role : BOOLEAN,
             finish : Finishes, usage : Usages \cup {NoUsage}]

DecoderSet == [texts : Seq(Texts), reasonings : Seq(Texts), calls : Seq(Tools), tools : Nat,
               finish : Finishes, usage : Usages \cup {NoUsage}, sentRole : BOOLEAN,
               done : BOOLEAN, fatal : Failures, consumed : Nat, frames : Seq(FrameSet)]

BodySet == [lines : Nat, bytes : Nat, longest : Nat, ended : BOOLEAN, finished : BOOLEAN]

(* Types; and a decoder is never both done and failed.                      *)
TypeOK == /\ dec \in [Modes -> DecoderSet]
          /\ \A m \in Modes : ~(dec[m].done /\ dec[m].fatal # "")
          /\ queue \in Seq(FrameSet) /\ sent \in Seq(FrameSet)
          /\ verdict \in [Modes -> Verdicts]
          /\ counted \in [Modes -> {"", "with", "without", "truncated"}]
          /\ body \in BodySet

Calls(frames) == {i \in DOMAIN frames : frames[i].kind = "tool_calls"}

(* What a client reads out of a sequence of frames: the pieces of each kind *)
(* in order, the calls with their indexes, and how the answer ended.        *)
PiecesUpTo(frames, kind) ==
    LET pieces[i \in 0 .. Len(frames)] ==
          IF i = 0 THEN <<>>
          ELSE IF frames[i].kind = kind THEN pieces[i - 1] \o frames[i].data ELSE pieces[i - 1]
    IN  pieces

Pieces(frames, kind) == PiecesUpTo(frames, kind)[Len(frames)]

Assembled(frames) ==
    [content   |-> Pieces(frames, "content"),
     reasoning |-> Pieces(frames, "reasoning_content"),
     calls     |-> {<<frames[i].index, frames[i].data>> : i \in Calls(frames)},
     finish    |-> Last(frames).finish,
     usage     |-> Last(frames).usage]

(* The two modes tell their clients the same: on one body both succeed or   *)
(* both fail in the same way, unless the host refused a frame, and then a   *)
(* streaming client has read exactly what the buffered one is handed, as    *)
(* one completion or in chunks.                                             *)
ModesAgree ==
    (\A m \in Modes : verdict[m] # "reading") /\ verdict["streaming"] # "emit" =>
        /\ verdict["streaming"] = verdict["buffered"]
        /\ verdict["streaming"] = "ok" =>
              /\ Assembled(sent) = toOpenAIResponse(dec["buffered"])
              /\ Assembled(sent) = Assembled(toOpenAIChunks(dec["buffered"]))

WellFormed(frames) ==
    /\ \A i \in DOMAIN frames : (frames[i].kind # "final" /\ frames[i].role) <=> i = 1
    /\ \A i \in DOMAIN frames : frames[i].kind = "final" => i = Len(frames)
    /\ \A i, j \in Calls(frames) : i < j => frames[i].index < frames[j].index
    /\ \A i \in Calls(frames) : \A k \in 0 .. frames[i].index :
          \E j \in Calls(frames) : frames[j].index = k

(* What the host was given is always a well-formed prefix of a stream: the  *)
(* role on the first frame and on no other, tool indexes counting up from   *)
(* 0, and a final frame last or not yet.                                    *)
FrameGrammar == WellFormed(sent)

(* Success means the whole answer: Consume returns nil only for a body with *)
(* a finish event, and in streaming mode only once the final frame has been *)
(* taken.  A truncated, broken or refused stream is never reported as       *)
(* complete, and ends with no final frame unless the host had taken it.     *)
OnlyWholeAnswersSucceed ==
    /\ \A m \in Modes : verdict[m] = "ok" => body.finished /\ dec[m].done
    /\ sent # <<>> /\ Last(sent).kind = "final" <=> verdict["streaming"] = "ok"

(* What the limits say of the bytes that came, by the body alone: a line    *)
(* longer than MaxEventBytes, or lines and line feeds that are more than    *)
(* MaxResponseBytes in all, carriage returns apart.  A last line without a  *)
(* line feed counts as if it had one (event_decoder.go:40), so a body that  *)
(* ends in one is refused one byte earlier.                                 *)
PastLimits == \/ body.longest > MaxEventBytes
              \/ body.bytes > MaxResponseBytes
              \/ body.ended /\ body.bytes = MaxResponseBytes

(* The limits are exact, in both directions.  Consume fails for a size only *)
(* when the body is past a limit, whichever terminator its lines have and   *)
(* although the scanner has a limit of its own; and Consume neither reads   *)
(* on nor returns nil when the body is past one: the line that passes a     *)
(* limit is the last it looks at.                                           *)
LimitsExact ==
    \A m \in Modes :
        /\ verdict[m] \in {"size", "scan"} => PastLimits
        /\ verdict[m] \in {"reading", "ok"} => ~PastLimits

(* "truncated counts turns abandoned without any finish event.  Explicit    *)
(* error/abort turns are not counted" (response.go:63): a turn whose body   *)
(* stops short of a finish event increments the counter.                    *)
AbandonedIsCounted ==
    \A m \in Modes : verdict[m] \in {"truncated", "broken"} => counted[m] = "truncated"
================================================================================
