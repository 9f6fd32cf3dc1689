--------------------------- MODULE EventDecoderProofs ---------------------------
(***************************************************************************)
(* Theorems about EventDecoder, for every value of its constants: the size *)
(* limits are exact, only whole answers succeed, what the host was given   *)
(* is always a well-formed prefix of a stream, and the two modes tell      *)
(* their clients the same.  The last needs what Pieces computes for every  *)
(* sequence of frames, and so an induction over the naturals: it is made   *)
(* for sets of numbers, from the facts about finite sets.                  *)
(***************************************************************************)
EXTENDS EventDecoder, FiniteSetTheorems, SequenceTheorems, TLAPS

--------------------------------------------------------------------------------
(* The inductive invariant                                                  *)

(* The frames of the stream so far, taken by the host or about to be.       *)
Stream == sent \o queue

(* What push has counted of the body: a last line without a line feed       *)
(* counts as if it had one.                                                 *)
Counted == body.bytes + (IF body.ended THEN 1 ELSE 0)

(* A decoder that still reads has not failed, has counted the whole body,   *)
(* and is done only when its last frames are on their way.                  *)
Live(m) == m \in Reading =>
              /\ dec[m].fatal = "" /\ dec[m].consumed = Counted
              /\ dec[m].done => m = "streaming" /\ queue # <<>>

LiveInv == /\ \A m \in Modes : Live(m)
           /\ queue # <<>> => "streaming" \in Reading

Finished(m) == /\ dec[m].done => body.finished
               /\ verdict[m] = "ok" => dec[m].done

FinishedInv == \A m \in Modes : Finished(m)

(* The first half of LimitsExact, which needs nothing else.                 *)
RefusalsInv == \A m \in Modes : verdict[m] \in {"size", "scan"} => PastLimits

Ended(frames) == frames # <<>> /\ frames[Len(frames)].kind = "final"

(* What a decoder that goes on remembers of the frames it has made.         *)
Remembers(d, frames) ==
    /\ d.sentRole <=> frames # <<>>
    /\ \A i \in Calls(frames) : frames[i].index < d.tools
    /\ \A k \in Nat : k < d.tools => \E j \in Calls(frames) : frames[j].index = k

StreamInv ==
    /\ WellFormed(Stream)
    /\ "streaming" \in Reading => /\ dec["streaming"].done <=> Ended(Stream)
                                  /\ ~dec["streaming"].done => Remembers(dec["streaming"], Stream)
    /\ "streaming" \notin Reading => (verdict["streaming"] = "ok" <=> Ended(sent))

IInv == /\ TypeOK
        /\ LiveInv
        /\ RefusalsInv
        /\ FinishedInv
        /\ StreamInv

--------------------------------------------------------------------------------
(* Events, and what push does with them                                     *)

(* Events have the data of their type.                                      *)
LEMMA EventData ==
    ASSUME NEW e \in Events
    PROVE  /\ e.type \in {"text-delta", "reasoning-delta"} /\ e.data # NoContent => e.data \in Texts
           /\ e.type = "tool-call" => e.data \in Tools
           /\ e.type = "finish" => e.data \in FinishReasons
           /\ e.usage \in Usages \cup {NoUsage}
           /\ e.type \in {"text-delta", "reasoning-delta", "tool-call", "finish",
                          "ignored", "malformed", "error", "abort"}
  BY DEF Events, Event

(* The events that applyEvent tells apart.                                  *)
LEMMA ApplyCases ==
    ASSUME NEW m, NEW d, NEW e \in Events
    PROVE  \/ e.type = "text-delta" /\ e.data # NoContent /\ applyEvent(m, d, e) = FoldText(m, d, e.data)
           \/ e.type = "reasoning-delta" /\ e.data # NoContent /\ applyEvent(m, d, e) = FoldReasoning(m, d, e.data)
           \/ e.type = "tool-call" /\ applyEvent(m, d, e) = FoldTool(m, d, e.data)
           \/ e.type = "finish" /\ applyEvent(m, d, e) = FoldFinish(m, d, e.data, e.usage)
           \/ e.type \in {"malformed", "error", "abort"} /\ applyEvent(m, d, e) = Fatal(d, e.type)
           \/ e.type # "finish" /\ applyEvent(m, d, e) = d
<1>1. CASE e.type = "text-delta" /\ e.data # NoContent
  BY <1>1 DEF applyEvent
<1>2. CASE e.type = "reasoning-delta" /\ e.data # NoContent
  BY <1>2 DEF applyEvent
<1>3. CASE e.type = "tool-call"
  BY <1>3 DEF applyEvent
<1>4. CASE e.type = "finish"
  BY <1>4 DEF applyEvent
<1>5. CASE e.type \in {"malformed", "error", "abort"}
  BY <1>5 DEF applyEvent
<1>6. CASE /\ ~(e.type = "text-delta" /\ e.data # NoContent)
           /\ ~(e.type = "reasoning-delta" /\ e.data # NoContent)
           /\ e.type \notin {"tool-call", "finish", "malformed", "error", "abort"}
  BY <1>6 DEF applyEvent
<1> QED  BY <1>1, <1>2, <1>3, <1>4, <1>5, <1>6

DataKinds == {"content", "reasoning_content", "tool_calls", "role"}

(* A frame with data is a frame.                                            *)
LEMMA FrameType ==
    ASSUME NEW kind \in DataKinds,
           NEW data \in Seq(Texts \cup Tools), NEW index \in Nat, NEW role \in BOOLEAN
    PROVE  Frame(kind, data, index, role) \in FrameSet
<1>1. kind \in {"content", "reasoning_content", "tool_calls", "role", "final"}  BY DEF DataKinds
<1> QED  BY <1>1 DEF Frame, FrameSet, Finishes

(* So is the final one.                                                     *)
LEMMA FinalFrameType ==
    ASSUME NEW finish \in Finishes, NEW usage \in Usages \cup {NoUsage}
    PROVE  FinalFrame(finish, usage) \in FrameSet /\ FinalFrame(finish, usage).kind = "final"
  BY DEF FinalFrame, FrameSet

(* What a step of the folding leaves alone, whatever it adds.               *)
KeepsRest(d, p) == p \in DecoderSet /\ p.consumed = d.consumed /\ (p.done <=> d.done) /\ p.fatal = d.fatal

Emitted(m, d, p, kind) ==
    /\ m = "buffered" => p.frames = <<>>
    /\ m = "streaming" => /\ p.sentRole
                          /\ \E f \in FrameSet : /\ p.frames = <<f>> /\ f.kind = kind
                                                 /\ f.index = d.tools /\ (f.role <=> ~d.sentRole)

(* One emit on an empty sink.                                               *)
LEMMA EmitEffect ==
    ASSUME NEW m \in Modes, NEW d \in DecoderSet, d.frames = <<>>,
           NEW kind \in DataKinds,
           NEW data \in Seq(Texts \cup Tools)
    PROVE  /\ KeepsRest(d, Emit(m, d, kind, data))
           /\ Emit(m, d, kind, data).tools = d.tools
           /\ Emitted(m, d, Emit(m, d, kind, data), kind)
<1> DEFINE f == Frame(kind, data, d.tools, ~d.sentRole)
<1>1. f \in FrameSet /\ f.kind = kind /\ f.index = d.tools /\ (f.role <=> ~d.sentRole)
  <2>1. f \in FrameSet
    <3>1. d.tools \in Nat /\ d.sentRole \in BOOLEAN  BY DEF DecoderSet
    <3>2. (~d.sentRole) \in BOOLEAN  BY <3>1
    <3> QED  BY <3>1, <3>2, FrameType
  <2> QED  BY <2>1 DEF Frame
<1>2. CASE m = "buffered"
  <2>1. Emit(m, d, kind, data) = d  BY <1>2 DEF Emit
  <2> QED  BY <1>2, <2>1 DEF KeepsRest, Emitted
<1>3. CASE m = "streaming"
  <2>1. Append(d.frames, f) = <<f>>  OBVIOUS
  <2>2. Emit(m, d, kind, data) = [d EXCEPT !.frames = <<f>>, !.sentRole = TRUE]
    BY <1>3, <2>1 DEF Emit
  <2> HIDE DEF f
  <2>3. <<f>> \in Seq(FrameSet)  BY <1>1
  <2>4. [d EXCEPT !.frames = <<f>>, !.sentRole = TRUE] \in DecoderSet  BY <2>3 DEF DecoderSet
  <2>5. /\ KeepsRest(d, Emit(m, d, kind, data))
        /\ Emit(m, d, kind, data).tools = d.tools
        /\ Emit(m, d, kind, data).sentRole /\ Emit(m, d, kind, data).frames = <<f>>
    BY <2>2, <2>4 DEF DecoderSet, KeepsRest
  <2> QED  BY <1>1, <1>3, <2>5 DEF Emitted
<1> QED  BY <1>2, <1>3 DEF Modes

(* The decoder that push hands to applyEvent.                               *)
Opened(d, l) == [d EXCEPT !.consumed = @ + l.size + 1, !.frames = <<>>]

(* It has an empty sink and one line more, and is otherwise as before.      *)
LEMMA OpenedType ==
    ASSUME NEW d \in DecoderSet, NEW l \in Lines
    PROVE  /\ Opened(d, l) \in DecoderSet
           /\ Opened(d, l).frames = <<>> /\ Opened(d, l).consumed = d.consumed + l.size + 1
           /\ Opened(d, l).tools = d.tools /\ (Opened(d, l).sentRole <=> d.sentRole)
           /\ (Opened(d, l).done <=> d.done) /\ Opened(d, l).fatal = d.fatal
<1>1. l.size \in Nat  BY SizesAssumption DEF Lines
<1>2. d.consumed + l.size + 1 \in Nat  BY <1>1 DEF DecoderSet
<1>3. <<>> \in Seq(FrameSet)  OBVIOUS
<1> QED  BY <1>2, <1>3 DEF Opened, DecoderSet

(* The frames that one event adds to a stream.                              *)
NoFrame(d, p) == p.frames = <<>> /\ (p.sentRole <=> d.sentRole) /\ p.tools = d.tools /\ (p.done <=> d.done)

DataFrame(d, p) ==
    /\ \E f \in FrameSet : /\ p.frames = <<f>> /\ (f.role <=> ~d.sentRole)
                           /\ \/ f.kind \in {"content", "reasoning_content"} /\ p.tools = d.tools
                              \/ f.kind = "tool_calls" /\ f.index = d.tools /\ p.tools = d.tools + 1
    /\ p.sentRole /\ (p.done <=> d.done)

LastFrames(d, p) ==
    /\ \E f, g \in FrameSet : /\ f.kind = "role" /\ f.role /\ g.kind = "final"
                              /\ p.frames = IF d.sentRole THEN <<g>> ELSE Append(<<f>>, g)
    /\ p.sentRole /\ p.done

Adds(m, d, p) == \/ m = "buffered" /\ p.frames = <<>>
                 \/ m = "streaming" /\ (NoFrame(d, p) \/ DataFrame(d, p))

AddsLast(m, d, p) == \/ m = "buffered" /\ p.frames = <<>>
                     \/ m = "streaming" /\ LastFrames(d, p)

(* Text.                                                                    *)
LEMMA FoldTextEffect ==
    ASSUME NEW m \in Modes, NEW d \in DecoderSet, d.frames = <<>>, NEW x \in Texts
    PROVE  KeepsRest(d, FoldText(m, d, x)) /\ Adds(m, d, FoldText(m, d, x))
<1> DEFINE e == [d EXCEPT !.texts = Kept(m, @, x)]
           p == Emit(m, e, "content", <<x>>)
<1>1. Kept(m, d.texts, x) \in Seq(Texts)  BY DEF Kept, DecoderSet
<1>2. e \in DecoderSet /\ e.frames = <<>> /\ e.consumed = d.consumed /\ (e.done <=> d.done)
      /\ e.fatal = d.fatal /\ e.tools = d.tools /\ (e.sentRole <=> d.sentRole)
  BY <1>1 DEF DecoderSet
<1>3. <<x>> \in Seq(Texts \cup Tools)  OBVIOUS
<1>4. FoldText(m, d, x) = p  BY DEF FoldText
<1> HIDE DEF e
<1>5. KeepsRest(e, p) /\ p.tools = e.tools /\ Emitted(m, e, p, "content")
  BY <1>2, <1>3, EmitEffect DEF DataKinds
<1> HIDE DEF p
<1>6. KeepsRest(d, p)  BY <1>2, <1>5 DEF KeepsRest
<1>7. Adds(m, d, p)  BY <1>2, <1>5 DEF Adds, DataFrame, Emitted, KeepsRest, Modes
<1> QED  BY <1>4, <1>6, <1>7

(* Reasoning.                                                               *)
LEMMA FoldReasoningEffect ==
    ASSUME NEW m \in Modes, NEW d \in DecoderSet, d.frames = <<>>, NEW x \in Texts
    PROVE  KeepsRest(d, FoldReasoning(m, d, x)) /\ Adds(m, d, FoldReasoning(m, d, x))
<1> DEFINE e == [d EXCEPT !.reasonings = Kept(m, @, x)]
           p == Emit(m, e, "reasoning_content", <<x>>)
<1>1. Kept(m, d.reasonings, x) \in Seq(Texts)  BY DEF Kept, DecoderSet
<1>2. e \in DecoderSet /\ e.frames = <<>> /\ e.consumed = d.consumed /\ (e.done <=> d.done)
      /\ e.fatal = d.fatal /\ e.tools = d.tools /\ (e.sentRole <=> d.sentRole)
  BY <1>1 DEF DecoderSet
<1>3. <<x>> \in Seq(Texts \cup Tools)  OBVIOUS
<1>4. FoldReasoning(m, d, x) = p  BY DEF FoldReasoning
<1> HIDE DEF e
<1>5. KeepsRest(e, p) /\ p.tools = e.tools /\ Emitted(m, e, p, "reasoning_content")
  BY <1>2, <1>3, EmitEffect DEF DataKinds
<1> HIDE DEF p
<1>6. KeepsRest(d, p)  BY <1>2, <1>5 DEF KeepsRest
<1>7. Adds(m, d, p)  BY <1>2, <1>5 DEF Adds, DataFrame, Emitted, KeepsRest, Modes
<1> QED  BY <1>4, <1>6, <1>7

(* A tool call.                                                             *)
LEMMA FoldToolEffect ==
    ASSUME NEW m \in Modes, NEW d \in DecoderSet, d.frames = <<>>, NEW x \in Tools
    PROVE  KeepsRest(d, FoldTool(m, d, x)) /\ Adds(m, d, FoldTool(m, d, x))
<1> DEFINE e == [d EXCEPT !.calls = Kept(m, @, x)]
           p == Emit(m, e, "tool_calls", <<x>>)
           q == IF m = "streaming" THEN [p EXCEPT !.tools = @ + 1] ELSE p
<1>1. Kept(m, d.calls, x) \in Seq(Tools)  BY DEF Kept, DecoderSet
<1>2. e \in DecoderSet /\ e.frames = <<>> /\ e.consumed = d.consumed /\ (e.done <=> d.done)
      /\ e.fatal = d.fatal /\ e.tools = d.tools /\ (e.sentRole <=> d.sentRole)
  BY <1>1 DEF DecoderSet
<1>3. <<x>> \in Seq(Texts \cup Tools)  OBVIOUS
<1>4. FoldTool(m, d, x) = q  BY DEF FoldTool
<1> HIDE DEF e
<1>5. KeepsRest(e, p) /\ p.tools = e.tools /\ Emitted(m, e, p, "tool_calls")
  BY <1>2, <1>3, EmitEffect DEF DataKinds
<1> HIDE DEF p
<1>6. /\ q \in DecoderSet /\ q.consumed = p.consumed /\ (q.done <=> p.done) /\ q.fatal = p.fatal
      /\ q.frames = p.frames /\ (q.sentRole <=> p.sentRole)
      /\ m = "streaming" => q.tools = p.tools + 1
  <2>1. p \in DecoderSet  BY <1>5 DEF KeepsRest
  <2>2. p.tools + 1 \in Nat  BY <2>1 DEF DecoderSet
  <2>3. [p EXCEPT !.tools = @ + 1] \in DecoderSet  BY <2>1, <2>2 DEF DecoderSet
  <2> QED  BY <2>1, <2>3 DEF DecoderSet
<1> HIDE DEF q
<1>7. KeepsRest(d, q)  BY <1>2, <1>5, <1>6 DEF KeepsRest
<1>8. Adds(m, d, q)  BY <1>2, <1>5, <1>6 DEF Adds, DataFrame, Emitted, KeepsRest, Modes
<1> QED  BY <1>4, <1>7, <1>8

(* The finish event.                                                        *)
LEMMA FoldFinishEffect ==
    ASSUME NEW m \in Modes, NEW d \in DecoderSet, d.frames = <<>>,
           NEW reason \in FinishReasons, NEW usage \in Usages \cup {NoUsage}
    PROVE  LET q == FoldFinish(m, d, reason, usage)
           IN  q \in DecoderSet /\ q.consumed = d.consumed /\ q.done /\ q.fatal = d.fatal
               /\ AddsLast(m, d, q)
<1> DEFINE e == [d EXCEPT !.finish = mapFinishReason(reason), !.usage = usage, !.done = TRUE]
           p == Emit(m, e, "role", <<>>)
           r == IF d.sentRole THEN e ELSE p
           g == FinalFrame(e.finish, e.usage)
           q == IF m = "buffered" THEN e ELSE [r EXCEPT !.frames = Append(@, g)]
<1>1. mapFinishReason(reason) \in Finishes  BY DEF mapFinishReason, FinishReasons, Finishes
<1>2. e \in DecoderSet /\ e.frames = <<>> /\ e.consumed = d.consumed /\ e.done
      /\ e.fatal = d.fatal /\ e.tools = d.tools /\ (e.sentRole <=> d.sentRole)
  BY <1>1 DEF DecoderSet
<1>3. <<>> \in Seq(Texts \cup Tools)  OBVIOUS
<1>4. FoldFinish(m, d, reason, usage) = q  BY DEF FoldFinish
<1>5. e.finish \in Finishes /\ e.usage \in Usages \cup {NoUsage}  BY <1>2 DEF DecoderSet
<1> HIDE DEF e
<1>6. g \in FrameSet /\ g.kind = "final"  BY <1>5, FinalFrameType
<1>7. KeepsRest(e, p) /\ p.tools = e.tools /\ Emitted(m, e, p, "role")
  BY <1>2, <1>3, EmitEffect DEF DataKinds
<1> HIDE DEF p, g
<1>8. CASE m = "buffered"
  <2>1. q = e  BY <1>8
  <2> QED  BY <1>2, <1>4, <1>8, <2>1 DEF AddsLast
<1>9. CASE m = "streaming"
  <2>1. r \in DecoderSet /\ r.consumed = d.consumed /\ r.done /\ r.fatal = d.fatal /\ r.sentRole
    BY <1>2, <1>7, <1>9 DEF KeepsRest, Emitted
  <2>2. q = [r EXCEPT !.frames = Append(@, g)]  BY <1>9
  <2>3. \E f \in FrameSet : /\ f.kind = "role" /\ f.role
                            /\ Append(r.frames, g) = IF d.sentRole THEN <<g>> ELSE Append(<<f>>, g)
    <3>1. PICK f \in FrameSet : /\ p.frames = <<f>> /\ f.kind = "role" /\ (f.role <=> ~e.sentRole)
      BY <1>7, <1>9 DEF Emitted
    <3>2. CASE d.sentRole
      <4>1. \E h \in FrameSet : h.kind = "role" /\ h.role
        <5>1. Frame("role", <<>>, 0, TRUE) \in FrameSet  BY <1>3, FrameType DEF DataKinds
        <5> QED  BY <5>1 DEF Frame
      <4>2. r.frames = <<>>  BY <1>2, <3>2
      <4> HIDE DEF r
      <4>3. Append(r.frames, g) = <<g>>  BY <4>2
      <4> QED  BY <3>2, <4>1, <4>3
    <3>3. CASE ~d.sentRole
      <4>1. r.frames = <<f>>  BY <3>1, <3>3
      <4>2. f.role  BY <1>2, <3>1, <3>3
      <4>3. Append(r.frames, g) = Append(<<f>>, g)  BY <4>1
      <4> QED  BY <3>1, <3>3, <4>2, <4>3
    <3> QED  BY <3>2, <3>3
  <2>4. Append(r.frames, g) \in Seq(FrameSet)  BY <1>6, <2>1 DEF DecoderSet
  <2> HIDE DEF r
  <2>5. q \in DecoderSet /\ q.consumed = r.consumed /\ (q.done <=> r.done) /\ q.fatal = r.fatal
        /\ (q.sentRole <=> r.sentRole) /\ q.frames = Append(r.frames, g)
    BY <2>1, <2>2, <2>4 DEF DecoderSet
  <2> HIDE DEF q
  <2>6. LastFrames(d, q)  BY <1>6, <2>1, <2>3, <2>5 DEF LastFrames
  <2> QED  BY <1>4, <1>9, <2>1, <2>5, <2>6 DEF AddsLast
<1> QED  BY <1>8, <1>9 DEF Modes

(* A failure leaves no frame behind.                                        *)
LEMMA FatalEffect ==
    ASSUME NEW d \in DecoderSet, NEW why \in Failures
    PROVE  /\ Fatal(d, why) \in DecoderSet /\ Fatal(d, why).fatal = why
           /\ Fatal(d, why).consumed = d.consumed /\ (Fatal(d, why).done <=> d.done)
           /\ Fatal(d, why).frames = d.frames /\ Fatal(d, why).tools = d.tools
           /\ (Fatal(d, why).sentRole <=> d.sentRole)
  BY DEF Fatal, DecoderSet

(* One push on a decoder that reads: it counts the line; it fails, goes on, *)
(* or is done, and then for a finish event; and it fails for its size only  *)
(* on a line that is oversized, and always on one.                          *)
LEMMA PushEffect ==
    ASSUME NEW m \in Modes, NEW d \in DecoderSet, NEW l \in Lines, d.fatal = "", ~d.done
    PROVE  LET p == push(m, d, l)
           IN  /\ p \in DecoderSet /\ p.consumed = d.consumed + l.size + 1
               /\ p.fatal = "size" <=> Oversized(d, l)
               /\ p.fatal # "" => ~p.done /\ p.frames = <<>>
               /\ p.done => l.event.type = "finish"
               /\ p.done => AddsLast(m, d, p)
               /\ ~p.done => Adds(m, d, p)
<1> DEFINE o == Opened(d, l)
           e == l.event
           p == push(m, d, l)
<1>1. /\ o \in DecoderSet /\ o.frames = <<>> /\ o.consumed = d.consumed + l.size + 1
      /\ o.tools = d.tools /\ (o.sentRole <=> d.sentRole) /\ ~o.done /\ o.fatal = ""
  BY OpenedType
<1>2. e \in Events  BY DEF Lines
<1>3. p = IF Oversized(d, l) THEN Fatal(o, "size") ELSE applyEvent(m, o, e)  BY DEF push, Opened
<1> HIDE DEF o, e, p
<1>4. \A q : (Adds(m, o, q) => Adds(m, d, q)) /\ (AddsLast(m, o, q) => AddsLast(m, d, q))
  BY <1>1 DEF Adds, AddsLast, NoFrame, DataFrame, LastFrames
<1> DEFINE Goal == /\ p \in DecoderSet /\ p.consumed = d.consumed + l.size + 1
                   /\ p.fatal = "size" <=> Oversized(d, l)
                   /\ p.fatal # "" => ~p.done /\ p.frames = <<>>
                   /\ p.done => e.type = "finish"
                   /\ p.done => AddsLast(m, d, p)
                   /\ ~p.done => Adds(m, d, p)
<1>5. ASSUME NEW why \in Failures, why # "", p = Fatal(o, why), why = "size" <=> Oversized(d, l)
      PROVE  Goal
  <2>1. p \in DecoderSet /\ p.fatal = why /\ p.consumed = o.consumed /\ ~p.done
        /\ p.frames = <<>> /\ p.tools = o.tools /\ (p.sentRole <=> o.sentRole)
    BY <1>1, <1>5, FatalEffect
  <2>2. Adds(m, d, p)  BY <1>1, <2>1 DEF Adds, NoFrame, Modes
  <2> QED  BY <1>1, <1>5, <2>1, <2>2
<1>6. ASSUME ~Oversized(d, l), KeepsRest(o, p), Adds(m, o, p)
      PROVE  Goal
  BY <1>1, <1>4, <1>6 DEF KeepsRest
<1>7. CASE Oversized(d, l)
  <2>1. p = Fatal(o, "size")  BY <1>3, <1>7
  <2>2. "size" \in Failures  BY DEF Failures
  <2> QED  BY <1>5, <1>7, <2>1, <2>2 DEF e, p
<1>8. CASE ~Oversized(d, l)
  <2>1. p = applyEvent(m, o, e)  BY <1>3, <1>8
  <2>2. CASE e.type = "text-delta" /\ e.data # NoContent /\ p = FoldText(m, o, e.data)
    <3>1. e.data \in Texts  BY <1>2, <2>2, EventData
    <3>2. KeepsRest(o, p) /\ Adds(m, o, p)  BY <1>1, <2>2, <3>1, FoldTextEffect
    <3> QED  BY <1>6, <1>8, <3>2 DEF e, p
  <2>3. CASE e.type = "reasoning-delta" /\ e.data # NoContent /\ p = FoldReasoning(m, o, e.data)
    <3>1. e.data \in Texts  BY <1>2, <2>3, EventData
    <3>2. KeepsRest(o, p) /\ Adds(m, o, p)  BY <1>1, <2>3, <3>1, FoldReasoningEffect
    <3> QED  BY <1>6, <1>8, <3>2 DEF e, p
  <2>4. CASE e.type = "tool-call" /\ p = FoldTool(m, o, e.data)
    <3>1. e.data \in Tools  BY <1>2, <2>4, EventData
    <3>2. KeepsRest(o, p) /\ Adds(m, o, p)  BY <1>1, <2>4, <3>1, FoldToolEffect
    <3> QED  BY <1>6, <1>8, <3>2 DEF e, p
  <2>5. CASE e.type = "finish" /\ p = FoldFinish(m, o, e.data, e.usage)
    <3>1. e.data \in FinishReasons /\ e.usage \in Usages \cup {NoUsage}  BY <1>2, <2>5, EventData
    <3>2. p \in DecoderSet /\ p.consumed = o.consumed /\ p.done /\ p.fatal = o.fatal
          /\ AddsLast(m, o, p)
      BY <1>1, <2>5, <3>1, FoldFinishEffect
    <3>3. AddsLast(m, d, p)  BY <1>4, <3>2
    <3> QED  BY <1>1, <1>8, <2>5, <3>2, <3>3 DEF e, p
  <2>6. CASE e.type \in {"malformed", "error", "abort"} /\ p = Fatal(o, e.type)
    <3>1. e.type \in Failures /\ e.type # "" /\ e.type # "size"  BY <2>6 DEF Failures
    <3> QED  BY <1>5, <1>8, <2>6, <3>1 DEF e, p
  <2>7. CASE e.type # "finish" /\ p = o
    <3>1. KeepsRest(o, p) /\ Adds(m, o, p)  BY <1>1, <2>7 DEF KeepsRest, Adds, NoFrame, Modes
    <3> QED  BY <1>6, <1>8, <3>1 DEF e, p
  <2> QED  BY <1>2, <2>1, <2>2, <2>3, <2>4, <2>5, <2>6, <2>7, ApplyCases
<1> QED  BY <1>7, <1>8

--------------------------------------------------------------------------------
(* Well-formed streams                                                      *)

(* One more frame.                                                          *)
LEMMA Appended ==
    ASSUME NEW G \in Seq(FrameSet), NEW f \in FrameSet
    PROVE  /\ Append(G, f) \in Seq(FrameSet) /\ Append(G, f) # <<>>
           /\ Len(G) \in Nat /\ Len(Append(G, f)) = Len(G) + 1
           /\ DOMAIN G = 1 .. Len(G) /\ DOMAIN Append(G, f) = 1 .. Len(G) + 1
           /\ \A i \in 1 .. Len(G) : Append(G, f)[i] = G[i]
           /\ Append(G, f)[Len(G) + 1] = f
  OBVIOUS

(* Frames have indexes.                                                     *)
LEMMA Indexed ==
    ASSUME NEW G \in Seq(FrameSet), NEW i \in DOMAIN G
    PROVE  G[i].index \in Nat
<1>1. G[i] \in FrameSet  OBVIOUS
<1> QED  BY <1>1 DEF FrameSet

(* A frame with content, reasoning or a tool call on a stream that goes on. *)
LEMMA DataExtends ==
    ASSUME NEW d \in DecoderSet, NEW p \in DecoderSet, NEW G \in Seq(FrameSet), NEW f \in FrameSet,
           WellFormed(G), ~Ended(G), Remembers(d, G),
           f.role <=> ~d.sentRole, p.sentRole,
           \/ f.kind \in {"content", "reasoning_content"} /\ p.tools = d.tools
           \/ f.kind = "tool_calls" /\ f.index = d.tools /\ p.tools = d.tools + 1
    PROVE  WellFormed(Append(G, f)) /\ ~Ended(Append(G, f)) /\ Remembers(p, Append(G, f))
<1> DEFINE H == Append(G, f)
           n == Len(G) + 1
<1>1. /\ H # <<>> /\ Len(G) \in Nat /\ Len(H) = n /\ DOMAIN G = 1 .. Len(G) /\ DOMAIN H = 1 .. n
      /\ (\A i \in 1 .. Len(G) : H[i] = G[i]) /\ H[n] = f
  BY Appended
<1>2. f.kind # "final"  OBVIOUS
<1>3. n \in Nat /\ (n = 1 <=> G = <<>>)  BY <1>1
<1> HIDE DEF H
<1>4. \A i \in DOMAIN G : G[i].kind # "final"  BY <1>1 DEF WellFormed, Ended
<1>5. ~Ended(H)  BY <1>1, <1>2 DEF Ended
<1>6. d.tools \in Nat /\ \A i \in DOMAIN G : G[i].index \in Nat
  <2>1. d.tools \in Nat  BY DEF DecoderSet
  <2> QED  BY <2>1, Indexed
<1>7. Calls(H) = Calls(G) \cup IF f.kind = "tool_calls" THEN {n} ELSE {}
  BY <1>1 DEF Calls
<1>8. \A i \in Calls(G) : i \in 1 .. Len(G) /\ H[i] = G[i]  BY <1>1 DEF Calls
<1>9. (\A i \in Calls(H) : H[i].index < p.tools)
      /\ \A k \in Nat : k < p.tools => \E j \in Calls(H) : H[j].index = k
  BY <1>1, <1>6, <1>7, <1>8 DEF Remembers
<1>10. Remembers(p, H)  BY <1>1, <1>9 DEF Remembers
<1>11. \A i \in DOMAIN H : (H[i].kind # "final" /\ H[i].role) <=> i = 1
  <2> SUFFICES ASSUME NEW i \in DOMAIN H
               PROVE  (H[i].kind # "final" /\ H[i].role) <=> i = 1
    OBVIOUS
  <2>1. CASE i = n  BY <1>1, <1>2, <1>3, <2>1 DEF Remembers
  <2>2. CASE i \in 1 .. Len(G)  BY <1>1, <2>2 DEF WellFormed
  <2> QED  BY <1>1, <2>1, <2>2
<1>12. \A i \in DOMAIN H : H[i].kind = "final" => i = Len(H)
  BY <1>1, <1>2, <1>4
<1>13. \A i, j \in Calls(H) : i < j => H[i].index < H[j].index
  <2> SUFFICES ASSUME NEW i \in Calls(H), NEW j \in Calls(H), i < j
               PROVE  H[i].index < H[j].index
    OBVIOUS
  <2>1. i \in Calls(G)  BY <1>1, <1>7 DEF Calls
  <2>2. CASE j \in Calls(G)  BY <1>8, <2>1, <2>2 DEF WellFormed
  <2>3. CASE j = n /\ f.kind = "tool_calls"
    <3>1. G[i].index < d.tools  BY <2>1 DEF Remembers
    <3> QED  BY <1>1, <1>8, <2>1, <2>3, <3>1
  <2> QED  BY <1>7, <2>2, <2>3
<1>14. \A i \in Calls(H) : \A k \in 0 .. H[i].index : \E j \in Calls(H) : H[j].index = k
  <2> SUFFICES ASSUME NEW i \in Calls(H), NEW k \in 0 .. H[i].index
               PROVE  \E j \in Calls(H) : H[j].index = k
    OBVIOUS
  <2>1. H[i].index \in Nat /\ p.tools \in Nat
    <3>1. H \in Seq(FrameSet)  BY Appended DEF H
    <3>2. i \in DOMAIN H  BY DEF Calls
    <3>3. p.tools \in Nat  BY DEF DecoderSet
    <3> QED  BY <3>1, <3>2, <3>3, Indexed
  <2>2. k \in Nat /\ k < p.tools  BY <1>9, <2>1
  <2> QED  BY <1>9, <2>2
<1> QED  BY <1>5, <1>10, <1>11, <1>12, <1>13, <1>14 DEF WellFormed, H

(* The final frame on a stream that has one with the role.                  *)
LEMMA FinalExtends ==
    ASSUME NEW G \in Seq(FrameSet), NEW g \in FrameSet,
           WellFormed(G), ~Ended(G), G # <<>>, g.kind = "final"
    PROVE  WellFormed(Append(G, g)) /\ Ended(Append(G, g))
<1> DEFINE H == Append(G, g)
           n == Len(G) + 1
<1>1. /\ H # <<>> /\ Len(G) \in Nat /\ Len(H) = n /\ DOMAIN G = 1 .. Len(G) /\ DOMAIN H = 1 .. n
      /\ (\A i \in 1 .. Len(G) : H[i] = G[i]) /\ H[n] = g
  BY Appended
<1>2. n \in Nat /\ n # 1  BY <1>1
<1> HIDE DEF H
<1>3. Ended(H)  BY <1>1 DEF Ended
<1>4. \A i \in DOMAIN G : G[i].kind # "final"  BY <1>1 DEF WellFormed, Ended
<1>5. Calls(H) = Calls(G) /\ \A i \in Calls(G) : H[i] = G[i]  BY <1>1 DEF Calls
<1>6. \A i \in DOMAIN H : (H[i].kind # "final" /\ H[i].role) <=> i = 1
  <2> SUFFICES ASSUME NEW i \in DOMAIN H
               PROVE  (H[i].kind # "final" /\ H[i].role) <=> i = 1
    OBVIOUS
  <2>1. CASE i = n  BY <1>1, <1>2, <2>1
  <2>2. CASE i \in 1 .. Len(G)  BY <1>1, <2>2 DEF WellFormed
  <2> QED  BY <1>1, <2>1, <2>2
<1>7. \A i \in DOMAIN H : H[i].kind = "final" => i = Len(H)
  BY <1>1, <1>4
<1>8. /\ \A i, j \in Calls(H) : i < j => H[i].index < H[j].index
      /\ \A i \in Calls(H) : \A k \in 0 .. H[i].index : \E j \in Calls(H) : H[j].index = k
  BY <1>5 DEF WellFormed
<1> QED  BY <1>3, <1>6, <1>7, <1>8 DEF WellFormed, H

(* What the host took is a prefix: well formed too, and without the final   *)
(* frame while one is still queued.                                         *)
LEMMA PrefixWellFormed ==
    ASSUME NEW s \in Seq(FrameSet), NEW t \in Seq(FrameSet), WellFormed(s \o t)
    PROVE  WellFormed(s) /\ (t # <<>> => ~Ended(s))
<1> DEFINE G == s \o t
<1>1. /\ G \in Seq(FrameSet) /\ Len(s) \in Nat /\ Len(t) \in Nat /\ Len(G) = Len(s) + Len(t)
      /\ DOMAIN s = 1 .. Len(s) /\ DOMAIN G = 1 .. Len(G)
      /\ \A i \in 1 .. Len(s) : G[i] = s[i]
  OBVIOUS
<1>2. t # <<>> => Len(t) > 0  OBVIOUS
<1>3. s # <<>> => Len(s) > 0  OBVIOUS
<1> HIDE DEF G
<1>4. WellFormed(G)  BY DEF G
<1>5. \A i \in DOMAIN s : i \in DOMAIN G /\ G[i] = s[i]  BY <1>1
<1>6. \A i \in Calls(s) : i \in Calls(G) /\ G[i] = s[i] /\ G[i].index \in Nat
  <2> SUFFICES ASSUME NEW i \in Calls(s)
               PROVE  i \in Calls(G) /\ G[i] = s[i] /\ G[i].index \in Nat
    OBVIOUS
  <2>1. i \in Calls(G) /\ G[i] = s[i]  BY <1>5 DEF Calls
  <2>2. i \in DOMAIN G  BY <2>1 DEF Calls
  <2> QED  BY <1>1, <2>1, <2>2, Indexed
<1>7. \A i \in DOMAIN s : (s[i].kind # "final" /\ s[i].role) <=> i = 1
  BY <1>4, <1>5 DEF WellFormed
<1>8. \A i \in DOMAIN s : s[i].kind = "final" => i = Len(G)
  BY <1>4, <1>5 DEF WellFormed
<1>9. \A i \in DOMAIN s : s[i].kind = "final" => i = Len(s)
  BY <1>1, <1>8
<1>10. t # <<>> => ~Ended(s)
  BY <1>1, <1>2, <1>3, <1>8 DEF Ended
<1>11. \A i, j \in Calls(s) : i < j => s[i].index < s[j].index
  BY <1>4, <1>6 DEF WellFormed
<1>12. \A i \in Calls(s) : \A k \in 0 .. s[i].index : \E j \in Calls(s) : s[j].index = k
  <2> SUFFICES ASSUME NEW i \in Calls(s), NEW k \in 0 .. s[i].index
               PROVE  \E j \in Calls(s) : s[j].index = k
    OBVIOUS
  <2>1. i \in Calls(G) /\ G[i] = s[i] /\ G[i].index \in Nat  BY <1>6
  <2>2. CASE k = s[i].index  BY <2>2
  <2>3. CASE k # s[i].index
    <3>1. k \in Nat /\ k < G[i].index  BY <2>1, <2>3
    <3>2. PICK j \in Calls(G) : G[j].index = k  BY <1>4, <2>1 DEF WellFormed
    <3>3. i \in 1 .. Len(s) /\ j \in 1 .. Len(G)  BY <1>1 DEF Calls
    <3>4. ~(i < j)  BY <1>4, <2>1, <3>1, <3>2 DEF WellFormed
    <3>5. j \in 1 .. Len(s)  BY <1>1, <3>3, <3>4
    <3>6. j \in Calls(s) /\ s[j] = G[j]  BY <1>1, <3>5 DEF Calls
    <3> QED  BY <3>2, <3>6
  <2> QED  BY <2>2, <2>3
<1> QED  BY <1>7, <1>9, <1>10, <1>11, <1>12 DEF WellFormed

(* An empty queue or push adds nothing.                                     *)
LEMMA NoMore ==
    ASSUME NEW G \in Seq(FrameSet)
    PROVE  G \o <<>> = G
  OBVIOUS

(* What one push adds to the stream.                                        *)
LEMMA StreamGrows ==
    ASSUME NEW d \in DecoderSet, NEW p \in DecoderSet, NEW G \in Seq(FrameSet),
           WellFormed(G), ~Ended(G), Remembers(d, G), ~d.done,
           p.done => AddsLast("streaming", d, p), ~p.done => Adds("streaming", d, p)
    PROVE  /\ WellFormed(G \o p.frames)
           /\ p.done <=> Ended(G \o p.frames)
           /\ ~p.done => Remembers(p, G \o p.frames)
           /\ p.done => p.frames # <<>>
<1>1. CASE p.done
  <2>1. PICK f \in FrameSet, g \in FrameSet :
           /\ f.kind = "role" /\ f.role /\ g.kind = "final"
           /\ p.frames = IF d.sentRole THEN <<g>> ELSE Append(<<f>>, g)
    BY <1>1 DEF AddsLast, LastFrames
  <2>2. CASE d.sentRole
    <3>1. p.frames = <<g>> /\ G # <<>>  BY <2>1, <2>2 DEF Remembers
    <3>2. G \o p.frames = Append(G, g) /\ p.frames # <<>>  BY <3>1
    <3>3. WellFormed(Append(G, g)) /\ Ended(Append(G, g))  BY <2>1, <3>1, FinalExtends
    <3> DEFINE H == G \o p.frames
    <3> HIDE DEF H
    <3>4. H = Append(G, g)  BY <3>2 DEF H
    <3>5. WellFormed(H) /\ Ended(H)  BY <3>3, <3>4
    <3> QED  BY <1>1, <3>2, <3>5 DEF H
  <2>3. CASE ~d.sentRole
    <3>1. G = <<>> /\ p.frames = Append(<<f>>, g)  BY <2>1, <2>3 DEF Remembers
    <3>2. G \o Append(<<f>>, g) = Append(Append(G, f), g)
      <4>1. <<f>> \in Seq(FrameSet)  OBVIOUS
      <4> QED  BY <4>1
    <3>3. Append(G, f) \in Seq(FrameSet) /\ Append(G, f) # <<>>  BY Appended
    <3>4. WellFormed(Append(G, f)) /\ ~Ended(Append(G, f))
      <4>1. /\ Len(G) = 0 /\ Len(Append(G, f)) = 1 /\ DOMAIN Append(G, f) = {1}
            /\ Append(G, f)[1] = f
        <5>1. Len(G) = 0  BY <3>1
        <5>2. 1 .. 0 + 1 = {1}  OBVIOUS
        <5> QED  BY <5>1, <5>2, Appended
      <4> DEFINE H == Append(G, f)
      <4> HIDE DEF H
      <4>2. Calls(H) = {}  BY <2>1, <4>1 DEF Calls, H
      <4>3. WellFormed(H)  BY <2>1, <4>1, <4>2 DEF WellFormed, H
      <4>4. ~Ended(H)  BY <2>1, <4>1 DEF Ended, H
      <4> QED  BY <4>3, <4>4 DEF H
    <3>5. WellFormed(Append(Append(G, f), g)) /\ Ended(Append(Append(G, f), g))
      BY <2>1, <3>3, <3>4, FinalExtends
    <3>6. p.frames # <<>>
      <4>1. <<f>> \in Seq(FrameSet)  OBVIOUS
      <4> QED  BY <3>1, <4>1, Appended
    <3> QED  BY <1>1, <3>1, <3>2, <3>5, <3>6
  <2> QED  BY <2>2, <2>3
<1>2. CASE ~p.done
  <2>1. CASE NoFrame(d, p)
    <3>1. p.frames = <<>> /\ (p.sentRole <=> d.sentRole) /\ p.tools = d.tools  BY <2>1 DEF NoFrame
    <3>2. G \o p.frames = G  BY <3>1, NoMore
    <3>3. Remembers(p, G)  BY <3>1 DEF Remembers
    <3> DEFINE H == G \o p.frames
    <3> HIDE DEF H
    <3>4. H = G  BY <3>2 DEF H
    <3>5. WellFormed(H) /\ ~Ended(H) /\ Remembers(p, H)  BY <3>3, <3>4
    <3> QED  BY <1>2, <3>5 DEF H
  <2>2. CASE DataFrame(d, p)
    <3>1. PICK f \in FrameSet : /\ p.frames = <<f>> /\ (f.role <=> ~d.sentRole)
                               /\ \/ f.kind \in {"content", "reasoning_content"} /\ p.tools = d.tools
                                  \/ f.kind = "tool_calls" /\ f.index = d.tools /\ p.tools = d.tools + 1
      BY <2>2 DEF DataFrame
    <3>2. p.sentRole  BY <2>2 DEF DataFrame
    <3>3. G \o <<f>> = Append(G, f)  OBVIOUS
    <3>4. WellFormed(Append(G, f)) /\ ~Ended(Append(G, f)) /\ Remembers(p, Append(G, f))
      BY <3>1, <3>2, DataExtends
    <3> QED  BY <1>2, <3>1, <3>3, <3>4
  <2> QED  BY <1>2, <2>1, <2>2 DEF Adds
<1> QED  BY <1>1, <1>2

--------------------------------------------------------------------------------
(* The actions                                                              *)

(* What the host took, when the queue is empty.                             *)
LEMMA NothingQueued ==
    ASSUME TypeOK, queue = <<>>
    PROVE  Stream = sent
<1>1. sent \in Seq(FrameSet)  BY DEF TypeOK
<1> QED  BY <1>1, NoMore DEF Stream

(* Of an empty body nothing is counted.                                     *)
LEMMA InitBody ==
    ASSUME Init
    PROVE  body.bytes = 0 /\ body.longest = 0 /\ body.ended = FALSE /\ Counted = 0
<1>1. body = [lines |-> 0, bytes |-> 0, longest |-> 0, ended |-> FALSE, finished |-> FALSE]
  BY DEF Init
<1>2. body.bytes = 0 /\ body.longest = 0  BY <1>1
<1>3. body.ended = FALSE  BY <1>1, Zenon
<1>4. (IF body.ended THEN 1 ELSE 0) = 0  BY <1>3, Zenon
<1>5. Counted = 0  BY <1>2, <1>4 DEF Counted
<1> QED  BY <1>2, <1>3, <1>5

(* The invariant holds initially.                                           *)
LEMMA InitIInv == Init => IInv
<1> SUFFICES ASSUME Init PROVE IInv
  OBVIOUS
<1>1. NewDecoder \in DecoderSet /\ NewDecoder.fatal = "" /\ ~NewDecoder.done
      /\ ~NewDecoder.sentRole /\ NewDecoder.consumed = 0 /\ NewDecoder.tools = 0
  BY DEF NewDecoder, DecoderSet, Finishes, Failures
<1>2. \A m \in Modes : dec[m] = NewDecoder /\ verdict[m] = "reading"  BY DEF Init
<1>3. dec \in [Modes -> DecoderSet]  BY <1>1 DEF Init
<1>4. verdict \in [Modes -> Verdicts]  BY DEF Init, Verdicts
<1>5. counted \in [Modes -> {"", "with", "without", "truncated"}]  BY DEF Init
<1>6. TypeOK
  <2>1. queue \in Seq(FrameSet) /\ sent \in Seq(FrameSet)
    <3>1. queue = <<>> /\ sent = <<>>  BY DEF Init
    <3> QED  BY <3>1
  <2>2. body \in BodySet  BY DEF Init, BodySet
  <2>3. \A m \in Modes : ~(dec[m].done /\ dec[m].fatal # "")  BY <1>1, <1>2
  <2> QED  BY <1>3, <1>4, <1>5, <2>1, <2>2, <2>3 DEF TypeOK
<1>7. LiveInv /\ FinishedInv
  BY <1>1, <1>2, InitBody DEF Init, LiveInv, Live, FinishedInv, Finished
<1>8. RefusalsInv  BY <1>2 DEF RefusalsInv
<1>9. StreamInv
  <2>1. Stream = <<>>  BY <1>6, NothingQueued DEF Init
  <2>2. Calls(Stream) = {}  BY <2>1 DEF Calls
  <2>3. WellFormed(Stream) /\ ~Ended(Stream)  BY <2>1, <2>2 DEF WellFormed, Ended
  <2>4. Remembers(NewDecoder, Stream)
    <3>1. \A k \in Nat : ~(k < 0)  OBVIOUS
    <3> QED  BY <1>1, <2>1, <2>2, <3>1 DEF Remembers
  <2>5. "streaming" \in Modes  BY DEF Modes
  <2> QED  BY <1>1, <1>2, <2>3, <2>4, <2>5 DEF StreamInv, Reading
<1> QED  BY <1>6, <1>7, <1>8, <1>9 DEF IInv

(* A limit once passed stays passed, whatever line follows.                 *)
LEMMA Beyond == \A a, b, c \in Nat : a > c /\ b >= a => b > c
  OBVIOUS

LEMMA PastStays ==
    ASSUME TypeOK, body' \in BodySet, PastLimits,
           \/ body' = body
           \/ ~body.ended /\ body'.bytes >= body.bytes /\ body'.longest >= body.longest
    PROVE  PastLimits'
<1>1. CASE body' = body  BY <1>1 DEF PastLimits
<1>2. CASE ~body.ended /\ body'.bytes >= body.bytes /\ body'.longest >= body.longest
  <2>1. /\ body.bytes \in Nat /\ body.longest \in Nat /\ body'.bytes \in Nat /\ body'.longest \in Nat
        /\ MaxEventBytes \in Nat /\ MaxResponseBytes \in Nat
    BY LimitsAssumption DEF TypeOK, BodySet
  <2>2. body.longest > MaxEventBytes \/ body.bytes > MaxResponseBytes  BY <1>2 DEF PastLimits
  <2>3. body'.longest > MaxEventBytes \/ body'.bytes > MaxResponseBytes
    BY <1>2, <2>1, <2>2, Beyond
  <2> QED  BY <2>3 DEF PastLimits
<1> QED  BY <1>1, <1>2

(* A body or a connection that stops: the readers get one verdict, and the  *)
(* rest stays.                                                              *)
LEMMA StopsPreserves ==
    ASSUME IInv, queue = <<>>, NEW v \in {"scan", "broken", "truncated"},
           verdict' = [m \in Modes |-> IF m \in Reading THEN v ELSE verdict[m]],
           dec' \in [Modes -> DecoderSet],
           \A m \in Modes : \/ dec'[m] = dec[m]
                            \/ m \in Reading /\ dec'[m] = Fatal(dec[m], "truncated"),
           counted' \in [Modes -> {"", "with", "without", "truncated"}],
           body' \in BodySet,
           \/ body' = body
           \/ ~body.ended /\ body'.bytes >= body.bytes /\ body'.longest >= body.longest,
           body.finished => body'.finished,
           v = "scan" => body'.longest > MaxEventBytes,
           UNCHANGED <<queue, sent>>
    PROVE  IInv'
<1> USE DEF IInv
<1>1. verdict' \in [Modes -> Verdicts]  BY DEF TypeOK, Verdicts
<1>2. \A m \in Modes : verdict'[m] = IF m \in Reading THEN v ELSE verdict[m]  OBVIOUS
<1>3. \A m \in Modes : verdict'[m] # "reading"  BY <1>2 DEF Reading
<1>4. \A m \in Modes : dec[m] \in DecoderSet /\ dec'[m] \in DecoderSet  BY DEF TypeOK
<1>5. \A m \in Modes : m \in Reading => ~dec[m].done  BY DEF LiveInv, Live
<1>6. \A m \in Modes : /\ dec'[m].done <=> dec[m].done
                       /\ dec'[m].fatal = "" => dec[m].fatal = "" /\ dec'[m].consumed = dec[m].consumed
                       /\ ~(dec'[m].done /\ dec'[m].fatal # "")
  <2> SUFFICES ASSUME NEW m \in Modes
               PROVE  /\ dec'[m].done <=> dec[m].done
                      /\ dec'[m].fatal = "" => dec[m].fatal = "" /\ dec'[m].consumed = dec[m].consumed
                      /\ ~(dec'[m].done /\ dec'[m].fatal # "")
    OBVIOUS
  <2>1. CASE dec'[m] = dec[m]  BY <2>1 DEF TypeOK
  <2>2. CASE m \in Reading /\ dec'[m] = Fatal(dec[m], "truncated")
    <3>1. "truncated" \in Failures  BY DEF Failures
    <3>2. dec[m] \in DecoderSet  BY <1>4
    <3>3. Fatal(dec[m], "truncated").fatal = "truncated"
          /\ (Fatal(dec[m], "truncated").done <=> dec[m].done)
      BY <3>1, <3>2, FatalEffect
    <3> QED  BY <1>5, <2>2, <3>3
  <2> QED  BY <2>1, <2>2
<1>7. TypeOK'  BY <1>1, <1>6 DEF TypeOK
<1>8. LiveInv'  BY <1>3 DEF LiveInv, Live, Reading
<1>9. RefusalsInv'
  <2> SUFFICES ASSUME NEW m \in Modes, verdict'[m] \in {"size", "scan"}
               PROVE  PastLimits'
    BY DEF RefusalsInv
  <2>1. CASE m \in Reading  BY <1>2, <2>1 DEF PastLimits
  <2>2. CASE m \notin Reading
    <3>1. PastLimits  BY <1>2, <2>2 DEF RefusalsInv
    <3> QED  BY <3>1, PastStays DEF IInv
  <2> QED  BY <2>1, <2>2
<1>10. FinishedInv'  BY <1>2, <1>6 DEF FinishedInv, Finished
<1>11. StreamInv'
  <2>1. Stream = sent /\ Stream' = sent  BY NothingQueued DEF Stream
  <2>2. "streaming" \in Modes  BY DEF Modes
  <2>3. "streaming" \notin Reading'  BY <1>3, <2>2 DEF Reading
  <2>4. verdict'["streaming"] = "ok" <=> Ended(sent)
    <3>1. CASE "streaming" \in Reading
      BY <1>2, <1>5, <2>1, <2>2, <3>1 DEF StreamInv
    <3>2. CASE "streaming" \notin Reading
      BY <1>2, <2>2, <3>2 DEF StreamInv
    <3> QED  BY <3>1, <3>2
  <2>5. WellFormed(Stream')  BY <2>1 DEF StreamInv
  <2> QED  BY <2>3, <2>4, <2>5 DEF StreamInv
<1> QED  BY <1>7, <1>8, <1>9, <1>10, <1>11

(* The body with one more line: it counts a byte more than it has.          *)
LEMMA LongerEffect ==
    ASSUME TypeOK, NEW l \in Lines
    PROVE  /\ Longer(l) \in BodySet
           /\ Longer(l).bytes + (IF Longer(l).ended THEN 1 ELSE 0) = body.bytes + l.size + 1
           /\ Longer(l).bytes >= body.bytes
           /\ Longer(l).longest = IF l.size > body.longest THEN l.size ELSE body.longest
           /\ Longer(l).longest >= body.longest /\ Longer(l).longest >= l.size
           /\ body.finished => Longer(l).finished
           /\ l.event.type = "finish" /\ ~TooLongToScan(l) => Longer(l).finished
<1>1. l.size \in Nat  BY SizesAssumption DEF Lines
<1>2. body.lines \in Nat /\ body.bytes \in Nat /\ body.longest \in Nat /\ body.finished \in BOOLEAN
  BY DEF TypeOK, BodySet
<1> DEFINE feed == IF l.end = "none" THEN 0 ELSE 1
           longest == IF l.size > body.longest THEN l.size ELSE body.longest
           ended == l.end = "none"
           finished == body.finished \/ (l.event.type = "finish" /\ ~TooLongToScan(l))
<1>3. Longer(l) = [lines |-> body.lines + 1, bytes |-> body.bytes + l.size + feed,
                   longest |-> longest, ended |-> ended, finished |-> finished]
  BY DEF Longer
<1>4. longest \in Nat /\ longest >= body.longest /\ longest >= l.size  BY <1>1, <1>2
<1>5. finished \in BOOLEAN /\ (body.finished => finished)
      /\ (l.event.type = "finish" /\ ~TooLongToScan(l) => finished)
  OBVIOUS
<1>6. feed \in Nat /\ ended \in BOOLEAN /\ feed + (IF ended THEN 1 ELSE 0) = 1  OBVIOUS
<1>7. longest = IF l.size > body.longest THEN l.size ELSE body.longest  OBVIOUS
<1> HIDE DEF feed, longest, ended, finished
<1>8. /\ body.lines + 1 \in Nat /\ body.bytes + l.size + feed \in Nat
      /\ body.bytes + l.size + feed >= body.bytes
      /\ body.bytes + l.size + feed + (IF ended THEN 1 ELSE 0) = body.bytes + l.size + 1
  BY <1>1, <1>2, <1>6
<1>9. /\ Longer(l).bytes = body.bytes + l.size + feed /\ Longer(l).ended = ended
      /\ Longer(l).longest = longest /\ Longer(l).finished = finished
  BY <1>3
<1>10. Longer(l) \in BodySet  BY <1>3, <1>4, <1>5, <1>6, <1>8 DEF BodySet
<1> QED  BY <1>4, <1>5, <1>7, <1>8, <1>9, <1>10

(* A line the scanner cannot hold is longer than MaxEventBytes.             *)
LEMMA ScanTooLongPreserves ==
    ASSUME IInv, NEW l \in Lines, ScanTooLong(l)
    PROVE  IInv'
<1>1. TypeOK  BY DEF IInv
<1>2. /\ body' \in BodySet
      /\ ~body.ended /\ body'.bytes >= body.bytes /\ body'.longest >= body.longest
      /\ body.finished => body'.finished
  BY <1>1, LongerEffect DEF ScanTooLong
<1>3. body'.longest > MaxEventBytes
  <2>1. l.size \in Nat /\ MaxEventBytes \in Nat /\ Terminator(l) \in {1, 2}
    BY SizesAssumption, LimitsAssumption DEF Lines, Terminator
  <2>2. l.size > MaxEventBytes  BY <2>1 DEF ScanTooLong, TooLongToScan
  <2>3. body'.longest >= l.size /\ body'.longest \in Nat
    BY <1>1, <1>2, LongerEffect DEF ScanTooLong, BodySet
  <2> QED  BY <2>1, <2>2, <2>3, Beyond
<1>4. /\ dec' \in [Modes -> DecoderSet] /\ \A m \in Modes : dec'[m] = dec[m]
      /\ counted' \in [Modes -> {"", "with", "without", "truncated"}]
  BY <1>1 DEF TypeOK, ScanTooLong
<1>5. /\ queue = <<>> /\ UNCHANGED <<queue, sent>>
      /\ verdict' = [m \in Modes |-> IF m \in Reading THEN "scan" ELSE verdict[m]]
  BY DEF ScanTooLong
<1> QED  BY <1>2, <1>3, <1>4, <1>5, StopsPreserves

(* A connection that breaks leaves the readers without a final frame.       *)
LEMMA ReadBreaksPreserves ==
    ASSUME IInv, ReadBreaks
    PROVE  IInv'
<1>1. TypeOK  BY DEF IInv
<1>2. body' \in BodySet /\ body' = body  BY <1>1 DEF TypeOK, ReadBreaks
<1>3. /\ dec' \in [Modes -> DecoderSet] /\ \A m \in Modes : dec'[m] = dec[m]
      /\ counted' \in [Modes -> {"", "with", "without", "truncated"}]
  BY <1>1 DEF TypeOK, ReadBreaks
<1>4. /\ queue = <<>> /\ UNCHANGED <<queue, sent>>
      /\ verdict' = [m \in Modes |-> IF m \in Reading THEN "broken" ELSE verdict[m]]
  BY DEF ReadBreaks
<1> QED  BY <1>2, <1>3, <1>4, StopsPreserves

(* So does a body that ends in order: a reader is not done.                 *)
LEMMA BodyEndsPreserves ==
    ASSUME IInv, BodyEnds
    PROVE  IInv'
<1>1. TypeOK  BY DEF IInv
<1>2. body' \in BodySet /\ body' = body  BY <1>1 DEF TypeOK, BodyEnds
<1>3. \A m \in Modes : Fatal(dec[m], "truncated") \in DecoderSet
  <2>1. "truncated" \in Failures  BY DEF Failures
  <2>2. \A m \in Modes : dec[m] \in DecoderSet  BY <1>1 DEF TypeOK
  <2> QED  BY <2>1, <2>2, FatalEffect
<1>4. dec' \in [Modes -> DecoderSet]  BY <1>1, <1>3 DEF TypeOK, BodyEnds
<1>5. \A m \in Modes : \/ dec'[m] = dec[m]
                       \/ m \in Reading /\ dec'[m] = Fatal(dec[m], "truncated")
  <2>1. dec' = [m \in Modes |-> IF m \in Reading THEN Fatal(dec[m], "truncated") ELSE dec[m]]
    BY DEF BodyEnds
  <2>2. \A m \in Modes : dec'[m] = IF m \in Reading THEN Fatal(dec[m], "truncated") ELSE dec[m]
    BY <2>1
  <2> QED  BY <2>2
<1>6. counted' \in [Modes -> {"", "with", "without", "truncated"}]
  BY <1>1 DEF TypeOK, BodyEnds
<1>7. /\ queue = <<>> /\ UNCHANGED <<queue, sent>>
      /\ verdict' = [m \in Modes |-> IF m \in Reading THEN "truncated" ELSE verdict[m]]
  BY DEF BodyEnds
<1> QED  BY <1>2, <1>4, <1>5, <1>6, <1>7, StopsPreserves

(* Emitting a frame moves it from the queue to what the host took.          *)
LEMMA Taken ==
    ASSUME NEW s \in Seq(FrameSet), NEW q \in Seq(FrameSet), q # <<>>
    PROVE  /\ Append(s, Head(q)) \in Seq(FrameSet) /\ Tail(q) \in Seq(FrameSet)
           /\ Append(s, Head(q)) \o Tail(q) = s \o q
  OBVIOUS

(* The verdict is ok exactly when the frame just taken was the final one.   *)
LEMMA EmitFramePreserves ==
    ASSUME IInv, EmitFrame
    PROVE  IInv'
<1> DEFINE d == dec["streaming"]
<1>1. TypeOK /\ "streaming" \in Modes /\ "streaming" \in Reading
  BY DEF IInv, LiveInv, EmitFrame, Modes
<1>2. queue \in Seq(FrameSet) /\ queue # <<>> /\ sent \in Seq(FrameSet)  BY <1>1 DEF TypeOK, EmitFrame
<1>3. sent' \in Seq(FrameSet) /\ queue' \in Seq(FrameSet) /\ Stream' = Stream
  BY <1>2, Taken DEF EmitFrame, Stream
<1>4. UNCHANGED <<dec, counted, body>>  BY DEF EmitFrame
<1>5. d.fatal = ""  BY <1>1 DEF IInv, LiveInv, Live
<1>6. AfterPush(d) = IF d.done THEN "ok" ELSE "reading"  BY <1>5 DEF AfterPush
<1>7. verdict["streaming"] = "reading"  BY <1>1 DEF Reading
<1>8. verdict' = IF queue' = <<>> THEN [verdict EXCEPT !["streaming"] = AfterPush(d)] ELSE verdict
  BY DEF EmitFrame
<1>9. verdict \in [Modes -> Verdicts]  BY <1>1 DEF TypeOK
<1>10. /\ verdict' \in [Modes -> Verdicts]
       /\ \A m \in Modes \ {"streaming"} : verdict'[m] = verdict[m]
       /\ verdict'["streaming"] = IF queue' = <<>> /\ d.done THEN "ok" ELSE "reading"
  <2>1. AfterPush(d) \in Verdicts  BY <1>6 DEF Verdicts
  <2> HIDE DEF d
  <2>2. CASE queue' = <<>>  BY <1>1, <1>6, <1>8, <1>9, <2>1, <2>2
  <2>3. CASE queue' # <<>>  BY <1>7, <1>8, <1>9, <2>3
  <2> QED  BY <2>2, <2>3
<1>11. TypeOK'  BY <1>1, <1>3, <1>4, <1>10 DEF TypeOK
<1>12. LiveInv'
  <2>1. \A m \in Modes \ {"streaming"} : Live(m)'
    <3> SUFFICES ASSUME NEW m \in Modes \ {"streaming"}, m \in Reading'
                 PROVE  /\ dec[m].fatal = "" /\ dec[m].consumed = Counted /\ ~dec[m].done
      BY <1>4 DEF Live, Counted
    <3>1. m \in Reading  BY <1>10 DEF Reading
    <3> QED  BY <3>1 DEF IInv, LiveInv, Live
  <2>2. Live("streaming")'
    <3>1. d.fatal = "" /\ d.consumed = Counted  BY <1>1 DEF IInv, LiveInv, Live
    <3>2. "streaming" \in Reading' => (d.done => queue' # <<>>)  BY <1>10 DEF Reading
    <3> QED  BY <1>4, <3>1, <3>2 DEF Live, Counted
  <2>3. queue' # <<>> => "streaming" \in Reading'  BY <1>1, <1>10 DEF Reading
  <2> QED  BY <2>1, <2>2, <2>3 DEF LiveInv
<1>13. RefusalsInv'
  BY <1>4, <1>10 DEF IInv, RefusalsInv, PastLimits
<1>14. FinishedInv'
  BY <1>4, <1>10 DEF IInv, FinishedInv, Finished
<1>15. StreamInv'
  <2>1. WellFormed(Stream') /\ (d.done <=> Ended(Stream')) /\ (~d.done => Remembers(d, Stream'))
    BY <1>1, <1>3 DEF IInv, StreamInv
  <2>2. "streaming" \notin Reading' => (verdict'["streaming"] = "ok" <=> Ended(sent'))
    <3> SUFFICES ASSUME "streaming" \notin Reading' PROVE verdict'["streaming"] = "ok" <=> Ended(sent')
      OBVIOUS
    <3>1. queue' = <<>> /\ d.done  BY <1>1, <1>10 DEF Reading
    <3>2. Stream' = sent'  BY <1>11, <3>1, NoMore DEF TypeOK, Stream
    <3> QED  BY <1>10, <2>1, <3>1, <3>2
  <2> QED  BY <1>4, <2>1, <2>2 DEF StreamInv
<1> QED  BY <1>11, <1>12, <1>13, <1>14, <1>15 DEF IInv

(* A refused frame stays behind, and all after it, the final one included.  *)
LEMMA EmitFailsPreserves ==
    ASSUME IInv, EmitFails
    PROVE  IInv'
<1>1. TypeOK /\ "streaming" \in Modes /\ "streaming" \in Reading
  BY DEF IInv, LiveInv, EmitFails, Modes
<1>2. queue \in Seq(FrameSet) /\ queue # <<>> /\ sent \in Seq(FrameSet)  BY <1>1 DEF TypeOK, EmitFails
<1>3. queue' = <<>> /\ UNCHANGED <<dec, sent, counted, body>>  BY DEF EmitFails
<1>4. verdict \in [Modes -> Verdicts]  BY <1>1 DEF TypeOK
<1>5. /\ verdict' \in [Modes -> Verdicts]
      /\ \A m \in Modes \ {"streaming"} : verdict'[m] = verdict[m]
      /\ verdict'["streaming"] = "emit"
  BY <1>1, <1>4 DEF EmitFails, Verdicts
<1>6. queue' \in Seq(FrameSet)  BY <1>3
<1>7. TypeOK'  BY <1>1, <1>3, <1>5, <1>6 DEF TypeOK
<1>8. LiveInv'
  <2> SUFFICES ASSUME NEW m \in Modes, m \in Reading'
               PROVE  /\ dec[m].fatal = "" /\ dec[m].consumed = Counted /\ ~dec[m].done
    BY <1>3 DEF LiveInv, Live, Counted
  <2>1. m # "streaming" /\ m \in Reading  BY <1>5 DEF Reading
  <2> QED  BY <2>1 DEF IInv, LiveInv, Live
<1>9. RefusalsInv'  BY <1>3, <1>5 DEF IInv, RefusalsInv, PastLimits
<1>10. FinishedInv'  BY <1>3, <1>5 DEF IInv, FinishedInv, Finished
<1>11. StreamInv'
  <2>1. WellFormed(sent) /\ ~Ended(sent)
    BY <1>2, PrefixWellFormed DEF IInv, StreamInv, Stream
  <2>2. Stream' = sent  BY <1>2, <1>3, NoMore DEF Stream
  <2>3. "streaming" \notin Reading'  BY <1>5 DEF Reading
  <2> QED  BY <1>3, <1>5, <2>1, <2>2, <2>3 DEF StreamInv
<1> QED  BY <1>7, <1>8, <1>9, <1>10, <1>11 DEF IInv

(* What push counts, against the bytes of the body: it refuses a line       *)
(* exactly when it takes a body within the limits past one of them.         *)
LEMMA SizesExact ==
    ASSUME TypeOK, NEW d \in DecoderSet, NEW l \in Lines, ReadLine(l), d.consumed = Counted
    PROVE  /\ Oversized(d, l) => PastLimits'
           /\ ~PastLimits /\ ~Oversized(d, l) => ~PastLimits'
           /\ d.consumed + l.size + 1 = Counted'
<1>1. /\ l.size \in Nat /\ MaxEventBytes \in Nat /\ MaxResponseBytes \in Nat /\ d.consumed \in Nat
      /\ body.bytes \in Nat /\ body.longest \in Nat /\ ~body.ended
  BY SizesAssumption, LimitsAssumption DEF Lines, DecoderSet, TypeOK, BodySet, ReadLine
<1>2. body' = Longer(l)  BY DEF ReadLine
<1>3. /\ body'.bytes \in Nat /\ body'.longest \in Nat /\ body'.ended \in BOOLEAN
      /\ body'.bytes + (IF body'.ended THEN 1 ELSE 0) = body.bytes + l.size + 1
      /\ body'.longest = IF l.size > body.longest THEN l.size ELSE body.longest
  BY <1>2, LongerEffect DEF BodySet
<1>4. d.consumed = body.bytes  BY <1>1 DEF Counted
<1>5. PastLimits' <=> \/ body'.longest > MaxEventBytes
                      \/ d.consumed + l.size + 1 > MaxResponseBytes
  BY <1>1, <1>3, <1>4 DEF PastLimits
<1>6. ~PastLimits => body.longest <= MaxEventBytes  BY <1>1 DEF PastLimits
<1>7. Oversized(d, l) <=> l.size > MaxEventBytes \/ d.consumed + l.size + 1 > MaxResponseBytes
  BY DEF Oversized
<1>8. d.consumed + l.size + 1 = Counted'  BY <1>1, <1>3, <1>4 DEF Counted
<1> QED  BY <1>1, <1>3, <1>5, <1>6, <1>7, <1>8

(* One line, pushed by each mode that still reads.                          *)
LEMMA ReadLinePreserves ==
    ASSUME IInv, NEW l \in Lines, ReadLine(l)
    PROVE  IInv'
<1> DEFINE pushed == [m \in Modes |-> IF m \in Reading THEN push(m, dec[m], l) ELSE dec[m]]
<1>1. TypeOK /\ LiveInv /\ RefusalsInv /\ FinishedInv /\ StreamInv /\ "streaming" \in Modes
      /\ queue = <<>> /\ ~TooLongToScan(l)
  BY DEF IInv, ReadLine, Modes
<1>2. /\ dec' = pushed /\ sent' = sent /\ body' = Longer(l)
      /\ queue' = IF "streaming" \in Reading THEN dec'["streaming"].frames ELSE <<>>
      /\ counted' = [m \in Modes |-> Outcome(dec'[m])]
      /\ verdict' = [m \in Modes |-> IF m \notin Reading \/ (m = "streaming" /\ queue' # <<>>)
                                     THEN verdict[m] ELSE AfterPush(dec'[m])]
  BY DEF ReadLine
<1>3. \A m \in Modes : dec'[m] = IF m \in Reading THEN push(m, dec[m], l) ELSE dec[m]
  BY <1>2
<1> HIDE DEF pushed
<1>4. \A m \in Modes : dec[m] \in DecoderSet /\ (m \in Reading => verdict[m] = "reading")
  BY <1>1 DEF TypeOK, Reading
<1>5. \A m \in Reading : dec[m].fatal = "" /\ ~dec[m].done /\ dec[m].consumed = Counted
  BY <1>1 DEF LiveInv, Live, Reading
<1>6. ASSUME NEW m \in Modes, m \in Reading
      PROVE  /\ dec'[m] \in DecoderSet /\ dec'[m].consumed = Counted'
             /\ dec'[m].fatal = "size" <=> Oversized(dec[m], l)
             /\ dec'[m].fatal # "" => ~dec'[m].done /\ dec'[m].frames = <<>>
             /\ dec'[m].done => l.event.type = "finish"
             /\ dec'[m].done => AddsLast(m, dec[m], dec'[m])
             /\ ~dec'[m].done => Adds(m, dec[m], dec'[m])
  <2> DEFINE p == push(m, dec[m], l)
  <2>1. dec[m] \in DecoderSet /\ dec[m].fatal = "" /\ ~dec[m].done  BY <1>4, <1>5, <1>6
  <2>2. /\ p \in DecoderSet /\ p.consumed = dec[m].consumed + l.size + 1
        /\ p.fatal = "size" <=> Oversized(dec[m], l)
        /\ p.fatal # "" => ~p.done /\ p.frames = <<>>
        /\ p.done => l.event.type = "finish"
        /\ p.done => AddsLast(m, dec[m], p)
        /\ ~p.done => Adds(m, dec[m], p)
    BY <2>1, PushEffect
  <2>3. dec'[m] = p  BY <1>3, <1>6
  <2>4. Counted' = dec[m].consumed + l.size + 1  BY <1>1, <1>5, <1>6, <2>1, SizesExact
  <2> HIDE DEF p
  <2> QED  BY <2>2, <2>3, <2>4
<1>7. \A m \in Modes : m \notin Reading => dec'[m] = dec[m]  BY <1>3
<1>8. \A m \in Modes :
         verdict'[m] = IF m \notin Reading \/ (m = "streaming" /\ queue' # <<>>)
                       THEN verdict[m] ELSE AfterPush(dec'[m])
  BY <1>2
<1>9. \A m \in Modes : dec'[m] \in DecoderSet  BY <1>4, <1>6, <1>7
<1>10. TypeOK'
  <2>1. dec' \in [Modes -> DecoderSet]
    <3>1. dec' = [m \in Modes |-> dec'[m]]  BY <1>2 DEF pushed
    <3> QED  BY <1>9, <3>1
  <2>2. \A m \in Modes : ~(dec'[m].done /\ dec'[m].fatal # "")  BY <1>1, <1>6, <1>7 DEF TypeOK
  <2>3. queue' \in Seq(FrameSet)
    <3>1. dec'["streaming"].frames \in Seq(FrameSet)  BY <1>1, <1>9 DEF DecoderSet
    <3> QED  BY <1>2, <3>1
  <2>4. \A m \in Modes : verdict'[m] \in Verdicts
    <3>1. \A m \in Modes : verdict[m] \in Verdicts  BY <1>1 DEF TypeOK
    <3>2. \A m \in Modes : AfterPush(dec'[m]) \in Verdicts
      BY <1>9 DEF AfterPush, DecoderSet, Failures, Verdicts
    <3> QED  BY <1>8, <3>1, <3>2
  <2>5. verdict' \in [Modes -> Verdicts]
    <3>1. verdict' = [m \in Modes |-> verdict'[m]]  BY <1>2
    <3> QED  BY <2>4, <3>1
  <2>6. counted' \in [Modes -> {"", "with", "without", "truncated"}]
    <3>1. \A m \in Modes : Outcome(dec'[m]) \in {"", "with", "without", "truncated"}  BY DEF Outcome
    <3> QED  BY <1>2, <3>1
  <2>7. body' \in BodySet
    BY <1>1, <1>2, LongerEffect
  <2>8. sent' \in Seq(FrameSet)  BY <1>1, <1>2 DEF TypeOK
  <2> QED  BY <2>1, <2>2, <2>3, <2>5, <2>6, <2>7, <2>8 DEF TypeOK
<1>11. \A m \in Modes : AfterPush(dec'[m]) = "reading" => dec'[m].fatal = "" /\ ~dec'[m].done
  BY <1>9 DEF AfterPush, DecoderSet, Failures
<1>12. "streaming" \in Reading /\ queue' # <<>> => dec'["streaming"].fatal = ""
  BY <1>1, <1>2, <1>6
<1>13. WellFormed(Stream') /\ ("streaming" \in Reading =>
          /\ dec'["streaming"].done <=> Ended(Stream')
          /\ ~dec'["streaming"].done => Remembers(dec'["streaming"], Stream')
          /\ dec'["streaming"].done => queue' # <<>>)
  <2>1. sent \in Seq(FrameSet) /\ Stream = sent  BY <1>1, NothingQueued DEF TypeOK
  <2>2. CASE "streaming" \in Reading
    <3> DEFINE d == dec["streaming"]
               p == dec'["streaming"]
    <3>1. d \in DecoderSet /\ p \in DecoderSet /\ ~d.done  BY <1>1, <1>4, <1>5, <1>9, <2>2
    <3>2. WellFormed(sent) /\ ~Ended(sent) /\ Remembers(d, sent)  BY <1>1, <2>1, <2>2, <3>1 DEF StreamInv
    <3>3. (p.done => AddsLast("streaming", d, p)) /\ (~p.done => Adds("streaming", d, p))
      BY <1>1, <1>6, <2>2
    <3>4. queue' = p.frames /\ Stream' = sent \o p.frames  BY <1>2, <2>2 DEF Stream
    <3> HIDE DEF d, p
    <3>5. /\ WellFormed(sent \o p.frames)
          /\ p.done <=> Ended(sent \o p.frames)
          /\ ~p.done => Remembers(p, sent \o p.frames)
          /\ p.done => p.frames # <<>>
      BY <2>1, <3>1, <3>2, <3>3, StreamGrows
    <3> QED  BY <3>4, <3>5 DEF p
  <2>3. CASE "streaming" \notin Reading
    <3>1. Stream' = sent  BY <1>2, <2>1, <2>3, NoMore DEF Stream
    <3> QED  BY <1>1, <2>1, <2>3, <3>1 DEF StreamInv
  <2> QED  BY <2>2, <2>3
<1>14. \A m \in Modes : m \in Reading' => m \in Reading
  BY <1>8 DEF Reading
<1>15. LiveInv'
  <2>1. ASSUME NEW m \in Modes, m \in Reading'
        PROVE  /\ dec'[m].fatal = "" /\ dec'[m].consumed = Counted'
               /\ dec'[m].done => m = "streaming" /\ queue' # <<>>
    <3>1. m \in Reading /\ verdict'[m] = "reading"  BY <1>14, <2>1 DEF Reading
    <3>2. CASE m = "streaming" /\ queue' # <<>>  BY <1>6, <1>12, <3>1, <3>2
    <3>3. CASE ~(m = "streaming" /\ queue' # <<>>)
      <4>1. AfterPush(dec'[m]) = "reading"  BY <1>8, <3>1, <3>3
      <4> QED  BY <1>6, <1>11, <3>1, <4>1
    <3> QED  BY <3>2, <3>3
  <2>2. queue' # <<>> => "streaming" \in Reading'
    BY <1>1, <1>2, <1>4, <1>8 DEF Reading
  <2> QED  BY <2>1, <2>2 DEF LiveInv, Live
<1>16. RefusalsInv'
  <2> SUFFICES ASSUME NEW m \in Modes, verdict'[m] \in {"size", "scan"}
               PROVE  PastLimits'
    BY DEF RefusalsInv
  <2>1. CASE m \in Reading
    <3>1. verdict'[m] = "reading" \/ verdict'[m] = AfterPush(dec'[m])  BY <1>4, <1>8, <2>1
    <3>2. AfterPush(dec'[m]) \in {"size", "scan"} => dec'[m].fatal = "size"
      BY <1>9 DEF AfterPush, DecoderSet, Failures
    <3>3. Oversized(dec[m], l)  BY <1>6, <2>1, <3>1, <3>2
    <3> QED  BY <1>1, <1>4, <1>5, <2>1, <3>3, SizesExact
  <2>2. CASE m \notin Reading
    <3>1. PastLimits  BY <1>1, <1>8, <2>2 DEF RefusalsInv
    <3>2. /\ body' \in BodySet /\ ~body.ended
          /\ body'.bytes >= body.bytes /\ body'.longest >= body.longest
      BY <1>1, <1>2, LongerEffect DEF ReadLine
    <3> QED  BY <1>1, <3>1, <3>2, PastStays
  <2> QED  BY <2>1, <2>2
<1>17. FinishedInv'
  <2> SUFFICES ASSUME NEW m \in Modes
               PROVE  (dec'[m].done => body'.finished) /\ (verdict'[m] = "ok" => dec'[m].done)
    BY DEF FinishedInv, Finished
  <2>1. body.finished => body'.finished  BY <1>1, <1>2, LongerEffect
  <2>2. l.event.type = "finish" => body'.finished  BY <1>1, <1>2, LongerEffect
  <2>3. CASE m \in Reading
    <3>1. AfterPush(dec'[m]) = "ok" => dec'[m].done  BY <1>9 DEF AfterPush, DecoderSet, Failures
    <3> QED  BY <1>4, <1>6, <1>8, <2>2, <2>3, <3>1
  <2>4. CASE m \notin Reading
    BY <1>1, <1>7, <1>8, <2>1, <2>4 DEF FinishedInv, Finished
  <2> QED  BY <2>3, <2>4
<1>18. StreamInv'
  <2>1. "streaming" \notin Reading' => (verdict'["streaming"] = "ok" <=> Ended(sent'))
    <3> SUFFICES ASSUME "streaming" \notin Reading'
                 PROVE  verdict'["streaming"] = "ok" <=> Ended(sent')
      OBVIOUS
    <3>1. CASE "streaming" \in Reading
      <4>1. queue' = <<>> /\ ~dec'["streaming"].done  BY <1>1, <1>13, <1>15, <3>1 DEF LiveInv
      <4>2. Stream' = sent'  BY <1>10, <4>1, NoMore DEF TypeOK, Stream
      <4>3. verdict'["streaming"] = AfterPush(dec'["streaming"])  BY <1>1, <1>8, <4>1, <3>1
      <4>4. verdict'["streaming"] # "ok"
        BY <1>1, <1>9, <4>1, <4>3 DEF AfterPush, DecoderSet, Failures
      <4> QED  BY <1>13, <3>1, <4>1, <4>2, <4>4
    <3>2. CASE "streaming" \notin Reading
      BY <1>1, <1>2, <1>8, <3>2 DEF StreamInv
    <3> QED  BY <3>1, <3>2
  <2> QED  BY <1>1, <1>13, <1>14, <2>1 DEF StreamInv
<1> QED  BY <1>10, <1>15, <1>16, <1>17, <1>18 DEF IInv

(* Every step preserves the invariant.                                      *)
LEMMA NextIInv == IInv /\ [Next]_vars => IInv'
<1> SUFFICES ASSUME IInv, [Next]_vars PROVE IInv'
  OBVIOUS
<1>1. ASSUME UNCHANGED vars PROVE IInv'
  BY <1>1 DEF vars, IInv, TypeOK, LiveInv, Live, Counted, RefusalsInv, PastLimits, FinishedInv,
              Finished, StreamInv, Stream, Reading
<1> QED
  BY <1>1, ReadLinePreserves, ScanTooLongPreserves, ReadBreaksPreserves, BodyEndsPreserves,
     EmitFramePreserves, EmitFailsPreserves
  DEF Next, Returned

(* The inductive invariant holds of every state of the decoder.             *)
LEMMA Invariance == Spec => []IInv
  BY InitIInv, NextIInv, PTL DEF Spec

--------------------------------------------------------------------------------
(* What is read out of frames, by induction on sets of numbers              *)

(* Induction over the naturals, for a set.                                  *)
LEMMA Induction ==
    ASSUME NEW P, 0 \in P, \A n \in Nat : n \in P => n + 1 \in P
    PROVE  Nat \subseteq P
<1> SUFFICES ASSUME NEW n \in Nat, n \notin P PROVE FALSE
  OBVIOUS
<1> DEFINE T == {i \in 0 .. n : i \notin P}
           down == [i \in T |-> i - 1]
<1>1. n \in T  OBVIOUS
<1>2. \A i \in T : i - 1 \in T \ {n}
  <2> SUFFICES ASSUME NEW i \in T PROVE i - 1 \in T \ {n}
    OBVIOUS
  <2>1. i \in 1 .. n  OBVIOUS
  <2>2. i - 1 \in Nat /\ (i - 1) + 1 = i  BY <2>1
  <2>3. i - 1 \notin P  BY <2>2
  <2> QED  BY <2>1, <2>3
<1>3. IsFiniteSet(T)
  <2>1. IsFiniteSet(0 .. n)  BY FS_Interval
  <2> QED  BY <2>1, FS_Subset
<1>4. IsFiniteSet(T \ {n}) /\ Cardinality(T \ {n}) < Cardinality(T)
  <2>1. Cardinality(T) \in Nat  BY <1>3, FS_CardinalityType
  <2> HIDE DEF T
  <2>2. IsFiniteSet(T \ {n}) /\ Cardinality(T \ {n}) = Cardinality(T) - 1
    BY <1>1, <1>3, FS_RemoveElement
  <2> QED  BY <2>1, <2>2
<1>5. down \in [T -> T \ {n}]  BY <1>2
<1>6. \A x, y \in T : x # y => down[x] # down[y]  OBVIOUS
<1> HIDE DEF T, down
<1> QED  BY <1>3, <1>4, <1>5, <1>6, FS_PigeonHole

(* The same up to a bound.                                                  *)
LEMMA InductionUpTo ==
    ASSUME NEW last \in Nat, NEW P, 0 \in P, \A i \in 1 .. last : i - 1 \in P => i \in P
    PROVE  0 .. last \subseteq P
<1> DEFINE Q == P \cup {n \in Nat : n > last}
<1>1. \A n \in Nat : n \in Q => n + 1 \in Q
  <2> SUFFICES ASSUME NEW n \in Nat, n \in Q PROVE n + 1 \in Q
    OBVIOUS
  <2>1. CASE n >= last  BY <2>1
  <2>2. CASE n < last
    <3>1. n + 1 \in 1 .. last /\ (n + 1) - 1 = n /\ n \in P  BY <2>2
    <3> QED  BY <3>1
  <2> QED  BY <2>1, <2>2
<1>2. Nat \subseteq Q
  <2> HIDE DEF Q
  <2>1. 0 \in Q  BY DEF Q
  <2> QED  BY <1>1, <2>1, Induction
<1> QED  BY <1>2

(* The pieces of a sequence of frames are what they say.                    *)
PieceStep(frames, kind, pieces, i) ==
    IF i = 0 THEN <<>>
    ELSE IF frames[i].kind = kind THEN pieces[i - 1] \o frames[i].data ELSE pieces[i - 1]

(* For every number of frames there is a function that collects them as     *)
(* PiecesUpTo says; its definition only asks for one.                       *)
LEMMA PiecesExist ==
    ASSUME NEW G, Len(G) \in Nat, NEW kind
    PROVE  \E pieces : pieces = [i \in 0 .. Len(G) |-> PieceStep(G, kind, pieces, i)]
<1> DEFINE Walks(n) == \E pieces : pieces = [i \in 0 .. n |-> PieceStep(G, kind, pieces, i)]
           P == {n \in Nat : Walks(n)}
<1>1. 0 \in P
  <2> DEFINE pieces == [i \in 0 .. 0 |-> <<>>]
  <2>1. pieces = [i \in 0 .. 0 |-> PieceStep(G, kind, pieces, i)]  BY DEF PieceStep
  <2> QED  BY <2>1
<1>2. ASSUME NEW n \in Nat, n \in P PROVE n + 1 \in P
  <2>1. PICK pieces : pieces = [i \in 0 .. n |-> PieceStep(G, kind, pieces, i)]  BY <1>2
  <2> DEFINE more == [i \in 0 .. n + 1 |-> IF i = n + 1 THEN PieceStep(G, kind, pieces, n + 1) ELSE pieces[i]]
  <2>2. \A i \in 0 .. n : more[i] = pieces[i]  OBVIOUS
  <2>3. \A i \in 0 .. n + 1 : PieceStep(G, kind, more, i) = PieceStep(G, kind, pieces, i)
    <3> SUFFICES ASSUME NEW i \in 0 .. n + 1 PROVE PieceStep(G, kind, more, i) = PieceStep(G, kind, pieces, i)
      OBVIOUS
    <3>1. i # 0 => i - 1 \in 0 .. n  OBVIOUS
    <3> HIDE DEF more
    <3> QED  BY <2>2, <3>1 DEF PieceStep
  <2>4. \A i \in 0 .. n + 1 : more[i] = PieceStep(G, kind, pieces, i)
    <3>1. \A i \in 0 .. n : pieces[i] = PieceStep(G, kind, pieces, i)  BY <2>1
    <3> QED  BY <3>1
  <2>5. more = [i \in 0 .. n + 1 |-> PieceStep(G, kind, more, i)]
    <3>1. more = [i \in 0 .. n + 1 |-> more[i]]  OBVIOUS
    <3> HIDE DEF more
    <3> QED  BY <2>3, <2>4, <3>1
  <2> HIDE DEF more
  <2> QED  BY <2>5
<1>3. Nat \subseteq P
  <2> HIDE DEF P
  <2> QED  BY <1>1, <1>2, Induction
<1> QED  BY <1>3

(* So PiecesUpTo is that function: it starts with nothing and takes one     *)
(* frame at a time.                                                         *)
LEMMA PiecesSteps ==
    ASSUME NEW G, Len(G) \in Nat, NEW kind
    PROVE  /\ PiecesUpTo(G, kind)[0] = <<>>
           /\ \A i \in 1 .. Len(G) :
                 PiecesUpTo(G, kind)[i] = IF G[i].kind = kind THEN PiecesUpTo(G, kind)[i - 1] \o G[i].data
                                          ELSE PiecesUpTo(G, kind)[i - 1]
<1> DEFINE pieces == PiecesUpTo(G, kind)
<1>1. pieces = [i \in 0 .. Len(G) |-> PieceStep(G, kind, pieces, i)]
  <2>1. pieces = CHOOSE k : k = [i \in 0 .. Len(G) |-> PieceStep(G, kind, k, i)]  BY DEF PiecesUpTo, PieceStep
  <2> HIDE DEF pieces
  <2> QED  BY <2>1, PiecesExist
<1>2. \A i \in 0 .. Len(G) : pieces[i] = PieceStep(G, kind, pieces, i)
  <2> HIDE DEF pieces
  <2> QED  BY <1>1
<1> HIDE DEF pieces
<1>3. pieces[0] = <<>>  BY <1>2 DEF PieceStep
<1>4. ASSUME NEW i \in 1 .. Len(G)
      PROVE  pieces[i] = IF G[i].kind = kind THEN pieces[i - 1] \o G[i].data ELSE pieces[i - 1]
  <2>1. i \in 0 .. Len(G) /\ i # 0  OBVIOUS
  <2> QED  BY <1>2, <2>1 DEF PieceStep
<1> QED  BY <1>3, <1>4 DEF pieces

Data == Seq(Texts \cup Tools)

(* Frames of the stream, or of the answer in chunks.                        *)
LEMMA PiecesTyped ==
    ASSUME NEW G \in Seq(FrameSet), NEW kind
    PROVE  \A i \in 0 .. Len(G) : PiecesUpTo(G, kind)[i] \in Data
<1> DEFINE P == {i \in 0 .. Len(G) : PiecesUpTo(G, kind)[i] \in Data}
<1> Len(G) \in Nat  OBVIOUS
<1>1. 0 \in P
  <2>1. <<>> \in Data  BY DEF Data
  <2> QED  BY <2>1, PiecesSteps
<1>2. ASSUME NEW i \in 1 .. Len(G), i - 1 \in P PROVE i \in P
  <2> DEFINE k == PiecesUpTo(G, kind)[i - 1]
  <2>1. G[i] \in FrameSet  OBVIOUS
  <2>2. G[i].data \in Data  BY <2>1 DEF FrameSet, Data
  <2>3. k \in Data  BY <1>2
  <2>4. PiecesUpTo(G, kind)[i] = IF G[i].kind = kind THEN k \o G[i].data ELSE k  BY PiecesSteps
  <2> HIDE DEF k
  <2>5. k \o G[i].data \in Data  BY <2>2, <2>3 DEF Data
  <2>6. PiecesUpTo(G, kind)[i] \in Data  BY <2>3, <2>4, <2>5
  <2> QED  BY <2>6
<1>3. 0 .. Len(G) \subseteq P
  <2> HIDE DEF P
  <2> QED  BY <1>1, <1>2, InductionUpTo
<1> QED  BY <1>3

(* Frames that agree up to a place in kind and data say the same up to it.  *)
LEMMA PiecesAgree ==
    ASSUME NEW G \in Seq(FrameSet), NEW H \in Seq(FrameSet), NEW kind, NEW n \in Nat,
           n <= Len(G), n <= Len(H), \A i \in 1 .. n : G[i].kind = H[i].kind /\ G[i].data = H[i].data
    PROVE  PiecesUpTo(G, kind)[n] = PiecesUpTo(H, kind)[n]
<1> DEFINE P == {i \in 0 .. n : PiecesUpTo(G, kind)[i] = PiecesUpTo(H, kind)[i]}
<1> Len(G) \in Nat /\ Len(H) \in Nat  OBVIOUS
<1>1. 0 \in P  BY PiecesSteps
<1>2. ASSUME NEW i \in 1 .. n, i - 1 \in P PROVE i \in P
  <2>1. i \in 1 .. Len(G) /\ i \in 1 .. Len(H)  OBVIOUS
  <2>2. PiecesUpTo(G, kind)[i] = PiecesUpTo(H, kind)[i]
    <3>1. PiecesUpTo(G, kind)[i] = IF G[i].kind = kind THEN PiecesUpTo(G, kind)[i - 1] \o G[i].data
                                   ELSE PiecesUpTo(G, kind)[i - 1]
      BY <2>1, PiecesSteps
    <3>2. PiecesUpTo(H, kind)[i] = IF H[i].kind = kind THEN PiecesUpTo(H, kind)[i - 1] \o H[i].data
                                   ELSE PiecesUpTo(H, kind)[i - 1]
      BY <2>1, PiecesSteps
    <3> QED  BY <1>2, <3>1, <3>2
  <2> QED  BY <2>2
<1>3. 0 .. n \subseteq P
  <2> HIDE DEF P
  <2> QED  BY <1>1, <1>2, InductionUpTo
<1> QED  BY <1>3

(* One frame more.                                                          *)
LEMMA PiecesAppend ==
    ASSUME NEW G \in Seq(FrameSet), NEW f \in FrameSet, NEW kind
    PROVE  /\ Pieces(G, kind) \in Data
           /\ Pieces(Append(G, f), kind) = IF f.kind = kind THEN Pieces(G, kind) \o f.data ELSE Pieces(G, kind)
<1> DEFINE H == Append(G, f)
           n == Len(G)
<1>1. /\ H \in Seq(FrameSet) /\ Len(H) = n + 1 /\ n \in Nat /\ H[n + 1] = f
      /\ \A i \in 1 .. n : H[i] = G[i]
  OBVIOUS
<1> HIDE DEF H
<1>2. Pieces(G, kind) \in Data  BY <1>1, PiecesTyped DEF Pieces
<1>3. PiecesUpTo(H, kind)[n] = Pieces(G, kind)
  <2>1. n <= Len(H) /\ n <= Len(G) /\ \A i \in 1 .. n : G[i].kind = H[i].kind /\ G[i].data = H[i].data
    BY <1>1
  <2>2. PiecesUpTo(G, kind)[n] = PiecesUpTo(H, kind)[n]
    <3> HIDE DEF n
    <3> QED  BY <1>1, <2>1, PiecesAgree
  <2> QED  BY <2>2 DEF Pieces
<1>4. n + 1 \in 1 .. Len(H) /\ (n + 1) - 1 = n /\ Len(H) \in Nat  BY <1>1
<1>5. PiecesUpTo(H, kind)[n + 1] = IF f.kind = kind THEN Pieces(G, kind) \o f.data ELSE Pieces(G, kind)
  BY <1>1, <1>3, <1>4, PiecesSteps
<1>6. Pieces(H, kind) = PiecesUpTo(H, kind)[n + 1]  BY <1>1 DEF Pieces
<1> QED  BY <1>2, <1>5, <1>6 DEF H

(* No frames, and one.                                                      *)
LEMMA PiecesFew ==
    ASSUME NEW kind
    PROVE  /\ Pieces(<<>>, kind) = <<>>
           /\ \A f \in FrameSet : Pieces(<<f>>, kind) = IF f.kind = kind THEN f.data ELSE <<>>
<1>1. Pieces(<<>>, kind) = <<>>
  <2>1. Len(<<>>) = 0 /\ 0 \in Nat  OBVIOUS
  <2> QED  BY <2>1, PiecesSteps DEF Pieces
<1>2. ASSUME NEW f \in FrameSet PROVE Pieces(<<f>>, kind) = IF f.kind = kind THEN f.data ELSE <<>>
  <2>1. <<f>> = Append(<<>>, f) /\ <<>> \in Seq(FrameSet)  OBVIOUS
  <2>2. Pieces(<<f>>, kind) = IF f.kind = kind THEN <<>> \o f.data ELSE <<>>
    <3> DEFINE none == <<>>
               one == Append(none, f)
    <3>1. none \in Seq(FrameSet) /\ one = <<f>>  OBVIOUS
    <3> HIDE DEF none, one
    <3>2. Pieces(one, kind) = IF f.kind = kind THEN Pieces(none, kind) \o f.data ELSE Pieces(none, kind)
      BY <3>1, PiecesAppend DEF one
    <3> QED  BY <1>1, <3>1, <3>2 DEF none
  <2>3. f.data \in Seq(Texts \cup Tools)  BY DEF FrameSet
  <2>4. <<>> \o f.data = f.data  BY <2>3
  <2> QED  BY <2>2, <2>4
<1> QED  BY <1>1, <1>2

(* Frames of other kinds say nothing of a kind.                             *)
LEMMA PiecesNone ==
    ASSUME NEW G \in Seq(FrameSet), NEW kind, \A i \in 1 .. Len(G) : G[i].kind # kind
    PROVE  Pieces(G, kind) = <<>>
<1> DEFINE P == {i \in 0 .. Len(G) : PiecesUpTo(G, kind)[i] = <<>>}
<1> Len(G) \in Nat  OBVIOUS
<1>1. 0 \in P  BY PiecesSteps
<1>2. ASSUME NEW i \in 1 .. Len(G), i - 1 \in P PROVE i \in P
  <2>1. PiecesUpTo(G, kind)[i] = PiecesUpTo(G, kind)[i - 1]  BY PiecesSteps
  <2> QED  BY <1>2, <2>1
<1>3. 0 .. Len(G) \subseteq P
  <2> HIDE DEF P
  <2> QED  BY <1>1, <1>2, InductionUpTo
<1> QED  BY <1>3 DEF Pieces

(* Two sequences of frames one after the other.                             *)
LEMMA PiecesConcat ==
    ASSUME NEW G \in Seq(FrameSet), NEW H \in Seq(FrameSet), NEW kind
    PROVE  Pieces(G \o H, kind) = Pieces(G, kind) \o Pieces(H, kind)
<1> DEFINE J == G \o H
           n == Len(G)
           g == Pieces(G, kind)
           P == {i \in 0 .. Len(H) : PiecesUpTo(J, kind)[n + i] = g \o PiecesUpTo(H, kind)[i]}
<1>1. /\ J \in Seq(FrameSet) /\ n \in Nat /\ Len(H) \in Nat /\ Len(J) = n + Len(H)
      /\ \A i \in 1 .. n : J[i] = G[i]
      /\ \A i \in 1 .. Len(H) : J[n + i] = H[i]
  OBVIOUS
<1> HIDE DEF J
<1>2. g \in Data  BY <1>1, PiecesTyped DEF Pieces
<1>3. PiecesUpTo(J, kind)[n] = g
  <2>1. n <= Len(J) /\ n <= Len(G) /\ \A i \in 1 .. n : G[i].kind = J[i].kind /\ G[i].data = J[i].data
    BY <1>1
  <2>2. PiecesUpTo(G, kind)[n] = PiecesUpTo(J, kind)[n]
    <3> HIDE DEF n
    <3> QED  BY <1>1, <2>1, PiecesAgree
  <2> QED  BY <2>2 DEF Pieces
<1> HIDE DEF g, n
<1>4. 0 \in P
  <2>1. g \o <<>> = g  BY <1>2 DEF Data
  <2>2. PiecesUpTo(H, kind)[0] = <<>>  BY <1>1, PiecesSteps
  <2>3. n + 0 = n /\ 0 \in 0 .. Len(H)  BY <1>1
  <2> QED  BY <1>3, <2>1, <2>2, <2>3
<1>5. ASSUME NEW i \in 1 .. Len(H), i - 1 \in P PROVE i \in P
  <2> DEFINE h == PiecesUpTo(H, kind)[i - 1]
  <2>1. i - 1 \in 0 .. Len(H) /\ n + i \in 1 .. Len(J) /\ (n + i) - 1 = n + (i - 1) /\ Len(J) \in Nat
        /\ J[n + i] = H[i] /\ i \in 0 .. Len(H)
    BY <1>1
  <2>2. h \in Data  BY <2>1, PiecesTyped
  <2>3. PiecesUpTo(J, kind)[n + (i - 1)] = g \o h  BY <1>5
  <2>4. H[i] \in FrameSet  OBVIOUS
  <2>5. H[i].data \in Data  BY <2>4 DEF FrameSet, Data
  <2>6. PiecesUpTo(H, kind)[i] = IF H[i].kind = kind THEN h \o H[i].data ELSE h  BY <1>1, PiecesSteps
  <2>7. PiecesUpTo(J, kind)[n + i] = IF H[i].kind = kind THEN (g \o h) \o H[i].data ELSE g \o h
    <3>1. PiecesUpTo(J, kind)[n + i] = IF J[n + i].kind = kind THEN PiecesUpTo(J, kind)[(n + i) - 1] \o J[n + i].data
                                       ELSE PiecesUpTo(J, kind)[(n + i) - 1]
      <4> DEFINE k == n + i
      <4>1. k \in 1 .. Len(J) /\ Len(J) \in Nat  BY <2>1
      <4> HIDE DEF k
      <4>2. PiecesUpTo(J, kind)[k] = IF J[k].kind = kind THEN PiecesUpTo(J, kind)[k - 1] \o J[k].data
                                     ELSE PiecesUpTo(J, kind)[k - 1]
        BY <4>1, PiecesSteps
      <4> QED  BY <4>2 DEF k
    <3> HIDE DEF h
    <3> QED  BY <2>1, <2>3, <3>1
  <2> HIDE DEF h
  <2>8. (g \o h) \o H[i].data = g \o (h \o H[i].data)
    <3> DEFINE u == H[i].data
    <3>1. g \in Seq(Texts \cup Tools) /\ h \in Seq(Texts \cup Tools) /\ u \in Seq(Texts \cup Tools)
      BY <1>2, <2>2, <2>5 DEF Data
    <3> HIDE DEF u
    <3>2. (g \o h) \o u = g \o (h \o u)  BY <3>1, ConcatAssociative
    <3> QED  BY <3>2 DEF u
  <2>9. PiecesUpTo(J, kind)[n + i] = g \o PiecesUpTo(H, kind)[i]  BY <2>6, <2>7, <2>8
  <2> QED  BY <2>1, <2>9
<1>6. 0 .. Len(H) \subseteq P
  <2> HIDE DEF P
  <2> QED  BY <1>1, <1>4, <1>5, InductionUpTo
<1>7. PiecesUpTo(J, kind)[n + Len(H)] = g \o Pieces(H, kind)  BY <1>1, <1>6 DEF Pieces
<1> QED  BY <1>1, <1>7 DEF Pieces, J, g

(* The calls that frames make.                                              *)
CallsIn(G) == {<<G[i].index, G[i].data>> : i \in Calls(G)}

(* One more frame makes its own call, or none.                              *)
LEMMA CallsAppend ==
    ASSUME NEW G \in Seq(FrameSet), NEW f \in FrameSet
    PROVE  CallsIn(Append(G, f)) = CallsIn(G) \cup IF f.kind = "tool_calls" THEN {<<f.index, f.data>>} ELSE {}
<1> DEFINE H == Append(G, f)
           n == Len(G) + 1
<1>1. /\ Len(G) \in Nat /\ DOMAIN G = 1 .. Len(G) /\ DOMAIN H = 1 .. n
      /\ (\A i \in 1 .. Len(G) : H[i] = G[i]) /\ H[n] = f
  BY Appended
<1> HIDE DEF H
<1>2. Calls(H) = Calls(G) \cup IF f.kind = "tool_calls" THEN {n} ELSE {}
  BY <1>1 DEF Calls
<1>3. \A i \in Calls(G) : H[i] = G[i]  BY <1>1 DEF Calls
<1> QED  BY <1>1, <1>2, <1>3 DEF CallsIn, H

(* Frames in a row make the calls of both parts.                            *)
LEMMA CallsConcat ==
    ASSUME NEW G \in Seq(FrameSet), NEW H \in Seq(FrameSet)
    PROVE  CallsIn(G \o H) = CallsIn(G) \cup CallsIn(H)
<1> DEFINE J == G \o H
           n == Len(G)
<1>1. /\ n \in Nat /\ Len(H) \in Nat /\ DOMAIN J = 1 .. n + Len(H)
      /\ DOMAIN G = 1 .. n /\ DOMAIN H = 1 .. Len(H)
      /\ \A i \in 1 .. n : J[i] = G[i]
      /\ \A i \in 1 .. Len(H) : J[n + i] = H[i]
  OBVIOUS
<1> HIDE DEF J, n
<1>2. \A i \in Calls(G) : i \in Calls(J) /\ J[i] = G[i]  BY <1>1 DEF Calls
<1>3. \A i \in Calls(H) : n + i \in Calls(J) /\ J[n + i] = H[i]  BY <1>1 DEF Calls
<1>4. ASSUME NEW i \in Calls(J) PROVE (\E k \in Calls(G) : J[i] = G[k]) \/ (\E k \in Calls(H) : J[i] = H[k])
  <2>1. i \in 1 .. n + Len(H) /\ J[i].kind = "tool_calls"  BY <1>1 DEF Calls
  <2>2. CASE i <= n  BY <1>1, <2>1, <2>2 DEF Calls
  <2>3. CASE i > n
    <3>1. i - n \in 1 .. Len(H) /\ n + (i - n) = i  BY <1>1, <2>1, <2>3
    <3>2. J[i] = H[i - n]  BY <1>1, <3>1
    <3> QED  BY <1>1, <2>1, <3>1, <3>2 DEF Calls
  <2> QED  BY <1>1, <2>1, <2>2, <2>3
<1>5. CallsIn(J) \subseteq CallsIn(G) \cup CallsIn(H)  BY <1>4 DEF CallsIn
<1>6. CallsIn(G) \subseteq CallsIn(J)  BY <1>2 DEF CallsIn
<1>7. CallsIn(H) \subseteq CallsIn(J)  BY <1>3 DEF CallsIn
<1> QED  BY <1>5, <1>6, <1>7 DEF J

--------------------------------------------------------------------------------
(* The buffered answer in chunks                                            *)

(* The calls of an answer, with their indexes.                              *)
CallsOf(calls) == {<<i - 1, <<calls[i]>>>> : i \in DOMAIN calls}

(* Frames that say what the answer a holds.                                 *)
Tells(G, a) == /\ Pieces(G, "content") = a.texts /\ Pieces(G, "reasoning_content") = a.reasonings
               /\ CallsIn(G) = CallsOf(a.calls)

TextKinds == {"content", "reasoning_content"}

(* Texts that are not empty become one frame.                               *)
LEMMA ChunkSays ==
    ASSUME NEW kind \in TextKinds, NEW data \in Seq(Texts)
    PROVE  LET G == Chunk(data # <<>>, kind, data)
           IN  /\ G \in Seq(FrameSet) /\ CallsIn(G) = {}
               /\ \A k : Pieces(G, k) = IF k = kind THEN data ELSE <<>>
<1> DEFINE f == Frame(kind, data, 0, FALSE)
           G == Chunk(data # <<>>, kind, data)
<1>1. f \in FrameSet /\ f.kind = kind /\ f.data = data
  <2>1. data \in Seq(Texts \cup Tools) /\ kind \in DataKinds  BY DEF TextKinds, DataKinds
  <2>2. f \in FrameSet  BY <2>1, FrameType
  <2> QED  BY <2>2 DEF Frame
<1> HIDE DEF f
<1>2. CASE data = <<>>
  <2>1. G = <<>>  BY <1>2 DEF Chunk
  <2> HIDE DEF G
  <2>2. CallsIn(G) = {}  BY <2>1 DEF CallsIn, Calls
  <2>3. G \in Seq(FrameSet)  BY <2>1
  <2>4. \A k : Pieces(G, k) = <<>>  BY <2>1, PiecesFew
  <2> QED  BY <1>2, <2>2, <2>3, <2>4 DEF G
<1>3. CASE data # <<>>
  <2>1. G = <<f>>  BY <1>3 DEF Chunk, f
  <2> HIDE DEF G
  <2>2. CallsIn(G) = {}  BY <1>1, <2>1 DEF CallsIn, Calls, TextKinds
  <2>3. G \in Seq(FrameSet)  BY <1>1, <2>1
  <2>4. \A k : Pieces(G, k) = IF k = kind THEN data ELSE <<>>  BY <1>1, <2>1, PiecesFew
  <2> QED  BY <2>2, <2>3, <2>4 DEF G
<1> QED  BY <1>2, <1>3

(* Calls become a frame each.                                               *)
LEMMA ToolChunksSay ==
    ASSUME NEW calls \in Seq(Tools)
    PROVE  LET G == ToolChunks(calls)
           IN  /\ G \in Seq(FrameSet) /\ CallsIn(G) = CallsOf(calls)
               /\ \A k \in TextKinds : Pieces(G, k) = <<>>
<1> DEFINE G == ToolChunks(calls)
<1>1. DOMAIN G = DOMAIN calls /\ DOMAIN calls = 1 .. Len(calls) /\ Len(calls) \in Nat  BY DEF ToolChunks
<1>2. ASSUME NEW i \in DOMAIN calls
      PROVE  /\ G[i] \in FrameSet /\ G[i].kind = "tool_calls"
             /\ G[i].index = i - 1 /\ G[i].data = <<calls[i]>>
  <2>1. G[i] = Frame("tool_calls", <<calls[i]>>, i - 1, FALSE)  BY DEF ToolChunks
  <2>2. <<calls[i]>> \in Seq(Texts \cup Tools)
    <3>1. calls[i] \in Tools  OBVIOUS
    <3> QED  BY <3>1
  <2>3. i - 1 \in Nat /\ "tool_calls" \in DataKinds  BY <1>1 DEF DataKinds
  <2>4. G[i] \in FrameSet
    <3> HIDE DEF G
    <3> QED  BY <2>1, <2>2, <2>3, FrameType
  <2> DEFINE f == Frame("tool_calls", <<calls[i]>>, i - 1, FALSE)
  <2>5. f.kind = "tool_calls" /\ f.data = <<calls[i]>> /\ f.index = i - 1  BY DEF Frame
  <2>6. G[i] = f  BY <2>1
  <2> HIDE DEF f, G
  <2> QED  BY <2>4, <2>5, <2>6
<1>3. G = [i \in 1 .. Len(calls) |-> G[i]]  BY <1>1 DEF ToolChunks
<1> HIDE DEF G
<1>4. G \in Seq(FrameSet) /\ Len(G) = Len(calls)
  <2>1. \A i \in 1 .. Len(calls) : G[i] \in FrameSet  BY <1>1, <1>2
  <2> QED  BY <1>1, <1>3, <2>1
<1>5. Calls(G) = DOMAIN calls  BY <1>1, <1>2 DEF Calls
<1>6. CallsIn(G) = CallsOf(calls)  BY <1>2, <1>5 DEF CallsIn, CallsOf
<1>7. ASSUME NEW k \in TextKinds PROVE Pieces(G, k) = <<>>
  <2>1. \A i \in 1 .. Len(G) : G[i].kind # k  BY <1>1, <1>2, <1>4 DEF TextKinds
  <2> QED  BY <1>4, <2>1, PiecesNone
<1> QED  BY <1>4, <1>6, <1>7 DEF G

(* The role on the first frame changes nothing that is said.                *)
LEMMA RoleSaysNothing ==
    ASSUME NEW G \in Seq(FrameSet), G # <<>>
    PROVE  LET H == [G EXCEPT ![1].role = TRUE]
           IN  /\ H \in Seq(FrameSet) /\ CallsIn(H) = CallsIn(G)
               /\ \A k : Pieces(H, k) = Pieces(G, k)
<1> DEFINE H == [G EXCEPT ![1].role = TRUE]
<1>1. Len(G) \in Nat /\ DOMAIN G = 1 .. Len(G) /\ 1 \in DOMAIN G  OBVIOUS
<1>2. ASSUME NEW i \in DOMAIN G
      PROVE  H[i] \in FrameSet /\ H[i].kind = G[i].kind /\ H[i].data = G[i].data /\ H[i].index = G[i].index
  <2>1. G[i] \in FrameSet  OBVIOUS
  <2>2. H[i] = IF i = 1 THEN [G[i] EXCEPT !.role = TRUE] ELSE G[i]  BY <1>1
  <2> HIDE DEF H
  <2>3. [G[i] EXCEPT !.role = TRUE] \in FrameSet  BY <2>1 DEF FrameSet
  <2> QED  BY <2>1, <2>2, <2>3 DEF FrameSet
<1>3. DOMAIN H = 1 .. Len(G) /\ H = [i \in 1 .. Len(G) |-> H[i]]  BY <1>1
<1> HIDE DEF H
<1>4. H \in Seq(FrameSet) /\ Len(H) = Len(G)
  <2>1. \A i \in 1 .. Len(G) : H[i] \in FrameSet  BY <1>1, <1>2
  <2> QED  BY <1>1, <1>3, <2>1
<1>5. Calls(H) = Calls(G)  BY <1>1, <1>2, <1>3 DEF Calls
<1>6. CallsIn(H) = CallsIn(G)
  <2>1. \A i \in Calls(G) : i \in DOMAIN G  BY DEF Calls
  <2> QED  BY <1>2, <1>5, <2>1 DEF CallsIn
<1>7. ASSUME NEW k PROVE Pieces(H, k) = Pieces(G, k)
  <2> DEFINE n == Len(G)
  <2>1. n \in Nat /\ n <= Len(G) /\ n <= Len(H)
        /\ \A i \in 1 .. n : H[i].kind = G[i].kind /\ H[i].data = G[i].data
    BY <1>1, <1>2, <1>4
  <2> HIDE DEF n
  <2>2. PiecesUpTo(H, k)[n] = PiecesUpTo(G, k)[n]  BY <1>4, <2>1, PiecesAgree
  <2> QED  BY <1>4, <2>2 DEF Pieces, n
<1> QED  BY <1>4, <1>6, <1>7 DEF H

(* How an answer that is read out of frames ends.                           *)
LEMMA FinalEnds ==
    ASSUME NEW G \in Seq(FrameSet), NEW a \in DecoderSet, Tells(G, a)
    PROVE  LET H == Append(G, FinalFrame(a.finish, a.usage))
           IN  H \in Seq(FrameSet) /\ Tells(H, a) /\ Last(H).finish = a.finish /\ Last(H).usage = a.usage
<1> DEFINE g == FinalFrame(a.finish, a.usage)
           H == Append(G, g)
<1>1. g \in FrameSet /\ g.kind = "final"  BY FinalFrameType DEF DecoderSet
<1>2. g.finish = a.finish /\ g.usage = a.usage  BY DEF FinalFrame
<1> HIDE DEF g
<1>3. H \in Seq(FrameSet) /\ H[Len(H)] = g  BY <1>1
<1>4. Tells(H, a)  BY <1>1, PiecesAppend, CallsAppend DEF Tells
<1> HIDE DEF H
<1>5. Last(H) = g  BY <1>3 DEF Last
<1> QED  BY <1>2, <1>3, <1>4, <1>5 DEF g, H

(* The chunks of an answer say what the answer says.                        *)
LEMMA ChunksTell ==
    ASSUME NEW a \in DecoderSet
    PROVE  Assembled(toOpenAIChunks(a)) = toOpenAIResponse(a)
<1> DEFINE R == Chunk(a.reasonings # <<>>, "reasoning_content", a.reasonings)
           T == Chunk(a.texts # <<>>, "content", a.texts)
           K == ToolChunks(a.calls)
           some == R \o T \o K
           full == IF some = <<>> THEN Chunk(TRUE, "role", <<>>) ELSE some
           shown == [full EXCEPT ![1].role = TRUE]
           all == Append(shown, FinalFrame(a.finish, a.usage))
<1>1. a.texts \in Seq(Texts) /\ a.reasonings \in Seq(Texts) /\ a.calls \in Seq(Tools)  BY DEF DecoderSet
<1>2. /\ R \in Seq(FrameSet) /\ CallsIn(R) = {}
      /\ \A k : Pieces(R, k) = IF k = "reasoning_content" THEN a.reasonings ELSE <<>>
  BY <1>1, ChunkSays DEF TextKinds
<1>3. /\ T \in Seq(FrameSet) /\ CallsIn(T) = {}
      /\ \A k : Pieces(T, k) = IF k = "content" THEN a.texts ELSE <<>>
  BY <1>1, ChunkSays DEF TextKinds
<1>4. /\ K \in Seq(FrameSet) /\ CallsIn(K) = CallsOf(a.calls)
      /\ Pieces(K, "content") = <<>> /\ Pieces(K, "reasoning_content") = <<>>
  BY <1>1, ToolChunksSay DEF TextKinds
<1> HIDE DEF R, T, K
<1>5. some \in Seq(FrameSet) /\ Tells(some, a)
  <2> DEFINE U == R \o T
  <2>1. U \in Seq(FrameSet) /\ some \in Seq(FrameSet) /\ some = U \o K  BY <1>2, <1>3, <1>4
  <2>2. CallsIn(U) = {} /\ \A k : Pieces(U, k) = Pieces(R, k) \o Pieces(T, k)
    BY <1>2, <1>3, CallsConcat, PiecesConcat
  <2> HIDE DEF U, some
  <2>3. \A k : Pieces(some, k) = (Pieces(R, k) \o Pieces(T, k)) \o Pieces(K, k)
    <3>1. \A k : Pieces(U \o K, k) = Pieces(U, k) \o Pieces(K, k)  BY <1>4, <2>1, PiecesConcat
    <3> QED  BY <2>1, <2>2, <3>1
  <2>5. CallsIn(some) = CallsOf(a.calls)
    <3>1. CallsIn(U \o K) = CallsIn(U) \cup CallsIn(K)  BY <1>4, <2>1, CallsConcat
    <3> QED  BY <1>4, <2>1, <2>2, <3>1
  <2>4. (<<>> \o a.texts) \o <<>> = a.texts /\ (a.reasonings \o <<>>) \o <<>> = a.reasonings  BY <1>1
  <2> QED  BY <1>2, <1>3, <1>4, <2>1, <2>3, <2>4, <2>5 DEF Tells
<1> HIDE DEF some
<1>6. full \in Seq(FrameSet) /\ full # <<>> /\ Tells(full, a)
  <2>1. CASE some # <<>>  BY <1>5, <2>1
  <2>2. CASE some = <<>>
    <3> DEFINE f == Frame("role", <<>>, 0, FALSE)
    <3>1. f \in FrameSet /\ f.kind = "role"
      <4>1. <<>> \in Seq(Texts \cup Tools) /\ "role" \in DataKinds  BY DEF DataKinds
      <4>2. f \in FrameSet  BY <4>1, FrameType
      <4> QED  BY <4>2 DEF Frame
    <3>2. full = <<f>>  BY <2>2 DEF Chunk
    <3> HIDE DEF f, full
    <3>3. full \in Seq(FrameSet) /\ full # <<>>  BY <3>1, <3>2
    <3>4. Pieces(full, "content") = <<>> /\ Pieces(full, "reasoning_content") = <<>>  BY <3>1, <3>2, PiecesFew
    <3>5. CallsIn(full) = {}  BY <3>1, <3>2 DEF CallsIn, Calls
    <3>6. Pieces(some, "content") = <<>> /\ Pieces(some, "reasoning_content") = <<>>  BY <2>2, PiecesFew
    <3>7. CallsIn(some) = {}  BY <2>2 DEF CallsIn, Calls
    <3> QED  BY <1>5, <3>3, <3>4, <3>5, <3>6, <3>7 DEF Tells
  <2> QED  BY <2>1, <2>2
<1> HIDE DEF full
<1>7. shown \in Seq(FrameSet) /\ Tells(shown, a)  BY <1>6, RoleSaysNothing DEF Tells
<1> HIDE DEF shown
<1>8. Tells(all, a) /\ Last(all).finish = a.finish /\ Last(all).usage = a.usage  BY <1>7, FinalEnds
<1>9. toOpenAIChunks(a) = all  BY DEF toOpenAIChunks, all, shown, full, some, R, T, K
<1> HIDE DEF all
<1>10. Assembled(all) = toOpenAIResponse(a)
  BY <1>8 DEF Assembled, toOpenAIResponse, Tells, CallsIn, CallsOf
<1> QED  BY <1>9, <1>10

--------------------------------------------------------------------------------
(* Both decoders on one body                                                *)

(* A streaming decoder d goes like a buffered one a;                        *)
Alike(d, a) == (d.done <=> a.done) /\ d.fatal = a.fatal /\ d.tools = Len(a.calls)

(* its frames say what the buffered one keeps, and how the answer ended.    *)
Told(G, a) == Tells(G, a) /\ (a.done => Last(G).finish = a.finish /\ Last(G).usage = a.usage)

(* Unless the host refused a frame, the modes go alike, and differ only     *)
(* while the streaming one emits.                                           *)
AlikeInv ==
    verdict["streaming"] # "emit" =>
        /\ Alike(dec["streaming"], dec["buffered"]) /\ Told(Stream, dec["buffered"])
        /\ queue = <<>> => verdict["streaming"] = verdict["buffered"]
        /\ queue # <<>> => verdict["buffered"] = AfterPush(dec["buffered"])

(* p is d with one frame made of data.                                      *)
Emits(d, kind, data, p) ==
    /\ p \in DecoderSet /\ (p.done <=> d.done) /\ p.fatal = d.fatal /\ p.tools = d.tools
    /\ p.finish = d.finish /\ p.usage = d.usage
    /\ \E f \in FrameSet : p.frames = <<f>> /\ f.kind = kind /\ f.data = data /\ f.index = d.tools

(* The frame of one emit.                                                   *)
LEMMA StreamEmits ==
    ASSUME NEW d \in DecoderSet, d.frames = <<>>, NEW kind \in DataKinds, NEW data \in Seq(Texts \cup Tools)
    PROVE  Emits(d, kind, data, Emit("streaming", d, kind, data))
<1> DEFINE f == Frame(kind, data, d.tools, ~d.sentRole)
           p == Emit("streaming", d, kind, data)
<1>1. f \in FrameSet /\ f.kind = kind /\ f.data = data /\ f.index = d.tools
  <2>1. d.tools \in Nat /\ (~d.sentRole) \in BOOLEAN  BY DEF DecoderSet
  <2>2. f \in FrameSet  BY <2>1, FrameType
  <2> QED  BY <2>2 DEF Frame
<1>2. p \in DecoderSet /\ (p.done <=> d.done) /\ p.fatal = d.fatal /\ p.tools = d.tools
  BY EmitEffect DEF KeepsRest, Modes
<1>3. p.frames = <<f>> /\ p.finish = d.finish /\ p.usage = d.usage
  <2>1. Append(d.frames, f) = <<f>>  OBVIOUS
  <2>2. p = [d EXCEPT !.frames = <<f>>, !.sentRole = TRUE]  BY <2>1 DEF Emit
  <2> HIDE DEF f, p
  <2> QED  BY <2>2 DEF DecoderSet
<1> HIDE DEF f, p
<1>4. \E g \in FrameSet : p.frames = <<g>> /\ g.kind = kind /\ g.data = data /\ g.index = d.tools
  BY <1>1, <1>3
<1>5. Emits(d, kind, data, p)  BY <1>2, <1>3, <1>4 DEF Emits
<1> QED  BY <1>5 DEF p

(* Text is said and kept.                                                   *)
LEMMA TextTells ==
    ASSUME NEW o \in DecoderSet, NEW b \in DecoderSet, Alike(o, b), o.frames = <<>>, ~b.done,
           NEW G \in Seq(FrameSet), Tells(G, b), NEW x \in Texts
    PROVE  LET p == FoldText("streaming", o, x)
               q == FoldText("buffered", b, x)
           IN  Alike(p, q) /\ Told(G \o p.frames, q)
<1> DEFINE e == [o EXCEPT !.texts = Kept("streaming", @, x)]
           p == FoldText("streaming", o, x)
           q == FoldText("buffered", b, x)
<1>1. /\ e \in DecoderSet /\ e.frames = <<>> /\ (e.done <=> o.done) /\ e.fatal = o.fatal /\ e.tools = o.tools
  BY DEF Kept, DecoderSet
<1>2. q = [b EXCEPT !.texts = Append(@, x)]  BY DEF FoldText, Emit, Kept
<1>3. /\ q.texts = Append(b.texts, x) /\ q.reasonings = b.reasonings /\ q.calls = b.calls
      /\ (q.done <=> b.done) /\ q.fatal = b.fatal
  <2> HIDE DEF q
  <2> QED  BY <1>2 DEF DecoderSet
<1>4. p = Emit("streaming", e, "content", <<x>>)  BY DEF FoldText
<1> HIDE DEF e, p, q
<1>5. <<x>> \in Seq(Texts \cup Tools) /\ "content" \in DataKinds  BY DEF DataKinds
<1>6. /\ (p.done <=> o.done) /\ p.fatal = o.fatal /\ p.tools = o.tools
      /\ \E f \in FrameSet : p.frames = <<f>> /\ f.kind = "content" /\ f.data = <<x>>
  <2>1. Emits(e, "content", <<x>>, Emit("streaming", e, "content", <<x>>))  BY <1>1, <1>5, StreamEmits
  <2>2. Emits(e, "content", <<x>>, p)  BY <1>4, <2>1
  <2> QED  BY <1>1, <2>2 DEF Emits
<1>7. PICK f \in FrameSet : p.frames = <<f>> /\ f.kind = "content" /\ f.data = <<x>>  BY <1>6
<1>8. G \o p.frames = Append(G, f)  BY <1>7
<1>9. Tells(Append(G, f), q)
  <2>1. b.texts \in Seq(Texts)  BY DEF DecoderSet
  <2>2. b.texts \o <<x>> = Append(b.texts, x)  BY <2>1
  <2> QED  BY <1>3, <1>7, <2>2, PiecesAppend, CallsAppend DEF Tells
<1>10. Alike(p, q)  BY <1>3, <1>6 DEF Alike
<1> QED  BY <1>3, <1>8, <1>9, <1>10 DEF Told, p, q

(* So is reasoning.                                                         *)
LEMMA ReasoningTells ==
    ASSUME NEW o \in DecoderSet, NEW b \in DecoderSet, Alike(o, b), o.frames = <<>>, ~b.done,
           NEW G \in Seq(FrameSet), Tells(G, b), NEW x \in Texts
    PROVE  LET p == FoldReasoning("streaming", o, x)
               q == FoldReasoning("buffered", b, x)
           IN  Alike(p, q) /\ Told(G \o p.frames, q)
<1> DEFINE e == [o EXCEPT !.reasonings = Kept("streaming", @, x)]
           p == FoldReasoning("streaming", o, x)
           q == FoldReasoning("buffered", b, x)
<1>1. /\ e \in DecoderSet /\ e.frames = <<>> /\ (e.done <=> o.done) /\ e.fatal = o.fatal /\ e.tools = o.tools
  BY DEF Kept, DecoderSet
<1>2. q = [b EXCEPT !.reasonings = Append(@, x)]  BY DEF FoldReasoning, Emit, Kept
<1>3. /\ q.reasonings = Append(b.reasonings, x) /\ q.texts = b.texts /\ q.calls = b.calls
      /\ (q.done <=> b.done) /\ q.fatal = b.fatal
  <2> HIDE DEF q
  <2> QED  BY <1>2 DEF DecoderSet
<1>4. p = Emit("streaming", e, "reasoning_content", <<x>>)  BY DEF FoldReasoning
<1> HIDE DEF e, p, q
<1>5. <<x>> \in Seq(Texts \cup Tools) /\ "reasoning_content" \in DataKinds  BY DEF DataKinds
<1>6. /\ (p.done <=> o.done) /\ p.fatal = o.fatal /\ p.tools = o.tools
      /\ \E f \in FrameSet : p.frames = <<f>> /\ f.kind = "reasoning_content" /\ f.data = <<x>>
  <2>1. Emits(e, "reasoning_content", <<x>>, Emit("streaming", e, "reasoning_content", <<x>>))  BY <1>1, <1>5, StreamEmits
  <2>2. Emits(e, "reasoning_content", <<x>>, p)  BY <1>4, <2>1
  <2> QED  BY <1>1, <2>2 DEF Emits
<1>7. PICK f \in FrameSet : p.frames = <<f>> /\ f.kind = "reasoning_content" /\ f.data = <<x>>  BY <1>6
<1>8. G \o p.frames = Append(G, f)  BY <1>7
<1>9. Tells(Append(G, f), q)
  <2>1. b.reasonings \in Seq(Texts)  BY DEF DecoderSet
  <2>2. b.reasonings \o <<x>> = Append(b.reasonings, x)  BY <2>1
  <2> QED  BY <1>3, <1>7, <2>2, PiecesAppend, CallsAppend DEF Tells
<1>10. Alike(p, q)  BY <1>3, <1>6 DEF Alike
<1> QED  BY <1>3, <1>8, <1>9, <1>10 DEF Told, p, q

(* A call is said with the index of its place.                              *)
LEMMA ToolTells ==
    ASSUME NEW o \in DecoderSet, NEW b \in DecoderSet, Alike(o, b), o.frames = <<>>, ~b.done,
           NEW G \in Seq(FrameSet), Tells(G, b), NEW x \in Tools
    PROVE  LET p == FoldTool("streaming", o, x)
               q == FoldTool("buffered", b, x)
           IN  Alike(p, q) /\ Told(G \o p.frames, q)
<1> DEFINE e == [o EXCEPT !.calls = Kept("streaming", @, x)]
           r == Emit("streaming", e, "tool_calls", <<x>>)
           p == FoldTool("streaming", o, x)
           q == FoldTool("buffered", b, x)
<1>1. /\ e \in DecoderSet /\ e.frames = <<>> /\ (e.done <=> o.done) /\ e.fatal = o.fatal /\ e.tools = o.tools
  BY DEF Kept, DecoderSet
<1>2. q = [b EXCEPT !.calls = Append(@, x)]  BY DEF FoldTool, Emit, Kept
<1>3. /\ q.calls = Append(b.calls, x) /\ q.texts = b.texts /\ q.reasonings = b.reasonings
      /\ (q.done <=> b.done) /\ q.fatal = b.fatal
  <2> HIDE DEF q
  <2> QED  BY <1>2 DEF DecoderSet
<1>4. p = [r EXCEPT !.tools = @ + 1]  BY DEF FoldTool
<1> HIDE DEF e, p, q
<1>5. <<x>> \in Seq(Texts \cup Tools) /\ "tool_calls" \in DataKinds  BY DEF DataKinds
<1>6. /\ r \in DecoderSet /\ (r.done <=> o.done) /\ r.fatal = o.fatal /\ r.tools = o.tools
      /\ \E f \in FrameSet : r.frames = <<f>> /\ f.kind = "tool_calls" /\ f.data = <<x>> /\ f.index = o.tools
  <2>1. Emits(e, "tool_calls", <<x>>, r)  BY <1>1, <1>5, StreamEmits
  <2> HIDE DEF r
  <2> QED  BY <1>1, <2>1 DEF Emits
<1> HIDE DEF r
<1>7. PICK f \in FrameSet : r.frames = <<f>> /\ f.kind = "tool_calls" /\ f.data = <<x>> /\ f.index = o.tools
  BY <1>6
<1>8. (p.done <=> o.done) /\ p.fatal = o.fatal /\ p.tools = o.tools + 1 /\ p.frames = <<f>>
  BY <1>4, <1>6, <1>7 DEF DecoderSet
<1>9. G \o p.frames = Append(G, f)  BY <1>8
<1>10. /\ b.calls \in Seq(Tools) /\ Len(q.calls) = Len(b.calls) + 1
       /\ CallsOf(q.calls) = CallsOf(b.calls) \cup {<<Len(b.calls), <<x>>>>}
  <2> DEFINE c == Append(b.calls, x)
             n == Len(b.calls)
  <2>1. b.calls \in Seq(Tools)  BY DEF DecoderSet
  <2>2. /\ n \in Nat /\ DOMAIN b.calls = 1 .. n /\ DOMAIN c = 1 .. n + 1 /\ Len(c) = n + 1
        /\ c[n + 1] = x /\ \A i \in 1 .. n : c[i] = b.calls[i]
    BY <2>1
  <2> HIDE DEF c, n
  <2>3. DOMAIN c = DOMAIN b.calls \cup {n + 1} /\ (n + 1) - 1 = n  BY <2>2
  <2>4. CallsOf(c) = CallsOf(b.calls) \cup {<<n, <<x>>>>}  BY <2>2, <2>3 DEF CallsOf
  <2> QED  BY <1>3, <2>1, <2>2, <2>4 DEF c, n
<1>11. Tells(Append(G, f), q)
  BY <1>3, <1>7, <1>10, PiecesAppend, CallsAppend DEF Tells, Alike
<1>12. Alike(p, q)  BY <1>3, <1>8, <1>10 DEF Alike
<1> QED  BY <1>3, <1>9, <1>11, <1>12 DEF Told, p, q

(* A pair, made one after the other.                                        *)
LEMMA AppendPair ==
    ASSUME NEW S, NEW x \in S, NEW y \in S
    PROVE  Append(<<x>>, y) = <<x, y>>
<1>1. Len(Append(<<x>>, y)) = 2 /\ Append(<<x>>, y) \in Seq(S) /\ <<x, y>> \in Seq(S)  OBVIOUS
<1>2. Append(<<x>>, y)[1] = x /\ Append(<<x>>, y)[2] = y  OBVIOUS
<1>3. \A i \in 1 .. 2 : Append(<<x>>, y)[i] = <<x, y>>[i]  BY <1>2
<1> QED  BY <1>1, <1>3, SeqEqual

(* The final frame ends the stream as the answer ends.                      *)
LEMMA FinishTells ==
    ASSUME NEW o \in DecoderSet, NEW b \in DecoderSet, Alike(o, b), o.frames = <<>>,
           NEW G \in Seq(FrameSet), Tells(G, b),
           NEW reason \in FinishReasons, NEW usage \in Usages \cup {NoUsage}
    PROVE  LET p == FoldFinish("streaming", o, reason, usage)
               q == FoldFinish("buffered", b, reason, usage)
           IN  Alike(p, q) /\ Told(G \o p.frames, q)
<1> DEFINE e == [o EXCEPT !.finish = mapFinishReason(reason), !.usage = usage, !.done = TRUE]
           r == Emit("streaming", e, "role", <<>>)
           s == IF o.sentRole THEN e ELSE r
           g == FinalFrame(e.finish, e.usage)
           p == FoldFinish("streaming", o, reason, usage)
           q == FoldFinish("buffered", b, reason, usage)
<1>1. mapFinishReason(reason) \in Finishes  BY DEF mapFinishReason, FinishReasons, Finishes
<1>2. /\ e \in DecoderSet /\ e.frames = <<>> /\ e.done /\ e.fatal = o.fatal /\ e.tools = o.tools
      /\ e.finish = mapFinishReason(reason) /\ e.usage = usage
  BY <1>1 DEF DecoderSet
<1>3. q = [b EXCEPT !.finish = mapFinishReason(reason), !.usage = usage, !.done = TRUE]  BY DEF FoldFinish
<1>4. /\ q \in DecoderSet /\ q.calls = b.calls /\ q.texts = b.texts /\ q.reasonings = b.reasonings
      /\ q.done /\ q.fatal = b.fatal /\ q.finish = e.finish /\ q.usage = e.usage
  <2> HIDE DEF e, q
  <2> QED  BY <1>1, <1>2, <1>3 DEF DecoderSet
<1>5. p = [s EXCEPT !.frames = Append(@, g)]  BY DEF FoldFinish
<1> HIDE DEF e, p, q
<1>6. <<>> \in Seq(Texts \cup Tools) /\ "role" \in DataKinds  BY DEF DataKinds
<1>7. /\ r \in DecoderSet /\ r.done /\ r.fatal = o.fatal /\ r.tools = o.tools
      /\ \E f \in FrameSet : r.frames = <<f>> /\ f.kind = "role"
  <2>1. Emits(e, "role", <<>>, r)  BY <1>2, <1>6, StreamEmits
  <2> HIDE DEF r
  <2> QED  BY <1>2, <2>1 DEF Emits
<1> HIDE DEF r
<1>8. s \in DecoderSet /\ s.done /\ s.fatal = o.fatal /\ s.tools = o.tools  BY <1>2, <1>7
<1>9. s.frames = <<>> \/ \E f \in FrameSet : s.frames = <<f>> /\ f.kind = "role"  BY <1>2, <1>7
<1> HIDE DEF s
<1>10. p.done /\ p.fatal = o.fatal /\ p.tools = o.tools /\ p.frames = Append(s.frames, g)
  <2> HIDE DEF g
  <2> QED  BY <1>5, <1>8 DEF DecoderSet
<1>11. Alike(p, q)  BY <1>4, <1>10 DEF Alike
<1>12. \E H \in Seq(FrameSet) : G \o p.frames = Append(H, g) /\ Tells(H, q)
  <2>1. Tells(G, q)  BY <1>4 DEF Tells
  <2>2. g \in FrameSet  BY <1>2, FinalFrameType DEF DecoderSet
  <2> HIDE DEF g
  <2>3. CASE s.frames = <<>>
    <3>1. p.frames = <<g>>  BY <1>10, <2>3
    <3>2. G \o p.frames = Append(G, g)  BY <2>2, <3>1
    <3> QED  BY <2>1, <3>2
  <2>4. CASE \E f \in FrameSet : s.frames = <<f>> /\ f.kind = "role"
    <3>1. PICK f \in FrameSet : s.frames = <<f>> /\ f.kind = "role"  BY <2>4
    <3> DEFINE H == Append(G, f)
    <3>2. H \in Seq(FrameSet)  OBVIOUS
    <3>3. Tells(H, q)  BY <2>1, <3>1, PiecesAppend, CallsAppend DEF Tells
    <3>4. p.frames = <<f, g>>
      <4>1. Append(<<f>>, g) = <<f, g>>  BY <2>2, AppendPair
      <4> QED  BY <1>10, <3>1, <4>1
    <3>5. G \o <<f, g>> = Append(H, g)  BY <2>2
    <3> HIDE DEF H
    <3> QED  BY <3>2, <3>3, <3>4, <3>5
  <2> QED  BY <1>9, <2>3, <2>4
<1>13. PICK H \in Seq(FrameSet) : G \o p.frames = Append(H, g) /\ Tells(H, q)  BY <1>12
<1>14. g = FinalFrame(q.finish, q.usage)  BY <1>4
<1> HIDE DEF g
<1>15. Told(G \o p.frames, q)  BY <1>4, <1>13, <1>14, FinalEnds DEF Told
<1> QED  BY <1>11, <1>15 DEF p, q

(* One line for both.                                                       *)
LEMMA PushTells ==
    ASSUME NEW d \in DecoderSet, NEW a \in DecoderSet, Alike(d, a), d.consumed = a.consumed, ~a.done,
           NEW G \in Seq(FrameSet), Tells(G, a), NEW l \in Lines
    PROVE  LET p == push("streaming", d, l)
               q == push("buffered", a, l)
           IN  Alike(p, q) /\ Told(G \o p.frames, q)
<1> DEFINE o == Opened(d, l)
           b == Opened(a, l)
           e == l.event
           p == push("streaming", d, l)
           q == push("buffered", a, l)
<1>1. /\ o \in DecoderSet /\ o.frames = <<>> /\ (o.done <=> d.done) /\ o.fatal = d.fatal /\ o.tools = d.tools
      /\ b \in DecoderSet /\ b.frames = <<>> /\ (b.done <=> a.done) /\ b.fatal = a.fatal
  BY OpenedType
<1>2. b.texts = a.texts /\ b.reasonings = a.reasonings /\ b.calls = a.calls  BY DEF Opened, DecoderSet
<1>3. e \in Events  BY DEF Lines
<1>4. /\ p = IF Oversized(d, l) THEN Fatal(o, "size") ELSE applyEvent("streaming", o, e)
      /\ q = IF Oversized(a, l) THEN Fatal(b, "size") ELSE applyEvent("buffered", b, e)
  BY DEF push, Opened
<1>5. Oversized(d, l) <=> Oversized(a, l)  BY DEF Oversized
<1> HIDE DEF o, b, e, p, q
<1>6. Alike(o, b) /\ Tells(G, b) /\ ~b.done  BY <1>1, <1>2 DEF Alike, Tells
<1> DEFINE Goal == Alike(p, q) /\ Told(G \o p.frames, q)
<1>7. G \o <<>> = G  BY NoMore
<1>8. ASSUME NEW why \in Failures, p = Fatal(o, why), q = Fatal(b, why)
      PROVE  Goal
  <2>1. p.frames = <<>> /\ (p.done <=> o.done) /\ p.fatal = why /\ p.tools = o.tools
    BY <1>1, <1>8, FatalEffect
  <2>2. (q.done <=> b.done) /\ q.fatal = why  BY <1>1, <1>8, FatalEffect
  <2>3. q.texts = b.texts /\ q.reasonings = b.reasonings /\ q.calls = b.calls
    BY <1>1, <1>8 DEF Fatal, DecoderSet
  <2> QED  BY <1>6, <1>7, <2>1, <2>2, <2>3 DEF Alike, Told, Tells
<1>9. CASE Oversized(d, l)
  <2>1. p = Fatal(o, "size") /\ q = Fatal(b, "size")  BY <1>4, <1>5, <1>9
  <2>2. "size" \in Failures  BY DEF Failures
  <2> QED  BY <1>8, <2>1, <2>2 DEF p, q
<1>10. CASE ~Oversized(d, l)
  <2>1. p = applyEvent("streaming", o, e) /\ q = applyEvent("buffered", b, e)  BY <1>4, <1>5, <1>10
  <2>2. CASE e.type = "text-delta" /\ e.data # NoContent
    <3>1. p = FoldText("streaming", o, e.data) /\ q = FoldText("buffered", b, e.data)
      BY <2>1, <2>2 DEF applyEvent
    <3>2. e.data \in Texts  BY <1>3, <2>2, EventData
    <3>3. Goal  BY <1>1, <1>6, <3>1, <3>2, TextTells
    <3> QED  BY <3>3 DEF p, q
  <2>3. CASE e.type = "reasoning-delta" /\ e.data # NoContent
    <3>1. p = FoldReasoning("streaming", o, e.data) /\ q = FoldReasoning("buffered", b, e.data)
      BY <2>1, <2>3 DEF applyEvent
    <3>2. e.data \in Texts  BY <1>3, <2>3, EventData
    <3>3. Goal  BY <1>1, <1>6, <3>1, <3>2, ReasoningTells
    <3> QED  BY <3>3 DEF p, q
  <2>4. CASE e.type = "tool-call"
    <3>1. p = FoldTool("streaming", o, e.data) /\ q = FoldTool("buffered", b, e.data)
      BY <2>1, <2>4 DEF applyEvent
    <3>2. e.data \in Tools  BY <1>3, <2>4, EventData
    <3>3. Goal  BY <1>1, <1>6, <3>1, <3>2, ToolTells
    <3> QED  BY <3>3 DEF p, q
  <2>5. CASE e.type = "finish"
    <3>1. p = FoldFinish("streaming", o, e.data, e.usage) /\ q = FoldFinish("buffered", b, e.data, e.usage)
      BY <2>1, <2>5 DEF applyEvent
    <3>2. e.data \in FinishReasons /\ e.usage \in Usages \cup {NoUsage}  BY <1>3, <2>5, EventData
    <3>3. Goal  BY <1>1, <1>6, <3>1, <3>2, FinishTells
    <3> QED  BY <3>3 DEF p, q
  <2>6. CASE e.type \in {"malformed", "error", "abort"}
    <3>1. p = Fatal(o, e.type) /\ q = Fatal(b, e.type)  BY <2>1, <2>6 DEF applyEvent
    <3>2. e.type \in Failures  BY <2>6 DEF Failures
    <3> QED  BY <1>8, <3>1, <3>2 DEF p, q
  <2>7. CASE /\ ~(e.type = "text-delta" /\ e.data # NoContent)
             /\ ~(e.type = "reasoning-delta" /\ e.data # NoContent)
             /\ e.type \notin {"tool-call", "finish", "malformed", "error", "abort"}
    <3>1. p = o /\ q = b  BY <2>1, <2>7 DEF applyEvent
    <3>2. Goal  BY <1>1, <1>6, <1>7, <3>1 DEF Told
    <3> QED  BY <3>2 DEF p, q
  <2> QED  BY <2>2, <2>3, <2>4, <2>5, <2>6, <2>7
<1> QED  BY <1>9, <1>10

(* Alike decoders return alike.                                             *)
LEMMA AlikeReturn ==
    ASSUME NEW d \in DecoderSet, NEW a \in DecoderSet, Alike(d, a)
    PROVE  AfterPush(d) = AfterPush(a)
  BY DEF Alike, AfterPush

(* Unless the host refused a frame, both read or neither does.              *)
LEMMA BothRead ==
    ASSUME IInv, AlikeInv, verdict["streaming"] # "emit", queue = <<>>, Reading # {}
    PROVE  /\ verdict["streaming"] = "reading" /\ verdict["buffered"] = "reading"
           /\ "streaming" \in Reading /\ "buffered" \in Reading
           /\ Alike(dec["streaming"], dec["buffered"]) /\ Told(sent, dec["buffered"])
<1>1. verdict["streaming"] = verdict["buffered"]  BY DEF AlikeInv
<1>2. \E m \in Modes : verdict[m] = "reading"  BY DEF Reading
<1>3. verdict["streaming"] = "reading"  BY <1>1, <1>2 DEF Modes
<1>4. Stream = sent  BY NothingQueued DEF IInv
<1> QED  BY <1>1, <1>3, <1>4 DEF Reading, Modes, AlikeInv

(* Nothing is said of an empty answer.                                      *)
LEMMA InitAlike == Init => AlikeInv
<1> SUFFICES ASSUME Init PROVE AlikeInv
  OBVIOUS
<1>1. dec["streaming"] = NewDecoder /\ dec["buffered"] = NewDecoder /\ queue = <<>> /\ Stream = <<>>
  <2>1. <<>> \in Seq(FrameSet)  OBVIOUS
  <2> QED  BY <2>1, NoMore DEF Init, Modes, Stream
<1>2. verdict["streaming"] = verdict["buffered"]  BY DEF Init, Modes
<1>3. Alike(NewDecoder, NewDecoder)  BY DEF Alike, NewDecoder
<1>4. Told(<<>>, NewDecoder)
  <2>1. Pieces(<<>>, "content") = <<>> /\ Pieces(<<>>, "reasoning_content") = <<>>  BY PiecesFew
  <2>2. CallsIn(<<>>) = {} /\ CallsOf(<<>>) = {}  BY DEF CallsIn, Calls, CallsOf
  <2> QED  BY <2>1, <2>2 DEF Told, Tells, NewDecoder
<1> QED  BY <1>1, <1>2, <1>3, <1>4 DEF AlikeInv

(* One line, pushed by both.                                                *)
LEMMA ReadLineAlike ==
    ASSUME IInv, AlikeInv, NEW l \in Lines, ReadLine(l)
    PROVE  AlikeInv'
<1>1. TypeOK /\ LiveInv /\ queue = <<>> /\ Reading # {} /\ "streaming" \in Modes /\ "buffered" \in Modes
  BY DEF IInv, ReadLine, Modes
<1>2. /\ \A m \in Modes : dec'[m] = IF m \in Reading THEN push(m, dec[m], l) ELSE dec[m]
      /\ sent' = sent
      /\ queue' = IF "streaming" \in Reading THEN dec'["streaming"].frames ELSE <<>>
      /\ \A m \in Modes :
            verdict'[m] = IF m \notin Reading \/ (m = "streaming" /\ queue' # <<>>)
                          THEN verdict[m] ELSE AfterPush(dec'[m])
  BY DEF ReadLine
<1>3. CASE verdict["streaming"] = "emit"
  <2>1. verdict'["streaming"] = "emit"  BY <1>1, <1>2, <1>3 DEF Reading
  <2> QED  BY <2>1 DEF AlikeInv
<1>4. CASE verdict["streaming"] # "emit"
  <2> DEFINE d == dec["streaming"]
             a == dec["buffered"]
             p == push("streaming", d, l)
             q == push("buffered", a, l)
  <2>1. /\ "streaming" \in Reading /\ "buffered" \in Reading /\ Alike(d, a) /\ Told(sent, a)
    BY <1>1, <1>4, BothRead
  <2>2. d \in DecoderSet /\ a \in DecoderSet /\ sent \in Seq(FrameSet)  BY <1>1 DEF TypeOK
  <2>3. d.consumed = a.consumed /\ ~a.done /\ ~d.done /\ d.fatal = "" /\ a.fatal = ""
    BY <1>1, <2>1 DEF LiveInv, Live
  <2>4. dec'["streaming"] = p /\ dec'["buffered"] = q  BY <1>1, <1>2, <2>1
  <2> HIDE DEF d, a
  <2>5. Alike(p, q) /\ Told(sent \o p.frames, q)  BY <2>1, <2>2, <2>3, PushTells DEF Told
  <2>6. p \in DecoderSet /\ q \in DecoderSet
    <3>1. "streaming" \in Modes /\ "buffered" \in Modes  BY DEF Modes
    <3> QED  BY <2>2, <2>3, <3>1, PushEffect
  <2> HIDE DEF p, q
  <2>7. queue' = p.frames /\ Stream' = sent \o p.frames  BY <1>2, <2>1, <2>4 DEF Stream
  <2>8. verdict'["buffered"] = AfterPush(q)  BY <1>1, <1>2, <2>1, <2>4
  <2>9. queue' = <<>> => verdict'["streaming"] = AfterPush(p)  BY <1>1, <1>2, <2>1, <2>4
  <2>10. AfterPush(p) = AfterPush(q)  BY <2>5, <2>6, AlikeReturn
  <2> QED  BY <2>4, <2>5, <2>7, <2>8, <2>9, <2>10 DEF AlikeInv
<1> QED  BY <1>3, <1>4

(* A body that stops, stops for both.                                       *)
LEMMA StopsAlike ==
    ASSUME IInv, AlikeInv, Reading # {}, queue = <<>>, UNCHANGED <<queue, sent>>,
           NEW why, verdict' = [m \in Modes |-> IF m \in Reading THEN why ELSE verdict[m]],
           \/ UNCHANGED dec
           \/ dec' = [m \in Modes |-> IF m \in Reading THEN Fatal(dec[m], "truncated") ELSE dec[m]]
    PROVE  AlikeInv'
<1> DEFINE d == dec["streaming"]
           a == dec["buffered"]
<1>1. d \in DecoderSet /\ a \in DecoderSet /\ "truncated" \in Failures
  BY DEF IInv, TypeOK, Modes, Failures
<1>2. CASE verdict["streaming"] = "emit"
  <2>1. verdict'["streaming"] = "emit"  BY <1>2 DEF Reading, Modes
  <2> QED  BY <2>1 DEF AlikeInv
<1>3. CASE verdict["streaming"] # "emit"
  <2>1. "streaming" \in Reading /\ "buffered" \in Reading /\ Alike(d, a) /\ Told(sent, a)
    BY <1>3, BothRead
  <2>2. verdict'["streaming"] = verdict'["buffered"]  BY <2>1 DEF Modes
  <2>3. Stream' = sent  BY NothingQueued DEF IInv, Stream
  <2>4. \/ dec'["streaming"] = d /\ dec'["buffered"] = a
        \/ dec'["streaming"] = Fatal(d, "truncated") /\ dec'["buffered"] = Fatal(a, "truncated")
    BY <2>1 DEF Modes
  <2>5. Alike(dec'["streaming"], dec'["buffered"]) /\ Told(sent, dec'["buffered"])
    <3> HIDE DEF d, a
    <3>1. CASE dec'["streaming"] = d /\ dec'["buffered"] = a  BY <2>1, <3>1
    <3>2. CASE dec'["streaming"] = Fatal(d, "truncated") /\ dec'["buffered"] = Fatal(a, "truncated")
      <4> DEFINE p == Fatal(d, "truncated")
                 q == Fatal(a, "truncated")
      <4>1. /\ (p.done <=> d.done) /\ (q.done <=> a.done) /\ p.fatal = "truncated" /\ q.fatal = "truncated"
            /\ p.tools = d.tools
        BY <1>1, FatalEffect
      <4>2. /\ q.calls = a.calls /\ q.texts = a.texts /\ q.reasonings = a.reasonings
            /\ q.finish = a.finish /\ q.usage = a.usage
        BY <1>1 DEF Fatal, DecoderSet
      <4> HIDE DEF p, q
      <4>3. Alike(p, q) /\ Told(sent, q)  BY <2>1, <4>1, <4>2 DEF Alike, Told, Tells
      <4> QED  BY <3>2, <4>3 DEF p, q
    <3> QED  BY <2>4, <3>1, <3>2
  <2> QED  BY <2>2, <2>3, <2>5 DEF AlikeInv
<1> QED  BY <1>2, <1>3

(* The host's taking of frames changes nothing until the last.              *)
LEMMA EmitFrameAlike ==
    ASSUME IInv, AlikeInv, EmitFrame
    PROVE  AlikeInv'
<1>1. TypeOK /\ queue # <<>> /\ verdict["streaming"] = "reading"
  BY DEF IInv, LiveInv, EmitFrame, Reading
<1>2. UNCHANGED dec /\ Stream' = Stream
  <2>1. sent \in Seq(FrameSet) /\ queue \in Seq(FrameSet)  BY <1>1 DEF TypeOK
  <2> QED  BY <1>1, <2>1, Taken DEF EmitFrame, Stream
<1>3. Alike(dec["streaming"], dec["buffered"]) /\ Told(Stream, dec["buffered"])
      /\ verdict["buffered"] = AfterPush(dec["buffered"])
  BY <1>1 DEF AlikeInv
<1>4. AfterPush(dec["streaming"]) = AfterPush(dec["buffered"])
  <2>1. dec["streaming"] \in DecoderSet /\ dec["buffered"] \in DecoderSet  BY <1>1 DEF TypeOK, Modes
  <2> QED  BY <1>3, <2>1, AlikeReturn
<1>5. verdict'["buffered"] = verdict["buffered"]
      /\ (queue' = <<>> => verdict'["streaming"] = AfterPush(dec["streaming"]))
  BY <1>1 DEF EmitFrame, TypeOK, Modes
<1> QED  BY <1>2, <1>3, <1>4, <1>5 DEF AlikeInv

(* Every step keeps the modes alike.                                        *)
LEMMA NextAlike == IInv /\ AlikeInv /\ [Next]_vars => AlikeInv'
<1> SUFFICES ASSUME IInv, AlikeInv, [Next]_vars PROVE AlikeInv'
  OBVIOUS
<1>1. ASSUME NEW l \in Lines, ScanTooLong(l) PROVE AlikeInv'
  BY <1>1, StopsAlike DEF ScanTooLong
<1>2. CASE ReadBreaks  BY <1>2, StopsAlike DEF ReadBreaks
<1>3. CASE BodyEnds  BY <1>3, StopsAlike DEF BodyEnds
<1>4. CASE EmitFails
  <2>1. verdict'["streaming"] = "emit"  BY <1>4 DEF EmitFails, IInv, TypeOK, Modes
  <2> QED  BY <2>1 DEF AlikeInv
<1>5. CASE UNCHANGED vars
  BY <1>5 DEF vars, AlikeInv, Stream
<1> QED  BY <1>1, <1>2, <1>3, <1>4, <1>5, ReadLineAlike, EmitFrameAlike DEF Next, Returned

(* On every run the two modes go alike.                                     *)
LEMMA AlikeInvariance == Spec => []AlikeInv
<1>1. Spec => []IInv  BY Invariance
<1> QED  BY <1>1, InitAlike, NextAlike, PTL DEF Spec

--------------------------------------------------------------------------------
(* The other half of the limits: what is read on, or returned, is legal     *)

LegalInv == \A m \in Modes : verdict[m] \in {"reading", "ok"} => ~PastLimits

(* An empty body is within the limits.                                      *)
LEMMA InitLegal == Init => LegalInv
<1>1. Init => body.longest = 0 /\ body.bytes = 0 /\ body.ended = FALSE  BY InitBody
<1> QED  BY <1>1, LimitsAssumption DEF LegalInv, PastLimits

(* A line that takes the body past a limit leaves nobody reading or content *)
(* with it: push refuses it in every mode that reads, and when one mode has *)
(* returned nil the other does not read on.                                 *)
LEMMA ReadLineLegal ==
    ASSUME IInv, AlikeInv, LegalInv, NEW l \in Lines, ReadLine(l)
    PROVE  LegalInv'
<1> SUFFICES ASSUME NEW m \in Modes, verdict'[m] \in {"reading", "ok"}
             PROVE  ~PastLimits'
  BY DEF LegalInv
<1>1. TypeOK /\ LiveInv /\ queue = <<>> /\ Reading # {}  BY DEF IInv, ReadLine
<1>2. /\ \A n \in Modes : dec'[n] = IF n \in Reading THEN push(n, dec[n], l) ELSE dec[n]
      /\ queue' = IF "streaming" \in Reading THEN dec'["streaming"].frames ELSE <<>>
      /\ \A n \in Modes :
            verdict'[n] = IF n \notin Reading \/ (n = "streaming" /\ queue' # <<>>)
                          THEN verdict[n] ELSE AfterPush(dec'[n])
  BY DEF ReadLine
<1>3. m \in Reading
  <2> SUFFICES ASSUME m \notin Reading PROVE FALSE
    OBVIOUS
  <2>1. verdict[m] = "ok"  BY <1>2 DEF Reading
  <2>2. CASE verdict["streaming"] = "emit"
    <3>1. m = "buffered"  BY <2>1, <2>2 DEF Modes
    <3> QED  BY <1>1, <2>1, <2>2, <3>1 DEF Reading, Modes
  <2>3. CASE verdict["streaming"] # "emit"
    BY <1>1, <2>1, <2>3, BothRead DEF Modes
  <2> QED  BY <2>2, <2>3
<1>4. /\ dec[m] \in DecoderSet /\ dec[m].fatal = "" /\ ~dec[m].done /\ dec[m].consumed = Counted
      /\ ~PastLimits
  BY <1>1, <1>3 DEF TypeOK, LiveInv, Live, LegalInv, Reading
<1> DEFINE p == push(m, dec[m], l)
<1>5. p \in DecoderSet /\ (p.fatal = "size" <=> Oversized(dec[m], l)) /\ (p.fatal # "" => p.frames = <<>>)
  BY <1>4, PushEffect
<1>6. dec'[m] = p  BY <1>2, <1>3
<1> HIDE DEF p
<1>7. p.fatal = ""
  <2>1. CASE m = "streaming" /\ queue' # <<>>  BY <1>2, <1>3, <1>5, <1>6, <2>1
  <2>2. CASE ~(m = "streaming" /\ queue' # <<>>)
    <3>1. AfterPush(p) \in {"reading", "ok"}  BY <1>2, <1>3, <1>6, <2>2
    <3> QED  BY <1>5, <3>1 DEF AfterPush, DecoderSet, Failures
  <2> QED  BY <2>1, <2>2
<1>8. ~Oversized(dec[m], l)  BY <1>5, <1>7
<1> QED  BY <1>1, <1>4, <1>8, SizesExact

(* Every step keeps what is read, and what was accepted, within the limits. *)
LEMMA NextLegal == IInv /\ AlikeInv /\ LegalInv /\ [Next]_vars => LegalInv'
<1> SUFFICES ASSUME IInv, AlikeInv, LegalInv, [Next]_vars PROVE LegalInv'
  OBVIOUS
<1>1. TypeOK  BY DEF IInv
<1>2. ASSUME NEW l \in Lines, ScanTooLong(l) PROVE LegalInv'
  <2>1. \A m \in Modes : verdict'[m] = IF m \in Reading THEN "scan" ELSE verdict[m]
    BY <1>2 DEF ScanTooLong
  <2>2. \A m \in Modes : verdict'[m] \notin {"reading", "ok"}
    <3> SUFFICES ASSUME NEW m \in Modes, verdict'[m] \in {"reading", "ok"} PROVE FALSE
      OBVIOUS
    <3>1. m \notin Reading /\ verdict[m] = "ok"  BY <2>1 DEF Reading
    <3>2. queue = <<>> /\ Reading # {}  BY <1>2 DEF ScanTooLong
    <3>3. CASE verdict["streaming"] = "emit"
      <4>1. m = "buffered"  BY <3>1, <3>3 DEF Modes
      <4> QED  BY <3>1, <3>2, <3>3, <4>1 DEF Reading, Modes
    <3>4. CASE verdict["streaming"] # "emit"
      BY <3>1, <3>2, <3>4, BothRead DEF Modes
    <3> QED  BY <3>3, <3>4
  <2> QED  BY <2>2 DEF LegalInv
<1>3. CASE ReadBreaks
  <2>1. \A m \in Modes : verdict'[m] \in {"reading", "ok"} => verdict'[m] = verdict[m]
    BY <1>3 DEF ReadBreaks
  <2> QED  BY <1>3, <2>1 DEF ReadBreaks, LegalInv, PastLimits
<1>4. CASE BodyEnds
  <2>1. \A m \in Modes : verdict'[m] \in {"reading", "ok"} => verdict'[m] = verdict[m]
    BY <1>4 DEF BodyEnds
  <2> QED  BY <1>4, <2>1 DEF BodyEnds, LegalInv, PastLimits
<1>5. CASE EmitFrame
  <2>1. body' = body /\ verdict["streaming"] = "reading"
    BY <1>5 DEF EmitFrame, IInv, LiveInv, Reading
  <2>2. "streaming" \in Modes  BY DEF Modes
  <2>3. ~PastLimits  BY <2>1, <2>2 DEF LegalInv
  <2> QED  BY <2>1, <2>3 DEF LegalInv, PastLimits
<1>6. CASE EmitFails
  <2>1. \A m \in Modes : verdict'[m] \in {"reading", "ok"} => verdict'[m] = verdict[m]
    BY <1>1, <1>6 DEF EmitFails, TypeOK, Modes
  <2> QED  BY <1>6, <2>1 DEF EmitFails, LegalInv, PastLimits
<1>7. CASE UNCHANGED vars
  BY <1>7 DEF vars, LegalInv, PastLimits
<1> QED  BY <1>2, <1>3, <1>4, <1>5, <1>6, <1>7, ReadLineLegal DEF Next, Returned

--------------------------------------------------------------------------------
(* The theorems                                                             *)

(* Types: decoders, frames and verdicts have their shapes, and a decoder is *)
(* never both done and failed, whatever the lines of the body.              *)
THEOREM TypeCorrect == Spec => []TypeOK
<1>1. IInv => TypeOK  BY DEF IInv
<1> QED  BY <1>1, Invariance, PTL

(* Limits: Consume fails for a size only when the body is past a limit, and *)
(* a Consume that reads on or has returned nil has seen no line longer than *)
(* MaxEventBytes and no more than MaxResponseBytes in all, for any limits,  *)
(* sizes and line terminators (event_decoder.go:40-44, 99-101).             *)
THEOREM LimitsAreExact == Spec => []LimitsExact
<1>1. Spec => [](IInv /\ AlikeInv)  BY Invariance, AlikeInvariance, PTL
<1>2. IInv /\ LegalInv => LimitsExact  BY DEF IInv, RefusalsInv, LegalInv, LimitsExact
<1> QED  BY <1>1, <1>2, InitLegal, NextLegal, PTL DEF Spec

(* Grammar: what emitFrame gave the host is a well-formed prefix of a       *)
(* stream, whatever it refuses and wherever the body stops.                 *)
THEOREM FramesAreWellFormed == Spec => []FrameGrammar
<1>1. IInv => FrameGrammar
  BY PrefixWellFormed DEF IInv, TypeOK, StreamInv, Stream, FrameGrammar
<1> QED  BY <1>1, Invariance, PTL

(* Completeness: Consume returns nil only for a body with a finish event,   *)
(* and the host has the final frame exactly when a streaming Consume does.  *)
THEOREM WholeAnswersSucceed == Spec => []OnlyWholeAnswersSucceed
<1>1. IInv => OnlyWholeAnswersSucceed
  <2> SUFFICES ASSUME IInv PROVE OnlyWholeAnswersSucceed
    OBVIOUS
  <2>1. "streaming" \in Modes /\ sent \in Seq(FrameSet) /\ queue \in Seq(FrameSet)
    BY DEF IInv, TypeOK, Modes
  <2>2. \A m \in Modes : verdict[m] = "ok" => body.finished /\ dec[m].done
    BY DEF IInv, FinishedInv, Finished
  <2>3. Ended(sent) <=> verdict["streaming"] = "ok"
    <3>1. CASE "streaming" \notin Reading  BY <3>1 DEF IInv, StreamInv
    <3>2. CASE "streaming" \in Reading
      <4>1. verdict["streaming"] # "ok"  BY <3>2 DEF Reading
      <4>2. CASE queue # <<>>
        BY <2>1, <4>1, <4>2, PrefixWellFormed DEF IInv, StreamInv, Stream
      <4>3. CASE queue = <<>>
        <5>1. Stream = sent  BY <4>3, NothingQueued DEF IInv
        <5> QED  BY <2>1, <3>2, <4>1, <4>3, <5>1 DEF IInv, LiveInv, Live, StreamInv
      <4> QED  BY <4>2, <4>3
    <3> QED  BY <3>1, <3>2
  <2> QED  BY <2>2, <2>3 DEF OnlyWholeAnswersSucceed, Ended, Last
<1> QED  BY <1>1, Invariance, PTL

(* Agreement: on every body, a streaming Consume and a buffered one return  *)
(* the same, unless the host refused a frame; and when they succeed, the    *)
(* frames the host took assemble to the completion that toOpenAIResponse    *)
(* renders and to the chunks of toOpenAIChunks.                             *)
THEOREM ModesAlwaysAgree == Spec => []ModesAgree
<1>1. IInv /\ AlikeInv => ModesAgree
  <2> SUFFICES ASSUME IInv, AlikeInv, \A m \in Modes : verdict[m] # "reading",
                      verdict["streaming"] # "emit"
               PROVE  /\ verdict["streaming"] = verdict["buffered"]
                      /\ verdict["streaming"] = "ok" =>
                            /\ Assembled(sent) = toOpenAIResponse(dec["buffered"])
                            /\ Assembled(sent) = Assembled(toOpenAIChunks(dec["buffered"]))
    BY DEF ModesAgree
  <2> DEFINE a == dec["buffered"]
  <2>1. queue = <<>>  BY DEF IInv, LiveInv, Reading, Modes
  <2>2. verdict["streaming"] = verdict["buffered"]  BY <2>1 DEF AlikeInv
  <2>3. Stream = sent  BY <2>1, NothingQueued DEF IInv
  <2>4. a \in DecoderSet /\ Told(sent, a)  BY <2>3 DEF IInv, TypeOK, Modes, AlikeInv
  <2>5. ASSUME verdict["streaming"] = "ok"
        PROVE  Assembled(sent) = toOpenAIResponse(a) /\ Assembled(sent) = Assembled(toOpenAIChunks(a))
    <3>1. a.done  BY <2>2, <2>5 DEF IInv, FinishedInv, Finished, Modes
    <3> HIDE DEF a
    <3>2. Assembled(sent) = toOpenAIResponse(a)
      BY <2>4, <3>1 DEF Told, Tells, Assembled, toOpenAIResponse, CallsIn, CallsOf
    <3> QED  BY <2>4, <3>2, ChunksTell
  <2> QED  BY <2>2, <2>5
<1> QED  BY <1>1, Invariance, AlikeInvariance, PTL
================================================================================
