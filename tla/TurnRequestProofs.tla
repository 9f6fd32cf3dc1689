---------------------------- MODULE TurnRequestProofs ----------------------------
(***************************************************************************)
(* Theorems about the two readings of a request.  Whatever a request holds *)
(* and in whatever order its headers are yielded, the verdict on its       *)
(* conversation is the same; and whatever chat it holds, the gateway is    *)
(* sent the turns, calls, results and tools of that chat, or the chat is   *)
(* refused for a part that cannot be translated.                           *)
(***************************************************************************)
EXTENDS TurnRequest, FiniteSetTheorems, TLAPS

--------------------------------------------------------------------------------
(* The conversation                                                         *)

HeadersRead == IdentityHeaders(request) \ unread

(* The headers read so far are sound, differ in name, and agree.            *)
HeaderInv ==
    /\ \A h \in unread : request.headers[h] # Absent
    /\ at = "caller" => HeadersRead = {}
    /\ \A h \in HeadersRead : /\ request.headers[h] = identity /\ identity \in Valid
                              /\ request.headers[h] \notin Listed \cup {Several}
                              /\ Fold[h] \in seenHeaders
    /\ \A n \in seenHeaders : \E h \in HeadersRead : Fold[h] = n
    /\ \A h, i \in HeadersRead : Fold[h] = Fold[i] => h = i

(* And so do the execution id and the fields.                               *)
BodyInv ==
    /\ at # "caller" => request.caller \in Valid /\ request.auth \in Valid
    /\ at \in {"caller", "headers", "body"} => next = 1
    /\ at \in {"body", "fields", "found"} => unread = {} /\ request.execution \in {Absent, identity}
    /\ at = "fields" => /\ Raw(request) \notin {Absent, Broken}
                        /\ \A i \in Fields : i < next => Raw(request)[i] \in {Absent, identity}
    /\ at = "found" => Raw(request) = Absent
    /\ identity # Absent => identity \in Evidence(request)

IdentityInv == IdentityTypeOK /\ (at # "done" => HeaderInv /\ BodyInv) /\ VerdictIsOrderFree

(* A request is a record of the kinds of evidence.                          *)
LEMMA RequestTyped ==
    ASSUME IdentityTypeOK
    PROVE  /\ request.headers \in [Spellings -> Values \cup {Absent, Several}]
           /\ request.execution \in Values \cup {Absent}
           /\ request.caller \in Values /\ request.auth \in Values
           /\ Raw(request) \in Bodies
  BY RequestsAssumption DEF IdentityTypeOK, Request, Raw

(* At first nothing is read.                                                *)
LEMMA InitIdentityInv == IdentityInit => IdentityInv
<1> SUFFICES ASSUME IdentityInit PROVE IdentityInv
  OBVIOUS
<1>1. IdentityTypeOK  BY FieldsAssumption DEF IdentityInit, IdentityStart, IdentityTypeOK
<1>2. HeadersRead = {}  BY DEF HeadersRead, IdentityHeaders, IdentityInit, IdentityStart
<1>3. HeaderInv  BY <1>2 DEF HeaderInv, IdentityInit, IdentityStart
<1>4. BodyInv  BY DEF BodyInv, IdentityInit, IdentityStart
<1>5. VerdictIsOrderFree  BY DEF VerdictIsOrderFree, IdentityInit, IdentityStart
<1> QED  BY <1>1, <1>3, <1>4, <1>5 DEF IdentityInv

(* Evidence that does not agree with what was read spoils the request.      *)
LEMMA DisagreementSpoils ==
    ASSUME IdentityInv, at # "done", NEW x \in Evidence(request), ~Agrees(x), NEW v \in Valid
    PROVE  Evidence(request) # {v}
<1>1. identity # Absent => identity \in Evidence(request)  BY DEF IdentityInv, BodyInv
<1> QED  BY <1>1 DEF Agrees

(* A refusal is right when no value passes.                                 *)
LEMMA RefusalIsRight ==
    ASSUME IdentityInv, UNCHANGED request, Refuse,
           \A v \in Valid : ~(Sound(request) /\ Evidence(request) = {v})
    PROVE  IdentityInv'
<1>1. IdentityTypeOK'  BY DEF IdentityInv, IdentityTypeOK, Refuse
<1>2. Sound(request') = Sound(request) /\ Evidence(request') = Evidence(request)  OBVIOUS
<1>3. VerdictIsOrderFree'  BY <1>2 DEF VerdictIsOrderFree, Refuse
<1> QED  BY <1>1, <1>3 DEF IdentityInv, Refuse

(* Caller and credential are evidence, too.                                 *)
LEMMA CheckCallerPreserves ==
    ASSUME IdentityInv, CheckCaller
    PROVE  IdentityInv'
<1>1. CASE Refuse
  <2>1. \A v \in Valid : ~(Sound(request) /\ Evidence(request) = {v})
    BY <1>1 DEF CheckCaller, Sound, Refuse
  <2> QED  BY <1>1, <2>1, RefusalIsRight DEF CheckCaller
<1>2. CASE ~Refuse
  <2>1. /\ at = "caller" /\ at' = "headers" /\ request.caller \in Valid /\ request.auth \in Valid
        /\ UNCHANGED <<request, unread, seenHeaders, next, identity, key>>
    BY <1>2 DEF CheckCaller
  <2>2. HeadersRead' = HeadersRead /\ HeaderInv /\ BodyInv  BY <2>1 DEF HeadersRead, IdentityInv
  <2>3. Evidence(request') = Evidence(request)  BY <2>1
  <2>4. IdentityTypeOK'  BY <2>1 DEF IdentityInv, IdentityTypeOK
  <2>5. HeaderInv'  BY <2>1, <2>2 DEF HeaderInv
  <2>6. BodyInv'  BY <2>1, <2>2, <2>3 DEF BodyInv
  <2>7. VerdictIsOrderFree'  BY <2>1 DEF VerdictIsOrderFree
  <2> QED  BY <2>4, <2>5, <2>6, <2>7 DEF IdentityInv
<1> QED  BY <1>1, <1>2

(* Headers that are no evidence change nothing.                             *)
LEMMA SkipHeaderPreserves ==
    ASSUME IdentityInv, NEW h \in Spellings, SkipHeader(h)
    PROVE  IdentityInv'
<1> USE DEF SkipHeader, IdentityInv
<1>1. IdentityTypeOK'  BY DEF IdentityTypeOK
<1>2. HeadersRead' = HeadersRead  BY DEF HeadersRead, IdentityHeaders
<1>3. HeaderInv'  BY <1>2 DEF HeaderInv
<1>4. BodyInv'  BY DEF BodyInv, Evidence, IdentityHeaders, FieldsOf, Raw
<1>5. VerdictIsOrderFree'  BY DEF VerdictIsOrderFree
<1> QED  BY <1>1, <1>3, <1>4, <1>5

(* The next header either joins those read or spoils the request.           *)
LEMMA ReadHeaderPreserves ==
    ASSUME IdentityInv, NEW h \in Spellings, ReadHeader(h)
    PROVE  IdentityInv'
<1>1. h \in IdentityHeaders(request) /\ h \notin HeadersRead
  BY DEF ReadHeader, IdentityInv, HeaderInv, HeadersRead, IdentityHeaders
<1>2. request.headers[h] \in Evidence(request)  BY <1>1 DEF Evidence
<1>3. CASE Usable(h) /\ ~Refuse
  <2>1. /\ at = "headers" /\ identity' = request.headers[h]
        /\ seenHeaders' = seenHeaders \cup {Fold[h]} /\ unread' = unread \ {h}
        /\ Fold[h] # Other
        /\ UNCHANGED <<request, at, next, key>>
    BY <1>3 DEF ReadHeader
  <2>2. /\ Fold[h] \notin seenHeaders /\ request.headers[h] \notin Listed \cup {Several}
        /\ request.headers[h] \in Valid /\ identity \in {Absent, request.headers[h]}
    BY <1>3 DEF Usable, Agrees
  <2>3. HeadersRead' = HeadersRead \cup {h}
    BY <1>1, <2>1 DEF HeadersRead, IdentityHeaders
  <2>4. IdentityTypeOK'  BY <2>1, <2>2 DEF IdentityInv, IdentityTypeOK, Names
  <2>5. HeaderInv'
    <3>1. HeaderInv /\ at # "done"  BY <2>1 DEF IdentityInv
    <3>2. identity = Absent => HeadersRead = {}
      BY <3>1, MarksAssumption, ValuesAssumption DEF HeaderInv
    <3>3. \A i \in HeadersRead : Fold[i] # Fold[h]  BY <2>2, <3>1 DEF HeaderInv
    <3> QED  BY <2>1, <2>2, <2>3, <3>1, <3>2, <3>3 DEF HeaderInv
  <2>6. BodyInv'
    <3>1. Evidence(request') = Evidence(request)  BY <2>1
    <3> QED  BY <1>2, <2>1, <3>1 DEF IdentityInv, BodyInv
  <2>7. VerdictIsOrderFree'  BY <2>1 DEF VerdictIsOrderFree
  <2> QED  BY <2>4, <2>5, <2>6, <2>7 DEF IdentityInv
<1>4. CASE ~Usable(h) /\ Refuse
  <2>1. at = "headers" /\ UNCHANGED request  BY DEF ReadHeader
  <2>2. CASE Fold[h] \in seenHeaders
    <3>1. PICK i \in HeadersRead : Fold[i] = Fold[h]  BY <2>1, <2>2 DEF IdentityInv, HeaderInv
    <3>2. i \in IdentityHeaders(request) /\ i # h  BY <1>1, <3>1 DEF HeadersRead
    <3>3. ~Sound(request)  BY <1>1, <3>1, <3>2 DEF Sound
    <3> QED  BY <1>4, <2>1, <3>3, RefusalIsRight
  <2>3. CASE request.headers[h] \in Listed \cup {Several}
    <3>1. ~Sound(request)  BY <1>1, <2>3 DEF Sound
    <3> QED  BY <1>4, <2>1, <3>1, RefusalIsRight
  <2>4. CASE ~Agrees(request.headers[h])
    <3>1. \A v \in Valid : Evidence(request) # {v}  BY <1>2, <2>1, <2>4, DisagreementSpoils
    <3> QED  BY <1>4, <2>1, <3>1, RefusalIsRight
  <2> QED  BY <1>4, <2>2, <2>3, <2>4 DEF Usable
<1> QED  BY <1>3, <1>4 DEF ReadHeader, Refuse

(* The execution id either agrees or spoils the request.                    *)
LEMMA ReadExecutionPreserves ==
    ASSUME IdentityInv, ReadExecution
    PROVE  IdentityInv'
<1>1. at = "headers" /\ unread = {} /\ UNCHANGED request  BY DEF ReadExecution
<1>2. request.execution # Absent => request.execution \in Evidence(request)  BY DEF Evidence
<1>3. CASE ~Refuse
  <2>1. /\ request.execution = Absent \/ Agrees(request.execution)
        /\ identity' = IF request.execution = Absent THEN identity ELSE request.execution
        /\ at' = "body" /\ UNCHANGED <<unread, seenHeaders, next, key>>
    BY <1>3 DEF ReadExecution
  <2>2. IdentityTypeOK'  BY <1>1, <2>1 DEF IdentityInv, IdentityTypeOK, Agrees
  <2>3. HeadersRead' = HeadersRead /\ HeaderInv /\ BodyInv  BY <1>1, <2>1 DEF HeadersRead, IdentityInv
  <2>4. HeadersRead # {} => identity' = identity
    BY <2>1, <2>3, MarksAssumption, ValuesAssumption DEF HeaderInv, Agrees
  <2>5. HeaderInv'  BY <1>1, <2>1, <2>3, <2>4 DEF HeaderInv
  <2>6. Evidence(request') = Evidence(request) /\ Raw(request') = Raw(request)  BY <1>1
  <2>7. BodyInv'  BY <1>1, <1>2, <2>1, <2>3, <2>6 DEF BodyInv
  <2>8. VerdictIsOrderFree'  BY <2>1 DEF VerdictIsOrderFree
  <2> QED  BY <2>2, <2>5, <2>7, <2>8 DEF IdentityInv
<1>4. CASE Refuse
  <2>1. CASE ~(request.execution = Absent \/ Agrees(request.execution))
    <3>1. \A v \in Valid : Evidence(request) # {v}  BY <1>1, <1>2, <2>1, DisagreementSpoils
    <3> QED  BY <1>1, <1>4, <3>1, RefusalIsRight
  <2>2. CASE at' = "body"  BY <1>4, <2>2 DEF Refuse
  <2> QED  BY <2>1, <2>2 DEF ReadExecution
<1> QED  BY <1>3, <1>4

(* A body that is no object spoils the request.                             *)
LEMMA ReadBodyPreserves ==
    ASSUME IdentityInv, ReadBody
    PROVE  IdentityInv'
<1>1. at = "body" /\ UNCHANGED request  BY DEF ReadBody
<1>2. CASE Refuse
  <2>1. ~Sound(request)  BY <1>2 DEF ReadBody, Refuse, Sound
  <2> QED  BY <1>1, <1>2, <2>1, RefusalIsRight
<1>3. CASE ~Refuse
  <2>1. /\ \/ at' = "found" /\ Raw(request) = Absent
           \/ at' = "fields" /\ Raw(request) \notin {Absent, Broken}
        /\ UNCHANGED <<unread, seenHeaders, next, identity, key>>
    BY <1>3 DEF ReadBody
  <2>2. IdentityTypeOK'  BY <1>1, <2>1 DEF IdentityInv, IdentityTypeOK
  <2>3. HeadersRead' = HeadersRead /\ HeaderInv /\ BodyInv  BY <1>1, <2>1 DEF HeadersRead, IdentityInv
  <2>4. HeaderInv'  BY <1>1, <2>1, <2>3 DEF HeaderInv
  <2>5. Evidence(request') = Evidence(request) /\ Raw(request') = Raw(request)  BY <1>1
  <2>6. BodyInv'  BY <1>1, <2>1, <2>3, <2>5 DEF BodyInv, Fields
  <2>7. VerdictIsOrderFree'  BY <2>1 DEF VerdictIsOrderFree
  <2> QED  BY <2>2, <2>4, <2>6, <2>7 DEF IdentityInv
<1> QED  BY <1>2, <1>3

(* The next field either agrees or spoils the request.                      *)
LEMMA ReadFieldPreserves ==
    ASSUME IdentityInv, ReadField
    PROVE  IdentityInv'
<1> DEFINE v == Raw(request)[next]
<1>1. at = "fields" /\ next \in Fields /\ UNCHANGED request  BY DEF ReadField
<1>2. Raw(request) \notin {Absent, Broken}  BY <1>1 DEF IdentityInv, BodyInv
<1>3. v # Absent => v \in Evidence(request)  BY <1>1, <1>2 DEF Evidence, FieldsOf
<1> HIDE DEF v
<1>4. \/ /\ v = Absent \/ Agrees(v)
         /\ identity' = IF v = Absent THEN identity ELSE v
         /\ next' = next + 1
         /\ UNCHANGED <<at, unread, seenHeaders, key>>
      \/ ~(v = Absent \/ Agrees(v)) /\ Refuse
  BY DEF ReadField, v
<1>5. CASE ~(v = Absent \/ Agrees(v)) /\ Refuse
  <2>1. \A w \in Valid : Evidence(request) # {w}  BY <1>1, <1>3, <1>5, DisagreementSpoils
  <2> QED  BY <1>1, <1>5, <2>1, RefusalIsRight
<1>6. CASE /\ v = Absent \/ Agrees(v)
           /\ identity' = IF v = Absent THEN identity ELSE v
           /\ next' = next + 1
           /\ UNCHANGED <<at, unread, seenHeaders, key>>
  <2>1. next' \in 1 .. LastField + 1  BY <1>1, <1>6, FieldsAssumption DEF Fields
  <2>2. IdentityTypeOK'  BY <1>1, <1>6, <2>1 DEF IdentityInv, IdentityTypeOK, Agrees
  <2>3. HeadersRead' = HeadersRead /\ HeaderInv /\ BodyInv  BY <1>1, <1>6 DEF HeadersRead, IdentityInv
  <2>4. identity = Absent \/ identity' = identity  BY <1>6 DEF Agrees
  <2>5. HeadersRead # {} => identity' = identity
    BY <2>3, <2>4, MarksAssumption, ValuesAssumption DEF HeaderInv
  <2>6. HeaderInv'  BY <1>1, <1>6, <2>3, <2>5 DEF HeaderInv
  <2>7. Evidence(request') = Evidence(request) /\ Raw(request') = Raw(request)  BY <1>1
  <2>8. \A i \in Fields : i < next' => i < next \/ i = next  BY <1>1, <1>6 DEF Fields
  <2>9. \A i \in Fields : i < next' => Raw(request)[i] \in {Absent, identity'}
    BY <1>1, <1>6, <2>3, <2>4, <2>8 DEF BodyInv, v
  <2>10. request.execution \in {Absent, identity'} /\ unread = {}  BY <1>1, <2>3, <2>4 DEF BodyInv
  <2>11. identity' # Absent => identity' \in Evidence(request)  BY <1>3, <1>6, <2>3 DEF BodyInv
  <2>12. BodyInv'  BY <1>1, <1>2, <1>6, <2>3, <2>7, <2>9, <2>10, <2>11 DEF BodyInv
  <2>13. VerdictIsOrderFree'  BY <1>1, <1>6 DEF VerdictIsOrderFree
  <2> QED  BY <2>2, <2>6, <2>12, <2>13 DEF IdentityInv
<1> QED  BY <1>4, <1>5, <1>6

(* In the end all evidence has been read, and the identity is all of it.    *)
LEMMA DecidePreserves ==
    ASSUME IdentityInv, Decide
    PROVE  IdentityInv'
<1>1. /\ at \in {"found", "fields"} /\ at' = "done" /\ unread = {}
      /\ HeaderInv /\ BodyInv /\ IdentityTypeOK
      /\ UNCHANGED <<request, unread, seenHeaders, next, identity>>
  BY DEF Decide, IdentityInv, BodyInv
<1>2. \A i \in FieldsOf(request) : Raw(request)[i] = identity
  <2>1. at = "fields" => \A i \in Fields : i < next
    BY <1>1, FieldsAssumption DEF Decide, Fields, IdentityTypeOK
  <2> QED  BY <1>1, <2>1 DEF BodyInv, FieldsOf
<1>3. \A h \in IdentityHeaders(request) : request.headers[h] = identity
  BY <1>1 DEF HeaderInv, HeadersRead
<1>4. Evidence(request) \subseteq {identity}  BY <1>1, <1>2, <1>3 DEF Evidence, BodyInv
<1>5. identity # Absent => Evidence(request) = {identity} /\ identity \in Valid
  BY <1>1, <1>4 DEF BodyInv, IdentityTypeOK
<1>6. identity = Absent => \A v \in Valid : Evidence(request) # {v}
  BY <1>4, MarksAssumption, ValuesAssumption
<1>7. Sound(request)
  <2>1. \A h \in IdentityHeaders(request) : h \in HeadersRead  BY <1>1 DEF HeadersRead
  <2>2. Raw(request) # Broken  BY <1>1, MarksAssumption DEF BodyInv
  <2> QED  BY <1>1, <2>1, <2>2 DEF Sound, HeaderInv, BodyInv
<1>8. key' = IF identity = Absent THEN NoKey ELSE sessionKey(request, identity)  BY DEF Decide
<1>9. VerdictIsOrderFree'
  BY <1>1, <1>5, <1>6, <1>7, <1>8 DEF VerdictIsOrderFree
<1>10. key' \in [caller : Values, auth : Values, id : Values] \cup {NoKey}
  BY <1>1, <1>5, <1>8, RequestTyped, ValuesAssumption DEF sessionKey
<1>11. IdentityTypeOK'  BY <1>1, <1>10 DEF IdentityTypeOK
<1> QED  BY <1>1, <1>9, <1>11 DEF IdentityInv

(* The invariant holds throughout.                                          *)
THEOREM IdentityInvariance == IdentitySpec => []IdentityInv
<1>1. IdentityInit => IdentityInv  BY InitIdentityInv
<1>2. IdentityInv /\ [IdentityNext]_identityVars => IdentityInv'
  <2> SUFFICES ASSUME IdentityInv, [IdentityNext]_identityVars PROVE IdentityInv'
    OBVIOUS
  <2>1. CASE CheckCaller  BY <2>1, CheckCallerPreserves
  <2>2. CASE \E h \in Spellings : SkipHeader(h)  BY <2>2, SkipHeaderPreserves
  <2>3. CASE \E h \in Spellings : ReadHeader(h)  BY <2>3, ReadHeaderPreserves
  <2>4. CASE ReadExecution  BY <2>4, ReadExecutionPreserves
  <2>5. CASE ReadBody  BY <2>5, ReadBodyPreserves
  <2>6. CASE ReadField  BY <2>6, ReadFieldPreserves
  <2>7. CASE Decide  BY <2>7, DecidePreserves
  <2>8. CASE UNCHANGED identityVars
    <3>1. HeadersRead' = HeadersRead  BY <2>8 DEF identityVars, HeadersRead
    <3>2. /\ Evidence(request') = Evidence(request) /\ Raw(request') = Raw(request)
          /\ Sound(request') = Sound(request)
      BY <2>8 DEF identityVars
    <3>3. IdentityTypeOK'  BY <2>8 DEF identityVars, IdentityInv, IdentityTypeOK
    <3>4. VerdictIsOrderFree'  BY <2>8, <3>2 DEF identityVars, IdentityInv, VerdictIsOrderFree
    <3>5. at # "done" => HeaderInv'  BY <2>8, <3>1 DEF identityVars, IdentityInv, HeaderInv
    <3>6. at # "done" => BodyInv'  BY <2>8, <3>2 DEF identityVars, IdentityInv, BodyInv
    <3> QED  BY <2>8, <3>3, <3>4, <3>5, <3>6 DEF IdentityInv, identityVars
  <2> QED  BY <2>1, <2>2, <2>3, <2>4, <2>5, <2>6, <2>7, <2>8 DEF IdentityNext
<1> QED  BY <1>1, <1>2, PTL DEF IdentitySpec

--------------------------------------------------------------------------------
(* Sequences, by induction on sets of numbers                               *)

(* Induction over the naturals, for a set.                                  *)
LEMMA Induction ==
    ASSUME NEW P, 0 \in P, \A n \in Nat : n \in P => n + 1 \in P
    PROVE  Nat \subseteq P
<1> SUFFICES ASSUME NEW n \in Nat, n \notin P PROVE FALSE
  OBVIOUS
<1> DEFINE T == {i \in 0 .. n : i \notin P}
           down == [i \in T |-> i - 1]
<1>1. n \in T  OBVIOUS
<1>2. \A i \in T : i - 1 \in T \ {n}
  <2> SUFFICES ASSUME NEW i \in T PROVE i - 1 \in T \ {n}
    OBVIOUS
  <2>1. i \in 1 .. n  OBVIOUS
  <2>2. i - 1 \in Nat /\ (i - 1) + 1 = i  BY <2>1
  <2>3. i - 1 \notin P  BY <2>2
  <2> QED  BY <2>1, <2>3
<1>3. IsFiniteSet(T)
  <2>1. IsFiniteSet(0 .. n)  BY FS_Interval
  <2> QED  BY <2>1, FS_Subset
<1>4. IsFiniteSet(T \ {n}) /\ Cardinality(T \ {n}) < Cardinality(T)
  <2>1. Cardinality(T) \in Nat  BY <1>3, FS_CardinalityType
  <2> HIDE DEF T
  <2>2. IsFiniteSet(T \ {n}) /\ Cardinality(T \ {n}) = Cardinality(T) - 1
    BY <1>1, <1>3, FS_RemoveElement
  <2> QED  BY <2>1, <2>2
<1>5. down \in [T -> T \ {n}]  BY <1>2
<1>6. \A x, y \in T : x # y => down[x] # down[y]  OBVIOUS
<1> HIDE DEF T, down
<1> QED  BY <1>3, <1>4, <1>5, <1>6, FS_PigeonHole

(* The same up to a bound.                                                  *)
LEMMA InductionUpTo ==
    ASSUME NEW last \in Nat, NEW P, 0 \in P, \A i \in 1 .. last : i - 1 \in P => i \in P
    PROVE  0 .. last \subseteq P
<1> DEFINE Q == P \cup {n \in Nat : n > last}
<1>1. \A n \in Nat : n \in Q => n + 1 \in Q
  <2> SUFFICES ASSUME NEW n \in Nat, n \in Q PROVE n + 1 \in Q
    OBVIOUS
  <2>1. CASE n >= last  BY <2>1
  <2>2. CASE n < last
    <3>1. n + 1 \in 1 .. last /\ (n + 1) - 1 = n /\ n \in P  BY <2>2
    <3> QED  BY <3>1
  <2> QED  BY <2>1, <2>2
<1>2. Nat \subseteq Q
  <2> HIDE DEF Q
  <2>1. 0 \in Q  BY DEF Q
  <2> QED  BY <1>1, <2>1, Induction
<1> QED  BY <1>2

(* The walk of Kept is what it says.                                        *)
KeepStep(s, S, kept, i) ==
    IF i = 0 THEN <<>> ELSE IF s[i] \in S THEN Append(kept[i - 1], s[i]) ELSE kept[i - 1]

(* For every sequence there is a function that filters it as KeptUpTo says; *)
(* its definition only asks for one.                                        *)
LEMMA WalkExists ==
    ASSUME NEW s, Len(s) \in Nat, NEW S
    PROVE  \E kept : kept = [i \in 0 .. Len(s) |-> KeepStep(s, S, kept, i)]
<1> DEFINE Walks(n) == \E kept : kept = [i \in 0 .. n |-> KeepStep(s, S, kept, i)]
           P == {n \in Nat : Walks(n)}
<1>1. 0 \in P
  <2> DEFINE kept == [i \in 0 .. 0 |-> <<>>]
  <2>1. kept = [i \in 0 .. 0 |-> KeepStep(s, S, kept, i)]  BY DEF KeepStep
  <2> QED  BY <2>1
<1>2. ASSUME NEW n \in Nat, n \in P PROVE n + 1 \in P
  <2>1. PICK kept : kept = [i \in 0 .. n |-> KeepStep(s, S, kept, i)]  BY <1>2
  <2> DEFINE more == [i \in 0 .. n + 1 |-> IF i = n + 1 THEN KeepStep(s, S, kept, n + 1) ELSE kept[i]]
  <2>2. \A i \in 0 .. n : more[i] = kept[i]  OBVIOUS
  <2>3. \A i \in 0 .. n + 1 : KeepStep(s, S, more, i) = KeepStep(s, S, kept, i)
    <3> SUFFICES ASSUME NEW i \in 0 .. n + 1 PROVE KeepStep(s, S, more, i) = KeepStep(s, S, kept, i)
      OBVIOUS
    <3>1. i # 0 => i - 1 \in 0 .. n  OBVIOUS
    <3> HIDE DEF more
    <3> QED  BY <2>2, <3>1 DEF KeepStep
  <2>4. \A i \in 0 .. n + 1 : more[i] = KeepStep(s, S, kept, i)
    <3>1. \A i \in 0 .. n : kept[i] = KeepStep(s, S, kept, i)  BY <2>1
    <3> QED  BY <3>1
  <2>5. more = [i \in 0 .. n + 1 |-> KeepStep(s, S, more, i)]
    <3>1. more = [i \in 0 .. n + 1 |-> more[i]]  OBVIOUS
    <3> HIDE DEF more
    <3> QED  BY <2>3, <2>4, <3>1
  <2> HIDE DEF more
  <2> QED  BY <2>5
<1>3. Nat \subseteq P
  <2> HIDE DEF P
  <2> QED  BY <1>1, <1>2, Induction
<1> QED  BY <1>3

(* So KeptUpTo is that function: it starts with nothing and takes one       *)
(* element at a time.                                                       *)
LEMMA KeptSteps ==
    ASSUME NEW s, Len(s) \in Nat, NEW S
    PROVE  /\ KeptUpTo(s, S)[0] = <<>>
           /\ \A i \in 1 .. Len(s) :
                 KeptUpTo(s, S)[i] = IF s[i] \in S THEN Append(KeptUpTo(s, S)[i - 1], s[i])
                                     ELSE KeptUpTo(s, S)[i - 1]
<1> DEFINE kept == KeptUpTo(s, S)
<1>1. kept = [i \in 0 .. Len(s) |-> KeepStep(s, S, kept, i)]
  <2>1. kept = CHOOSE k : k = [i \in 0 .. Len(s) |-> KeepStep(s, S, k, i)]  BY DEF KeptUpTo, KeepStep
  <2> HIDE DEF kept
  <2> QED  BY <2>1, WalkExists
<1>2. \A i \in 0 .. Len(s) : kept[i] = KeepStep(s, S, kept, i)
  <2> HIDE DEF kept
  <2> QED  BY <1>1
<1> HIDE DEF kept
<1>3. kept[0] = <<>>  BY <1>2 DEF KeepStep
<1>4. ASSUME NEW i \in 1 .. Len(s)
      PROVE  kept[i] = IF s[i] \in S THEN Append(kept[i - 1], s[i]) ELSE kept[i - 1]
  <2>1. i \in 0 .. Len(s) /\ i # 0  OBVIOUS
  <2> QED  BY <1>2, <2>1 DEF KeepStep
<1> QED  BY <1>3, <1>4 DEF kept

(* The elements of a sequence that grows.                                   *)
LEMMA RangeAppend ==
    ASSUME NEW T, NEW s \in Seq(T), NEW x \in T
    PROVE  Range(Append(s, x)) = Range(s) \cup {x}
<1> DEFINE t == Append(s, x)
<1>1. DOMAIN t = 1 .. Len(s) + 1 /\ DOMAIN s = 1 .. Len(s) /\ Len(s) \in Nat  OBVIOUS
<1>2. t[Len(s) + 1] = x /\ \A i \in 1 .. Len(s) : t[i] = s[i]  OBVIOUS
<1> HIDE DEF t
<1>3. DOMAIN t = DOMAIN s \cup {Len(s) + 1}  BY <1>1
<1>4. {t[i] : i \in DOMAIN t} = {s[i] : i \in DOMAIN s} \cup {x}  BY <1>1, <1>2, <1>3
<1> QED  BY <1>4 DEF Range, t

(* What is kept are the elements that are in the set.                       *)
LEMMA KeptTyped ==
    ASSUME NEW T, NEW s \in Seq(T), NEW S
    PROVE  \A i \in 0 .. Len(s) : KeptUpTo(s, S)[i] \in Seq(T \cap S)
<1> SUFFICES ASSUME NEW U, \A x \in T : x \in S => x \in U
             PROVE  \A i \in 0 .. Len(s) : KeptUpTo(s, S)[i] \in Seq(U)
  OBVIOUS
<1> DEFINE P == {i \in 0 .. Len(s) : KeptUpTo(s, S)[i] \in Seq(U)}
<1> Len(s) \in Nat  OBVIOUS
<1>1. 0 \in P
  <2>1. KeptUpTo(s, S)[0] = <<>>  BY KeptSteps
  <2>2. 0 \in 0 .. Len(s)  OBVIOUS
  <2>3. KeptUpTo(s, S)[0] \in Seq(U)
    <3>1. <<>> \in Seq(U)  OBVIOUS
    <3> QED  BY <2>1, <3>1
  <2> QED  BY <2>2, <2>3
<1>2. ASSUME NEW i \in 1 .. Len(s), i - 1 \in P PROVE i \in P
  <2> DEFINE k == KeptUpTo(s, S)[i - 1]
  <2>1. s[i] \in T  OBVIOUS
  <2>2. k \in Seq(U)  BY <1>2
  <2>3. KeptUpTo(s, S)[i] = IF s[i] \in S THEN Append(k, s[i]) ELSE k  BY KeptSteps
  <2> HIDE DEF k
  <2>4. s[i] \in S => Append(k, s[i]) \in Seq(U)  BY <2>1, <2>2
  <2>5. KeptUpTo(s, S)[i] \in Seq(U)  BY <2>2, <2>3, <2>4
  <2> QED  BY <2>5
<1>3. 0 .. Len(s) \subseteq P
  <2> HIDE DEF P
  <2> QED  BY <1>1, <1>2, InductionUpTo
<1> QED  BY <1>3

(* None of them is lost.                                                    *)
LEMMA KeptRange ==
    ASSUME NEW T, NEW s \in Seq(T), NEW S
    PROVE  \A i \in 0 .. Len(s) : Range(KeptUpTo(s, S)[i]) = {s[j] : j \in 1 .. i} \cap S
<1> DEFINE P == {i \in 0 .. Len(s) : Range(KeptUpTo(s, S)[i]) = {s[j] : j \in 1 .. i} \cap S}
<1> Len(s) \in Nat  OBVIOUS
<1>1. 0 \in P  BY KeptSteps DEF Range
<1>2. ASSUME NEW i \in 1 .. Len(s), i - 1 \in P PROVE i \in P
  <2> DEFINE k == KeptUpTo(s, S)[i - 1]
  <2>1. k \in Seq(T \cap S)
    <3>1. i - 1 \in 0 .. Len(s)  OBVIOUS
    <3> QED  BY <3>1, KeptTyped
  <2>2. Range(k) = {s[j] : j \in 1 .. i - 1} \cap S  BY <1>2
  <2>3. {s[j] : j \in 1 .. i} = {s[j] : j \in 1 .. i - 1} \cup {s[i]}  OBVIOUS
  <2> HIDE DEF k
  <2>4. Range(Append(k, s[i])) = Range(k) \cup {s[i]}
    <3>1. k \in Seq(T) /\ s[i] \in T  BY <2>1
    <3> QED  BY <3>1, RangeAppend
  <2>5. KeptUpTo(s, S)[i] = IF s[i] \in S THEN Append(k, s[i]) ELSE k  BY KeptSteps DEF k
  <2>6. Range(KeptUpTo(s, S)[i]) = {s[j] : j \in 1 .. i} \cap S  BY <2>2, <2>3, <2>4, <2>5
  <2> QED  BY <2>6
<1>3. 0 .. Len(s) \subseteq P
  <2> HIDE DEF P
  <2> QED  BY <1>1, <1>2, InductionUpTo
<1> QED  BY <1>3

(* Two sets that agree on the sequence keep the same of it.                 *)
LEMMA KeptAgrees ==
    ASSUME NEW T, NEW s \in Seq(T), NEW S, NEW R, \A j \in 1 .. Len(s) : s[j] \in S <=> s[j] \in R
    PROVE  \A i \in 0 .. Len(s) : KeptUpTo(s, S)[i] = KeptUpTo(s, R)[i]
<1> DEFINE P == {i \in 0 .. Len(s) : KeptUpTo(s, S)[i] = KeptUpTo(s, R)[i]}
<1> Len(s) \in Nat  OBVIOUS
<1>1. 0 \in P  BY KeptSteps
<1>2. ASSUME NEW i \in 1 .. Len(s), i - 1 \in P PROVE i \in P
  <2>1. KeptUpTo(s, S)[i] = KeptUpTo(s, R)[i]  BY <1>2, KeptSteps
  <2> QED  BY <2>1
<1>3. 0 .. Len(s) \subseteq P
  <2> HIDE DEF P
  <2> QED  BY <1>1, <1>2, InductionUpTo
<1> QED  BY <1>3

(* An element that is appended is kept or not.                              *)
LEMMA KeptAppend ==
    ASSUME NEW T, NEW s \in Seq(T), NEW x \in T, NEW S
    PROVE  Kept(Append(s, x), S) = IF x \in S THEN Append(Kept(s, S), x) ELSE Kept(s, S)
<1> DEFINE t == Append(s, x)
           P == {i \in 0 .. Len(s) : KeptUpTo(t, S)[i] = KeptUpTo(s, S)[i]}
<1>1. Len(t) = Len(s) + 1 /\ t[Len(s) + 1] = x /\ \A i \in 1 .. Len(s) : t[i] = s[i]  OBVIOUS
<1>2. Len(s) \in Nat  OBVIOUS
<1> HIDE DEF t
<1>3. KeptUpTo(t, S)[0] = <<>> /\ KeptUpTo(s, S)[0] = <<>>  BY <1>1, <1>2, KeptSteps
<1>4. 0 \in P  BY <1>2, <1>3
<1>5. ASSUME NEW i \in 1 .. Len(s), i - 1 \in P PROVE i \in P
  <2>1. KeptUpTo(t, S)[i] = KeptUpTo(s, S)[i]
    <3>1. i \in 1 .. Len(t) /\ t[i] = s[i] /\ Len(t) \in Nat  BY <1>1, <1>2
    <3>2. KeptUpTo(t, S)[i - 1] = KeptUpTo(s, S)[i - 1]  BY <1>5
    <3>3. KeptUpTo(t, S)[i] = IF t[i] \in S THEN Append(KeptUpTo(t, S)[i - 1], t[i]) ELSE KeptUpTo(t, S)[i - 1]
      BY <3>1, KeptSteps
    <3>4. KeptUpTo(s, S)[i] = IF s[i] \in S THEN Append(KeptUpTo(s, S)[i - 1], s[i]) ELSE KeptUpTo(s, S)[i - 1]
      BY <1>2, KeptSteps
    <3> QED  BY <3>1, <3>2, <3>3, <3>4
  <2> QED  BY <2>1
<1>6. 0 .. Len(s) \subseteq P
  <2> HIDE DEF P
  <2> QED  BY <1>2, <1>4, <1>5, InductionUpTo
<1>7. KeptUpTo(t, S)[Len(s)] = Kept(s, S)  BY <1>2, <1>6 DEF Kept
<1>8. KeptUpTo(t, S)[Len(t)] = IF x \in S THEN Append(Kept(s, S), x) ELSE Kept(s, S)
  <2>1. Len(t) \in 1 .. Len(t) /\ Len(t) - 1 = Len(s) /\ t[Len(t)] = x  BY <1>1, <1>2
  <2> QED  BY <1>1, <1>2, <1>7, <2>1, KeptSteps
<1> QED  BY <1>8 DEF Kept, t

(* The same for the whole sequence.                                         *)
LEMMA KeptWhole ==
    ASSUME NEW T, NEW s \in Seq(T), NEW S
    PROVE  /\ Kept(s, S) \in Seq(T \cap S)
           /\ Range(Kept(s, S)) = Range(s) \cap S
           /\ Kept(s, S) = <<>> <=> \A x \in Range(s) : x \notin S
<1>1. Len(s) \in 0 .. Len(s) /\ Range(s) = {s[j] : j \in 1 .. Len(s)}  BY DEF Range
<1>2. Kept(s, S) \in Seq(T \cap S)  BY <1>1, KeptTyped DEF Kept
<1>3. Range(Kept(s, S)) = Range(s) \cap S  BY <1>1, KeptRange DEF Kept
<1>4. Kept(s, S) = <<>> <=> Range(Kept(s, S)) = {}
  <2> DEFINE k == Kept(s, S)
  <2> HIDE DEF k
  <2>1. ASSUME NEW U, k \in Seq(U) PROVE k = <<>> <=> Range(k) = {}
    <3>1. k = <<>> <=> DOMAIN k = {}  BY <2>1
    <3> QED  BY <3>1 DEF Range
  <2>2. k \in Seq(T \cap S)  BY <1>2 DEF k
  <2>3. k = <<>> <=> Range(k) = {}  BY <2>1, <2>2
  <2> QED  BY <2>3 DEF k
<1> QED  BY <1>2, <1>3, <1>4

(* Two filters that agree on the elements of a sequence keep the same of it.*)
LEMMA KeptWholeAgrees ==
    ASSUME NEW T, NEW s \in Seq(T), NEW S, NEW R, \A x \in Range(s) : x \in S <=> x \in R
    PROVE  Kept(s, S) = Kept(s, R)
<1>1. \A j \in 1 .. Len(s) : s[j] \in Range(s)  BY DEF Range
<1>2. Len(s) \in 0 .. Len(s)  OBVIOUS
<1> QED  BY <1>1, <1>2, KeptAgrees DEF Kept

(* The elements of two sequences one after the other.                       *)
LEMMA RangeConcat ==
    ASSUME NEW T, NEW s \in Seq(T), NEW t \in Seq(T)
    PROVE  s \o t \in Seq(T) /\ Range(s \o t) = Range(s) \cup Range(t)
<1> DEFINE u == s \o t
<1>1. u \in Seq(T) /\ Len(u) = Len(s) + Len(t)  OBVIOUS
<1>2. \A i \in 1 .. Len(s) + Len(t) : u[i] = IF i <= Len(s) THEN s[i] ELSE t[i - Len(s)]  OBVIOUS
<1>3. /\ DOMAIN u = 1 .. Len(s) + Len(t) /\ DOMAIN s = 1 .. Len(s) /\ DOMAIN t = 1 .. Len(t)
      /\ Len(s) \in Nat /\ Len(t) \in Nat
  BY <1>1
<1> HIDE DEF u
<1>4. \A i \in DOMAIN u : u[i] \in Range(s) \cup Range(t)
  <2> SUFFICES ASSUME NEW i \in DOMAIN u PROVE u[i] \in Range(s) \cup Range(t)
    OBVIOUS
  <2>1. CASE i <= Len(s)
    <3>1. i \in DOMAIN s /\ u[i] = s[i]  BY <1>2, <1>3, <2>1
    <3> QED  BY <3>1 DEF Range
  <2>2. CASE ~(i <= Len(s))
    <3>1. i - Len(s) \in DOMAIN t /\ u[i] = t[i - Len(s)]  BY <1>2, <1>3, <2>2
    <3> QED  BY <3>1 DEF Range
  <2> QED  BY <2>1, <2>2
<1>5. \A i \in DOMAIN s : s[i] \in Range(u)
  <2> SUFFICES ASSUME NEW i \in DOMAIN s PROVE s[i] \in Range(u)
    OBVIOUS
  <2>1. i \in DOMAIN u /\ u[i] = s[i]  BY <1>2, <1>3
  <2> QED  BY <2>1 DEF Range
<1>6. \A i \in DOMAIN t : t[i] \in Range(u)
  <2> SUFFICES ASSUME NEW i \in DOMAIN t PROVE t[i] \in Range(u)
    OBVIOUS
  <2>1. Len(s) + i \in DOMAIN u /\ u[Len(s) + i] = t[i]  BY <1>2, <1>3
  <2> QED  BY <2>1 DEF Range
<1>7. Range(u) = Range(s) \cup Range(t)  BY <1>4, <1>5, <1>6 DEF Range
<1> QED  BY <1>1, <1>7 DEF u

--------------------------------------------------------------------------------
(* What one message becomes                                                 *)

WireIds     == CallIds \cup Seq(Nat)
TextParts   == [kind : {"reasoning", "text"}, text : Seq(Pieces)]
CallParts   == [kind : {"tool-call"}, id : WireIds, name : FunctionNames \cup {Unnamed}]
ResultParts == [kind : {"tool-result"}, id : CallIds \cup {NoId},
                name : FunctionNames \cup {Unknown}, text : Seq(Pieces)]
SpokenParts == TextParts \cup CallParts
WireMessage == [role : {"assistant"}, parts : Seq(SpokenParts)] \cup [role : {"tool"}, parts : Seq(ResultParts)]
               \cup [role : {"user"}, parts : Seq(Part)]

SaysIn(ps, kind, v) == \E q \in Range(ps) : q.kind = kind /\ v \in Range(q.text)

(* The parts ps say what the assistant's message m says,                    *)
Speech(m, ps) ==
    /\ \A v \in Range(m.reasoning) \ {Nothing} : SaysIn(ps, "reasoning", v)
    /\ \A q \in Range(m.content) : q.value # Nothing =>
          /\ q.type \in {"reasoning", "thinking"} => SaysIn(ps, "reasoning", q.value)
          /\ q.type = "text" => SaysIn(ps, "text", q.value)

(* and call its first n calls.                                              *)
Calls(m, ps, n) ==
    LET sentCalls == Kept(ps, CallParts)
    IN  /\ Len(sentCalls) = n
        /\ \A k \in 1 .. n : /\ sentCalls[k].name = m.calls[k].name
                             /\ m.calls[k].id # NoId => sentCalls[k].id = m.calls[k].id

(* A filled part is one of the given types that is not empty.               *)
LEMMA FilledParts ==
    ASSUME NEW c \in Seq(Part), NEW types
    PROVE  /\ Filled(c, types) \in Seq(Part \cap [type : types, value : Pieces])
           /\ Range(Filled(c, types)) = {q \in Range(c) : q.type \in types /\ q.value # Nothing}
           /\ Filled(c, types) = <<>> <=> \A q \in Range(c) : ~(q.type \in types /\ q.value # Nothing)
<1>1. \A q \in Range(c) : q \in Part  BY DEF Range
<1>2. \A q \in Part : q \in [type : types, value : Pieces] <=> q.type \in types /\ q.value # Nothing
  BY EmptiesAssumption DEF Part
<1> DEFINE S == [type : types, value : Pieces]
<1>3. Filled(c, types) = Kept(c, S)  BY DEF Filled
<1> HIDE DEF S
<1>4. /\ Kept(c, S) \in Seq(Part \cap S) /\ Range(Kept(c, S)) = Range(c) \cap S
      /\ Kept(c, S) = <<>> <=> \A q \in Range(c) : q \notin S
  BY KeptWhole
<1>5. \A q \in Range(c) : q \in S <=> q.type \in types /\ q.value # Nothing  BY <1>1, <1>2 DEF S
<1>6. Range(Filled(c, types)) = {q \in Range(c) : q.type \in types /\ q.value # Nothing}
  BY <1>3, <1>4, <1>5
<1>7. Filled(c, types) = <<>> <=> \A q \in Range(c) : ~(q.type \in types /\ q.value # Nothing)
  BY <1>3, <1>4, <1>5
<1> QED  BY <1>3, <1>4, <1>6, <1>7 DEF S

(* The text joined of them has their values.                                *)
LEMMA JoinedText ==
    ASSUME NEW c \in Seq(Part), NEW types
    PROVE  /\ Joined(c, types) \in Seq(Pieces)
           /\ \A q \in Range(c) : q.type \in types /\ q.value # Nothing => q.value \in Range(Joined(c, types))
<1> DEFINE kept == Filled(c, types)
           text == [i \in DOMAIN kept |-> kept[i].value]
<1>1. kept \in Seq(Part \cap [type : types, value : Pieces])  BY FilledParts
<1>2. \A q \in Range(c) : q.type \in types /\ q.value # Nothing => q \in Range(kept)  BY FilledParts
<1>3. Joined(c, types) = text  BY DEF Joined
<1> HIDE DEF kept
<1>4. text \in Seq(Pieces)  BY <1>1
<1>5. \A q \in Range(kept) : q.value \in Range(text)  BY DEF Range
<1> HIDE DEF text
<1> QED  BY <1>2, <1>3, <1>4, <1>5

(* A text that is not empty is said.                                        *)
LEMMA TextPartSays ==
    ASSUME NEW kind \in {"reasoning", "text"}, NEW text \in Seq(Pieces)
    PROVE  /\ TextPart(kind, text) \in Seq(TextParts)
           /\ \A v \in Range(text) : SaysIn(TextPart(kind, text), kind, v)
<1>1. CASE text = <<>>
  <2>1. Range(text) = {}  BY <1>1 DEF Range
  <2> QED  BY <1>1, <2>1 DEF TextPart
<1>2. CASE text # <<>>
  <2> DEFINE p == [kind |-> kind, text |-> text]
  <2>1. TextPart(kind, text) = <<p>>  BY <1>2 DEF TextPart
  <2>2. p \in TextParts  BY DEF TextParts
  <2>3. Range(<<p>>) = {p}  BY DEF Range
  <2>4. \A v \in Range(text) : SaysIn(<<p>>, kind, v)  BY <2>3 DEF SaysIn
  <2>5. <<p>> \in Seq(TextParts)  BY <2>2
  <2> QED  BY <2>1, <2>4, <2>5
<1> QED  BY <1>1, <1>2

(* What the types of a message's parts are.                                 *)
LEMMA MessageTyped ==
    ASSUME NEW m \in Message
    PROVE  /\ m.content \in Seq(Part) /\ m.reasoning \in Seq(Pieces \cup {Nothing})
           /\ m.calls \in Seq(Call)
           /\ m.id \in CallIds \cup {NoId} /\ m.name \in FunctionNames \cup {Unnamed}
  BY DEF Message

(* The parts of an assistant's message that precede its calls say it all,   *)
(* and hold no call.                                                        *)
LEMMA SpeechBegins ==
    ASSUME NEW m \in Message
    PROVE  LET ps == TextPart("reasoning", messageReasoning(m)) \o TextPart("text", messageText(m.content))
           IN  ps \in Seq(TextParts) /\ Speech(m, ps) /\ Calls(m, ps, 0)
<1> DEFINE r  == TextPart("reasoning", messageReasoning(m))
           t  == TextPart("text", messageText(m.content))
           own == Kept(m.reasoning, Pieces)
           thought == Joined(m.content, {"reasoning", "thinking"})
           ps == r \o t
<1>1. messageText(m.content) \in Seq(Pieces) /\ thought \in Seq(Pieces)
  BY MessageTyped, JoinedText DEF messageText
<1>2. own \in Seq(Pieces) /\ Range(own) = Range(m.reasoning) \cap Pieces
  <2>1. own \in Seq((Pieces \cup {Nothing}) \cap Pieces)  BY MessageTyped, KeptWhole
  <2>2. (Pieces \cup {Nothing}) \cap Pieces = Pieces  OBVIOUS
  <2> QED  BY <2>1, <2>2, MessageTyped, KeptWhole
<1>3. /\ messageReasoning(m) \in Seq(Pieces)
      /\ Range(messageReasoning(m)) = Range(own) \cup Range(thought)
  <2> HIDE DEF own, thought
  <2>1. messageReasoning(m) = own \o thought  BY DEF messageReasoning, own, thought
  <2> QED  BY <1>1, <1>2, <2>1, RangeConcat
<1>4. /\ r \in Seq(TextParts) /\ \A v \in Range(messageReasoning(m)) : SaysIn(r, "reasoning", v)
      /\ t \in Seq(TextParts) /\ \A v \in Range(messageText(m.content)) : SaysIn(t, "text", v)
  BY <1>1, <1>3, TextPartSays
<1> HIDE DEF r, t
<1>5. ps \in Seq(TextParts) /\ Range(ps) = Range(r) \cup Range(t)  BY <1>4, RangeConcat
<1> HIDE DEF ps
<1>6. /\ \A v \in Range(messageReasoning(m)) : SaysIn(ps, "reasoning", v)
      /\ \A v \in Range(messageText(m.content)) : SaysIn(ps, "text", v)
  BY <1>4, <1>5 DEF SaysIn
<1>7. \A v \in Range(m.reasoning) : v \in Pieces \cup {Nothing}  BY MessageTyped DEF Range
<1>8. \A q \in Range(m.content) : q.value # Nothing =>
         /\ q.type \in {"reasoning", "thinking"} => q.value \in Range(thought)
         /\ q.type = "text" => q.value \in Range(messageText(m.content))
  BY MessageTyped, JoinedText DEF messageText
<1> HIDE DEF own, thought
<1>9. Speech(m, ps)  BY <1>2, <1>3, <1>6, <1>7, <1>8 DEF Speech
<1>10. Calls(m, ps, 0)
  <2>1. \A q \in Range(ps) : q \notin CallParts
    <3>1. \A q \in Range(ps) : q \in TextParts  BY <1>5 DEF Range
    <3> QED  BY <3>1 DEF TextParts, CallParts
  <2>2. Kept(ps, CallParts) = <<>>  BY <1>5, <2>1, KeptWhole
  <2> QED  BY <2>2 DEF Calls
<1> QED  BY <1>5, <1>9, <1>10 DEF ps, r, t

(* A call that is added is the next one, and nothing said is lost.          *)
LEMMA CallAdded ==
    ASSUME NEW m \in Message, NEW ps \in Seq(SpokenParts), NEW n \in Nat, NEW q \in CallParts,
           Speech(m, ps), Calls(m, ps, n),
           q.name = m.calls[n + 1].name, m.calls[n + 1].id # NoId => q.id = m.calls[n + 1].id
    PROVE  Append(ps, q) \in Seq(SpokenParts) /\ Speech(m, Append(ps, q)) /\ Calls(m, Append(ps, q), n + 1)
<1>1. q \in SpokenParts  BY DEF SpokenParts
<1>2. Range(Append(ps, q)) = Range(ps) \cup {q}  BY <1>1, RangeAppend
<1>3. Speech(m, Append(ps, q))  BY <1>2 DEF Speech, SaysIn
<1> DEFINE k == Kept(ps, CallParts)
<1>4. k \in Seq(CallParts)
  <2>1. SpokenParts \cap CallParts = CallParts  BY DEF SpokenParts
  <2>2. k \in Seq(SpokenParts \cap CallParts)  BY KeptWhole
  <2> QED  BY <2>1, <2>2
<1>5. Kept(Append(ps, q), CallParts) = Append(k, q)  BY <1>1, KeptAppend
<1>6. /\ Len(k) = n
      /\ \A j \in 1 .. n : /\ k[j].name = m.calls[j].name
                           /\ m.calls[j].id # NoId => k[j].id = m.calls[j].id
  BY DEF Calls
<1> HIDE DEF k
<1> DEFINE l == Append(k, q)
<1>7. Len(l) = n + 1 /\ l[n + 1] = q /\ \A j \in 1 .. n : l[j] = k[j]  BY <1>4, <1>6
<1> HIDE DEF l
<1>8. \A j \in 1 .. n + 1 : j = n + 1 \/ j \in 1 .. n  OBVIOUS
<1>9. Calls(m, Append(ps, q), n + 1)  BY <1>5, <1>6, <1>7, <1>8 DEF Calls, l
<1> QED  BY <1>1, <1>3, <1>9

(* A finished assistant's message keeps its turn,                           *)
LEMMA AssistantKept ==
    ASSUME NEW m \in Message, m.role = "assistant", NEW ps \in Seq(SpokenParts),
           Speech(m, ps), Calls(m, ps, Len(m.calls))
    PROVE  TurnKept(m, [role |-> "assistant", parts |-> ps])
<1> DEFINE w == [role |-> "assistant", parts |-> ps]
           S == {q \in Range(ps) : q.kind = "tool-call"}
<1>1. \A q \in Range(ps) : q \in S <=> q \in CallParts
  <2>1. \A q \in Range(ps) : q \in SpokenParts  BY DEF Range
  <2>2. \A q \in SpokenParts : q.kind = "tool-call" <=> q \in CallParts
    BY DEF SpokenParts, TextParts, CallParts
  <2> QED  BY <2>1, <2>2
<1>2. Kept(ps, S) = Kept(ps, CallParts)
  <2> HIDE DEF S
  <2> QED  BY <1>1, KeptWholeAgrees
<1>3. DOMAIN m.calls = 1 .. Len(m.calls)  BY MessageTyped
<1>4. w.role = "assistant" /\ w.parts = ps  OBVIOUS
<1>5. \A kind, v : SaysIn(ps, kind, v) => Says(w, kind, v)  BY DEF SaysIn, Says
<1>6. /\ Len(Kept(w.parts, S)) = Len(m.calls)
      /\ \A k \in DOMAIN m.calls : /\ Kept(w.parts, S)[k].name = m.calls[k].name
                                   /\ m.calls[k].id # NoId => Kept(w.parts, S)[k].id = m.calls[k].id
  BY <1>2, <1>3, <1>4 DEF Calls
<1>7. S = {q \in Range(w.parts) : q.kind = "tool-call"}  BY <1>4
<1> HIDE DEF w, S
<1> QED  BY <1>4, <1>5, <1>6, <1>7 DEF TurnKept, Speech, w

(* and so does a user's                                                     *)
LEMMA UserKept ==
    ASSUME NEW m \in Message, m.role = "user"
    PROVE  TurnKept(m, [role |-> "user", parts |-> orderedUserParts(m.content)])
<1> DEFINE ps == orderedUserParts(m.content)
           S  == [type : {"text", "image"}, value : Pieces]
<1>1. ps = Kept(m.content, S)  BY DEF orderedUserParts, Filled
<1>2. Range(ps) = {q \in Range(m.content) : q.type \in {"text", "image"} /\ q.value # Nothing}
  BY MessageTyped, FilledParts DEF orderedUserParts
<1> HIDE DEF S, ps
<1>3. Range(ps) = Range(m.content) \cap S  BY <1>1, MessageTyped, KeptWhole
<1>4. ps = Kept(m.content, Range(ps))  BY <1>1, <1>3, MessageTyped, KeptWholeAgrees
<1> QED  BY <1>2, <1>4 DEF TurnKept, ps

(* and a result's.                                                          *)
LEMMA ResultKept ==
    ASSUME NEW m \in Message, m.role = "tool", NEW name
    PROVE  TurnKept(m, [role  |-> "tool",
                        parts |-> <<[kind |-> "tool-result", id |-> m.id, name |-> name,
                                     text |-> toolResultText(m.content)]>>])
<1> DEFINE p == [kind |-> "tool-result", id |-> m.id, name |-> name, text |-> toolResultText(m.content)]
           w == [role |-> "tool", parts |-> <<p>>]
<1>1. \A q \in Range(m.content) : q.type \in {"text", "json"} /\ q.value # Nothing => q.value \in Range(p.text)
  BY MessageTyped, JoinedText DEF toolResultText
<1>2. p.kind = "tool-result" /\ p.id = m.id  OBVIOUS
<1> HIDE DEF p
<1>3. p \in Range(w.parts) /\ w.parts[1] = p /\ w.role = "tool"  BY DEF Range
<1> HIDE DEF w
<1> QED  BY <1>1, <1>2, <1>3 DEF TurnKept, Says, w, p

--------------------------------------------------------------------------------
(* Calls and results on the wire                                            *)

Spoken(ps) == [role |-> "assistant", parts |-> ps]

(* The messages with the assistant's one that is being translated.          *)
Pending == IF stage = "calls" THEN Append(wire, Spoken(parts)) ELSE wire

(* The place p is that of the latest call of the messages w with this id.   *)
Latest(w, p, id) == At(w, p).id = id /\ \A q \in CallPlaces(w) : At(w, q).id = id => ~Before(p, q)

(* The messages v have the calls of the messages w.                         *)
SameCalls(w, v) == CallPlaces(v) = CallPlaces(w) /\ \A p \in CallPlaces(w) : At(v, p) = At(w, p)

IsPlace(w, i, k) == /\ i \in DOMAIN w /\ w[i].role = "assistant"
                    /\ k \in DOMAIN w[i].parts /\ w[i].parts[k].kind = "tool-call"

(* The places of the calls are the pairs of a message and a part of it.     *)
LEMMA Places ==
    ASSUME NEW w, NEW p
    PROVE  p \in CallPlaces(w) <=> \E i, k : IsPlace(w, i, k) /\ p = <<i, k>>
  BY DEF CallPlaces, IsPlace

(* A place is within the messages, and its parts are those of a message.    *)
LEMMA PlaceWithin ==
    ASSUME NEW w \in Seq(WireMessage), NEW p \in CallPlaces(w)
    PROVE  /\ p[1] \in 1 .. Len(w) /\ p[2] \in 1 .. Len(w[p[1]].parts)
           /\ p = <<p[1], p[2]>> /\ IsPlace(w, p[1], p[2])
<1>1. PICK i, k : IsPlace(w, i, k) /\ p = <<i, k>>  BY Places
<1>2. w[i] \in WireMessage  BY <1>1 DEF IsPlace
<1>3. DOMAIN w[i].parts = 1 .. Len(w[i].parts)  BY <1>2 DEF WireMessage
<1> QED  BY <1>1, <1>3 DEF IsPlace

(* A message without calls adds no place,                                   *)
LEMMA NoCallAdded ==
    ASSUME NEW w \in Seq(WireMessage), NEW x \in WireMessage,
           x.role = "assistant" => \A k \in DOMAIN x.parts : x.parts[k].kind # "tool-call"
    PROVE  SameCalls(w, Append(w, x))
<1> DEFINE v == Append(w, x)
<1>1. /\ DOMAIN v = 1 .. Len(w) + 1 /\ DOMAIN w = 1 .. Len(w) /\ Len(w) \in Nat
      /\ v[Len(w) + 1] = x /\ \A i \in 1 .. Len(w) : v[i] = w[i]
  OBVIOUS
<1> HIDE DEF v
<1>2. \A i, k : IsPlace(v, i, k) <=> IsPlace(w, i, k)
  <2> SUFFICES ASSUME NEW i, NEW k PROVE IsPlace(v, i, k) <=> IsPlace(w, i, k)
    OBVIOUS
  <2>1. CASE i \in 1 .. Len(w)  BY <1>1, <2>1 DEF IsPlace
  <2>2. CASE i = Len(w) + 1  BY <1>1, <2>2 DEF IsPlace
  <2>3. CASE i \notin 1 .. Len(w) + 1  BY <1>1, <2>3 DEF IsPlace
  <2> QED  BY <1>1, <2>1, <2>2, <2>3
<1>3. CallPlaces(v) = CallPlaces(w)
  <2>1. \A p : p \in CallPlaces(v) <=> p \in CallPlaces(w)  BY <1>2, Places
  <2> QED  BY <2>1
<1>4. \A p \in CallPlaces(w) : At(v, p) = At(w, p)
  BY <1>1, PlaceWithin DEF At
<1> QED  BY <1>3, <1>4 DEF SameCalls, v

(* and a call one.                                                          *)
LEMMA PlaceAdded ==
    ASSUME NEW w \in Seq(WireMessage), NEW ps \in Seq(SpokenParts), NEW q \in CallParts
    PROVE  LET old == Append(w, Spoken(ps))
               new == Append(w, Spoken(Append(ps, q)))
               place == <<Len(w) + 1, Len(ps) + 1>>
           IN  /\ CallPlaces(new) = CallPlaces(old) \cup {place} /\ place \notin CallPlaces(old)
               /\ At(new, place) = q /\ \A p \in CallPlaces(old) : At(new, p) = At(old, p) /\ ~Before(place, p)
<1> DEFINE old == Append(w, Spoken(ps))
           more == Append(ps, q)
           new == Append(w, Spoken(more))
           place == <<Len(w) + 1, Len(ps) + 1>>
<1>1. /\ DOMAIN more = 1 .. Len(ps) + 1 /\ DOMAIN ps = 1 .. Len(ps) /\ Len(ps) \in Nat
      /\ more[Len(ps) + 1] = q /\ \A k \in 1 .. Len(ps) : more[k] = ps[k]
  OBVIOUS
<1>2. q.kind = "tool-call"  BY DEF CallParts
<1> HIDE DEF more
<1>3. /\ DOMAIN old = 1 .. Len(w) + 1 /\ DOMAIN new = 1 .. Len(w) + 1 /\ Len(w) \in Nat
      /\ old[Len(w) + 1] = Spoken(ps) /\ new[Len(w) + 1] = Spoken(more)
      /\ \A i \in 1 .. Len(w) : old[i] = w[i] /\ new[i] = w[i]
  OBVIOUS
<1> HIDE DEF old, new
<1>4. \A i, k : IsPlace(new, i, k) <=> IsPlace(old, i, k) \/ (i = Len(w) + 1 /\ k = Len(ps) + 1)
  <2> SUFFICES ASSUME NEW i, NEW k
               PROVE  IsPlace(new, i, k) <=> IsPlace(old, i, k) \/ (i = Len(w) + 1 /\ k = Len(ps) + 1)
    OBVIOUS
  <2>1. CASE i \in 1 .. Len(w)  BY <1>3, <2>1 DEF IsPlace
  <2>2. CASE i = Len(w) + 1
    <3>1. IsPlace(new, i, k) <=> k \in DOMAIN more /\ more[k].kind = "tool-call"
      BY <1>3, <2>2 DEF IsPlace, Spoken
    <3>2. IsPlace(old, i, k) <=> k \in DOMAIN ps /\ ps[k].kind = "tool-call"
      BY <1>3, <2>2 DEF IsPlace, Spoken
    <3> QED  BY <1>1, <1>2, <2>2, <3>1, <3>2
  <2>3. CASE i \notin 1 .. Len(w) + 1  BY <1>3, <2>3 DEF IsPlace
  <2> QED  BY <1>3, <2>1, <2>2, <2>3
<1>5. \A p : p \in CallPlaces(new) <=> p \in CallPlaces(old) \/ p = place
  BY <1>4, Places
<1>6. \A p \in CallPlaces(old) : \E i, k : p = <<i, k>> /\ i \in 1 .. Len(w) + 1 /\ (i = Len(w) + 1 => k \in 1 .. Len(ps))
  BY <1>1, <1>3, Places DEF IsPlace, Spoken
<1>7. place \notin CallPlaces(old)
  <2> SUFFICES ASSUME place \in CallPlaces(old) PROVE FALSE
    OBVIOUS
  <2>1. PICK i, k : place = <<i, k>> /\ i \in 1 .. Len(w) + 1 /\ (i = Len(w) + 1 => k \in 1 .. Len(ps))
    BY <1>6
  <2>2. i = Len(w) + 1 /\ k = Len(ps) + 1  BY <2>1
  <2> QED  BY <1>1, <2>1, <2>2
<1>8. ASSUME NEW p \in CallPlaces(old) PROVE At(new, p) = At(old, p) /\ ~Before(place, p)
  <2>1. PICK i, k : p = <<i, k>> /\ i \in 1 .. Len(w) + 1 /\ (i = Len(w) + 1 => k \in 1 .. Len(ps))
    BY <1>6
  <2>2. p[1] = i /\ p[2] = k /\ place[1] = Len(w) + 1 /\ place[2] = Len(ps) + 1  BY <2>1
  <2>3. ~Before(place, p)  BY <1>1, <1>3, <2>1, <2>2 DEF Before
  <2>4. At(new, p) = new[i].parts[k] /\ At(old, p) = old[i].parts[k]  BY <2>2 DEF At
  <2>5. CASE i \in 1 .. Len(w)
    <3>1. new[i] = old[i]  BY <1>3, <2>5
    <3> QED  BY <2>3, <2>4, <3>1
  <2>6. CASE i = Len(w) + 1
    <3>1. new[i].parts = more /\ old[i].parts = ps  BY <1>3, <2>6 DEF Spoken
    <3>2. more[k] = ps[k]  BY <1>1, <2>1, <2>6
    <3> QED  BY <2>3, <2>4, <3>1, <3>2
  <2> QED  BY <1>3, <2>1, <2>5, <2>6
<1>9. At(new, place) = q  BY <1>1, <1>3 DEF At, Spoken
<1> HIDE DEF place
<1>10. CallPlaces(new) = CallPlaces(old) \cup {place}  BY <1>5
<1> QED  BY <1>7, <1>8, <1>9, <1>10 DEF old, new, more, place

--------------------------------------------------------------------------------
(* The walk                                                                 *)

Reachers == {m \in Range(chat.messages) : Reaching(m)}

(* Of the messages read so far, those that the gateway is to see.           *)
Reached == KeptUpTo(chat.messages, Reachers)[index - 1]

NamedRight(w, i) ==
    LET mine == {p \in CallPlaces(w) : p[1] < i /\ At(w, p).id = w[i].parts[1].id}
    IN  \/ mine = {} /\ w[i].parts[1].name = Unknown
        \/ \E p \in mine : /\ \A q \in mine : ~Before(p, q)
                           /\ w[i].parts[1].name = IF At(w, p).name = Unnamed THEN Unknown ELSE At(w, p).name

Stages == {"payload", "messages", "calls", "tools", "sent", "failed"}

WalkTypeOK ==
    /\ chat \in Chats /\ stage \in Stages /\ index \in 1 .. Len(chat.messages) + 1
    /\ call \in Nat \ {0} /\ minted \in Nat
    /\ parts \in Seq(SpokenParts) /\ wire \in Seq(WireMessage)

(* What is on the wire are the messages read so far.                        *)
HistoryInv == Len(wire) = Len(Reached) /\ \A i \in DOMAIN wire : TurnKept(Reached[i], wire[i])

(* The assistant's message at hand is translated up to its call.            *)
CallsInv == stage = "calls" =>
    LET m == chat.messages[index]
    IN  /\ index <= Len(chat.messages) /\ m.role = "assistant" /\ call <= Len(m.calls) + 1
        /\ Speech(m, parts) /\ Calls(m, parts, call - 1)

(* Ids of calls are the client's or minted, and those are different.        *)
MintedInv ==
    /\ \A p \in CallPlaces(Pending) : At(Pending, p).id \in CallIds \cup {<<n>> : n \in 1 .. minted}
    /\ \A p, q \in CallPlaces(Pending) : At(Pending, p).id = At(Pending, q).id /\ p # q => At(Pending, p).id \in CallIds

(* The map has the names of the latest calls.                               *)
NamesInv ==
    /\ \A p \in CallPlaces(Pending) : At(Pending, p).id \in DOMAIN toolNames
    /\ \A id \in DOMAIN toolNames : \E p \in CallPlaces(Pending) :
          Latest(Pending, p, id) /\ toolNames[id] = At(Pending, p).name

ResultsInv == \A i \in DOMAIN wire : wire[i].role = "tool" /\ Reached[i].name = Unnamed => NamedRight(wire, i)

(* What was read could be translated.                                       *)
ValidInv ==
    /\ stage # "payload" => chat.sound
    /\ \A j \in 1 .. index - 1 : chat.messages[j].role = "assistant" =>
          \A k \in DOMAIN chat.messages[j].calls : chat.messages[j].calls[k].valid
    /\ stage = "calls" => \A k \in 1 .. call - 1 : chat.messages[index].calls[k].valid

EndInv ==
    /\ stage \in {"tools", "sent"} => index = Len(chat.messages) + 1
    /\ stage = "sent" => /\ \A i \in DOMAIN Declared : Missing(Declared[i].schema) \/ Readable(Declared[i].schema)
                         /\ ToolsKept

WalkInv == HistoryInv /\ CallsInv /\ MintedInv /\ NamesInv /\ ResultsInv /\ ValidInv /\ EndInv

TranslationInv == WalkTypeOK /\ IF stage = "failed" THEN Refusable ELSE WalkInv

(* A payload is made of messages and tools.                                 *)
LEMMA ChatTyped ==
    ASSUME WalkTypeOK
    PROVE  /\ chat.messages \in Seq(Message) /\ chat.tools \in Seq(Tool) /\ chat.sound \in BOOLEAN
           /\ Len(chat.messages) \in Nat /\ index \in Nat \ {0}
           /\ \A j \in 1 .. Len(chat.messages) : chat.messages[j] \in Message
<1>1. chat \in Chat  BY ChatsAssumption DEF WalkTypeOK
<1>2. chat.messages \in Seq(Message) /\ chat.tools \in Seq(Tool) /\ chat.sound \in BOOLEAN
  BY <1>1 DEF Chat
<1> QED  BY <1>2 DEF WalkTypeOK

(* The next message is among those to be seen, or is not.                   *)
LEMMA ReachedStep ==
    ASSUME WalkTypeOK, index <= Len(chat.messages)
    PROVE  /\ Reached \in Seq(Message)
           /\ KeptUpTo(chat.messages, Reachers)[index] =
                IF Reaching(chat.messages[index]) THEN Append(Reached, chat.messages[index]) ELSE Reached
<1>1. index \in 1 .. Len(chat.messages) /\ index - 1 \in 0 .. Len(chat.messages)  BY ChatTyped
<1>2. Reached \in Seq(Message)
  <2>1. Reached \in Seq(Message \cap Reachers)  BY <1>1, ChatTyped, KeptTyped DEF Reached
  <2>2. \A k \in Seq(Message \cap Reachers) : k \in Seq(Message)  OBVIOUS
  <2> QED  BY <2>1, <2>2
<1>3. chat.messages[index] \in Range(chat.messages)  BY <1>1, ChatTyped DEF Range
<1>4. chat.messages[index] \in Reachers <=> Reaching(chat.messages[index])  BY <1>3 DEF Reachers
<1>5. KeptUpTo(chat.messages, Reachers)[index] =
        IF chat.messages[index] \in Reachers THEN Append(Reached, chat.messages[index]) ELSE Reached
  <2> DEFINE s == chat.messages
  <2>1. Len(s) \in Nat /\ index \in 1 .. Len(s)  BY <1>1, ChatTyped
  <2> HIDE DEF s
  <2>2. KeptUpTo(s, Reachers)[index] = IF s[index] \in Reachers THEN Append(KeptUpTo(s, Reachers)[index - 1], s[index])
                                       ELSE KeptUpTo(s, Reachers)[index - 1]
    BY <2>1, KeptSteps
  <2> QED  BY <2>2 DEF s, Reached
<1> QED  BY <1>2, <1>4, <1>5

(* A turn that is kept is added to the history,                             *)
LEMMA HistoryGrows ==
    ASSUME WalkTypeOK, HistoryInv, index <= Len(chat.messages), Reaching(chat.messages[index]),
           NEW w \in WireMessage, TurnKept(chat.messages[index], w),
           UNCHANGED chat, index' = index + 1, wire' = Append(wire, w)
    PROVE  /\ HistoryInv' /\ Len(Reached') = Len(wire) + 1 /\ Reached'[Len(wire) + 1] = chat.messages[index]
           /\ \A i \in 1 .. Len(wire) : Reached'[i] = Reached[i]
<1>1. Reached' = Append(Reached, chat.messages[index])
  <2>1. Reached' = KeptUpTo(chat.messages, Reachers)[(index + 1) - 1]  BY DEF Reached, Reachers
  <2>2. (index + 1) - 1 = index  BY ChatTyped
  <2> QED  BY <2>1, <2>2, ReachedStep
<1>2. Reached \in Seq(Message) /\ chat.messages[index] \in Message /\ Len(wire) = Len(Reached)
  BY ReachedStep, ChatTyped DEF HistoryInv
<1> DEFINE r == Reached'
           m == chat.messages[index]
<1>3. Len(r) = Len(wire) + 1 /\ r[Len(wire) + 1] = m /\ \A i \in 1 .. Len(wire) : r[i] = Reached[i]
  <2> HIDE DEF r, m
  <2>1. r = Append(Reached, m)  BY <1>1 DEF r, m
  <2> QED  BY <1>2, <2>1 DEF m
<1>4. /\ wire \in Seq(WireMessage) /\ Len(wire') = Len(wire) + 1 /\ wire'[Len(wire) + 1] = w
      /\ \A i \in 1 .. Len(wire) : wire'[i] = wire[i]
      /\ DOMAIN wire' = 1 .. Len(wire) + 1 /\ DOMAIN wire = 1 .. Len(wire)
  BY DEF WalkTypeOK
<1>5. \A i \in 1 .. Len(wire) : TurnKept(Reached[i], wire[i])  BY <1>4 DEF HistoryInv
<1> HIDE DEF r, m
<1>6. \A i \in DOMAIN wire' : TurnKept(r[i], wire'[i])
  <2> SUFFICES ASSUME NEW i \in DOMAIN wire' PROVE TurnKept(r[i], wire'[i])
    OBVIOUS
  <2>1. CASE i \in 1 .. Len(wire)  BY <1>3, <1>4, <1>5, <2>1
  <2>2. CASE i = Len(wire) + 1  BY <1>3, <1>4, <2>2 DEF m
  <2> QED  BY <1>4, <2>1, <2>2
<1>7. HistoryInv'  BY <1>3, <1>4, <1>6 DEF HistoryInv, r
<1> QED  BY <1>3, <1>7 DEF r, m

(* and one that is not to be seen is not.                                   *)
LEMMA HistoryStays ==
    ASSUME WalkTypeOK, HistoryInv, index <= Len(chat.messages), ~Reaching(chat.messages[index]),
           UNCHANGED <<chat, wire>>, index' = index + 1
    PROVE  HistoryInv' /\ Reached' = Reached
<1>1. Reached' = KeptUpTo(chat.messages, Reachers)[(index + 1) - 1]  BY DEF Reached, Reachers
<1>2. (index + 1) - 1 = index  BY ChatTyped
<1>3. Reached' = Reached  BY <1>1, <1>2, ReachedStep
<1> QED  BY <1>3 DEF HistoryInv

(* The places before a message that is added are the same.                  *)
LEMMA PlacesBefore ==
    ASSUME NEW w \in Seq(WireMessage), NEW x \in WireMessage
    PROVE  \A p : /\ p \in CallPlaces(w) => p \in CallPlaces(Append(w, x)) /\ At(Append(w, x), p) = At(w, p)
                  /\ p \in CallPlaces(Append(w, x)) /\ p[1] < Len(w) + 1 => p \in CallPlaces(w)
<1> DEFINE v == Append(w, x)
<1>1. /\ DOMAIN v = 1 .. Len(w) + 1 /\ DOMAIN w = 1 .. Len(w) /\ Len(w) \in Nat
      /\ \A i \in 1 .. Len(w) : v[i] = w[i]
  OBVIOUS
<1> HIDE DEF v
<1>2. \A i, k : IsPlace(w, i, k) => IsPlace(v, i, k) /\ v[i] = w[i]  BY <1>1 DEF IsPlace
<1>3. \A i, k : IsPlace(v, i, k) /\ i < Len(w) + 1 => IsPlace(w, i, k)
  <2> SUFFICES ASSUME NEW i, NEW k, IsPlace(v, i, k), i < Len(w) + 1 PROVE IsPlace(w, i, k)
    OBVIOUS
  <2>1. i \in 1 .. Len(w)  BY <1>1 DEF IsPlace
  <2> QED  BY <1>1, <2>1 DEF IsPlace
<1> SUFFICES ASSUME NEW p
             PROVE  /\ p \in CallPlaces(w) => p \in CallPlaces(v) /\ At(v, p) = At(w, p)
                    /\ p \in CallPlaces(v) /\ p[1] < Len(w) + 1 => p \in CallPlaces(w)
  BY DEF v
<1>4. ASSUME p \in CallPlaces(w) PROVE p \in CallPlaces(v) /\ At(v, p) = At(w, p)
  <2>1. PICK i, k : IsPlace(w, i, k) /\ p = <<i, k>>  BY <1>4, Places
  <2>2. p \in CallPlaces(v)  BY <1>2, <2>1, Places
  <2>3. p[1] = i /\ p[2] = k /\ v[i] = w[i]  BY <1>2, <2>1
  <2> QED  BY <2>2, <2>3 DEF At
<1>5. ASSUME p \in CallPlaces(v), p[1] < Len(w) + 1 PROVE p \in CallPlaces(w)
  <2>1. PICK i, k : IsPlace(v, i, k) /\ p = <<i, k>>  BY <1>5, Places
  <2>2. p[1] = i  BY <2>1
  <2> QED  BY <1>3, <1>5, <2>1, <2>2, Places
<1> QED  BY <1>4, <1>5

(* Results named before a message is added stay named right.                *)
LEMMA NamedRightStays ==
    ASSUME NEW w \in Seq(WireMessage), NEW x \in WireMessage, NEW i \in 1 .. Len(w), NamedRight(w, i)
    PROVE  NamedRight(Append(w, x), i)
<1> DEFINE v == Append(w, x)
           mine(u) == {p \in CallPlaces(u) : p[1] < i /\ At(u, p).id = u[i].parts[1].id}
<1>1. v[i] = w[i]  OBVIOUS
<1>2. \A p : /\ p \in CallPlaces(w) => p \in CallPlaces(v) /\ At(v, p) = At(w, p)
             /\ p \in CallPlaces(v) /\ p[1] < Len(w) + 1 => p \in CallPlaces(w)
  BY PlacesBefore
<1>3. v \in Seq(WireMessage)  OBVIOUS
<1> HIDE DEF v
<1>4. \A p \in CallPlaces(v) : p[1] < i => p[1] < Len(w) + 1
  <2> SUFFICES ASSUME NEW p \in CallPlaces(v), p[1] < i PROVE p[1] < Len(w) + 1
    OBVIOUS
  <2>1. p[1] \in Int  BY <1>3, PlaceWithin
  <2> QED  BY <2>1
<1>5. mine(v) = mine(w) /\ \A p \in mine(w) : At(v, p) = At(w, p)  BY <1>1, <1>2, <1>4
<1> QED  BY <1>1, <1>5 DEF NamedRight, v

--------------------------------------------------------------------------------
(* The steps of the walk                                                    *)

(* At first nothing is read.                                                *)
LEMMA InitTranslationInv == TranslationInit => TranslationInv
<1> SUFFICES ASSUME TranslationInit PROVE TranslationInv
  OBVIOUS
<1> USE DEF TranslationInit, TranslationStart
<1>1. chat \in Chat  BY ChatsAssumption
<1>2. chat.messages \in Seq(Message)  BY <1>1 DEF Chat
<1>3. WalkTypeOK  BY <1>2 DEF WalkTypeOK, Stages
<1>4. Reached = <<>>  BY <1>2, KeptSteps DEF Reached
<1>5. Pending = <<>>  BY DEF Pending
<1>6. CallPlaces(Pending) = {}  BY <1>5, Places DEF IsPlace
<1>7. HistoryInv /\ CallsInv /\ ResultsInv  BY <1>4 DEF HistoryInv, CallsInv, ResultsInv
<1>8. MintedInv /\ NamesInv  BY <1>6 DEF MintedInv, NamesInv
<1>9. ValidInv /\ EndInv  BY DEF ValidInv, EndInv
<1> QED  BY <1>3, <1>7, <1>8, <1>9 DEF TranslationInv, WalkInv

(* A failure is right when something cannot be translated.                  *)
LEMMA FailureIsRight ==
    ASSUME TranslationInv, Fail, Refusable
    PROVE  TranslationInv'
<1>1. WalkTypeOK'  BY DEF TranslationInv, WalkTypeOK, Fail, Stages
<1>2. Refusable'  BY DEF Fail, Refusable
<1> QED  BY <1>1, <1>2 DEF TranslationInv, Fail

(* The messages at hand keep their calls, and so does what is known of them.*)
LEMMA CallsStay ==
    ASSUME MintedInv, NamesInv, SameCalls(Pending, Pending'), UNCHANGED <<minted, toolNames>>
    PROVE  MintedInv' /\ NamesInv'
<1> DEFINE w == Pending
           v == Pending'
<1>1. CallPlaces(v) = CallPlaces(w) /\ \A p \in CallPlaces(w) : At(v, p) = At(w, p)  BY DEF SameCalls
<1>2. MintedInv'  BY <1>1 DEF MintedInv
<1>3. \A p \in CallPlaces(w) : \A id : Latest(w, p, id) => Latest(v, p, id)  BY <1>1 DEF Latest
<1>4. NamesInv'  BY <1>1, <1>3 DEF NamesInv
<1> QED  BY <1>2, <1>4

(* The payload is read or refused.                                          *)
LEMMA DecodePreserves ==
    ASSUME TranslationInv, Decode
    PROVE  TranslationInv'
<1>1. CASE ~chat.sound /\ Fail  BY <1>1, FailureIsRight DEF Refusable
<1>2. CASE /\ chat.sound /\ stage' = "messages"
           /\ UNCHANGED <<chat, index, call, parts, toolNames, minted, system, wire, offered>>
  <2>1. stage = "payload" /\ WalkTypeOK /\ WalkInv  BY DEF Decode, TranslationInv
  <2>2. Pending' = Pending /\ Reached' = Reached  BY <1>2, <2>1 DEF Pending, Reached, Reachers
  <2>3. WalkTypeOK'  BY <1>2, <2>1 DEF WalkTypeOK, Stages
  <2>4. HistoryInv'  BY <1>2, <2>1, <2>2 DEF WalkInv, HistoryInv
  <2>5. ResultsInv'  BY <1>2, <2>1, <2>2 DEF WalkInv, ResultsInv
  <2>6. MintedInv' /\ NamesInv'
    <3>1. SameCalls(Pending, Pending')  BY <2>2 DEF SameCalls
    <3> QED  BY <1>2, <2>1, <3>1, CallsStay DEF WalkInv
  <2>7. CallsInv' /\ ValidInv' /\ EndInv'  BY <1>2, <2>1 DEF WalkInv, CallsInv, ValidInv, EndInv
  <2> QED  BY <1>2, <2>3, <2>4, <2>5, <2>6, <2>7 DEF TranslationInv, WalkInv
<1> QED  BY <1>1, <1>2 DEF Decode

(* The message at hand.                                                     *)
LEMMA AtMessage ==
    ASSUME TranslationInv, NEW role, Now(role)
    PROVE  /\ WalkTypeOK /\ WalkInv /\ stage = "messages" /\ index <= Len(chat.messages)
           /\ index \in 1 .. Len(chat.messages) /\ index + 1 \in 1 .. Len(chat.messages) + 1
           /\ chat.messages[index] \in Message /\ chat.messages[index].role = role
           /\ Pending = wire
<1>1. stage = "messages" /\ index <= Len(chat.messages) /\ chat.messages[index].role = role  BY DEF Now
<1>2. WalkTypeOK /\ WalkInv  BY <1>1 DEF TranslationInv
<1>3. index \in 1 .. Len(chat.messages) /\ index + 1 \in 1 .. Len(chat.messages) + 1  BY <1>1, <1>2, ChatTyped
<1> QED  BY <1>1, <1>2, <1>3, ChatTyped DEF Pending

(* What was read stays valid, when the next message has no calls.           *)
LEMMA ValidStays ==
    ASSUME WalkTypeOK, ValidInv, index \in 1 .. Len(chat.messages), chat.messages[index].role # "assistant",
           stage = "messages", UNCHANGED <<chat, stage>>, index' = index + 1
    PROVE  ValidInv'
<1>1. \A j \in 1 .. index' - 1 : j \in 1 .. index - 1 \/ j = index  BY ChatTyped
<1> QED  BY <1>1 DEF ValidInv

(* A system message is not on the wire.                                     *)
LEMMA SystemPreserves ==
    ASSUME TranslationInv, System
    PROVE  TranslationInv'
<1>1. /\ WalkTypeOK /\ WalkInv /\ stage = "messages" /\ index <= Len(chat.messages)
      /\ index \in 1 .. Len(chat.messages) /\ index + 1 \in 1 .. Len(chat.messages) + 1
      /\ chat.messages[index].role = "system" /\ Pending = wire
  BY AtMessage DEF System
<1>2. index' = index + 1 /\ UNCHANGED <<chat, stage, call, parts, toolNames, minted, wire, offered>>
  BY DEF System
<1>3. WalkTypeOK'  BY <1>1, <1>2 DEF WalkTypeOK
<1>4. HistoryInv' /\ Reached' = Reached
  <2>1. ~Reaching(chat.messages[index])  BY <1>1 DEF Reaching
  <2> QED  BY <1>1, <1>2, <2>1, HistoryStays DEF WalkInv
<1>5. ResultsInv'  BY <1>1, <1>2, <1>4 DEF WalkInv, ResultsInv
<1>6. Pending' = Pending  BY <1>2 DEF Pending
<1>7. MintedInv' /\ NamesInv'
  <2>1. SameCalls(Pending, Pending')  BY <1>6 DEF SameCalls
  <2> QED  BY <1>1, <1>2, <2>1, CallsStay DEF WalkInv
<1>8. ValidInv'  BY <1>1, <1>2, ValidStays DEF WalkInv
<1>9. CallsInv' /\ EndInv'  BY <1>1, <1>2 DEF CallsInv, EndInv
<1> QED  BY <1>1, <1>2, <1>3, <1>4, <1>5, <1>7, <1>8, <1>9 DEF TranslationInv, WalkInv

(* An assistant's message begins with what it says.                         *)
LEMMA AssistantPreserves ==
    ASSUME TranslationInv, Assistant
    PROVE  TranslationInv'
<1> DEFINE m  == chat.messages[index]
           ps == TextPart("reasoning", messageReasoning(m)) \o TextPart("text", messageText(m.content))
<1>1. /\ WalkTypeOK /\ WalkInv /\ stage = "messages" /\ index <= Len(chat.messages)
      /\ index \in 1 .. Len(chat.messages) /\ m \in Message /\ m.role = "assistant" /\ Pending = wire
  BY AtMessage DEF Assistant
<1>2. /\ parts' = ps /\ stage' = "calls" /\ call' = 1
      /\ UNCHANGED <<chat, index, toolNames, minted, system, wire, offered>>
  BY DEF Assistant
<1>3. ps \in Seq(TextParts) /\ Speech(m, ps) /\ Calls(m, ps, 0)  BY <1>1, SpeechBegins
<1> HIDE DEF ps
<1>4. ps \in Seq(SpokenParts)  BY <1>3 DEF SpokenParts
<1>5. WalkTypeOK'  BY <1>1, <1>2, <1>4 DEF WalkTypeOK, Stages
<1>6. Reached' = Reached  BY <1>2 DEF Reached, Reachers
<1>7. HistoryInv' /\ ResultsInv'  BY <1>1, <1>2, <1>6 DEF WalkInv, HistoryInv, ResultsInv
<1>8. CallsInv'
  <2>1. Len(m.calls) \in Nat  BY <1>1, MessageTyped
  <2>2. 1 <= Len(m.calls) + 1 /\ 1 - 1 = 0  BY <2>1
  <2> HIDE DEF m
  <2>3. m' = m  BY <1>2 DEF m
  <2> QED  BY <1>1, <1>2, <1>3, <2>2, <2>3 DEF CallsInv, m
<1>9. MintedInv' /\ NamesInv'
  <2>1. wire \in Seq(WireMessage)  BY <1>1 DEF WalkTypeOK
  <2>2. Spoken(ps) \in WireMessage  BY <1>4 DEF Spoken, WireMessage
  <2>3. \A k \in DOMAIN ps : ps[k].kind # "tool-call"
    <3>1. \A k \in DOMAIN ps : ps[k] \in TextParts  BY <1>3
    <3>2. \A q \in TextParts : q.kind # "tool-call"  BY DEF TextParts
    <3> QED  BY <3>1, <3>2
  <2>4. SameCalls(wire, Append(wire, Spoken(ps)))  BY <2>1, <2>2, <2>3, NoCallAdded DEF Spoken
  <2>5. Pending' = Append(wire, Spoken(ps))  BY <1>2 DEF Pending
  <2> QED  BY <1>1, <1>2, <2>4, <2>5, CallsStay DEF WalkInv
<1>10. ValidInv' /\ EndInv'  BY <1>1, <1>2 DEF WalkInv, ValidInv, EndInv
<1> QED  BY <1>2, <1>5, <1>7, <1>8, <1>9, <1>10 DEF TranslationInv, WalkInv

(* The names of calls are those of functions.                               *)
LEMMA NamesTyped ==
    ASSUME NEW w \in Seq(WireMessage), NEW p \in CallPlaces(w)
    PROVE  At(w, p) \in CallParts
<1>1. PICK i, k : IsPlace(w, i, k) /\ p = <<i, k>>  BY Places
<1>2. w[i] \in WireMessage  BY <1>1 DEF IsPlace
<1>3. w[i].parts \in Seq(SpokenParts)  BY <1>1, <1>2 DEF IsPlace, WireMessage
<1>4. w[i].parts[k] \in SpokenParts /\ w[i].parts[k].kind = "tool-call"  BY <1>1, <1>3 DEF IsPlace
<1>5. w[i].parts[k] \in CallParts  BY <1>4 DEF SpokenParts, TextParts, CallParts
<1> QED  BY <1>1, <1>5 DEF At

(* The minted ids meet no other.                                            *)
LEMMA MintedDiffer ==
    ASSUME NEW n \in Nat
    PROVE  /\ <<n>> \notin CallIds /\ <<n>> # NoId /\ <<n>> \in WireIds
           /\ \A k \in Nat : <<n>> = <<k>> => n = k
<1>1. <<n>> \in Seq(Nat)  OBVIOUS
<1> QED  BY <1>1, IdsAssumption DEF WireIds

(* A call joins its message and the map.                                    *)
LEMMA TranslateCallPreserves ==
    ASSUME TranslationInv, TranslateCall
    PROVE  TranslationInv'
<1> DEFINE m == chat.messages[index]
           c == m.calls[call]
           q == [kind |-> "tool-call", id |-> IdOf(c), name |-> c.name]
<1>1. /\ WalkTypeOK /\ WalkInv /\ stage = "calls" /\ index <= Len(chat.messages)
      /\ m.role = "assistant" /\ call <= Len(m.calls) /\ Speech(m, parts) /\ Calls(m, parts, call - 1)
  <2>1. stage = "calls" /\ call <= Len(m.calls)  BY DEF TranslateCall, AtCall
  <2>2. WalkTypeOK /\ WalkInv  BY <2>1 DEF TranslationInv
  <2> QED  BY <2>1, <2>2 DEF WalkInv, CallsInv
<1>2. index \in 1 .. Len(chat.messages) /\ m \in Message  BY <1>1, ChatTyped
<1>3. m.calls \in Seq(Call) /\ Len(m.calls) \in Nat  BY <1>2, MessageTyped
<1>4. call \in 1 .. Len(m.calls) /\ call \in Nat /\ minted \in Nat  BY <1>1, <1>3 DEF WalkTypeOK
<1>5. c \in Call  BY <1>3, <1>4
<1>6. CASE ~c.valid /\ Fail
  <2>1. m \in Range(chat.messages)  BY <1>2, ChatTyped DEF Range
  <2>2. c \in Range(m.calls)  BY <1>3, <1>4 DEF Range
  <2>3. Refusable  BY <1>1, <1>6, <2>1, <2>2 DEF Refusable
  <2> QED  BY <1>6, <2>3, FailureIsRight
<1>7. CASE /\ c.valid
           /\ toolNames' = [id \in DOMAIN toolNames \cup {IdOf(c)} |->
                               IF id = IdOf(c) THEN c.name ELSE toolNames[id]]
           /\ parts' = Append(parts, q)
           /\ minted' = IF c.id = NoId THEN minted + 1 ELSE minted
           /\ call' = call + 1
           /\ UNCHANGED <<chat, stage, index, system, wire, offered>>
  <2>1. c.id \in CallIds \cup {NoId} /\ c.name \in FunctionNames \cup {Unnamed}  BY <1>5 DEF Call
  <2>2. /\ IdOf(c) \in WireIds /\ (c.id # NoId => IdOf(c) = c.id /\ c.id \in CallIds)
        /\ (c.id = NoId => IdOf(c) = <<minted + 1>>)
    <3>1. minted + 1 \in Nat  BY <1>4
    <3> QED  BY <2>1, <3>1, MintedDiffer DEF IdOf, WireIds
  <2>3. q \in CallParts /\ q.id = IdOf(c) /\ q.name = c.name  BY <2>1, <2>2 DEF CallParts
  <2>4. parts \in Seq(SpokenParts) /\ wire \in Seq(WireMessage)  BY <1>1 DEF WalkTypeOK
  <2>5. /\ parts' \in Seq(SpokenParts) /\ Speech(m, parts') /\ Calls(m, parts', call)
    <3>1. call - 1 \in Nat /\ (call - 1) + 1 = call  BY <1>4
    <3> HIDE DEF c, q, m
    <3>2. q.name = m.calls[call].name /\ (m.calls[call].id # NoId => q.id = m.calls[call].id)
      BY <2>2, <2>3 DEF c
    <3> QED  BY <1>1, <1>2, <1>7, <2>3, <2>4, <3>1, <3>2, CallAdded
  <2>6. minted' \in Nat /\ minted' >= minted /\ call' \in Nat \ {0} /\ call' - 1 = call
    BY <1>4, <1>7
  <2>7. WalkTypeOK'  BY <1>1, <1>7, <2>5, <2>6 DEF WalkTypeOK
  <2>8. Reached' = Reached  BY <1>7 DEF Reached, Reachers
  <2>9. HistoryInv' /\ ResultsInv'  BY <1>1, <1>7, <2>8 DEF WalkInv, HistoryInv, ResultsInv
  <2>10. CallsInv'
    <3>1. call + 1 <= Len(m.calls) + 1  BY <1>3, <1>4
    <3> HIDE DEF m
    <3>2. m' = m  BY <1>7 DEF m
    <3> QED  BY <1>1, <1>7, <2>5, <2>6, <3>1, <3>2 DEF CallsInv, m
  <2>11. ValidInv'
    <3>1. \A k \in 1 .. call' - 1 : k \in 1 .. call - 1 \/ k = call  BY <1>4, <1>7
    <3> QED  BY <1>1, <1>7, <3>1 DEF WalkInv, ValidInv
  <2>12. EndInv'  BY <1>1, <1>7 DEF EndInv
  <2> DEFINE w  == Pending
             v  == Pending'
             place == <<Len(wire) + 1, Len(parts) + 1>>
  <2>13. w = Append(wire, Spoken(parts)) /\ v = Append(wire, Spoken(Append(parts, q)))
    BY <1>1, <1>7 DEF Pending
  <2>14. /\ CallPlaces(v) = CallPlaces(w) \cup {place} /\ place \notin CallPlaces(w)
         /\ At(v, place) = q /\ \A p \in CallPlaces(w) : At(v, p) = At(w, p) /\ ~Before(place, p)
    <3> HIDE DEF q, w, v
    <3> QED  BY <2>3, <2>4, <2>13, PlaceAdded
  <2>15. ~Before(place, place)  BY <2>4 DEF Before
  <2> HIDE DEF w, v, place, q, c, m
  <2>16. \A p \in CallPlaces(w) : At(w, p).id \in CallIds \cup {<<n>> : n \in 1 .. minted}
    BY <1>1 DEF WalkInv, MintedInv, w
  <2>17. \A p \in CallPlaces(w) : c.id = NoId => At(w, p).id # IdOf(c)
    <3> SUFFICES ASSUME NEW p \in CallPlaces(w), c.id = NoId PROVE At(w, p).id # <<minted + 1>>
      BY <2>2
    <3>1. minted + 1 \in Nat /\ minted + 1 \notin 1 .. minted  BY <1>4
    <3>2. \A n \in 1 .. minted : n \in Nat  BY <1>4
    <3> QED  BY <2>16, <3>1, <3>2, MintedDiffer
  <2>18. MintedInv'
    <3>1. q.id \in CallIds \cup {<<n>> : n \in 1 .. minted'}
      <4>1. CASE c.id # NoId  BY <2>2, <2>3, <4>1
      <4>2. CASE c.id = NoId
        <5>1. minted + 1 \in 1 .. minted'  BY <1>4, <1>7, <4>2
        <5> QED  BY <2>2, <2>3, <4>2, <5>1
      <4> QED  BY <4>1, <4>2
    <3>2. \A n \in 1 .. minted : n \in 1 .. minted'  BY <1>4, <2>6
    <3>3. \A p \in CallPlaces(v) : At(v, p).id \in CallIds \cup {<<n>> : n \in 1 .. minted'}
      BY <2>14, <2>16, <3>1, <3>2
    <3>4. \A p, r \in CallPlaces(w) : At(w, p).id = At(w, r).id /\ p # r => At(w, p).id \in CallIds
      BY <1>1 DEF WalkInv, MintedInv, w
    <3>5. \A p \in CallPlaces(w) : At(w, p).id = q.id => q.id \in CallIds
      BY <2>2, <2>3, <2>17
    <3>6. \A p, r \in CallPlaces(v) : At(v, p).id = At(v, r).id /\ p # r => At(v, p).id \in CallIds
      BY <2>14, <3>4, <3>5
    <3> QED  BY <3>3, <3>6 DEF MintedInv, v
  <2>19. NamesInv'
    <3>1. /\ \A p \in CallPlaces(w) : At(w, p).id \in DOMAIN toolNames
          /\ \A id \in DOMAIN toolNames : \E p \in CallPlaces(w) :
                Latest(w, p, id) /\ toolNames[id] = At(w, p).name
      BY <1>1 DEF WalkInv, NamesInv, w
    <3>2. /\ DOMAIN toolNames' = DOMAIN toolNames \cup {q.id} /\ toolNames'[q.id] = q.name
          /\ \A id \in DOMAIN toolNames : id # q.id => toolNames'[id] = toolNames[id]
      BY <1>7, <2>3
    <3>3. \A p \in CallPlaces(v) : At(v, p).id \in DOMAIN toolNames'  BY <2>14, <3>1, <3>2
    <3>4. Latest(v, place, q.id)  BY <2>14, <2>15 DEF Latest
    <3>5. \A id : \A p \in CallPlaces(w) : id # q.id /\ Latest(w, p, id) => Latest(v, p, id)
      BY <2>14 DEF Latest
    <3>6. ASSUME NEW id \in DOMAIN toolNames'
          PROVE  \E p \in CallPlaces(v) : Latest(v, p, id) /\ toolNames'[id] = At(v, p).name
      <4>1. CASE id = q.id  BY <2>14, <3>2, <3>4, <4>1
      <4>2. CASE id # q.id
        <5>1. PICK p \in CallPlaces(w) : Latest(w, p, id) /\ toolNames[id] = At(w, p).name
          BY <3>1, <3>2, <4>2
        <5> QED  BY <2>14, <3>2, <3>5, <4>2, <5>1
      <4> QED  BY <4>1, <4>2
    <3> QED  BY <3>3, <3>6 DEF NamesInv, v
  <2> QED  BY <1>1, <1>7, <2>7, <2>9, <2>10, <2>11, <2>12, <2>18, <2>19 DEF TranslationInv, WalkInv
<1> QED  BY <1>6, <1>7 DEF TranslateCall

(* A message that is added without a call leaves the calls before it, and   *)
(* the results among them, as they are.                                     *)
LEMMA MessageAdded ==
    ASSUME WalkTypeOK, WalkInv, index <= Len(chat.messages), Reaching(chat.messages[index]),
           NEW w \in WireMessage, TurnKept(chat.messages[index], w),
           w.role = "tool" /\ chat.messages[index].name = Unnamed => NamedRight(Append(wire, w), Len(wire) + 1),
           UNCHANGED chat, index' = index + 1, wire' = Append(wire, w)
    PROVE  HistoryInv' /\ ResultsInv'
<1>1. /\ HistoryInv' /\ Reached'[Len(wire) + 1] = chat.messages[index]
      /\ \A i \in 1 .. Len(wire) : Reached'[i] = Reached[i]
  BY HistoryGrows DEF WalkInv
<1>2. wire \in Seq(WireMessage) /\ Len(wire) \in Nat  BY DEF WalkTypeOK
<1>3. /\ DOMAIN wire' = 1 .. Len(wire) + 1 /\ DOMAIN wire = 1 .. Len(wire)
      /\ wire'[Len(wire) + 1] = w /\ \A i \in 1 .. Len(wire) : wire'[i] = wire[i]
  BY <1>2
<1>4. \A i \in 1 .. Len(wire) : NamedRight(wire, i) => NamedRight(wire', i)  BY <1>2, NamedRightStays
<1>5. \A i \in 1 .. Len(wire) : wire[i].role = "tool" /\ Reached[i].name = Unnamed => NamedRight(wire, i)
  BY <1>3 DEF WalkInv, ResultsInv
<1>6. ASSUME NEW i \in DOMAIN wire', wire'[i].role = "tool", Reached'[i].name = Unnamed PROVE NamedRight(wire', i)
  <2>1. CASE i \in 1 .. Len(wire)  BY <1>1, <1>3, <1>4, <1>5, <1>6, <2>1
  <2>2. CASE i = Len(wire) + 1  BY <1>1, <1>3, <1>6, <2>2
  <2> QED  BY <1>3, <2>1, <2>2
<1>7. ResultsInv'  BY <1>6 DEF ResultsInv
<1> QED  BY <1>1, <1>7

(* A user's message is on the wire unless nothing of it reaches it.         *)
LEMMA UserPreserves ==
    ASSUME TranslationInv, User
    PROVE  TranslationInv'
<1> DEFINE m == chat.messages[index]
           content == orderedUserParts(m.content)
<1>1. /\ WalkTypeOK /\ WalkInv /\ stage = "messages" /\ index <= Len(chat.messages)
      /\ index \in 1 .. Len(chat.messages) /\ index + 1 \in 1 .. Len(chat.messages) + 1
      /\ m \in Message /\ m.role = "user" /\ Pending = wire
  BY AtMessage DEF User
<1>2. /\ \/ content = <<>> /\ wire' = wire
         \/ content # <<>> /\ wire' = Append(wire, [role |-> "user", parts |-> content])
      /\ index' = index + 1
      /\ UNCHANGED <<chat, stage, call, parts, toolNames, minted, system, offered>>
  BY DEF User, Add
<1>3. content \in Seq(Part)
  <2> DEFINE S == [type : {"text", "image"}, value : Pieces]
  <2>1. content \in Seq(Part \cap S)  BY <1>1, MessageTyped, FilledParts DEF orderedUserParts
  <2> HIDE DEF S, content
  <2>2. \A k \in Seq(Part \cap S) : k \in Seq(Part)  OBVIOUS
  <2> QED  BY <2>1, <2>2
<1>4. Reaching(m) <=> content # <<>>
  <2>1. content = <<>> <=> \A q \in Range(m.content) : ~(q.type \in {"text", "image"} /\ q.value # Nothing)
    BY <1>1, MessageTyped, FilledParts DEF orderedUserParts
  <2> HIDE DEF content
  <2> QED  BY <1>1, <2>1 DEF Reaching
<1> DEFINE w == [role |-> "user", parts |-> content]
<1>5. TurnKept(m, w)  BY <1>1, UserKept
<1> HIDE DEF content
<1>6. w \in WireMessage /\ w.role = "user"  BY <1>3 DEF WireMessage
<1> HIDE DEF w
<1>7. WalkTypeOK'
  <2>1. Append(wire, w) \in Seq(WireMessage)  BY <1>1, <1>6 DEF WalkTypeOK
  <2> QED  BY <1>1, <1>2, <2>1 DEF WalkTypeOK, w
<1>8. HistoryInv' /\ ResultsInv' /\ SameCalls(wire, wire')
  <2>1. CASE content = <<>>
    <3>1. HistoryInv' /\ Reached' = Reached  BY <1>1, <1>2, <1>4, <2>1, HistoryStays DEF WalkInv
    <3>2. ResultsInv'  BY <1>1, <1>2, <2>1, <3>1 DEF WalkInv, ResultsInv
    <3> QED  BY <1>2, <2>1, <3>1, <3>2 DEF SameCalls
  <2>2. CASE content # <<>>
    <3>1. wire' = Append(wire, w)  BY <1>2, <2>2 DEF w
    <3>2. HistoryInv' /\ ResultsInv'  BY <1>1, <1>2, <1>4, <1>5, <1>6, <2>2, <3>1, MessageAdded
    <3>3. SameCalls(wire, wire')  BY <1>1, <1>6, <3>1, NoCallAdded DEF WalkTypeOK
    <3> QED  BY <3>2, <3>3
  <2> QED  BY <2>1, <2>2
<1>9. MintedInv' /\ NamesInv'
  <2>1. Pending' = wire'  BY <1>1, <1>2 DEF Pending
  <2> QED  BY <1>1, <1>2, <1>8, <2>1, CallsStay DEF WalkInv
<1>10. ValidInv'  BY <1>1, <1>2, ValidStays DEF WalkInv
<1>11. CallsInv' /\ EndInv'  BY <1>1, <1>2 DEF CallsInv, EndInv
<1> QED  BY <1>1, <1>2, <1>7, <1>8, <1>9, <1>10, <1>11 DEF TranslationInv, WalkInv

(* A result is named by its call.                                           *)
LEMMA ResultPreserves ==
    ASSUME TranslationInv, ToolResult
    PROVE  TranslationInv'
<1> DEFINE m == chat.messages[index]
           p == [kind |-> "tool-result", id |-> m.id, name |-> NameFor(m), text |-> toolResultText(m.content)]
           w == [role |-> "tool", parts |-> <<p>>]
<1>1. /\ WalkTypeOK /\ WalkInv /\ stage = "messages" /\ index <= Len(chat.messages)
      /\ index \in 1 .. Len(chat.messages) /\ index + 1 \in 1 .. Len(chat.messages) + 1
      /\ m \in Message /\ m.role = "tool" /\ Pending = wire
  BY AtMessage DEF ToolResult
<1>2. /\ wire' = Append(wire, w) /\ index' = index + 1
      /\ UNCHANGED <<chat, stage, call, parts, toolNames, minted, system, offered>>
  BY DEF ToolResult, Add
<1>3. wire \in Seq(WireMessage) /\ Len(wire) \in Nat  BY <1>1 DEF WalkTypeOK
<1>4. /\ \A q \in CallPlaces(wire) : At(wire, q).id \in DOMAIN toolNames
      /\ \A id \in DOMAIN toolNames : \E q \in CallPlaces(wire) :
            Latest(wire, q, id) /\ toolNames[id] = At(wire, q).name
  BY <1>1 DEF WalkInv, NamesInv
<1>5. \A id \in DOMAIN toolNames : toolNames[id] \in FunctionNames \cup {Unnamed}
  <2>1. \A q \in CallPlaces(wire) : At(wire, q).name \in FunctionNames \cup {Unnamed}
    BY <1>3, NamesTyped DEF CallParts
  <2> QED  BY <1>4, <2>1
<1>6. /\ NameFor(m) \in FunctionNames \cup {Unknown}
      /\ m.name = Unnamed => NameFor(m) = IF m.id \notin DOMAIN toolNames THEN Unknown
                                          ELSE IF toolNames[m.id] = Unnamed THEN Unknown ELSE toolNames[m.id]
  BY <1>1, <1>5, MessageTyped DEF NameFor
<1>7. TurnKept(m, w)  BY <1>1, ResultKept
<1>8. w \in WireMessage /\ w.role = "tool" /\ w.parts[1].id = m.id /\ w.parts[1].name = NameFor(m)
  <2>1. p \in ResultParts  BY <1>1, <1>6, MessageTyped, JoinedText DEF ResultParts, toolResultText
  <2>2. p.id = m.id /\ p.name = NameFor(m)  OBVIOUS
  <2> HIDE DEF p
  <2>3. <<p>> \in Seq(ResultParts) /\ <<p>>[1] = p  BY <2>1
  <2> QED  BY <2>2, <2>3 DEF WireMessage
<1>9. Reaching(m)  BY <1>1 DEF Reaching
<1> HIDE DEF w, m
<1>10. ASSUME m.name = Unnamed PROVE NamedRight(wire', Len(wire) + 1)
  <2> DEFINE i == Len(wire) + 1
             mine == {q \in CallPlaces(wire') : q[1] < i /\ At(wire', q).id = wire'[i].parts[1].id}
  <2>1. wire'[i] = w  BY <1>2, <1>3
  <2>2. /\ \A q \in CallPlaces(wire) : q \in CallPlaces(wire') /\ At(wire', q) = At(wire, q) /\ q[1] < i
        /\ \A q \in CallPlaces(wire') : q[1] < i => q \in CallPlaces(wire)
    <3>1. \A q \in CallPlaces(wire) : q[1] < i  BY <1>3, PlaceWithin
    <3> QED  BY <1>2, <1>3, <1>8, <3>1, PlacesBefore
  <2>3. mine = {q \in CallPlaces(wire) : At(wire, q).id = m.id}  BY <1>8, <2>1, <2>2
  <2>4. wire'[i].parts[1].name = NameFor(m)  BY <1>8, <2>1
  <2> HIDE DEF i
  <2>5. CASE m.id \notin DOMAIN toolNames
    <3>1. mine = {}  BY <1>4, <2>3, <2>5
    <3>2. NameFor(m) = Unknown  BY <1>6, <1>10, <2>5
    <3> QED  BY <2>4, <3>1, <3>2 DEF NamedRight, i
  <2>6. CASE m.id \in DOMAIN toolNames
    <3>1. PICK q \in CallPlaces(wire) : Latest(wire, q, m.id) /\ toolNames[m.id] = At(wire, q).name
      BY <1>4, <2>6
    <3>2. q \in mine /\ At(wire', q) = At(wire, q) /\ \A r \in mine : ~Before(q, r)
      BY <2>2, <2>3, <3>1 DEF Latest
    <3>3. NameFor(m) = IF At(wire', q).name = Unnamed THEN Unknown ELSE At(wire', q).name
      BY <1>6, <1>10, <2>6, <3>1, <3>2
    <3> QED  BY <2>4, <3>2, <3>3 DEF NamedRight, i
  <2> QED  BY <2>5, <2>6
<1>11. HistoryInv' /\ ResultsInv'  BY <1>1, <1>2, <1>7, <1>8, <1>9, <1>10, MessageAdded DEF m
<1>12. WalkTypeOK'
  <2>1. Append(wire, w) \in Seq(WireMessage)  BY <1>3, <1>8
  <2> QED  BY <1>1, <1>2, <2>1 DEF WalkTypeOK
<1>13. MintedInv' /\ NamesInv'
  <2>1. SameCalls(wire, wire')  BY <1>2, <1>3, <1>8, NoCallAdded
  <2>2. Pending' = wire'  BY <1>1, <1>2 DEF Pending
  <2> QED  BY <1>1, <1>2, <2>1, <2>2, CallsStay DEF WalkInv
<1>14. ValidInv'  BY <1>1, <1>2, ValidStays DEF WalkInv, m
<1>15. CallsInv' /\ EndInv'  BY <1>1, <1>2 DEF CallsInv, EndInv
<1> QED  BY <1>1, <1>2, <1>11, <1>12, <1>13, <1>14, <1>15 DEF TranslationInv, WalkInv


(* An assistant's message is on the wire when its last call is.             *)
LEMMA EndAssistantPreserves ==
    ASSUME TranslationInv, EndAssistant
    PROVE  TranslationInv'
<1> DEFINE m == chat.messages[index]
           w == Spoken(parts)
<1>1. /\ WalkTypeOK /\ WalkInv /\ stage = "calls" /\ index <= Len(chat.messages)
      /\ m.role = "assistant" /\ call <= Len(m.calls) + 1 /\ ~(call <= Len(m.calls))
      /\ Speech(m, parts) /\ Calls(m, parts, call - 1)
  <2>1. stage = "calls" /\ ~(call <= Len(m.calls))  BY DEF EndAssistant, AtCall
  <2>2. WalkTypeOK /\ WalkInv  BY <2>1 DEF TranslationInv
  <2> QED  BY <2>1, <2>2 DEF WalkInv, CallsInv
<1>2. /\ index \in 1 .. Len(chat.messages) /\ index + 1 \in 1 .. Len(chat.messages) + 1 /\ m \in Message
  BY <1>1, ChatTyped
<1>3. m.calls \in Seq(Call) /\ Len(m.calls) \in Nat /\ DOMAIN m.calls = 1 .. Len(m.calls)  BY <1>2, MessageTyped
<1>4. call - 1 = Len(m.calls)  BY <1>1, <1>3 DEF WalkTypeOK
<1>5. /\ wire' = Append(wire, w) /\ stage' = "messages" /\ index' = index + 1
      /\ UNCHANGED <<chat, call, parts, toolNames, minted, system, offered>>
  BY DEF EndAssistant, Add, Spoken
<1>6. w \in WireMessage /\ w.role = "assistant"  BY <1>1 DEF WalkTypeOK, WireMessage, Spoken
<1>7. TurnKept(m, w)
  <2>1. parts \in Seq(SpokenParts)  BY <1>1 DEF WalkTypeOK
  <2> QED  BY <1>1, <1>2, <1>4, <2>1, AssistantKept DEF Spoken
<1>8. WalkTypeOK'
  <2>1. Append(wire, w) \in Seq(WireMessage)  BY <1>1, <1>6 DEF WalkTypeOK
  <2> QED  BY <1>1, <1>2, <1>5, <2>1 DEF WalkTypeOK, Stages
<1> HIDE DEF w
<1>9. HistoryInv' /\ ResultsInv'
  <2>1. Reaching(m)  BY <1>1 DEF Reaching
  <2> QED  BY <1>1, <1>5, <1>6, <1>7, <2>1, MessageAdded
<1>10. MintedInv' /\ NamesInv'
  <2>1. Pending' = Pending  BY <1>1, <1>5 DEF Pending, w
  <2>2. SameCalls(Pending, Pending')  BY <2>1 DEF SameCalls
  <2> QED  BY <1>1, <1>5, <2>2, CallsStay DEF WalkInv
<1>11. ValidInv'
  <2>1. \A j \in 1 .. index' - 1 : j \in 1 .. index - 1 \/ j = index  BY <1>2, <1>5
  <2>2. chat.sound /\ \A k \in DOMAIN m.calls : m.calls[k].valid  BY <1>1, <1>3, <1>4 DEF WalkInv, ValidInv
  <2>3. \A j \in 1 .. index - 1 : chat.messages[j].role = "assistant" =>
           \A k \in DOMAIN chat.messages[j].calls : chat.messages[j].calls[k].valid
    BY <1>1 DEF WalkInv, ValidInv
  <2> QED  BY <1>5, <2>1, <2>2, <2>3 DEF ValidInv
<1>12. CallsInv' /\ EndInv'  BY <1>5 DEF CallsInv, EndInv
<1> QED  BY <1>5, <1>8, <1>9, <1>10, <1>11, <1>12 DEF TranslationInv, WalkInv

(* After the last message come the tools.                                   *)
LEMMA EndMessagesPreserves ==
    ASSUME TranslationInv, EndMessages
    PROVE  TranslationInv'
<1>1. /\ stage = "messages" /\ index > Len(chat.messages) /\ stage' = "tools"
      /\ UNCHANGED <<chat, index, call, parts, toolNames, minted, system, wire, offered>>
  BY DEF EndMessages
<1>2. WalkTypeOK /\ WalkInv  BY <1>1 DEF TranslationInv
<1>3. index = Len(chat.messages) + 1
  <2>1. Len(chat.messages) \in Nat  BY <1>2, ChatTyped
  <2> QED  BY <1>1, <1>2, <2>1 DEF WalkTypeOK
<1>4. Pending' = Pending /\ Reached' = Reached  BY <1>1 DEF Pending, Reached, Reachers
<1>5. WalkTypeOK'  BY <1>1, <1>2 DEF WalkTypeOK, Stages
<1>6. HistoryInv' /\ ResultsInv'  BY <1>1, <1>2, <1>4 DEF WalkInv, HistoryInv, ResultsInv
<1>7. MintedInv' /\ NamesInv'
  <2>1. SameCalls(Pending, Pending')  BY <1>4 DEF SameCalls
  <2> QED  BY <1>1, <1>2, <2>1, CallsStay DEF WalkInv
<1>8. CallsInv' /\ ValidInv' /\ EndInv'  BY <1>1, <1>2, <1>3 DEF WalkInv, CallsInv, ValidInv, EndInv
<1> QED  BY <1>1, <1>5, <1>6, <1>7, <1>8 DEF TranslationInv, WalkInv

(* The declared tools are the named functions of the payload.               *)
LEMMA DeclaredTools ==
    ASSUME WalkTypeOK
    PROVE  /\ Declared \in Seq(Tool)
           /\ \A i \in DOMAIN Declared : /\ Declared[i] \in Range(chat.tools) /\ Declared[i].function
                                         /\ Declared[i].name # Unnamed /\ Declared[i].schema \in Schema
           /\ \A t \in Range(chat.tools) : t.function /\ t.name # Unnamed =>
                 t.schema \in Schema /\ \E i \in DOMAIN Declared : Declared[i] = t
<1> DEFINE S == [function : {TRUE}, name : FunctionNames, schema : Schema]
<1>1. chat.tools \in Seq(Tool)  BY ChatTyped
<1>2. \A t \in Tool : t \in S <=> t.function /\ t.name # Unnamed
  BY EmptiesAssumption DEF Tool
<1>3. \A t \in Tool : t.schema \in Schema  BY DEF Tool
<1>4. Declared = Kept(chat.tools, S)  BY DEF Declared
<1> HIDE DEF S
<1>5. Declared \in Seq(Tool \cap S) /\ Range(Declared) = Range(chat.tools) \cap S
  BY <1>1, <1>4, KeptWhole
<1>6. \A t \in Range(chat.tools) : t \in Tool  BY <1>1 DEF Range
<1>7. \A k \in Seq(Tool \cap S) : k \in Seq(Tool)  OBVIOUS
<1>8. \A i \in DOMAIN Declared : Declared[i] \in Range(Declared)  BY DEF Range
<1>9. \A t \in Range(Declared) : \E i \in DOMAIN Declared : Declared[i] = t  BY DEF Range
<1> QED  BY <1>2, <1>3, <1>5, <1>6, <1>7, <1>8, <1>9

(* Tools are refused for a schema that cannot be sent, and offered as       *)
(* declared.                                                                *)
LEMMA TranslateToolsPreserves ==
    ASSUME TranslationInv, TranslateTools
    PROVE  TranslationInv'
<1>1. stage = "tools" /\ WalkTypeOK /\ WalkInv  BY DEF TranslateTools, TranslationInv
<1>2. CASE /\ \E i \in DOMAIN Declared : ~(Missing(Declared[i].schema) \/ Readable(Declared[i].schema))
           /\ Fail
  <2>1. PICK i \in DOMAIN Declared : ~(Missing(Declared[i].schema) \/ Readable(Declared[i].schema))  BY <1>2
  <2> DEFINE t == Declared[i]
  <2>2. t \in Range(chat.tools) /\ t.function /\ t.name # Unnamed /\ t.schema \in Schema  BY <1>1, DeclaredTools
  <2>3. t.schema.shape \in {"mistyped", "unreadable"} \/ (t.schema.shape = "missing" /\ t.schema.encoded)
    BY <2>1, <2>2 DEF Missing, Readable, Schema
  <2> HIDE DEF t
  <2>4. Refusable  BY <2>2, <2>3 DEF Refusable
  <2> QED  BY <1>2, <2>4, FailureIsRight
<1>3. CASE /\ \A i \in DOMAIN Declared : Missing(Declared[i].schema) \/ Readable(Declared[i].schema)
           /\ offered' = IF chat.none THEN <<>>
                         ELSE [i \in DOMAIN Declared |->
                                 [name |-> Declared[i].name, schema |-> normalizeSchema(Declared[i].schema)]]
           /\ stage' = "sent"
           /\ UNCHANGED <<chat, index, call, parts, toolNames, minted, system, wire>>
  <2>1. Pending' = Pending /\ Reached' = Reached /\ Declared' = Declared
    BY <1>1, <1>3 DEF Pending, Reached, Reachers, Declared
  <2>2. WalkTypeOK'  BY <1>1, <1>3 DEF WalkTypeOK, Stages
  <2>3. HistoryInv' /\ ResultsInv'  BY <1>1, <1>3, <2>1 DEF WalkInv, HistoryInv, ResultsInv
  <2>4. MintedInv' /\ NamesInv'
    <3>1. SameCalls(Pending, Pending')  BY <2>1 DEF SameCalls
    <3> QED  BY <1>1, <1>3, <3>1, CallsStay DEF WalkInv
  <2>5. ToolsKept'
    <3> SUFFICES ASSUME NEW i \in DOMAIN offered'
                 PROVE  \E t \in Range(chat.tools) :
                          /\ t.function /\ t.name = offered'[i].name
                          /\ \/ offered'[i].schema = Unrestricted /\ t.schema.shape = "missing" /\ ~t.schema.encoded
                             \/ offered'[i].schema = t.schema.constraints
      BY <1>3 DEF ToolsKept
    <3>1. i \in DOMAIN Declared /\ offered'[i] = [name   |-> Declared[i].name,
                                                  schema |-> normalizeSchema(Declared[i].schema)]
      BY <1>3
    <3> DEFINE t == Declared[i]
    <3>2. t \in Range(chat.tools) /\ t.function  BY <1>1, <3>1, DeclaredTools
    <3> HIDE DEF t
    <3>3. offered'[i].name = t.name /\ offered'[i].schema = normalizeSchema(t.schema)  BY <3>1 DEF t
    <3> QED  BY <3>2, <3>3 DEF normalizeSchema, Missing
  <2>6. EndInv'  BY <1>1, <1>3, <2>1, <2>5 DEF WalkInv, EndInv
  <2>7. CallsInv' /\ ValidInv'  BY <1>1, <1>3 DEF WalkInv, CallsInv, ValidInv
  <2> QED  BY <1>3, <2>2, <2>3, <2>4, <2>6, <2>7 DEF TranslationInv, WalkInv
<1> QED  BY <1>2, <1>3 DEF TranslateTools

(* Every step of the translation keeps the invariant, and so does none.     *)
LEMMA TranslationPreserves ==
    ASSUME TranslationInv, [TranslationNext]_translationVars
    PROVE  TranslationInv'
<1>1. ASSUME UNCHANGED translationVars PROVE TranslationInv'
  <2> USE <1>1 DEF translationVars
  <2>1. Pending' = Pending /\ Reached' = Reached /\ Declared' = Declared
    BY DEF Pending, Reached, Reachers, Declared
  <2>2. WalkTypeOK' <=> WalkTypeOK  BY DEF WalkTypeOK
  <2>3. Refusable' <=> Refusable  BY DEF Refusable
  <2>4. (HistoryInv' <=> HistoryInv) /\ (ResultsInv' <=> ResultsInv)  BY <2>1 DEF HistoryInv, ResultsInv
  <2>5. (CallsInv' <=> CallsInv) /\ (ValidInv' <=> ValidInv)  BY DEF CallsInv, ValidInv
  <2>6. (MintedInv' <=> MintedInv) /\ (NamesInv' <=> NamesInv)  BY <2>1 DEF MintedInv, NamesInv
  <2>7. EndInv' <=> EndInv
    <3>1. ToolsKept' <=> ToolsKept  BY DEF ToolsKept
    <3> QED  BY <2>1, <3>1 DEF EndInv
  <2> QED  BY <2>2, <2>3, <2>4, <2>5, <2>6, <2>7 DEF TranslationInv, WalkInv
<1> QED  BY <1>1, DecodePreserves, SystemPreserves, AssistantPreserves, TranslateCallPreserves,
            EndAssistantPreserves, ResultPreserves, UserPreserves, EndMessagesPreserves,
            TranslateToolsPreserves DEF TranslationNext

(* Of a payload that is sent, everything was read and could be translated.  *)
LEMMA KeptWhenSent ==
    ASSUME TranslationInv
    PROVE  RequestIsKept
<1>1. CASE stage = "failed"  BY <1>1 DEF TranslationInv, RequestIsKept
<1>2. CASE stage = "sent"
  <2>1. WalkTypeOK /\ WalkInv /\ index = Len(chat.messages) + 1  BY <1>2 DEF TranslationInv, WalkInv, EndInv
  <2>2. /\ chat.messages \in Seq(Message) /\ Len(chat.messages) \in Nat
        /\ index - 1 = Len(chat.messages) /\ DOMAIN chat.messages = 1 .. Len(chat.messages)
    BY <2>1, ChatTyped
  <2>3. Carried = Reached  BY <2>2 DEF Carried, Reached, Reachers, Kept
  <2>4. ~Refusable
    <3>1. chat.sound  BY <1>2, <2>1 DEF WalkInv, ValidInv
    <3>2. ASSUME NEW m \in Range(chat.messages), m.role = "assistant" PROVE \A c \in Range(m.calls) : c.valid
      <4>1. PICK j \in DOMAIN chat.messages : m = chat.messages[j]  BY DEF Range
      <4>2. \A k \in DOMAIN m.calls : m.calls[k].valid  BY <2>1, <2>2, <3>2, <4>1 DEF WalkInv, ValidInv
      <4> QED  BY <4>2 DEF Range
    <3>3. ASSUME NEW t \in Range(chat.tools), t.function, t.name # Unnamed
          PROVE  ~(\/ t.schema.shape \in {"mistyped", "unreadable"}
                   \/ t.schema.shape = "missing" /\ t.schema.encoded)
      <4>1. PICK i \in DOMAIN Declared : Declared[i] = t  BY <2>1, <3>3, DeclaredTools
      <4>2. Missing(t.schema) \/ Readable(t.schema)  BY <1>2, <2>1, <4>1 DEF WalkInv, EndInv
      <4> QED  BY <4>2 DEF Missing, Readable
    <3> QED  BY <3>1, <3>2, <3>3 DEF Refusable
  <2>5. HistoryKept  BY <2>1, <2>3 DEF WalkInv, HistoryInv, HistoryKept
  <2>6. MintedIdsAreFresh
    <3>1. Pending = wire  BY <1>2 DEF Pending
    <3> QED  BY <2>1, <3>1 DEF WalkInv, MintedInv, MintedIdsAreFresh
  <2>7. ResultsNameTheirCalls  BY <2>1, <2>3 DEF WalkInv, ResultsInv, NamedRight, ResultsNameTheirCalls
  <2>8. ToolsKept  BY <1>2, <2>1 DEF WalkInv, EndInv
  <2> QED  BY <1>2, <2>4, <2>5, <2>6, <2>7, <2>8 DEF RequestIsKept
<1>3. CASE stage \notin {"failed", "sent"}  BY <1>3 DEF RequestIsKept
<1> QED  BY <1>1, <1>2, <1>3

(* The invariant holds throughout the translation.                          *)
THEOREM TranslationInvariance == TranslationSpec => []TranslationInv
<1>1. TranslationInit => TranslationInv  BY InitTranslationInv
<1>2. TranslationInv /\ [TranslationNext]_translationVars => TranslationInv'  BY TranslationPreserves
<1> QED  BY <1>1, <1>2, PTL DEF TranslationSpec

--------------------------------------------------------------------------------
(* Both readings of a turn                                                  *)

(* prepareTurn reads the evidence as explicitSessionKey alone would,        *)
THEOREM ImplementsIdentity == Spec => IdentitySpec
<1>1. Init => IdentityInit  BY TurnsAssumption DEF Init, IdentityInit
<1>2. [Next]_requestVars => [IdentityNext]_identityVars
  BY DEF Next, Identify, Translate, Prepared, requestVars
<1> QED  BY <1>1, <1>2, PTL DEF Spec, IdentitySpec

(* and the chat as buildEnvelopeForSession alone would.                     *)
THEOREM ImplementsTranslation == Spec => TranslationSpec
<1>1. Init => TranslationInit  BY TurnsAssumption DEF Init, TranslationInit
<1>2. [Next]_requestVars => [TranslationNext]_translationVars
  BY DEF Next, Identify, Translate, Prepared, requestVars
<1> QED  BY <1>1, <1>2, PTL DEF Spec, TranslationSpec

(* Types; an identity is always a valid value.                              *)
THEOREM TypeCorrect == Spec => [](IdentityTypeOK /\ WalkTypeOK)
<1>1. IdentityInv /\ TranslationInv => IdentityTypeOK /\ WalkTypeOK  BY DEF IdentityInv, TranslationInv
<1> QED
  BY <1>1, ImplementsIdentity, ImplementsTranslation, IdentityInvariance, TranslationInvariance, PTL

(* The verdict is a function of the evidence, for any set of headers, any   *)
(* values and any order.                                                    *)
THEOREM VerdictsAreOrderFree == Spec => []VerdictIsOrderFree
<1>1. IdentityInv => VerdictIsOrderFree  BY DEF IdentityInv
<1> QED  BY <1>1, ImplementsIdentity, IdentityInvariance, PTL

(* What is sent is the chat, turn by turn, and what is refused could not be *)
(* sent, for any number of messages, parts, calls and tools.                *)
THEOREM RequestsAreKept == Spec => []RequestIsKept
<1>1. TranslationInv => RequestIsKept  BY KeptWhenSent
<1> QED  BY <1>1, ImplementsTranslation, TranslationInvariance, PTL
================================================================================
